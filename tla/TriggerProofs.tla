--------------------------- MODULE TriggerProofs ---------------------------
(***************************************************************************)
(* What a run says of the network is true of it, for every catalog,        *)
(* installation and order of events: the proofs about TriggerRun.          *)
(***************************************************************************)
EXTENDS TriggerRun, FiniteSetTheorems, SequenceTheorems, TLAPS

-----------------------------------------------------------------------------
(* What a request brings back.                                             *)

Outcomes == {"open", "refused", "timeout", "unreachable"}

Native == kind.runner \in {"dns", "tcp"}

LEMMA BlankShape ==
  /\ Blank \in SubResult /\ [Blank EXCEPT !.ok = TRUE] \in SubResult
  /\ [Blank EXCEPT !.err = TRUE] \in SubResult /\ [Blank EXCEPT !.timedOut = TRUE] \in SubResult
  /\ Blank.rc = NoRc /\ Blank.code = NoCode /\ Blank.body = {}
  /\ ~Blank.failover /\ ~Blank.ok /\ ~Blank.err /\ ~Blank.timedOut
<1>1. NoRc \in Int /\ NoCode \in Int BY DEF NoRc, NoCode
<1>2. Blank \in SubResult BY <1>1 DEF Blank, SubResult
<1>3. /\ [Blank EXCEPT !.ok = TRUE] \in SubResult
      /\ [Blank EXCEPT !.err = TRUE] \in SubResult
      /\ [Blank EXCEPT !.timedOut = TRUE] \in SubResult
  BY <1>2 DEF SubResult
<1> QED BY <1>2, <1>3 DEF Blank

LEMMA ExitShape ==
  ASSUME NEW rc \in Int
  PROVE  /\ Exit(rc) \in SubResult
         /\ Exit(rc).rc = rc /\ Exit(rc).code = NoCode /\ Exit(rc).body = {}
         /\ ~Exit(rc).err /\ ~Exit(rc).timedOut /\ ~Exit(rc).failover
<1>1. Exit(rc) \in SubResult BY BlankShape DEF Exit, SubResult
<1>2. /\ Exit(rc).rc = rc /\ Exit(rc).code = Blank.code /\ Exit(rc).body = Blank.body
      /\ Exit(rc).err = Blank.err /\ Exit(rc).timedOut = Blank.timedOut
      /\ Exit(rc).failover = Blank.failover
  BY BlankShape DEF Exit, SubResult
<1> QED BY <1>1, <1>2, BlankShape

LEMMA PageShape ==
  ASSUME NEW code \in Int
  PROVE  /\ Page(code) \in SubResult
         /\ Page(code).rc = 0 /\ Page(code).code = code /\ Page(code).body = {}
         /\ ~Page(code).err /\ ~Page(code).timedOut /\ ~Page(code).failover
<1>1. Exit(0) \in SubResult BY ExitShape
<1>2. Page(code) \in SubResult BY <1>1 DEF Page, SubResult
<1>3. /\ Page(code).rc = Exit(0).rc /\ Page(code).code = code /\ Page(code).body = Exit(0).body
      /\ Page(code).err = Exit(0).err /\ Page(code).timedOut = Exit(0).timedOut
      /\ Page(code).failover = Exit(0).failover
  BY <1>1 DEF Page, SubResult
<1> QED BY <1>2, <1>3, ExitShape

LEMMA DeniedShape ==
  /\ DeniedPage \in SubResult
  /\ DeniedPage.rc = 0 /\ DeniedPage.code = 200
  /\ ~DeniedPage.err /\ ~DeniedPage.timedOut /\ ~DeniedPage.failover
<1>1. Page(200) \in SubResult BY PageShape
<1>2. DeniedPage \in SubResult BY <1>1 DEF DeniedPage, SubResult
<1>3. /\ DeniedPage.rc = Page(200).rc /\ DeniedPage.code = Page(200).code
      /\ DeniedPage.err = Page(200).err /\ DeniedPage.timedOut = Page(200).timedOut
      /\ DeniedPage.failover = Page(200).failover
  BY <1>1 DEF DeniedPage, SubResult
<1> QED BY <1>2, <1>3, PageShape

LEMMA HungShape ==
  HungCurl \in SubResult /\ HungCurl.timedOut /\ ~HungCurl.failover
<1>1. HungCurl \in SubResult BY BlankShape DEF HungCurl
<1>2. HungCurl.timedOut = TRUE /\ HungCurl.failover = Blank.failover
  BY DEF HungCurl, Blank
<1> QED BY <1>1, <1>2, BlankShape

(* The answers of curl, one by one: an exit code that is read as a drop    *)
(* comes without one only where no site can be reached.                    *)
LEMMA CurlCases ==
  ASSUME NEW up \in BOOLEAN, NEW answer \in CurlAnswers(up)
  PROVE  \/ answer = <<[Blank EXCEPT !.err = TRUE], "broken">>
         \/ answer[1] = HungCurl /\ answer[2] \in {"broken", "dropped"}
         \/ \E rc \in {6, 7, 28, 56, 60} :
              /\ answer[1] = Exit(rc)
              /\ answer[2] = "dropped" \/ (answer[2] = "broken" /\ ~(PathUp /\ up))
         \/ answer = <<Page(403), "dropped">>
         \/ answer = <<DeniedPage, "dropped">>
         \/ answer = <<Exit(0), "broken">>
         \/ answer = <<Page(200), "passed">>
<1> USE DEF BlockedRc
<1>1. CASE answer \in {[Blank EXCEPT !.err = TRUE], HungCurl} \X {"broken"}
  BY <1>1
<1>2. CASE answer \in {Exit(rc) : rc \in Unanswered(up)} \X {"broken"}
  <2>1. PICK rc \in Unanswered(up) : answer = <<Exit(rc), "broken">> BY <1>2
  <2>2. rc \in {6, 7, 28, 56, 60} /\ ~(PathUp /\ up) BY <2>1 DEF Unanswered
  <2> QED BY <2>1, <2>2
<1>3. CASE answer \in Stopped \X {"dropped"}
  <2>1. /\ answer[1] \in Stopped /\ answer[2] = "dropped"
        /\ answer = <<answer[1], "dropped">>
    BY <1>3
  <2>2. \/ \E rc \in {6, 7, 28, 56, 60} : answer[1] = Exit(rc)
        \/ answer[1] \in {Page(403), DeniedPage, HungCurl}
    BY <2>1 DEF Stopped
  <2>3. CASE answer[1] \in {Page(403), DeniedPage, HungCurl}
    <3> HIDE DEF Page
    <3> QED BY <2>1, <2>3
  <2>4. CASE \E rc \in {6, 7, 28, 56, 60} : answer[1] = Exit(rc)
    <3>1. PICK rc \in {6, 7, 28, 56, 60} : answer[1] = Exit(rc) BY <2>4
    <3> HIDE DEF Exit
    <3> QED BY <2>1, <3>1
  <2> QED BY <2>2, <2>3, <2>4
<1>4. CASE answer \in {<<Exit(0), "broken">>, <<Page(200), "passed">>} BY <1>4
<1> QED BY <1>1, <1>2, <1>3, <1>4 DEF CurlAnswers

(* An answer is the result of one request and what became of it.           *)
LEMMA CurlAnswerShape ==
  ASSUME NEW up \in BOOLEAN, NEW answer \in CurlAnswers(up)
  PROVE  /\ answer[1] \in SubResult /\ answer[2] \in Truths
         /\ ~answer[1].failover
<1> USE DEF Truths
<1>1. CASE answer = <<[Blank EXCEPT !.err = TRUE], "broken">>
  <2>1. [Blank EXCEPT !.err = TRUE].failover = FALSE BY DEF Blank
  <2> QED BY <1>1, <2>1, BlankShape
<1>2. CASE answer[1] = HungCurl /\ answer[2] \in {"broken", "dropped"}
  BY <1>2, HungShape
<1>3. ASSUME NEW rc \in {0, 6, 7, 28, 56, 60}, answer[1] = Exit(rc),
             answer[2] \in {"dropped", "broken"}
      PROVE  /\ answer[1] \in SubResult /\ answer[2] \in Truths
             /\ ~answer[1].failover
  <2>1. Exit(rc) \in SubResult /\ ~Exit(rc).failover BY ExitShape
  <2> HIDE DEF Exit
  <2> QED BY <1>3, <2>1
<1>4. CASE answer = <<Page(403), "dropped">> BY <1>4, PageShape
<1>5. CASE answer = <<DeniedPage, "dropped">> BY <1>5, DeniedShape
<1>6. CASE answer = <<Page(200), "passed">> BY <1>6, PageShape
<1> QED BY <1>1, <1>2, <1>3, <1>4, <1>5, <1>6, CurlCases

(* The answers to a native probe, one by one.                              *)
LEMMA ProbeCases ==
  ASSUME NEW answer \in ProbeAnswers
  PROVE  \/ answer = <<[Blank EXCEPT !.err = TRUE], "broken">>
         \/ ~(PathUp /\ OriginUp) /\ answer = <<Blank, "broken">>
         \/ PathUp /\ OriginUp /\ answer = <<Blank, "dropped">>
         \/ PathUp /\ OriginUp /\ answer = <<[Blank EXCEPT !.ok = TRUE], "passed">>
BY DEF ProbeAnswers

LEMMA ProbeAnswerShape ==
  ASSUME NEW answer \in ProbeAnswers
  PROVE  answer[1] \in SubResult /\ answer[2] \in Truths
<1> USE DEF Truths
<1>1. CASE answer = <<[Blank EXCEPT !.err = TRUE], "broken">> BY <1>1, BlankShape
<1>2. CASE answer = <<Blank, "broken">> BY <1>2, BlankShape
<1>3. CASE answer = <<Blank, "dropped">> BY <1>3, BlankShape
<1>4. CASE answer = <<[Blank EXCEPT !.ok = TRUE], "passed">> BY <1>4, BlankShape
<1> QED BY <1>1, <1>2, <1>3, <1>4, ProbeCases

LEMMA PortAnswerShape ==
  ASSUME NEW answer \in PortAnswers
  PROVE  answer[1] \in Outcomes /\ answer[2] \in Truths
BY DEF PortAnswers, Truths, Outcomes

-----------------------------------------------------------------------------
(* What the classifier says of one request.                                *)

(* What it says of an answer does not depend on where the answer is from.  *)
LEMMA FailoverIsNoEvidence ==
  ASSUME NEW k, k.runner = "curl", NEW c, NEW s \in SubResult
  PROVE  ClassifySub(k, [s EXCEPT !.failover = TRUE], c) = ClassifySub(k, s, c)
<1> DEFINE t == [s EXCEPT !.failover = TRUE]
<1>1. /\ t.rc = s.rc /\ t.code = s.code /\ t.body = s.body
      /\ t.err = s.err /\ t.timedOut = s.timedOut
  BY DEF SubResult
<1> HIDE DEF t
<1>2. ASSUME NEW key, NEW want PROVE KeyMatches(key, want, t) = KeyMatches(key, want, s)
  BY <1>1 DEF KeyMatches
<1>3. ASSUME NEW pred PROVE PredMatches(pred, t) <=> PredMatches(pred, s)
  BY <1>2, Zenon DEF PredMatches
<1>4. ClassifyCurlSub(k, t) = ClassifyCurlSub(k, s)
  BY <1>1, <1>3 DEF ClassifyCurlSub
<1>5. ClassifySub(k, t, c) = ClassifySub(k, s, c)
  BY <1>1, <1>4 DEF ClassifySub
<1> QED BY <1>5 DEF t

(* With a catalog entry that describes the gateway, blocked means dropped  *)
(* where a site can be reached, and allowed means passed or that the block *)
(* page is not described.                                                  *)
LEMMA CurlHonest ==
  ASSUME NEW up \in BOOLEAN, NEW answer \in CurlAnswers(up), NEW c,
         NEW k, k.runner = "curl", Describes(k)
  PROVE  /\ ClassifySub(k, answer[1], c) = BLOCKED /\ PathUp /\ up => answer[2] = "dropped"
         /\ answer[2] = "passed" => ClassifySub(k, answer[1], c) = ALLOWED
         /\ ClassifySub(k, answer[1], c) = ALLOWED =>
              answer[2] = "passed" \/ "body_contains" \notin DOMAIN k.onBlock
<1> DEFINE Honest(s, became) ==
      /\ ClassifySub(k, s, c) = BLOCKED /\ PathUp /\ up => became = "dropped"
      /\ became = "passed" => ClassifySub(k, s, c) = ALLOWED
      /\ ClassifySub(k, s, c) = ALLOWED =>
           became = "passed" \/ "body_contains" \notin DOMAIN k.onBlock
<1> SUFFICES Honest(answer[1], answer[2])
  OBVIOUS
<1>1. ALLOWED # BLOCKED /\ ALLOWED # ERROR /\ BLOCKED # ERROR
  BY DEF ALLOWED, BLOCKED, ERROR
<1>2. ASSUME NEW s, s.err \/ s.timedOut PROVE ClassifySub(k, s, c) = ERROR
  BY <1>2 DEF ClassifySub
<1>3. ASSUME NEW s, ~s.err, ~s.timedOut PROVE ClassifySub(k, s, c) = ClassifyCurlSub(k, s)
  BY <1>3 DEF ClassifySub
<1>4. ASSUME NEW s, s.rc # 0 PROVE ClassifyCurlSub(k, s) = ClassifyCurl(s.rc, s.code)
  BY <1>4 DEF ClassifyCurlSub
<1>5. ASSUME NEW rc \in Int, rc # 0 PROVE ClassifySub(k, Exit(rc), c) = ClassifyCurl(rc, NoCode)
  <2>1. /\ Exit(rc).rc = rc /\ Exit(rc).code = NoCode /\ ~Exit(rc).err /\ ~Exit(rc).timedOut
    BY ExitShape
  <2> DEFINE s == Exit(rc)
  <2> HIDE DEF s
  <2>2. /\ s.rc = rc /\ s.code = NoCode /\ ~s.err /\ ~s.timedOut BY <2>1 DEF s
  <2>3. ClassifySub(k, s, c) = ClassifyCurl(rc, NoCode) BY <2>2, <1>3, <1>4, <1>5
  <2> QED BY <2>3 DEF s
<1>6. CASE answer = <<[Blank EXCEPT !.err = TRUE], "broken">>
  <2>1. [Blank EXCEPT !.err = TRUE].err BY DEF Blank
  <2> QED BY <1>1, <1>2, <1>6, <2>1
<1>7. CASE answer[1] = HungCurl /\ answer[2] \in {"broken", "dropped"}
  BY <1>1, <1>2, <1>7, HungShape
<1>8. ASSUME NEW rc \in {6, 7, 28, 56, 60}, answer[1] = Exit(rc),
             answer[2] = "dropped" \/ (answer[2] = "broken" /\ ~(PathUp /\ up))
      PROVE  Honest(answer[1], answer[2])
  <2>1. ClassifySub(k, Exit(rc), c) = ClassifyCurl(rc, NoCode) BY <1>5
  <2>2. ClassifyCurl(rc, NoCode) # ALLOWED BY <1>1 DEF ClassifyCurl
  <2> QED BY <1>8, <2>1, <2>2
<1>11. CASE answer = <<Page(403), "dropped">>
  <2> DEFINE s == Page(403)
  <2>1. s.rc = 0 /\ s.code = 403 /\ ~s.err /\ ~s.timedOut BY PageShape
  <2>2. PredMatches(k.onAllow, s) => PredMatches(k.onBlock, s) BY DEF Describes
  <2>3. answer[1] = s /\ answer[2] = "dropped" BY <1>11
  <2> HIDE DEF s
  <2>4. ClassifyCurl(s.rc, s.code) = BLOCKED BY <2>1 DEF ClassifyCurl, NoCode
  <2>5. ClassifyCurlSub(k, s) = BLOCKED BY <2>1, <2>2, <2>4 DEF ClassifyCurlSub
  <2>6. ClassifySub(k, s, c) = BLOCKED BY <2>1, <2>5, <1>3
  <2> QED BY <1>1, <2>3, <2>6
<1>12. CASE answer = <<DeniedPage, "dropped">>
  <2> DEFINE s == DeniedPage
  <2>1. s.rc = 0 /\ ~s.err /\ ~s.timedOut BY DeniedShape
  <2>2. "body_contains" \in DOMAIN k.onBlock => PredMatches(k.onBlock, s) BY DEF Describes
  <2>3. answer[1] = s /\ answer[2] = "dropped" BY <1>12
  <2> HIDE DEF s
  <2>4. "body_contains" \in DOMAIN k.onBlock => ClassifyCurlSub(k, s) = BLOCKED
    BY <2>1, <2>2 DEF ClassifyCurlSub
  <2>5. ClassifySub(k, s, c) = ClassifyCurlSub(k, s) BY <2>1, <1>3
  <2> QED BY <1>1, <2>3, <2>4, <2>5
<1>13. CASE answer = <<Exit(0), "broken">>
  <2> DEFINE s == Exit(0)
  <2>1. s.rc = 0 /\ s.code = NoCode /\ ~s.err /\ ~s.timedOut BY ExitShape
  <2>2. ~PredMatches(k.onBlock, s) /\ ~PredMatches(k.onAllow, s) BY DEF Describes
  <2>3. answer[1] = s /\ answer[2] = "broken" BY <1>13
  <2> HIDE DEF s
  <2>4. ClassifyCurl(s.rc, s.code) = ERROR BY <2>1 DEF ClassifyCurl, NoCode, BlockedRc
  <2>5. ClassifyCurlSub(k, s) = ERROR BY <2>1, <2>2, <2>4 DEF ClassifyCurlSub
  <2>6. ClassifySub(k, s, c) = ERROR BY <2>1, <2>5, <1>3
  <2> QED BY <1>1, <2>3, <2>6
<1>14. CASE answer = <<Page(200), "passed">>
  <2> DEFINE s == Page(200)
  <2>1. s.rc = 0 /\ s.code = 200 /\ ~s.err /\ ~s.timedOut BY PageShape
  <2>2. ~PredMatches(k.onBlock, s) BY DEF Describes
  <2>3. answer[1] = s /\ answer[2] = "passed" BY <1>14
  <2> HIDE DEF s
  <2>4. ClassifyCurl(s.rc, s.code) = ALLOWED BY <2>1 DEF ClassifyCurl, NoCode, BlockedRc
  <2>5. ClassifyCurlSub(k, s) = ALLOWED BY <2>1, <2>2, <2>4 DEF ClassifyCurlSub
  <2>6. ClassifySub(k, s, c) = ALLOWED BY <2>1, <2>5, <1>3
  <2> QED BY <1>1, <2>3, <2>6
<1> HIDE DEF Honest
<1> QED BY <1>6, <1>7, <1>8, <1>11, <1>12, <1>13, <1>14, CurlCases

-----------------------------------------------------------------------------
(* What the classifier says of several.                                    *)

LEMMA HowManyIsFinite ==
  ASSUME NEW n \in Nat, NEW f, DOMAIN f = 1..n, NEW x
  PROVE  /\ IsFiniteSet({i \in DOMAIN f : f[i] = x})
         /\ Cardinality({i \in DOMAIN f : f[i] = x}) \in Nat
<1>1. IsFiniteSet(1..n) BY FS_Interval
<1>2. {i \in DOMAIN f : f[i] = x} \subseteq 1..n OBVIOUS
<1>3. IsFiniteSet({i \in DOMAIN f : f[i] = x}) BY <1>1, <1>2, FS_Subset
<1> QED BY <1>3, FS_CardinalityType

(* A blocked run had more requests of a sort that every blocked one is of  *)
(* than it had passes, an allowed one had an allowed request, and one that *)
(* has only blocked requests is blocked.                                   *)
LEMMA MajorityHonest ==
  ASSUME NEW n \in Nat, NEW states, DOMAIN states = 1..n,
         NEW became, DOMAIN became = 1..n, NEW Met \in SUBSET (1..n)
  PROVE  /\ /\ \A i \in 1..n : states[i] = BLOCKED => i \in Met
            /\ \A i \in 1..n : became[i] = "passed" => states[i] = ALLOWED
            /\ Aggregate(states) = BLOCKED
            => Cardinality(Met) > Cardinality({i \in DOMAIN became : became[i] = "passed"})
         /\ Aggregate(states) = ALLOWED => \E i \in 1..n : states[i] = ALLOWED
         /\ n > 0 /\ (\A i \in 1..n : states[i] = BLOCKED) => Aggregate(states) = BLOCKED
         /\ Aggregate(states) \in Verdicts
<1> DEFINE Allowed == {i \in DOMAIN states : states[i] = ALLOWED}
           Held == {i \in DOMAIN states : states[i] = BLOCKED}
           Passed  == {i \in DOMAIN became : became[i] = "passed"}
<1>0. IsFiniteSet(Met) /\ Cardinality(Met) \in Nat
  <2>1. IsFiniteSet(1..n) BY FS_Interval
  <2>2. IsFiniteSet(Met) BY <2>1, FS_Subset
  <2> QED BY <2>2, FS_CardinalityType
<1>1. /\ IsFiniteSet(Allowed) /\ IsFiniteSet(Held) /\ IsFiniteSet(Passed)
      /\ Cardinality(Allowed) \in Nat /\ Cardinality(Held) \in Nat
      /\ Cardinality(Passed) \in Nat
  BY HowManyIsFinite
<1>2. HowMany(states, ALLOWED) = Cardinality(Allowed) /\ HowMany(states, BLOCKED) = Cardinality(Held)
  BY DEF HowMany
<1>3. ALLOWED # BLOCKED /\ ALLOWED # ERROR /\ BLOCKED # ERROR
  BY DEF ALLOWED, BLOCKED, ERROR
<1>4. /\ Aggregate(states) = BLOCKED => Cardinality(Held) > Cardinality(Allowed)
      /\ Aggregate(states) = ALLOWED => Cardinality(Allowed) > 0
      /\ Cardinality(Held) > Cardinality(Allowed) => Aggregate(states) = BLOCKED
      /\ Aggregate(states) \in {ALLOWED, BLOCKED, ERROR}
  <2> DEFINE a == Cardinality(Allowed)
             b == Cardinality(Held)
  <2>1. Aggregate(states) = CASE a + b = 0           -> ERROR
                              [] a + b > 0 /\ b > a  -> BLOCKED
                              [] a + b > 0 /\ b <= a -> ALLOWED
    BY <1>2 DEF Aggregate
  <2>2. a \in Nat /\ b \in Nat BY <1>1
  <2> HIDE DEF a, b
  <2>3. /\ Aggregate(states) = BLOCKED => b > a
        /\ Aggregate(states) = ALLOWED => a > 0
        /\ b > a => Aggregate(states) = BLOCKED
        /\ Aggregate(states) \in {ALLOWED, BLOCKED, ERROR}
    BY <1>3, <2>1, <2>2
  <2> QED BY <2>3 DEF a, b
<1>5. ASSUME \A i \in 1..n : states[i] = BLOCKED => i \in Met,
             \A i \in 1..n : became[i] = "passed" => states[i] = ALLOWED,
             Aggregate(states) = BLOCKED
      PROVE  Cardinality(Met) > Cardinality(Passed)
  <2>1. Held \subseteq Met /\ Passed \subseteq Allowed BY <1>5
  <2>2. Cardinality(Held) <= Cardinality(Met) /\ Cardinality(Passed) <= Cardinality(Allowed)
    BY <1>0, <1>1, <2>1, FS_Subset
  <2> HIDE DEF Held, Passed, Allowed
  <2> QED BY <1>0, <1>1, <1>4, <1>5, <2>2
<1>6. ASSUME Aggregate(states) = ALLOWED PROVE \E i \in 1..n : states[i] = ALLOWED
  <2>1. Cardinality(Allowed) # 0 BY <1>1, <1>4, <1>6
  <2>2. Allowed # {} BY <2>1, FS_EmptySet
  <2> QED BY <2>2
<1>7. ASSUME n > 0, \A i \in 1..n : states[i] = BLOCKED PROVE Aggregate(states) = BLOCKED
  <2>1. Allowed = {} BY <1>3, <1>7
  <2>2. 1 \in Held BY <1>7
  <2>3. Cardinality(Allowed) = 0 BY <2>1, FS_EmptySet
  <2>4. Cardinality(Held) # 0 BY <1>1, <2>2, FS_EmptySet
  <2> HIDE DEF Held, Allowed
  <2> QED BY <1>1, <1>4, <2>3, <2>4
<1> QED BY <1>4, <1>5, <1>6, <1>7 DEF Verdicts

-----------------------------------------------------------------------------
(* The invariant.                                                          *)

Places == {"idle", "needs", "control first", "feed", "request", "retry",
           "control after", "classify", "done"}

(* TypeOK in parts: the environment and the caches, the place of the run,  *)
(* and what its requests brought back.                                     *)
EnvOK ==
  /\ down \subseteq Breakable
  /\ flips \in 0..MaxFlips /\ calm \in 0..CapTtl /\ runs \in 0..MaxRuns
  /\ upset \in BOOLEAN
  /\ cap \in [known : BOOLEAN, works : BOOLEAN, age : 0..CapTtl]
  /\ site \in Sites
  /\ feed \in [known : BOOLEAN, length : Nat, age : 0..FeedTtl]

PlaceOK ==
  /\ pc \in Places
  /\ pc = "idle" <=> kind = NoKind
  /\ kind # NoKind => kind \in Kinds
  /\ control \in {"none", "ok", "failed"}
  /\ asking \subseteq DOMAIN site.controls
  /\ verdict \in Verdicts

TakenOK ==
  /\ first \in SubResult
  /\ subs \in Seq(SubResult \cup Outcomes) /\ truth \in Seq(Truths)
  /\ Len(subs) <= kind.requests
  /\ \A i \in 1..Len(subs) :
       IF kind.runner = "ew" THEN subs[i] \in Outcomes ELSE subs[i] \in SubResult
  /\ Len(truth) = Len(subs) + (IF pc = "retry" THEN 1 ELSE 0)

(* Which runner comes to which place, and what it has there.               *)
PlacesInv ==
  /\ pc \in {"idle", "needs", "control first", "feed"} => subs = <<>> /\ truth = <<>>
  /\ pc = "needs" => kind.runner \in {"curl", "dns", "tcp"} /\ control = "none"
  /\ pc = "control first" => kind.runner \in {"ew", "iprep"}
  /\ pc = "feed" => kind.runner = "iprep"
  /\ pc = "retry" => kind.runner = "curl"
  /\ pc = "control after" => Native /\ asking # {}
  /\ pc \in {"control after", "classify"} /\ (kind.runner = "curl" \/ Native) =>
       Len(subs) = kind.requests

(* There is room for the answer of what is being retried.                  *)
RetryInv == pc = "retry" => Len(subs) < kind.requests

PathHolds == {"uplink", "ipv6"} \cap down = {}

(* What a probe of the IPv6 route would find now.                          *)
V6Answers == PathHolds /\ "ipv6 control" \notin down

(* A cached answer younger than the last change of the environment still   *)
(* is the answer.                                                          *)
CapInv == cap.known /\ cap.age < calm => (cap.works <=> V6Answers)

Running == {"request", "retry", "control after", "classify"}

Controls == {"none", "ok", "failed"}

(* What the classifier will make of the result of one request is fair to   *)
(* what became of it; path: the way out stood all along, site: the site    *)
(* it is from is up.                                                       *)
Fair(k, path, up, s, became) ==
  /\ k.runner = "curl" => \A c \in Controls :
       /\ ClassifySub(k, s, c) = BLOCKED /\ path /\ up => became = "dropped"
       /\ became = "passed" => ClassifySub(k, s, c) = ALLOWED
       /\ ClassifySub(k, s, c) = ALLOWED =>
            became = "passed" \/ "body_contains" \notin DOMAIN k.onBlock
  /\ k.runner \in {"dns", "tcp"} =>
       /\ ~s.timedOut
       /\ became = "passed" <=> s.ok
       /\ s.err => ~s.ok /\ became = "broken"
       /\ ~s.ok /\ ~s.err /\ path /\ up => became = "dropped"
  /\ k.runner = "ew" =>
       /\ became = "passed" <=> s \in {"open", "refused"}
       /\ s = "timeout" /\ path /\ up => became = "dropped"

(* The site s is from is up, with that broken (SiteUp, for any state).     *)
FromUp(k, d, s) ==
  IF k.runner = "curl" /\ s.failover THEN "alternate" \notin d ELSE "origin" \notin d

FairIn(k, path, d, s, became) == Fair(k, path, FromUp(k, d, s), s, became)

(* The environment stood still since the run began, and there is a way out. *)
Clear == ~upset /\ PathUp

(* Every answer a run collected is fair, and so is one that is retried.    *)
FairInv ==
  /\ \A i \in 1..Len(subs) : FairIn(kind, Clear, down, subs[i], truth[i])
  /\ pc = "retry" => FairIn(kind, Clear, down, first, truth[Len(truth)])

Reached(transport) == down \cap {"uplink", transport} = {}

(* While a run in an unchanged environment collects its answers, what it   *)
(* relies on was found and holds.                                          *)
SettledInv ==
  pc \in Running /\ ~upset =>
    /\ (kind.runner = "curl" \/ Native) /\ NeedsV6(kind) /\ calm = CapTtl => PathHolds
    /\ kind.runner = "ew" => PathUp /\ OriginUp
    /\ Native =>
         /\ pc = "request" => control = "none"
         /\ pc = "control after" =>
              control # "ok" /\ (ControlWithin => \E i \in asking : Reached(site.controls[i]))
         /\ control = "ok" => "uplink" \notin down
         /\ pc = "classify" /\ NeedControl /\ ControlWithin => control = "ok"

IInv == /\ EnvOK /\ PlaceOK /\ TakenOK /\ PlacesInv /\ RetryInv
        /\ CapInv /\ FairInv /\ SettledInv /\ HonestVerdict /\ CapabilityHonest

-----------------------------------------------------------------------------
(* The answers to the trigger that runs.                                   *)

LEMMA KindFacts ==
  /\ \A k \in Kinds : /\ k.runner \in {"curl", "dns", "tcp", "ew", "iprep"}
                      /\ k.requests \in Nat /\ k.requests > 0
                      /\ k # NoKind
  /\ NoKind.runner = "none" /\ NoKind.requests = 1
  /\ \A k \in Kinds : k.runner = "curl" => Describes(k)
<1>1. NoKind.runner = "none" /\ NoKind.requests = 1 BY DEF NoKind
<1>2. \A k \in Kinds : k.runner \in {"curl", "dns", "tcp", "ew", "iprep"} /\ k.requests \in Nat \ {0}
  BY TriggerRunAssumption
<1> HIDE DEF NoKind
<1> QED BY <1>1, <1>2, CatalogDescribes

LEMMA CurlFair ==
  ASSUME NEW up \in BOOLEAN, NEW answer \in CurlAnswers(up), NEW path \in BOOLEAN,
         path => PathUp, kind.runner = "curl", Describes(kind)
  PROVE  /\ Fair(kind, path, up, answer[1], answer[2])
         /\ Fair(kind, path, up, [answer[1] EXCEPT !.failover = TRUE], answer[2])
<1> DEFINE s == answer[1]
           became == answer[2]
           t == [s EXCEPT !.failover = TRUE]
<1>1. s \in SubResult BY CurlAnswerShape
<1>2. ASSUME NEW c \in Controls
      PROVE  /\ ClassifySub(kind, s, c) = BLOCKED /\ path /\ up => became = "dropped"
             /\ became = "passed" => ClassifySub(kind, s, c) = ALLOWED
             /\ ClassifySub(kind, s, c) = ALLOWED =>
                  became = "passed" \/ "body_contains" \notin DOMAIN kind.onBlock
  BY CurlHonest
<1>3. ASSUME NEW c \in Controls PROVE ClassifySub(kind, t, c) = ClassifySub(kind, s, c)
  BY <1>1, FailoverIsNoEvidence
<1> HIDE DEF s, became, t
<1>4. Fair(kind, path, up, s, became) BY <1>2 DEF Fair
<1>5. Fair(kind, path, up, t, became) BY <1>2, <1>3 DEF Fair
<1> QED BY <1>4, <1>5 DEF s, became, t

(* A fair answer stays fair when it is no longer known to be from an       *)
(* environment that stood still.                                           *)
LEMMA FairUpset ==
  ASSUME NEW k, NEW path, NEW up, NEW now, NEW s, NEW became, Fair(k, path, up, s, became)
  PROVE  Fair(k, FALSE, now, s, became)
BY DEF Fair

LEMMA ProbeFair ==
  ASSUME NEW answer \in ProbeAnswers, Native
  PROVE  Fair(kind, PathUp, OriginUp, answer[1], answer[2])
<1> DEFINE s == answer[1]
           became == answer[2]
<1>1. \/ s.err /\ ~s.ok /\ ~s.timedOut /\ became = "broken"
      \/ ~(PathUp /\ OriginUp) /\ ~s.err /\ ~s.ok /\ ~s.timedOut /\ became = "broken"
      \/ ~s.err /\ ~s.ok /\ ~s.timedOut /\ became = "dropped"
      \/ ~s.err /\ s.ok /\ ~s.timedOut /\ became = "passed"
  <2>1. CASE answer = <<[Blank EXCEPT !.err = TRUE], "broken">>
    <3>1. LET e == [Blank EXCEPT !.err = TRUE] IN e.err /\ ~e.ok /\ ~e.timedOut
      BY DEF Blank
    <3> QED BY <2>1, <3>1
  <2>2. CASE ~(PathUp /\ OriginUp) /\ answer = <<Blank, "broken">> BY <2>2, BlankShape
  <2>3. CASE answer = <<Blank, "dropped">> BY <2>3, BlankShape
  <2>4. CASE answer = <<[Blank EXCEPT !.ok = TRUE], "passed">>
    <3>1. LET e == [Blank EXCEPT !.ok = TRUE] IN ~e.err /\ e.ok /\ ~e.timedOut
      BY DEF Blank
    <3> QED BY <2>4, <3>1
  <2> QED BY <2>1, <2>2, <2>3, <2>4, ProbeCases
<1> HIDE DEF s, became
<1>2. kind.runner # "curl" /\ kind.runner # "ew" BY DEF Native
<1>3. Fair(kind, PathUp, OriginUp, s, became) BY <1>1, <1>2, Zenon DEF Fair
<1> QED BY <1>3 DEF s, became

LEMMA PortFair ==
  ASSUME NEW answer \in PortAnswers, kind.runner = "ew"
  PROVE  Fair(kind, PathUp, OriginUp, answer[1], answer[2])
<1> DEFINE s == answer[1]
           became == answer[2]
<1>1. \/ s = "unreachable" /\ became = "broken"
      \/ ~(PathUp /\ OriginUp) /\ s = "timeout" /\ became = "broken"
      \/ s = "timeout" /\ became = "dropped"
      \/ s \in {"open", "refused"} /\ became = "passed"
  BY DEF PortAnswers
<1> HIDE DEF s, became
<1>2. Fair(kind, PathUp, OriginUp, s, became) BY <1>1 DEF Fair
<1> QED BY <1>2 DEF s, became

LEMMA AnswerFair ==
  ASSUME kind \in Kinds, NEW answer \in Answers
  PROVE  /\ answer[2] \in Truths
         /\ IF kind.runner = "ew" THEN answer[1] \in Outcomes ELSE answer[1] \in SubResult
         /\ FairIn(kind, Clear, down, answer[1], answer[2])
<1> DEFINE s == answer[1]
           became == answer[2]
           path == PathUp
           up == OriginUp
<1>0. up \in BOOLEAN /\ Clear \in BOOLEAN /\ (Clear => path) BY DEF OriginUp, Clear
<1>1. CASE kind.runner = "curl"
  <2>1. answer \in CurlAnswers(up) BY <1>1 DEF Answers
  <2>2. Describes(kind) BY <1>1, KindFacts
  <2>3. s \in SubResult /\ became \in Truths /\ ~s.failover BY <1>0, <2>1, CurlAnswerShape
  <2>4. Fair(kind, Clear, up, s, became) BY <1>0, <1>1, <2>1, <2>2, CurlFair
  <2>5. FromUp(kind, down, s) = up BY <2>3 DEF FromUp, OriginUp
  <2> QED BY <1>1, <2>3, <2>4, <2>5 DEF FairIn
<1>2. CASE kind.runner # "curl"
  <2> DEFINE Sound == /\ became \in Truths
                      /\ IF kind.runner = "ew" THEN s \in Outcomes ELSE s \in SubResult
                      /\ Fair(kind, path, up, s, became)
  <2>1. ASSUME kind.runner \in {"dns", "tcp"} PROVE Sound
    <3>1. answer \in ProbeAnswers BY <2>1 DEF Answers
    <3>2. Fair(kind, path, up, s, became) BY <2>1, <3>1, ProbeFair DEF Native
    <3> QED BY <2>1, <3>1, <3>2, ProbeAnswerShape
  <2>2. ASSUME kind.runner = "ew" PROVE Sound
    <3>1. answer \in PortAnswers BY <2>2 DEF Answers
    <3>2. Fair(kind, path, up, s, became) BY <2>2, <3>1, PortFair
    <3> QED BY <2>2, <3>1, <3>2, PortAnswerShape
  <2>3. ASSUME kind.runner = "iprep" PROVE Sound
    <3>1. answer \in ProbeAnswers BY <2>3 DEF Answers
    <3>2. Fair(kind, path, up, s, became) BY <2>3 DEF Fair
    <3> QED BY <2>3, <3>1, <3>2, ProbeAnswerShape
  <2>4. Sound BY <1>2, <2>1, <2>2, <2>3, KindFacts
  <2>5. FromUp(kind, down, s) = up BY <1>2 DEF FromUp, OriginUp
  <2>6. FairIn(kind, Clear, down, s, became)
    <3>1. Fair(kind, path, up, s, became) BY <2>4
    <3>2. (Clear = TRUE /\ path = TRUE) \/ Clear = FALSE BY <1>0 DEF PathUp
    <3> HIDE DEF path, up, s, became
    <3>3. Fair(kind, FALSE, up, s, became) BY <3>1, FairUpset
    <3> QED BY <2>5, <3>1, <3>2, <3>3 DEF FairIn
  <2> QED BY <2>4, <2>6
<1> QED BY <1>1, <1>2

LEMMA SomeEndpoint ==
  ASSUME NEW S, NEW c \in Seq(S), c # <<>>
  PROVE  DOMAIN c # {}
<1>1. Len(c) \in Nat \ {0} BY EmptySeq
<1>2. DOMAIN c = 1..Len(c) OBVIOUS
<1>3. 1 \in 1..Len(c) BY <1>1
<1> QED BY <1>2, <1>3

LEMMA Appended ==
  ASSUME NEW S, NEW s \in Seq(S), NEW e \in S
  PROVE  /\ Append(s, e) \in Seq(S) /\ Len(Append(s, e)) = Len(s) + 1
         /\ Len(s) \in Nat
         /\ \A i \in 1..Len(s) : Append(s, e)[i] = s[i]
         /\ Append(s, e)[Len(s) + 1] = e
         /\ 1..Len(s) + 1 = (1..Len(s)) \cup {Len(s) + 1}
OBVIOUS

-----------------------------------------------------------------------------
(* The steps, by what they touch.                                          *)

(* The environment and the installation stand still; only a probe of the   *)
(* IPv6 route and a fetch change a cache.                                  *)
EnvStill == UNCHANGED <<site, envVars, upset, cap, feed, runs>>

(* The requests and the trigger stand still.                               *)
RunStill == UNCHANGED <<kind, first, subs, truth>>

LEMMA RunSteps ==
  ASSUME RunStep
  PROVE  /\ UNCHANGED <<site, envVars, runs>>
         /\ \/ UNCHANGED upset
            \/ upset' = FALSE /\ Return
         /\ \/ UNCHANGED <<cap, feed>>
            \/ CapProbe /\ UNCHANGED feed
            \/ FeedFetched /\ UNCHANGED cap
         /\ \/ Return \/ Request \/ Retry
            \/ RunStill /\ pc # "retry" /\ pc' # "retry" /\ pc # "idle" /\ pc' # "idle"
<1> USE DEF RunStill, EndWith, Goto, envVars, runVars
<1>1. CASE Http3Unmet BY <1>1 DEF Http3Unmet
<1>2. CASE NothingNeeded BY <1>2 DEF NothingNeeded
<1>3. CASE CapCached BY <1>3 DEF CapCached
<1>4. CASE CapNoUrl BY <1>4 DEF CapNoUrl
<1>5. CASE CapProbe BY <1>5 DEF CapProbe
<1>6. CASE Request BY <1>6 DEF Request
<1>7. CASE Retry BY <1>7 DEF Retry
<1>8. CASE RequestsDone BY <1>8 DEF RequestsDone
<1>9. CASE ControlAfter BY <1>9 DEF ControlAfter, AskControl
<1>10. CASE ClassifyRun BY <1>10 DEF ClassifyRun
<1>11. CASE EwControl BY <1>11 DEF EwControl
<1>12. CASE IprepNoControl BY <1>12 DEF IprepNoControl
<1>13. CASE IprepControl BY <1>13 DEF IprepControl, AskControl
<1>14. CASE FeedCached BY <1>14 DEF FeedCached
<1>15. CASE FeedFetched BY <1>15 DEF FeedFetched
<1>16. CASE FeedFails BY <1>16 DEF FeedFails
<1>17. CASE Return BY <1>17 DEF Return
<1> QED BY <1>1, <1>2, <1>3, <1>4, <1>5, <1>6, <1>7, <1>8, <1>9, <1>10, <1>11, <1>12,
           <1>13, <1>14, <1>15, <1>16, <1>17 DEF RunStep

(* A change of the environment or of the time leaves the run alone.        *)
LEMMA OtherSteps ==
  ASSUME NEW what, Flip(what) \/ Tick
  PROVE  UNCHANGED <<site, pc, runVars, runs>>
BY DEF Flip, Tick

-----------------------------------------------------------------------------
(* Every variable holds what the code can hold there.                      *)

LEMMA EnvHolds ==
  ASSUME EnvOK, [Next]_vars
  PROVE  EnvOK'
<1> USE TriggerRunAssumption
<1>1. ASSUME NEW k \in Kinds, Start(k) PROVE EnvOK'
  <2>1. UNCHANGED <<site, envVars, cap, feed>> /\ upset' = FALSE BY <1>1 DEF Start
  <2>2. runs < MaxRuns /\ runs' = runs + 1 BY <1>1 DEF Start
  <2>3. runs' \in 0..MaxRuns BY <2>2 DEF EnvOK
  <2> QED BY <2>1, <2>3 DEF EnvOK, envVars
<1>2. CASE RunStep
  <2>1. UNCHANGED <<site, down, flips, calm, runs>> /\ upset' \in BOOLEAN
    BY <1>2, RunSteps DEF envVars, EnvOK
  <2>2. cap' \in [known : BOOLEAN, works : BOOLEAN, age : 0..CapTtl]
    <3>1. CASE CapProbe
      <4> DEFINE works == PathUp /\ "ipv6 control" \notin down
      <4>1. cap' = [known |-> TRUE, works |-> works, age |-> 0]
        BY <3>1 DEF CapProbe
      <4>2. works \in BOOLEAN BY Zenon
      <4> HIDE DEF works
      <4>3. 0 \in 0..CapTtl OBVIOUS
      <4> QED BY <4>1, <4>2, <4>3, Zenon
    <3> QED BY <1>2, <3>1, RunSteps DEF EnvOK
  <2>3. feed' \in [known : BOOLEAN, length : Nat, age : 0..FeedTtl]
    <3>1. CASE FeedFetched
      <4>1. PICK n \in FeedLengths : feed' = [known |-> TRUE, length |-> n, age |-> 0]
        BY <3>1 DEF FeedFetched
      <4>2. 0 \in 0..FeedTtl /\ n \in Nat OBVIOUS
      <4> QED BY <4>1, <4>2, Zenon
    <3> QED BY <1>2, <3>1, RunSteps DEF EnvOK
  <2> QED BY <2>1, <2>2, <2>3 DEF EnvOK
<1>3. ASSUME NEW what \in Breakable, Flip(what) PROVE EnvOK'
  <2>1. (pc # "idle") \in BOOLEAN OBVIOUS
  <2>2. down' \subseteq Breakable BY <1>3 DEF Flip, EnvOK
  <2>3. flips' \in 0..MaxFlips /\ calm' \in 0..CapTtl BY <1>3 DEF Flip, EnvOK
  <2> QED BY <1>3, <2>1, <2>2, <2>3 DEF Flip, EnvOK
<1>4. CASE Tick
  <2>1. calm' \in 0..CapTtl BY <1>4 DEF Tick, EnvOK, Older
  <2>2. cap' \in [known : BOOLEAN, works : BOOLEAN, age : 0..CapTtl]
    <3> DEFINE older == IF cap.known THEN Older(cap.age, CapTtl) ELSE cap.age
    <3>1. older \in 0..CapTtl BY DEF Older, EnvOK
    <3>2. cap' = [cap EXCEPT !.age = older] BY <1>4 DEF Tick
    <3> HIDE DEF older
    <3> QED BY <3>1, <3>2 DEF EnvOK
  <2>3. feed' \in [known : BOOLEAN, length : Nat, age : 0..FeedTtl]
    <3> DEFINE older == IF feed.known THEN Older(feed.age, FeedTtl) ELSE feed.age
    <3>1. older \in 0..FeedTtl BY DEF Older, EnvOK
    <3>2. feed' = [feed EXCEPT !.age = older] BY <1>4 DEF Tick
    <3> HIDE DEF older
    <3> QED BY <3>1, <3>2 DEF EnvOK
  <2> QED BY <1>4, <2>1, <2>2, <2>3 DEF Tick, EnvOK
<1>5. CASE UNCHANGED vars BY <1>5 DEF EnvOK, vars, envVars
<1> QED BY <1>1, <1>2, <1>3, <1>4, <1>5 DEF Next

LEMMA StateIsVerdict ==
  ASSUME kind \in Kinds, TakenOK
  PROVE  State \in Verdicts
<1> DEFINE S == SubResult \cup Outcomes
<1>0. subs \in Seq(S) BY DEF TakenOK
<1> HIDE DEF S
<1>1. DOMAIN subs = 1..Len(subs) /\ Len(subs) \in Nat BY <1>0
<1>2. ASSUME NEW states, DOMAIN states = DOMAIN subs PROVE Aggregate(states) \in Verdicts
  <2>1. {} \in SUBSET (1..Len(subs)) OBVIOUS
  <2> QED BY <1>1, <1>2, <2>1, MajorityHonest
<1>3. Classify(kind, subs, control) \in Verdicts BY <1>2 DEF Classify
<1>4. EwVerdict(subs) \in Verdicts BY <1>2 DEF EwVerdict
<1>5. RATIO \in Verdicts BY DEF Verdicts
<1> QED BY <1>3, <1>4, <1>5, KindFacts DEF State

LEMMA PlaceHolds ==
  ASSUME EnvOK, PlaceOK, TakenOK, PlacesInv, [Next]_vars
  PROVE  PlaceOK'
<1> USE DEF Places
<1>0. ERROR \in Verdicts /\ INVALID \in Verdicts BY DEF Verdicts
<1>1. ASSUME NEW k \in Kinds, Start(k) PROVE PlaceOK'
  <2>1. k # NoKind BY KindFacts
  <2> HIDE DEF NoKind
  <2> QED BY <1>0, <1>1, <2>1 DEF PlaceOK, Start
<1>2. CASE Return
  BY <1>0, <1>2 DEF PlaceOK, Return
<1>3. ASSUME NEW what, Flip(what) \/ Tick PROVE PlaceOK'
  BY <1>3, OtherSteps DEF PlaceOK, runVars
<1>4. CASE UNCHANGED vars BY <1>4 DEF PlaceOK, vars, runVars
<1>5. ASSUME RunStep, ~Return PROVE PlaceOK'
  <2>1. UNCHANGED <<site, kind>> /\ pc # "idle" /\ pc' # "idle"
    <3>1. CASE Request BY <3>1 DEF Request
    <3>2. CASE Retry BY <3>2 DEF Retry
    <3> QED BY <1>5, <3>1, <3>2, RunSteps DEF RunStill
  <2>2. kind # NoKind /\ kind \in Kinds BY <2>1 DEF PlaceOK
  <2> DEFINE Rest == pc' \in Places /\ control' \in {"none", "ok", "failed"}
                     /\ asking' \subseteq DOMAIN site.controls /\ verdict' \in Verdicts
  <2> SUFFICES Rest BY <2>1, <2>2 DEF PlaceOK
  <2> USE DEF PlaceOK, EndWith, Goto, envVars, runVars
  <2>3. CASE Http3Unmet BY <1>0, <2>3 DEF Http3Unmet
  <2>4. CASE NothingNeeded BY <2>4 DEF NothingNeeded
  <2>5. CASE CapCached BY <1>0, <2>5 DEF CapCached
  <2>6. CASE CapNoUrl BY <1>0, <2>6 DEF CapNoUrl
  <2>7. CASE CapProbe BY <1>0, <2>7 DEF CapProbe
  <2>8. CASE Request BY <2>8 DEF Request
  <2>9. CASE Retry BY <2>9 DEF Retry
  <2>10. CASE RequestsDone BY <2>10 DEF RequestsDone
  <2>11. ASSUME AskControl
         PROVE  control' \in {"ok", "failed"} /\ asking' \subseteq DOMAIN site.controls
    <3>1. control' \in {"ok", "failed"} BY <2>11 DEF AskControl, ControlSays
    <3>2. asking' \subseteq asking BY <2>11 DEF AskControl, StillToAsk
    <3> QED BY <3>1, <3>2
  <2>12. CASE ControlAfter BY <2>11, <2>12 DEF ControlAfter
  <2>13. CASE ClassifyRun BY <2>2, <2>13, StateIsVerdict DEF ClassifyRun
  <2>14. CASE EwControl BY <1>0, <2>14 DEF EwControl, EwControlSays
  <2>15. CASE IprepNoControl BY <1>0, <2>15 DEF IprepNoControl
  <2>16. CASE IprepControl BY <1>0, <2>11, <2>16 DEF IprepControl
  <2>17. CASE FeedCached BY <1>0, <2>17 DEF FeedCached
  <2>18. CASE FeedFetched BY <1>0, <2>18 DEF FeedFetched
  <2>19. CASE FeedFails BY <1>0, <2>19 DEF FeedFails
  <2> QED BY <1>5, <2>3, <2>4, <2>5, <2>6, <2>7, <2>8, <2>9, <2>10, <2>12, <2>13, <2>14,
             <2>15, <2>16, <2>17, <2>18, <2>19 DEF RunStep
<1> QED BY <1>1, <1>2, <1>3, <1>4, <1>5 DEF Next

LEMMA TakenHolds ==
  ASSUME EnvOK, PlaceOK, TakenOK, PlacesInv, RetryInv, [Next]_vars
  PROVE  TakenOK'
<1> DEFINE S == SubResult \cup Outcomes
<1>0. subs \in Seq(S) /\ truth \in Seq(Truths) /\ first \in SubResult BY DEF TakenOK
<1>1. ASSUME NEW k, k \in Kinds, Start(k) PROVE TakenOK'
  <2>1. /\ subs' = <<>> /\ truth' = <<>> /\ first' = Blank /\ kind' = k
        /\ pc' # "retry"
    BY <1>1 DEF Start
  <2>2. <<>> \in Seq(S) /\ <<>> \in Seq(Truths) OBVIOUS
  <2>3. k.requests \in Nat /\ Blank \in SubResult BY <1>1, KindFacts, BlankShape
  <2> QED BY <2>1, <2>2, <2>3 DEF TakenOK
<1>2. CASE Return
  <2>1. /\ subs' = <<>> /\ truth' = <<>> /\ first' = Blank /\ kind' = NoKind
        /\ pc' # "retry"
    BY <1>2 DEF Return
  <2>2. <<>> \in Seq(S) /\ <<>> \in Seq(Truths) OBVIOUS
  <2>3. NoKind.requests = 1 /\ Blank \in SubResult BY KindFacts, BlankShape
  <2> HIDE DEF NoKind
  <2> QED BY <2>1, <2>2, <2>3 DEF TakenOK
<1>3. CASE Request
  <2>0. /\ pc = "request" /\ kind' = kind /\ Len(subs) < Wanted
    BY <1>3 DEF Request
  <2>1. kind \in Kinds BY <2>0 DEF PlaceOK
  <2>2. kind.requests \in Nat /\ feed.length \in Nat BY <2>1, KindFacts DEF EnvOK
  <2>3. Wanted \in Nat /\ Wanted <= kind.requests BY <2>2 DEF Wanted
  <2>4. Len(subs) \in Nat /\ Len(truth) = Len(subs) BY <1>0, <2>0 DEF TakenOK
  <2>5. Len(subs) + 1 <= kind.requests BY <2>0, <2>2, <2>3, <2>4
  <2>6. PICK answer \in Answers :
          IF FailsOver(answer[1])
          THEN /\ first' = answer[1]
               /\ truth' = Append(truth, answer[2])
               /\ pc' = "retry"
               /\ UNCHANGED subs
          ELSE Took(answer) /\ UNCHANGED <<first, pc>>
    BY <1>3 DEF Request
  <2>7. /\ answer[2] \in Truths
        /\ IF kind.runner = "ew" THEN answer[1] \in Outcomes ELSE answer[1] \in SubResult
    BY <2>1, AnswerFair
  <2>8. truth' = Append(truth, answer[2]) BY <2>6 DEF Took
  <2>9. truth' \in Seq(Truths) /\ Len(truth') = Len(subs) + 1
    BY <1>0, <2>4, <2>7, <2>8, Appended
  <2>10. CASE FailsOver(answer[1])
    <3>1. kind.runner # "ew" BY <2>10 DEF FailsOver
    <3>2. first' \in SubResult BY <2>6, <2>7, <2>10, <3>1
    <3>3. pc' = "retry" /\ subs' = subs BY <2>6, <2>10
    <3> QED BY <2>0, <2>9, <3>2, <3>3 DEF TakenOK
  <2>11. CASE ~FailsOver(answer[1])
    <3>1. subs' = Append(subs, answer[1]) /\ first' = first /\ pc' = "request"
      BY <2>0, <2>6, <2>11 DEF Took
    <3>2. answer[1] \in S BY <2>7
    <3> HIDE DEF S
    <3>3. /\ subs' \in Seq(S) /\ Len(subs') = Len(subs) + 1
          /\ \A i \in 1..Len(subs) : subs'[i] = subs[i]
          /\ subs'[Len(subs) + 1] = answer[1]
          /\ 1..Len(subs) + 1 = (1..Len(subs)) \cup {Len(subs) + 1}
      BY <1>0, <3>1, <3>2, Appended
    <3>4. \A i \in 1..Len(subs') :
            IF kind.runner = "ew" THEN subs'[i] \in Outcomes ELSE subs'[i] \in SubResult
      BY <2>7, <3>3 DEF TakenOK
    <3> USE DEF S
    <3> QED BY <1>0, <2>0, <2>5, <2>9, <3>1, <3>3, <3>4 DEF TakenOK
  <2> QED BY <2>10, <2>11
<1>4. CASE Retry
  <2>0. pc = "retry" /\ kind' = kind /\ first' = Blank /\ pc' = "request" BY <1>4 DEF Retry
  <2>1. PICK answer \in CurlAnswers(AlternateUp) :
          LET kept == ClassifyCurl(answer[1].rc, answer[1].code) = ERROR
          IN  /\ subs' = Append(subs, IF kept THEN first ELSE [answer[1] EXCEPT !.failover = TRUE])
              /\ truth' = IF kept THEN truth ELSE [truth EXCEPT ![Len(truth)] = answer[2]]
    BY <1>4 DEF Retry
  <2>b. AlternateUp \in BOOLEAN BY DEF AlternateUp
  <2>2. answer[1] \in SubResult /\ answer[2] \in Truths BY <2>b, CurlAnswerShape
  <2>3. kind.runner = "curl" BY <2>0 DEF PlacesInv
  <2>4. [answer[1] EXCEPT !.failover = TRUE] \in SubResult BY <2>2 DEF SubResult
  <2>5. PICK s \in SubResult : subs' = Append(subs, s) BY <1>0, <2>1, <2>4
  <2>6. truth' \in Seq(Truths) /\ Len(truth') = Len(truth)
    <3>1. ASSUME NEW t \in Truths
          PROVE  [truth EXCEPT ![Len(truth)] = t] \in Seq(Truths)
                 /\ Len([truth EXCEPT ![Len(truth)] = t]) = Len(truth)
      <4>1. Len(truth) \in 1..Len(truth) BY <1>0, <2>0 DEF TakenOK
      <4> QED BY <1>0, <4>1, ExceptSeq
    <3> QED BY <1>0, <2>1, <2>2, <3>1
  <2>7. Len(truth) = Len(subs) + 1 /\ Len(subs) < kind.requests BY <2>0 DEF TakenOK, RetryInv
  <2>8. kind \in Kinds BY <2>0 DEF PlaceOK
  <2>9. kind.requests \in Nat BY <2>8, KindFacts
  <2>10. s \in S OBVIOUS
  <2> HIDE DEF S
  <2>11. /\ subs' \in Seq(S) /\ Len(subs') = Len(subs) + 1
         /\ \A i \in 1..Len(subs) : subs'[i] = subs[i]
         /\ subs'[Len(subs) + 1] = s
         /\ 1..Len(subs) + 1 = (1..Len(subs)) \cup {Len(subs) + 1}
         /\ Len(subs) \in Nat
    BY <1>0, <2>5, <2>10, Appended
  <2>12. \A i \in 1..Len(subs') : subs'[i] \in SubResult
    BY <2>3, <2>11 DEF TakenOK
  <2>13. Len(subs') <= kind.requests BY <2>7, <2>9, <2>11
  <2> USE DEF S
  <2> QED BY <2>0, <2>3, <2>6, <2>7, <2>11, <2>12, <2>13, BlankShape DEF TakenOK
<1>5. ASSUME RunStill, pc' = "retry" <=> pc = "retry" PROVE TakenOK'
  BY <1>5 DEF RunStill, TakenOK
<1>6. ASSUME RunStep, ~Return, ~Request, ~Retry PROVE TakenOK'
  BY <1>5, <1>6, RunSteps
<1>7. ASSUME NEW what, Flip(what) \/ Tick PROVE TakenOK'
  BY <1>5, <1>7, OtherSteps DEF RunStill, runVars
<1>8. CASE UNCHANGED vars BY <1>5, <1>8 DEF RunStill, vars, runVars
<1> QED BY <1>1, <1>2, <1>3, <1>4, <1>6, <1>7, <1>8 DEF Next

LEMMA PlacesHold ==
  ASSUME EnvOK, PlaceOK, TakenOK, PlacesInv, [Next]_vars
  PROVE  PlacesInv'
<1>1. ASSUME NEW k \in Kinds, Start(k) PROVE PlacesInv'
  <2>1. k.runner \in {"curl", "dns", "tcp", "ew", "iprep"} BY KindFacts
  <2>2. /\ subs' = <<>> /\ truth' = <<>> /\ kind' = k /\ control' = "none"
        /\ pc' = IF k.runner \in {"ew", "iprep"} THEN "control first" ELSE "needs"
    BY <1>1 DEF Start
  <2> QED BY <2>1, <2>2 DEF PlacesInv
<1>2. CASE Return BY <1>2 DEF PlacesInv, Return
<1>3. ASSUME NEW what, Flip(what) \/ Tick PROVE PlacesInv'
  BY <1>3, OtherSteps DEF PlacesInv, Native, runVars
<1>4. CASE UNCHANGED vars BY <1>4 DEF PlacesInv, Native, vars, runVars
<1>5. CASE Request
  <2>1. pc' \in {"request", "retry"} /\ kind' = kind
    BY <1>5 DEF Request
  <2>2. ASSUME pc' = "retry" PROVE kind.runner = "curl"
    BY <1>5, <2>2 DEF Request, FailsOver, Took
  <2> QED BY <2>1, <2>2 DEF PlacesInv, Native
<1>6. CASE Retry BY <1>6 DEF Retry, PlacesInv, Native
<1>7. ASSUME RunStep, ~Return, ~Request, ~Retry PROVE PlacesInv'
  <2>0. kind' = kind /\ subs' = subs /\ truth' = truth /\ pc' # "retry" /\ pc' # "idle"
        /\ pc # "idle"
    BY <1>7, RunSteps DEF RunStill
  <2>1. kind \in Kinds BY <2>0 DEF PlaceOK
  <2> USE <2>0 DEF EndWith, Goto, envVars, runVars, PlacesInv, Native
  <2>3. CASE Http3Unmet BY <2>3 DEF Http3Unmet
  <2>4. CASE NothingNeeded BY <2>4 DEF NothingNeeded
  <2>5. CASE CapCached BY <2>5 DEF CapCached
  <2>6. CASE CapNoUrl BY <2>6 DEF CapNoUrl
  <2>7. CASE CapProbe BY <2>7 DEF CapProbe
  <2>10. CASE RequestsDone
    <3>1. site.controls \in Seq(Transports) BY TriggerRunAssumption DEF EnvOK
    <3>2. ASSUME site.controls # <<>> PROVE DOMAIN site.controls # {}
      BY <3>1, <3>2, SomeEndpoint
    <3>3. (kind.runner = "curl" \/ Native) => Len(subs) = kind.requests
      BY <2>10 DEF RequestsDone, Wanted
    <3> QED BY <2>10, <3>2, <3>3 DEF RequestsDone
  <2>12. CASE ControlAfter BY <2>12 DEF ControlAfter
  <2>13. CASE ClassifyRun BY <2>13 DEF ClassifyRun
  <2>14. CASE EwControl BY <2>14 DEF EwControl
  <2>15. CASE IprepNoControl BY <2>15 DEF IprepNoControl
  <2>16. CASE IprepControl BY <2>16 DEF IprepControl
  <2>17. CASE FeedCached BY <2>17 DEF FeedCached
  <2>18. CASE FeedFetched BY <2>18 DEF FeedFetched
  <2>19. CASE FeedFails BY <2>19 DEF FeedFails
  <2> QED BY <1>7, <2>3, <2>4, <2>5, <2>6, <2>7, <2>10, <2>12, <2>13, <2>14,
             <2>15, <2>16, <2>17, <2>18, <2>19 DEF RunStep
<1> QED BY <1>1, <1>2, <1>3, <1>4, <1>5, <1>6, <1>7 DEF Next

-----------------------------------------------------------------------------
(* The failover.                                                           *)

(* A request of this run: what it brings back is taken, or tried elsewhere. *)
LEMMA Requests ==
  ASSUME Request, EnvOK, PlaceOK, TakenOK
  PROVE  /\ pc = "request" /\ kind' = kind /\ kind \in Kinds
         /\ UNCHANGED <<down, calm, upset, site, control, asking>>
         /\ Len(subs) < kind.requests /\ Len(truth) = Len(subs)
         /\ \E answer \in Answers :
              /\ truth' = Append(truth, answer[2])
              /\ \/ /\ FailsOver(answer[1]) /\ first' = answer[1]
                    /\ pc' = "retry" /\ subs' = subs
                 \/ /\ ~FailsOver(answer[1]) /\ first' = first
                    /\ pc' = "request" /\ subs' = Append(subs, answer[1])
<1>1. /\ pc = "request" /\ kind' = kind /\ Len(subs) < Wanted
      /\ UNCHANGED <<down, calm, upset, site, control, asking>>
  BY DEF Request, envVars
<1>2. kind \in Kinds BY <1>1 DEF PlaceOK
<1>3. kind.requests \in Nat /\ feed.length \in Nat BY <1>2, KindFacts DEF EnvOK
<1>4. Wanted \in Nat /\ Wanted <= kind.requests BY <1>3 DEF Wanted
<1>5. Len(subs) \in Nat /\ Len(truth) = Len(subs) BY <1>1 DEF TakenOK
<1>6. Len(subs) < kind.requests BY <1>1, <1>3, <1>4, <1>5
<1>7. PICK answer \in Answers :
        IF FailsOver(answer[1])
        THEN /\ first' = answer[1]
             /\ truth' = Append(truth, answer[2])
             /\ pc' = "retry"
             /\ UNCHANGED subs
        ELSE Took(answer) /\ UNCHANGED <<first, pc>>
  BY DEF Request
<1>8. /\ truth' = Append(truth, answer[2])
      /\ \/ /\ FailsOver(answer[1]) /\ first' = answer[1]
            /\ pc' = "retry" /\ subs' = subs
         \/ /\ ~FailsOver(answer[1]) /\ first' = first
            /\ pc' = "request" /\ subs' = Append(subs, answer[1])
  BY <1>1, <1>7 DEF Took
<1> QED BY <1>1, <1>2, <1>5, <1>6, <1>8

(* A second try: the first answer stays, or a policy result replaces it.   *)
LEMMA Retries ==
  ASSUME Retry, PlaceOK, TakenOK, PlacesInv
  PROVE  /\ pc = "retry" /\ pc' = "request" /\ kind' = kind /\ kind \in Kinds
         /\ kind.runner = "curl"
         /\ UNCHANGED <<down, calm, upset, site, control, asking>>
         /\ Len(subs) \in Nat /\ Len(truth) = Len(subs) + 1
         /\ \E answer \in CurlAnswers(AlternateUp) :
              \/ subs' = Append(subs, first) /\ truth' = truth
              \/ /\ subs' = Append(subs, [answer[1] EXCEPT !.failover = TRUE])
                 /\ truth' = [truth EXCEPT ![Len(subs) + 1] = answer[2]]
<1>1. /\ pc = "retry" /\ pc' = "request" /\ kind' = kind
      /\ UNCHANGED <<down, calm, upset, site, control, asking>>
  BY DEF Retry, envVars
<1>2. kind \in Kinds /\ kind.runner = "curl" BY <1>1 DEF PlaceOK, PlacesInv
<1>3. Len(subs) \in Nat /\ Len(truth) = Len(subs) + 1 BY <1>1 DEF TakenOK
<1>4. PICK answer \in CurlAnswers(AlternateUp) :
        LET kept == ClassifyCurl(answer[1].rc, answer[1].code) = ERROR
        IN  /\ subs' = Append(subs, IF kept THEN first ELSE [answer[1] EXCEPT !.failover = TRUE])
            /\ truth' = IF kept THEN truth ELSE [truth EXCEPT ![Len(truth)] = answer[2]]
  BY DEF Retry
<1>6. \/ subs' = Append(subs, first) /\ truth' = truth
      \/ /\ subs' = Append(subs, [answer[1] EXCEPT !.failover = TRUE])
         /\ truth' = [truth EXCEPT ![Len(subs) + 1] = answer[2]]
  BY <1>3, <1>4
<1> QED BY <1>1, <1>2, <1>3, <1>6

LEMMA RetryHolds ==
  ASSUME EnvOK, PlaceOK, TakenOK, PlacesInv, RetryInv, [Next]_vars
  PROVE  RetryInv'
<1>1. ASSUME pc' # "retry" PROVE RetryInv' BY <1>1 DEF RetryInv
<1>2. CASE Request
  <2>1. pc' = "retry" => subs' = subs BY <1>2, Requests
  <2> QED BY <1>2, <2>1, Requests DEF RetryInv
<1>3. ASSUME NEW k, Start(k) PROVE RetryInv' BY <1>1, <1>3 DEF Start
<1>4. CASE Return BY <1>1, <1>4 DEF Return
<1>5. CASE Retry BY <1>1, <1>5 DEF Retry
<1>6. ASSUME RunStep, ~Return, ~Request, ~Retry PROVE RetryInv'
  BY <1>1, <1>6, RunSteps
<1>7. ASSUME UNCHANGED <<pc, subs, kind>> PROVE RetryInv'
  BY <1>7 DEF RetryInv
<1>8. ASSUME NEW what, Flip(what) \/ Tick PROVE RetryInv'
  BY <1>7, <1>8, OtherSteps DEF runVars
<1>9. CASE UNCHANGED vars BY <1>7, <1>9 DEF vars, runVars
<1> QED BY <1>2, <1>3, <1>4, <1>5, <1>6, <1>8, <1>9 DEF Next

-----------------------------------------------------------------------------
(* The cached answer about the IPv6 route.                                 *)

LEMMA CapHolds ==
  ASSUME EnvOK, PlaceOK, CapInv, [Next]_vars
  PROVE  CapInv'
<1>1. ASSUME UNCHANGED <<cap, calm, down>> PROVE CapInv'
  BY <1>1 DEF CapInv, V6Answers, PathHolds
<1>2. ASSUME NEW k, Start(k) PROVE CapInv' BY <1>1, <1>2 DEF Start, envVars
<1>3. CASE CapProbe
  <2> DEFINE works == PathUp /\ "ipv6 control" \notin down
  <2>1. cap' = [known |-> TRUE, works |-> works, age |-> 0] BY <1>3 DEF CapProbe
  <2>2. cap'.works = works BY <2>1
  <2>3. NeedsV6(kind) /\ down' = down BY <1>3, RunSteps DEF CapProbe, envVars, RunStep
  <2>4. works <=> V6Answers BY <2>3 DEF V6Answers, PathHolds, PathUp
  <2>5. V6Answers' <=> V6Answers BY <2>3 DEF V6Answers, PathHolds
  <2> HIDE DEF works
  <2> QED BY <2>2, <2>4, <2>5 DEF CapInv
<1>4. ASSUME RunStep, ~CapProbe PROVE CapInv'
  BY <1>1, <1>4, RunSteps DEF envVars
<1>5. ASSUME NEW what, Flip(what) PROVE CapInv'
  <2>1. calm' = 0 /\ cap' = cap BY <1>5 DEF Flip
  <2>2. cap.age \in 0..CapTtl BY DEF EnvOK
  <2>3. ~(cap.age < 0) BY <2>2, TriggerRunAssumption
  <2> QED BY <2>1, <2>3 DEF CapInv
<1>6. CASE Tick
  <2> DEFINE older == IF cap.known THEN Older(cap.age, CapTtl) ELSE cap.age
  <2>1. cap' = [cap EXCEPT !.age = older] /\ calm' = Older(calm, CapTtl) /\ down' = down
    BY <1>6 DEF Tick
  <2>2. cap'.known = cap.known /\ cap'.works = cap.works /\ cap'.age = older
    BY <2>1 DEF EnvOK
  <2>3. cap.known /\ older < Older(calm, CapTtl) => cap.age < calm
    BY TriggerRunAssumption DEF EnvOK, Older
  <2> HIDE DEF older
  <2> QED BY <2>1, <2>2, <2>3 DEF CapInv, V6Answers, PathHolds
<1>7. CASE UNCHANGED vars BY <1>1, <1>7 DEF vars, envVars
<1> QED BY <1>2, <1>3, <1>4, <1>5, <1>6, <1>7 DEF Next

-----------------------------------------------------------------------------
(* What every run has collected is fair.                                   *)

(* One more answer.                                                        *)
LEMMA FairGrows ==
  ASSUME TakenOK, FairInv, UNCHANGED <<down, kind, upset>>, pc' # "retry",
         NEW s \in SubResult \cup Outcomes, subs' = Append(subs, s),
         \A i \in 1..Len(subs) : truth'[i] = truth[i],
         FairIn(kind, Clear, down, s, truth'[Len(subs) + 1])
  PROVE  FairInv'
<1> DEFINE S == SubResult \cup Outcomes
           Ok(t, became) == FairIn(kind, Clear, down, t, became)
<1>1. subs \in Seq(S) BY DEF TakenOK
<1>2. \A i \in 1..Len(subs) : Ok(subs[i], truth[i]) BY DEF FairInv
<1>3. Ok(s, truth'[Len(subs) + 1]) OBVIOUS
<1> HIDE DEF S, Ok
<1>4. /\ Len(subs') = Len(subs) + 1
      /\ \A i \in 1..Len(subs) : subs'[i] = subs[i]
      /\ subs'[Len(subs) + 1] = s
      /\ 1..Len(subs) + 1 = (1..Len(subs)) \cup {Len(subs) + 1}
  BY <1>1, Appended DEF S
<1>5. \A i \in 1..Len(subs') : Ok(subs'[i], truth'[i]) BY <1>2, <1>3, <1>4
<1>6. Clear' = Clear BY DEF Clear, PathUp, NeedsV6
<1>7. \A i \in 1..Len(subs') : FairIn(kind', Clear', down', subs'[i], truth'[i])
  BY <1>5, <1>6 DEF Ok
<1> QED BY <1>7 DEF FairInv

LEMMA FairRequests ==
  ASSUME Request, EnvOK, PlaceOK, TakenOK, FairInv
  PROVE  FairInv'
<1> DEFINE S == SubResult \cup Outcomes
<1>0. UNCHANGED <<down, kind, upset>> /\ kind \in Kinds BY Requests
<1>1. PICK answer \in Answers :
        /\ truth' = Append(truth, answer[2])
        /\ \/ /\ FailsOver(answer[1]) /\ first' = answer[1]
              /\ pc' = "retry" /\ subs' = subs
           \/ /\ pc' = "request" /\ subs' = Append(subs, answer[1])
  BY Requests
<1>2. /\ FairIn(kind, Clear, down, answer[1], answer[2])
      /\ answer[1] \in S /\ answer[2] \in Truths
  BY <1>0, AnswerFair
<1>3. truth \in Seq(Truths) /\ Len(truth) = Len(subs) BY Requests DEF TakenOK
<1>4. /\ Len(truth') = Len(subs) + 1
      /\ \A i \in 1..Len(subs) : truth'[i] = truth[i]
      /\ truth'[Len(subs) + 1] = answer[2]
  BY <1>1, <1>2, <1>3, Appended
<1>5. CASE first' = answer[1] /\ pc' = "retry" /\ subs' = subs
  <2>1. Clear' = Clear BY <1>0 DEF Clear, PathUp, NeedsV6
  <2>2. \A i \in 1..Len(subs') : FairIn(kind', Clear', down', subs'[i], truth'[i])
    BY <1>0, <1>4, <1>5, <2>1 DEF FairInv
  <2>3. FairIn(kind', Clear', down', first', truth'[Len(truth')])
    BY <1>0, <1>2, <1>4, <1>5, <2>1
  <2> QED BY <2>2, <2>3 DEF FairInv
<1>6. CASE pc' = "request" /\ subs' = Append(subs, answer[1])
  BY <1>0, <1>2, <1>4, <1>6, FairGrows
<1> QED BY <1>1, <1>5, <1>6

LEMMA FairRetries ==
  ASSUME Retry, EnvOK, PlaceOK, TakenOK, PlacesInv, FairInv
  PROVE  FairInv'
<1> DEFINE S == SubResult \cup Outcomes
<1>0. /\ pc = "retry" /\ pc' = "request" /\ kind.runner = "curl" /\ kind \in Kinds
      /\ UNCHANGED <<down, kind, upset>>
      /\ Len(subs) \in Nat /\ Len(truth) = Len(subs) + 1
  BY Retries
<1>1. AlternateUp \in BOOLEAN /\ Clear \in BOOLEAN /\ (Clear => PathUp)
  BY DEF AlternateUp, Clear
<1>2. PICK answer \in CurlAnswers(AlternateUp) :
        \/ subs' = Append(subs, first) /\ truth' = truth
        \/ /\ subs' = Append(subs, [answer[1] EXCEPT !.failover = TRUE])
           /\ truth' = [truth EXCEPT ![Len(subs) + 1] = answer[2]]
  BY Retries
<1>3. CASE subs' = Append(subs, first) /\ truth' = truth
  <2>1. first \in S BY DEF TakenOK
  <2>2. FairIn(kind, Clear, down, first, truth'[Len(subs) + 1])
    BY <1>0, <1>3 DEF FairInv
  <2> QED BY <1>0, <1>3, <2>1, <2>2, FairGrows
<1>4. CASE /\ subs' = Append(subs, [answer[1] EXCEPT !.failover = TRUE])
           /\ truth' = [truth EXCEPT ![Len(subs) + 1] = answer[2]]
  <2> DEFINE t == [answer[1] EXCEPT !.failover = TRUE]
             n == Len(subs) + 1
  <2>1. Describes(kind) BY <1>0, KindFacts
  <2>2. answer[1] \in SubResult /\ answer[2] \in Truths BY <1>1, CurlAnswerShape
  <2>3. t \in S /\ t.failover BY <2>2 DEF SubResult
  <2>4. Fair(kind, Clear, AlternateUp, t, answer[2]) BY <1>0, <1>1, <2>1, CurlFair
  <2>5. n \in 1..Len(truth) /\ truth \in Seq(Truths) BY <1>0 DEF TakenOK
  <2>6. subs' = Append(subs, t) /\ truth' = [truth EXCEPT ![n] = answer[2]] BY <1>4
  <2> HIDE DEF t, S
  <2>7. FromUp(kind, down, t) = AlternateUp BY <1>0, <2>3 DEF FromUp, AlternateUp
  <2>8. FairIn(kind, Clear, down, t, answer[2]) BY <2>4, <2>7 DEF FairIn
  <2>9. \A j \in 1..Len(truth) : truth'[j] = IF j = n THEN answer[2] ELSE truth[j]
    <3> HIDE DEF n
    <3> QED BY <2>2, <2>5, <2>6, ExceptSeq
  <2>10. truth'[n] = answer[2] BY <2>5, <2>9
  <2>11. \A i \in 1..Len(subs) : truth'[i] = truth[i] BY <1>0, <2>9
  <2>12. FairIn(kind, Clear, down, t, truth'[Len(subs) + 1]) BY <2>8, <2>10
  <2> QED BY <1>0, <2>3, <2>6, <2>11, <2>12, FairGrows DEF S
<1> QED BY <1>2, <1>3, <1>4

LEMMA FairHolds ==
  ASSUME EnvOK, PlaceOK, TakenOK, PlacesInv, FairInv, [Next]_vars
  PROVE  FairInv'
<1>1. ASSUME subs' = <<>>, pc' # "retry" PROVE FairInv'
  <2>1. Len(subs') = 0 BY <1>1, EmptySeq
  <2>2. ~\E i \in 1..0 : TRUE OBVIOUS
  <2> QED BY <1>1, <2>1, <2>2 DEF FairInv
<1>2. ASSUME RunStill, UNCHANGED <<down, upset>>, pc' = "retry" <=> pc = "retry"
      PROVE  FairInv'
  <2>1. Clear' = Clear BY <1>2 DEF Clear, PathUp, NeedsV6, RunStill
  <2> QED BY <1>2, <2>1 DEF FairInv, RunStill
<1>3. ASSUME NEW k, Start(k) PROVE FairInv' BY <1>1, <1>3 DEF Start
<1>4. CASE Return BY <1>1, <1>4 DEF Return
<1>5. CASE Request BY <1>5, FairRequests
<1>6. CASE Retry BY <1>6, FairRetries
<1>7. ASSUME RunStep, ~Return, ~Request, ~Retry PROVE FairInv'
  BY <1>2, <1>7, RunSteps DEF envVars
<1>8. ASSUME NEW what, Flip(what) PROVE FairInv'
  <2>1. UNCHANGED <<pc, kind, subs, first, truth>> /\ upset' = (pc # "idle")
    BY <1>8 DEF Flip, runVars
  <2>2. CASE pc = "idle"
    <3>1. subs = <<>> BY <2>2 DEF PlacesInv
    <3> QED BY <1>1, <2>1, <2>2, <3>1
  <2>3. CASE pc # "idle"
    <3>1. Clear' = FALSE BY <2>1, <2>3 DEF Clear
    <3>2. ASSUME NEW s, NEW became, FairIn(kind, Clear, down, s, became)
          PROVE  FairIn(kind, FALSE, down', s, became)
      BY <3>2, FairUpset DEF FairIn
    <3>3. \A i \in 1..Len(subs) : FairIn(kind, FALSE, down', subs[i], truth[i])
      BY <3>2 DEF FairInv
    <3>4. pc = "retry" => FairIn(kind, FALSE, down', first, truth[Len(truth)])
      BY <3>2 DEF FairInv
    <3>5. \A i \in 1..Len(subs') : FairIn(kind', Clear', down', subs'[i], truth'[i])
      BY <2>1, <3>1, <3>3
    <3>6. pc' = "retry" => FairIn(kind', Clear', down', first', truth'[Len(truth')])
      BY <2>1, <3>1, <3>4
    <3> QED BY <3>5, <3>6 DEF FairInv
  <2> QED BY <2>2, <2>3
<1>9. CASE Tick BY <1>2, <1>9 DEF Tick, runVars, RunStill
<1>10. CASE UNCHANGED vars BY <1>2, <1>10 DEF vars, runVars, envVars, RunStill
<1> QED BY <1>3, <1>4, <1>5, <1>6, <1>7, <1>8, <1>9, <1>10 DEF Next

-----------------------------------------------------------------------------
(* A run in an unchanged environment.                                      *)

LEMMA SameWorld ==
  ASSUME UNCHANGED <<down, kind, site>>
  PROVE  /\ PathUp' = PathUp /\ OriginUp' = OriginUp /\ PathHolds' = PathHolds
         /\ ControlWithin' = ControlWithin /\ Native' = Native
BY DEF PathUp, OriginUp, PathHolds, ControlWithin, Native, NeedsV6

(* A run begins its requests: it has established what it relies on.        *)
LEMMA SettledBegins ==
  ASSUME UNCHANGED <<down, kind, site, calm>>, pc' = "request",
         (kind.runner = "curl" \/ Native) /\ NeedsV6(kind) /\ calm = CapTtl => PathHolds,
         kind.runner = "ew" => PathUp /\ OriginUp,
         Native => control' = "none"
  PROVE  SettledInv'
BY SameWorld DEF SettledInv

LEMMA SettledRequests ==
  ASSUME Request \/ Retry, EnvOK, PlaceOK, TakenOK, PlacesInv, SettledInv
  PROVE  SettledInv'
<1>0. /\ UNCHANGED <<down, kind, site, calm, upset, control>>
      /\ pc \in {"request", "retry"} /\ pc' \in {"request", "retry"}
  BY Requests, Retries
<1>1. Native => pc = "request" /\ pc' = "request"
  <2>1. Retry => ~Native BY Retries DEF Native
  <2>2. Request => pc = "request" /\ (pc' = "request" \/ kind.runner = "curl")
    BY Requests DEF FailsOver
  <2> QED BY <1>0, <2>1, <2>2 DEF Native
<1> QED BY <1>0, <1>1, SameWorld DEF SettledInv, Running

LEMMA SettledTurns ==
  ASSUME RequestsDone, EnvOK, PlaceOK, PlacesInv, SettledInv
  PROVE  SettledInv'
<1>0. /\ pc = "request" /\ pc' \in {"control after", "classify"}
      /\ UNCHANGED <<down, kind, site, calm, upset, control, first, subs, truth>>
  BY DEF RequestsDone, envVars
<1> SUFFICES ASSUME ~upset PROVE SettledInv'
  BY <1>0 DEF SettledInv
<1>1. /\ (kind.runner = "curl" \/ Native) /\ NeedsV6(kind) /\ calm = CapTtl => PathHolds
      /\ kind.runner = "ew" => PathUp /\ OriginUp
      /\ Native => control = "none"
  BY <1>0 DEF SettledInv, Running
<1>2. ASSUME Native PROVE /\ pc' = "control after" => asking' = DOMAIN site.controls
                          /\ pc' = "classify" => ~NeedControl \/ site.controls = <<>>
  BY <1>2 DEF RequestsDone, Native
<1>3. ControlWithin => /\ \E i \in DOMAIN site.controls : Reached(site.controls[i])
                       /\ site.controls # <<>>
  BY DEF ControlWithin, Reached
<1>4. NeedControl' = NeedControl BY <1>0 DEF NeedControl
<1>5. \A t : Reached(t)' = Reached(t) BY <1>0 DEF Reached
<1>6. ASSUME Native, pc' = "control after", ControlWithin
      PROVE  \E i \in asking' : Reached(site.controls[i])'
  BY <1>0, <1>2, <1>3, <1>6 DEF Reached
<1>7. Native => /\ pc' = "control after" =>
                     control' # "ok" /\ (ControlWithin => \E i \in asking' : Reached(site.controls[i])')
                /\ control' = "ok" => "uplink" \notin down'
                /\ pc' = "classify" /\ NeedControl' /\ ControlWithin => control' = "ok"
  BY <1>0, <1>1, <1>2, <1>3, <1>4, <1>6
<1> QED BY <1>0, <1>1, <1>7, SameWorld DEF SettledInv

LEMMA SettledAsks ==
  ASSUME ControlAfter, EnvOK, PlaceOK, PlacesInv, SettledInv
  PROVE  SettledInv'
<1>0. /\ pc = "control after" /\ pc' \in {"control after", "classify"}
      /\ UNCHANGED <<down, kind, site, calm, upset, first, subs, truth>>
      /\ Native
  BY DEF ControlAfter, AskControl, envVars, PlacesInv
<1> SUFFICES ASSUME ~upset PROVE SettledInv'
  BY <1>0 DEF SettledInv
<1>1. /\ NeedsV6(kind) /\ calm = CapTtl => PathHolds
      /\ ControlWithin => \E i \in asking : Reached(site.controls[i])
  BY <1>0 DEF SettledInv, Running
<1>2. /\ Reached(site.controls[NextToAsk]) => control' = "ok" /\ asking' = {}
      /\ ~Reached(site.controls[NextToAsk]) => control' = "failed" /\ asking' = asking \ {NextToAsk}
  BY DEF ControlAfter, AskControl, ControlSays, StillToAsk, Reached
<1>3. control' = "ok" => "uplink" \notin down'
  BY <1>0, <1>2 DEF Reached
<1>4. pc' = "control after" <=> asking' # {} BY <1>0 DEF ControlAfter
<1>5. pc' = "control after" => control' # "ok" BY <1>2, <1>4
<1>6. ASSUME ControlWithin, control' # "ok" PROVE \E i \in asking' : Reached(site.controls[i])'
  BY <1>0, <1>1, <1>2, <1>6 DEF Reached
<1>7. /\ pc' = "control after" =>
           control' # "ok" /\ (ControlWithin => \E i \in asking' : Reached(site.controls[i])')
      /\ control' = "ok" => "uplink" \notin down'
      /\ pc' = "classify" /\ ControlWithin => control' = "ok"
  BY <1>0, <1>3, <1>4, <1>5, <1>6
<1>8. kind.runner # "ew" BY <1>0 DEF Native
<1> QED BY <1>0, <1>1, <1>7, <1>8, SameWorld DEF SettledInv

LEMMA SettledHolds ==
  ASSUME EnvOK, PlaceOK, TakenOK, PlacesInv, CapInv, SettledInv, [Next]_vars
  PROVE  SettledInv'
<1>1. ASSUME pc' \notin Running \/ upset' PROVE SettledInv' BY <1>1 DEF SettledInv
<1>2. ASSUME NEW k, Start(k) PROVE SettledInv' BY <1>1, <1>2 DEF Start, Running
<1>3. CASE Return BY <1>1, <1>3 DEF Return, Running
<1>4. CASE Request BY <1>4, SettledRequests
<1>5. CASE Retry BY <1>5, SettledRequests
<1>6. CASE RequestsDone BY <1>6, SettledTurns
<1>7. CASE ControlAfter BY <1>7, SettledAsks
<1>8. ASSUME RunStep, pc \in {"needs", "control first", "feed"}, pc' = "request", ~Return,
             (kind.runner = "curl" \/ Native) /\ NeedsV6(kind) /\ calm = CapTtl => PathHolds,
             kind.runner = "ew" => PathUp /\ OriginUp,
             Native => control' = "none"
      PROVE  SettledInv'
  <2>1. ~Request /\ ~Retry BY <1>8 DEF Request, Retry
  <2>2. UNCHANGED <<down, kind, site, calm>>
    BY <1>8, <2>1, RunSteps DEF RunStill, envVars
  <2> QED BY <1>8, <2>2, SettledBegins
<1>9. CASE Http3Unmet BY <1>1, <1>9 DEF Http3Unmet, EndWith, Running
<1>10. CASE CapNoUrl BY <1>1, <1>10 DEF CapNoUrl, EndWith, Running
<1>11. ASSUME NothingNeeded \/ CapCached \/ CapProbe, pc' = "request",
              NeedsV6(kind) /\ calm = CapTtl => PathHolds
       PROVE  SettledInv'
  <2>1. pc = "needs" /\ ~Return /\ RunStep
    BY <1>11 DEF NothingNeeded, CapCached, CapProbe, Return, RunStep
  <2>2. kind.runner # "ew" BY <2>1 DEF PlacesInv
  <2>3. control' = control
    BY <1>11 DEF NothingNeeded, CapCached, CapProbe, Goto, EndWith, runVars
  <2> QED BY <1>8, <1>11, <2>1, <2>2, <2>3 DEF PlacesInv
<1>12. CASE NothingNeeded BY <1>11, <1>12 DEF NothingNeeded, Goto
<1>13. CASE CapCached
  <2>1. CASE cap.works
    <3>1. pc' = "request" BY <1>13, <2>1 DEF CapCached, Goto
    <3>2. calm = CapTtl => PathHolds BY <1>13, <2>1 DEF CapCached, CapFresh, CapInv, V6Answers
    <3> QED BY <1>11, <1>13, <3>1, <3>2
  <2>2. CASE ~cap.works BY <1>1, <1>13, <2>2 DEF CapCached, EndWith, Running
  <2> QED BY <2>1, <2>2
<1>14. CASE CapProbe
  <2> DEFINE works == PathUp /\ "ipv6 control" \notin down
  <2>1. IF works THEN Goto("request") ELSE EndWith(ERROR) BY <1>14 DEF CapProbe
  <2>2. CASE works
    <3>1. pc' = "request" BY <2>1, <2>2 DEF Goto
    <3>2. PathHolds BY <1>14, <2>2 DEF PathUp, PathHolds, CapProbe
    <3> QED BY <1>11, <1>14, <3>1, <3>2
  <2>3. CASE ~works BY <1>1, <2>1, <2>3 DEF EndWith, Running
  <2> QED BY <2>2, <2>3
<1>15. CASE ClassifyRun BY <1>1, <1>15 DEF ClassifyRun, EndWith, Running
<1>16. CASE EwControl
  <2>1. CASE control' = "ok"
    <3>1. pc = "control first" /\ pc' = "request" /\ PathUp /\ OriginUp /\ kind.runner = "ew"
      BY <1>16, <2>1 DEF EwControl, EwControlSays
    <3>2. ~Native /\ ~Return /\ RunStep BY <1>16, <3>1 DEF Native, Return, RunStep
    <3> QED BY <1>8, <3>1, <3>2
  <2>2. CASE control' # "ok" BY <1>1, <1>16, <2>2 DEF EwControl, Running
  <2> QED BY <2>1, <2>2
<1>17. CASE IprepNoControl BY <1>1, <1>17 DEF IprepNoControl, EndWith, Running
<1>18. CASE IprepControl BY <1>1, <1>18 DEF IprepControl, Running
<1>19. ASSUME FeedCached \/ FeedFetched PROVE SettledInv'
  <2>1. pc = "feed" /\ pc' \in {"request", "done"} /\ ~Return /\ RunStep
    BY <1>19 DEF FeedCached, FeedFetched, Goto, EndWith, Return, RunStep
  <2>2. kind.runner = "iprep" BY <2>1 DEF PlacesInv
  <2>3. ~Native BY <2>2 DEF Native
  <2>4. CASE pc' = "request" BY <1>8, <2>1, <2>2, <2>3, <2>4
  <2>5. CASE pc' = "done" BY <1>1, <2>5 DEF Running
  <2> QED BY <2>1, <2>4, <2>5
<1>20. CASE FeedFails BY <1>1, <1>20 DEF FeedFails, EndWith, Running
<1>21. ASSUME NEW what, Flip(what) PROVE SettledInv'
  BY <1>1, <1>21 DEF Flip, Running
<1>22. CASE Tick BY <1>1, <1>22 DEF Tick, Running
<1>23. CASE UNCHANGED vars
  BY <1>23 DEF SettledInv, vars, envVars, runVars, PathUp, OriginUp, PathHolds, Native,
               ControlWithin, NeedControl, Reached, NeedsV6
<1> QED BY <1>2, <1>3, <1>4, <1>5, <1>6, <1>7, <1>9, <1>10, <1>12, <1>13, <1>14, <1>15,
           <1>16, <1>17, <1>18, <1>19, <1>20, <1>21, <1>22, <1>23 DEF Next, RunStep

-----------------------------------------------------------------------------
(* The verdict.                                                            *)

(* What HonestVerdict promises of a run that ends, told of the verdict it  *)
(* is about to be given.                                                   *)
Honest(state) ==
  /\ state = ALLOWED => Became("passed") # {} \/ PageUnknown
  /\ state = BLOCKED =>
       Cardinality(Became("dropped") \cup Became("broken")) > Cardinality(Became("passed"))
  /\ Settled /\ state = BLOCKED /\ ~Blind =>
       Cardinality(Became("dropped")) > Cardinality(Became("passed"))
  /\ /\ Settled /\ kind.runner \in {"dns", "tcp"} /\ ControlWithin
     /\ truth # <<>> /\ Became("dropped") = DOMAIN truth
     => state = BLOCKED

LEMMA Distinct ==
  /\ ALLOWED # BLOCKED /\ ALLOWED # ERROR /\ BLOCKED # ERROR
  /\ RATIO # ALLOWED /\ RATIO # BLOCKED /\ INVALID # ALLOWED /\ INVALID # BLOCKED
BY DEF ALLOWED, BLOCKED, ERROR, RATIO, INVALID

(* A verdict by majority is honest when the state of each request is fair. *)
LEMMA HonestMajority ==
  ASSUME TakenOK, pc = "classify", NEW states, DOMAIN states = DOMAIN subs,
         \A i \in 1..Len(subs) : truth[i] = "passed" => states[i] = ALLOWED,
         \A i \in 1..Len(subs) : states[i] = ALLOWED => truth[i] = "passed" \/ PageUnknown,
         Settled /\ ~Blind => \A i \in 1..Len(subs) : states[i] = BLOCKED => truth[i] = "dropped",
         /\ Settled /\ Native /\ ControlWithin
         /\ truth # <<>> /\ Became("dropped") = DOMAIN truth
         => \A i \in 1..Len(subs) : states[i] = BLOCKED
  PROVE  Honest(Aggregate(states))
<1> DEFINE S == SubResult \cup Outcomes
<1>1. subs \in Seq(S) /\ truth \in Seq(Truths) /\ Len(truth) = Len(subs)
  BY DEF TakenOK
<1> HIDE DEF S
<1>2. /\ Len(subs) \in Nat
      /\ DOMAIN states = 1..Len(subs) /\ DOMAIN truth = 1..Len(subs)
      /\ \A i \in 1..Len(subs) : truth[i] \in Truths
  BY <1>1
<1>3. ASSUME NEW Met \in SUBSET (1..Len(subs)), Aggregate(states) = BLOCKED,
             \A i \in 1..Len(subs) : states[i] = BLOCKED => i \in Met
      PROVE  Cardinality(Met) > Cardinality(Became("passed"))
  BY <1>2, <1>3, MajorityHonest DEF Became
<1>4. ASSUME Aggregate(states) = ALLOWED PROVE Became("passed") # {} \/ PageUnknown
  <2>0. {} \in SUBSET (1..Len(subs)) OBVIOUS
  <2>1. PICK i \in 1..Len(subs) : states[i] = ALLOWED BY <1>2, <1>4, <2>0, MajorityHonest
  <2> QED BY <1>2, <2>1 DEF Became
<1>5. ASSUME Aggregate(states) = BLOCKED
      PROVE  Cardinality(Became("dropped") \cup Became("broken")) > Cardinality(Became("passed"))
  <2>1. ASSUME NEW i \in 1..Len(subs), states[i] = BLOCKED
        PROVE  i \in Became("dropped") \cup Became("broken")
    <3>1. truth[i] # "passed" BY <2>1, Distinct
    <3> QED BY <1>2, <3>1 DEF Truths, Became
  <2>2. Became("dropped") \cup Became("broken") \in SUBSET (1..Len(subs)) BY <1>2 DEF Became
  <2> QED BY <1>3, <1>5, <2>1, <2>2
<1>6. ASSUME Settled, Aggregate(states) = BLOCKED, ~Blind
      PROVE  Cardinality(Became("dropped")) > Cardinality(Became("passed"))
  <2>1. \A i \in 1..Len(subs) : states[i] = BLOCKED => i \in Became("dropped")
    BY <1>2, <1>6 DEF Became
  <2>2. Became("dropped") \in SUBSET (1..Len(subs)) BY <1>2 DEF Became
  <2> QED BY <1>3, <1>6, <2>1, <2>2
<1>7. ASSUME Settled, kind.runner \in {"dns", "tcp"}, ControlWithin, truth # <<>>,
             Became("dropped") = DOMAIN truth
      PROVE  Aggregate(states) = BLOCKED
  <2>1. \A i \in 1..Len(subs) : states[i] = BLOCKED BY <1>7 DEF Native
  <2>2. Len(truth) \in Nat \ {0} BY <1>1, <1>7, EmptySeq
  <2>3. Len(subs) > 0 BY <1>1, <2>2
  <2>4. {} \in SUBSET (1..Len(subs)) OBVIOUS
  <2> QED BY <1>2, <2>1, <2>3, <2>4, MajorityHonest
<1> QED BY <1>4, <1>5, <1>6, <1>7 DEF Honest

(* What SettledInv says of a settled run that is classified.               *)
LEMMA SettledFacts ==
  ASSUME SettledInv, pc = "classify", Settled
  PROVE  /\ (kind.runner = "curl" \/ Native) /\ NeedsV6(kind) => PathHolds
         /\ kind.runner = "ew" => PathUp /\ OriginUp
         /\ Native /\ control = "ok" => "uplink" \notin down
         /\ Native /\ NeedControl /\ ControlWithin => control = "ok"
         /\ ~upset
BY DEF SettledInv, Running, Settled

LEMMA ClassifyHonestly ==
  ASSUME EnvOK, PlaceOK, TakenOK, FairInv, SettledInv, pc = "classify"
  PROVE  Honest(State)
<1> DEFINE S == SubResult \cup Outcomes
           clear == Clear
           Up(i) == FromUp(kind, down, subs[i])
<1>0. subs \in Seq(S) BY DEF TakenOK
<1> HIDE DEF S
<1>1. DOMAIN subs = 1..Len(subs) /\ Len(subs) \in Nat BY <1>0
<1>2. \A i \in 1..Len(subs) : Fair(kind, clear, Up(i), subs[i], truth[i])
  BY DEF FairInv, FairIn
<1>3. control \in Controls /\ kind \in Kinds
  BY Zenon DEF PlaceOK, Controls, NoKind
<1>a. ASSUME ~Blind, kind.runner \in {"curl", "dns", "tcp"}, NEW i \in 1..Len(subs) PROVE Up(i)
  BY <1>1, <1>a DEF Blind, SiteUp, FromUp, AlternateUp, OriginUp
<1>4. CASE kind.runner = "curl"
  <2> DEFINE states == [i \in DOMAIN subs |-> ClassifySub(kind, subs[i], control)]
  <2>1. State = Aggregate(states) BY <1>4 DEF State, Classify
  <2>2. ASSUME Settled, ~Blind PROVE clear
    BY <1>4, <2>2, SettledFacts DEF Clear, Blind, PathUp, PathHolds
  <2>3. \A i \in 1..Len(subs) : states[i] = ClassifySub(kind, subs[i], control) BY <1>1
  <2>4. DOMAIN states = DOMAIN subs OBVIOUS
  <2> HIDE DEF states
  <2>5. ASSUME NEW i \in 1..Len(subs)
        PROVE  /\ states[i] = BLOCKED /\ clear /\ Up(i) => truth[i] = "dropped"
               /\ truth[i] = "passed" => states[i] = ALLOWED
               /\ states[i] = ALLOWED => truth[i] = "passed" \/ PageUnknown
    <3> HIDE DEF clear, Up
    <3>1. Fair(kind, clear, Up(i), subs[i], truth[i]) BY <1>2
    <3> QED BY <1>3, <1>4, <2>3, <3>1 DEF Fair, PageUnknown
  <2>6. ~Native BY <1>4 DEF Native
  <2> HIDE DEF clear, Up
  <2>7. Settled /\ ~Blind => \A i \in 1..Len(subs) : states[i] = BLOCKED => truth[i] = "dropped"
    BY <1>4, <1>a, <2>2, <2>5
  <2>8. Honest(Aggregate(states)) BY <2>4, <2>5, <2>6, <2>7, HonestMajority
  <2> QED BY <2>1, <2>8
<1>5. CASE Native
  <2> DEFINE states == [i \in DOMAIN subs |-> ClassifySub(kind, subs[i], control)]
  <2>1. State = Aggregate(states) BY <1>5 DEF State, Classify, Native
  <2>2. \A i \in 1..Len(subs) : states[i] = ClassifySub(kind, subs[i], control) BY <1>1
  <2>3. DOMAIN states = DOMAIN subs OBVIOUS
  <2>4. ASSUME Settled, control = "ok" PROVE clear
    BY <1>5, <2>4, SettledFacts DEF Clear, PathUp, PathHolds
  <2> HIDE DEF states, clear, Up
  <2>5. ASSUME NEW i \in 1..Len(subs)
        PROVE  /\ states[i] = BLOCKED /\ clear /\ Up(i) => truth[i] = "dropped"
               /\ states[i] = BLOCKED => control = "ok"
               /\ truth[i] = "passed" => states[i] = ALLOWED
               /\ states[i] = ALLOWED => truth[i] = "passed"
               /\ truth[i] = "dropped" => /\ ~subs[i].ok /\ ~subs[i].err
                                          /\ control = "ok" => states[i] = BLOCKED
    <3> DEFINE s == subs[i]
               up == Up(i)
    <3> HIDE DEF s, up
    <3>1. Fair(kind, clear, up, s, truth[i]) BY <1>2 DEF s, up
    <3>2. states[i] = ClassifySub(kind, s, control) BY <2>2 DEF s
    <3>3. /\ ~s.timedOut
          /\ truth[i] = "passed" <=> s.ok
          /\ s.err => ~s.ok /\ truth[i] = "broken"
          /\ ~s.ok /\ ~s.err /\ clear /\ up => truth[i] = "dropped"
      BY <1>5, <3>1 DEF Fair, Native
    <3>4. kind.runner # "curl" BY <1>5 DEF Native
    <3>5. states[i] = IF s.err THEN ERROR ELSE ClassifyProbe(s, control)
      BY <3>2, <3>3, <3>4 DEF ClassifySub
    <3>6. ClassifyProbe(s, control) = IF s.ok THEN ALLOWED
                                      ELSE IF control = "ok" THEN BLOCKED ELSE ERROR
      BY DEF ClassifyProbe
    <3>7. /\ states[i] = BLOCKED /\ clear /\ up => truth[i] = "dropped"
          /\ states[i] = BLOCKED => control = "ok"
          /\ truth[i] = "passed" => states[i] = ALLOWED
          /\ states[i] = ALLOWED => truth[i] = "passed"
          /\ truth[i] = "dropped" => /\ ~s.ok /\ ~s.err
                                     /\ control = "ok" => states[i] = BLOCKED
      BY <3>3, <3>5, <3>6, Distinct
    <3> QED BY <3>7 DEF s, up
  <2>6. ASSUME Settled, ControlWithin, truth # <<>>, Became("dropped") = DOMAIN truth
        PROVE  \A i \in 1..Len(subs) : states[i] = BLOCKED
    <3>1. truth \in Seq(Truths) /\ Len(truth) = Len(subs) BY DEF TakenOK
    <3>2. Len(truth) \in Nat \ {0} /\ DOMAIN truth = 1..Len(truth) BY <2>6, <3>1, EmptySeq
    <3>3. \A i \in 1..Len(subs) : truth[i] = "dropped" BY <2>6, <3>1, <3>2 DEF Became
    <3>4. 1 \in 1..Len(subs) BY <3>1, <3>2
    <3>5. ~subs[1].ok /\ ~subs[1].err BY <2>5, <3>3, <3>4
    <3>6. NeedControl BY <1>1, <3>4, <3>5 DEF NeedControl
    <3>7. control = "ok" BY <1>5, <2>6, <3>6, SettledFacts
    <3> QED BY <2>5, <3>3, <3>7
  <2>7. Settled /\ ~Blind => \A i \in 1..Len(subs) : states[i] = BLOCKED => truth[i] = "dropped"
    BY <1>5, <1>a, <2>4, <2>5 DEF Native
  <2>8. Honest(Aggregate(states)) BY <2>3, <2>5, <2>6, <2>7, HonestMajority
  <2> QED BY <2>1, <2>8
<1>6. CASE kind.runner = "ew"
  <2> DEFINE states == [i \in DOMAIN subs |->
                         CASE subs[i] \in {"open", "refused"} -> ALLOWED
                           [] subs[i] = "timeout"             -> BLOCKED
                           [] subs[i] = "unreachable"         -> ERROR]
  <2>1. State = Aggregate(states) BY <1>6 DEF State, EwVerdict
  <2>2. DOMAIN states = DOMAIN subs OBVIOUS
  <2>3. ASSUME Settled, NEW i \in 1..Len(subs) PROVE clear /\ Up(i)
    BY <1>6, <2>3, SettledFacts DEF Clear, FromUp, OriginUp
  <2>4. ASSUME NEW i \in 1..Len(subs)
        PROVE  /\ states[i] = BLOCKED /\ clear /\ Up(i) => truth[i] = "dropped"
               /\ truth[i] = "passed" => states[i] = ALLOWED
               /\ states[i] = ALLOWED => truth[i] = "passed"
    <3> HIDE DEF clear, Up
    <3>1. subs[i] \in Outcomes BY <1>6 DEF TakenOK
    <3>2. /\ truth[i] = "passed" <=> subs[i] \in {"open", "refused"}
          /\ subs[i] = "timeout" /\ clear /\ Up(i) => truth[i] = "dropped"
      BY <1>2, <1>6 DEF Fair
    <3>3. /\ subs[i] \in {"open", "refused"} => states[i] = ALLOWED
          /\ subs[i] = "timeout" => states[i] = BLOCKED
          /\ subs[i] = "unreachable" => states[i] = ERROR
      BY <1>1
    <3> HIDE DEF states
    <3> QED BY <3>1, <3>2, <3>3, Distinct DEF Outcomes
  <2>5. ~Native BY <1>6 DEF Native
  <2> HIDE DEF states, clear, Up
  <2>6. Settled /\ ~Blind => \A i \in 1..Len(subs) : states[i] = BLOCKED => truth[i] = "dropped"
    BY <2>3, <2>4
  <2>7. Honest(Aggregate(states)) BY <2>2, <2>4, <2>5, <2>6, HonestMajority
  <2> QED BY <2>1, <2>7
<1>7. CASE kind.runner = "iprep"
  <2>1. State = RATIO BY <1>7 DEF State
  <2> QED BY <1>7, <2>1, Distinct DEF Honest
<1> QED BY <1>3, <1>4, <1>5, <1>6, <1>7, KindFacts DEF Native

LEMMA HonestHolds ==
  ASSUME EnvOK, PlaceOK, TakenOK, PlacesInv, FairInv, SettledInv, HonestVerdict, [Next]_vars
  PROVE  HonestVerdict'
<1>1. ASSUME pc' # "done" PROVE HonestVerdict' BY <1>1 DEF HonestVerdict
<1>2. ASSUME verdict' \in {ERROR, INVALID}, truth' = <<>> PROVE HonestVerdict'
  BY <1>2, Distinct DEF HonestVerdict
<1>3. ASSUME NEW state, EndWith(state), pc \in {"needs", "control first", "feed"},
             state \in {ERROR, INVALID}
      PROVE  HonestVerdict'
  BY <1>2, <1>3 DEF EndWith, PlacesInv
<1>4. ASSUME NEW k, Start(k) PROVE HonestVerdict' BY <1>1, <1>4 DEF Start
<1>5. CASE Return BY <1>1, <1>5 DEF Return
<1>6. ASSUME Request \/ Retry PROVE HonestVerdict'
  BY <1>1, <1>6, Requests, Retries
<1>7. CASE RequestsDone BY <1>1, <1>7 DEF RequestsDone
<1>8. CASE ControlAfter BY <1>1, <1>8 DEF ControlAfter
<1>9. CASE Http3Unmet BY <1>3, <1>9 DEF Http3Unmet
<1>10. CASE NothingNeeded BY <1>1, <1>10 DEF NothingNeeded, Goto
<1>11. CASE CapCached BY <1>1, <1>3, <1>11 DEF CapCached, Goto
<1>12. CASE CapNoUrl BY <1>3, <1>12 DEF CapNoUrl
<1>13. CASE CapProbe BY <1>1, <1>3, <1>13 DEF CapProbe, Goto
<1>14. CASE ClassifyRun
  <2>1. /\ pc = "classify" /\ verdict' = State
        /\ UNCHANGED <<site, down, calm, kind, subs, truth, upset>>
    BY <1>14 DEF ClassifyRun, EndWith, envVars
  <2>2. Settled' = Settled /\ Blind' = Blind /\ ControlWithin' = ControlWithin
    BY <2>1 DEF Settled, Blind, SiteUp, AlternateUp, OriginUp, ControlWithin, NeedsV6
  <2>3. PageUnknown' = PageUnknown BY <2>1 DEF PageUnknown
  <2>4. /\ Became("dropped")' = Became("dropped") /\ Became("passed")' = Became("passed")
        /\ Became("broken")' = Became("broken")
    BY <2>1 DEF Became
  <2>5. Honest(State) BY <2>1, ClassifyHonestly
  <2> QED BY <2>1, <2>2, <2>3, <2>4, <2>5 DEF HonestVerdict, Honest
<1>15. CASE EwControl
  BY <1>1, <1>2, <1>15 DEF EwControl, PlacesInv
<1>16. CASE IprepNoControl BY <1>3, <1>16 DEF IprepNoControl
<1>17. CASE IprepControl
  BY <1>1, <1>2, <1>17 DEF IprepControl, AskControl, PlacesInv
<1>18. CASE FeedCached BY <1>1, <1>3, <1>18 DEF FeedCached, Goto
<1>19. CASE FeedFetched BY <1>1, <1>3, <1>19 DEF FeedFetched, Goto
<1>20. CASE FeedFails BY <1>3, <1>20 DEF FeedFails
<1>21. ASSUME NEW what, Flip(what) PROVE HonestVerdict'
  <2>1. UNCHANGED <<pc, kind, truth, verdict>> /\ (pc' = "done" => ~Settled')
    BY <1>21 DEF Flip, runVars, Settled
  <2>2. /\ Became("dropped")' = Became("dropped") /\ Became("passed")' = Became("passed")
        /\ Became("broken")' = Became("broken") /\ PageUnknown' = PageUnknown
    BY <2>1 DEF Became, PageUnknown
  <2> QED BY <2>1, <2>2 DEF HonestVerdict
<1>22. CASE Tick BY <1>1, <1>22 DEF Tick
<1>23. CASE UNCHANGED vars
  BY <1>23 DEF HonestVerdict, vars, envVars, runVars, Settled, Blind, SiteUp, AlternateUp,
               OriginUp, Became, PageUnknown, ControlWithin, NeedsV6
<1> QED BY <1>4, <1>5, <1>6, <1>7, <1>8, <1>9, <1>10, <1>11, <1>12, <1>13, <1>14, <1>15,
           <1>16, <1>17, <1>18, <1>19, <1>20, <1>21, <1>22, <1>23 DEF Next, RunStep

(* What a run that needs IPv6 found out about it.                          *)
LEMMA CapabilityHolds ==
  ASSUME EnvOK, PlaceOK, PlacesInv, CapInv, SettledInv, CapabilityHonest, [Next]_vars
  PROVE  CapabilityHonest'
<1> DEFINE Told == kind.runner \in {"curl", "dns", "tcp"} /\ NeedsV6(kind) /\ Settled
<1>1. ASSUME pc' # "done" PROVE CapabilityHonest' BY <1>1 DEF CapabilityHonest
<1>2. ASSUME NEW state, EndWith(state), pc = "needs",
             Told /\ Http3Met /\ site.ipv6Url => ~V6Answers
      PROVE  CapabilityHonest'
  <2>1. UNCHANGED <<site, down, calm, kind, subs, upset>> /\ subs = <<>>
    BY <1>2 DEF EndWith, envVars, PlacesInv
  <2>2. /\ Settled' = Settled /\ Http3Met' = Http3Met /\ PathUp' = PathUp
        /\ NeedsV6(kind)' = NeedsV6(kind)
    BY <2>1 DEF Settled, Http3Met, PathUp, NeedsV6
  <2> QED BY <1>2, <2>1, <2>2 DEF CapabilityHonest, V6Answers, PathHolds, PathUp
<1>3. ASSUME kind'.runner \in {"ew", "iprep"} PROVE CapabilityHonest'
  BY <1>3 DEF CapabilityHonest
<1>4. ASSUME NEW k, Start(k) PROVE CapabilityHonest' BY <1>1, <1>4 DEF Start
<1>5. CASE Return BY <1>1, <1>5 DEF Return
<1>6. ASSUME Request \/ Retry PROVE CapabilityHonest'
  BY <1>1, <1>6 DEF Request, Retry, Took
<1>7. CASE RequestsDone BY <1>1, <1>7 DEF RequestsDone
<1>8. CASE ControlAfter BY <1>1, <1>8 DEF ControlAfter
<1>9. CASE Http3Unmet BY <1>2, <1>9 DEF Http3Unmet
<1>10. CASE NothingNeeded BY <1>1, <1>10 DEF NothingNeeded, Goto
<1>11. CASE CapCached
  <2>1. CASE cap.works BY <1>1, <1>11, <2>1 DEF CapCached, Goto
  <2>2. CASE ~cap.works
    <3>1. EndWith(ERROR) /\ pc = "needs" /\ cap.known /\ cap.age < CapTtl
      BY <1>11, <2>2 DEF CapCached, CapFresh
    <3>2. Told => ~V6Answers BY <2>2, <3>1 DEF CapInv, Settled
    <3> QED BY <1>2, <3>1, <3>2
  <2> QED BY <2>1, <2>2
<1>12. CASE CapNoUrl BY <1>2, <1>12 DEF CapNoUrl
<1>13. CASE CapProbe
  <2> DEFINE works == PathUp /\ "ipv6 control" \notin down
  <2>1. /\ pc = "needs" /\ NeedsV6(kind)
        /\ IF works THEN Goto("request") ELSE EndWith(ERROR)
    BY <1>13 DEF CapProbe
  <2>2. CASE works BY <1>1, <2>1, <2>2 DEF Goto
  <2>3. CASE ~works
    <3>1. ~V6Answers BY <2>1, <2>3 DEF V6Answers, PathHolds, PathUp
    <3> QED BY <1>2, <2>1, <2>3, <3>1
  <2> QED BY <2>2, <2>3
<1>14. CASE ClassifyRun
  <2>1. /\ pc = "classify"
        /\ UNCHANGED <<site, down, calm, kind, subs, upset>>
    BY <1>14 DEF ClassifyRun, EndWith, envVars
  <2>2. /\ Settled' = Settled /\ PathUp' = PathUp /\ NeedsV6(kind)' = NeedsV6(kind)
    BY <2>1 DEF Settled, PathUp, NeedsV6
  <2>3. ASSUME Told PROVE PathUp /\ subs # <<>>
    <3>1. PathHolds BY <2>1, <2>3, SettledFacts DEF Native
    <3>2. Len(subs) = kind.requests /\ kind \in Kinds
      BY <2>1, <2>3 DEF PlacesInv, PlaceOK, Native
    <3>3. Len(subs) # 0 BY <3>2, KindFacts
    <3> QED BY <3>1, <3>3, EmptySeq DEF PathHolds, PathUp
  <2> QED BY <2>1, <2>2, <2>3 DEF CapabilityHonest
<1>15. CASE EwControl BY <1>3, <1>15 DEF EwControl
<1>16. CASE IprepNoControl BY <1>3, <1>16 DEF IprepNoControl, EndWith
<1>17. CASE IprepControl BY <1>3, <1>17 DEF IprepControl, AskControl
<1>18. ASSUME FeedCached \/ FeedFetched \/ FeedFails PROVE CapabilityHonest'
  <2>1. kind.runner = "iprep" /\ kind' = kind
    BY <1>18 DEF FeedCached, FeedFetched, FeedFails, Goto, EndWith, runVars, PlacesInv
  <2> QED BY <1>3, <2>1
<1>19. ASSUME NEW what, Flip(what) PROVE CapabilityHonest'
  <2>1. pc' = "done" => ~Settled' BY <1>19 DEF Flip, Settled
  <2> QED BY <2>1 DEF CapabilityHonest
<1>20. CASE Tick BY <1>1, <1>20 DEF Tick
<1>21. CASE UNCHANGED vars
  BY <1>21 DEF CapabilityHonest, vars, envVars, runVars, Settled, PathUp, NeedsV6, Http3Met
<1> QED BY <1>4, <1>5, <1>6, <1>7, <1>8, <1>9, <1>10, <1>11, <1>12, <1>13, <1>14, <1>15,
           <1>16, <1>17, <1>18, <1>19, <1>20, <1>21 DEF Next, RunStep

-----------------------------------------------------------------------------
(* The theorems.                                                           *)

LEMMA Invariance == Spec => []IInv
<1>1. Init => IInv
  <2> SUFFICES ASSUME Init PROVE IInv
    OBVIOUS
  <2> USE TriggerRunAssumption
  <2>1. EnvOK
    <3>1. cap \in [known : BOOLEAN, works : BOOLEAN, age : 0..CapTtl] BY DEF Init, Unknown
    <3>2. feed \in [known : BOOLEAN, length : Nat, age : 0..FeedTtl] BY DEF Init, NoFeed
    <3>3. flips \in 0..MaxFlips /\ calm \in 0..CapTtl /\ runs \in 0..MaxRuns BY DEF Init
    <3>4. down \subseteq Breakable /\ upset \in BOOLEAN
          /\ site \in Sites
      BY DEF Init
    <3> QED BY <3>1, <3>2, <3>3, <3>4 DEF EnvOK
  <2>2. PlaceOK BY DEF Init, PlaceOK, Places, Verdicts
  <2>3. TakenOK
    <3>1. subs = <<>> /\ truth = <<>> /\ first = Blank /\ pc = "idle" /\ kind = NoKind
      BY DEF Init
    <3>2. <<>> \in Seq(SubResult \cup Outcomes) /\ <<>> \in Seq(Truths) OBVIOUS
    <3>3. NoKind.requests = 1 /\ Blank \in SubResult BY KindFacts, BlankShape
    <3> HIDE DEF NoKind
    <3> QED BY <3>1, <3>2, <3>3 DEF TakenOK
  <2>4. PlacesInv BY DEF Init, PlacesInv
  <2>5. RetryInv /\ SettledInv /\ HonestVerdict /\ CapabilityHonest
    BY DEF Init, RetryInv, SettledInv, HonestVerdict, CapabilityHonest, Running
  <2>6. FairInv
    <3>1. subs = <<>> /\ pc = "idle" BY DEF Init
    <3>2. Len(subs) = 0 BY <3>1, EmptySeq
    <3>3. ~\E i \in 1..0 : TRUE OBVIOUS
    <3> QED BY <3>1, <3>2, <3>3 DEF FairInv
  <2>7. CapInv BY DEF Init, CapInv, Unknown
  <2> QED BY <2>1, <2>2, <2>3, <2>4, <2>5, <2>6, <2>7 DEF IInv
<1>2. IInv /\ [Next]_vars => IInv'
  BY EnvHolds, PlaceHolds, TakenHolds, PlacesHold, RetryHolds, CapHolds, FairHolds,
     SettledHolds, HonestHolds, CapabilityHolds DEF IInv
<1> QED BY <1>1, <1>2, PTL DEF Spec

(* Whatever fails around a run, allowed means that a request went through, *)
(* and blocked that more of them did not than did; in a settled            *)
(* environment and outside the blind spots of its runner, a blocked run    *)
(* met more drops than passes, and native requests that were all dropped   *)
(* are blocked while one control endpoint can be reached; for every        *)
(* catalog that describes its gateway, however caches age and the          *)
(* environment changes (run_trigger, _run_curl_with_failover, classify,    *)
(* _run_ew, probe_control).                                                *)
THEOREM VerdictsAreHonest == Spec => []HonestVerdict
BY Invariance, PTL DEF IInv

(* Where the environment stood still for the life of the cached answer, a  *)
(* trigger that needs IPv6 ran only over a route that is there, and was    *)
(* turned away only where there is none or the control address cannot be   *)
(* reached, however old the answer it was told (ipv6_egress_ok).           *)
THEOREM CapabilityIsCurrent == Spec => []CapabilityHonest
BY Invariance, PTL DEF IInv

(* Every variable holds what the code can hold there: a run never brings   *)
(* back more than it asked for, and what it brings back fits its runner.   *)
THEOREM RunsWellTyped == Spec => []TypeOK
<1>1. IInv => TypeOK
  <2> SUFFICES ASSUME IInv PROVE TypeOK
    OBVIOUS
  <2> DEFINE S == SubResult \cup Outcomes
  <2>1. subs \in Seq(S) /\ truth \in Seq(Truths) BY DEF IInv, TakenOK
  <2>2. \A i \in DOMAIN truth : truth[i] \in Truths BY <2>1
  <2> HIDE DEF S
  <2>3. DOMAIN subs = 1..Len(subs) BY <2>1
  <2> QED BY <2>2, <2>3 DEF IInv, EnvOK, PlaceOK, TakenOK, TypeOK, Places, Outcomes
<1> QED BY <1>1, Invariance, PTL
=============================================================================
