---------------------------- MODULE StartupProofs ----------------------------
(***************************************************************************)
(* What Startup promises for any command lines and any contents of the two *)
(* files.                                                                  *)
(***************************************************************************)
EXTENDS Startup, SequenceTheorems, WellFoundedInduction, TLAPS

(* Where the files have been read and not yet hashed.                      *)
BeforeStamp == {"profiles", "signature", "dispatch", "app"}

(* Why the evidence names the files in use: until something changes them,  *)
(* what was loaded is what is on the disk, and the stamp is taken from the *)
(* disk before anything can be exported.                                   *)
StampInv ==
  ~edited =>
    /\ at = "catalog" => disk.settings = settings
    /\ at \in BeforeStamp => disk.catalog = triggers /\ disk.settings = settings
    /\ at \in {"select", "firing", "window"} =>
         stamp = [catalog |-> triggers, settings |-> settings]
    /\ evidence # Nowhere => evidence = [catalog |-> triggers, settings |-> settings]

(* Nothing is exported before there is a session.                          *)
NoEvidenceYet ==
  at \in {"start", "settings", "catalog"} \cup BeforeStamp => evidence = Nowhere

LEMMA StampInvInit == Init => StampInv /\ NoEvidenceYet
BY DEF Init, StampInv, NoEvidenceYet, BeforeStamp

LEMMA StampInvStep ==
  StampInv /\ NoEvidenceYet /\ [Next]_vars => StampInv' /\ NoEvidenceYet'
<1> SUFFICES ASSUME StampInv, NoEvidenceYet, [Next]_vars
             PROVE  StampInv' /\ NoEvidenceYet'
  OBVIOUS
<1> USE DEF StampInv, NoEvidenceYet, BeforeStamp, Ends, Looks, GoesTo, loaded
<1>1. CASE Start
  BY <1>1 DEF Start
<1>2. CASE ReadSettings
  BY <1>2 DEF ReadSettings
<1>3. CASE ReadCatalog
  BY <1>3 DEF ReadCatalog
<1>4. CASE ReadProfiles \/ CheckSignature
  BY <1>4 DEF ReadProfiles, CheckSignature
<1>5. CASE ListProfiles \/ UnknownProfile \/ ListTriggers \/ Preflight \/ LastSession \/ NoPreview
  BY <1>5 DEF ListProfiles, UnknownProfile, ListTriggers, Preflight, LastSession, NoPreview,
              PastProfiles, Preflighting, PastPreflight
<1>6. CASE StartApp
  BY <1>6 DEF StartApp, Provenance
<1>7. CASE Select \/ FireNext
  BY <1>7 DEF Select, FireNext
<1>8. CASE Finish
  BY <1>8 DEF Finish, Exports, Named
<1>9. CASE NoDisplay \/ WindowFires \/ CloseWindow
  BY <1>9 DEF NoDisplay, WindowFires, CloseWindow
<1>10. CASE WindowExports
  BY <1>10 DEF WindowExports, Named
<1>11. CASE Edit
  BY <1>11 DEF Edit, Loading
<1>12. CASE UNCHANGED vars
  BY <1>12 DEF vars
<1>13. QED
  BY <1>1, <1>2, <1>3, <1>4, <1>5, <1>6, <1>7, <1>8, <1>9, <1>10, <1>11, <1>12 DEF Next, Main

(* The evidence a session exports names the files it was started from,     *)
(* whatever became of them later (RunLedger.__init__, provenance).         *)
THEOREM EvidenceNamesItsFiles == Spec => []StampNamesTheCatalog
<1>1. StampInv => StampNamesTheCatalog
  BY DEF StampInv, StampNamesTheCatalog
<1>2. QED
  BY <1>1, StampInvInit, StampInvStep, PTL DEF Spec

-----------------------------------------------------------------------------
(* A place where triggers can be fired is reached without a flag only.     *)
QuietInv ==
  /\ args.flags \subseteq Flags
  /\ at \notin {"start", "exited"} => "update" \notin args.flags
  /\ args.flags # {} => /\ at \notin {"app", "select", "firing", "window"}
                        /\ fired = <<>>

LEMMA QuietInvInit == Init => QuietInv
BY StartupAssumption DEF Init, QuietInv

LEMMA QuietInvStep == QuietInv /\ [Next]_vars => QuietInv'
<1> SUFFICES ASSUME QuietInv, [Next]_vars PROVE QuietInv'
  OBVIOUS
<1> USE DEF QuietInv, Flags, Ends, Looks, GoesTo, loaded
<1>1. CASE Start
  BY <1>1 DEF Start
<1>2. CASE ReadSettings
  BY <1>2 DEF ReadSettings
<1>3. CASE ReadCatalog
  BY <1>3 DEF ReadCatalog
<1>4. CASE ReadProfiles \/ CheckSignature
  BY <1>4 DEF ReadProfiles, CheckSignature
<1>5. CASE ListProfiles \/ UnknownProfile \/ ListTriggers \/ Preflight \/ LastSession
  BY <1>5 DEF ListProfiles, UnknownProfile, ListTriggers, Preflight, LastSession,
              PastProfiles, Preflighting, PastPreflight
<1>6. CASE NoPreview
  <2>1. /\ at = "dispatch" /\ "profiles" \notin args.flags
        /\ "list" \notin args.flags /\ "dry-run" \notin args.flags
        /\ "preflight" \notin args.flags /\ "last-session" \notin args.flags
    BY <1>6 DEF NoPreview, PastPreflight, PastProfiles, Listing
  <2>2. CASE "update" \in args.flags
    BY <1>6, <2>1, <2>2 DEF NoPreview
  <2>3. CASE "update" \notin args.flags
    <3>1. args.flags = {}
      BY <2>1, <2>3
    <3>2. args' = args
      BY <1>6 DEF NoPreview
    <3>3. QED
      BY <3>1, <3>2
  <2>4. QED
    BY <2>2, <2>3
<1>7. CASE StartApp
  BY <1>7 DEF StartApp
<1>8. CASE Select \/ FireNext \/ Finish
  BY <1>8 DEF Select, FireNext, Finish
<1>9. CASE NoDisplay \/ WindowFires \/ WindowExports \/ CloseWindow
  BY <1>9 DEF NoDisplay, WindowFires, WindowExports, CloseWindow
<1>10. CASE Edit
  BY <1>10 DEF Edit
<1>11. CASE UNCHANGED vars
  BY <1>11 DEF vars
<1>12. QED
  BY <1>1, <1>2, <1>3, <1>4, <1>5, <1>6, <1>7, <1>8, <1>9, <1>10, <1>11 DEF Next, Main

(* A preview, or an update, fires nothing, whatever else the command line  *)
(* holds (main's order of precedence).                                     *)
THEOREM PreviewsNeverFire == Spec => []PreviewsFireNothing
<1>1. QuietInv => PreviewsFireNothing
  BY DEF QuietInv, PreviewsFireNothing
<1>2. QED
  BY <1>1, QuietInvInit, QuietInvStep, PTL DEF Spec

-----------------------------------------------------------------------------
(* Recursion over a list.                                                  *)

LEMMA LeastOf ==
  ASSUME NEW T, T \subseteq Nat, T # {}
  PROVE  \E x \in T : \A y \in T : x <= y
<1>1. PICK x \in T : \A y \in T : ~(<<y, x>> \in OpToRel(<, Nat))
  BY NatLessThanWellFounded, WFMin
<1>2. \A y \in T : ~(y < x)
  BY <1>1 DEF OpToRel
<1>3. QED
  BY <1>2

LEMMA Induct ==
  ASSUME NEW S, 0 \in S, \A n \in Nat : n \in S => n + 1 \in S
  PROVE  \A n \in Nat : n \in S
<1> SUFFICES ASSUME NEW n \in Nat, n \notin S PROVE FALSE
  OBVIOUS
<1> DEFINE T == {i \in Nat : i \notin S}
<1>1. PICK x \in T : \A y \in T : x <= y
  BY LeastOf
<1>2. x \in Nat /\ x # 0 /\ x - 1 \in Nat /\ x - 1 + 1 = x
  OBVIOUS
<1>3. x - 1 \in S
  BY <1>1, <1>2
<1> QED
  BY <1>2, <1>3

(* What is defined for 0 and for each number from the one before it, is    *)
(* defined.                                                                *)
StepByStep(L, S, zero, step, g) ==
  /\ g \in [0..L -> S]
  /\ g[0] = zero
  /\ \A n \in 1..L : g[n] = step[<<n, g[n - 1]>>]

LEMMA Recursion ==
  ASSUME NEW L \in Nat, NEW S, NEW zero \in S, NEW step \in [(1..L) \X S -> S]
  PROVE  \E g : StepByStep(L, S, zero, step, g)
<1> DEFINE Fine(n, g) == StepByStep(n, S, zero, step, g)
           Reached == {n \in Nat : n <= L => \E g : Fine(n, g)}
<1>1. \E g : Fine(0, g)
  <2> DEFINE g == [i \in 0..0 |-> zero]
  <2>1. Fine(0, g)
    BY DEF StepByStep
  <2> QED
    BY <2>1
<1>2. ASSUME NEW n \in Nat, n + 1 <= L, NEW g, Fine(n, g) PROVE \E h : Fine(n + 1, h)
  <2> DEFINE top == step[<<n + 1, g[n]>>]
             h == [i \in 0..(n + 1) |-> IF i = n + 1 THEN top ELSE g[i]]
  <2> USE <1>2 DEF StepByStep
  <2>1. top \in S
    <3>1. g[n] \in S /\ n + 1 \in 1..L
      BY <1>2
    <3> QED
      BY <3>1
  <2> HIDE DEF top
  <2>2. h \in [0..(n + 1) -> S] /\ h[0] = zero
    BY <1>2, <2>1
  <2>3. h[n + 1] = step[<<n + 1, h[(n + 1) - 1]>>]
    <3>1. (n + 1) - 1 = n /\ h[n] = g[n] /\ h[n + 1] = top
      OBVIOUS
    <3> HIDE DEF h
    <3> QED
      BY <3>1 DEF top
  <2>4. ASSUME NEW i \in 1..n PROVE h[i] = step[<<i, h[i - 1]>>]
    <3>1. h[i] = g[i] /\ h[i - 1] = g[i - 1]
      OBVIOUS
    <3> QED
      BY <1>2, <3>1
  <2>5. \A i \in 1..(n + 1) : i \in 1..n \/ i = n + 1
    OBVIOUS
  <2> HIDE DEF h
  <2>6. Fine(n + 1, h)
    BY <2>2, <2>3, <2>4, <2>5
  <2> QED
    BY <2>6
<1> HIDE DEF Fine
<1>3. 0 \in Reached /\ \A n \in Nat : n \in Reached => n + 1 \in Reached
  BY <1>1, <1>2
<1> HIDE DEF Reached
<1>4. L \in Reached
  BY <1>3, Induct
<1> QED
  BY <1>4 DEF Reached, Fine

(* Those keeps the order: its elements lie at increasing places, all of I. *)
InOrder(s, I, n, out, pos) ==
  /\ pos \in [1..Len(out) -> {i \in I : i <= n}]
  /\ \A i \in I : i <= n => \E k \in 1..Len(out) : pos[k] = i
  /\ \A j, k \in 1..Len(out) : j < k => pos[j] < pos[k]
  /\ \A k \in 1..Len(out) : out[k] = s[pos[k]]

LEMMA OneMoreInOrder ==
  ASSUME NEW T, NEW s \in Seq(T), NEW I, I \subseteq 1..Len(s),
         NEW n \in Nat, n + 1 <= Len(s),
         NEW out \in Seq(T), \E pos : InOrder(s, I, n, out, pos)
  PROVE  \E pos : InOrder(s, I, n + 1, IF n + 1 \in I THEN Append(out, s[n + 1]) ELSE out, pos)
<1>1. PICK pos : InOrder(s, I, n, out, pos)
  OBVIOUS
<1>2. Len(out) \in Nat /\ Len(s) \in Nat
  OBVIOUS
<1>3. CASE n + 1 \notin I
  <2>1. \A i \in I : i <= n + 1 <=> i <= n
    BY <1>2, <1>3
  <2>2. {i \in I : i <= n + 1} = {i \in I : i <= n}
    BY <2>1
  <2>3. InOrder(s, I, n + 1, out, pos)
    BY <1>1, <2>1, <2>2 DEF InOrder
  <2> QED
    BY <1>3, <2>3
<1>4. CASE n + 1 \in I
  <2> DEFINE L == Len(out) + 1
             more == Append(out, s[n + 1])
             up == [k \in 1..L |-> IF k = L THEN n + 1 ELSE pos[k]]
  <2>1. /\ more \in Seq(T) /\ Len(more) = L /\ more[L] = s[n + 1] /\ L \in Nat
        /\ \A k \in 1..Len(out) : more[k] = out[k]
    BY <1>2
  <2>2. \A k \in 1..L : k = L \/ (k \in 1..Len(out) /\ k # L)
    BY <1>2
  <2>3. /\ \A k \in 1..Len(out) : k \in 1..L /\ k < L /\ L \in 1..L
        /\ L \in 1..L
    BY <1>2
  <2>4. \A k \in 1..Len(out) : pos[k] \in I /\ pos[k] <= n
    BY <1>1 DEF InOrder
  <2>5. /\ \A i \in I : i \in Nat
        /\ \A k \in 1..Len(out) : pos[k] \in Nat /\ pos[k] < n + 1 /\ pos[k] <= n + 1
    <3>1. \A i \in I : i \in Nat
      BY <1>2
    <3>2. \A i \in Nat : i <= n => i < n + 1 /\ i <= n + 1
      OBVIOUS
    <3> QED
      BY <2>4, <3>1, <3>2
  <2> HIDE DEF L, more
  <2>6. up[L] = n + 1 /\ \A k \in 1..Len(out) : up[k] = pos[k]
    BY <2>3
  <2>7. up \in [1..L -> {i \in I : i <= n + 1}]
    <3>1. ASSUME NEW k \in 1..L PROVE up[k] \in {i \in I : i <= n + 1}
      <4>1. CASE k = L
        BY <1>4, <2>6, <4>1
      <4>2. CASE k \in 1..Len(out)
        BY <2>4, <2>5, <2>6, <4>2
      <4> QED
        BY <2>2, <4>1, <4>2
    <3> QED
      BY <3>1
  <2> HIDE DEF up
  <2>8. ASSUME NEW i \in I, i <= n + 1 PROVE \E k \in 1..L : up[k] = i
    <3>1. CASE i = n + 1
      BY <2>3, <2>6, <3>1
    <3>2. CASE i # n + 1
      <4>1. i <= n
        BY <2>5, <2>8, <3>2
      <4>2. PICK k \in 1..Len(out) : pos[k] = i
        BY <1>1, <4>1 DEF InOrder
      <4> QED
        BY <2>3, <2>6, <4>2
    <3> QED
      BY <3>1, <3>2
  <2>9. ASSUME NEW j \in 1..L, NEW k \in 1..L, j < k PROVE up[j] < up[k]
    <3>1. j \in 1..Len(out)
      BY <2>1, <2>2, <2>9
    <3>2. CASE k = L
      BY <2>4, <2>5, <2>6, <3>1, <3>2
    <3>3. CASE k \in 1..Len(out)
      BY <1>1, <2>6, <2>9, <3>1, <3>3 DEF InOrder
    <3> QED
      BY <2>2, <3>2, <3>3
  <2>10. \A k \in 1..L : more[k] = s[up[k]]
    <3>1. ASSUME NEW k \in 1..Len(out) PROVE more[k] = s[up[k]]
      BY <1>1, <2>1, <2>6 DEF InOrder
    <3> QED
      BY <2>1, <2>2, <2>6, <3>1
  <2>11. InOrder(s, I, n + 1, more, up)
    BY <2>1, <2>7, <2>8, <2>9, <2>10 DEF InOrder
  <2> QED
    BY <1>4, <2>11 DEF more
<1> QED
  BY <1>3, <1>4

LEMMA ThoseInOrder ==
  ASSUME NEW T, NEW s \in Seq(T), NEW I, I \subseteq 1..Len(s)
  PROVE  /\ Those(s, I) \in Seq(T)
         /\ \E pos : InOrder(s, I, Len(s), Those(s, I), pos)
<1> DEFINE L == Len(s)
           step == [p \in (1..L) \X Seq(T) |-> IF p[1] \in I THEN Append(p[2], s[p[1]]) ELSE p[2]]
           Eq(f) == f = [n \in 0..L |-> IF n = 0 THEN <<>>
                                        ELSE IF n \in I THEN Append(f[n - 1], s[n])
                                             ELSE f[n - 1]]
           upto == CHOOSE f : Eq(f)
<1>1. L \in Nat /\ \A n \in 1..L : s[n] \in T
  OBVIOUS
<1> HIDE DEF L
<1>2. step \in [(1..L) \X Seq(T) -> Seq(T)]
  BY <1>1
<1>3. \A n \in 1..L : \A q \in Seq(T) :
         step[<<n, q>>] = IF n \in I THEN Append(q, s[n]) ELSE q
  OBVIOUS
<1> HIDE DEF step
<1>4. PICK g : StepByStep(L, Seq(T), <<>>, step, g)
  <2>1. <<>> \in Seq(T)
    OBVIOUS
  <2> QED
    BY <1>1, <1>2, <2>1, Recursion
<1>5. Eq(g)
  <2>1. ASSUME NEW n \in 1..L
        PROVE  g[n] = IF n \in I THEN Append(g[n - 1], s[n]) ELSE g[n - 1]
    <3>1. g[n - 1] \in Seq(T)
      BY <1>1, <1>4 DEF StepByStep
    <3> QED
      BY <1>3, <1>4, <3>1 DEF StepByStep
  <2>2. \A n \in 0..L : n = 0 \/ n \in 1..L
    BY <1>1
  <2> QED
    BY <1>4, <2>1, <2>2 DEF StepByStep
<1>6. Eq(upto)
  BY <1>5
<1>7. Those(s, I) = upto[L]
  BY DEF Those, L
<1> HIDE DEF upto
<1>8. upto[0] = <<>>
  BY <1>1, <1>6
<1>9. ASSUME NEW n \in Nat, n + 1 <= L
      PROVE  upto[n + 1] = IF n + 1 \in I THEN Append(upto[n], s[n + 1]) ELSE upto[n]
  <2>1. n + 1 \in 0..L /\ n + 1 # 0 /\ (n + 1) - 1 = n
    BY <1>1, <1>9
  <2> QED
    BY <1>6, <2>1
<1> HIDE DEF Eq
<1> DEFINE Good == {n \in Nat : n <= L => /\ upto[n] \in Seq(T)
                                          /\ \E pos : InOrder(s, I, n, upto[n], pos)}
<1>10. 0 \in Good
  <2> DEFINE none == [k \in {} |-> 0]
  <2>1. InOrder(s, I, 0, <<>>, none)
    BY <1>1 DEF InOrder, L
  <2>2. upto[0] \in Seq(T)
    BY <1>8
  <2> HIDE DEF none
  <2>3. \E pos : InOrder(s, I, 0, upto[0], pos)
    BY Zenon, <1>8, <2>1
  <2> QED
    BY <2>2, <2>3
<1>11. ASSUME NEW n \in Nat, n + 1 <= L, upto[n] \in Seq(T),
              \E pos : InOrder(s, I, n, upto[n], pos)
       PROVE  /\ upto[n + 1] \in Seq(T)
              /\ \E pos : InOrder(s, I, n + 1, upto[n + 1], pos)
  <2>1. n + 1 <= Len(s) /\ s[n + 1] \in T
    BY <1>1, <1>11 DEF L
  <2>2. upto[n + 1] \in Seq(T)
    <3>1. Append(upto[n], s[n + 1]) \in Seq(T)
      BY <1>11, <2>1
    <3> QED
      BY Zenon, <1>9, <1>11, <3>1
  <2>3. \E pos : InOrder(s, I, n + 1, IF n + 1 \in I THEN Append(upto[n], s[n + 1]) ELSE upto[n], pos)
    BY <1>11, <2>1, OneMoreInOrder
  <2> QED
    BY <1>9, <1>11, <2>2, <2>3
<1>12. ASSUME NEW n \in Nat, n \in Good PROVE n + 1 \in Good
  <2> SUFFICES ASSUME n + 1 <= L PROVE n + 1 \in Good
    OBVIOUS
  <2>1. n <= L /\ upto[n] \in Seq(T) /\ \E pos : InOrder(s, I, n, upto[n], pos)
    BY <1>1, <1>12
  <2> HIDE DEF Good
  <2>2. /\ upto[n + 1] \in Seq(T)
        /\ \E pos : InOrder(s, I, n + 1, upto[n + 1], pos)
    BY Zenon, <1>11, <2>1
  <2>3. n + 1 \in Nat
    OBVIOUS
  <2> QED
    BY Zenon, <2>2, <2>3 DEF Good
<1> HIDE DEF Good
<1>13. L \in Good
  BY <1>1, <1>10, <1>12, Induct
<1> QED
  BY <1>1, <1>7, <1>13 DEF Good, L

-----------------------------------------------------------------------------
(* Sums.                                                                   *)

Tallies == [enabled : Nat, gated : Nat, unconfigured : Nat, signals : Nat, ifGate : Nat]

(* What one trigger adds.                                                  *)
LEMMA OneTallied ==
  ASSUME NEW q \in Tallies, NEW t, NEW s, OnWireCount(t, s) \in Nat
  PROVE  /\ Tallied(q, t, s) \in Tallies
         /\ Tallied(q, t, s).signals
              = IF Unavailable(t, s) THEN q.signals ELSE q.signals + OnWireCount(t, s)
         /\ Tallied(q, t, s).ifGate
              = IF Unconfigured(t, s) THEN q.ifGate ELSE q.ifGate + OnWireCount(t, s)
<1> DEFINE w == OnWireCount(t, s)
           r == Tallied(q, t, s)
<1>1. w \in Nat
  OBVIOUS
<1>0. /\ q = [enabled |-> q.enabled, gated |-> q.gated, unconfigured |-> q.unconfigured,
              signals |-> q.signals, ifGate |-> q.ifGate]
      /\ q.enabled \in Nat /\ q.gated \in Nat /\ q.unconfigured \in Nat
      /\ q.signals \in Nat /\ q.ifGate \in Nat
  BY DEF Tallies
<1>2. CASE Unconfigured(t, s)
  <2>1. r = [q EXCEPT !.unconfigured = @ + 1]
    BY Zenon, <1>2 DEF Tallied
  <2> HIDE DEF r, w
  <2>2. r \in Tallies /\ r.signals = q.signals /\ r.ifGate = q.ifGate
    BY <2>1 DEF Tallies
  <2> QED
    BY Zenon, <1>2, <2>2 DEF Unavailable, r
<1>3. CASE ~Unconfigured(t, s) /\ GatedDisabled(t, s)
  <2>1. r = [q EXCEPT !.gated = @ + 1, !.ifGate = @ + w]
    BY Zenon, <1>3 DEF Tallied
  <2> HIDE DEF r, w
  <2>2. r = [enabled |-> q.enabled, gated |-> q.gated + 1,
             unconfigured |-> q.unconfigured, signals |-> q.signals,
             ifGate |-> q.ifGate + w]
    BY <1>0, <2>1
  <2>3. q.gated + 1 \in Nat /\ q.ifGate + w \in Nat
    BY <1>0, <1>1
  <2>4. r \in Tallies /\ r.signals = q.signals /\ r.ifGate = q.ifGate + w
    BY <1>0, <2>2, <2>3 DEF Tallies
  <2> QED
    BY Zenon, <1>3, <2>4 DEF Unavailable, r, w
<1>4. CASE ~Unconfigured(t, s) /\ ~GatedDisabled(t, s)
  <2>1. r = [q EXCEPT !.enabled = @ + 1, !.ifGate = @ + w, !.signals = @ + w]
    BY Zenon, <1>4 DEF Tallied
  <2> HIDE DEF r, w
  <2>2. r = [enabled |-> q.enabled + 1, gated |-> q.gated,
             unconfigured |-> q.unconfigured, signals |-> q.signals + w,
             ifGate |-> q.ifGate + w]
    BY <1>0, <2>1
  <2>3. q.enabled + 1 \in Nat /\ q.signals + w \in Nat /\ q.ifGate + w \in Nat
    BY <1>0, <1>1
  <2>4. r \in Tallies /\ r.signals = q.signals + w /\ r.ifGate = q.ifGate + w
    BY <1>0, <2>2, <2>3 DEF Tallies
  <2> QED
    BY Zenon, <1>4, <2>4 DEF Unavailable, r, w
<1> QED
  BY Zenon, <1>2, <1>3, <1>4

(* The manifest of a list, trigger by trigger.                             *)
ByTrigger(ts, s, g) ==
  /\ g \in [0..Len(ts) -> Tallies]
  /\ g[0] = NothingYet
  /\ \A n \in 1..Len(ts) : g[n] = Tallied(g[n - 1], ts[n], s)
  /\ SignalManifest(ts, s) = g[Len(ts)]

LEMMA ManifestTallied ==
  ASSUME NEW T, NEW ts \in Seq(T), NEW s, \A t \in T : OnWireCount(t, s) \in Nat
  PROVE  \E g : ByTrigger(ts, s, g)
<1> DEFINE L == Len(ts)
           step == [p \in (1..L) \X Tallies |-> Tallied(p[2], ts[p[1]], s)]
           Eq(f) == f = [n \in 0..L |-> IF n = 0 THEN NothingYet
                                        ELSE Tallied(f[n - 1], ts[n], s)]
           upto == CHOOSE f : Eq(f)
<1>1. L \in Nat /\ \A n \in 1..L : ts[n] \in T
  OBVIOUS
<1> HIDE DEF L
<1>2. \A q \in Tallies : \A t \in T : Tallied(q, t, s) \in Tallies
  BY OneTallied
<1>3. step \in [(1..L) \X Tallies -> Tallies]
  BY <1>1, <1>2
<1>4. \A n \in 1..L : \A q \in Tallies : step[<<n, q>>] = Tallied(q, ts[n], s)
  OBVIOUS
<1> HIDE DEF step
<1>5. NothingYet \in Tallies
  BY DEF NothingYet, Tallies
<1>6. PICK g : StepByStep(L, Tallies, NothingYet, step, g)
  BY <1>1, <1>3, <1>5, Recursion
<1>7. \A n \in 1..L : g[n] = Tallied(g[n - 1], ts[n], s)
  <2> SUFFICES ASSUME NEW n \in 1..L PROVE g[n] = Tallied(g[n - 1], ts[n], s)
    OBVIOUS
  <2>1. g[n - 1] \in Tallies
    BY <1>1, <1>6 DEF StepByStep
  <2> QED
    BY <1>4, <1>6, <2>1 DEF StepByStep
<1>8. Eq(g)
  <2>1. \A n \in 0..L : n = 0 \/ n \in 1..L
    BY <1>1
  <2> QED
    BY <1>6, <1>7, <2>1 DEF StepByStep
<1>9. Eq(upto)
  BY <1>8
<1>10. SignalManifest(ts, s) = upto[L]
  BY DEF SignalManifest, L
<1> HIDE DEF upto
<1>11. upto[0] = NothingYet /\ \A n \in 1..L : upto[n] = Tallied(upto[n - 1], ts[n], s)
  BY <1>1, <1>9
<1> HIDE DEF Eq
<1>12. upto \in [0..L -> Tallies]
  <2> DEFINE Same == {n \in Nat : n <= L => upto[n] \in Tallies}
  <2>1. 0 \in Same
    BY <1>5, <1>11
  <2>2. ASSUME NEW n \in Nat, n \in Same PROVE n + 1 \in Same
    <3> SUFFICES ASSUME n + 1 <= L PROVE upto[n + 1] \in Tallies
      OBVIOUS
    <3>1. n <= L /\ n + 1 \in 1..L /\ (n + 1) - 1 = n
      BY <1>1
    <3>2. upto[n] \in Tallies /\ ts[n + 1] \in T
      BY <1>1, <2>2, <3>1
    <3>3. upto[n + 1] = Tallied(upto[n], ts[n + 1], s)
      BY <1>11, <3>1
    <3> QED
      BY <1>2, <3>2, <3>3
  <2> HIDE DEF Same
  <2>3. \A n \in Nat : n \in Same
    BY <2>1, <2>2, Induct
  <2>4. \A n \in 0..L : upto[n] \in Tallies
    BY <1>1, <2>3 DEF Same
  <2> QED
    BY <1>9, <2>4 DEF Eq
<1> QED
  BY <1>10, <1>11, <1>12 DEF L, ByTrigger

(* What may be in a catalog, and what App.run can return of it.            *)
Entries == UNION {ToSet(file) : file \in CatalogFiles}

Results == [id : {e.id : e \in Entries}, state : Verdicts, signals : Nat]

LEMMA OnWireIsCount ==
  ASSUME NEW t, NEW s, IsEntry(t), IsSettings(s)
  PROVE  OnWireCount(t, s) \in Nat
<1>1. t.requests \in Nat /\ s.sample \in Nat
  BY DEF IsEntry, IsSettings
<1>2. \A of \in DOMAIN s.targets : s.targets[of].ports \in Nat
  BY Zenon DEF IsSettings, Range
<1> DEFINE known == LoadEwTargets(s) = "loaded" /\ t.of \in DOMAIN s.targets
<1>3. OnWireCount(t, s) =
        IF t.runner = "iprep" THEN IF s.sample = 0 THEN 1 ELSE s.sample
        ELSE IF t.runner = "ew" THEN IF known THEN s.targets[t.of].ports ELSE 0
        ELSE t.requests
  BY Zenon DEF OnWireCount
<1>4. known => s.targets[t.of].ports \in Nat
  BY <1>2
<1> HIDE DEF known
<1> QED
  BY <1>1, <1>3, <1>4

(* Opening the gate changes nothing but the gate.                          *)
LEMMA OpenedIsOpen ==
  ASSUME NEW s, IsSettings(s)
  PROVE  \A t : /\ Unconfigured(t, Opened(s)) <=> Unconfigured(t, s)
                /\ OnWireCount(t, Opened(s)) = OnWireCount(t, s)
                /\ ~GatedDisabled(t, Opened(s))
<1> DEFINE o == Opened(s)
<1>1. DOMAIN s = {"mapping", "strict", "live", "sample", "unreadable", "targets", "feeds",
                  "profiles"}
  BY Zenon DEF IsSettings
<1>2. o.targets = s.targets /\ o.sample = s.sample /\ o.live = TRUE
  BY <1>1 DEF Opened
<1> HIDE DEF o
<1>3. LoadEwTargets(o) = LoadEwTargets(s)
  BY <1>2 DEF LoadEwTargets
<1>4. ASSUME NEW t
      PROVE  /\ Unconfigured(t, o) <=> Unconfigured(t, s)
             /\ OnWireCount(t, o) = OnWireCount(t, s)
             /\ ~GatedDisabled(t, o)
  <2>1. Unconfigured(t, o) <=> Unconfigured(t, s)
    BY <1>2, <1>3 DEF Unconfigured
  <2>2. OnWireCount(t, o) = OnWireCount(t, s)
    BY <1>2, <1>3 DEF OnWireCount
  <2>3. ~GatedDisabled(t, o)
    BY <1>2 DEF GatedDisabled
  <2> QED
    BY <2>1, <2>2, <2>3
<1> QED
  BY <1>4 DEF o

(* The second half of the manifest's promise, for any list of triggers.    *)
LEMMA GateIsCounted ==
  ASSUME NEW T, NEW ts \in Seq(T), NEW s, IsSettings(s), \A t \in T : IsEntry(t)
  PROVE  SignalManifest(ts, s).ifGate = SignalManifest(ts, Opened(s)).signals
<1> DEFINE L == Len(ts)
           o == Opened(s)
<1>1. /\ \A t \in T : OnWireCount(t, s) \in Nat
      /\ \A t \in T : OnWireCount(t, o) \in Nat
      /\ \A t \in T : OnWireCount(t, o) = OnWireCount(t, s)
      /\ \A t \in T : Unavailable(t, o) <=> Unconfigured(t, s)
  BY OnWireIsCount, OpenedIsOpen DEF Unavailable
<1>2. L \in Nat /\ \A n \in 1..L : ts[n] \in T
  OBVIOUS
<1> HIDE DEF o
<1>3. PICK g : ByTrigger(ts, s, g)
  BY <1>1, ManifestTallied
<1>4. PICK h : ByTrigger(ts, o, h)
  BY <1>1, ManifestTallied
<1> HIDE DEF L
<1> DEFINE Same == {n \in Nat : n <= L => g[n].ifGate = h[n].signals}
<1>5. 0 \in Same
  BY <1>3, <1>4 DEF NothingYet, ByTrigger
<1>6. ASSUME NEW n \in Nat, n \in Same PROVE n + 1 \in Same
  <2> SUFFICES ASSUME n + 1 <= L PROVE g[n + 1].ifGate = h[n + 1].signals
    OBVIOUS
  <2>1. n <= L /\ n + 1 \in 1..L /\ n \in 0..L /\ (n + 1) - 1 = n
    BY <1>2
  <2> DEFINE t == ts[n + 1]
  <2>2. /\ g[n] \in Tallies /\ h[n] \in Tallies /\ t \in T
        /\ g[n + 1] = Tallied(g[n], t, s) /\ h[n + 1] = Tallied(h[n], t, o)
    BY <1>2, <1>3, <1>4, <2>1 DEF L, ByTrigger
  <2>3. g[n].ifGate = h[n].signals
    BY <1>6, <2>1
  <2> HIDE DEF t, Same
  <2>4. OnWireCount(t, s) \in Nat /\ OnWireCount(t, o) = OnWireCount(t, s)
        /\ (Unavailable(t, o) <=> Unconfigured(t, s))
    BY Zenon, <1>1, <2>2
  <2>5. g[n + 1].ifGate = IF Unconfigured(t, s) THEN g[n].ifGate
                          ELSE g[n].ifGate + OnWireCount(t, s)
    BY <2>2, <2>4, OneTallied
  <2>6. h[n + 1].signals = IF Unavailable(t, o) THEN h[n].signals
                           ELSE h[n].signals + OnWireCount(t, o)
    BY <2>2, <2>4, OneTallied
  <2> QED
    BY <2>3, <2>4, <2>5, <2>6
<1> HIDE DEF Same
<1>7. \A n \in Nat : n \in Same
  BY <1>5, <1>6, Induct
<1> QED
  BY <1>2, <1>3, <1>4, <1>7 DEF L, Same, o, ByTrigger

(* The signals reported, result by result.                                 *)
LEMMA ReportTallied ==
  ASSUME fired \in Seq(Results)
  PROVE  \E g : /\ g \in [0..Len(fired) -> Nat]
                /\ g[0] = 0
                /\ \A n \in 1..Len(fired) : g[n] = g[n - 1] + fired[n].signals
                /\ SignalsReported = g[Len(fired)]
<1> DEFINE L == Len(fired)
           step == [p \in (1..L) \X Nat |-> p[2] + fired[p[1]].signals]
           Eq(f) == f = [n \in 0..L |-> IF n = 0 THEN 0 ELSE f[n - 1] + fired[n].signals]
           upto == CHOOSE f : Eq(f)
<1>1. L \in Nat /\ \A n \in 1..L : fired[n].signals \in Nat
  <2>1. \A n \in 1..L : fired[n] \in Results
    OBVIOUS
  <2> QED
    BY <2>1 DEF Results
<1> HIDE DEF L
<1>2. step \in [(1..L) \X Nat -> Nat]
  BY <1>1
<1>3. \A n \in 1..L : \A q \in Nat : step[<<n, q>>] = q + fired[n].signals
  OBVIOUS
<1> HIDE DEF step
<1>4. PICK g : StepByStep(L, Nat, 0, step, g)
  BY <1>1, <1>2, Recursion
<1>5. g \in [0..L -> Nat] /\ g[0] = 0 /\ \A n \in 1..L : g[n] = g[n - 1] + fired[n].signals
  <2>1. ASSUME NEW n \in 1..L PROVE g[n] = g[n - 1] + fired[n].signals
    <3>1. g[n - 1] \in Nat
      BY <1>1, <1>4 DEF StepByStep
    <3> QED
      BY <1>3, <1>4, <3>1 DEF StepByStep
  <2> QED
    BY <1>4, <2>1 DEF StepByStep
<1>6. Eq(g)
  <2>1. \A n \in 0..L : n = 0 \/ n \in 1..L
    BY <1>1
  <2> QED
    BY <1>5, <2>1
<1>7. Eq(upto)
  BY <1>6
<1>8. SignalsReported = upto[L]
  BY DEF SignalsReported, L
<1> HIDE DEF upto
<1>9. upto[0] = 0 /\ \A n \in 1..L : upto[n] = upto[n - 1] + fired[n].signals
  BY <1>1, <1>7
<1>10. upto[L] = g[L]
  <2> DEFINE Same == {n \in Nat : n <= L => upto[n] = g[n]}
  <2>1. 0 \in Same
    BY <1>5, <1>9
  <2>2. ASSUME NEW n \in Nat, n \in Same PROVE n + 1 \in Same
    <3> SUFFICES ASSUME n + 1 <= L PROVE upto[n + 1] = g[n + 1]
      OBVIOUS
    <3>1. n <= L /\ n + 1 \in 1..L /\ (n + 1) - 1 = n
      BY <1>1
    <3> QED
      BY <1>5, <1>9, <2>2, <3>1
  <2> HIDE DEF Same
  <2>3. L \in Same
    BY <1>1, <2>1, <2>2, Induct
  <2> QED
    BY <1>1, <2>3 DEF Same
<1> QED
  BY <1>5, <1>8, <1>10 DEF L

(* A list of length L, its weights w summed in h at the places I, and one  *)
(* of length K that holds these, in this order, summed in g.               *)
SameSummands(L, K, I, place, w, g, h) ==
  /\ I \subseteq 1..L /\ place \in [1..K -> I]
  /\ \A i \in I : \E k \in 1..K : place[k] = i
  /\ \A j, k \in 1..K : j < k => place[j] < place[k]
  /\ g[0] = 0 /\ \A k \in 1..K : g[k] = g[k - 1] + w[place[k]]
  /\ h[0] = 0
  /\ \A n \in 1..L : h[n] = IF n \in I THEN h[n - 1] + w[n] ELSE h[n - 1]

LEMMA SumAlong ==
  ASSUME NEW L \in Nat, NEW K \in Nat, NEW I, NEW place, NEW w, NEW g, NEW h,
         SameSummands(L, K, I, place, w, g, h)
  PROVE  g[K] = h[L]
<1> USE DEF SameSummands
<1> DEFINE Cut(k, n) == /\ \A j \in 1..K : j <= k => place[j] <= n
                        /\ \A j \in 1..K : j > k => place[j] > n
           Good == {n \in Nat : n <= L => \A k \in 0..K : Cut(k, n) => g[k] = h[n]}
<1>1. \A k \in 1..K : place[k] \in Nat /\ place[k] >= 1 /\ place[k] <= L /\ place[k] \in I
  <2>1. \A i \in I : i \in Nat /\ i >= 1 /\ i <= L
    OBVIOUS
  <2> QED
    BY <2>1
<1>2. 0 \in Good
  <2> SUFFICES ASSUME NEW k \in 0..K, Cut(k, 0) PROVE g[k] = h[0]
    OBVIOUS
  <2>1. k = 0
    <3>1. k # 0 => k \in 1..K /\ place[k] <= 0
      OBVIOUS
    <3> QED
      BY <1>1, <3>1
  <2> QED
    BY <2>1
<1>3. ASSUME NEW n \in Nat, n \in Good PROVE n + 1 \in Good
  <2> SUFFICES ASSUME n + 1 <= L, NEW k \in 0..K, Cut(k, n + 1) PROVE g[k] = h[n + 1]
    OBVIOUS
  <2>1. n <= L /\ n + 1 \in 1..L /\ (n + 1) - 1 = n
    OBVIOUS
  <2>2. \A m \in 0..K : Cut(m, n) => g[m] = h[n]
    BY <1>3, <2>1
  <2> HIDE DEF Good
  <2>3. CASE n + 1 \in I
    <3>1. PICK m \in 1..K : place[m] = n + 1
      BY <2>3
    <3>2. m <= k
      BY <1>1, <3>1
    <3>3. m = k
      <4>1. m < k => k \in 1..K /\ place[m] < place[k] /\ place[k] <= n + 1
        BY <3>1
      <4> QED
        BY <1>1, <3>1, <3>2, <4>1
    <3>4. Cut(k - 1, n)
      <4>1. ASSUME NEW j \in 1..K, j <= k - 1 PROVE place[j] <= n
        <5>1. place[j] < place[k]
          BY <3>3, <4>1
        <5> QED
          BY <1>1, <3>1, <3>3, <5>1
      <4>2. ASSUME NEW j \in 1..K, j > k - 1 PROVE place[j] > n
        <5>1. j = k \/ j > k
          BY <4>2
        <5> QED
          BY <1>1, <3>1, <3>3, <5>1
      <4> QED
        BY <4>1, <4>2
    <3>5. g[k - 1] = h[n]
      BY <2>2, <3>3, <3>4
    <3>6. g[k] = g[k - 1] + w[n + 1]
      BY <3>1, <3>3
    <3> QED
      BY <2>1, <2>3, <3>5, <3>6
  <2>4. CASE n + 1 \notin I
    <3>1. Cut(k, n)
      <4>1. ASSUME NEW j \in 1..K, j <= k PROVE place[j] <= n
        <5>1. place[j] <= n + 1 /\ place[j] # n + 1 /\ place[j] \in Nat
          BY <1>1, <2>4, <4>1
        <5> QED
          BY <5>1
      <4>2. ASSUME NEW j \in 1..K, j > k PROVE place[j] > n
        BY <1>1, <4>2
      <4> QED
        BY <4>1, <4>2
    <3>2. h[n + 1] = h[n]
      BY <2>1, <2>4
    <3> QED
      BY <2>2, <3>1, <3>2
  <2> QED
    BY <2>3, <2>4
<1> HIDE DEF Good
<1>4. L \in Good
  BY <1>2, <1>3, Induct
<1>5. Cut(K, L)
  BY <1>1
<1> QED
  BY <1>4, <1>5 DEF Good

-----------------------------------------------------------------------------
(* load_catalog stops at the first entry that will not do: if it returns,  *)
(* there is none.                                                          *)

LEMMA LoadedIsSound ==
  ASSUME NEW file, NEW s, LoadCatalog(file, s) = "loaded",
         DOMAIN file \subseteq Nat
  PROVE  /\ \A i \in DOMAIN file : EntryOutcome(file, i) = "loaded"
         /\ ~UnknownFeed(file, s)
<1> DEFINE unfit == {i \in DOMAIN file : EntryOutcome(file, i) # "loaded"}
           first == CHOOSE i \in unfit : \A j \in unfit : i <= j
<1>1. /\ file # <<>> /\ "default_timeout_s" \notin s.unreadable
      /\ unfit # {} => EntryOutcome(file, first) = "loaded"
      /\ unfit = {} => ~UnknownFeed(file, s)
  BY DEF LoadCatalog
<1>2. unfit = {}
  <2>1. SUFFICES ASSUME unfit # {} PROVE FALSE
    OBVIOUS
  <2>2. \E x \in unfit : \A y \in unfit : x <= y
    BY <2>1, LeastOf
  <2>3. first \in unfit
    BY <2>2
  <2>4. QED
    BY <1>1, <2>1, <2>3
<1>3. QED
  BY <1>1, <1>2

(* A catalog that loads has what SoundCatalog asks for.                    *)
LEMMA LoadedCatalogSound ==
  ASSUME NEW file, NEW s, LoadCatalog(file, s) = "loaded", DOMAIN file \subseteq Nat,
         \A i \in DOMAIN file : i \in Nat \ {0}
  PROVE  /\ \A i, j \in DOMAIN file : file[i].id = file[j].id => i = j
         /\ \A i \in DOMAIN file :
              /\ file[i].runner = "iprep" => FeedOf(file[i]) \in DOMAIN s.feeds
              /\ file[i].uses \subseteq file[i].declares \cup BuiltinTokens
<1>1. /\ \A i \in DOMAIN file : EntryOutcome(file, i) = "loaded"
      /\ ~UnknownFeed(file, s)
  BY LoadedIsSound
<1>2. ASSUME NEW i \in DOMAIN file
      PROVE  FromDict(file[i]) = "loaded" /\ ~Duplicate(file, i)
  BY <1>1 DEF EntryOutcome
<1>3. ASSUME NEW i \in DOMAIN file, NEW j \in DOMAIN file, file[i].id = file[j].id
      PROVE  i = j
  <2>1. i < j \/ j < i \/ i = j
    OBVIOUS
  <2>2. ~(i < j)
    <3>1. i < j => i \in 1..(j - 1)
      OBVIOUS
    <3>2. QED
      BY <3>1, <1>2, <1>3 DEF Duplicate
  <2>3. ~(j < i)
    <3>1. j < i => j \in 1..(i - 1)
      OBVIOUS
    <3>2. QED
      BY <3>1, <1>2, <1>3 DEF Duplicate
  <2>4. QED
    BY <2>1, <2>2, <2>3
<1>4. ASSUME NEW i \in DOMAIN file, file[i].runner = "iprep"
      PROVE  FeedOf(file[i]) \in DOMAIN s.feeds
  BY <1>1, <1>4 DEF UnknownFeed, ToSet
<1>5. ASSUME NEW i \in DOMAIN file
      PROVE  file[i].uses \subseteq file[i].declares \cup BuiltinTokens
  <2>1. ~Unfit(file[i])
    BY <1>2 DEF FromDict
  <2>2. QED
    BY <2>1 DEF Unfit, UndeclaredTokens
<1>6. QED
  BY <1>3, <1>4, <1>5

-----------------------------------------------------------------------------
(* The choice of a headless run.                                           *)

(* What can be chosen from: settings and catalog that were accepted, and a *)
(* profile, if any, that is defined.                                       *)
ReadyToChoose ==
  /\ triggers \in Seq(Entries) /\ SoundCatalog
  /\ IsSettings(settings)
  /\ LoadProfiles(settings, triggers) = "loaded"
  /\ ProfileKnown

(* The choice keeps to the order of the narrative, each id at its first    *)
(* place there.                                                            *)
Along(place) ==
  /\ place \in [1..Len(Chosen) -> Nat]
  /\ \A k \in 1..Len(Chosen) : FirstAt(Chosen[k].id) = place[k]
  /\ \A j, k \in 1..Len(Chosen) : j < k => place[j] < place[k]

ChosenIds == {Chosen[k].id : k \in 1..Len(Chosen)}

LEMMA FirstIsUnique ==
  ASSUME NEW N \in Nat, DOMAIN Narrative = 1..N, NEW i \in 1..N, NEW id,
         Narrative[i] = id, \A j \in 1..(i - 1) : Narrative[j] # id
  PROVE  FirstAt(id) = i
<1> DEFINE Is(k) == k \in 1..N /\ Narrative[k] = id
                    /\ \A j \in 1..(k - 1) : Narrative[j] # id
           f == CHOOSE k : Is(k)
<1>1. FirstAt(id) = f
  BY DEF FirstAt
<1>2. Is(i)
  OBVIOUS
<1>3. Is(f)
  BY <1>2
<1> HIDE DEF f
<1>4. ~(f < i) /\ ~(i < f)
  <2>1. f < i => f \in 1..(i - 1)
    BY <1>3
  <2>2. i < f => i \in 1..(f - 1)
    BY <1>3
  <2> QED
    BY <1>2, <1>3, <2>1, <2>2
<1> QED
  BY <1>1, <1>3, <1>4

LEMMA ChosenFromCatalog ==
  ASSUME triggers \in Seq(Entries), SoundCatalog, args.profile = NoName,
         NEW I, I \subseteq DOMAIN triggers, Chosen = Those(triggers, I)
  PROVE  /\ Chosen \in Seq(ToSet(triggers))
         /\ \E place : Along(place)
         /\ ChosenIds = {triggers[i].id : i \in I}
<1> DEFINE N == Len(triggers)
<1>1. /\ N \in Nat /\ DOMAIN triggers = 1..N /\ I \subseteq 1..N
      /\ triggers \in Seq(ToSet(triggers))
      /\ Narrative = [i \in 1..N |-> triggers[i].id]
  BY DEF ToSet, Narrative
<1>2. /\ Chosen \in Seq(ToSet(triggers))
      /\ \E place : InOrder(triggers, I, N, Chosen, place)
  <2>1. /\ Those(triggers, I) \in Seq(ToSet(triggers))
        /\ \E place : InOrder(triggers, I, N, Those(triggers, I), place)
    BY <1>1, ThoseInOrder
  <2> QED
    BY <2>1
<1>3. PICK place : InOrder(triggers, I, N, Chosen, place)
  BY <1>2
<1> HIDE DEF N
<1>4. ASSUME NEW i \in 1..N PROVE FirstAt(triggers[i].id) = i
  <2>1. Narrative[i] = triggers[i].id /\ DOMAIN Narrative = 1..N
    BY <1>1
  <2>2. ASSUME NEW j \in 1..(i - 1) PROVE Narrative[j] # triggers[i].id
    <3>1. j \in 1..N /\ j # i
      BY <1>1
    <3> QED
      BY <1>1, <3>1 DEF SoundCatalog
  <2> QED
    BY <1>1, <2>1, <2>2, FirstIsUnique
<1>5. \A k \in 1..Len(Chosen) : /\ place[k] \in I /\ place[k] \in 1..N /\ place[k] \in Nat
                                /\ Chosen[k] = triggers[place[k]]
  <2>1. \A i \in I : i \in 1..N /\ i \in Nat
    BY <1>1
  <2> QED
    BY <1>3, <2>1 DEF InOrder
<1>6. \A i \in I : \E k \in 1..Len(Chosen) : place[k] = i
  <2>1. \A i \in I : i <= N
    BY <1>1
  <2> QED
    BY <1>3, <2>1 DEF InOrder
<1>7. Along(place)
  <2>1. place \in [1..Len(Chosen) -> Nat]
    BY <1>3, <1>5 DEF InOrder
  <2>2. \A k \in 1..Len(Chosen) : FirstAt(Chosen[k].id) = place[k]
    BY <1>4, <1>5
  <2> QED
    BY <1>3, <2>1, <2>2 DEF Along, InOrder
<1>8. ChosenIds = {triggers[i].id : i \in I}
  BY <1>5, <1>6 DEF ChosenIds
<1> QED
  BY <1>2, <1>7, <1>8

(* A profile's triggers are those it names, each once.                     *)
LEMMA StoryTold ==
  ASSUME ReadyToChoose, args.profile # NoName
  PROVE  LET ids   == settings.profiles[args.profile].triggers
             story == ProfileTriggers(args.profile, settings, triggers)
         IN  /\ ids \in Seq(IdsOf(triggers))
             /\ story \in Seq(ToSet(triggers))
             /\ \E place : /\ place \in [1..Len(story) -> 1..Len(ids)]
                           /\ \A k \in 1..Len(story) :
                                /\ story[k].id = ids[place[k]]
                                /\ \A j \in 1..(place[k] - 1) : ids[j] # ids[place[k]]
                           /\ \A j, k \in 1..Len(story) : j < k => place[j] < place[k]
                           /\ \A i \in 1..Len(ids) :
                                \E k \in 1..Len(story) : story[k].id = ids[i]
<1> DEFINE ids == settings.profiles[args.profile].triggers
           firsts == {i \in DOMAIN ids : \A j \in 1..(i - 1) : ids[j] # ids[i]}
           kept == KeepFirst(ids)
           story == ProfileTriggers(args.profile, settings, triggers)
<1>1. /\ ids \in Seq(ToSet(ids)) /\ ToSet(ids) \subseteq IdsOf(triggers)
  <2>1. args.profile \in DOMAIN settings.profiles
    BY DEF ReadyToChoose, ProfileKnown
  <2>2. settings.profiles[args.profile] \in Range(settings.profiles)
    BY <2>1 DEF Range
  <2>3. \A profile \in Range(settings.profiles) : profile.triggers \in Seq(ToSet(profile.triggers))
    BY Zenon DEF ReadyToChoose, IsSettings
  <2>4. \A profile \in Range(settings.profiles) : ToSet(profile.triggers) \subseteq IdsOf(triggers)
    BY DEF ReadyToChoose, LoadProfiles
  <2> QED
    BY <2>2, <2>3, <2>4
<1> HIDE DEF ids
<1>2. ids \in Seq(IdsOf(triggers)) /\ Len(ids) \in Nat /\ DOMAIN ids = 1..Len(ids)
  BY <1>1
<1>3. firsts \subseteq 1..Len(ids)
  BY <1>2
<1>4. kept = Those(ids, firsts)
  BY DEF KeepFirst
<1> DEFINE F == firsts
<1> HIDE DEF firsts, F
<1>5. kept \in Seq(IdsOf(triggers)) /\ \E at1 : InOrder(ids, firsts, Len(ids), kept, at1)
  <2>1. /\ Those(ids, firsts) \in Seq(IdsOf(triggers))
        /\ \E at1 : InOrder(ids, firsts, Len(ids), Those(ids, firsts), at1)
    BY <1>2, <1>3, ThoseInOrder
  <2> QED
    BY <1>4, <2>1
<1>6. PICK place : InOrder(ids, firsts, Len(ids), kept, place)
  BY <1>5
<1>7. story = [i \in DOMAIN kept |-> ById(triggers, kept[i])]
  BY DEF ProfileTriggers, ids
<1> HIDE DEF kept, story
<1>8. \A id \in IdsOf(triggers) : ById(triggers, id) \in ToSet(triggers)
                                  /\ ById(triggers, id).id = id
  BY DEF IdsOf, ById
<1>9. /\ Len(kept) \in Nat /\ DOMAIN kept = 1..Len(kept)
      /\ \A i \in 1..Len(kept) : kept[i] \in IdsOf(triggers)
  BY <1>5
<1>10. /\ story \in [1..Len(kept) -> ToSet(triggers)]
       /\ \A i \in 1..Len(kept) : story[i].id = kept[i]
  BY <1>7, <1>8, <1>9
<1>11. story \in Seq(ToSet(triggers)) /\ Len(story) = Len(kept)
  <2>1. story \in Seq(ToSet(triggers))
    BY <1>9, <1>10, SeqDef
  <2> QED
    BY <1>9, <1>10, <2>1
<1>12. \A k \in 1..Len(kept) : /\ place[k] \in firsts /\ place[k] \in 1..Len(ids)
                               /\ kept[k] = ids[place[k]]
  <2>1. \A i \in firsts : i \in 1..Len(ids)
    BY <1>3
  <2> QED
    BY <1>6, <2>1 DEF InOrder
<1>13. ASSUME NEW i \in 1..Len(ids) PROVE \E k \in 1..Len(kept) : kept[k] = ids[i]
  <2> DEFINE same == {j \in 1..Len(ids) : ids[j] = ids[i]}
  <2>1. PICK x \in same : \A y \in same : x <= y
    <3>1. same \subseteq Nat /\ same # {}
      OBVIOUS
    <3> HIDE DEF same
    <3> QED
      BY <3>1, LeastOf
  <2>2. x \in firsts
    <3>1. x \in 1..Len(ids) /\ ids[x] = ids[i]
      OBVIOUS
    <3>2. ASSUME NEW j \in 1..(x - 1) PROVE ids[j] # ids[x]
      <4>1. j \in 1..Len(ids) /\ ~(x <= j)
        BY <1>2, <3>1
      <4>2. j \notin same
        BY <2>1, <4>1
      <4> QED
        BY <3>1, <4>1, <4>2
    <3> QED
      BY <1>2, <3>1, <3>2 DEF firsts
  <2>3. x <= Len(ids) /\ ids[x] = ids[i]
    BY <1>2
  <2>4. PICK k \in 1..Len(kept) : place[k] = x
    BY <1>6, <2>2, <2>3 DEF InOrder
  <2> QED
    BY <1>12, <2>3, <2>4
<1>14. \A k \in 1..Len(kept) : \A j \in 1..(place[k] - 1) : ids[j] # ids[place[k]]
  BY <1>12 DEF firsts
<1>15. /\ place \in [1..Len(story) -> 1..Len(ids)]
       /\ \A j, k \in 1..Len(story) : j < k => place[j] < place[k]
  <2>1. /\ DOMAIN place = 1..Len(kept) /\ place = [k \in 1..Len(kept) |-> place[k]]
        /\ \A j, k \in 1..Len(kept) : j < k => place[j] < place[k]
    BY <1>6 DEF InOrder
  <2> QED
    BY <1>11, <1>12, <2>1
<1>16. \A k \in 1..Len(story) : story[k].id = ids[place[k]]
  BY <1>10, <1>11, <1>12
<1>17. \A i \in 1..Len(ids) : \E k \in 1..Len(story) : story[k].id = ids[i]
  BY <1>10, <1>11, <1>13
<1>18. \A k \in 1..Len(story) : \A j \in 1..(place[k] - 1) : ids[j] # ids[place[k]]
  BY <1>11, <1>14
<1> QED
  BY <1>2, <1>11, <1>15, <1>16, <1>17, <1>18 DEF ids, story

(* By id, a trigger of a sound catalog is the only one.                    *)
LEMMA SameIdSameTrigger ==
  ASSUME SoundCatalog, NEW t \in ToSet(triggers), NEW u \in ToSet(triggers), t.id = u.id
  PROVE  t = u
  BY DEF SoundCatalog, ToSet

LEMMA ChosenFromStory ==
  ASSUME ReadyToChoose, args.profile # NoName
  PROVE  /\ Chosen \in Seq(ToSet(triggers))
         /\ \E place : Along(place)
         /\ ChosenIds = Wanted
<1> DEFINE ids == settings.profiles[args.profile].triggers
           story == ProfileTriggers(args.profile, settings, triggers)
           open == {i \in DOMAIN story : ~GatedDisabled(story[i], settings)}
<1>1. Narrative = ids
  BY DEF Narrative
<1>2. Chosen = Those(story, open)
  BY DEF Chosen, SelectTriggers
<1>3. Wanted = {t.id : t \in {u \in ToSet(triggers) : /\ u.id \in ToSet(ids)
                                                     /\ ~GatedDisabled(u, settings)}}
  BY DEF Wanted
<1>4. /\ ids \in Seq(IdsOf(triggers))
      /\ story \in Seq(ToSet(triggers))
  BY StoryTold
<1>5. PICK told : /\ told \in [1..Len(story) -> 1..Len(ids)]
                  /\ \A k \in 1..Len(story) :
                       /\ story[k].id = ids[told[k]]
                       /\ \A j \in 1..(told[k] - 1) : ids[j] # ids[told[k]]
                  /\ \A j, k \in 1..Len(story) : j < k => told[j] < told[k]
                  /\ \A i \in 1..Len(ids) :
                       \E k \in 1..Len(story) : story[k].id = ids[i]
  BY StoryTold
<1> HIDE DEF ids, story
<1>6. /\ Len(story) \in Nat /\ DOMAIN story = 1..Len(story)
      /\ Len(ids) \in Nat /\ DOMAIN ids = 1..Len(ids)
      /\ open \subseteq 1..Len(story)
  BY <1>4
<1> HIDE DEF open
<1>7. /\ Chosen \in Seq(ToSet(triggers))
      /\ \E at1 : InOrder(story, open, Len(story), Chosen, at1)
  <2>1. /\ Those(story, open) \in Seq(ToSet(triggers))
        /\ \E at1 : InOrder(story, open, Len(story), Those(story, open), at1)
    BY <1>4, <1>6, ThoseInOrder
  <2> QED
    BY <1>2, <2>1
<1>8. PICK kept : InOrder(story, open, Len(story), Chosen, kept)
  BY <1>7
<1> DEFINE C == Len(Chosen)
           place == [k \in 1..C |-> told[kept[k]]]
<1>9. C \in Nat
  BY <1>7
<1>10. \A k \in 1..C : /\ kept[k] \in open /\ kept[k] \in 1..Len(story)
                       /\ Chosen[k] = story[kept[k]]
  <2>1. \A i \in open : i \in 1..Len(story)
    BY <1>6
  <2> QED
    BY <1>8, <2>1 DEF InOrder
<1>11. \A i \in open : \E k \in 1..C : kept[k] = i
  <2>1. \A i \in open : i <= Len(story)
    BY <1>6
  <2> QED
    BY <1>8, <2>1 DEF InOrder
<1>12. \A j, k \in 1..C : j < k => kept[j] < kept[k]
  BY <1>8 DEF InOrder
<1> HIDE DEF C
<1>13. \A k \in 1..C : place[k] = told[kept[k]] /\ place[k] \in 1..Len(ids) /\ place[k] \in Nat
  BY <1>5, <1>6, <1>10
<1>14. place \in [1..C -> Nat]
  BY <1>13
<1>15. \A j, k \in 1..C : j < k => place[j] < place[k]
  BY <1>5, <1>10, <1>12, <1>13
<1>16. \A k \in 1..C : FirstAt(Chosen[k].id) = place[k]
  <2> SUFFICES ASSUME NEW k \in 1..C PROVE FirstAt(Chosen[k].id) = place[k]
    OBVIOUS
  <2> HIDE DEF place
  <2>1. Chosen[k].id = ids[place[k]] /\ place[k] \in 1..Len(ids)
    BY <1>5, <1>10, <1>13
  <2>2. \A j \in 1..(place[k] - 1) : ids[j] # ids[place[k]]
    BY <1>5, <1>10, <1>13
  <2>3. DOMAIN Narrative = 1..Len(ids) /\ \A j \in 1..Len(ids) : Narrative[j] = ids[j]
    BY <1>1, <1>6
  <2>4. \A j \in 1..(place[k] - 1) : Narrative[j] # Chosen[k].id
    BY <1>1, <2>1, <2>2
  <2> QED
    BY <1>6, <2>1, <2>3, <2>4, FirstIsUnique
<1> HIDE DEF place
<1>17. Along(place)
  BY <1>14, <1>15, <1>16 DEF Along, C
<1>18. ChosenIds \subseteq Wanted
  <2> SUFFICES ASSUME NEW k \in 1..C PROVE Chosen[k].id \in Wanted
    BY DEF ChosenIds, C
  <2>1. Chosen[k] \in ToSet(triggers) /\ ~GatedDisabled(Chosen[k], settings)
    BY <1>7, <1>10 DEF open, C
  <2>2. Chosen[k].id \in ToSet(ids)
    <3>1. Chosen[k].id = ids[told[kept[k]]] /\ told[kept[k]] \in DOMAIN ids
      BY <1>5, <1>6, <1>10
    <3> QED
      BY <3>1 DEF ToSet
  <2> QED
    BY <1>3, <2>1, <2>2
<1>19. Wanted \subseteq ChosenIds
  <2> SUFFICES ASSUME NEW u \in ToSet(triggers), u.id \in ToSet(ids),
                      ~GatedDisabled(u, settings)
               PROVE  u.id \in ChosenIds
    BY <1>3
  <2>1. PICK i \in 1..Len(ids) : ids[i] = u.id
    BY <1>6 DEF ToSet
  <2>2. PICK m \in 1..Len(story) : story[m].id = u.id
    BY <1>5, <2>1
  <2>3. story[m] = u
    <3>1. story[m] \in ToSet(triggers)
      BY <1>4
    <3> QED
      BY <2>2, <3>1, SameIdSameTrigger DEF ReadyToChoose
  <2>4. m \in open
    BY <1>6, <2>3 DEF open
  <2>5. PICK k \in 1..C : kept[k] = m
    BY <1>11, <2>4
  <2>6. Chosen[k] = u
    BY <1>10, <2>3, <2>5
  <2> QED
    BY <2>6 DEF ChosenIds, C
<1> QED
  BY <1>7, <1>17, <1>18, <1>19

(* What a headless run chooses: what was wanted, all of it, once, in the   *)
(* order of the narrative.                                                 *)
LEMMA ChosenIsWanted ==
  ASSUME ReadyToChoose
  PROVE  /\ Chosen \in Seq(ToSet(triggers))
         /\ \E place : Along(place)
         /\ ChosenIds = Wanted
<1>1. CASE args.profile # NoName
  BY <1>1, ChosenFromStory
<1>2. CASE args.profile = NoName /\ args.run = {"all"}
  <2> DEFINE I == {i \in DOMAIN triggers : ~Unavailable(triggers[i], settings)}
  <2>1. Chosen = Those(triggers, I) /\ I \subseteq DOMAIN triggers
    BY <1>2 DEF Chosen, SelectTriggers
  <2>2. Wanted = {t.id : t \in {u \in ToSet(triggers) : ~Unavailable(u, settings)}}
    BY <1>2 DEF Wanted
  <2>3. Wanted = {triggers[i].id : i \in I}
    BY <2>2 DEF ToSet
  <2> HIDE DEF I
  <2> QED
    BY <1>2, <2>1, <2>3, ChosenFromCatalog DEF ReadyToChoose
<1>3. CASE args.profile = NoName /\ args.run # {"all"}
  <2> DEFINE I == {i \in DOMAIN triggers :
                     {triggers[i].id, triggers[i].cls} \cap args.run # {}}
  <2>1. Chosen = Those(triggers, I) /\ I \subseteq DOMAIN triggers
    BY <1>3 DEF Chosen, SelectTriggers
  <2>2. Wanted = {t.id : t \in {u \in ToSet(triggers) : {u.id, u.cls} \cap args.run # {}}}
    BY <1>3 DEF Wanted
  <2>3. Wanted = {triggers[i].id : i \in I}
    BY <2>2 DEF ToSet
  <2> HIDE DEF I
  <2> QED
    BY <1>3, <2>1, <2>3, ChosenFromCatalog DEF ReadyToChoose
<1> QED
  BY <1>1, <1>2, <1>3

(* What may be in the directory.                                           *)
Disks == [catalog : CatalogFiles, settings : SettingsFiles, signed : SignedFiles]

(* Nothing is loaded until load_catalog returns, and what it returned is   *)
(* kept with the settings it was checked against.                          *)
SoundInv ==
  /\ disk \in Disks
  /\ at \in {"start", "settings", "catalog"} => triggers = <<>>
  /\ SoundCatalog

LEMMA SoundInvInit == Init => SoundInv
BY DEF Init, SoundInv, Disks, SoundCatalog

LEMMA SoundInvStep == SoundInv /\ [Next]_vars => SoundInv'
<1> SUFFICES ASSUME SoundInv, [Next]_vars PROVE SoundInv'
  OBVIOUS
<1> USE DEF SoundInv, Ends, Looks, GoesTo, loaded
<1>1. CASE Start
  BY <1>1 DEF Start, SoundCatalog
<1>2. CASE ReadSettings
  BY <1>2 DEF ReadSettings, SoundCatalog
<1>3. CASE ReadCatalog
  <2>1. CASE UNCHANGED <<disk, settings, triggers>> /\ at' = "exited"
    BY <2>1 DEF SoundCatalog
  <2>2. CASE /\ LoadCatalog(disk.catalog, settings) = "loaded"
             /\ triggers' = disk.catalog /\ settings' = settings
             /\ disk' = disk /\ at' = "profiles"
    <3>1. /\ DOMAIN disk.catalog \subseteq Nat
          /\ \A i \in DOMAIN disk.catalog : i \in Nat \ {0}
      BY StartupAssumption DEF Disks
    <3>2. SoundCatalog'
      BY <2>2, <3>1, LoadedCatalogSound DEF SoundCatalog
    <3>3. QED
      BY <2>2, <3>2
  <2>3. QED
    BY <1>3, <2>1, <2>2 DEF ReadCatalog
<1>4. CASE ReadProfiles \/ CheckSignature
  BY <1>4 DEF ReadProfiles, CheckSignature, SoundCatalog
<1>5. CASE ListProfiles \/ UnknownProfile \/ ListTriggers \/ Preflight \/ LastSession \/ NoPreview
  BY <1>5 DEF ListProfiles, UnknownProfile, ListTriggers, Preflight, LastSession, NoPreview,
              PastProfiles, Preflighting, PastPreflight, SoundCatalog
<1>6. CASE StartApp
  BY <1>6 DEF StartApp, SoundCatalog
<1>7. CASE Select \/ FireNext \/ Finish
  BY <1>7 DEF Select, FireNext, Finish, SoundCatalog
<1>8. CASE NoDisplay \/ WindowFires \/ WindowExports \/ CloseWindow
  BY <1>8 DEF NoDisplay, WindowFires, WindowExports, CloseWindow, SoundCatalog
<1>9. CASE Edit
  <2>1. disk' \in Disks
    <3>1. CASE \E file \in CatalogFiles : disk' = [disk EXCEPT !.catalog = file]
      BY <3>1 DEF Disks
    <3>2. CASE \E s \in SettingsFiles : disk' = [disk EXCEPT !.settings = s]
      BY <3>2 DEF Disks
    <3>3. QED
      BY <1>9, <3>1, <3>2 DEF Edit
  <2>2. QED
    BY <1>9, <2>1 DEF Edit, SoundCatalog
<1>10. CASE UNCHANGED vars
  BY <1>10 DEF vars, SoundCatalog
<1>11. QED
  BY <1>1, <1>2, <1>3, <1>4, <1>5, <1>6, <1>7, <1>8, <1>9, <1>10 DEF Next, Main

(* The triggers a process works with have distinct ids, configured feeds   *)
(* and declared tokens (load_catalog); by_id and the runners rely on it.   *)
THEOREM CatalogStaysSound == Spec => []SoundCatalog
<1>1. SoundInv => SoundCatalog
  BY DEF SoundInv
<1>2. QED
  BY <1>1, SoundInvInit, SoundInvStep, PTL DEF Spec

-----------------------------------------------------------------------------
(* The whole way of a process.                                             *)

TypesInv ==
  /\ args \in CommandLines /\ curl \in BOOLEAN
  /\ edits \in 0..MaxEdits /\ edited \in BOOLEAN
  /\ at \in Places
  /\ exit \in {Running, 0, 1, 2, 3} /\ (at = "exited" <=> exit # Running)
  /\ settings \in SettingsFiles \cup {NotLoaded}
  /\ triggers \in CatalogFiles \cup {<<>>}

Sessions == {"app", "select", "firing", "window"}

(* What main has settled at each place.                                    *)
SettledInv ==
  /\ at \notin {"start", "settings", "exited"} \/ triggers # <<>> => settings \in SettingsFiles
  /\ at \in {"start", "settings", "catalog"} => triggers = <<>>
  /\ at \in {"signature", "dispatch"} \cup Sessions \/ fired # <<>> =>
       LoadProfiles(settings, triggers) = "loaded"
  /\ at \in Sessions \/ fired # <<>> => ProfileKnown
  /\ at \in {"select", "firing"} => args.run # {}
  /\ at = "window" => args.run = {}
  /\ at \in {"select", "firing", "window"} => stamp # Nowhere
  /\ args.run # {} /\ at # "exited" => evidence = Nowhere
  /\ at \notin {"firing", "window", "exited"} => fired = <<>>
  /\ at = "firing" => Chosen # <<>>
  /\ at \notin {"firing", "exited"} => todo = <<>>

(* What is planned and fired comes from the catalog in use.                *)
ListsInv ==
  /\ todo \in Seq(Entries) /\ \A i \in 1..Len(todo) : todo[i] \in ToSet(triggers)
  /\ fired \in Seq(Results) /\ \A i \in 1..Len(fired) : fired[i].id \in IdsOf(triggers)

(* A headless run is somewhere on its list: what it fired is the beginning *)
(* of what was chosen, what it has still to fire is the rest.              *)
PlanInv ==
  args.run # {} /\ (at = "firing" \/ fired # <<>>) =>
    /\ Len(Chosen) = Len(fired) + Len(todo)
    /\ \A i \in 1..Len(fired) : /\ fired[i].id = Chosen[i].id
                                /\ fired[i].signals = OnWireCount(Chosen[i], settings)
    /\ \A i \in 1..Len(todo) : todo[i] = Chosen[Len(fired) + i]

(* The three ways a headless run ends: before or amid its list, at the end *)
(* of it with the code its results call for, or with an export that could  *)
(* not be written.                                                         *)
EndInv ==
  at = "exited" /\ args.flags = {} /\ args.run # {} =>
    \/ exit # 0 /\ (fired = <<>> \/ todo # <<>>)
    \/ /\ todo = <<>> /\ fired # <<>> /\ exit = ExitCode
       /\ args.export => evidence # Nowhere
    \/ /\ todo = <<>> /\ exit = HEADLESS_USAGE
       /\ args.export /\ evidence = Nowhere

PathInv == TypesInv /\ SettledInv /\ ListsInv /\ PlanInv /\ EndInv

WayInv == SoundInv /\ PathInv

(* What the assumption says of the files.                                  *)
LEMMA FilesAreRead ==
  /\ \A file \in CatalogFiles \cup {<<>>} : file \in Seq(Entries)
  /\ \A e \in Entries : IsEntry(e)
  /\ \A s \in SettingsFiles : IsSettings(s) /\ s # NotLoaded
<1>1. ASSUME NEW file \in CatalogFiles PROVE file \in Seq(Entries)
  <2>1. file \in Seq(ToSet(file)) /\ ToSet(file) \subseteq Entries
    BY <1>1, StartupAssumption DEF Entries
  <2> HIDE DEF Entries
  <2> QED
    BY <2>1
<1>2. <<>> \in Seq(Entries)
  OBVIOUS
<1>3. \A e \in Entries : IsEntry(e)
  BY Zenon, StartupAssumption DEF Entries
<1>4. ASSUME NEW s \in SettingsFiles PROVE IsSettings(s) /\ s # NotLoaded
  <2>1. IsSettings(s)
    BY Zenon, StartupAssumption
  <2>2. "live" \in DOMAIN s /\ "live" \notin DOMAIN NotLoaded
    BY <2>1 DEF IsSettings, NotLoaded
  <2> QED
    BY <2>1, <2>2
<1> QED
  BY <1>1, <1>2, <1>3, <1>4

LEMMA Ready ==
  ASSUME WayInv, at \in {"select", "firing"} \/ fired # <<>>
  PROVE  ReadyToChoose
<1>1. triggers \in Seq(Entries)
  BY Zenon, FilesAreRead DEF WayInv, PathInv, TypesInv
<1>2. settings \in SettingsFiles /\ LoadProfiles(settings, triggers) = "loaded" /\ ProfileKnown
  <2>1. LoadProfiles(settings, triggers) = "loaded" /\ ProfileKnown
    BY DEF WayInv, PathInv, SettledInv, Sessions
  <2>2. CASE at \in {"select", "firing"}
    BY <2>1, <2>2 DEF WayInv, PathInv, SettledInv
  <2>3. CASE fired # <<>>
    <3>1. PICK i \in 1..Len(fired) : fired[i].id \in IdsOf(triggers)
      <4>1. fired \in Seq(Results) /\ \A i \in 1..Len(fired) : fired[i].id \in IdsOf(triggers)
        BY DEF WayInv, PathInv, ListsInv
      <4>2. 1 \in 1..Len(fired)
        BY <2>3, <4>1
      <4> QED
        BY <4>1, <4>2
    <3>2. triggers # <<>>
      BY <3>1 DEF IdsOf, ToSet
    <3> QED
      BY <2>1, <3>2 DEF WayInv, PathInv, SettledInv
  <2> QED
    BY <2>2, <2>3
<1>3. IsSettings(settings)
  BY Zenon, <1>2, FilesAreRead
<1> QED
  BY <1>1, <1>2, <1>3 DEF ReadyToChoose, WayInv, SoundInv

(* As long as nothing is loaded, planned or fired, the plan stands.        *)
LEMMA PlanStands ==
  ASSUME PlanInv, UNCHANGED <<args, settings, triggers, todo, fired>>,
         at' = "firing" => at = "firing"
  PROVE  PlanInv'
<1>1. Chosen' = Chosen
  BY DEF Chosen
<1> HIDE DEF Chosen
<1> QED
  BY <1>1 DEF PlanInv

LEMMA ListsStand ==
  ASSUME ListsInv, UNCHANGED <<triggers, todo, fired>>
  PROVE  ListsInv'
  BY DEF ListsInv

(* main goes on from what it has settled, or ends.                         *)
LEMMA SettledStands ==
  ASSUME WayInv, UNCHANGED <<args, settings, triggers, todo, fired, evidence>>,
         at' # "exited" => stamp' = stamp,
         \/ at' = at
         \/ at' = "exited"
         \/ at = "start" /\ at' = "settings"
         \/ at = "profiles" /\ at' = "signature" /\ LoadProfiles(settings, triggers) = "loaded"
         \/ at = "signature" /\ at' = "dispatch"
         \/ at = "dispatch" /\ at' = "app" /\ ProfileKnown
  PROVE  SettledInv' /\ ListsInv' /\ PlanInv'
<1> USE DEF WayInv, PathInv
<1>1. PlanInv' /\ ListsInv'
  <2>1. at' = "firing" => at = "firing"
    OBVIOUS
  <2> QED
    BY <2>1, PlanStands, ListsStand
<1>2. Chosen' = Chosen /\ (ProfileKnown' <=> ProfileKnown)
  BY DEF Chosen, ProfileKnown
<1> USE <1>1, <1>2 DEF SettledInv, Sessions
<1> HIDE DEF Chosen, ProfileKnown
<1>3. CASE at' = at
  BY <1>3
<1>4. CASE at' = "exited"
  BY <1>4
<1>5. CASE at = "start" /\ at' = "settings"
  BY <1>5
<1>6. CASE at = "profiles" /\ at' = "signature" /\ LoadProfiles(settings, triggers) = "loaded"
  BY <1>6
<1>7. CASE at = "signature" /\ at' = "dispatch"
  BY <1>7
<1>8. CASE at = "dispatch" /\ at' = "app" /\ ProfileKnown
  BY <1>8
<1> QED
  BY <1>1, <1>3, <1>4, <1>5, <1>6, <1>7, <1>8

LEMMA EndsThere ==
  ASSUME WayInv, NEW code \in {0, 1, 2, 3}, Ends(code), at # "exited",
         args.flags = {} /\ args.run # {} => code # 0 /\ (fired = <<>> \/ todo # <<>>)
  PROVE  PathInv'
<1>1. /\ at' = "exited" /\ exit' = code
      /\ UNCHANGED <<args, curl, edits, edited, settings, triggers, stamp, todo, fired, evidence>>
  BY DEF Ends, loaded
<1>2. SettledInv' /\ ListsInv' /\ PlanInv'
  BY <1>1, SettledStands
<1>3. TypesInv'
  BY <1>1 DEF WayInv, PathInv, TypesInv, Running, Places
<1>4. EndInv'
  BY <1>1 DEF EndInv
<1> QED
  BY <1>2, <1>3, <1>4 DEF PathInv

LEMMA LooksOn ==
  ASSUME WayInv, NEW place, Looks(place),
         \/ at = "start" /\ place = "settings"
         \/ at = "profiles" /\ place = "signature" /\ LoadProfiles(settings, triggers) = "loaded"
         \/ at = "signature" /\ place = "dispatch"
         \/ at = "dispatch" /\ place = "app" /\ ProfileKnown
  PROVE  PathInv'
<1>1. /\ at' = place /\ exit' = exit
      /\ UNCHANGED <<args, curl, edits, edited, settings, triggers, stamp, todo, fired, evidence>>
  BY DEF Looks, GoesTo, loaded
<1>2. SettledInv' /\ ListsInv' /\ PlanInv'
  BY <1>1, SettledStands
<1>3. TypesInv'
  BY <1>1 DEF WayInv, PathInv, TypesInv, Running, Places
<1>4. EndInv'
  BY <1>1 DEF EndInv
<1> QED
  BY <1>2, <1>3, <1>4 DEF PathInv

LEMMA ReadingKeeps ==
  ASSUME WayInv, Start \/ ReadSettings \/ ReadCatalog \/ ReadProfiles \/ CheckSignature
  PROVE  PathInv'
<1> USE DEF WayInv, PathInv
<1>1. CASE Start
  <2>1. CASE "update" \in args.flags
    <3>1. PICK code \in {0, 1, 3} : Ends(code)
      BY <1>1, <2>1 DEF Start
    <3> QED
      BY <1>1, <2>1, <3>1, EndsThere DEF Start
  <2>2. CASE "update" \notin args.flags
    BY <1>1, <2>2, LooksOn DEF Start
  <2> QED
    BY <2>1, <2>2
<1>2. CASE ReadSettings
  <2>1. at = "settings" /\ fired = <<>> /\ todo = <<>> /\ triggers = <<>>
    BY <1>2 DEF ReadSettings, SettledInv
  <2>2. CASE Ends(2)
    BY <2>1, <2>2, EndsThere
  <2>3. CASE /\ settings' = disk.settings /\ GoesTo("catalog")
             /\ UNCHANGED <<args, disk, edits, edited, curl, triggers, stamp, todo, fired, evidence>>
    <3>1. settings' \in SettingsFiles
      BY <2>3 DEF SoundInv, Disks
    <3>2. at' = "catalog" /\ exit' = exit
      BY <2>3 DEF GoesTo
    <3>3. TypesInv'
      BY <2>1, <2>3, <3>1, <3>2 DEF TypesInv, Running, Places
    <3>4. SettledInv'
      BY <2>1, <2>3, <3>1, <3>2 DEF SettledInv, Sessions
    <3>5. ListsInv' /\ PlanInv' /\ EndInv'
      BY <2>1, <2>3, <3>2, ListsStand DEF PlanInv, EndInv
    <3> QED
      BY <3>3, <3>4, <3>5
  <2> QED
    BY <1>2, <2>2, <2>3 DEF ReadSettings
<1>3. CASE ReadCatalog
  <2>1. at = "catalog" /\ fired = <<>> /\ todo = <<>> /\ triggers = <<>>
    BY <1>3 DEF ReadCatalog, SettledInv
  <2>2. ASSUME NEW code \in {1, 2}, Ends(code) PROVE PathInv'
    BY <2>1, <2>2, EndsThere
  <2>3. CASE /\ triggers' = disk.catalog /\ GoesTo("profiles")
             /\ UNCHANGED <<args, disk, edits, edited, curl, settings, stamp, todo, fired, evidence>>
    <3>1. triggers' \in CatalogFiles
      BY <2>3 DEF SoundInv, Disks
    <3>2. at' = "profiles" /\ exit' = exit
      BY <2>3 DEF GoesTo
    <3>3. TypesInv'
      BY <2>1, <2>3, <3>1, <3>2 DEF TypesInv, Running, Places
    <3>4. SettledInv'
      BY <2>1, <2>3, <3>1, <3>2 DEF SettledInv, Sessions
    <3>5. ListsInv'
      BY <2>1, <2>3 DEF ListsInv
    <3>6. PlanInv' /\ EndInv'
      BY <2>1, <2>3, <3>2 DEF PlanInv, EndInv
    <3> QED
      BY <3>3, <3>4, <3>5, <3>6
  <2> QED
    BY <1>3, <2>2, <2>3 DEF ReadCatalog, Traceback
<1>4. CASE ReadProfiles
  <2>1. at = "profiles" /\ fired = <<>>
    BY <1>4 DEF ReadProfiles, SettledInv
  <2>2. CASE Ends(2)
    BY <2>1, <2>2, EndsThere
  <2>3. CASE LoadProfiles(settings, triggers) # "refused" /\ Looks("signature")
    <3>1. LoadProfiles(settings, triggers) = "loaded"
      BY <2>3 DEF LoadProfiles
    <3> QED
      BY <2>1, <2>3, <3>1, LooksOn
  <2> QED
    BY <1>4, <2>2, <2>3 DEF ReadProfiles
<1>5. CASE CheckSignature
  <2>1. at = "signature" /\ fired = <<>>
    BY <1>5 DEF CheckSignature, SettledInv
  <2>2. CASE Ends(2)
    BY <2>1, <2>2, EndsThere
  <2>3. CASE Looks("dispatch")
    BY <2>1, <2>3, LooksOn
  <2> QED
    BY <1>5, <2>2, <2>3 DEF CheckSignature
<1> QED
  BY <1>1, <1>2, <1>3, <1>4, <1>5

LEMMA PreviewsKeep ==
  ASSUME WayInv,
         \/ ListProfiles \/ UnknownProfile \/ ListTriggers \/ Preflight \/ LastSession
         \/ NoPreview
  PROVE  PathInv'
<1> USE DEF WayInv, PathInv, PastProfiles, PastPreflight, Preflighting
<1>1. at = "dispatch" /\ fired = <<>>
  BY DEF ListProfiles, UnknownProfile, ListTriggers, Preflight, LastSession, NoPreview,
         SettledInv
<1>2. CASE ListProfiles
  <2>1. args.flags # {}
    BY <1>2 DEF ListProfiles
  <2>2. Ends(Traceback) \/ Ends(0)
    BY Zenon, <1>2 DEF ListProfiles
  <2> QED
    BY <1>1, <2>1, <2>2, EndsThere DEF Traceback
<1>3. CASE UnknownProfile
  BY <1>1, <1>3, EndsThere DEF UnknownProfile
<1>4. CASE ListTriggers
  <2>1. args.flags # {}
    BY <1>4 DEF ListTriggers, Listing
  <2>2. Ends(Traceback) \/ Ends(0)
    BY Zenon, <1>4 DEF ListTriggers
  <2> QED
    BY <1>1, <2>1, <2>2, EndsThere DEF Traceback
<1>5. CASE Preflight
  <2>1. args.flags # {}
    BY <1>5 DEF Preflight
  <2>2. Ends(0) \/ Ends(1)
    BY Zenon, <1>5 DEF Preflight
  <2> QED
    BY <1>1, <2>1, <2>2, EndsThere
<1>6. CASE LastSession
  <2>1. args.flags # {} /\ Ends(0)
    BY <1>6 DEF LastSession
  <2> QED
    BY <1>1, <2>1, EndsThere
<1>7. CASE NoPreview
  BY <1>1, <1>7, LooksOn DEF NoPreview
<1> QED
  BY <1>2, <1>3, <1>4, <1>5, <1>6, <1>7

LEMMA StartAppKeeps ==
  ASSUME WayInv, StartApp
  PROVE  PathInv'
<1> USE DEF WayInv, PathInv
<1>1. /\ at = "app" /\ fired = <<>> /\ todo = <<>>
      /\ settings \in SettingsFiles /\ LoadProfiles(settings, triggers) = "loaded" /\ ProfileKnown
  BY DEF StartApp, SettledInv, Sessions
<1>2. /\ stamp' = Provenance
      /\ UNCHANGED <<args, curl, edits, edited, settings, triggers, todo, fired, evidence>>
  BY DEF StartApp, loaded
<1>3. CASE at' = "exited" /\ exit' = 1
  <2>1. SettledInv' /\ ListsInv' /\ PlanInv'
    BY <1>2, <1>3, SettledStands
  <2>2. TypesInv'
    BY <1>1, <1>2, <1>3 DEF TypesInv, Running, Places
  <2>3. EndInv'
    BY <1>1, <1>2, <1>3 DEF EndInv
  <2> QED
    BY <2>1, <2>2, <2>3
<1>4. CASE GoesTo(IF args.run = {} THEN "window" ELSE "select")
  <2>1. at' = IF args.run = {} THEN "window" ELSE "select"
    BY <1>4 DEF GoesTo
  <2>2. exit' = exit
    BY <1>4 DEF GoesTo
  <2>3. Provenance # Nowhere
    <3>1. disk.settings # NotLoaded
      BY FilesAreRead DEF SoundInv, Disks
    <3> QED
      BY <3>1 DEF Provenance, Nowhere
  <2>4. ProfileKnown' <=> ProfileKnown
    BY <1>2 DEF ProfileKnown
  <2>5. SettledInv'
    <3> HIDE DEF ProfileKnown, Provenance, Nowhere
    <3>1. stamp' # Nowhere
      BY <1>2, <2>3
    <3> QED
      BY <1>1, <1>2, <2>1, <2>4, <3>1 DEF SettledInv, Sessions
  <2>6. PlanInv' /\ ListsInv'
    <3>1. at' # "firing"
      BY <2>1
    <3> QED
      BY <1>2, <3>1, PlanStands, ListsStand
  <2>7. TypesInv'
    BY <1>1, <1>2, <2>1, <2>2 DEF TypesInv, Running, Places
  <2>8. EndInv'
    BY <2>1 DEF EndInv
  <2> QED
    BY <2>5, <2>6, <2>7, <2>8
<1> QED
  BY <1>3, <1>4 DEF StartApp, Traceback

(* The list a headless run sets out with.                                  *)
LEMMA SelectKeeps ==
  ASSUME WayInv, Select
  PROVE  PathInv'
<1> USE DEF WayInv, PathInv
<1>1. /\ at = "select" /\ fired = <<>> /\ todo = <<>> /\ args.run # {}
      /\ settings \in SettingsFiles
  BY DEF Select, SettledInv
<1>2. ASSUME NEW code \in {1, 2}, Ends(code) PROVE PathInv'
  <2>1. code \in {0, 1, 2, 3} /\ code # 0
    OBVIOUS
  <2> QED
    BY <1>1, <1>2, <2>1, EndsThere
<1>3. CASE /\ Chosen # <<>>
           /\ todo' = Chosen
           /\ GoesTo("firing")
           /\ UNCHANGED <<args, disk, edits, edited, curl, loaded, stamp, fired, evidence>>
  <2>1. /\ at' = "firing" /\ exit' = exit /\ todo' = Chosen
        /\ UNCHANGED <<args, curl, edits, edited, settings, triggers, stamp, fired, evidence>>
    BY <1>3 DEF GoesTo, loaded
  <2>2. Chosen' = Chosen /\ (ProfileKnown' <=> ProfileKnown)
    BY <2>1 DEF Chosen, ProfileKnown
  <2>3. Chosen \in Seq(ToSet(triggers)) /\ triggers \in Seq(Entries)
    <3>1. ReadyToChoose
      BY <1>1, Ready
    <3> QED
      BY <3>1, ChosenIsWanted DEF ReadyToChoose
  <2> HIDE DEF Chosen, ProfileKnown
  <2>4. TypesInv'
    BY <1>1, <2>1 DEF TypesInv, Running, Places
  <2>5. SettledInv'
    BY <1>1, <1>3, <2>1, <2>2 DEF SettledInv, Sessions
  <2>6. ListsInv'
    <3>1. ToSet(triggers) \subseteq Entries
      BY <2>3 DEF ToSet
    <3>2. Chosen \in Seq(Entries) /\ \A i \in 1..Len(Chosen) : Chosen[i] \in ToSet(triggers)
      BY <2>3, <3>1
    <3>3. fired \in Seq(Results) /\ \A i \in 1..Len(fired) : fired[i].id \in IdsOf(triggers)
      BY DEF ListsInv
    <3> QED
      BY <2>1, <3>2, <3>3 DEF ListsInv
  <2>7. PlanInv'
    <3>1. Len(fired) = 0 /\ Len(Chosen) \in Nat /\ fired' = <<>>
      BY <1>1, <2>1, <2>3
    <3> QED
      BY <2>1, <2>2, <3>1 DEF PlanInv
  <2>8. EndInv'
    BY <2>1 DEF EndInv
  <2> QED
    BY <2>4, <2>5, <2>6, <2>7, <2>8
<1> QED
  BY Zenon, <1>2, <1>3 DEF Select, HEADLESS_USAGE, Traceback

(* Whatever is fired has a verdict.                                        *)
LEMMA VerdictAlways ==
  ASSUME NEW t, IsEntry(t), NEW state \in Observed(t)
  PROVE  state \in Verdicts
<1>1. t.runner = "iprep" \/ t.runner = "ew" \/ t.runner \in {"curl", "dns", "tcp"}
  BY DEF IsEntry
<1> DEFINE no == Unavailable(t, settings) \/ (t.runner = "curl" /\ ~curl)
<1>2. CASE no
  <2>1. Observed(t) = {"invalid"}
    BY Zenon, <1>2 DEF Observed
  <2> QED
    BY <2>1 DEF Verdicts
<1>3. CASE ~no
  <2>1. CASE t.runner = "iprep"
    <3>1. Observed(t) = {"ratio", "error", "invalid"}
      BY <1>3, <2>1 DEF Observed
    <3> QED
      BY <3>1 DEF Verdicts
  <2>2. CASE t.runner = "ew"
    <3>1. Observed(t) \in {{"error"}, {"allowed", "blocked", "error"}, {"invalid"}}
      BY <1>3, <2>2 DEF Observed
    <3> QED
      BY <3>1 DEF Verdicts
  <2>3. CASE t.runner \in {"curl", "dns", "tcp"}
    <3>1. Observed(t) \in {{"error"}, {"allowed", "blocked", "error"}}
      BY <1>3, <2>3 DEF Observed
    <3> QED
      BY <3>1 DEF Verdicts
  <2> QED
    BY <1>1, <2>1, <2>2, <2>3
<1> QED
  BY <1>2, <1>3

(* What App.run returns of a trigger of the catalog.                       *)
LEMMA ResultIsOne ==
  ASSUME triggers \in Seq(Entries), IsSettings(settings), NEW t \in ToSet(triggers),
         NEW state \in Verdicts
  PROVE  Result(t, state) \in Results /\ Result(t, state).id \in IdsOf(triggers)
<1>1. t \in Entries
  BY DEF ToSet
<1>2. OnWireCount(t, settings) \in Nat
  <2>1. IsEntry(t)
    BY Zenon, <1>1, FilesAreRead
  <2> QED
    BY <2>1, OnWireIsCount
<1> QED
  BY <1>1, <1>2 DEF Results, Result, IdsOf

(* One trigger further down the list.                                      *)
LEMMA FireKeeps ==
  ASSUME WayInv, FireNext
  PROVE  PathInv'
<1> USE DEF WayInv, PathInv
<1>1. /\ at = "firing" /\ todo # <<>> /\ args.run # {}
      /\ todo \in Seq(Entries) /\ fired \in Seq(Results)
      /\ \A i \in 1..Len(todo) : todo[i] \in ToSet(triggers)
      /\ \A i \in 1..Len(fired) : fired[i].id \in IdsOf(triggers)
  BY DEF FireNext, SettledInv, ListsInv
<1>2. CASE Ends(Traceback)
  <2>1. Traceback \in {0, 1, 2, 3} /\ Traceback # 0
    BY DEF Traceback
  <2> QED
    BY <1>1, <1>2, <2>1, EndsThere
<1>3. CASE /\ \E state \in Observed(Head(todo)) :
                fired' = Append(fired, Result(Head(todo), state))
           /\ todo' = Tail(todo)
           /\ UNCHANGED <<args, disk, edits, edited, curl, at, loaded, stamp, evidence, exit>>
  <2>1. PICK state \in Observed(Head(todo)) : fired' = Append(fired, Result(Head(todo), state))
    BY <1>3
  <2> DEFINE t == Head(todo)
             r == Result(t, state)
  <2>2. /\ todo' = Tail(todo)
        /\ UNCHANGED <<args, curl, edits, edited, settings, triggers, stamp, at, evidence, exit>>
    BY <1>3 DEF loaded
  <2>3. t \in ToSet(triggers) /\ t = todo[1] /\ t \in Entries /\ 1 \in 1..Len(todo)
    <3>1. t = todo[1] /\ 1 \in 1..Len(todo) /\ t \in Entries
      BY <1>1
    <3> QED
      BY <1>1, <3>1
  <2>4. triggers \in Seq(Entries) /\ IsSettings(settings)
    <3>1. ReadyToChoose
      BY <1>1, Ready
    <3> QED
      BY <3>1 DEF ReadyToChoose
  <2>5. r \in Results /\ r.id \in IdsOf(triggers)
    <3>1. IsEntry(t)
      BY Zenon, <2>3, FilesAreRead
    <3>2. state \in Verdicts
      BY <2>1, <3>1, VerdictAlways
    <3> QED
      BY <2>3, <2>4, <3>2, ResultIsOne
  <2>6. r.id = t.id /\ r.signals = OnWireCount(t, settings)
    BY DEF Result
  <2>7. fired' = Append(fired, r)
    BY <2>1
  <2> HIDE DEF t, r
  <2>8. /\ fired' \in Seq(Results) /\ Len(fired') = Len(fired) + 1 /\ fired' # <<>>
        /\ fired'[Len(fired) + 1] = r
        /\ \A i \in 1..Len(fired) : fired'[i] = fired[i]
        /\ Len(fired) \in Nat
    BY <1>1, <2>5, <2>7
  <2>9. /\ todo' \in Seq(Entries) /\ Len(todo') = Len(todo) - 1 /\ Len(todo) \in Nat \ {0}
        /\ \A i \in 1..Len(todo') : todo'[i] = todo[i + 1] /\ i + 1 \in 1..Len(todo)
    BY <1>1, <2>2
  <2>10. \A i \in 1..(Len(fired) + 1) : i \in 1..Len(fired) \/ i = Len(fired) + 1
    BY <2>8
  <2>11. Chosen' = Chosen /\ (ProfileKnown' <=> ProfileKnown)
    BY <2>2 DEF Chosen, ProfileKnown
  <2> HIDE DEF Chosen, ProfileKnown
  <2>12. TypesInv'
    BY <2>2 DEF TypesInv
  <2>13. SettledInv'
    BY <1>1, <2>2, <2>8, <2>11 DEF SettledInv, Sessions
  <2>14. ListsInv'
    <3>1. \A i \in 1..Len(fired') : fired'[i].id \in IdsOf(triggers)
      BY <1>1, <2>5, <2>8, <2>10
    <3>2. \A i \in 1..Len(todo') : todo'[i] \in ToSet(triggers)
      BY <1>1, <2>9
    <3> QED
      BY <2>2, <2>8, <2>9, <3>1, <3>2 DEF ListsInv
  <2>15. PlanInv'
    <3>1. /\ Len(Chosen) = Len(fired) + Len(todo)
          /\ \A i \in 1..Len(fired) : /\ fired[i].id = Chosen[i].id
                                      /\ fired[i].signals = OnWireCount(Chosen[i], settings)
          /\ \A i \in 1..Len(todo) : todo[i] = Chosen[Len(fired) + i]
      BY <1>1 DEF PlanInv
    <3>2. Len(Chosen) = Len(fired') + Len(todo')
      BY <2>8, <2>9, <3>1
    <3>3. t = Chosen[Len(fired) + 1]
      BY <2>3, <3>1
    <3>4. ASSUME NEW i \in 1..Len(fired')
          PROVE  fired'[i].id = Chosen[i].id /\ fired'[i].signals = OnWireCount(Chosen[i], settings)
      <4>1. CASE i \in 1..Len(fired)
        BY <2>8, <3>1, <4>1
      <4>2. CASE i = Len(fired) + 1
        BY <2>6, <2>8, <3>3, <4>2
      <4> QED
        BY <2>8, <2>10, <3>4, <4>1, <4>2
    <3>5. ASSUME NEW i \in 1..Len(todo') PROVE todo'[i] = Chosen[Len(fired') + i]
      <4>1. todo'[i] = Chosen[Len(fired) + (i + 1)]
        BY <2>9, <3>1
      <4>2. Len(fired) + (i + 1) = Len(fired') + i
        BY <2>8, <2>9
      <4> QED
        BY <4>1, <4>2
    <3> QED
      BY <2>2, <2>11, <3>2, <3>4, <3>5 DEF PlanInv
  <2>16. EndInv'
    BY <1>1, <2>2 DEF EndInv
  <2> QED
    BY <2>12, <2>13, <2>14, <2>15, <2>16
<1> QED
  BY Zenon, <1>2, <1>3 DEF FireNext

LEMMA FinishKeeps ==
  ASSUME WayInv, Finish
  PROVE  PathInv'
<1> USE DEF WayInv, PathInv
<1>1. /\ at = "firing" /\ todo = <<>> /\ args.run # {} /\ stamp # Nowhere /\ Chosen # <<>>
      /\ evidence = Nowhere
  BY DEF Finish, SettledInv
<1>2. /\ at' = "exited"
      /\ UNCHANGED <<args, curl, edits, edited, settings, triggers, stamp, todo, fired>>
  BY DEF Finish, loaded
<1>3. fired # <<>>
  <2>1. Chosen \in Seq(ToSet(triggers))
    <3>1. ReadyToChoose
      BY <1>1, Ready
    <3> QED
      BY <3>1, ChosenIsWanted
  <2>2. Len(Chosen) = Len(fired) + Len(todo)
    BY <1>1 DEF PlanInv
  <2> HIDE DEF Chosen
  <2> QED
    BY <1>1, <2>1, <2>2
<1>4. ExitCode \in {0, 1} /\ ExitCode' = ExitCode
  BY <1>2 DEF ExitCode, Problems, HEADLESS_OK, HEADLESS_PROBLEM
<1>5. \/ args.export /\ evidence' = stamp /\ exit' = ExitCode
      \/ args.export /\ evidence' = evidence /\ exit' = HEADLESS_USAGE
      \/ ~args.export /\ evidence' = evidence /\ exit' = ExitCode
  <2>1. CASE args.export
    BY <2>1 DEF Finish, Exports, Named
  <2>2. CASE ~args.export
    BY Zenon, <2>2 DEF Finish
  <2> QED
    BY <2>1, <2>2
<1>6. Chosen' = Chosen /\ (ProfileKnown' <=> ProfileKnown)
  BY <1>2 DEF Chosen, ProfileKnown
<1> HIDE DEF Chosen, ProfileKnown, ExitCode
<1>7. TypesInv'
  BY <1>1, <1>2, <1>4, <1>5 DEF TypesInv, Running, Places, HEADLESS_USAGE
<1>8. SettledInv'
  BY <1>1, <1>2, <1>6 DEF SettledInv, Sessions
<1>9. ListsInv'
  BY <1>2, ListsStand
<1>10. PlanInv'
  BY <1>1, <1>2, <1>6 DEF PlanInv
<1>11. EndInv'
  BY <1>1, <1>2, <1>3, <1>4, <1>5 DEF EndInv
<1> QED
  BY <1>7, <1>8, <1>9, <1>10, <1>11

LEMMA WindowKeeps ==
  ASSUME WayInv, NoDisplay \/ WindowFires \/ WindowExports \/ CloseWindow
  PROVE  PathInv'
<1> USE DEF WayInv, PathInv
<1>1. /\ at = "window" /\ args.run = {} /\ settings \in SettingsFiles
      /\ LoadProfiles(settings, triggers) = "loaded" /\ ProfileKnown
  BY DEF NoDisplay, WindowFires, WindowExports, CloseWindow, SettledInv, Sessions
<1>2. CASE NoDisplay
  BY <1>1, <1>2, EndsThere DEF NoDisplay
<1>3. CASE CloseWindow
  BY <1>1, <1>3, EndsThere DEF CloseWindow
<1>4. CASE WindowFires
  <2>1. /\ UNCHANGED <<args, curl, edits, edited, settings, triggers, stamp, todo, at, exit, evidence>>
    BY <1>4 DEF WindowFires, loaded
  <2>2. triggers \in Seq(Entries) /\ IsSettings(settings)
    BY <1>1, FilesAreRead DEF TypesInv
  <2>3. PICK t \in ToSet(triggers) :
          \E state \in IF IntervalRaises(t) THEN {"error"} ELSE Observed(t) :
            fired' = Append(fired, Result(t, state))
    BY Zenon, <1>4 DEF WindowFires
  <2>4. PICK state \in IF IntervalRaises(t) THEN {"error"} ELSE Observed(t) :
          fired' = Append(fired, Result(t, state))
    BY Zenon, <2>3
  <2>5. state \in Verdicts
    <3>1. t \in Entries
      BY <2>2 DEF ToSet
    <3>2. IsEntry(t)
      BY Zenon, <3>1, FilesAreRead
    <3>3. CASE IntervalRaises(t)
      BY <2>4, <3>3 DEF Verdicts
    <3>4. CASE ~IntervalRaises(t)
      BY <2>4, <3>2, <3>4, VerdictAlways
    <3> QED
      BY <3>3, <3>4
  <2> DEFINE r == Result(t, state)
  <2>6. r \in Results /\ r.id \in IdsOf(triggers)
    BY <2>2, <2>5, ResultIsOne
  <2>7. fired' = Append(fired, r)
    BY <2>4
  <2> HIDE DEF r
  <2>8. ListsInv'
    <3>1. fired \in Seq(Results) /\ \A i \in 1..Len(fired) : fired[i].id \in IdsOf(triggers)
      BY DEF ListsInv
    <3>2. /\ fired' \in Seq(Results)
          /\ \A i \in 1..Len(fired') : (i \in 1..Len(fired) /\ fired'[i] = fired[i]) \/ fired'[i] = r
      BY <2>6, <2>7, <3>1
    <3>3. \A i \in 1..Len(fired') : fired'[i].id \in IdsOf(triggers)
      BY <2>6, <3>1, <3>2
    <3> QED
      BY <2>1, <3>2, <3>3 DEF ListsInv
  <2>9. ProfileKnown' <=> ProfileKnown
    BY <2>1 DEF ProfileKnown
  <2>10. TypesInv'
    BY <2>1 DEF TypesInv
  <2> HIDE DEF ProfileKnown
  <2>11. SettledInv'
    BY <1>1, <2>1, <2>9 DEF SettledInv, Sessions
  <2>12. PlanInv' /\ EndInv'
    BY <1>1, <2>1 DEF PlanInv, EndInv
  <2> QED
    BY <2>8, <2>10, <2>11, <2>12
<1>5. CASE WindowExports
  <2>1. UNCHANGED <<args, curl, edits, edited, settings, triggers, stamp, todo, fired, at, exit>>
    BY <1>5 DEF WindowExports, loaded
  <2>2. ProfileKnown' <=> ProfileKnown
    BY <2>1 DEF ProfileKnown
  <2>3. TypesInv'
    BY <2>1 DEF TypesInv
  <2> HIDE DEF ProfileKnown
  <2>4. SettledInv'
    BY <1>1, <2>1, <2>2 DEF SettledInv, Sessions
  <2>5. ListsInv'
    BY <2>1, ListsStand
  <2>6. PlanInv' /\ EndInv'
    BY <1>1, <2>1 DEF PlanInv, EndInv
  <2> QED
    BY <2>3, <2>4, <2>5, <2>6
<1> QED
  BY <1>2, <1>3, <1>4, <1>5

(* A change of the directory is none of the process.                       *)
LEMMA EditKeeps ==
  ASSUME WayInv, (at # "exited" /\ Edit) \/ UNCHANGED vars
  PROVE  PathInv'
<1> USE DEF WayInv, PathInv
<1>1. UNCHANGED <<args, curl, settings, triggers, stamp, todo, fired, at, exit, evidence>>
  BY DEF Edit, vars, loaded
<1>2. edits' \in 0..MaxEdits /\ edited' \in BOOLEAN
  <2>1. CASE Edit
    <3>1. edits < MaxEdits /\ edits' = edits + 1 /\ edited' = (edited \/ Loading)
      BY <2>1 DEF Edit
    <3>2. edits' \in 0..MaxEdits
      BY <3>1, StartupAssumption DEF TypesInv
    <3>3. edited' \in BOOLEAN
      BY Zenon, <3>1 DEF TypesInv
    <3> QED
      BY <3>2, <3>3
  <2>2. CASE UNCHANGED vars
    BY <2>2 DEF TypesInv, vars
  <2> QED
    BY <2>1, <2>2
<1>3. SettledInv' /\ ListsInv' /\ PlanInv'
  BY <1>1, SettledStands
<1>4. TypesInv'
  BY <1>1, <1>2 DEF TypesInv
<1>5. EndInv'
  BY <1>1 DEF EndInv, ExitCode, Problems
<1> QED
  BY <1>3, <1>4, <1>5

LEMMA WayInvInit == Init => WayInv
<1> SUFFICES ASSUME Init PROVE WayInv
  OBVIOUS
<1>1. SoundInv
  BY SoundInvInit
<1>2. TypesInv
  <2>1. 0 \in 0..MaxEdits
    BY StartupAssumption
  <2>2. exit \in {Running, 0, 1, 2, 3} /\ (at = "exited" <=> exit # Running) /\ at \in Places
    BY DEF Init, Places
  <2> QED
    BY <2>1, <2>2 DEF Init, TypesInv
<1>3. SettledInv
  BY DEF Init, SettledInv, Sessions
<1>4. ListsInv
  BY DEF Init, ListsInv
<1>5. PlanInv /\ EndInv
  BY DEF Init, PlanInv, EndInv
<1> QED
  BY <1>1, <1>2, <1>3, <1>4, <1>5 DEF WayInv, PathInv

LEMMA WayInvStep == WayInv /\ [Next]_vars => WayInv'
<1> SUFFICES ASSUME WayInv, [Next]_vars PROVE WayInv'
  OBVIOUS
<1>1. SoundInv'
  BY SoundInvStep DEF WayInv
<1>2. CASE Start \/ ReadSettings \/ ReadCatalog \/ ReadProfiles \/ CheckSignature
  BY Zenon, <1>1, <1>2, ReadingKeeps DEF WayInv
<1>3. CASE \/ ListProfiles \/ UnknownProfile \/ ListTriggers \/ Preflight \/ LastSession
           \/ NoPreview
  BY Zenon, <1>1, <1>3, PreviewsKeep DEF WayInv
<1>4. CASE StartApp
  BY Zenon, <1>1, <1>4, StartAppKeeps DEF WayInv
<1>5. CASE Select
  BY Zenon, <1>1, <1>5, SelectKeeps DEF WayInv
<1>6. CASE FireNext
  BY Zenon, <1>1, <1>6, FireKeeps DEF WayInv
<1>7. CASE Finish
  BY Zenon, <1>1, <1>7, FinishKeeps DEF WayInv
<1>8. CASE NoDisplay \/ WindowFires \/ WindowExports \/ CloseWindow
  BY Zenon, <1>1, <1>8, WindowKeeps DEF WayInv
<1>9. CASE (at # "exited" /\ Edit) \/ UNCHANGED vars
  BY Zenon, <1>1, <1>9, EditKeeps DEF WayInv
<1> QED
  BY Zenon, <1>2, <1>3, <1>4, <1>5, <1>6, <1>7, <1>8, <1>9 DEF Next, Main

LEMMA WayInvAlways == Spec => []WayInv
<1> QED
  BY WayInvInit, WayInvStep, PTL DEF Spec

-----------------------------------------------------------------------------
(* The results.                                                            *)

(* The triggers in use are those of a catalog that was accepted, nothing   *)
(* else is planned or fired, and each has a verdict (App.by_id,            *)
(* run_headless).                                                          *)
THEOREM StartupWellTyped == Spec => []TypeOK
<1>1. WayInv => TypeOK
  <2> SUFFICES ASSUME WayInv PROVE TypeOK
    OBVIOUS
  <2> USE DEF WayInv, PathInv
  <2>1. ToSet(todo) \subseteq ToSet(triggers)
    BY DEF ListsInv, ToSet
  <2>2. \A i \in 1..Len(fired) : /\ fired[i].id \in IdsOf(triggers)
                                 /\ fired[i].state \in Verdicts
                                 /\ fired[i].signals \in Nat
    <3>1. fired \in Seq(Results) /\ \A i \in 1..Len(fired) : fired[i].id \in IdsOf(triggers)
      BY DEF ListsInv
    <3>2. \A i \in 1..Len(fired) : fired[i] \in Results
      BY <3>1
    <3> QED
      BY <3>1, <3>2 DEF Results
  <2>3. DOMAIN fired = 1..Len(fired)
    BY DEF ListsInv
  <2>4. \A result \in ToSet(fired) : /\ result.id \in IdsOf(triggers)
                                     /\ result.state \in Verdicts
                                     /\ result.signals \in Nat
    BY <2>2, <2>3 DEF ToSet
  <2>5. TypesInv /\ SoundCatalog /\ disk \in Disks
    BY DEF SoundInv
  <2> QED
    BY Zenon, <2>1, <2>4, <2>5 DEF TypeOK, TypesInv, Disks
<1> QED
  BY <1>1, WayInvAlways, PTL

(* What a headless run has fired is the beginning of what it chose.        *)
LEMMA FiredAreChosen ==
  ASSUME WayInv, args.run # {}, fired # <<>>
  PROVE  /\ Chosen \in Seq(ToSet(triggers)) /\ ChosenIds = Wanted
         /\ fired \in Seq(Results) /\ todo \in Seq(Entries)
         /\ Len(Chosen) = Len(fired) + Len(todo)
         /\ \A i \in 1..Len(fired) : /\ i \in 1..Len(Chosen)
                                     /\ fired[i].id = Chosen[i].id
                                     /\ fired[i].signals = OnWireCount(Chosen[i], settings)
         /\ \E place : Along(place)
<1>1. ReadyToChoose
  BY Ready
<1>2. Chosen \in Seq(ToSet(triggers)) /\ ChosenIds = Wanted /\ \E place : Along(place)
  BY <1>1, ChosenIsWanted
<1>3. fired \in Seq(Results) /\ todo \in Seq(Entries)
  BY DEF WayInv, PathInv, ListsInv
<1>4. /\ Len(Chosen) = Len(fired) + Len(todo)
      /\ \A i \in 1..Len(fired) : /\ fired[i].id = Chosen[i].id
                                  /\ fired[i].signals = OnWireCount(Chosen[i], settings)
  BY DEF WayInv, PathInv, PlanInv
<1> HIDE DEF Chosen
<1>5. \A i \in 1..Len(fired) : i \in 1..Len(Chosen)
  BY <1>2, <1>3, <1>4
<1> QED
  BY <1>2, <1>3, <1>4, <1>5

(* A headless run fires only what was asked for, each trigger once, in the *)
(* order of the profile's story or of the catalog (select_triggers).       *)
THEOREM HeadlessFollowsScript == Spec => []FollowsScript
<1>1. ASSUME WayInv, PreviewsFireNothing PROVE FollowsScript
  <2> SUFFICES ASSUME args.run # {}, fired # <<>>
               PROVE  /\ FiredIds \subseteq Wanted
                      /\ \A i, j \in DOMAIN fired :
                           i < j => FirstAt(fired[i].id) < FirstAt(fired[j].id)
    BY <1>1 DEF FollowsScript
  <2>1. /\ ChosenIds = Wanted /\ DOMAIN fired = 1..Len(fired)
        /\ \A i \in 1..Len(fired) : i \in 1..Len(Chosen) /\ fired[i].id = Chosen[i].id
    BY <1>1, FiredAreChosen
  <2>2. PICK place : Along(place)
    BY <1>1, FiredAreChosen
  <2>3. FiredIds \subseteq Wanted
    BY <2>1 DEF FiredIds, ChosenIds
  <2>4. ASSUME NEW i \in DOMAIN fired, NEW j \in DOMAIN fired, i < j
        PROVE  FirstAt(fired[i].id) < FirstAt(fired[j].id)
    <3>1. FirstAt(fired[i].id) = place[i] /\ FirstAt(fired[j].id) = place[j]
      BY <2>1, <2>2 DEF Along
    <3>2. place[i] < place[j]
      BY <2>1, <2>2, <2>4 DEF Along
    <3> QED
      BY <3>1, <3>2
  <2> QED
    BY <2>3, <2>4
<1>2. QED
  BY <1>1, WayInvAlways, PreviewsNeverFire, PTL

(* What is left on the list when a run breaks off was wanted and has not   *)
(* been fired.                                                             *)
LEMMA LeftUnfired ==
  ASSUME WayInv, args.run # {}, fired # <<>>, todo # <<>>
  PROVE  FiredIds # Wanted
<1>1. /\ Chosen \in Seq(ToSet(triggers)) /\ ChosenIds = Wanted
      /\ fired \in Seq(Results) /\ todo \in Seq(Entries)
      /\ Len(Chosen) = Len(fired) + Len(todo)
      /\ \A i \in 1..Len(fired) : i \in 1..Len(Chosen) /\ fired[i].id = Chosen[i].id
  BY FiredAreChosen
<1>2. PICK place : Along(place)
  BY FiredAreChosen
<1> DEFINE next == Len(fired) + 1
<1>3. /\ next \in 1..Len(Chosen) /\ DOMAIN fired = 1..Len(fired)
      /\ \A i \in 1..Len(fired) : i < next
  <2> HIDE DEF Chosen
  <2> QED
    BY <1>1
<1> HIDE DEF next
<1>4. Chosen[next].id \in Wanted
  BY <1>1, <1>3 DEF ChosenIds
<1>5. Chosen[next].id \notin FiredIds
  <2> SUFFICES ASSUME NEW i \in 1..Len(fired), fired[i].id = Chosen[next].id PROVE FALSE
    BY <1>3 DEF FiredIds
  <2>1. /\ FirstAt(Chosen[i].id) = place[i] /\ FirstAt(Chosen[next].id) = place[next]
        /\ Chosen[i].id = Chosen[next].id
    BY <1>1, <1>2, <1>3 DEF Along
  <2>2. place[i] < place[next] /\ place[i] \in Nat /\ place[next] \in Nat
    BY <1>1, <1>2, <1>3 DEF Along
  <2>3. place[i] = place[next]
    BY <2>1
  <2> QED
    BY <2>2, <2>3
<1> QED
  BY <1>4, <1>5

(* The exit code of a headless run is 0 exactly when all that was asked    *)
(* for was fired and answered by policy and the evidence asked for was     *)
(* written (run_headless).                                                 *)
THEOREM ExitMeansPolicy == Spec => []ExitIsPolicyNeutral
<1>1. ASSUME WayInv PROVE ExitIsPolicyNeutral
  <2> DEFINE answered == \A i \in DOMAIN fired : fired[i].state \in {"allowed", "blocked", "ratio"}
             all == FiredIds = Wanted
             written == args.export => evidence # Nowhere
  <2> SUFFICES ASSUME at = "exited", args.flags = {}, args.run # {}
               PROVE  exit = 0 <=> fired # <<>> /\ all /\ answered /\ written
    BY DEF ExitIsPolicyNeutral
  <2>1. \/ exit # 0 /\ (fired = <<>> \/ todo # <<>>)
        \/ todo = <<>> /\ fired # <<>> /\ exit = ExitCode /\ written
        \/ todo = <<>> /\ exit = HEADLESS_USAGE /\ args.export /\ evidence = Nowhere
    BY <1>1 DEF WayInv, PathInv, EndInv
  <2>2. CASE exit # 0 /\ (fired = <<>> \/ todo # <<>>)
    <3>1. fired = <<>> \/ ~all
      BY <1>1, <2>2, LeftUnfired
    <3> QED
      BY <2>2, <3>1
  <2>3. CASE todo = <<>> /\ fired # <<>> /\ exit = ExitCode /\ written
    <3>1. /\ Chosen \in Seq(ToSet(triggers)) /\ ChosenIds = Wanted
          /\ fired \in Seq(Results)
          /\ Len(Chosen) = Len(fired) + Len(todo)
          /\ \A i \in 1..Len(fired) : fired[i].id = Chosen[i].id
      BY <1>1, <2>3, FiredAreChosen
    <3>2. Len(Chosen) = Len(fired) /\ DOMAIN fired = 1..Len(fired)
      <4> HIDE DEF Chosen
      <4> QED
        BY <2>3, <3>1
    <3>3. all
      BY <3>1, <3>2 DEF FiredIds, ChosenIds
    <3>4. \A i \in DOMAIN fired : fired[i].state \in Verdicts
      <4>1. \A i \in 1..Len(fired) : fired[i] \in Results
        BY <3>1
      <4> QED
        BY <3>2, <4>1 DEF Results
    <3>5. Problems = {} <=> answered
      BY <3>4 DEF Problems, Verdicts
    <3>6. exit = 0 <=> answered
      BY <2>3, <3>5 DEF ExitCode, HEADLESS_OK, HEADLESS_PROBLEM
    <3> QED
      BY <2>3, <3>3, <3>6
  <2>4. CASE todo = <<>> /\ exit = HEADLESS_USAGE /\ args.export /\ evidence = Nowhere
    BY <2>4 DEF HEADLESS_USAGE
  <2> QED
    BY <2>1, <2>2, <2>3, <2>4
<1> QED
  BY <1>1, WayInvAlways, PTL

(* A full choice leaves out nothing that would put a request on the wire:  *)
(* what it adds to the triggers of the manifest has no target here.        *)
FullChoice(I) ==
  /\ I \subseteq DOMAIN Scope /\ Chosen = Those(Scope, I)
  /\ \A i \in DOMAIN Scope : i \notin I => Unavailable(Scope[i], settings)
  /\ \A i \in I : Unavailable(Scope[i], settings) => OnWireCount(Scope[i], settings) = 0

LEMMA ChoiceIsFull ==
  ASSUME ReadyToChoose, args.run = {"all"} \/ args.profile # NoName
  PROVE  Scope \in Seq(ToSet(triggers)) /\ \E I : FullChoice(I)
<1>1. CASE args.profile # NoName
  <2> DEFINE I == {i \in DOMAIN Scope : ~GatedDisabled(Scope[i], settings)}
  <2>1. Scope = ProfileTriggers(args.profile, settings, triggers)
    BY <1>1 DEF Scope
  <2>2. Scope \in Seq(ToSet(triggers))
    BY <1>1, <2>1, StoryTold
  <2>3. Chosen = Those(Scope, I)
    BY <1>1, <2>1 DEF Chosen, SelectTriggers
  <2> HIDE DEF Scope
  <2>4. \A i \in DOMAIN Scope : i \notin I => Unavailable(Scope[i], settings)
    BY DEF Unavailable
  <2>5. ASSUME NEW i \in I, Unavailable(Scope[i], settings)
        PROVE  OnWireCount(Scope[i], settings) = 0
    <3>1. Unconfigured(Scope[i], settings)
      BY <2>5 DEF Unavailable
    <3> QED
      BY <3>1 DEF Unconfigured, OnWireCount
  <2>6. FullChoice(I)
    BY <2>3, <2>4, <2>5 DEF FullChoice
  <2> QED
    BY <2>2, <2>6
<1>2. CASE args.profile = NoName
  <2> DEFINE I == {i \in DOMAIN triggers : ~Unavailable(triggers[i], settings)}
  <2>1. Scope = triggers
    BY <1>2 DEF Scope
  <2>2. Scope \in Seq(ToSet(triggers))
    BY <2>1 DEF ReadyToChoose, ToSet
  <2>3. Chosen = Those(triggers, I)
    BY <1>2 DEF Chosen, SelectTriggers
  <2>4. FullChoice(I)
    BY <2>1, <2>3 DEF FullChoice
  <2> QED
    BY <2>2, <2>4
<1> QED
  BY <1>1, <1>2

(* The signals of a full run, summed along the manifest.                   *)
LEMMA PromiseKept ==
  ASSUME WayInv, args.run # {}, fired # <<>>, todo = <<>>,
         args.run = {"all"} \/ args.profile # NoName
  PROVE  SignalsReported = SignalManifest(Scope, settings).signals
<1>1. /\ Chosen \in Seq(ToSet(triggers)) /\ fired \in Seq(Results)
      /\ Len(Chosen) = Len(fired) + Len(todo)
      /\ \A i \in 1..Len(fired) : fired[i].signals = OnWireCount(Chosen[i], settings)
  BY FiredAreChosen
<1>2. ReadyToChoose
  BY Ready
<1>3. Scope \in Seq(ToSet(triggers))
  BY <1>2, ChoiceIsFull
<1>4. PICK I : FullChoice(I)
  BY <1>2, ChoiceIsFull
<1> DEFINE L == Len(Scope)
           K == Len(Chosen)
           w == [i \in 1..L |-> OnWireCount(Scope[i], settings)]
<1>5. L \in Nat /\ DOMAIN Scope = 1..L /\ I \subseteq 1..L /\ K \in Nat /\ K = Len(fired)
  <2> HIDE DEF Scope, Chosen
  <2> QED
    BY <1>1, <1>3, <1>4 DEF FullChoice
<1> HIDE DEF Scope
<1>6. PICK place : InOrder(Scope, I, L, Chosen, place)
  <2>1. \E place : InOrder(Scope, I, L, Those(Scope, I), place)
    BY <1>3, <1>5, ThoseInOrder
  <2> QED
    BY <1>4, <2>1 DEF FullChoice
<1> HIDE DEF Chosen, L, K
<1>7. /\ place \in [1..K -> I]
      /\ \A i \in I : \E k \in 1..K : place[k] = i
      /\ \A j, k \in 1..K : j < k => place[j] < place[k]
      /\ \A k \in 1..K : Chosen[k] = Scope[place[k]]
  <2>1. \A i \in I : i <= L
    BY <1>5
  <2>2. {i \in I : i <= L} = I
    BY <2>1
  <2> QED
    BY <1>6, <2>1, <2>2 DEF InOrder, K
<1>8. \A i \in 1..L : OnWireCount(Scope[i], settings) \in Nat
  <2>1. \A e \in Entries : IsEntry(e) => OnWireCount(e, settings) \in Nat
    BY <1>2, OnWireIsCount DEF ReadyToChoose
  <2>2. \A i \in 1..L : Scope[i] \in Entries
    <3>1. \A i \in 1..L : Scope[i] \in ToSet(triggers)
      BY <1>3 DEF L
    <3>2. ToSet(triggers) \subseteq Entries
      BY <1>2 DEF ReadyToChoose, ToSet
    <3> QED
      BY <3>1, <3>2
  <2> QED
    BY <2>1, <2>2, FilesAreRead
<1>9. PICK m : ByTrigger(Scope, settings, m)
  <2> DEFINE T == {Scope[i] : i \in 1..L}
  <2>1. Scope \in Seq(T)
    <3>1. \A i \in 1..L : Scope[i] \in T
      OBVIOUS
    <3> HIDE DEF T
    <3> QED
      BY <1>3, <3>1 DEF L
  <2>2. \A t \in T : OnWireCount(t, settings) \in Nat
    BY <1>8
  <2> HIDE DEF T
  <2> QED
    BY <2>1, <2>2, ManifestTallied
<1> DEFINE h == [n \in 0..L |-> m[n].signals]
<1>10. /\ m \in [0..L -> Tallies] /\ m[0] = NothingYet
       /\ \A n \in 1..L : m[n] = Tallied(m[n - 1], Scope[n], settings)
       /\ SignalManifest(Scope, settings) = m[L]
  BY <1>9 DEF ByTrigger, L
<1>11. h[0] = 0 /\ SignalManifest(Scope, settings).signals = h[L]
  BY <1>5, <1>10 DEF NothingYet
<1>12. ASSUME NEW n \in 1..L
       PROVE  h[n] = IF n \in I THEN h[n - 1] + w[n] ELSE h[n - 1]
  <2>1. n - 1 \in 0..L /\ n \in 0..L
    BY <1>5
  <2>2. /\ m[n - 1] \in Tallies /\ m[n] = Tallied(m[n - 1], Scope[n], settings)
        /\ OnWireCount(Scope[n], settings) \in Nat
    BY <1>8, <1>10, <2>1
  <2>3. m[n].signals = IF Unavailable(Scope[n], settings) THEN m[n - 1].signals
                       ELSE m[n - 1].signals + OnWireCount(Scope[n], settings)
    BY <2>2, OneTallied
  <2>4. m[n - 1].signals \in Nat
    BY <2>2 DEF Tallies
  <2>5. h[n] = m[n].signals /\ h[n - 1] = m[n - 1].signals /\ w[n] = OnWireCount(Scope[n], settings)
    BY <2>1
  <2>6. n \notin I => Unavailable(Scope[n], settings)
    BY <1>4, <1>5 DEF FullChoice
  <2>7. n \in I /\ Unavailable(Scope[n], settings) => OnWireCount(Scope[n], settings) = 0
    BY <1>4 DEF FullChoice
  <2> HIDE DEF h, w
  <2> QED
    BY <2>3, <2>4, <2>5, <2>6, <2>7
<1>13. PICK g : /\ g \in [0..Len(fired) -> Nat]
                /\ g[0] = 0
                /\ \A n \in 1..Len(fired) : g[n] = g[n - 1] + fired[n].signals
                /\ SignalsReported = g[Len(fired)]
  BY <1>1, ReportTallied
<1>14. ASSUME NEW k \in 1..K PROVE g[k] = g[k - 1] + w[place[k]]
  <2>1. k \in 1..Len(fired) /\ place[k] \in I /\ place[k] \in 1..L
    BY <1>5, <1>7
  <2>2. Chosen[k] = Scope[place[k]]
    BY <1>7
  <2>3. fired[k].signals = OnWireCount(Scope[place[k]], settings)
    BY <1>1, <2>1, <2>2
  <2>4. w[place[k]] = OnWireCount(Scope[place[k]], settings)
    BY <2>1
  <2> QED
    BY <1>13, <2>1, <2>3, <2>4
<1> HIDE DEF h, w
<1>15. g[K] = h[L]
  <2>1. /\ g[0] = 0 /\ h[0] = 0
        /\ \A k \in 1..K : g[k] = g[k - 1] + w[place[k]]
        /\ \A n \in 1..L : h[n] = IF n \in I THEN h[n - 1] + w[n] ELSE h[n - 1]
    BY <1>11, <1>12, <1>13, <1>14
  <2>2. L \in Nat /\ K \in Nat /\ I \subseteq 1..L
    BY <1>5
  <2>3. /\ place \in [1..K -> I]
        /\ \A i \in I : \E k \in 1..K : place[k] = i
        /\ \A j, k \in 1..K : j < k => place[j] < place[k]
    BY <1>7
  <2>4. SameSummands(L, K, I, place, w, g, h)
    BY <2>1, <2>2, <2>3 DEF SameSummands
  <2> QED
    BY <2>2, <2>4, SumAlong
<1> QED
  BY <1>5, <1>11, <1>13, <1>15

(* A full headless run that ends well has sent what the preview of the     *)
(* same scope promised, and the preview with the gate open promises what   *)
(* this one says the gate would unlock (signal_manifest, run_headless).    *)
THEOREM ManifestIsKept == Spec => []ManifestIsPromise
<1>1. ASSUME WayInv, QuietInv PROVE ManifestIsPromise
  <2>1. ASSUME at = "exited", exit = 0, fired # <<>>,
               args.run = {"all"} \/ (args.run # {} /\ args.profile # NoName)
        PROVE  SignalsReported = SignalManifest(Scope, settings).signals
    <3>1. args.run # {} /\ args.flags = {}
      BY <1>1, <2>1 DEF QuietInv
    <3>2. todo = <<>>
      BY <1>1, <2>1, <3>1 DEF WayInv, PathInv, EndInv, HEADLESS_USAGE
    <3> QED
      BY <1>1, <2>1, <3>1, <3>2, PromiseKept
  <2>2. ASSUME triggers # <<>>
        PROVE  SignalManifest(triggers, settings).ifGate
                 = SignalManifest(triggers, Opened(settings)).signals
    <3>1. triggers \in Seq(Entries) /\ IsSettings(settings) /\ \A e \in Entries : IsEntry(e)
      BY Zenon, <1>1, <2>2, FilesAreRead DEF WayInv, PathInv, TypesInv, SettledInv
    <3> QED
      BY <3>1, GateIsCounted
  <2> QED
    BY Zenon, <2>1, <2>2 DEF ManifestIsPromise
<1>2. Spec => []QuietInv
  BY QuietInvInit, QuietInvStep, PTL DEF Spec
<1> QED
  BY <1>1, <1>2, WayInvAlways, PTL
=============================================================================
