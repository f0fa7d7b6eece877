----------------------------- MODULE MotionProofs -----------------------------
(***************************************************************************)
(* What holds of everything that moves in the window, for any number of    *)
(* lanes and buttons, any distances and any number of gestures.            *)
(***************************************************************************)
EXTENDS Motion, FiniteSetTheorems, FunctionTheorems, SequenceTheorems, TLAPS

-----------------------------------------------------------------------------
(* What the clock and the widgets are made of.                             *)

Jobs == [of : Widgets, id : Nat \ {0}]

Modes == {"fly", "held", "pass", "hit", "lost"}

Dots == [mode : Modes, x : Nat, age : Nat]

Verdicts == States \cup {None}

LaneRecords == [total : Nat, emitted : Nat, t : Nat, dots : Seq(Dots), verdict : Verdicts,
                passes : Nat, flash : Nat, rest : Verdicts]

PulseRecords == [beat : Nat, sight : Nat]

PillRecords == [enabled : BOOLEAN, glow : Nat, target : Nat, press : Nat]

Tallies == [waited : BOOLEAN, through : Int]

Moments == [jobs : Seq(Jobs), timer : Nat, job : [Widgets -> Nat],
            lane : [Lanes -> LaneRecords], pulse : PulseRecords,
            pill : [Pills -> PillRecords], tally : [Lanes -> Tallies], alive : BOOLEAN]

TypeInv ==
  /\ Now \in Moments
  /\ ambient \in BOOLEAN
  /\ focus \in [here : BOOLEAN, check : BOOLEAN]
  /\ awaited \in [Lanes -> Nat]
  /\ seen \in [Lanes -> SUBSET States]
  /\ gestures \in Nat

(* Every job in the list is the one its widget holds, no widget has two,   *)
(* and two widgets never hold the same.                                    *)
Owned(js, own) ==
  /\ \A i \in DOMAIN js : js[i].id = own[js[i].of]
  /\ \A i, k \in DOMAIN js : js[i].of = js[k].of => i = k
  /\ \A w \in Widgets : own[w] # 0 => \E i \in DOMAIN js : js[i].of = w
  /\ \A v, w \in Widgets : own[v] = own[w] /\ own[v] # 0 => v = w

(* A lane's signals show nothing but what is known.                        *)
ShowsKnown(dots, known) ==
  \A i \in DOMAIN dots :
    /\ dots[i].mode = "pass" => known \cap {"allowed", "ratio"} # {}
    /\ dots[i].mode = "hit"  => known \cap {"blocked", "ratio"} # {}
    /\ dots[i].mode = "lost" => known \ {"allowed", "blocked", "ratio"} # {}

(* How many of the signals that waited at the gate get through.            *)
Admitted(ln) ==
  CASE ln.verdict = "allowed" -> ln.total
    [] ln.verdict = "ratio"   -> Smaller(ln.passes, ln.total)
    [] OTHER                  -> 0

(* A lane whose signals all waited: they do still, or they have all learnt *)
(* the verdict.                                                            *)
StillWait(ln, got) ==
  /\ ln.emitted = ln.total /\ ln.total > 0 /\ ln.rest = None
  /\ Len(ln.dots) = ln.total
  /\ \A i \in DOMAIN ln.dots : ln.dots[i].mode = "held"
  /\ got.through = 0

AllLearnt(ln, got) ==
  /\ ln.emitted = ln.total /\ ln.rest \in {None, ln.verdict}
  /\ \A i \in DOMAIN ln.dots : ln.dots[i].mode \in {"pass", "hit", "lost"}
  /\ got.through = Admitted(ln)

(* Before the verdict no signal that has left is gone.                     *)
Unlearnt(ln) ==
  Len(ln.dots) = ln.emitted /\ \A i \in DOMAIN ln.dots : ln.dots[i].mode \in {"fly", "held"}

LaneInv(ln, id, known, got) ==
  /\ ln.emitted <= ln.total
  /\ ln.verdict = None => ln.rest = None /\ Unlearnt(ln)
  /\ ln.verdict = None /\ ln.total > 0 => got.through = 0
  /\ ln.verdict # None => ln.verdict \in known
  /\ ShowsKnown(ln.dots, known)
  /\ id # 0 => ln.total > 0
  /\ id = 0 => ln.dots = <<>> /\ ln.emitted = ln.total /\ ln.rest = ln.verdict
  /\ got.waited /\ ln.verdict # None => StillWait(ln, got) \/ AllLearnt(ln, got)

(* What holds of the widgets, with what is known of each lane.             *)
AtEase(s, known) ==
  /\ \A l \in Lanes : LaneInv(s.lane[l], s.job[l], known[l], s.tally[l])
  /\ s.job[Pulse] = 0 => s.pulse = Flat
  /\ \A p \in Pills : s.job[p] = 0 => s.pill[p].glow = s.pill[p].target

Steady(s, known) == Owned(s.jobs, s.job) /\ AtEase(s, known)

Armed(s) == s.jobs # <<>> => s.timer # 0

IInv == TypeInv /\ Steady(Now, seen) /\ Armed(Now)

-----------------------------------------------------------------------------
(* Recursion over a list.                                                  *)

(* Induction over the naturals, for sets: what holds 0 and each successor  *)
(* holds them all.  (Else the numbers up to a missing n that it holds      *)
(* could be moved up by one into fewer places.)                            *)
LEMMA Induct ==
  ASSUME NEW S, 0 \in S, \A n \in Nat : n \in S => n + 1 \in S
  PROVE  \A n \in Nat : n \in S
<1> SUFFICES ASSUME NEW n \in Nat, n \notin S PROVE FALSE
  OBVIOUS
<1> DEFINE T == {i \in 0..n : i \in S}
           up == [i \in T |-> i + 1]
<1>1. T \subseteq 0..n /\ 0 \in T
  OBVIOUS
<1>2. \A i \in T : i \in Nat /\ i + 1 \in T \ {0}
  OBVIOUS
<1>3. up \in [T -> T \ {0}] /\ \A i, j \in T : up[i] = up[j] => i = j
  BY <1>2
<1> HIDE DEF T, up
<1>4. IsFiniteSet(T) /\ Cardinality(T) \in Nat
  <2>1. IsFiniteSet(0..n)
    BY FS_Interval
  <2> QED
    BY <1>1, <2>1, FS_Subset, FS_CardinalityType
<1>5. IsFiniteSet(T \ {0}) /\ Cardinality(T \ {0}) = Cardinality(T) - 1
  BY <1>1, <1>4, FS_RemoveElement
<1>6. up \in Injection(T, T \ {0})
  BY <1>3 DEF Injection, IsInjective
<1>7. Cardinality(T) <= Cardinality(T \ {0})
  BY <1>5, <1>6, FS_Injection
<1> QED
  BY <1>4, <1>5, <1>7

(* What is defined for 0 and for each number from the one before it, is    *)
(* defined.                                                                *)
StepByStep(L, S, zero, step, g) ==
  /\ g \in [0..L -> S]
  /\ g[0] = zero
  /\ \A n \in 1..L : g[n] = step[<<n, g[n - 1]>>]

LEMMA Recursion ==
  ASSUME NEW L \in Nat, NEW S, NEW zero \in S, NEW step \in [(1..L) \X S -> S]
  PROVE  \E g : StepByStep(L, S, zero, step, g)
<1> DEFINE Fine(n, g) == StepByStep(n, S, zero, step, g)
           Reached == {n \in Nat : n <= L => \E g : Fine(n, g)}
<1>1. \E g : Fine(0, g)
  <2> DEFINE g == [i \in 0..0 |-> zero]
  <2>1. Fine(0, g)
    BY DEF StepByStep
  <2> QED
    BY <2>1
<1>2. ASSUME NEW n \in Nat, n + 1 <= L, NEW g, Fine(n, g) PROVE \E h : Fine(n + 1, h)
  <2> DEFINE top == step[<<n + 1, g[n]>>]
             h == [i \in 0..(n + 1) |-> IF i = n + 1 THEN top ELSE g[i]]
  <2> USE <1>2 DEF StepByStep
  <2>1. top \in S
    <3>1. g[n] \in S /\ n + 1 \in 1..L
      BY <1>2
    <3> QED
      BY <3>1
  <2> HIDE DEF top
  <2>2. h \in [0..(n + 1) -> S] /\ h[0] = zero
    BY <1>2, <2>1
  <2>3. h[n + 1] = step[<<n + 1, h[(n + 1) - 1]>>]
    <3>1. (n + 1) - 1 = n /\ h[n] = g[n] /\ h[n + 1] = top
      OBVIOUS
    <3> HIDE DEF h
    <3> QED
      BY <3>1 DEF top
  <2>4. ASSUME NEW i \in 1..n PROVE h[i] = step[<<i, h[i - 1]>>]
    <3>1. h[i] = g[i] /\ h[i - 1] = g[i - 1]
      OBVIOUS
    <3> QED
      BY <1>2, <3>1
  <2>5. \A i \in 1..(n + 1) : i \in 1..n \/ i = n + 1
    OBVIOUS
  <2> HIDE DEF h
  <2>6. Fine(n + 1, h)
    BY <2>2, <2>3, <2>4, <2>5
  <2> QED
    BY <2>6
<1> HIDE DEF Fine
<1>3. 0 \in Reached /\ \A n \in Nat : n \in Reached => n + 1 \in Reached
  BY <1>1, <1>2
<1> HIDE DEF Reached
<1>4. L \in Reached
  BY <1>3, Induct
<1> QED
  BY <1>4 DEF Reached, Fine

(* Those keeps the order: its elements lie at increasing places, all of I. *)
InOrder(s, I, n, out, pos) ==
  /\ pos \in [1..Len(out) -> {i \in I : i <= n}]
  /\ \A i \in I : i <= n => \E k \in 1..Len(out) : pos[k] = i
  /\ \A j, k \in 1..Len(out) : j < k => pos[j] < pos[k]
  /\ \A k \in 1..Len(out) : out[k] = s[pos[k]]

LEMMA OneMoreInOrder ==
  ASSUME NEW T, NEW s \in Seq(T), NEW I, I \subseteq 1..Len(s),
         NEW n \in Nat, n + 1 <= Len(s),
         NEW out \in Seq(T), \E pos : InOrder(s, I, n, out, pos)
  PROVE  \E pos : InOrder(s, I, n + 1, IF n + 1 \in I THEN Append(out, s[n + 1]) ELSE out, pos)
<1>1. PICK pos : InOrder(s, I, n, out, pos)
  OBVIOUS
<1>2. Len(out) \in Nat /\ Len(s) \in Nat
  OBVIOUS
<1>3. CASE n + 1 \notin I
  <2>1. \A i \in I : i <= n + 1 <=> i <= n
    BY <1>2, <1>3
  <2>2. {i \in I : i <= n + 1} = {i \in I : i <= n}
    BY <2>1
  <2>3. InOrder(s, I, n + 1, out, pos)
    BY <1>1, <2>1, <2>2 DEF InOrder
  <2> QED
    BY <1>3, <2>3
<1>4. CASE n + 1 \in I
  <2> DEFINE L == Len(out) + 1
             more == Append(out, s[n + 1])
             up == [k \in 1..L |-> IF k = L THEN n + 1 ELSE pos[k]]
  <2>1. /\ more \in Seq(T) /\ Len(more) = L /\ more[L] = s[n + 1] /\ L \in Nat
        /\ \A k \in 1..Len(out) : more[k] = out[k]
    BY <1>2
  <2>2. \A k \in 1..L : k = L \/ (k \in 1..Len(out) /\ k # L)
    BY <1>2
  <2>3. /\ \A k \in 1..Len(out) : k \in 1..L /\ k < L /\ L \in 1..L
        /\ L \in 1..L
    BY <1>2
  <2>4. \A k \in 1..Len(out) : pos[k] \in I /\ pos[k] <= n
    BY <1>1 DEF InOrder
  <2>5. /\ \A i \in I : i \in Nat
        /\ \A k \in 1..Len(out) : pos[k] \in Nat /\ pos[k] < n + 1 /\ pos[k] <= n + 1
    <3>1. \A i \in I : i \in Nat
      BY <1>2
    <3>2. \A i \in Nat : i <= n => i < n + 1 /\ i <= n + 1
      OBVIOUS
    <3> QED
      BY <2>4, <3>1, <3>2
  <2> HIDE DEF L, more
  <2>6. up[L] = n + 1 /\ \A k \in 1..Len(out) : up[k] = pos[k]
    BY <2>3
  <2>7. up \in [1..L -> {i \in I : i <= n + 1}]
    <3>1. ASSUME NEW k \in 1..L PROVE up[k] \in {i \in I : i <= n + 1}
      <4>1. CASE k = L
        BY <1>4, <2>6, <4>1
      <4>2. CASE k \in 1..Len(out)
        BY <2>4, <2>5, <2>6, <4>2
      <4> QED
        BY <2>2, <4>1, <4>2
    <3> QED
      BY <3>1
  <2> HIDE DEF up
  <2>8. ASSUME NEW i \in I, i <= n + 1 PROVE \E k \in 1..L : up[k] = i
    <3>1. CASE i = n + 1
      BY <2>3, <2>6, <3>1
    <3>2. CASE i # n + 1
      <4>1. i <= n
        BY <2>5, <2>8, <3>2
      <4>2. PICK k \in 1..Len(out) : pos[k] = i
        BY <1>1, <4>1 DEF InOrder
      <4> QED
        BY <2>3, <2>6, <4>2
    <3> QED
      BY <3>1, <3>2
  <2>9. ASSUME NEW j \in 1..L, NEW k \in 1..L, j < k PROVE up[j] < up[k]
    <3>1. j \in 1..Len(out)
      BY <2>1, <2>2, <2>9
    <3>2. CASE k = L
      BY <2>4, <2>5, <2>6, <3>1, <3>2
    <3>3. CASE k \in 1..Len(out)
      BY <1>1, <2>6, <2>9, <3>1, <3>3 DEF InOrder
    <3> QED
      BY <2>2, <3>2, <3>3
  <2>10. \A k \in 1..L : more[k] = s[up[k]]
    <3>1. ASSUME NEW k \in 1..Len(out) PROVE more[k] = s[up[k]]
      BY <1>1, <2>1, <2>6 DEF InOrder
    <3> QED
      BY <2>1, <2>2, <2>6, <3>1
  <2>11. InOrder(s, I, n + 1, more, up)
    BY <2>1, <2>7, <2>8, <2>9, <2>10 DEF InOrder
  <2> QED
    BY <1>4, <2>11 DEF more
<1> QED
  BY <1>3, <1>4

LEMMA ThoseInOrder ==
  ASSUME NEW T, NEW s \in Seq(T), NEW I, I \subseteq 1..Len(s)
  PROVE  /\ Those(s, I) \in Seq(T)
         /\ \E pos : InOrder(s, I, Len(s), Those(s, I), pos)
<1> DEFINE L == Len(s)
           step == [p \in (1..L) \X Seq(T) |-> IF p[1] \in I THEN Append(p[2], s[p[1]]) ELSE p[2]]
           Eq(f) == f = [n \in 0..L |-> IF n = 0 THEN <<>>
                                        ELSE IF n \in I THEN Append(f[n - 1], s[n])
                                             ELSE f[n - 1]]
           upto == CHOOSE f : Eq(f)
<1>1. L \in Nat /\ \A n \in 1..L : s[n] \in T
  OBVIOUS
<1> HIDE DEF L
<1>2. step \in [(1..L) \X Seq(T) -> Seq(T)]
  BY <1>1
<1>3. \A n \in 1..L : \A q \in Seq(T) :
         step[<<n, q>>] = IF n \in I THEN Append(q, s[n]) ELSE q
  OBVIOUS
<1> HIDE DEF step
<1>4. PICK g : StepByStep(L, Seq(T), <<>>, step, g)
  <2>1. <<>> \in Seq(T)
    OBVIOUS
  <2> QED
    BY <1>1, <1>2, <2>1, Recursion
<1>5. Eq(g)
  <2>1. ASSUME NEW n \in 1..L
        PROVE  g[n] = IF n \in I THEN Append(g[n - 1], s[n]) ELSE g[n - 1]
    <3>1. g[n - 1] \in Seq(T)
      BY <1>1, <1>4 DEF StepByStep
    <3> QED
      BY <1>3, <1>4, <3>1 DEF StepByStep
  <2>2. \A n \in 0..L : n = 0 \/ n \in 1..L
    BY <1>1
  <2> QED
    BY <1>4, <2>1, <2>2 DEF StepByStep
<1>6. Eq(upto)
  BY <1>5
<1>7. Those(s, I) = upto[L]
  BY DEF Those, L
<1> HIDE DEF upto
<1>8. upto[0] = <<>>
  BY <1>1, <1>6
<1>9. ASSUME NEW n \in Nat, n + 1 <= L
      PROVE  upto[n + 1] = IF n + 1 \in I THEN Append(upto[n], s[n + 1]) ELSE upto[n]
  <2>1. n + 1 \in 0..L /\ n + 1 # 0 /\ (n + 1) - 1 = n
    BY <1>1, <1>9
  <2> QED
    BY <1>6, <2>1
<1> HIDE DEF Eq
<1> DEFINE Good == {n \in Nat : n <= L => /\ upto[n] \in Seq(T)
                                          /\ \E pos : InOrder(s, I, n, upto[n], pos)}
<1>10. 0 \in Good
  <2> DEFINE none == [k \in {} |-> 0]
  <2>1. InOrder(s, I, 0, <<>>, none)
    BY <1>1 DEF InOrder, L
  <2>2. upto[0] \in Seq(T)
    BY <1>8
  <2> HIDE DEF none
  <2>3. \E pos : InOrder(s, I, 0, upto[0], pos)
    BY Zenon, <1>8, <2>1
  <2> QED
    BY <2>2, <2>3
<1>11. ASSUME NEW n \in Nat, n + 1 <= L, upto[n] \in Seq(T),
              \E pos : InOrder(s, I, n, upto[n], pos)
       PROVE  /\ upto[n + 1] \in Seq(T)
              /\ \E pos : InOrder(s, I, n + 1, upto[n + 1], pos)
  <2>1. n + 1 <= Len(s) /\ s[n + 1] \in T
    BY <1>1, <1>11 DEF L
  <2>2. upto[n + 1] \in Seq(T)
    <3>1. Append(upto[n], s[n + 1]) \in Seq(T)
      BY <1>11, <2>1
    <3> QED
      BY Zenon, <1>9, <1>11, <3>1
  <2>3. \E pos : InOrder(s, I, n + 1, IF n + 1 \in I THEN Append(upto[n], s[n + 1]) ELSE upto[n], pos)
    BY <1>11, <2>1, OneMoreInOrder
  <2> QED
    BY <1>9, <1>11, <2>2, <2>3
<1>12. ASSUME NEW n \in Nat, n \in Good PROVE n + 1 \in Good
  <2> SUFFICES ASSUME n + 1 <= L PROVE n + 1 \in Good
    OBVIOUS
  <2>1. n <= L /\ upto[n] \in Seq(T) /\ \E pos : InOrder(s, I, n, upto[n], pos)
    BY <1>1, <1>12
  <2> HIDE DEF Good
  <2>2. /\ upto[n + 1] \in Seq(T)
        /\ \E pos : InOrder(s, I, n + 1, upto[n + 1], pos)
    BY Zenon, <1>11, <2>1
  <2>3. n + 1 \in Nat
    OBVIOUS
  <2> QED
    BY Zenon, <2>2, <2>3 DEF Good
<1> HIDE DEF Good
<1>13. L \in Good
  BY <1>1, <1>10, <1>12, Induct
<1> QED
  BY <1>1, <1>7, <1>13 DEF Good, L

-----------------------------------------------------------------------------
(* The clock's list.                                                       *)

LEMMA NamesApart ==
  /\ Pulse \in Widgets /\ Lanes \subseteq Widgets /\ Pills \subseteq Widgets
  /\ Pulse \notin Lanes /\ Pulse \notin Pills /\ Lanes \cap Pills = {}
BY MotionAssumption DEF Widgets

(* A number is always left: the jobs and the widgets are fewer than those  *)
(* to choose from.                                                         *)
LEMMA FreshIsFresh ==
  ASSUME NEW js \in Seq(Jobs), NEW own \in [Widgets -> Nat]
  PROVE  /\ Fresh(js, own) \in Nat \ {0}
         /\ Fresh(js, own) \notin IdsOf(js) \cup {own[w] : w \in Widgets}
<1> DEFINE L == Len(js)
           W == Cardinality(Widgets)
           Ids == IdsOf(js)
           Held == {own[w] : w \in Widgets}
           Is(n) == n \in 1..(L + W + 1) /\ n \notin Ids \cup Held
<1>1. IsFiniteSet(Widgets) /\ W \in Nat
  <2>1. IsFiniteSet(Lanes \cup {Pulse}) /\ IsFiniteSet(Lanes \cup {Pulse} \cup Pills)
    BY MotionAssumption, FS_AddElement, FS_Union
  <2> QED
    BY <2>1, FS_CardinalityType DEF Widgets
<1>2. L \in Nat /\ IsFiniteSet(1..L) /\ Cardinality(1..L) = L
  <2>1. L \in Nat
    OBVIOUS
  <2> HIDE DEF L
  <2>2. IsFiniteSet(1..L) /\ Cardinality(1..L) = IF 1 > L THEN 0 ELSE L - 1 + 1
    BY <2>1, FS_Interval
  <2> QED
    BY <2>1, <2>2
<1>3. IsFiniteSet(Ids) /\ Cardinality(Ids) <= L
  <2> DEFINE f == [i \in 1..L |-> js[i].id]
  <2>1. f \in Surjection(1..L, Ids)
    <3>1. DOMAIN js = 1..L
      OBVIOUS
    <3> HIDE DEF L
    <3> QED
      BY <3>1 DEF Surjection, IdsOf
  <2> HIDE DEF f, L, Ids
  <2> QED
    BY <1>2, <2>1, FS_Surjection
<1>4. IsFiniteSet(Held) /\ Cardinality(Held) <= W
  <2>1. own \in Surjection(Widgets, Held)
    BY DEF Surjection
  <2> HIDE DEF Held, W
  <2> QED
    BY <1>1, <2>1, FS_Surjection DEF W
<1> HIDE DEF Ids, Held, L, W
<1>5. \E n : Is(n)
  <2> SUFFICES ASSUME \A n \in 1..(L + W + 1) : n \in Ids \cup Held PROVE FALSE
    OBVIOUS
  <2>1. /\ IsFiniteSet(Ids \cup Held)
        /\ Cardinality(Ids \cup Held) = Cardinality(Ids) + Cardinality(Held) - Cardinality(Ids \cap Held)
    BY <1>3, <1>4, FS_Union
  <2>2. /\ Cardinality(Ids) \in Nat /\ Cardinality(Held) \in Nat
        /\ Cardinality(Ids \cap Held) \in Nat
    <3>1. IsFiniteSet(Ids \cap Held)
      BY <1>3, FS_Subset
    <3> QED
      BY <1>3, <1>4, <3>1, FS_CardinalityType
  <2>3. Cardinality(Ids \cup Held) <= L + W
    BY <1>1, <1>2, <1>3, <1>4, <2>1, <2>2
  <2>4. 1..(L + W + 1) \subseteq Ids \cup Held
    OBVIOUS
  <2>5. Cardinality(1..(L + W + 1)) = L + W + 1
    <3>1. L + W + 1 \in Int /\ ~(1 > L + W + 1)
      BY <1>1, <1>2
    <3>2. Cardinality(1..(L + W + 1)) = (L + W + 1) - 1 + 1
      BY <3>1, FS_Interval
    <3> QED
      BY <1>1, <1>2, <3>2
  <2>6. Cardinality(1..(L + W + 1)) <= Cardinality(Ids \cup Held)
    BY <2>1, <2>4, FS_Subset
  <2> QED
    BY <1>1, <1>2, <2>1, <2>2, <2>3, <2>5, <2>6
<1>6. Fresh(js, own) = CHOOSE n : Is(n)
  BY Zenon DEF Fresh, Is, L, W, Ids, Held
<1>7. Is(Fresh(js, own))
  BY <1>5, <1>6
<1> QED
  BY <1>1, <1>2, <1>7 DEF Ids, Held

(* The numbers that the widgets in W hold, and what is held when they have *)
(* given them up.                                                          *)
HeldBy(own, W) == {own[w] : w \in W}

GivenUp(own, W) == [w \in Widgets |-> IF w \in W THEN 0 ELSE own[w]]

(* Jobs taken from the list leave the others as they were.                 *)
LEMMA DroppedKeepsOthers ==
  ASSUME NEW js \in Seq(Jobs), NEW own \in [Widgets -> Nat], Owned(js, own),
         NEW W, W \subseteq Widgets
  PROVE  /\ Dropped(js, HeldBy(own, W)) \in Seq(Jobs)
         /\ Owned(Dropped(js, HeldBy(own, W)), GivenUp(own, W))
         /\ Dropped(js, HeldBy(own, W)) # <<>> => js # <<>>
<1> DEFINE ids == HeldBy(own, W)
           I == {i \in DOMAIN js : js[i].id \notin ids}
           left == Dropped(js, ids)
           held == GivenUp(own, W)
<1>1. DOMAIN js = 1..Len(js) /\ I \subseteq 1..Len(js) /\ \A i \in DOMAIN js : js[i] \in Jobs
  OBVIOUS
<1>2. left = Those(js, I)
  BY DEF Dropped
<1> HIDE DEF left
<1>3. left \in Seq(Jobs) /\ \E pos : InOrder(js, I, Len(js), left, pos)
  BY <1>1, <1>2, ThoseInOrder
<1>4. PICK pos : InOrder(js, I, Len(js), left, pos)
  BY <1>3
<1>5. DOMAIN left = 1..Len(left) /\ Len(left) \in Nat
  BY <1>3
<1>6. /\ \A k \in DOMAIN left : pos[k] \in I /\ left[k] = js[pos[k]]
      /\ \A j, k \in DOMAIN left : j # k => pos[j] # pos[k]
      /\ \A i \in I : \E k \in DOMAIN left : pos[k] = i
  <2>1. \A k \in DOMAIN left : pos[k] \in I /\ left[k] = js[pos[k]]
    BY <1>4, <1>5 DEF InOrder
  <2>2. \A j, k \in DOMAIN left : j < k => pos[j] < pos[k]
    BY <1>4, <1>5 DEF InOrder
  <2>3. \A j, k \in DOMAIN left : j # k => j < k \/ k < j
    BY <1>5
  <2>4. \A j, k \in DOMAIN left : pos[j] \in Nat /\ pos[k] \in Nat
    BY <1>1, <2>1
  <2>5. \A i \in I : i <= Len(js)
    BY <1>1
  <2>6. \A i \in I : \E k \in DOMAIN left : pos[k] = i
    BY <1>4, <1>5, <2>5 DEF InOrder
  <2> QED
    BY <2>1, <2>2, <2>3, <2>4, <2>6
<1>7. \A i \in I : i \in DOMAIN js /\ js[i].id \notin ids
  OBVIOUS
<1>8. \A i \in DOMAIN js : js[i].of \in Widgets /\ js[i].id \in Nat \ {0} /\ js[i].id = own[js[i].of]
  BY <1>1 DEF Jobs, Owned
<1>9. \A i \in DOMAIN js : i \in I <=> js[i].of \notin W
  <2> SUFFICES ASSUME NEW i \in DOMAIN js PROVE js[i].id \in ids <=> js[i].of \in W
    OBVIOUS
  <2>1. ASSUME js[i].of \in W PROVE js[i].id \in ids
    BY <1>8, <2>1 DEF HeldBy
  <2>2. ASSUME js[i].id \in ids PROVE js[i].of \in W
    <3>1. PICK w \in W : js[i].id = own[w]
      BY <2>2 DEF HeldBy
    <3> QED
      BY <1>8, <3>1 DEF Owned
  <2> QED
    BY <2>1, <2>2
<1> HIDE DEF I, ids
<1>10. \A w \in Widgets : held[w] = IF w \in W THEN 0 ELSE own[w]
  BY DEF GivenUp
<1> HIDE DEF held
<1>11. \A k \in DOMAIN left : left[k].id = held[left[k].of]
  BY <1>6, <1>7, <1>8, <1>9, <1>10
<1>12. \A j, k \in DOMAIN left : left[j].of = left[k].of => j = k
  BY <1>6, <1>7 DEF Owned
<1>13. ASSUME NEW w \in Widgets, held[w] # 0 PROVE \E k \in DOMAIN left : left[k].of = w
  <2>1. w \notin W /\ own[w] # 0
    BY <1>10, <1>13
  <2>2. PICK i \in DOMAIN js : js[i].of = w
    BY <2>1 DEF Owned
  <2> QED
    BY <1>6, <1>9, <2>1, <2>2
<1>14. \A v, w \in Widgets : held[v] = held[w] /\ held[v] # 0 => v = w
  BY <1>10 DEF Owned
<1>15. Owned(left, held)
  BY <1>11, <1>12, <1>13, <1>14 DEF Owned
<1>16. left # <<>> => js # <<>>
  <2> SUFFICES ASSUME js = <<>>, left # <<>> PROVE FALSE
    OBVIOUS
  <2>1. DOMAIN js = {} /\ 1 \in DOMAIN left
    BY <1>3
  <2> QED
    BY <1>6, <1>7, <2>1
<1> QED
  BY <1>3, <1>15, <1>16 DEF left, held, ids
(* add(): a widget that holds no job gets one of its own, at the end of    *)
(* the list, and the timer is armed.                                       *)
LEMMA StartedIsOwned ==
  ASSUME NEW s \in Moments, Owned(s.jobs, s.job), NEW w \in Widgets, s.job[w] = 0
  PROVE  \E n \in Nat \ {0} :
           /\ Started(s, w) = [s EXCEPT !.jobs = Append(@, [of |-> w, id |-> n]),
                                        !.job[w] = n, !.timer = Delay(w)]
           /\ Owned(Append(s.jobs, [of |-> w, id |-> n]), [s.job EXCEPT ![w] = n])
<1> DEFINE n == Fresh(s.jobs, s.job)
           js == s.jobs
           own == s.job
           new == [of |-> w, id |-> n]
           more == Append(js, new)
           held == [own EXCEPT ![w] = n]
           L == Len(js)
<1>1. js \in Seq(Jobs) /\ own \in [Widgets -> Nat] /\ own[w] = 0 /\ Owned(js, own)
  BY DEF Moments
<1>2. Started(s, w) = [s EXCEPT !.jobs = Append(@, [of |-> w, id |-> n]),
                                !.job[w] = n, !.timer = Delay(w)]
  BY DEF Started
<1>3. n \in Nat \ {0} /\ n \notin IdsOf(js) \cup {own[v] : v \in Widgets}
  BY <1>1, FreshIsFresh
<1> HIDE DEF n, js, own
<1>4. /\ more \in Seq(Jobs) /\ L \in Nat /\ DOMAIN js = 1..L /\ DOMAIN more = 1..(L + 1)
      /\ more[L + 1] = new /\ \A i \in 1..L : more[i] = js[i]
  <2>1. new \in Jobs
    BY <1>3 DEF Jobs
  <2> HIDE DEF new
  <2> QED
    BY <1>1, <2>1
<1>5. new.of = w /\ new.id = n
  OBVIOUS
<1>6. \A v \in Widgets : held[v] = IF v = w THEN n ELSE own[v]
  BY <1>1
<1>7. \A i \in 1..L : js[i] \in Jobs /\ js[i].of \in Widgets /\ js[i].id \in Nat \ {0}
  <2>1. \A i \in 1..L : js[i] \in Jobs
    BY <1>1, <1>4
  <2> QED
    BY <2>1 DEF Jobs
<1>8. \A i \in 1..L : js[i].of # w /\ js[i].id = own[js[i].of]
  BY <1>1, <1>4, <1>7 DEF Owned
<1>9. \A i \in 1..(L + 1) : i \in 1..L \/ i = L + 1
  BY <1>4
<1> HIDE DEF new, more, held
<1>10. \A i \in DOMAIN more : more[i].id = held[more[i].of]
  BY <1>4, <1>5, <1>6, <1>7, <1>8, <1>9
<1>11. \A i, k \in DOMAIN more : more[i].of = more[k].of => i = k
  <2>1. \A i, k \in 1..L : js[i].of = js[k].of => i = k
    BY <1>1, <1>4 DEF Owned
  <2> QED
    BY <1>4, <1>5, <1>8, <1>9, <2>1
<1>12. ASSUME NEW v \in Widgets, held[v] # 0 PROVE \E i \in DOMAIN more : more[i].of = v
  <2>1. CASE v = w
    BY <1>4, <1>5, <2>1
  <2>2. CASE v # w
    <3>1. PICK i \in 1..L : js[i].of = v
      BY <1>1, <1>4, <1>6, <1>12, <2>2 DEF Owned
    <3> QED
      BY <1>4, <3>1
  <2> QED
    BY <2>1, <2>2
<1>13. \A u, v \in Widgets : held[u] = held[v] /\ held[u] # 0 => u = v
  <2>1. \A v \in Widgets : own[v] # n
    BY <1>3
  <2> QED
    BY <1>1, <1>6, <2>1 DEF Owned
<1>14. Owned(more, held)
  BY <1>10, <1>11, <1>12, <1>13 DEF Owned
<1> QED
  BY <1>2, <1>3, <1>14 DEF more, held, new, js, own

(* What add() leaves: of the other widgets nothing is touched.             *)
OnlyStarts(s, t, w) ==
  /\ t \in Moments /\ t.alive = s.alive
  /\ Owned(t.jobs, t.job) /\ t.job[w] # 0
  /\ \A v \in Widgets : v # w \/ s.job[v] # 0 => t.job[v] = s.job[v]
  /\ t.lane = s.lane /\ t.pulse = s.pulse /\ t.pill = s.pill /\ t.tally = s.tally
  /\ Armed(s) => Armed(t)

LEMMA StartedOnlyStarts ==
  ASSUME NEW s \in Moments, Owned(s.jobs, s.job), NEW w \in Widgets
  PROVE  OnlyStarts(s, Started(s, w), w)
<1>1. CASE s.job[w] # 0
  BY <1>1 DEF Started, OnlyStarts
<1>2. CASE s.job[w] = 0
  <2>1. PICK n \in Nat \ {0} :
           /\ Started(s, w) = [s EXCEPT !.jobs = Append(@, [of |-> w, id |-> n]),
                                        !.job[w] = n, !.timer = Delay(w)]
           /\ Owned(Append(s.jobs, [of |-> w, id |-> n]), [s.job EXCEPT ![w] = n])
    BY <1>2, StartedIsOwned
  <2> DEFINE more == Append(s.jobs, [of |-> w, id |-> n])
             held == [s.job EXCEPT ![w] = n]
             t == Started(s, w)
  <2>2. s.jobs \in Seq(Jobs) /\ s.job \in [Widgets -> Nat]
    BY DEF Moments
  <2>3. more \in Seq(Jobs) /\ held \in [Widgets -> Nat] /\ held[w] = n
    <3>1. [of |-> w, id |-> n] \in Jobs
      BY DEF Jobs
    <3> QED
      BY <2>2, <3>1
  <2>4. \A v \in Widgets : v # w \/ s.job[v] # 0 => held[v] = s.job[v]
    BY <1>2, <2>2
  <2>5. Delay(w) \in Nat \ {0}
    BY DEF Delay
  <2>6. t = [s EXCEPT !.jobs = more, !.job = held, !.timer = Delay(w)]
    BY <2>1 DEF Moments
  <2>7. Owned(more, held)
    BY <2>1
  <2> HIDE DEF more, held, t
  <2>8. t = [jobs |-> more, timer |-> Delay(w), job |-> held, lane |-> s.lane,
             pulse |-> s.pulse, pill |-> s.pill, tally |-> s.tally, alive |-> s.alive]
    BY <2>6 DEF Moments
  <2>9. t \in Moments
    BY <2>3, <2>5, <2>8 DEF Moments
  <2> QED
    BY <2>3, <2>4, <2>5, <2>7, <2>8, <2>9 DEF OnlyStarts, Armed, t
<1> QED
  BY <1>1, <1>2

LEMMA StartedType == ASSUME NEW s \in Moments, NEW w \in Widgets PROVE Started(s, w) \in Moments
<1> DEFINE n == Fresh(s.jobs, s.job)
           more == Append(s.jobs, [of |-> w, id |-> n])
           held == [s.job EXCEPT ![w] = n]
<1>1. s.jobs \in Seq(Jobs) /\ s.job \in [Widgets -> Nat]
  BY DEF Moments
<1>2. n \in Nat \ {0}
  BY <1>1, FreshIsFresh
<1>3. Started(s, w) = IF s.job[w] # 0 THEN s
                      ELSE [s EXCEPT !.jobs = more, !.job = held, !.timer = Delay(w)]
  BY DEF Started, Moments
<1> HIDE DEF n
<1>4. more \in Seq(Jobs) /\ held \in [Widgets -> Nat]
  <2>1. [of |-> w, id |-> n] \in Jobs
    BY <1>2 DEF Jobs
  <2> QED
    BY <1>1, <1>2, <2>1
<1>5. Delay(w) \in Nat
  BY DEF Delay
<1> HIDE DEF more, held
<1> DEFINE t == Started(s, w)
<1> HIDE DEF t
<1>6. CASE s.job[w] = 0
  <2>1. t = [s EXCEPT !.jobs = more, !.job = held, !.timer = Delay(w)]
    BY <1>3, <1>6 DEF t
  <2>2. t = [jobs |-> more, timer |-> Delay(w), job |-> held, lane |-> s.lane,
             pulse |-> s.pulse, pill |-> s.pill, tally |-> s.tally, alive |-> s.alive]
    BY <2>1 DEF Moments
  <2> QED
    BY <1>4, <1>5, <2>2 DEF Moments, t
<1> QED
  BY <1>3, <1>6

-----------------------------------------------------------------------------
(* The signals of a lane.                                                  *)

LEMMA Sizes ==
  /\ MaxDots \in Nat \ {0} /\ Flight \in Nat \ {0} /\ Leave \in Nat \ {0} /\ Fade \in Nat \ {0}
  /\ Flash \in Nat \ {0} /\ Trail \in Nat \ {0} /\ Glow \in Nat \ {0} /\ MaxStep \in Nat \ {0}
  /\ Gap \in Nat
BY MotionAssumption

LEMMA OutcomeIsKnown ==
  ASSUME NEW ln \in LaneRecords, NEW n
  PROVE  /\ Outcome(ln, n) \in {"pass", "hit", "lost"}
         /\ Outcome(ln, n) = "pass" => ln.verdict \in {"allowed", "ratio"}
         /\ Outcome(ln, n) = "hit" => ln.verdict \in {"blocked", "ratio"}
         /\ Outcome(ln, n) = "lost" => ln.verdict \notin {"allowed", "blocked", "ratio"}
BY DEF Outcome

LEMMA MovedIsDot ==
  ASSUME NEW ln \in LaneRecords, NEW i \in DOMAIN ln.dots, NEW dt \in Nat
  PROVE  /\ Moved(ln, i, dt) \in Dots
         /\ Learns(ln, i, dt) =>
              Moved(ln, i, dt).mode =
                Outcome(ln, Taken(ln.dots) + Cardinality({k \in 1..(i - 1) : Learns(ln, k, dt)}))
         /\ ~Learns(ln, i, dt) => \/ Moved(ln, i, dt).mode = ln.dots[i].mode
                                  \/ Moved(ln, i, dt).mode = "held" /\ ln.verdict = None
<1> DEFINE d == ln.dots[i]
           mode == Outcome(ln, Taken(ln.dots) + Cardinality({k \in 1..(i - 1) : Learns(ln, k, dt)}))
           m == Moved(ln, i, dt)
<1>1. d \in Dots
  <2>1. ln.dots \in Seq(Dots)
    BY DEF LaneRecords
  <2> QED
    BY <2>1
<1>2. d.mode \in Modes /\ d.x \in Nat /\ d.age \in Nat /\ Flight \in Nat
  BY <1>1, Sizes DEF Dots
<1>3. CASE Learns(ln, i, dt)
  <2> DEFINE place == IF mode = "pass" /\ d.mode = "fly" THEN Flight + dt ELSE Flight
  <2>0. ln.verdict # None /\ AtGate(d, dt) /\ d.mode \notin {"hit", "lost"}
    BY <1>3 DEF Learns, AtGate
  <2>1. m = Learnt(ln, i, dt)
    BY Zenon, <1>3, <2>0 DEF Moved
  <2>2. m = [mode |-> mode, age |-> 0, x |-> place]
    BY <2>1 DEF Learnt
  <2>3. mode \in {"pass", "hit", "lost"}
    BY OutcomeIsKnown
  <2> HIDE DEF mode, m, d
  <2>4. place \in Nat
    BY <1>2
  <2> HIDE DEF place
  <2>5. m \in Dots /\ m.mode = mode
    BY <2>2, <2>3, <2>4 DEF Dots, Modes
  <2> QED
    BY <1>3, <2>5 DEF m, mode
<1>4. CASE ~Learns(ln, i, dt) /\ AtGate(d, dt)
  <2>1. ln.verdict = None /\ d.mode \notin {"hit", "lost"}
    BY <1>4 DEF Learns, AtGate
  <2>2. m = [d EXCEPT !.mode = "held", !.x = Flight]
    BY Zenon, <1>4, <2>1 DEF Moved
  <2> HIDE DEF m, d
  <2>3. m = [mode |-> "held", x |-> Flight, age |-> d.age]
    BY <1>1, <2>2 DEF Dots
  <2>4. m \in Dots /\ m.mode = "held"
    BY <1>2, <2>3 DEF Dots, Modes
  <2> QED
    BY <1>4, <2>1, <2>4 DEF m
<1>5. CASE ~AtGate(d, dt)
  <2>1. ~Learns(ln, i, dt) /\ d.mode # "held"
    BY <1>5 DEF Learns, AtGate
  <2>2. CASE d.mode \in {"fly", "pass"}
    <3>1. m = [d EXCEPT !.x = @ + dt]
      BY <1>5, <2>1, <2>2 DEF Moved
    <3> HIDE DEF m, d
    <3>2. m = [mode |-> d.mode, x |-> d.x + dt, age |-> d.age]
      BY <1>1, <3>1 DEF Dots
    <3>3. m \in Dots /\ m.mode = d.mode
      BY <1>2, <3>2 DEF Dots
    <3> QED
      BY <2>1, <3>3 DEF m, d
  <2>3. CASE d.mode \in {"hit", "lost"}
    <3>1. m = [d EXCEPT !.age = @ + dt]
      BY <1>5, <2>1, <2>3 DEF Moved
    <3> HIDE DEF m, d
    <3>2. m = [mode |-> d.mode, x |-> d.x, age |-> d.age + dt]
      BY <1>1, <3>1 DEF Dots
    <3>3. m \in Dots /\ m.mode = d.mode
      BY <1>2, <3>2 DEF Dots
    <3> QED
      BY <2>1, <3>3 DEF m, d
  <2> QED
    BY <1>2, <2>1, <2>2, <2>3 DEF Modes
<1> QED
  BY <1>3, <1>4, <1>5

LEMMA TravelledIsDots ==
  ASSUME NEW ln \in LaneRecords, NEW dt \in Nat
  PROVE  /\ Travelled(ln, dt) \in Seq(Dots)
         /\ Len(Travelled(ln, dt)) = Len(ln.dots)
         /\ DOMAIN Travelled(ln, dt) = DOMAIN ln.dots
         /\ \A i \in DOMAIN ln.dots : Travelled(ln, dt)[i] = Moved(ln, i, dt)
<1>1. ln.dots \in Seq(Dots) /\ DOMAIN ln.dots = 1..Len(ln.dots) /\ Len(ln.dots) \in Nat
  <2>1. ln.dots \in Seq(Dots)
    BY DEF LaneRecords
  <2> QED
    BY <2>1
<1>2. \A i \in DOMAIN ln.dots : Moved(ln, i, dt) \in Dots
  BY MovedIsDot
<1>3. Travelled(ln, dt) \in [1..Len(ln.dots) -> Dots]
  BY <1>1, <1>2 DEF Travelled
<1>4. Travelled(ln, dt) \in Seq(Dots) /\ Len(Travelled(ln, dt)) = Len(ln.dots)
  BY <1>1, <1>3
<1> QED
  BY <1>1, <1>4 DEF Travelled

(* No more signals leave than are left.                                    *)
LEMMA DueIsLeft ==
  ASSUME NEW ln \in LaneRecords
  PROVE  /\ Due(ln) \in Nat
         /\ ln.emitted <= ln.total => Due(ln) <= ln.total - ln.emitted
<1> DEFINE D == {n \in 0..(ln.total - 1) : n >= ln.emitted /\ ln.t > n * Gap}
           R == ln.emitted..(ln.total - 1)
<1>1. ln.total \in Nat /\ ln.emitted \in Nat
  BY DEF LaneRecords
<1>2. IsFiniteSet(D) /\ Cardinality(D) \in Nat
  <2>1. IsFiniteSet(0..(ln.total - 1))
    BY <1>1, FS_Interval
  <2>2. D \subseteq 0..(ln.total - 1)
    OBVIOUS
  <2> HIDE DEF D
  <2> QED
    BY <2>1, <2>2, FS_Subset, FS_CardinalityType
<1>3. D \subseteq R
  BY <1>1
<1>4. IsFiniteSet(R) /\ Cardinality(R) = IF ln.emitted > ln.total - 1 THEN 0
                                         ELSE (ln.total - 1) - ln.emitted + 1
  <2> DEFINE a == ln.emitted
             b == ln.total - 1
  <2>1. a \in Int /\ b \in Int
    BY <1>1
  <2> HIDE DEF a, b
  <2>2. IsFiniteSet(a..b) /\ Cardinality(a..b) = IF a > b THEN 0 ELSE b - a + 1
    BY <2>1, FS_Interval
  <2> QED
    BY <2>2 DEF a, b
<1> HIDE DEF R
<1>5. Due(ln) = Cardinality(D)
  BY Zenon DEF Due
<1> HIDE DEF D
<1>6. Cardinality(D) <= Cardinality(R)
  BY <1>3, <1>4, FS_Subset
<1> QED
  BY <1>1, <1>2, <1>4, <1>5, <1>6

LEMMA LaterIsLane ==
  ASSUME NEW ln \in LaneRecords, NEW dt \in Nat
  PROVE  \E t \in Nat : /\ Later(ln, dt) = [ln EXCEPT !.t = t]
                        /\ Later(ln, dt) = [total |-> ln.total, emitted |-> ln.emitted, t |-> t,
                                            dots |-> ln.dots, verdict |-> ln.verdict,
                                            passes |-> ln.passes, flash |-> ln.flash,
                                            rest |-> ln.rest]
                        /\ Later(ln, dt) \in LaneRecords
<1> DEFINE t == Smaller(ln.t + dt, ln.total * Gap + 1)
           after == Later(ln, dt)
<1>1. ln.t \in Nat /\ ln.total \in Nat /\ Gap \in Nat
  BY Sizes DEF LaneRecords
<1>2. ln.total * Gap \in Nat
  BY <1>1
<1>3. t \in Nat
  <2> DEFINE g == ln.total * Gap
  <2>1. g \in Nat
    BY <1>2
  <2> HIDE DEF g
  <2>2. Smaller(ln.t + dt, g + 1) \in Nat
    BY <1>1, <2>1 DEF Smaller
  <2> QED
    BY <2>2 DEF g
<1>4. after = [ln EXCEPT !.t = t]
  BY DEF Later
<1> HIDE DEF t, after
<1>5. after = [total |-> ln.total, emitted |-> ln.emitted, t |-> t, dots |-> ln.dots,
               verdict |-> ln.verdict, passes |-> ln.passes, flash |-> ln.flash,
               rest |-> ln.rest]
  BY <1>4 DEF LaneRecords
<1>6. after \in LaneRecords
  BY <1>3, <1>5 DEF LaneRecords
<1> QED
  BY <1>3, <1>4, <1>5, <1>6 DEF after

LEMMA TakenIsNat == ASSUME NEW dots \in Seq(Dots) PROVE Taken(dots) \in Nat
<1> DEFINE T == {i \in DOMAIN dots : dots[i].mode = "pass"}
<1>1. T \subseteq 1..Len(dots) /\ Len(dots) \in Nat
  OBVIOUS
<1>2. IsFiniteSet(1..Len(dots))
  BY <1>1, FS_Interval
<1>3. Taken(dots) = Cardinality(T)
  BY Zenon DEF Taken
<1> HIDE DEF T
<1> QED
  BY <1>1, <1>2, <1>3, FS_Subset, FS_CardinalityType

(* The lane and its signals in one frame, before those that are gone are   *)
(* taken away, and after.                                                  *)
Aloft(ln, dt) == Emitted(Later(ln, dt))

Flown(ln, dt) == Travelled(Aloft(ln, dt), dt)

Framed(ln, dt) == Stepped(Later(ln, dt), Flown(ln, dt), dt)

LEMMA AloftIsLane ==
  ASSUME NEW ln \in LaneRecords, NEW dt \in Nat
  PROVE  /\ Aloft(ln, dt) \in LaneRecords
         /\ Due(Later(ln, dt)) \in Nat
         /\ Aloft(ln, dt).verdict = ln.verdict /\ Aloft(ln, dt).passes = ln.passes
         /\ Aloft(ln, dt).total = ln.total
         /\ Aloft(ln, dt).dots = ln.dots \o [i \in 1..Due(Later(ln, dt)) |-> Signal]
<1>1. PICK t \in Nat : /\ Later(ln, dt) = [total |-> ln.total, emitted |-> ln.emitted, t |-> t,
                                           dots |-> ln.dots, verdict |-> ln.verdict,
                                           passes |-> ln.passes, flash |-> ln.flash,
                                           rest |-> ln.rest]
                       /\ Later(ln, dt) \in LaneRecords
  BY LaterIsLane
<1> DEFINE timed == Later(ln, dt)
           due == Due(timed)
           new == [i \in 1..due |-> Signal]
           e == Aloft(ln, dt)
<1>2. due \in Nat
  BY <1>1, DueIsLeft
<1>3. e = [timed EXCEPT !.dots = @ \o new, !.emitted = @ + due]
  BY DEF Aloft, Emitted
<1> HIDE DEF due
<1>4. new \in Seq(Dots)
  <2>1. Signal \in Dots
    BY DEF Signal, Dots, Modes
  <2> HIDE DEF Signal
  <2> QED
    BY <1>2, <2>1
<1>5. ln.dots \in Seq(Dots) /\ ln.emitted \in Nat
  BY DEF LaneRecords
<1> DEFINE dots == ln.dots \o new
<1>6. dots \in Seq(Dots)
  BY <1>4, <1>5
<1>7. timed.dots = ln.dots /\ timed.emitted = ln.emitted
  BY <1>1
<1>8. e = [timed EXCEPT !.dots = dots, !.emitted = ln.emitted + due]
  BY <1>3, <1>7
<1>9. /\ timed \in LaneRecords /\ timed.total = ln.total /\ timed.t = t
      /\ timed.verdict = ln.verdict /\ timed.passes = ln.passes /\ timed.flash = ln.flash
      /\ timed.rest = ln.rest
  BY <1>1
<1> HIDE DEF timed, e, new, dots
<1>12. e = [total |-> ln.total, emitted |-> ln.emitted + due, t |-> t, dots |-> dots,
           verdict |-> ln.verdict, passes |-> ln.passes, flash |-> ln.flash, rest |-> ln.rest]
  <2>1. e = [total |-> timed.total, emitted |-> ln.emitted + due, t |-> timed.t, dots |-> dots,
             verdict |-> timed.verdict, passes |-> timed.passes, flash |-> timed.flash,
             rest |-> timed.rest]
    BY <1>8, <1>9 DEF LaneRecords
  <2> QED
    BY <1>9, <2>1
<1>10. e \in LaneRecords
  BY <1>2, <1>5, <1>6, <1>12 DEF LaneRecords
<1> QED
  BY <1>2, <1>12, <1>10 DEF e, dots, new, due, timed

LEMMA FramedIsLane ==
  ASSUME NEW ln \in LaneRecords, NEW dt \in Nat
  PROVE  /\ Framed(ln, dt) \in LaneRecords
         /\ Framed(ln, dt).total = ln.total /\ Framed(ln, dt).verdict = ln.verdict
         /\ Framed(ln, dt).passes = ln.passes /\ Framed(ln, dt).rest = ln.rest
         /\ Framed(ln, dt).emitted = ln.emitted + Due(Later(ln, dt))
         /\ Flown(ln, dt) \in Seq(Dots)
         /\ Later(ln, dt).dots = ln.dots
         /\ \A i \in DOMAIN Framed(ln, dt).dots :
              \E k \in DOMAIN Flown(ln, dt) : Framed(ln, dt).dots[i] = Flown(ln, dt)[k]
<1>1. PICK t \in Nat : /\ Later(ln, dt) = [total |-> ln.total, emitted |-> ln.emitted, t |-> t,
                                           dots |-> ln.dots, verdict |-> ln.verdict,
                                           passes |-> ln.passes, flash |-> ln.flash,
                                           rest |-> ln.rest]
                       /\ Later(ln, dt) \in LaneRecords
  BY LaterIsLane
<1> DEFINE timed == Later(ln, dt)
           due == Due(timed)
           flown == Flown(ln, dt)
           I == {i \in DOMAIN flown : ~Gone(flown[i])}
           dots == Those(flown, I)
           f == Framed(ln, dt)
           flash == Larger(0, ln.flash - dt)
<1>2. due \in Nat /\ Aloft(ln, dt) \in LaneRecords
  BY AloftIsLane
<1>3. flown \in Seq(Dots)
  BY <1>2, TravelledIsDots DEF Flown
<1>4. f = [timed EXCEPT !.emitted = @ + due, !.dots = dots, !.flash = Larger(0, @ - dt)]
  BY DEF Framed, Stepped
<1>5. timed.emitted = ln.emitted /\ timed.flash = ln.flash /\ timed.dots = ln.dots
  BY <1>1
<1>6. f = [timed EXCEPT !.emitted = ln.emitted + due, !.dots = dots, !.flash = flash]
  BY <1>4, <1>5
<1>6a. /\ timed \in LaneRecords /\ timed.total = ln.total /\ timed.t = t
       /\ timed.verdict = ln.verdict /\ timed.passes = ln.passes /\ timed.rest = ln.rest
  BY <1>1
<1> HIDE DEF due, flown, f
<1>7. I \subseteq 1..Len(flown) /\ DOMAIN flown = 1..Len(flown)
  BY <1>3
<1> HIDE DEF I
<1>8. dots \in Seq(Dots) /\ \E pos : InOrder(flown, I, Len(flown), dots, pos)
  BY <1>3, <1>7, ThoseInOrder
<1> HIDE DEF dots, timed
<1>9. PICK pos : InOrder(flown, I, Len(flown), dots, pos)
  BY <1>8
<1>10. \A i \in DOMAIN dots : \E k \in DOMAIN flown : dots[i] = flown[k]
  <2>1. DOMAIN dots = 1..Len(dots)
    BY <1>8
  <2>2. \A i \in 1..Len(dots) : pos[i] \in I /\ dots[i] = flown[pos[i]]
    BY <1>9 DEF InOrder
  <2> QED
    BY <1>7, <2>1, <2>2
<1>11. ln.flash \in Nat /\ ln.emitted \in Nat
  BY DEF LaneRecords
<1>12. flash \in Nat
  BY <1>11 DEF Larger
<1> HIDE DEF flash
<1>13. f = [total |-> ln.total, emitted |-> ln.emitted + due, t |-> t, dots |-> dots,
            verdict |-> ln.verdict, passes |-> ln.passes, flash |-> flash, rest |-> ln.rest]
  <2>1. f = [total |-> timed.total, emitted |-> ln.emitted + due, t |-> timed.t, dots |-> dots,
             verdict |-> timed.verdict, passes |-> timed.passes, flash |-> flash,
             rest |-> timed.rest]
    BY <1>6, <1>6a DEF LaneRecords
  <2> QED
    BY <1>6a, <2>1
<1>14. f \in LaneRecords
  BY <1>2, <1>8, <1>11, <1>12, <1>13 DEF LaneRecords
<1> QED
  BY <1>3, <1>5, <1>10, <1>13, <1>14 DEF f, flown, due, timed

(* A signal that has flown shows what it showed, or waits, or shows what   *)
(* the verdict says.                                                       *)
LEMMA FlownShowsKnown ==
  ASSUME NEW ln \in LaneRecords, NEW dt \in Nat, NEW known,
         ShowsKnown(ln.dots, known), ln.verdict # None => ln.verdict \in known
  PROVE  ShowsKnown(Framed(ln, dt).dots, known)
<1> DEFINE e == Aloft(ln, dt)
           due == Due(Later(ln, dt))
           new == [i \in 1..due |-> Signal]
           Fits(mode) == /\ mode = "pass" => known \cap {"allowed", "ratio"} # {}
                         /\ mode = "hit"  => known \cap {"blocked", "ratio"} # {}
                         /\ mode = "lost" => known \ {"allowed", "blocked", "ratio"} # {}
<1>1. /\ e \in LaneRecords /\ e.dots = ln.dots \o new /\ due \in Nat
      /\ e.verdict = ln.verdict
  BY AloftIsLane
<1> HIDE DEF e, due
<1>2. \A i \in DOMAIN e.dots : Fits(e.dots[i].mode)
  <2>1. ln.dots \in Seq(Dots)
    BY DEF LaneRecords
  <2>2. new \in Seq(Dots) /\ Len(new) = due /\ \A i \in 1..due : new[i] = Signal
    <3>1. Signal \in Dots
      BY DEF Signal, Dots, Modes
    <3> HIDE DEF Signal
    <3> QED
      BY <1>1, <3>1
  <2> HIDE DEF new
  <2>3. \A i \in DOMAIN e.dots : \/ i \in DOMAIN ln.dots /\ e.dots[i] = ln.dots[i]
                                 \/ e.dots[i] = Signal
    <3> DEFINE n == Len(ln.dots)
    <3>1. /\ n \in Nat /\ DOMAIN ln.dots = 1..n /\ DOMAIN e.dots = 1..(n + due)
          /\ \A i \in 1..(n + due) : e.dots[i] = IF i <= n THEN ln.dots[i] ELSE new[i - n]
      <4>1. e.dots \in Seq(Dots)
        BY <1>1 DEF LaneRecords
      <4>2. n \in Nat /\ DOMAIN ln.dots = 1..n
        BY <2>1
      <4>3. Len(e.dots) = n + due
        <5>1. Len(ln.dots \o new) = Len(ln.dots) + Len(new)
          BY <2>1, <2>2, ConcatProperties
        <5> QED
          BY <1>1, <2>2, <5>1
      <4>4. DOMAIN e.dots = 1..(n + due)
        BY <4>1, <4>3
      <4>5. ASSUME NEW i \in 1..(n + due)
            PROVE  e.dots[i] = IF i <= n THEN ln.dots[i] ELSE new[i - n]
        BY <1>1, <2>1, <2>2
      <4> QED
        BY <4>2, <4>4, <4>5
    <3> HIDE DEF n
    <3>2. ASSUME NEW i \in 1..(n + due), ~(i <= n) PROVE e.dots[i] = Signal
      <4>1. i - n \in 1..due
        BY <1>1, <3>1, <3>2
      <4> QED
        BY <2>2, <3>1, <3>2, <4>1
    <3> QED
      BY <1>1, <3>1, <3>2
  <2>4. \A i \in DOMAIN ln.dots : Fits(ln.dots[i].mode)
    BY DEF ShowsKnown
  <2>5. Fits(Signal.mode)
    BY DEF Signal
  <2> HIDE DEF Fits
  <2> QED
    BY <2>3, <2>4, <2>5
<1>3. ASSUME NEW i \in DOMAIN e.dots PROVE Fits(Moved(e, i, dt).mode)
  <2>1. CASE Learns(e, i, dt)
    <3> DEFINE n == Taken(e.dots) + Cardinality({k \in 1..(i - 1) : Learns(e, k, dt)})
    <3>1. Moved(e, i, dt).mode = Outcome(e, n)
      BY <1>1, <2>1, MovedIsDot
    <3> HIDE DEF n
    <3>2. /\ Outcome(e, n) \in {"pass", "hit", "lost"}
          /\ Outcome(e, n) = "pass" => e.verdict \in {"allowed", "ratio"}
          /\ Outcome(e, n) = "hit" => e.verdict \in {"blocked", "ratio"}
          /\ Outcome(e, n) = "lost" => e.verdict \notin {"allowed", "blocked", "ratio"}
      BY <1>1, OutcomeIsKnown
    <3>3. e.verdict \in known
      BY <1>1, <2>1 DEF Learns
    <3> QED
      BY <3>1, <3>2, <3>3
  <2>2. CASE ~Learns(e, i, dt)
    <3>1. Moved(e, i, dt).mode \in {e.dots[i].mode, "held"}
      BY <1>1, <2>2, MovedIsDot
    <3>2. Fits(e.dots[i].mode) /\ Fits("held")
      BY <1>2
    <3> HIDE DEF Fits
    <3> QED
      BY <3>1, <3>2
  <2> QED
    BY <2>1, <2>2
<1>4. \A i \in DOMAIN Flown(ln, dt) : Fits(Flown(ln, dt)[i].mode)
  <2>1. Flown(ln, dt) = Travelled(e, dt)
    BY DEF Flown, e
  <2>2. /\ DOMAIN Travelled(e, dt) = DOMAIN e.dots
        /\ \A i \in DOMAIN e.dots : Travelled(e, dt)[i] = Moved(e, i, dt)
    BY <1>1, TravelledIsDots
  <2> HIDE DEF Fits
  <2> QED
    BY <1>3, <2>1, <2>2
<1>5. \A i \in DOMAIN Framed(ln, dt).dots : Fits(Framed(ln, dt).dots[i].mode)
  <2> SUFFICES ASSUME NEW i \in DOMAIN Framed(ln, dt).dots PROVE Fits(Framed(ln, dt).dots[i].mode)
    OBVIOUS
  <2>1. PICK k \in DOMAIN Flown(ln, dt) : Framed(ln, dt).dots[i] = Flown(ln, dt)[k]
    BY FramedIsLane
  <2> HIDE DEF Fits
  <2> QED
    BY <1>4, <2>1
<1> QED
  BY <1>5 DEF ShowsKnown

(* Once every signal has left the host none is added.                      *)
LEMMA NoneIsLeft ==
  ASSUME NEW ln \in LaneRecords, NEW dt \in Nat
  PROVE  /\ ln.emitted <= ln.total => Due(Later(ln, dt)) <= ln.total - ln.emitted
         /\ ln.emitted = ln.total => Due(Later(ln, dt)) = 0 /\ Aloft(ln, dt).dots = ln.dots
<1>1. PICK t \in Nat : /\ Later(ln, dt) = [total |-> ln.total, emitted |-> ln.emitted, t |-> t,
                                           dots |-> ln.dots, verdict |-> ln.verdict,
                                           passes |-> ln.passes, flash |-> ln.flash,
                                           rest |-> ln.rest]
                       /\ Later(ln, dt) \in LaneRecords
  BY LaterIsLane
<1> DEFINE timed == Later(ln, dt)
           due == Due(timed)
<1>2. timed.total = ln.total /\ timed.emitted = ln.emitted
  BY <1>1
<1>3. due \in Nat /\ (ln.emitted <= ln.total => due <= ln.total - ln.emitted)
  BY <1>1, <1>2, DueIsLeft
<1>4. ln.total \in Nat /\ ln.emitted \in Nat /\ ln.dots \in Seq(Dots)
  BY DEF LaneRecords
<1>5. Aloft(ln, dt).dots = ln.dots \o [i \in 1..due |-> Signal]
  BY AloftIsLane
<1> HIDE DEF due
<1>6. ASSUME due = 0 PROVE Aloft(ln, dt).dots = ln.dots
  <2>1. [i \in 1..due |-> Signal] = <<>>
    BY <1>6
  <2>2. ln.dots \o <<>> = ln.dots
    BY <1>4, ConcatEmptySeq
  <2> QED
    BY <1>5, <2>1, <2>2
<1>7. ASSUME ln.emitted = ln.total PROVE due = 0
  BY <1>3, <1>4, <1>7
<1> QED
  BY <1>3, <1>6, <1>7 DEF due

(* What a frame does to the signals of a lane that has sent them all: each *)
(* of them moves.                                                          *)
LEMMA FlownIsMoved ==
  ASSUME NEW ln \in LaneRecords, NEW dt \in Nat, ln.emitted = ln.total
  PROVE  /\ DOMAIN Flown(ln, dt) = DOMAIN ln.dots
         /\ \A i \in DOMAIN ln.dots :
              LET e == Aloft(ln, dt) IN
              /\ Flown(ln, dt)[i] = Moved(e, i, dt)
              /\ Learns(e, i, dt) =>
                   Flown(ln, dt)[i].mode =
                     Outcome(e, Taken(ln.dots) + Cardinality({k \in 1..(i - 1) : Learns(e, k, dt)}))
              /\ ~Learns(e, i, dt) => \/ Flown(ln, dt)[i].mode = ln.dots[i].mode
                                      \/ Flown(ln, dt)[i].mode = "held" /\ ln.verdict = None
<1> DEFINE e == Aloft(ln, dt)
<1>1. e \in LaneRecords /\ e.dots = ln.dots /\ e.verdict = ln.verdict
  BY AloftIsLane, NoneIsLeft
<1>2. Flown(ln, dt) = Travelled(e, dt)
  BY DEF Flown
<1> HIDE DEF e
<1>3. DOMAIN Flown(ln, dt) = DOMAIN ln.dots /\ \A i \in DOMAIN ln.dots : Flown(ln, dt)[i] = Moved(e, i, dt)
  BY <1>1, <1>2, TravelledIsDots
<1>4. ASSUME NEW i \in DOMAIN ln.dots
      PROVE  /\ Learns(e, i, dt) =>
                   Moved(e, i, dt).mode =
                     Outcome(e, Taken(ln.dots) + Cardinality({k \in 1..(i - 1) : Learns(e, k, dt)}))
             /\ ~Learns(e, i, dt) => \/ Moved(e, i, dt).mode = ln.dots[i].mode
                                     \/ Moved(e, i, dt).mode = "held" /\ ln.verdict = None
  <2>1. i \in DOMAIN e.dots
    BY <1>1
  <2>2. /\ Learns(e, i, dt) =>
              Moved(e, i, dt).mode =
                Outcome(e, Taken(e.dots) + Cardinality({k \in 1..(i - 1) : Learns(e, k, dt)}))
        /\ ~Learns(e, i, dt) => \/ Moved(e, i, dt).mode = e.dots[i].mode
                                \/ Moved(e, i, dt).mode = "held" /\ e.verdict = None
    BY <1>1, <2>1, MovedIsDot
  <2> QED
    BY <1>1, <2>2
<1> QED
  BY <1>3, <1>4 DEF e

(* The signals learn the verdict in the order they left: the first of them *)
(* get through, as many as the verdict says.                               *)
LEMMA AllLearnAtOnce ==
  ASSUME NEW ln \in LaneRecords, NEW dt \in Nat, NEW got \in Tallies,
         StillWait(ln, got), ln.verdict # None
  PROVE  /\ Taken(Flown(ln, dt)) = Admitted(ln)
         /\ Taken(ln.dots) = 0
         /\ \A i \in DOMAIN Flown(ln, dt) : Flown(ln, dt)[i].mode \in {"pass", "hit", "lost"}
<1> DEFINE e == Aloft(ln, dt)
           f == Flown(ln, dt)
           N == ln.total
<1>1. /\ e \in LaneRecords /\ e.dots = ln.dots /\ e.verdict = ln.verdict /\ e.passes = ln.passes
  BY AloftIsLane, NoneIsLeft DEF StillWait
<1>2. N \in Nat /\ N > 0 /\ DOMAIN ln.dots = 1..N /\ DOMAIN f = 1..N /\ ln.passes \in Nat
  <2>1. ln.dots \in Seq(Dots) /\ Len(ln.dots) = N /\ N > 0 /\ N \in Nat /\ ln.passes \in Nat
    BY DEF StillWait, LaneRecords
  <2>2. DOMAIN ln.dots = 1..N
    BY <2>1
  <2> QED
    BY <2>1, <2>2, FlownIsMoved DEF StillWait
<1> HIDE DEF e, f, N
<1>3. \A i \in 1..N : ln.dots[i].mode = "held" /\ Learns(e, i, dt)
  BY <1>1, <1>2 DEF StillWait, Learns, AtGate
<1>4. Taken(ln.dots) = 0
  <2>1. {i \in DOMAIN ln.dots : ln.dots[i].mode = "pass"} = {}
    BY <1>2, <1>3
  <2> QED
    BY <2>1, FS_EmptySet DEF Taken
<1>5. ASSUME NEW i \in 1..N PROVE f[i].mode = Outcome(e, i - 1)
  <2>1. {k \in 1..(i - 1) : Learns(e, k, dt)} = 1..(i - 1)
    BY <1>2, <1>3
  <2>2. Cardinality(1..(i - 1)) = i - 1
    <3> DEFINE b == i - 1
    <3>1. b \in Nat
      BY <1>2
    <3> HIDE DEF b
    <3>2. Cardinality(1..b) = IF 1 > b THEN 0 ELSE b - 1 + 1
      BY <3>1, FS_Interval
    <3>3. Cardinality(1..b) = b
      BY <3>1, <3>2
    <3> QED
      BY <3>3 DEF b
  <2>3. f[i].mode = Outcome(e, Taken(ln.dots) + Cardinality({k \in 1..(i - 1) : Learns(e, k, dt)}))
    BY <1>2, <1>3, FlownIsMoved DEF StillWait, e, f
  <2>4. f[i].mode = Outcome(e, 0 + (i - 1))
    BY <1>4, <2>1, <2>2, <2>3
  <2>5. 0 + (i - 1) = i - 1
    BY <1>2
  <2> QED
    BY <2>4, <2>5
<1> DEFINE T == {i \in 1..N : Outcome(e, i - 1) = "pass"}
<1>6. Taken(f) = Cardinality(T)
  <2>1. {i \in DOMAIN f : f[i].mode = "pass"} = T
    BY <1>2, <1>5
  <2> QED
    BY <2>1 DEF Taken
<1>7. T = 1..Admitted(ln)
  <2>1. CASE ln.verdict = "allowed"
    <3>1. \A i \in 1..N : Outcome(e, i - 1) = "pass"
      BY <1>1, <2>1 DEF Outcome
    <3>2. Admitted(ln) = N
      BY <2>1 DEF Admitted, N
    <3> QED
      BY <3>1, <3>2
  <2>2. CASE ln.verdict = "ratio"
    <3>1. \A i \in 1..N : Outcome(e, i - 1) = "pass" <=> i - 1 < ln.passes
      BY <1>1, <2>2 DEF Outcome
    <3>2. Admitted(ln) = Smaller(ln.passes, N)
      BY <2>2 DEF Admitted, N
    <3> QED
      BY <1>2, <3>1, <3>2 DEF Smaller
  <2>3. CASE ln.verdict \notin {"allowed", "ratio"}
    <3>1. \A i \in 1..N : Outcome(e, i - 1) # "pass"
      BY <1>1, <2>3 DEF Outcome
    <3>2. Admitted(ln) = 0
      BY <2>3 DEF Admitted
    <3> QED
      BY <3>1, <3>2
  <2> QED
    BY <2>1, <2>2, <2>3
<1>8. Admitted(ln) \in Nat
  BY <1>2 DEF Admitted, Smaller, N
<1>9. Cardinality(T) = Admitted(ln)
  <2> DEFINE b == Admitted(ln)
  <2> HIDE DEF b, T
  <2>1. Cardinality(1..b) = IF 1 > b THEN 0 ELSE b - 1 + 1
    BY <1>8, FS_Interval DEF b
  <2> QED
    BY <1>7, <1>8, <2>1 DEF b
<1>10. \A i \in 1..N : f[i].mode \in {"pass", "hit", "lost"}
  BY <1>1, <1>5, OutcomeIsKnown
<1> QED
  BY <1>2, <1>4, <1>6, <1>9, <1>10 DEF f

(* Signals that have learnt the verdict keep to it.                        *)
LEMMA LearntStay ==
  ASSUME NEW ln \in LaneRecords, NEW dt \in Nat, ln.emitted = ln.total, ln.verdict # None,
         \A i \in DOMAIN ln.dots : ln.dots[i].mode \in {"pass", "hit", "lost"}
  PROVE  /\ Taken(Flown(ln, dt)) = Taken(ln.dots)
         /\ \A i \in DOMAIN Flown(ln, dt) : Flown(ln, dt)[i].mode \in {"pass", "hit", "lost"}
<1> DEFINE e == Aloft(ln, dt)
           f == Flown(ln, dt)
<1>1. e.dots = ln.dots
  BY NoneIsLeft
<1>2. \A i \in DOMAIN ln.dots : ~Learns(e, i, dt)
  BY <1>1 DEF Learns, AtGate
<1>3. DOMAIN f = DOMAIN ln.dots /\ \A i \in DOMAIN ln.dots : f[i].mode = ln.dots[i].mode
  BY <1>2, FlownIsMoved
<1> HIDE DEF f
<1>4. Taken(f) = Taken(ln.dots)
  <2>1. {i \in DOMAIN f : f[i].mode = "pass"} = {i \in DOMAIN ln.dots : ln.dots[i].mode = "pass"}
    BY <1>3
  <2> QED
    BY <2>1 DEF Taken
<1> QED
  BY <1>3, <1>4 DEF f

(* What a frame leaves of a lane, and of what is known of it.              *)
Rested(ln, dt) == IF PlayedOut(Framed(ln, dt)) THEN AtRest(Framed(ln, dt)) ELSE Framed(ln, dt)

Through(ln, got, dt) ==
  [got EXCEPT !.through = @ + Taken(Flown(ln, dt)) - Taken(ln.dots)]

LEMMA RestedIsLane ==
  ASSUME NEW ln \in LaneRecords, NEW dt \in Nat
  PROVE  /\ Rested(ln, dt) \in LaneRecords
         /\ Rested(ln, dt).total = ln.total /\ Rested(ln, dt).verdict = ln.verdict
         /\ Rested(ln, dt).passes = ln.passes
         /\ Rested(ln, dt).emitted = ln.emitted + Due(Later(ln, dt))
         /\ Rested(ln, dt).dots = Framed(ln, dt).dots
         /\ Rested(ln, dt).rest = IF PlayedOut(Framed(ln, dt)) THEN ln.verdict ELSE ln.rest
<1> DEFINE f == Framed(ln, dt)
           due == Due(Later(ln, dt))
<1>1. /\ f \in LaneRecords /\ f.total = ln.total /\ f.verdict = ln.verdict
      /\ f.passes = ln.passes /\ f.rest = ln.rest /\ f.emitted = ln.emitted + due
  BY FramedIsLane
<1> HIDE DEF f, due
<1>2. CASE PlayedOut(f)
  <2> DEFINE r == [f EXCEPT !.rest = f.verdict]
  <2>1. Rested(ln, dt) = r
    BY <1>2 DEF Rested, AtRest, f
  <2>2. f.verdict \in Verdicts
    BY <1>1 DEF LaneRecords
  <2>3. /\ r \in LaneRecords /\ r.total = f.total /\ r.verdict = f.verdict /\ r.passes = f.passes
        /\ r.emitted = f.emitted /\ r.dots = f.dots /\ r.rest = f.verdict
    BY <1>1, <2>2 DEF LaneRecords
  <2> HIDE DEF r
  <2> QED
    BY <1>1, <1>2, <2>1, <2>3 DEF f, due
<1>3. CASE ~PlayedOut(f)
  <2>1. Rested(ln, dt) = f
    BY <1>3 DEF Rested, f
  <2> QED
    BY <1>1, <1>3, <2>1 DEF f, due
<1> QED
  BY <1>2, <1>3

LEMMA ThroughIsTally ==
  ASSUME NEW ln \in LaneRecords, NEW dt \in Nat, NEW got \in Tallies
  PROVE  /\ Through(ln, got, dt) \in Tallies
         /\ Through(ln, got, dt).waited = got.waited
         /\ Through(ln, got, dt).through = got.through + Taken(Flown(ln, dt)) - Taken(ln.dots)
<1> DEFINE a == Taken(Flown(ln, dt))
           b == Taken(ln.dots)
           n == got.through + a - b
<1>1. a \in Nat /\ b \in Nat
  <2>1. ln.dots \in Seq(Dots)
    BY DEF LaneRecords
  <2> QED
    BY <2>1, FramedIsLane, TakenIsNat
<1> HIDE DEF a, b
<1>2. n \in Int
  BY <1>1 DEF Tallies
<1> HIDE DEF n
<1>3. Through(ln, got, dt) = [got EXCEPT !.through = n]
  BY DEF Through, n, a, b
<1>4. Through(ln, got, dt) = [waited |-> got.waited, through |-> n]
  BY <1>3 DEF Tallies
<1>5. got.waited \in BOOLEAN
  BY DEF Tallies
<1>6. [waited |-> got.waited, through |-> n] \in Tallies
  BY <1>2, <1>5 DEF Tallies
<1> QED
  BY <1>4, <1>6 DEF n, a, b

(* Before the verdict a frame takes no signal away.                        *)
LEMMA NoneIsGone ==
  ASSUME NEW ln \in LaneRecords, NEW dt \in Nat, ln.verdict = None, Unlearnt(ln)
  PROVE  /\ Len(Framed(ln, dt).dots) = ln.emitted + Due(Later(ln, dt))
         /\ \A i \in DOMAIN Framed(ln, dt).dots : Framed(ln, dt).dots[i].mode \in {"fly", "held"}
         /\ Taken(Flown(ln, dt)) = 0 /\ Taken(ln.dots) = 0
<1> DEFINE e == Aloft(ln, dt)
           f == Flown(ln, dt)
           due == Due(Later(ln, dt))
           new == [i \in 1..due |-> Signal]
           I == {i \in DOMAIN f : ~Gone(f[i])}
<1>1. e \in LaneRecords /\ e.dots = ln.dots \o new /\ due \in Nat /\ e.verdict = None
  BY AloftIsLane
<1>2. ln.dots \in Seq(Dots) /\ Len(ln.dots) = ln.emitted /\ ln.emitted \in Nat
  BY DEF LaneRecords, Unlearnt
<1> HIDE DEF e, due
<1>3. new \in Seq(Dots) /\ Len(new) = due /\ \A i \in 1..due : new[i] = Signal
  <2>1. Signal \in Dots
    BY DEF Signal, Dots, Modes
  <2> HIDE DEF Signal
  <2> QED
    BY <1>1, <2>1
<1> HIDE DEF new
<1>4. /\ Len(e.dots) = ln.emitted + due /\ e.dots \in Seq(Dots)
      /\ \A i \in 1..(ln.emitted + due) :
           e.dots[i] = IF i <= ln.emitted THEN ln.dots[i] ELSE new[i - ln.emitted]
  <2>1. /\ ln.dots \o new \in Seq(Dots)
        /\ Len(ln.dots \o new) = Len(ln.dots) + Len(new)
        /\ \A i \in 1..Len(ln.dots) + Len(new) :
             (ln.dots \o new)[i] = IF i <= Len(ln.dots) THEN ln.dots[i] ELSE new[i - Len(ln.dots)]
    BY <1>2, <1>3, ConcatProperties
  <2> QED
    BY <1>1, <1>2, <1>3, <2>1
<1> DEFINE N == ln.emitted + due
<1>5. N \in Nat /\ DOMAIN e.dots = 1..N
  BY <1>1, <1>2, <1>4
<1>6. ASSUME NEW i \in 1..N PROVE e.dots[i].mode \in {"fly", "held"}
  <2>1. CASE i <= ln.emitted
    <3>1. i \in DOMAIN ln.dots
      BY <1>2, <2>1
    <3> QED
      BY <1>4, <2>1, <3>1 DEF Unlearnt
  <2>2. CASE ~(i <= ln.emitted)
    <3>1. i - ln.emitted \in 1..due
      BY <1>1, <1>2, <2>2
    <3>2. e.dots[i] = Signal
      BY <1>3, <1>4, <2>2, <3>1
    <3> QED
      BY <3>2 DEF Signal
  <2> QED
    BY <2>1, <2>2
<1>7. /\ f \in Seq(Dots) /\ Len(f) = N /\ DOMAIN f = 1..N
      /\ \A i \in 1..N : f[i] = Moved(e, i, dt)
  <2>1. f = Travelled(e, dt)
    BY DEF Flown, e
  <2> HIDE DEF f, N
  <2> QED
    BY <1>1, <1>4, <1>5, <2>1, TravelledIsDots DEF N
<1> HIDE DEF f, N
<1>8. \A i \in 1..N : f[i].mode \in {"fly", "held"}
  <2>1. \A i \in 1..N : ~Learns(e, i, dt)
    BY <1>1 DEF Learns
  <2>2. \A i \in 1..N : Moved(e, i, dt).mode = e.dots[i].mode \/ Moved(e, i, dt).mode = "held"
    BY <1>1, <1>5, <2>1, MovedIsDot
  <2> QED
    BY <1>6, <1>7, <2>2
<1>9. I = 1..N
  BY <1>7, <1>8 DEF Gone
<1>10. Framed(ln, dt).dots = Those(f, I)
  <2> DEFINE timed == Later(ln, dt)
             flash == Larger(0, timed.flash - dt)
             g == Framed(ln, dt)
  <2>1. timed \in LaneRecords
    BY LaterIsLane
  <2>2. g = [timed EXCEPT !.emitted = @ + Due(timed), !.dots = Those(f, I),
                          !.flash = Larger(0, @ - dt)]
    BY DEF Framed, Stepped, f
  <2> HIDE DEF timed, g, I
  <2> QED
    BY <2>1, <2>2 DEF LaneRecords, g
<1> HIDE DEF I
<1> DEFINE out == Those(f, I)
<1>11. out \in Seq(Dots) /\ \E pos : InOrder(f, I, Len(f), out, pos)
  BY <1>7, <1>9, ThoseInOrder
<1> HIDE DEF out
<1>12. PICK pos : InOrder(f, I, Len(f), out, pos)
  BY <1>11
<1>13. Len(out) \in Nat /\ DOMAIN out = 1..Len(out)
  BY <1>11
<1>14. /\ pos \in [1..Len(out) -> 1..N]
       /\ \A i \in 1..N : \E k \in 1..Len(out) : pos[k] = i
       /\ \A j, k \in 1..Len(out) : j < k => pos[j] < pos[k]
       /\ \A k \in 1..Len(out) : out[k] = f[pos[k]]
  <2>1. {i \in I : i <= Len(f)} = 1..N /\ \A i \in 1..N : i \in I /\ i <= Len(f)
    BY <1>5, <1>7, <1>9
  <2> QED
    BY <1>12, <2>1 DEF InOrder
<1>15. Len(out) = N
  <2> DEFINE A == 1..Len(out)
             B == 1..N
  <2>1. \A j, k \in A : pos[j] = pos[k] => j = k
    <3>1. \A j, k \in A : pos[j] \in Nat /\ pos[k] \in Nat /\ (j # k => j < k \/ k < j)
      BY <1>13, <1>14
    <3> QED
      BY <1>14, <3>1
  <2>2. pos \in Bijection(A, B)
    BY <1>14, <2>1 DEF Bijection, Injection, IsInjective, Surjection
  <2>3. IsFiniteSet(A) /\ Cardinality(A) = Len(out)
    <3>1. IsFiniteSet(1..Len(out)) /\ Cardinality(1..Len(out)) = IF 1 > Len(out) THEN 0 ELSE Len(out) - 1 + 1
      BY <1>13, FS_Interval
    <3> QED
      BY <1>13, <3>1
  <2>4. Cardinality(B) = N
    <3>1. Cardinality(1..N) = IF 1 > N THEN 0 ELSE N - 1 + 1
      BY <1>5, FS_Interval
    <3> QED
      BY <1>5, <3>1
  <2> HIDE DEF A, B
  <2>5. Cardinality(B) = Cardinality(A)
    BY <2>2, <2>3, FS_Bijection DEF ExistsBijection
  <2> QED
    BY <2>3, <2>4, <2>5
<1>16. \A k \in DOMAIN out : out[k].mode \in {"fly", "held"}
  BY <1>8, <1>13, <1>14
<1>17. Taken(f) = 0 /\ Taken(ln.dots) = 0
  <2>1. ASSUME NEW dots, \A i \in DOMAIN dots : dots[i].mode \in {"fly", "held"}
        PROVE  Taken(dots) = 0
    <3>1. {i \in DOMAIN dots : dots[i].mode = "pass"} = {}
      BY <2>1
    <3> QED
      BY <3>1, FS_EmptySet DEF Taken
  <2>2. \A i \in DOMAIN ln.dots : ln.dots[i].mode \in {"fly", "held"}
    BY DEF Unlearnt
  <2> QED
    BY <1>7, <1>8, <2>1, <2>2
<1> QED
  BY <1>10, <1>15, <1>16, <1>17 DEF out, N, due, f

LEMMA FramedLaneInv ==
  ASSUME NEW ln \in LaneRecords, NEW dt \in Nat, NEW id \in Nat \ {0}, NEW known,
         NEW got \in Tallies, LaneInv(ln, id, known, got)
  PROVE  /\ LaneInv(Rested(ln, dt), IF HasEnded(Framed(ln, dt)) THEN 0 ELSE id, known,
                    Through(ln, got, dt))
         /\ HasEnded(Framed(ln, dt)) => ln.verdict # None /\ Rested(ln, dt).rest = ln.verdict
         /\ ~HasEnded(Framed(ln, dt)) => Rested(ln, dt).rest = ln.rest
<1> DEFINE f == Framed(ln, dt)
           r == Rested(ln, dt)
           due == Due(Later(ln, dt))
           now == Through(ln, got, dt)
           left == IF HasEnded(f) THEN 0 ELSE id
<1>1. /\ ln.total \in Nat /\ ln.total > 0 /\ ln.emitted \in Nat /\ ln.emitted <= ln.total
      /\ ln.verdict = None => ln.rest = None /\ Unlearnt(ln)
      /\ ln.verdict # None => ln.verdict \in known
      /\ ShowsKnown(ln.dots, known)
      /\ got.waited /\ ln.verdict # None => StillWait(ln, got) \/ AllLearnt(ln, got)
  BY DEF LaneInv, LaneRecords
<1>2. due \in Nat /\ due <= ln.total - ln.emitted /\ (ln.emitted = ln.total => due = 0)
  BY <1>1, AloftIsLane, NoneIsLeft
<1>3. /\ f \in LaneRecords /\ f.total = ln.total /\ f.verdict = ln.verdict
      /\ f.emitted = ln.emitted + due
  BY FramedIsLane
<1>4. /\ r.total = ln.total /\ r.verdict = ln.verdict /\ r.emitted = ln.emitted + due
      /\ r.passes = ln.passes
      /\ r.dots = f.dots /\ r.rest = IF PlayedOut(f) THEN ln.verdict ELSE ln.rest
  BY RestedIsLane
<1>5. now.waited = got.waited /\ now.through = got.through + Taken(Flown(ln, dt)) - Taken(ln.dots)
  BY ThroughIsTally
<1>6. ShowsKnown(f.dots, known)
  BY <1>1, FlownShowsKnown
<1>7. \A i \in DOMAIN f.dots : \E k \in DOMAIN Flown(ln, dt) : f.dots[i] = Flown(ln, dt)[k]
  BY FramedIsLane
<1> HIDE DEF f, r, due, now
<1>8. HasEnded(f) <=> PlayedOut(f)
  BY <1>1, <1>3 DEF HasEnded
<1>9. PlayedOut(f) => ln.verdict # None /\ f.dots = <<>> /\ r.emitted = ln.total
  BY <1>1, <1>2, <1>3, <1>4 DEF PlayedOut
<1>10. ASSUME got.waited, ln.verdict # None PROVE AllLearnt(r, now)
  <2>1. CASE StillWait(ln, got)
    <3>1. /\ Taken(Flown(ln, dt)) = Admitted(ln) /\ Taken(ln.dots) = 0
          /\ \A k \in DOMAIN Flown(ln, dt) : Flown(ln, dt)[k].mode \in {"pass", "hit", "lost"}
      BY <1>10, <2>1, AllLearnAtOnce
    <3>2. ln.emitted = ln.total /\ ln.rest = None /\ got.through = 0
      BY <2>1 DEF StillWait
    <3>3. r.emitted = r.total
      BY <1>1, <1>2, <1>4, <3>2
    <3>4. Admitted(r) = Admitted(ln) /\ Admitted(ln) \in Int
      <4>1. ln.passes \in Nat
        BY DEF LaneRecords
      <4> QED
        BY <1>1, <1>4, <4>1 DEF Admitted, Smaller
    <3>5. now.through = Admitted(r)
      BY <1>5, <3>1, <3>2, <3>4
    <3>6. \A i \in DOMAIN r.dots : r.dots[i].mode \in {"pass", "hit", "lost"}
      BY <1>4, <1>7, <3>1
    <3> QED
      BY <1>4, <3>2, <3>3, <3>5, <3>6 DEF AllLearnt
  <2>2. CASE AllLearnt(ln, got)
    <3>1. /\ ln.emitted = ln.total /\ ln.rest \in {None, ln.verdict}
          /\ got.through = Admitted(ln)
          /\ \A i \in DOMAIN ln.dots : ln.dots[i].mode \in {"pass", "hit", "lost"}
      BY <2>2 DEF AllLearnt
    <3>2. /\ Taken(Flown(ln, dt)) = Taken(ln.dots)
          /\ \A k \in DOMAIN Flown(ln, dt) : Flown(ln, dt)[k].mode \in {"pass", "hit", "lost"}
      BY <1>10, <3>1, LearntStay
    <3>3. Taken(ln.dots) \in Nat /\ got.through \in Int
      <4>1. ln.dots \in Seq(Dots)
        BY DEF LaneRecords
      <4> QED
        BY <4>1, TakenIsNat DEF Tallies
    <3>4. now.through = Admitted(r)
      <4>1. Admitted(r) = Admitted(ln)
        BY <1>4 DEF Admitted
      <4> QED
        BY <1>5, <3>1, <3>2, <3>3, <4>1
    <3>5. r.emitted = r.total
      BY <1>1, <1>2, <1>4, <3>1
    <3>6. \A i \in DOMAIN r.dots : r.dots[i].mode \in {"pass", "hit", "lost"}
      BY <1>4, <1>7, <3>2
    <3> QED
      BY <1>4, <3>1, <3>4, <3>5, <3>6 DEF AllLearnt
  <2> QED
    BY <1>1, <1>10, <2>1, <2>2
<1>11. LaneInv(r, left, known, now)
  <2>1. r.emitted <= r.total
    BY <1>1, <1>2, <1>4
  <2>2. /\ r.verdict = None => r.rest = None /\ Unlearnt(r)
        /\ r.verdict # None => r.verdict \in known
        /\ r.verdict = None /\ r.total > 0 => now.through = 0
        /\ ShowsKnown(r.dots, known)
    <3>1. r.verdict = None => r.rest = None
      BY <1>1, <1>4
    <3>2. r.verdict = None => Unlearnt(r)
      BY <1>1, <1>4, NoneIsGone DEF Unlearnt, f, due
    <3>3. r.verdict = None /\ r.total > 0 => now.through = 0
      <4>1. ASSUME ln.verdict = None
            PROVE  Taken(Flown(ln, dt)) = 0 /\ Taken(ln.dots) = 0 /\ got.through = 0
        BY <1>1, <4>1, NoneIsGone DEF LaneInv
      <4> QED
        BY <1>4, <1>5, <4>1
    <3> QED
      BY <1>1, <1>4, <1>6, <3>1, <3>2, <3>3
  <2>3. left # 0 => r.total > 0
    BY <1>1, <1>4
  <2>4. left = 0 => r.dots = <<>> /\ r.emitted = r.total /\ r.rest = r.verdict
    BY <1>4, <1>8, <1>9
  <2>5. now.waited /\ r.verdict # None => StillWait(r, now) \/ AllLearnt(r, now)
    BY <1>4, <1>5, <1>10
  <2> QED
    BY <2>1, <2>2, <2>3, <2>4, <2>5 DEF LaneInv
<1> QED
  BY <1>4, <1>8, <1>9, <1>11 DEF r, f, now

-----------------------------------------------------------------------------
(* The frames.                                                             *)

(* A moment, spelt out.                                                    *)
LEMMA Spelt ==
  ASSUME NEW s \in Moments
  PROVE  /\ s.jobs \in Seq(Jobs) /\ s.timer \in Nat /\ s.job \in [Widgets -> Nat]
         /\ s.lane \in [Lanes -> LaneRecords] /\ s.pulse \in PulseRecords
         /\ s.pill \in [Pills -> PillRecords] /\ s.tally \in [Lanes -> Tallies]
         /\ s.alive \in BOOLEAN
BY DEF Moments

(* A beat of the trace: its job is on the clock, and nothing else changes. *)
Beats(s, t) ==
  /\ t \in Moments /\ t.alive = s.alive
  /\ Owned(t.jobs, t.job) /\ t.job[Pulse] # 0
  /\ \A v \in Widgets : v # Pulse \/ s.job[v] # 0 => t.job[v] = s.job[v]
  /\ t.lane = s.lane /\ t.pill = s.pill /\ t.tally = s.tally
  /\ Armed(s) => Armed(t)

LEMMA BeatIsMoment ==
  ASSUME NEW s \in Moments
  PROVE  LET b == [s EXCEPT !.pulse.beat = 1]
         IN  /\ b \in Moments /\ b.jobs = s.jobs /\ b.timer = s.timer /\ b.job = s.job
             /\ b.lane = s.lane /\ b.pill = s.pill /\ b.tally = s.tally /\ b.alive = s.alive
<1> DEFINE p == [s.pulse EXCEPT !.beat = 1]
           b == [s EXCEPT !.pulse = p]
<1>1. [s EXCEPT !.pulse.beat = 1] = b
  BY DEF Moments
<1>2. p \in PulseRecords
  <2>1. s.pulse \in PulseRecords
    BY Spelt
  <2> QED
    BY <2>1 DEF PulseRecords
<1> HIDE DEF p
<1>3. /\ b \in Moments /\ b.jobs = s.jobs /\ b.timer = s.timer /\ b.job = s.job
      /\ b.lane = s.lane /\ b.pill = s.pill /\ b.tally = s.tally /\ b.alive = s.alive
  BY <1>2 DEF Moments
<1> QED
  BY <1>1, <1>3

LEMMA BlipBeats ==
  ASSUME NEW s \in Moments, Owned(s.jobs, s.job)
  PROVE  Beats(s, Blip(s))
<1> DEFINE b == [s EXCEPT !.pulse.beat = 1]
<1>1. /\ b \in Moments /\ b.jobs = s.jobs /\ b.timer = s.timer /\ b.job = s.job
      /\ b.lane = s.lane /\ b.pill = s.pill /\ b.tally = s.tally /\ b.alive = s.alive
  BY BeatIsMoment
<1>2. Blip(s) = Started(b, Pulse)
  BY DEF Blip
<1> HIDE DEF b
<1>3. OnlyStarts(b, Started(b, Pulse), Pulse)
  BY <1>1, NamesApart, StartedOnlyStarts
<1> QED
  BY <1>1, <1>2, <1>3 DEF OnlyStarts, Beats, Armed

LEMMA PulseFrameIs ==
  ASSUME NEW s \in Moments, NEW dt \in Nat
  PROVE  \E p \in PulseRecords :
           PulseFrame(s, dt) = [s EXCEPT !.pulse = p,
                                         !.job[Pulse] = IF p = Flat THEN 0 ELSE @,
                                         !.alive = p # Flat]
<1> DEFINE Eq(f) == f = [k \in 0..dt |-> IF k = 0 THEN s.pulse ELSE Sampled(f[k - 1])]
           after == CHOOSE f : Eq(f)
           step == [q \in (1..dt) \X PulseRecords |-> Sampled(q[2])]
<1>1. s.pulse \in PulseRecords
  BY Spelt
<1>2. \A p \in PulseRecords : Sampled(p) \in PulseRecords
  BY Sizes DEF Sampled, PulseRecords
<1>3. step \in [(1..dt) \X PulseRecords -> PulseRecords]
  BY <1>2
<1>4. \A k \in 1..dt : \A p \in PulseRecords : step[<<k, p>>] = Sampled(p)
  OBVIOUS
<1> HIDE DEF step
<1>5. PICK g : StepByStep(dt, PulseRecords, s.pulse, step, g)
  BY <1>1, <1>3, Recursion
<1>6. Eq(g)
  <2>1. g \in [0..dt -> PulseRecords] /\ g[0] = s.pulse
    BY <1>5 DEF StepByStep
  <2>2. ASSUME NEW k \in 1..dt PROVE g[k] = Sampled(g[k - 1])
    <3>1. k - 1 \in 0..dt
      OBVIOUS
    <3>2. g[k - 1] \in PulseRecords
      BY <2>1, <3>1
    <3> QED
      BY <1>4, <1>5, <3>2 DEF StepByStep
  <2>3. \A k \in 0..dt : k = 0 \/ k \in 1..dt
    OBVIOUS
  <2>4. \A k \in 0..dt : g[k] = IF k = 0 THEN s.pulse ELSE Sampled(g[k - 1])
    BY <2>1, <2>2, <2>3
  <2> QED
    BY <2>1, <2>4
<1>7. Eq(after)
  BY <1>6
<1>8. PulseFrame(s, dt) = [s EXCEPT !.pulse = after[dt],
                                    !.job[Pulse] = IF after[dt] = Flat THEN 0 ELSE @,
                                    !.alive = after[dt] # Flat]
  BY DEF PulseFrame
<1> HIDE DEF after
<1>9. \A k \in Nat : k <= dt => after[k] \in PulseRecords
  <2> DEFINE Good == {k \in Nat : k <= dt => after[k] \in PulseRecords}
  <2>1. 0 \in Good
    BY <1>1, <1>7
  <2>2. ASSUME NEW k \in Nat, k \in Good PROVE k + 1 \in Good
    <3>1. ASSUME k + 1 <= dt PROVE after[k + 1] \in PulseRecords
      <4>1. k + 1 \in 0..dt /\ k + 1 # 0 /\ (k + 1) - 1 = k /\ k <= dt
        BY <3>1
      <4>2. after[k + 1] = Sampled(after[k])
        BY <1>7, <4>1
      <4> QED
        BY <1>2, <2>2, <4>1, <4>2
    <3> QED
      BY <3>1
  <2> HIDE DEF Good
  <2>3. \A k \in Nat : k \in Good
    BY <2>1, <2>2, Induct
  <2> QED
    BY <2>3 DEF Good
<1>10. after[dt] \in PulseRecords
  BY <1>9
<1> QED
  BY <1>8, <1>10

(* A lane's frame in terms of these.                                       *)
Sent(s, ln, dt) == IF Due(Later(ln, dt)) > 0 THEN Blip(s) ELSE s

FramedIn(sent, l, ln, dt) ==
  [sent EXCEPT !.lane[l] = Rested(ln, dt),
               !.job[l] = IF HasEnded(Framed(ln, dt)) THEN 0 ELSE @,
               !.alive = ~HasEnded(Framed(ln, dt)),
               !.tally[l].through = @ + Taken(Flown(ln, dt)) - Taken(ln.dots)]

LEMMA LaneFrameIs ==
  ASSUME NEW s \in Moments, NEW l \in Lanes, NEW dt \in Nat
  PROVE  LaneFrame(s, l, dt) = FramedIn(Sent(s, s.lane[l], dt), l, s.lane[l], dt)
<1> DEFINE ln == s.lane[l]
           timed == Later(ln, dt)
           sent == IF Due(timed) > 0 THEN Blip(s) ELSE s
           Shown(dots) == LET after == Stepped(timed, dots, dt) IN
             [sent EXCEPT !.lane[l] = IF PlayedOut(after) THEN AtRest(after) ELSE after,
                          !.job[l] = IF HasEnded(after) THEN 0 ELSE @,
                          !.alive = ~HasEnded(after),
                          !.tally[l].through = @ + Taken(dots) - Taken(timed.dots)]
<1>1. ln \in LaneRecords
  BY Spelt
<1>2. timed.dots = ln.dots
  BY <1>1, FramedIsLane
<1>3. LaneFrame(s, l, dt) = Given(Given(Emitted(timed), LAMBDA aloft : Travelled(aloft, dt)), Shown)
  BY DEF LaneFrame
<1>4. Given(Emitted(timed), LAMBDA aloft : Travelled(aloft, dt)) = Flown(ln, dt)
  BY DEF Given, Flown, Aloft
<1>5. Given(Flown(ln, dt), Shown) = Shown(Flown(ln, dt))
  <2> HIDE DEF Shown
  <2> QED
    BY DEF Given
<1>6. LaneFrame(s, l, dt) = Shown(Flown(ln, dt))
  <2> HIDE DEF Shown, timed, ln
  <2> QED
    BY <1>3, <1>4, <1>5
<1>7. Stepped(timed, Flown(ln, dt), dt) = Framed(ln, dt)
  BY DEF Framed
<1> HIDE DEF ln
<1>8. Shown(Flown(ln, dt)) = FramedIn(sent, l, ln, dt)
  <2> HIDE DEF timed, sent
  <2> QED
    BY <1>2, <1>7 DEF Rested, FramedIn
<1>9. sent = Sent(s, ln, dt)
  BY DEF Sent
<1> HIDE DEF sent, Shown
<1> QED
  BY <1>6, <1>8, <1>9 DEF ln

(* A verdict may have played out in the lane; else it is as it was.        *)
Plays(s, r, l) ==
  /\ r.lane[l].total = s.lane[l].total /\ r.lane[l].verdict = s.lane[l].verdict
  /\ \/ r.lane[l].rest = s.lane[l].rest /\ (r.job[l] = 0 <=> s.job[l] = 0)
     \/ /\ s.job[l] # 0 /\ r.job[l] = 0
        /\ s.lane[l].verdict # None /\ r.lane[l].rest = s.lane[l].verdict

(* A frame of w, before its job is dropped: the trace may have got a job,  *)
(* and w may have given up its own.                                        *)
Frames(s, t, w, known) ==
  /\ t \in Moments /\ AtEase(t, known) /\ (\A l \in Lanes : Plays(s, t, l))
  /\ \E u \in Moments :
       /\ Owned(u.jobs, u.job) /\ t.jobs = u.jobs
       /\ t.job = [u.job EXCEPT ![w] = IF t.alive THEN @ ELSE 0]
       /\ \A v \in Widgets : v # Pulse \/ s.job[v] # 0 => u.job[v] = s.job[v]

LEMMA PulseFrames ==
  ASSUME NEW s \in Moments, NEW dt \in Nat, NEW known, Steady(s, known), s.job[Pulse] # 0
  PROVE  Frames(s, PulseFrame(s, dt), Pulse, known)
<1>1. PICK p \in PulseRecords :
           PulseFrame(s, dt) = [s EXCEPT !.pulse = p,
                                         !.job[Pulse] = IF p = Flat THEN 0 ELSE @,
                                         !.alive = p # Flat]
  BY PulseFrameIs
<1> DEFINE t == PulseFrame(s, dt)
           live == p # Flat
           job2 == [s.job EXCEPT ![Pulse] = IF live THEN @ ELSE 0]
<1>2. t = [s EXCEPT !.pulse = p, !.job = job2, !.alive = live]
  BY <1>1 DEF Moments
<1>3. s.job \in [Widgets -> Nat] /\ live \in BOOLEAN
  BY Spelt
<1>4. job2 \in [Widgets -> Nat] /\ \A v \in Widgets : job2[v] = IF v = Pulse /\ ~live THEN 0 ELSE s.job[v]
  BY <1>3
<1>5. live <=> p # Flat
  OBVIOUS
<1> HIDE DEF t, live, job2
<1>6. t = [jobs |-> s.jobs, timer |-> s.timer, job |-> job2, lane |-> s.lane, pulse |-> p,
           pill |-> s.pill, tally |-> s.tally, alive |-> live]
  BY <1>2 DEF Moments
<1>7. /\ t.jobs = s.jobs /\ t.job = job2 /\ t.lane = s.lane /\ t.pulse = p /\ t.pill = s.pill
      /\ t.tally = s.tally /\ t.alive = live
  BY <1>6
<1>8. t \in Moments
  BY <1>3, <1>4, <1>6, Spelt DEF Moments
<1>9. AtEase(s, known) /\ Owned(s.jobs, s.job)
  BY DEF Steady
<1>10. AtEase(t, known)
  <2>1. \A l \in Lanes : LaneInv(t.lane[l], t.job[l], known[l], t.tally[l])
    BY <1>4, <1>7, <1>9, NamesApart DEF AtEase
  <2>2. t.job[Pulse] = 0 => t.pulse = Flat
    BY <1>4, <1>5, <1>7, <1>9, NamesApart DEF AtEase
  <2>3. \A q \in Pills : t.job[q] = 0 => t.pill[q].glow = t.pill[q].target
    BY <1>4, <1>7, <1>9, NamesApart DEF AtEase
  <2> QED
    BY <2>1, <2>2, <2>3 DEF AtEase
<1>11. \A l \in Lanes : Plays(s, t, l)
  BY <1>4, <1>7, NamesApart DEF Plays
<1>12. t.job = [s.job EXCEPT ![Pulse] = IF t.alive THEN @ ELSE 0]
  BY <1>7 DEF job2
<1> QED
  BY <1>7, <1>8, <1>9, <1>10, <1>11, <1>12 DEF Frames, t

LEMMA PillFrames ==
  ASSUME NEW s \in Moments, NEW p \in Pills, NEW dt \in Nat, NEW known, Steady(s, known)
  PROVE  Frames(s, PillFrame(s, p, dt), p, known)
<1> DEFINE t == PillFrame(s, p, dt)
           b == s.pill[p]
           live == ~(b.glow = b.target /\ b.press = 0)
           c == [b EXCEPT !.glow = Approach(b.glow, b.target, dt), !.press = Larger(0, b.press - dt)]
           pill2 == [s.pill EXCEPT ![p] = c]
           job2 == [s.job EXCEPT ![p] = IF live THEN @ ELSE 0]
<1>1. /\ s.pill \in [Pills -> PillRecords] /\ s.job \in [Widgets -> Nat] /\ live \in BOOLEAN
      /\ b \in PillRecords /\ p \in Widgets
  BY Spelt, NamesApart
<1>2. t = [s EXCEPT !.pill = pill2, !.job = job2, !.alive = live]
  BY <1>1 DEF PillFrame, Moments
<1>3. /\ job2 \in [Widgets -> Nat]
      /\ \A v \in Widgets : job2[v] = IF v = p /\ ~live THEN 0 ELSE s.job[v]
  BY <1>1
<1>4. b.glow \in Nat /\ b.target \in Nat /\ b.press \in Nat
  BY <1>1 DEF PillRecords
<1>5. ~live => b.glow = b.target
  OBVIOUS
<1> HIDE DEF t, live, job2, b
<1>6. Approach(b.glow, b.target, dt) \in Nat /\ Larger(0, b.press - dt) \in Nat
  BY <1>4 DEF Approach, Smaller, Larger
<1>7. b.glow = b.target => Approach(b.glow, b.target, dt) = b.target
  BY <1>4 DEF Approach, Larger
<1>8. c \in PillRecords /\ c.glow = Approach(b.glow, b.target, dt) /\ c.target = b.target
  BY <1>1, <1>6 DEF PillRecords
<1> HIDE DEF c
<1>9. /\ pill2 \in [Pills -> PillRecords]
      /\ \A q \in Pills : pill2[q] = IF q = p THEN c ELSE s.pill[q]
  BY <1>1, <1>8
<1> HIDE DEF pill2
<1>10. t = [jobs |-> s.jobs, timer |-> s.timer, job |-> job2, lane |-> s.lane, pulse |-> s.pulse,
            pill |-> pill2, tally |-> s.tally, alive |-> live]
  BY <1>2 DEF Moments
<1>11. /\ t.jobs = s.jobs /\ t.job = job2 /\ t.lane = s.lane /\ t.pulse = s.pulse
       /\ t.pill = pill2 /\ t.tally = s.tally /\ t.alive = live
  BY <1>10
<1>12. t \in Moments
  BY <1>1, <1>3, <1>9, <1>10, Spelt DEF Moments
<1>13. AtEase(s, known) /\ Owned(s.jobs, s.job)
  BY DEF Steady
<1>14. AtEase(t, known)
  <2>1. \A l \in Lanes : LaneInv(t.lane[l], t.job[l], known[l], t.tally[l])
    BY <1>3, <1>11, <1>13, NamesApart DEF AtEase
  <2>2. t.job[Pulse] = 0 => t.pulse = Flat
    BY <1>3, <1>11, <1>13, NamesApart DEF AtEase
  <2>3. ASSUME NEW q \in Pills, t.job[q] = 0 PROVE t.pill[q].glow = t.pill[q].target
    <3>1. CASE q # p
      BY <1>3, <1>9, <1>11, <1>13, <2>3, <3>1, NamesApart DEF AtEase
    <3>2. CASE q = p /\ ~live
      BY <1>5, <1>7, <1>8, <1>9, <1>11, <3>2
    <3>3. CASE q = p /\ live
      <4>1. s.job[p] = 0
        BY <1>1, <1>3, <1>11, <2>3, <3>3
      <4>2. b.glow = b.target
        BY <1>13, <4>1 DEF AtEase, b
      <4> QED
        BY <1>7, <1>8, <1>9, <1>11, <3>3, <4>2
    <3> QED
      BY <1>1, <3>1, <3>2, <3>3
  <2> QED
    BY <2>1, <2>2, <2>3 DEF AtEase
<1>15. \A l \in Lanes : Plays(s, t, l)
  <2>1. \A l \in Lanes : l # p /\ l \in Widgets
    BY NamesApart
  <2> QED
    BY <1>3, <1>11, <2>1 DEF Plays
<1>16. t.job = [s.job EXCEPT ![p] = IF t.alive THEN @ ELSE 0]
  BY <1>11 DEF job2
<1> QED
  BY <1>11, <1>12, <1>13, <1>14, <1>15, <1>16 DEF Frames, t

LEMMA LaneFrames ==
  ASSUME NEW s \in Moments, NEW l \in Lanes, NEW dt \in Nat, NEW known, Steady(s, known),
         s.job[l] # 0
  PROVE  Frames(s, LaneFrame(s, l, dt), l, known)
<1> DEFINE t == LaneFrame(s, l, dt)
           ln == s.lane[l]
           u == Sent(s, ln, dt)
           live == ~HasEnded(Framed(ln, dt))
           lane2 == [s.lane EXCEPT ![l] = Rested(ln, dt)]
           tally2 == [s.tally EXCEPT ![l] = Through(ln, s.tally[l], dt)]
           job2 == [u.job EXCEPT ![l] = IF live THEN @ ELSE 0]
<1>1. /\ s.lane \in [Lanes -> LaneRecords] /\ s.tally \in [Lanes -> Tallies]
      /\ ln \in LaneRecords /\ s.tally[l] \in Tallies /\ l \in Widgets /\ s.job \in [Widgets -> Nat]
  BY Spelt, NamesApart
<1>2. Owned(s.jobs, s.job) /\ AtEase(s, known)
  BY DEF Steady
<1>3. /\ u \in Moments /\ Owned(u.jobs, u.job) /\ u.lane = s.lane /\ u.tally = s.tally
      /\ u.pill = s.pill /\ u.alive = s.alive
      /\ \A v \in Widgets : v # Pulse \/ s.job[v] # 0 => u.job[v] = s.job[v]
      /\ u.job[Pulse] = 0 => u.pulse = Flat
  <2>1. Beats(s, Blip(s))
    BY <1>2, BlipBeats
  <2>2. CASE Due(Later(ln, dt)) > 0
    BY <2>1, <2>2 DEF Beats, Sent
  <2>3. CASE ~(Due(Later(ln, dt)) > 0)
    BY <1>2, <2>3 DEF AtEase, Sent
  <2> QED
    BY <2>2, <2>3
<1>4. t = FramedIn(u, l, ln, dt)
  BY LaneFrameIs
<1> HIDE DEF u, t, ln
<1>5. t = [u EXCEPT !.lane = lane2, !.job = job2, !.alive = live, !.tally = tally2]
  <2>1. live <=> ~HasEnded(Framed(ln, dt))
    OBVIOUS
  <2>2. job2 = [u.job EXCEPT ![l] = IF HasEnded(Framed(ln, dt)) THEN 0 ELSE @]
    OBVIOUS
  <2>3. tally2 = [s.tally EXCEPT ![l].through = @ + Taken(Flown(ln, dt)) - Taken(ln.dots)]
    BY <1>1 DEF Through
  <2>4. t = [u EXCEPT !.lane = [u.lane EXCEPT ![l] = Rested(ln, dt)],
                      !.job = [u.job EXCEPT ![l] = IF HasEnded(Framed(ln, dt)) THEN 0 ELSE @],
                      !.alive = ~HasEnded(Framed(ln, dt)),
                      !.tally = [u.tally EXCEPT ![l].through =
                                   @ + Taken(Flown(ln, dt)) - Taken(ln.dots)]]
    BY <1>3, <1>4 DEF Moments, FramedIn
  <2> QED
    BY <1>3, <2>2, <2>3, <2>4
<1>6. live \in BOOLEAN /\ u.job \in [Widgets -> Nat]
  BY <1>3, Spelt
<1>7. /\ job2 \in [Widgets -> Nat]
      /\ \A v \in Widgets : job2[v] = IF v = l /\ ~live THEN 0 ELSE u.job[v]
  BY <1>1, <1>6
<1>8. /\ lane2 \in [Lanes -> LaneRecords]
      /\ \A m \in Lanes : lane2[m] = IF m = l THEN Rested(ln, dt) ELSE s.lane[m]
  BY <1>1, RestedIsLane
<1>9. /\ tally2 \in [Lanes -> Tallies]
      /\ \A m \in Lanes : tally2[m] = IF m = l THEN Through(ln, s.tally[l], dt) ELSE s.tally[m]
  BY <1>1, ThroughIsTally
<1>10. live <=> ~HasEnded(Framed(ln, dt))
  OBVIOUS
<1> HIDE DEF live, job2, lane2, tally2
<1>11. t = [jobs |-> u.jobs, timer |-> u.timer, job |-> job2, lane |-> lane2, pulse |-> u.pulse,
            pill |-> u.pill, tally |-> tally2, alive |-> live]
  BY <1>3, <1>5 DEF Moments
<1>12. /\ t.jobs = u.jobs /\ t.job = job2 /\ t.lane = lane2 /\ t.pulse = u.pulse
       /\ t.pill = s.pill /\ t.tally = tally2 /\ t.alive = live
  BY <1>3, <1>11
<1>13. t \in Moments
  BY <1>3, <1>6, <1>7, <1>8, <1>9, <1>11, Spelt DEF Moments
<1>14. /\ s.job[l] \in Nat \ {0} /\ u.job[l] = s.job[l]
       /\ LaneInv(ln, s.job[l], known[l], s.tally[l])
  BY <1>1, <1>2, <1>3, NamesApart DEF AtEase, ln
<1>15. /\ LaneInv(Rested(ln, dt), IF HasEnded(Framed(ln, dt)) THEN 0 ELSE s.job[l], known[l],
                  Through(ln, s.tally[l], dt))
       /\ HasEnded(Framed(ln, dt)) => ln.verdict # None /\ Rested(ln, dt).rest = ln.verdict
       /\ ~HasEnded(Framed(ln, dt)) => Rested(ln, dt).rest = ln.rest
  BY <1>1, <1>14, FramedLaneInv
<1>16. AtEase(t, known)
  <2>1. ASSUME NEW m \in Lanes PROVE LaneInv(t.lane[m], t.job[m], known[m], t.tally[m])
    <3>1. CASE m = l
      <4>1. t.job[l] = IF HasEnded(Framed(ln, dt)) THEN 0 ELSE s.job[l]
        BY <1>1, <1>7, <1>10, <1>12, <1>14
      <4>2. t.lane[l] = Rested(ln, dt) /\ t.tally[l] = Through(ln, s.tally[l], dt)
        BY <1>8, <1>9, <1>12
      <4> QED
        BY <1>15, <3>1, <4>1, <4>2
    <3>2. CASE m # l
      <4>1. m \in Widgets /\ m # Pulse
        BY NamesApart
      <4>2. t.job[m] = s.job[m] /\ t.lane[m] = s.lane[m] /\ t.tally[m] = s.tally[m]
        BY <1>3, <1>7, <1>8, <1>9, <1>12, <3>2, <4>1
      <4> QED
        BY <1>2, <4>2 DEF AtEase
    <3> QED
      BY <3>1, <3>2
  <2>2. t.job[Pulse] = 0 => t.pulse = Flat
    BY <1>3, <1>7, <1>12, NamesApart
  <2>3. ASSUME NEW q \in Pills, t.job[q] = 0 PROVE t.pill[q].glow = t.pill[q].target
    <3>1. q \in Widgets /\ q # Pulse /\ q # l
      BY NamesApart
    <3>2. s.job[q] = 0
      BY <1>3, <1>7, <1>12, <2>3, <3>1
    <3> QED
      BY <1>2, <1>12, <3>2 DEF AtEase
  <2> QED
    BY <2>1, <2>2, <2>3 DEF AtEase
<1>17. ASSUME NEW m \in Lanes PROVE Plays(s, t, m)
  <2>1. CASE m = l
    <3>1. t.lane[l] = Rested(ln, dt) /\ t.job[l] = IF HasEnded(Framed(ln, dt)) THEN 0 ELSE s.job[l]
      BY <1>1, <1>7, <1>8, <1>10, <1>12, <1>14
    <3>2. Rested(ln, dt).total = ln.total /\ Rested(ln, dt).verdict = ln.verdict
      BY <1>1, RestedIsLane
    <3> QED
      BY <1>14, <1>15, <2>1, <3>1, <3>2 DEF Plays, ln
  <2>2. CASE m # l
    <3>1. m \in Widgets /\ m # Pulse
      BY NamesApart
    <3> QED
      BY <1>3, <1>7, <1>8, <1>12, <2>2, <3>1 DEF Plays
  <2> QED
    BY <2>1, <2>2
<1>18. t.job = [u.job EXCEPT ![l] = IF t.alive THEN @ ELSE 0]
  BY <1>12 DEF job2
<1> QED
  BY <1>3, <1>12, <1>13, <1>16, <1>17, <1>18 DEF Frames, t

LEMMA FrameFrames ==
  ASSUME NEW s \in Moments, NEW w \in Widgets, NEW dt \in Nat, NEW known, Steady(s, known),
         s.job[w] # 0
  PROVE  Frames(s, Frame(s, w, dt), w, known)
<1>1. CASE w = Pulse
  BY <1>1, PulseFrames DEF Frame
<1>2. CASE w \in Lanes
  BY <1>2, NamesApart, LaneFrames DEF Frame
<1>3. CASE w \in Pills
  <2>1. w # Pulse /\ w \notin Lanes
    BY <1>3, NamesApart
  <2> QED
    BY <1>3, <2>1, PillFrames DEF Frame
<1> QED
  BY <1>1, <1>2, <1>3 DEF Widgets

(* The run of w's job: what is left is owned again, and the other jobs     *)
(* that were held are held still.                                          *)
Runs(s, r, w, known) ==
  /\ r \in Moments /\ r.alive = TRUE /\ Steady(r, known)
  /\ \A l \in Lanes : Plays(s, r, l)
  /\ \A v \in Widgets : v # w /\ s.job[v] # 0 => r.job[v] = s.job[v]

LEMMA RunJobRuns ==
  ASSUME NEW s \in Moments, s.alive = TRUE, NEW known, Steady(s, known), NEW dt \in Nat,
         NEW j \in Jobs, s.job[j.of] = j.id
  PROVE  Runs(s, RunJob(s, j, dt), j.of, known)
<1> DEFINE w == j.of
           t == Frame(s, w, dt)
           r == [t EXCEPT !.jobs = Dropped(@, {j.id}), !.alive = TRUE]
<1>1. w \in Widgets /\ s.job[w] # 0
  BY DEF Jobs
<1>2. RunJob(s, j, dt) = IF IsAmbient(j) /\ ~ambient THEN s ELSE IF t.alive THEN t ELSE r
  BY DEF RunJob, Given
<1>3. Frames(s, t, w, known)
  BY <1>1, FrameFrames
<1> HIDE DEF w, t
<1>4. PICK u \in Moments :
         /\ Owned(u.jobs, u.job) /\ t.jobs = u.jobs
         /\ t.job = [u.job EXCEPT ![w] = IF t.alive THEN @ ELSE 0]
         /\ \A v \in Widgets : v # Pulse \/ s.job[v] # 0 => u.job[v] = s.job[v]
  BY <1>3 DEF Frames
<1>5. t \in Moments /\ AtEase(t, known) /\ (\A l \in Lanes : Plays(s, t, l)) /\ t.alive \in BOOLEAN
  BY <1>3, Spelt DEF Frames
<1>6. u.jobs \in Seq(Jobs) /\ u.job \in [Widgets -> Nat] /\ u.job[w] = j.id
  BY <1>1, <1>4, Spelt DEF w
<1>7. \A v \in Widgets : v # w /\ s.job[v] # 0 => t.job[v] = s.job[v]
  BY <1>4, <1>6
<1>8. CASE IsAmbient(j) /\ ~ambient
  <2>1. Runs(s, s, w, known)
    BY DEF Runs, Plays
  <2> QED
    BY <1>2, <1>8, <2>1 DEF w
<1>9. CASE t.alive = TRUE
  <2>1. t.job = u.job
    BY <1>1, <1>4, <1>6, <1>9
  <2>2. Runs(s, t, w, known)
    BY <1>4, <1>5, <1>7, <1>9, <2>1 DEF Runs, Steady
  <2>3. RunJob(s, j, dt) = s \/ RunJob(s, j, dt) = t
    BY <1>2, <1>9
  <2> QED
    BY <1>2, <1>8, <1>9, <2>2 DEF w
<1>10. CASE t.alive = FALSE
  <2> DEFINE W == {w}
             gone == Dropped(u.jobs, {j.id})
             held == GivenUp(u.job, W)
  <2>1. HeldBy(u.job, W) = {j.id} /\ W \subseteq Widgets
    BY <1>1, <1>6 DEF HeldBy
  <2>2. t.job = held
    BY <1>1, <1>4, <1>6, <1>10 DEF GivenUp
  <2> HIDE DEF W
  <2>3. gone \in Seq(Jobs) /\ Owned(gone, held)
    <3>1. /\ Dropped(u.jobs, HeldBy(u.job, W)) \in Seq(Jobs)
          /\ Owned(Dropped(u.jobs, HeldBy(u.job, W)), GivenUp(u.job, W))
      BY <1>4, <1>6, <2>1, DroppedKeepsOthers
    <3> QED
      BY <2>1, <3>1
  <2> HIDE DEF gone, held
  <2>4. r = [t EXCEPT !.jobs = gone, !.alive = TRUE]
    BY <1>4 DEF gone
  <2> HIDE DEF r
  <2>5. /\ r \in Moments /\ r.jobs = gone /\ r.alive = TRUE /\ r.job = t.job /\ r.lane = t.lane
        /\ r.pulse = t.pulse /\ r.pill = t.pill /\ r.tally = t.tally
    BY <1>5, <2>3, <2>4 DEF Moments
  <2>6. AtEase(r, known)
    BY <1>5, <2>5 DEF AtEase
  <2>7. Runs(s, r, w, known)
    BY <1>5, <1>7, <2>2, <2>3, <2>5, <2>6 DEF Runs, Steady, Plays
  <2> QED
    BY <1>2, <1>8, <1>10, <2>7 DEF w
<1> QED
  BY <1>5, <1>9, <1>10

(* Between two frames of a tick: the jobs still to be run are held.        *)
Midway(n, t) ==
  /\ t \in Moments /\ t.alive = TRUE /\ Steady(t, seen)
  /\ \A l \in Lanes : Plays(Now, t, l)
  /\ \A k \in DOMAIN jobs : k > n => t.job[jobs[k].of] = jobs[k].id

LEMMA MidwayNext ==
  ASSUME TypeInv, NEW n \in Nat, n + 1 \in DOMAIN jobs, NEW t, Midway(n, t), NEW dt \in Nat,
         Owned(jobs, job)
  PROVE  Midway(n + 1, RunJob(t, jobs[n + 1], dt))
<1> DEFINE j == jobs[n + 1]
           r == RunJob(t, j, dt)
<1>1. jobs \in Seq(Jobs)
  BY DEF TypeInv, Moments, Now
<1>2. j \in Jobs /\ j.of \in Widgets /\ j.id \in Nat \ {0}
  <2>1. j \in Jobs
    BY <1>1
  <2> QED
    BY <2>1 DEF Jobs
<1>3. t.job[j.of] = j.id
  BY DEF Midway
<1>4. Runs(t, r, j.of, seen)
  BY <1>2, <1>3, RunJobRuns DEF Midway
<1> HIDE DEF r
<1>5. ASSUME NEW k \in DOMAIN jobs, k > n + 1 PROVE r.job[jobs[k].of] = jobs[k].id
  <2>1. k \in Nat /\ k > n /\ k # n + 1
    BY <1>1, <1>5
  <2>2. jobs[k].of # j.of
    BY <1>5, <2>1 DEF Owned
  <2>3. jobs[k].of \in Widgets /\ jobs[k].id # 0
    <3>1. jobs[k] \in Jobs
      BY <1>1, <1>5
    <3> QED
      BY <3>1 DEF Jobs
  <2>4. t.job[jobs[k].of] = jobs[k].id
    BY <1>5, <2>1 DEF Midway
  <2> QED
    BY <1>4, <2>2, <2>3, <2>4 DEF Runs
<1>6. ASSUME NEW l \in Lanes PROVE Plays(Now, r, l)
  <2>1. Plays(Now, t, l) /\ Plays(t, r, l)
    BY <1>4, <1>6 DEF Midway, Runs
  <2> QED
    BY <2>1 DEF Plays
<1>7. Midway(n + 1, r)
  BY <1>4, <1>5, <1>6 DEF Midway, Runs
<1> QED
  BY <1>7 DEF r

LEMMA TickedIsSteady ==
  ASSUME TypeInv, Steady(Now, seen), NEW dt \in Nat
  PROVE  Midway(Len(jobs), Ticked(dt))
<1> DEFINE L == Len(jobs)
           Eq(f) == f = [n \in 0..L |-> IF n = 0 THEN Now
                                        ELSE Given(f[n - 1], LAMBDA now : RunJob(now, jobs[n], dt))]
           upto == CHOOSE f : Eq(f)
           step == [q \in (1..L) \X Moments |->
                      IF RunJob(q[2], jobs[q[1]], dt) \in Moments THEN RunJob(q[2], jobs[q[1]], dt)
                      ELSE q[2]]
<1>1. jobs \in Seq(Jobs) /\ Now \in Moments /\ Now.jobs = jobs /\ Now.job = job /\ Now.alive = TRUE
  BY DEF TypeInv, Moments, Now
<1>2. L \in Nat /\ DOMAIN jobs = 1..L /\ Owned(jobs, job)
  BY <1>1 DEF Steady
<1>3. Ticked(dt) = upto[L]
  BY DEF Ticked
<1> HIDE DEF L, upto
<1>4. step \in [(1..L) \X Moments -> Moments]
  OBVIOUS
<1>5. \A n \in 1..L : \A q \in Moments :
        step[<<n, q>>] = IF RunJob(q, jobs[n], dt) \in Moments THEN RunJob(q, jobs[n], dt) ELSE q
  OBVIOUS
<1> HIDE DEF step
<1>6. PICK g : StepByStep(L, Moments, Now, step, g)
  BY <1>1, <1>2, <1>4, Recursion
<1>7. Midway(0, Now)
  BY <1>1, <1>2 DEF Midway, Plays, Owned
<1>8. ASSUME NEW n \in Nat, n + 1 <= L, Midway(n, g[n])
      PROVE  /\ g[n + 1] = RunJob(g[n], jobs[n + 1], dt)
             /\ Midway(n + 1, g[n + 1])
  <2>1. n + 1 \in 1..L /\ (n + 1) - 1 = n /\ n + 1 \in DOMAIN jobs
    BY <1>2, <1>8
  <2>2. Midway(n + 1, RunJob(g[n], jobs[n + 1], dt))
    BY <1>2, <1>8, <2>1, MidwayNext
  <2>3. g[n] \in Moments /\ RunJob(g[n], jobs[n + 1], dt) \in Moments
    BY <1>8, <2>2 DEF Midway
  <2>4. g[n + 1] = step[<<n + 1, g[n]>>]
    BY <1>6, <2>1 DEF StepByStep
  <2>5. g[n + 1] = RunJob(g[n], jobs[n + 1], dt)
    BY <1>5, <2>1, <2>3, <2>4
  <2> QED
    BY <2>2, <2>5
<1>9. \A n \in Nat : n <= L => Midway(n, g[n])
  <2> DEFINE Good == {n \in Nat : n <= L => Midway(n, g[n])}
  <2>1. 0 \in Good
    BY <1>6, <1>7 DEF StepByStep
  <2>2. ASSUME NEW n \in Nat, n \in Good PROVE n + 1 \in Good
    <3>1. ASSUME n + 1 <= L PROVE Midway(n + 1, g[n + 1])
      <4>1. n <= L
        BY <1>2, <3>1
      <4> QED
        BY <1>8, <2>2, <3>1, <4>1
    <3> QED
      BY <3>1
  <2> HIDE DEF Good
  <2>3. \A n \in Nat : n \in Good
    BY <2>1, <2>2, Induct
  <2> QED
    BY <2>3 DEF Good
<1>10. Eq(g)
  <2>1. ASSUME NEW n \in 1..L
        PROVE  g[n] = Given(g[n - 1], LAMBDA now : RunJob(now, jobs[n], dt))
    <3>1. n - 1 \in Nat /\ (n - 1) + 1 = n /\ n - 1 <= L /\ n <= L
      BY <1>2
    <3>2. Midway(n - 1, g[n - 1])
      BY <1>9, <3>1
    <3>3. g[n] = RunJob(g[n - 1], jobs[n], dt)
      <4> DEFINE m == n - 1
      <4>1. m \in Nat /\ m + 1 = n /\ m + 1 <= L /\ Midway(m, g[m])
        BY <3>1, <3>2
      <4> HIDE DEF m
      <4>2. g[m + 1] = RunJob(g[m], jobs[m + 1], dt)
        BY <1>8, <4>1
      <4> QED
        BY <4>1, <4>2 DEF m
    <3>4. Given(g[n - 1], LAMBDA now : RunJob(now, jobs[n], dt)) = RunJob(g[n - 1], jobs[n], dt)
      BY DEF Given
    <3> QED
      BY <3>3, <3>4
  <2>2. \A n \in 0..L : n = 0 \/ n \in 1..L
    BY <1>2
  <2>3. g \in [0..L -> Moments] /\ g[0] = Now
    BY <1>6 DEF StepByStep
  <2>4. \A n \in 0..L : g[n] = IF n = 0 THEN Now
                               ELSE Given(g[n - 1], LAMBDA now : RunJob(now, jobs[n], dt))
    BY <2>1, <2>2, <2>3
  <2> QED
    BY <2>3, <2>4
<1>11. Eq(upto)
  BY <1>10 DEF upto
<1>12. ASSUME NEW n \in Nat, n + 1 <= L PROVE upto[n + 1] = RunJob(upto[n], jobs[n + 1], dt)
  <2>1. n + 1 \in 0..L /\ n + 1 # 0 /\ (n + 1) - 1 = n
    BY <1>2, <1>12
  <2>2. upto[n + 1] = Given(upto[(n + 1) - 1], LAMBDA now : RunJob(now, jobs[n + 1], dt))
    BY <1>11, <2>1
  <2>3. Given(upto[n], LAMBDA now : RunJob(now, jobs[n + 1], dt)) = RunJob(upto[n], jobs[n + 1], dt)
    BY DEF Given
  <2> QED
    BY <2>1, <2>2, <2>3
<1>13. upto[0] = Now
  BY <1>2, <1>11
<1> HIDE DEF Eq
<1>14. \A n \in Nat : n <= L => Midway(n, upto[n])
  <2> DEFINE Good == {n \in Nat : n <= L => Midway(n, upto[n])}
  <2>1. 0 \in Good
    BY <1>7, <1>13
  <2>2. ASSUME NEW n \in Nat, n \in Good PROVE n + 1 \in Good
    <3>1. ASSUME n + 1 <= L PROVE Midway(n + 1, upto[n + 1])
      <4>1. n <= L /\ n + 1 \in DOMAIN jobs
        BY <1>2, <3>1
      <4>2. Midway(n, upto[n])
        BY <2>2, <4>1
      <4> QED
        BY <1>2, <1>12, <3>1, <4>1, <4>2, MidwayNext
    <3> QED
      BY <3>1
  <2> HIDE DEF Good
  <2>3. \A n \in Nat : n \in Good
    BY <2>1, <2>2, Induct
  <2> QED
    BY <2>3 DEF Good
<1> QED
  BY <1>2, <1>3, <1>14 DEF L

-----------------------------------------------------------------------------
(* From one moment to the next.                                            *)

(* What may become of a lane in one step, seen from outside.               *)
Fired(r, l) ==
  r.lane[l].total > 0 /\ r.lane[l].verdict = None /\ r.lane[l].rest = None /\ r.job[l] # 0

Resolved(s, r, l) ==
  /\ r.lane[l].verdict \in States /\ r.lane[l].total = s.lane[l].total
  /\ r.lane[l].rest = IF s.lane[l].total > 0 THEN s.lane[l].rest ELSE r.lane[l].verdict
  /\ r.job[l] # 0 <=> s.lane[l].total > 0 \/ s.job[l] # 0

Cleared(r, l) == r.lane[l] = Clear /\ r.job[l] = 0

Advances(s, r, l) == Fired(r, l) \/ Resolved(s, r, l) \/ Cleared(r, l) \/ Plays(s, r, l)

Lives == [armed : BOOLEAN, verdict : Verdicts, rest : Verdicts, moving : BOOLEAN]

LEMMA LifeSpelt ==
  ASSUME NEW l \in Lanes
  PROVE  /\ Life(l)!Unfired = [armed |-> FALSE, verdict |-> None, rest |-> None, moving |-> FALSE]
         /\ Life(l)!LaneFired = [armed |-> TRUE, verdict |-> None, rest |-> None, moving |-> TRUE]
         /\ \A ln : Life(l)!LaneCleared(ln) = Life(l)!Unfired
         /\ \A ln \in Lives : \A state :
              Life(l)!LaneResolved(ln, state) =
                [armed |-> ln.armed, verdict |-> state,
                 rest |-> IF ln.armed THEN ln.rest ELSE state, moving |-> ln.armed \/ ln.moving]
         /\ \A ln \in Lives :
              /\ Life(l)!LaneAtRest(ln) =
                   [armed |-> ln.armed, verdict |-> ln.verdict, rest |-> ln.verdict, moving |-> FALSE]
              /\ Life(l)!PlaysOut(ln) <=> ln.moving /\ ln.verdict # None
<1>1. /\ Life(l)!Unfired = [armed |-> FALSE, verdict |-> None, rest |-> None, moving |-> FALSE]
      /\ \A ln : Life(l)!LaneCleared(ln) = Life(l)!Unfired
  BY DEF Life!Unfired, Life!LaneCleared
<1>2. Life(l)!LaneFired = [armed |-> TRUE, verdict |-> None, rest |-> None, moving |-> TRUE]
  <2> DEFINE u == Life(l)!Unfired
             yes == TRUE
             t == Life(l)!LaneFired
  <2>1. u \in Lives /\ u.verdict = None /\ u.rest = None
    BY <1>1 DEF Lives, Verdicts
  <2>2. t = [u EXCEPT !.armed = yes, !.moving = yes]
    BY DEF Life!LaneFired
  <2> HIDE DEF u, t, yes
  <2>3. t = [armed |-> yes, verdict |-> u.verdict, rest |-> u.rest, moving |-> yes]
    BY <2>1, <2>2 DEF Lives
  <2> QED
    BY <2>1, <2>3 DEF t, yes
<1>3. ASSUME NEW ln \in Lives, NEW state
      PROVE  Life(l)!LaneResolved(ln, state) =
               [armed |-> ln.armed, verdict |-> state,
                rest |-> IF ln.armed THEN ln.rest ELSE state, moving |-> ln.armed \/ ln.moving]
  <2> DEFINE rest == IF ln.armed THEN ln.rest ELSE state
             moving == ln.armed \/ ln.moving
             t == Life(l)!LaneResolved(ln, state)
  <2>1. t = [ln EXCEPT !.verdict = state, !.rest = rest, !.moving = moving]
    BY DEF Life!LaneResolved
  <2> HIDE DEF rest, moving, t
  <2>2. t = [armed |-> ln.armed, verdict |-> state, rest |-> rest, moving |-> moving]
    BY <2>1 DEF Lives
  <2> QED
    BY <2>2 DEF rest, moving, t
<1>4. ASSUME NEW ln \in Lives
      PROVE  Life(l)!LaneAtRest(ln) =
               [armed |-> ln.armed, verdict |-> ln.verdict, rest |-> ln.verdict, moving |-> FALSE]
  <2> DEFINE no == FALSE
             t == Life(l)!LaneAtRest(ln)
  <2>1. t = [ln EXCEPT !.rest = ln.verdict, !.moving = no]
    BY DEF Life!LaneAtRest
  <2> HIDE DEF t, no
  <2>2. t = [armed |-> ln.armed, verdict |-> ln.verdict, rest |-> ln.verdict, moving |-> no]
    BY <2>1 DEF Lives
  <2> QED
    BY <2>2 DEF t, no
<1>5. ASSUME NEW ln \in Lives
      PROVE  Life(l)!PlaysOut(ln) <=> ln.moving /\ ln.verdict # None
  BY DEF Life!PlaysOut, Lives
<1> QED
  BY <1>1, <1>2, <1>3, <1>4, <1>5

LEMMA AdvancesIsLife ==
  ASSUME NEW l \in Lanes, TypeInv, TypeInv', Advances(Now, Now', l)
  PROVE  Life(l)!Next \/ UNCHANGED LifeOf(l)
<1> DEFINE s == Now
           r == Now'
<1>1. /\ s.lane = lane /\ s.job = job /\ r.lane = lane' /\ r.job = job'
  BY DEF Now
<1>2. /\ LifeOf(l) = [armed |-> lane[l].total > 0, verdict |-> lane[l].verdict,
                      rest |-> lane[l].rest, moving |-> job[l] # 0]
      /\ LifeOf(l)' = [armed |-> lane'[l].total > 0, verdict |-> lane'[l].verdict,
                       rest |-> lane'[l].rest, moving |-> job'[l] # 0]
  BY DEF LifeOf
<1>7. LifeOf(l) \in Lives
  <2>1. lane[l] \in LaneRecords
    BY DEF TypeInv, Moments, Now
  <2>2. lane[l].verdict \in Verdicts /\ lane[l].rest \in Verdicts
    BY <2>1 DEF LaneRecords
  <2> QED
    BY <1>2, <2>2 DEF Lives
<1>8. /\ LifeOf(l).armed = (lane[l].total > 0) /\ LifeOf(l).verdict = lane[l].verdict
      /\ LifeOf(l).rest = lane[l].rest /\ LifeOf(l).moving = (job[l] # 0)
  BY <1>2
<1>3. CASE Fired(r, l)
  <2>1. LifeOf(l)' = Life(l)!LaneFired
    BY <1>1, <1>2, <1>3, LifeSpelt DEF Fired
  <2> QED
    BY <2>1 DEF Life!Next
<1>4. CASE Resolved(s, r, l)
  <2> DEFINE state == lane'[l].verdict
  <2>1. state \in States
    BY <1>1, <1>4 DEF Resolved
  <2>2. Life(l)!LaneResolved(LifeOf(l), state) =
          [armed |-> LifeOf(l).armed, verdict |-> state,
           rest |-> IF LifeOf(l).armed THEN LifeOf(l).rest ELSE state,
           moving |-> LifeOf(l).armed \/ LifeOf(l).moving]
    BY <1>7, LifeSpelt
  <2>3. /\ (lane'[l].total > 0) = LifeOf(l).armed
        /\ lane'[l].rest = IF LifeOf(l).armed THEN LifeOf(l).rest ELSE state
        /\ (job'[l] # 0) = (LifeOf(l).armed \/ LifeOf(l).moving)
    BY <1>1, <1>4, <1>8 DEF Resolved
  <2>4. LifeOf(l)' = Life(l)!LaneResolved(LifeOf(l), state)
    BY <1>2, <2>2, <2>3
  <2> QED
    BY <2>1, <2>4 DEF Life!Next
<1>5. CASE Cleared(r, l)
  <2>1. LifeOf(l)' = Life(l)!Unfired
    <3>1. lane'[l].total = 0 /\ lane'[l].verdict = None /\ lane'[l].rest = None /\ job'[l] = 0
      BY <1>1, <1>5 DEF Cleared, Clear
    <3>2. (lane'[l].total > 0) = FALSE /\ (job'[l] # 0) = FALSE
      BY <3>1
    <3> QED
      BY <1>2, <3>1, <3>2, LifeSpelt
  <2>2. LifeOf(l)' = Life(l)!LaneCleared(LifeOf(l))
    BY <2>1, LifeSpelt
  <2> QED
    BY <2>2 DEF Life!Next
<1>6. CASE Plays(s, r, l)
  <2>1. CASE r.lane[l].rest = s.lane[l].rest /\ (r.job[l] = 0 <=> s.job[l] = 0)
    BY <1>1, <1>2, <1>6, <2>1 DEF Plays
  <2>2. CASE s.job[l] # 0 /\ r.job[l] = 0
             /\ s.lane[l].verdict # None /\ r.lane[l].rest = s.lane[l].verdict
    <3>1. Life(l)!PlaysOut(LifeOf(l))
      BY <1>1, <1>7, <1>8, <2>2, LifeSpelt
    <3>2. Life(l)!LaneAtRest(LifeOf(l)) =
            [armed |-> LifeOf(l).armed, verdict |-> LifeOf(l).verdict,
             rest |-> LifeOf(l).verdict, moving |-> FALSE]
      BY <1>7, LifeSpelt
    <3>3. /\ (lane'[l].total > 0) = LifeOf(l).armed /\ lane'[l].verdict = LifeOf(l).verdict
          /\ lane'[l].rest = LifeOf(l).verdict /\ (job'[l] # 0) = FALSE
      BY <1>1, <1>6, <1>8, <2>2 DEF Plays
    <3>4. LifeOf(l)' = Life(l)!LaneAtRest(LifeOf(l))
      BY <1>2, <3>2, <3>3
    <3> QED
      BY <3>1, <3>4 DEF Life!Next
  <2> QED
    BY <1>6, <2>1, <2>2 DEF Plays
<1> QED
  BY <1>3, <1>4, <1>5, <1>6 DEF Advances


-----------------------------------------------------------------------------
(* The actions.                                                            *)

Kept == IInv' /\ \A l \in Lanes : Advances(Now, Now', l)

LEMMA NowIs ==
  ASSUME IInv
  PROVE  /\ Now \in Moments /\ Now.alive = TRUE /\ Steady(Now, seen) /\ Armed(Now)
         /\ Owned(jobs, job) /\ AtEase(Now, seen)
         /\ Now.jobs = jobs /\ Now.timer = timer /\ Now.job = job /\ Now.lane = lane
         /\ Now.pulse = pulse /\ Now.pill = pill /\ Now.tally = tally
BY DEF IInv, TypeInv, Steady, Now

LEMMA BecomesIs ==
  ASSUME NEW s \in Moments, s.alive = TRUE, Becomes(s)
  PROVE  Now' = s
<1>1. s = [jobs |-> s.jobs, timer |-> s.timer, job |-> s.job, lane |-> s.lane, pulse |-> s.pulse,
           pill |-> s.pill, tally |-> s.tally, alive |-> s.alive]
  BY DEF Moments
<1>2. Now' = [jobs |-> jobs', timer |-> timer', job |-> job', lane |-> lane', pulse |-> pulse',
              pill |-> pill', tally |-> tally', alive |-> TRUE]
  BY DEF Now
<1> QED
  BY <1>1, <1>2 DEF Becomes

(* What is left to show of an action once its outcome is known.            *)
LEMMA KeptWhen ==
  ASSUME NEW r \in Moments, Now' = r, Steady(r, seen'), Armed(r),
         \A l \in Lanes : Advances(Now, r, l),
         ambient' \in BOOLEAN, focus' \in [here : BOOLEAN, check : BOOLEAN],
         awaited' \in [Lanes -> Nat], seen' \in [Lanes -> SUBSET States], gestures' \in Nat
  PROVE  Kept
<1>1. TypeInv'
  BY DEF TypeInv
<1>2. Steady(Now', seen') /\ Armed(Now')
  OBVIOUS
<1>3. \A l \in Lanes : Advances(Now, Now', l)
  OBVIOUS
<1> QED
  BY <1>1, <1>2, <1>3 DEF Kept, IInv

LEMMA AsBefore ==
  ASSUME NEW s, NEW r, NEW l,
         r.lane[l] = s.lane[l], r.job[l] = s.job[l]
  PROVE  Advances(s, r, l)
BY DEF Advances, Plays

LEMMA TickKeeps == ASSUME IInv, Tick PROVE Kept
<1>1. PICK dt \in 1..MaxStep :
        Becomes([Ticked(dt) EXCEPT !.timer = NextDelay(Ticked(dt).jobs)])
  BY DEF Tick
<1> DEFINE a == Ticked(dt)
           delay == NextDelay(a.jobs)
           r == [a EXCEPT !.timer = delay]
<1>2. TypeInv /\ Steady(Now, seen) /\ dt \in Nat
  BY Sizes DEF IInv
<1>3. Midway(Len(jobs), a)
  BY <1>2, TickedIsSteady
<1>4. Becomes(r)
  BY <1>1
<1> HIDE DEF a
<1>5. delay \in Nat /\ (a.jobs # <<>> => delay # 0)
  BY DEF NextDelay
<1>6. a \in Moments /\ a.alive = TRUE /\ Steady(a, seen) /\ \A l \in Lanes : Plays(Now, a, l)
  BY <1>3 DEF Midway
<1> HIDE DEF delay, r
<1>7. r = [jobs |-> a.jobs, timer |-> delay, job |-> a.job, lane |-> a.lane, pulse |-> a.pulse,
           pill |-> a.pill, tally |-> a.tally, alive |-> a.alive]
  BY <1>6 DEF r, Moments
<1>8. /\ r.jobs = a.jobs /\ r.timer = delay /\ r.job = a.job /\ r.lane = a.lane
      /\ r.pulse = a.pulse /\ r.pill = a.pill /\ r.tally = a.tally /\ r.alive = a.alive
  BY <1>7
<1>9. r \in Moments
  BY <1>5, <1>6, <1>7, Spelt DEF Moments
<1>10. Steady(r, seen) /\ Armed(r)
  BY <1>5, <1>6, <1>8 DEF Steady, AtEase, Armed
<1>11. \A l \in Lanes : Advances(Now, r, l)
  BY <1>6, <1>8 DEF Advances, Plays
<1>12. Now' = r
  BY <1>4, <1>6, <1>8, <1>9, BecomesIs
<1>13. UNCHANGED <<ambient, focus, awaited, seen, gestures>>
  BY DEF Tick
<1> QED
  BY <1>2, <1>9, <1>10, <1>11, <1>12, <1>13, KeptWhen DEF TypeInv

LEMMA ClearIsLane == Clear \in LaneRecords /\ \A known, got : LaneInv(Clear, 0, known, got)
<1>1. <<>> \in Seq(Dots) /\ Len(<<>>) = 0
  OBVIOUS
<1>2. /\ Clear.total = 0 /\ Clear.emitted = 0 /\ Clear.dots = <<>> /\ Clear.verdict = None
      /\ Clear.rest = None
  BY DEF Clear
<1>3. Clear \in LaneRecords
  BY <1>1 DEF Clear, LaneRecords, Verdicts
<1> QED
  BY <1>1, <1>2, <1>3 DEF LaneInv, ShowsKnown, Unlearnt

(* A lane and its tally are replaced.                                      *)
WithLane(s, l, ln, got) ==
  [s EXCEPT !.lane = [s.lane EXCEPT ![l] = ln], !.tally = [s.tally EXCEPT ![l] = got]]

LEMMA WithLaneIs ==
  ASSUME NEW s \in Moments, NEW l \in Lanes, NEW ln \in LaneRecords, NEW got \in Tallies
  PROVE  /\ WithLane(s, l, ln, got) \in Moments
         /\ WithLane(s, l, ln, got).jobs = s.jobs /\ WithLane(s, l, ln, got).timer = s.timer
         /\ WithLane(s, l, ln, got).job = s.job /\ WithLane(s, l, ln, got).pulse = s.pulse
         /\ WithLane(s, l, ln, got).pill = s.pill /\ WithLane(s, l, ln, got).alive = s.alive
         /\ \A m \in Lanes :
              /\ WithLane(s, l, ln, got).lane[m] = IF m = l THEN ln ELSE s.lane[m]
              /\ WithLane(s, l, ln, got).tally[m] = IF m = l THEN got ELSE s.tally[m]
<1> DEFINE lane2 == [s.lane EXCEPT ![l] = ln]
           tally2 == [s.tally EXCEPT ![l] = got]
           r == WithLane(s, l, ln, got)
<1>1. /\ lane2 \in [Lanes -> LaneRecords]
      /\ \A m \in Lanes : lane2[m] = IF m = l THEN ln ELSE s.lane[m]
  BY Spelt
<1>2. /\ tally2 \in [Lanes -> Tallies]
      /\ \A m \in Lanes : tally2[m] = IF m = l THEN got ELSE s.tally[m]
  BY Spelt
<1>3. r = [s EXCEPT !.lane = lane2, !.tally = tally2]
  BY DEF WithLane
<1> HIDE DEF lane2, tally2, r
<1>4. r = [jobs |-> s.jobs, timer |-> s.timer, job |-> s.job, lane |-> lane2, pulse |-> s.pulse,
           pill |-> s.pill, tally |-> tally2, alive |-> s.alive]
  BY <1>3 DEF Moments
<1>5. r \in Moments
  BY <1>1, <1>2, <1>4, Spelt DEF Moments
<1>6. /\ r.jobs = s.jobs /\ r.timer = s.timer /\ r.job = s.job /\ r.lane = lane2
      /\ r.pulse = s.pulse /\ r.pill = s.pill /\ r.tally = tally2 /\ r.alive = s.alive
  BY <1>4
<1> QED
  BY <1>1, <1>2, <1>5, <1>6 DEF r

LEMMA FiredLaneInv ==
  ASSUME NEW ln \in LaneRecords, NEW count \in Counts, NEW id \in Nat \ {0}, NEW known
  PROVE  /\ FiredLane(ln, count) \in LaneRecords
         /\ FiredLane(ln, count).total > 0
         /\ FiredLane(ln, count).verdict = None /\ FiredLane(ln, count).rest = None
         /\ LaneInv(FiredLane(ln, count), id, known, [waited |-> FALSE, through |-> 0])
<1> DEFINE total == FiredTotal(count)
           f == FiredLane(ln, count)
           got == [waited |-> FALSE, through |-> 0]
<1>1. total \in Nat /\ total > 0
  <2>1. count \in Nat /\ MaxDots \in Nat
    BY MotionAssumption
  <2> QED
    BY <2>1 DEF FiredTotal, Larger, Smaller
<1>2. ln.flash \in Nat
  BY DEF LaneRecords
<1>3. f = [Clear EXCEPT !.total = total, !.flash = ln.flash]
  BY DEF FiredLane
<1> HIDE DEF total, f
<1>4. /\ Clear.emitted = 0 /\ Clear.t = 0 /\ Clear.dots = <<>> /\ Clear.verdict = None
      /\ Clear.passes = 0 /\ Clear.rest = None
  BY DEF Clear
<1>5. f = [total |-> total, emitted |-> 0, t |-> 0, dots |-> <<>>, verdict |-> None,
           passes |-> 0, flash |-> ln.flash, rest |-> None]
  BY <1>3, <1>4, ClearIsLane DEF LaneRecords
<1>6. <<>> \in Seq(Dots) /\ Len(<<>>) = 0 /\ None \in Verdicts
  BY DEF Verdicts
<1>7. f \in LaneRecords
  BY <1>1, <1>2, <1>5, <1>6 DEF LaneRecords
<1>8. /\ f.total = total /\ f.emitted = 0 /\ f.dots = <<>> /\ f.verdict = None /\ f.rest = None
  BY <1>5
<1>9. got.waited = FALSE /\ got.through = 0
  OBVIOUS
<1> HIDE DEF got
<1>10. LaneInv(f, id, known, got)
  BY <1>1, <1>6, <1>8, <1>9 DEF LaneInv, ShowsKnown, Unlearnt
<1> QED
  BY <1>1, <1>7, <1>8, <1>10 DEF f, got

LEMMA FireKeeps == ASSUME IInv, NEW l \in Lanes, Fire(l) PROVE Kept
<1> DEFINE got == [waited |-> FALSE, through |-> 0]
<1>1. PICK count \in Counts :
        Becomes([Started([Now EXCEPT !.lane[l] = FiredLane(lane[l], count)], l) EXCEPT
                   !.tally[l] = got])
  BY DEF Fire
<1> DEFINE ln == FiredLane(lane[l], count)
           s == [Now EXCEPT !.lane[l] = ln]
           t == Started(s, l)
           r == [t EXCEPT !.tally[l] = got]
<1>2. /\ lane \in [Lanes -> LaneRecords] /\ tally \in [Lanes -> Tallies] /\ lane[l] \in LaneRecords
      /\ tally[l] \in Tallies /\ l \in Widgets /\ l # Pulse
  BY NowIs, Spelt, NamesApart
<1>3. ln \in LaneRecords
  BY <1>2, FiredLaneInv
<1>4. got \in Tallies
  BY DEF Tallies
<1>5. Becomes(r)
  BY <1>1
<1> HIDE DEF ln, got
<1>6. s = WithLane(Now, l, ln, tally[l])
  <2> DEFINE now == Now
             lane2 == [now.lane EXCEPT ![l] = ln]
             tally2 == [now.tally EXCEPT ![l] = tally[l]]
  <2>1. now \in Moments /\ tally2 = now.tally
    BY <1>2, NowIs
  <2>2. s = [now EXCEPT !.lane = lane2]
    BY DEF Now
  <2>3. WithLane(now, l, ln, tally[l]) = [now EXCEPT !.lane = lane2, !.tally = tally2]
    BY DEF WithLane
  <2> HIDE DEF now, lane2, tally2
  <2>4. [now EXCEPT !.lane = lane2] = [now EXCEPT !.lane = lane2, !.tally = tally2]
    BY <2>1 DEF Moments
  <2> QED
    BY <2>2, <2>3, <2>4 DEF now
<1> HIDE DEF s
<1>7. /\ s \in Moments /\ s.jobs = jobs /\ s.timer = timer /\ s.job = job /\ s.pulse = pulse
      /\ s.pill = pill /\ s.alive = TRUE
      /\ \A m \in Lanes : s.lane[m] = IF m = l THEN ln ELSE lane[m]
      /\ \A m \in Lanes : s.tally[m] = tally[m]
  <2> DEFINE now == Now
             w == WithLane(now, l, ln, tally[l])
  <2>1. /\ now \in Moments /\ now.jobs = jobs /\ now.timer = timer /\ now.job = job
        /\ now.pulse = pulse /\ now.pill = pill /\ now.alive = TRUE /\ now.lane = lane
        /\ now.tally = tally
    BY NowIs
  <2>2. s = w
    BY <1>6
  <2> HIDE DEF now
  <2>3. /\ w \in Moments /\ w.jobs = now.jobs /\ w.timer = now.timer /\ w.job = now.job
        /\ w.pulse = now.pulse /\ w.pill = now.pill /\ w.alive = now.alive
        /\ \A m \in Lanes : /\ w.lane[m] = IF m = l THEN ln ELSE now.lane[m]
                            /\ w.tally[m] = IF m = l THEN tally[l] ELSE now.tally[m]
    BY <1>2, <1>3, <2>1, WithLaneIs
  <2> QED
    BY <2>1, <2>2, <2>3
<1>8. OnlyStarts(s, t, l)
  BY <1>2, <1>7, NowIs, StartedOnlyStarts
<1> HIDE DEF t
<1>9. /\ t \in Moments /\ t.alive = TRUE /\ Owned(t.jobs, t.job) /\ t.job[l] # 0
      /\ \A v \in Widgets : v # l \/ job[v] # 0 => t.job[v] = job[v]
      /\ t.lane = s.lane /\ t.pulse = pulse /\ t.pill = pill /\ t.tally = s.tally
      /\ Armed(t)
  BY <1>7, <1>8, NowIs DEF OnlyStarts, Armed
<1>10. r = WithLane(t, l, ln, got)
  <2>1. [t.lane EXCEPT ![l] = ln] = t.lane
    BY <1>7, <1>9, Spelt
  <2>2. r = [t EXCEPT !.tally = [t.tally EXCEPT ![l] = got]]
    BY <1>9 DEF Moments
  <2>3. WithLane(t, l, ln, got)
          = [t EXCEPT !.lane = t.lane, !.tally = [t.tally EXCEPT ![l] = got]]
    BY <2>1 DEF WithLane
  <2> DEFINE tally2 == [t.tally EXCEPT ![l] = got]
  <2> HIDE DEF tally2
  <2>4. [t EXCEPT !.tally = tally2] = [t EXCEPT !.lane = t.lane, !.tally = tally2]
    BY <1>9 DEF Moments
  <2> QED
    BY <2>2, <2>3, <2>4 DEF tally2
<1> HIDE DEF r
<1>11. /\ r \in Moments /\ r.jobs = t.jobs /\ r.timer = t.timer /\ r.job = t.job
       /\ r.pulse = pulse /\ r.pill = pill /\ r.alive = TRUE
       /\ \A m \in Lanes : r.lane[m] = IF m = l THEN ln ELSE lane[m]
       /\ \A m \in Lanes : r.tally[m] = IF m = l THEN got ELSE tally[m]
  BY <1>3, <1>4, <1>7, <1>9, <1>10, WithLaneIs
<1>12. Now' = r
  BY <1>5, <1>11, BecomesIs
<1>13. /\ seen' = [seen EXCEPT ![l] = {}] /\ awaited' = [awaited EXCEPT ![l] = @ + 1]
       /\ gestures' = gestures + 1 /\ ambient' = ambient /\ focus' = focus
  BY DEF Fire, Gesture
<1>14. /\ ambient' \in BOOLEAN /\ focus' \in [here : BOOLEAN, check : BOOLEAN]
       /\ awaited' \in [Lanes -> Nat] /\ seen' \in [Lanes -> SUBSET States] /\ gestures' \in Nat
       /\ \A m \in Lanes : m # l => seen'[m] = seen[m]
  BY <1>13 DEF IInv, TypeInv
<1>15. t.job \in [Widgets -> Nat] /\ t.job[l] \in Nat \ {0}
  BY <1>2, <1>9, Spelt
<1>16. AtEase(r, seen')
  <2>1. ASSUME NEW m \in Lanes PROVE LaneInv(r.lane[m], r.job[m], seen'[m], r.tally[m])
    <3>1. CASE m = l
      <4>1. LaneInv(ln, t.job[l], seen'[l], got)
        BY <1>2, <1>15, FiredLaneInv DEF ln, got
      <4> QED
        BY <1>11, <3>1, <4>1
    <3>2. CASE m # l
      <4>1. m \in Widgets
        BY NamesApart
      <4> QED
        BY <1>9, <1>11, <1>14, <3>2, <4>1, NowIs DEF AtEase
    <3> QED
      BY <3>1, <3>2
  <2>2. r.job[Pulse] = 0 => r.pulse = Flat
    BY <1>2, <1>9, <1>11, NowIs, NamesApart DEF AtEase
  <2>3. \A p \in Pills : r.job[p] = 0 => r.pill[p].glow = r.pill[p].target
    <3>1. \A p \in Pills : p # l /\ p \in Widgets
      BY NamesApart
    <3> QED
      BY <1>9, <1>11, <3>1, NowIs DEF AtEase
  <2> QED
    BY <2>1, <2>2, <2>3 DEF AtEase
<1>17. Steady(r, seen') /\ Armed(r)
  BY <1>9, <1>11, <1>16 DEF Steady, Armed
<1>18. ASSUME NEW m \in Lanes PROVE Advances(Now, r, m)
  <2>1. CASE m = l
    <3>1. ln.total > 0 /\ ln.verdict = None /\ ln.rest = None
      BY <1>2, FiredLaneInv, <1>15 DEF ln
    <3> QED
      BY <1>9, <1>11, <2>1, <3>1 DEF Advances, Fired
  <2>2. CASE m # l
    <3>1. m \in Widgets
      BY NamesApart
    <3>2. r.lane[m] = lane[m] /\ r.job[m] = job[m]
      BY <1>9, <1>11, <2>2, <3>1
    <3> QED
      BY <3>2, NowIs, AsBefore
  <2> QED
    BY <2>1, <2>2
<1> QED
  BY <1>11, <1>12, <1>14, <1>17, <1>18, KeptWhen

LEMMA ResolvedIsLane ==
  ASSUME NEW ln \in LaneRecords, NEW state \in States, NEW passes \in Nat
  PROVE  /\ ResolvedLane(ln, state, passes) \in LaneRecords
         /\ ResolvedLane(ln, state, passes).total = ln.total
         /\ ResolvedLane(ln, state, passes).emitted = ln.emitted
         /\ ResolvedLane(ln, state, passes).dots = ln.dots
         /\ ResolvedLane(ln, state, passes).verdict = state
         /\ ResolvedLane(ln, state, passes).rest = IF ln.total = 0 THEN state ELSE ln.rest
<1> DEFINE got == IF state = "ratio" THEN passes ELSE IF state = "allowed" THEN ln.total ELSE 0
           rest == IF ln.total = 0 THEN state ELSE ln.rest
           r == ResolvedLane(ln, state, passes)
<1>1. r = [ln EXCEPT !.verdict = state, !.flash = Flash, !.passes = got, !.rest = rest]
  BY DEF ResolvedLane
<1>2. /\ ln.total \in Nat /\ ln.emitted \in Nat /\ ln.t \in Nat /\ ln.dots \in Seq(Dots)
      /\ ln.rest \in Verdicts /\ Flash \in Nat
  BY Sizes DEF LaneRecords
<1>3. got \in Nat /\ rest \in Verdicts /\ state \in Verdicts
  BY <1>2 DEF Verdicts
<1> HIDE DEF got, r
<1>4. r = [total |-> ln.total, emitted |-> ln.emitted, t |-> ln.t, dots |-> ln.dots,
           verdict |-> state, passes |-> got, flash |-> Flash, rest |-> rest]
  BY <1>1 DEF LaneRecords
<1>5. r \in LaneRecords
  BY <1>2, <1>3, <1>4 DEF LaneRecords
<1> QED
  BY <1>4, <1>5 DEF r

(* The first verdict finds every signal of a lane that waits at the gate.  *)
LEMMA ResolvedLaneInv ==
  ASSUME NEW ln \in LaneRecords, NEW state \in States, NEW passes \in Nat, NEW id, NEW id2,
         NEW known, NEW got \in Tallies, LaneInv(ln, id, known, got),
         id2 # 0 <=> ln.total > 0 \/ id # 0,
         NEW got2, got2.waited = AllWait(ln), got2.through = got.through
  PROVE  LaneInv(ResolvedLane(ln, state, passes), id2, known \cup {state}, got2)
<1> DEFINE r == ResolvedLane(ln, state, passes)
<1>1. /\ r.total = ln.total /\ r.emitted = ln.emitted /\ r.dots = ln.dots /\ r.verdict = state
      /\ r.rest = IF ln.total = 0 THEN state ELSE ln.rest
  BY ResolvedIsLane
<1>2. ln.total \in Nat /\ ln.emitted \in Nat /\ state # None
  BY MotionAssumption DEF LaneRecords
<1> HIDE DEF r
<1>3. /\ ln.emitted <= ln.total /\ ShowsKnown(ln.dots, known)
      /\ ln.verdict = None => ln.rest = None /\ Unlearnt(ln)
      /\ ln.verdict = None /\ ln.total > 0 => got.through = 0
      /\ id # 0 => ln.total > 0
      /\ id = 0 => ln.dots = <<>> /\ ln.emitted = ln.total
  BY DEF LaneInv
<1>4. ShowsKnown(r.dots, known \cup {state})
  BY <1>1, <1>3 DEF ShowsKnown
<1>5. id2 = 0 => r.dots = <<>> /\ r.emitted = r.total /\ r.rest = r.verdict
  BY <1>1, <1>2, <1>3
<1>6. id2 # 0 => r.total > 0
  BY <1>1, <1>3
<1>7. ASSUME got2.waited PROVE StillWait(r, got2)
  <2>1. /\ ln.verdict = None /\ ln.total > 0 /\ ln.emitted = ln.total
        /\ \A i \in DOMAIN ln.dots : ln.dots[i].mode = "held"
    BY <1>7 DEF AllWait
  <2>2. Len(ln.dots) = ln.total /\ r.rest = None /\ got2.through = 0
    BY <1>1, <1>3, <2>1 DEF Unlearnt
  <2> QED
    BY <1>1, <2>1, <2>2 DEF StillWait
<1>8. LaneInv(r, id2, known \cup {state}, got2)
  BY <1>1, <1>2, <1>3, <1>4, <1>5, <1>6, <1>7 DEF LaneInv
<1> QED
  BY <1>8 DEF r

LEMMA ResolveKeeps == ASSUME IInv, NEW l \in Lanes, Resolve(l) PROVE Kept
<1>1. PICK state \in States : \E passes \in 0..MaxDots :
        /\ seen' = [seen EXCEPT ![l] = @ \cup {state}]
        /\ Becomes(Blip(LaneStarted(
             [Now EXCEPT !.lane[l] = ResolvedLane(lane[l], state, passes),
                         !.tally[l].waited = AllWait(lane[l])], l)))
  BY DEF Resolve
<1>2. PICK passes \in 0..MaxDots :
        /\ seen' = [seen EXCEPT ![l] = @ \cup {state}]
        /\ Becomes(Blip(LaneStarted(
             [Now EXCEPT !.lane[l] = ResolvedLane(lane[l], state, passes),
                         !.tally[l].waited = AllWait(lane[l])], l)))
  BY <1>1
<1> DEFINE ln == ResolvedLane(lane[l], state, passes)
           got == [tally[l] EXCEPT !.waited = AllWait(lane[l])]
           s == [Now EXCEPT !.lane[l] = ln, !.tally[l].waited = AllWait(lane[l])]
           t == LaneStarted(s, l)
           r == Blip(t)
<1>3. /\ lane \in [Lanes -> LaneRecords] /\ tally \in [Lanes -> Tallies] /\ lane[l] \in LaneRecords
      /\ tally[l] \in Tallies /\ l \in Widgets /\ l # Pulse /\ passes \in Nat
  BY NowIs, Spelt, NamesApart
<1>4. /\ ln \in LaneRecords /\ ln.total = lane[l].total /\ ln.verdict = state
      /\ ln.rest = IF lane[l].total = 0 THEN state ELSE lane[l].rest
  BY <1>3, ResolvedIsLane
<1>5. got \in Tallies /\ got.waited = AllWait(lane[l]) /\ got.through = tally[l].through
  <2> DEFINE all == AllWait(lane[l])
             old == tally[l]
  <2>1. all \in BOOLEAN
    BY DEF AllWait
  <2>2. old \in Tallies /\ got = [old EXCEPT !.waited = all]
    BY <1>3
  <2> HIDE DEF all, old, got
  <2>3. got = [waited |-> all, through |-> old.through] /\ old.through \in Int
    BY <2>2 DEF Tallies
  <2>4. got \in Tallies
    BY <2>1, <2>3 DEF Tallies
  <2> QED
    BY <2>3, <2>4 DEF all, old
<1>6. Becomes(r)
  BY <1>2
<1>7. s = WithLane(Now, l, ln, got)
  <2> DEFINE lane2 == [lane EXCEPT ![l] = ln]
             tally2 == [tally EXCEPT ![l] = got]
  <2>1. s = [Now EXCEPT !.lane = lane2, !.tally = [tally EXCEPT ![l].waited = AllWait(lane[l])]]
    BY DEF Now
  <2>2. [tally EXCEPT ![l].waited = AllWait(lane[l])] = tally2
    OBVIOUS
  <2>3. WithLane(Now, l, ln, got) = [Now EXCEPT !.lane = lane2, !.tally = tally2]
    BY NowIs DEF WithLane
  <2> HIDE DEF lane2, tally2
  <2> QED
    BY <2>1, <2>2, <2>3
<1> HIDE DEF ln, got, s
<1>8. /\ s \in Moments /\ s.jobs = jobs /\ s.timer = timer /\ s.job = job /\ s.pulse = pulse
      /\ s.pill = pill /\ s.alive = TRUE
      /\ \A m \in Lanes : s.lane[m] = IF m = l THEN ln ELSE lane[m]
      /\ \A m \in Lanes : s.tally[m] = IF m = l THEN got ELSE tally[m]
  <2> DEFINE now == Now
             w == WithLane(now, l, ln, got)
  <2>1. /\ now \in Moments /\ now.jobs = jobs /\ now.timer = timer /\ now.job = job
        /\ now.pulse = pulse /\ now.pill = pill /\ now.alive = TRUE /\ now.lane = lane
        /\ now.tally = tally
    BY NowIs
  <2>2. s = w
    BY <1>7
  <2> HIDE DEF now
  <2>3. /\ w \in Moments /\ w.jobs = now.jobs /\ w.timer = now.timer /\ w.job = now.job
        /\ w.pulse = now.pulse /\ w.pill = now.pill /\ w.alive = now.alive
        /\ \A m \in Lanes : /\ w.lane[m] = IF m = l THEN ln ELSE now.lane[m]
                            /\ w.tally[m] = IF m = l THEN got ELSE now.tally[m]
    BY <1>4, <1>5, <2>1, WithLaneIs
  <2> QED
    BY <2>1, <2>2, <2>3
<1>9. /\ t \in Moments /\ t.alive = TRUE /\ Owned(t.jobs, t.job)
      /\ t.job[l] # 0 <=> lane[l].total > 0 \/ job[l] # 0
      /\ \A v \in Widgets : v # l \/ job[v] # 0 => t.job[v] = job[v]
      /\ t.lane = s.lane /\ t.pulse = pulse /\ t.pill = pill /\ t.tally = s.tally
      /\ Armed(t)
  <2>1. s.lane[l].total = lane[l].total /\ lane[l].total \in Nat
    BY <1>3, <1>4, <1>8 DEF LaneRecords
  <2>2. CASE lane[l].total = 0
    <3>1. t = s
      BY <2>1, <2>2 DEF LaneStarted
    <3> QED
      BY <1>8, <2>2, <3>1, NowIs DEF Armed
  <2>3. CASE lane[l].total # 0
    <3>1. t = Started(s, l)
      BY <2>1, <2>3 DEF LaneStarted
    <3> HIDE DEF t
    <3>2. OnlyStarts(s, t, l)
      BY <1>3, <1>8, <3>1, NowIs, StartedOnlyStarts
    <3> QED
      BY <1>8, <2>1, <2>3, <3>2, NowIs DEF OnlyStarts, Armed
  <2> QED
    BY <2>2, <2>3
<1> HIDE DEF t
<1>10. Beats(t, r)
  BY <1>9, BlipBeats
<1> HIDE DEF r
<1>11. /\ r \in Moments /\ r.alive = TRUE /\ Owned(r.jobs, r.job) /\ r.job[Pulse] # 0 /\ Armed(r)
       /\ r.lane = s.lane /\ r.tally = s.tally /\ r.pill = pill
       /\ \A v \in Widgets : v # Pulse => r.job[v] = t.job[v]
  BY <1>9, <1>10 DEF Beats
<1>12. Now' = r
  BY <1>6, <1>11, BecomesIs
<1>13. /\ seen' = [seen EXCEPT ![l] = seen[l] \cup {state}]
       /\ awaited' = [awaited EXCEPT ![l] = awaited[l] - 1] /\ awaited[l] > 0
       /\ gestures' = gestures /\ ambient' = ambient /\ focus' = focus
  BY <1>2 DEF Resolve
<1>14. /\ ambient' \in BOOLEAN /\ focus' \in [here : BOOLEAN, check : BOOLEAN]
       /\ awaited' \in [Lanes -> Nat] /\ seen' \in [Lanes -> SUBSET States] /\ gestures' \in Nat
       /\ seen'[l] = seen[l] \cup {state}
       /\ \A m \in Lanes : m # l => seen'[m] = seen[m]
  BY <1>13 DEF IInv, TypeInv
<1>15. r.job[l] # 0 <=> lane[l].total > 0 \/ job[l] # 0
  BY <1>3, <1>9, <1>11
<1>16. AtEase(r, seen')
  <2>1. ASSUME NEW m \in Lanes PROVE LaneInv(r.lane[m], r.job[m], seen'[m], r.tally[m])
    <3>1. CASE m = l
      <4>1. LaneInv(lane[l], job[l], seen[l], tally[l])
        BY NowIs DEF AtEase
      <4>2. LaneInv(ln, r.job[l], seen[l] \cup {state}, got)
        BY <1>3, <1>5, <1>15, <4>1, ResolvedLaneInv DEF ln
      <4>3. r.lane[l] = ln /\ r.tally[l] = got
        BY <1>8, <1>11
      <4> QED
        BY <1>14, <3>1, <4>2, <4>3
    <3>2. CASE m # l
      <4>1. m \in Widgets /\ m # Pulse
        BY NamesApart
      <4>2. LaneInv(lane[m], job[m], seen[m], tally[m])
        BY NowIs DEF AtEase
      <4>3. r.lane[m] = lane[m] /\ r.tally[m] = tally[m] /\ r.job[m] = job[m]
        BY <1>8, <1>9, <1>11, <3>2, <4>1
      <4> QED
        BY <1>14, <3>2, <4>2, <4>3
    <3> QED
      BY <3>1, <3>2
  <2>2. \A p \in Pills : r.job[p] = 0 => r.pill[p].glow = r.pill[p].target
    <3>1. \A p \in Pills : p # l /\ p \in Widgets /\ p # Pulse
      BY NamesApart
    <3> QED
      BY <1>9, <1>11, <3>1, NowIs DEF AtEase
  <2> QED
    BY <1>11, <2>1, <2>2 DEF AtEase
<1>17. Steady(r, seen')
  BY <1>11, <1>16 DEF Steady
<1>18. ASSUME NEW m \in Lanes PROVE Advances(Now, r, m)
  <2>1. CASE m = l
    <3>1. r.lane[l] = ln
      BY <1>8, <1>11
    <3>2. lane[l].total \in Nat
      BY <1>3 DEF LaneRecords
    <3>3. Resolved(Now, r, l)
      BY <1>4, <1>15, <3>1, <3>2, NowIs DEF Resolved
    <3> QED
      BY <2>1, <3>3 DEF Advances
  <2>2. CASE m # l
    <3>1. m \in Widgets /\ m # Pulse
      BY NamesApart
    <3>2. r.lane[m] = lane[m] /\ r.job[m] = job[m]
      BY <1>8, <1>9, <1>11, <2>2, <3>1
    <3> QED
      BY <3>2, NowIs, AsBefore
  <2> QED
    BY <2>1, <2>2
<1> QED
  BY <1>11, <1>12, <1>14, <1>17, <1>18, KeptWhen

(* The lanes that are not at rest give up their jobs, and no other job.    *)
LEMMA RunAllDoneKeeps == ASSUME IInv, RunAllDone PROVE Kept
<1> DEFINE W == Unrested
           left == Dropped(jobs, HeldBy(job, W))
           held == GivenUp(job, W)
           lane2 == [l \in Lanes |-> IF l \in W THEN Clear ELSE lane[l]]
           r == Now'
<1>1. W \subseteq Lanes /\ W \subseteq Widgets /\ Pulse \notin W /\ \A p \in Pills : p \notin W
  BY NamesApart DEF Unrested
<1>2. HeldBy(job, W) = {job[l] : l \in Unrested}
  BY DEF HeldBy
<1>3. /\ lane' = lane2 /\ job' = held /\ jobs' = left
      /\ timer' = timer /\ pulse' = pulse /\ pill' = pill /\ tally' = tally
      /\ UNCHANGED <<ambient, focus, awaited, seen, gestures>>
  BY <1>2 DEF RunAllDone, GivenUp
<1>4. /\ jobs \in Seq(Jobs) /\ job \in [Widgets -> Nat] /\ lane \in [Lanes -> LaneRecords]
      /\ timer \in Nat /\ pulse \in PulseRecords /\ pill \in [Pills -> PillRecords]
      /\ tally \in [Lanes -> Tallies]
  BY NowIs, Spelt
<1> HIDE DEF W
<1>5. left \in Seq(Jobs) /\ Owned(left, held) /\ (left # <<>> => jobs # <<>>)
  BY <1>1, <1>4, NowIs, DroppedKeepsOthers
<1>6. held \in [Widgets -> Nat] /\ \A w \in Widgets : held[w] = IF w \in W THEN 0 ELSE job[w]
  BY <1>4 DEF GivenUp
<1>7. lane2 \in [Lanes -> LaneRecords]
  BY <1>4, ClearIsLane
<1> HIDE DEF left, held
<1>8. r = [jobs |-> left, timer |-> timer, job |-> held, lane |-> lane2, pulse |-> pulse,
           pill |-> pill, tally |-> tally, alive |-> TRUE]
  BY <1>3 DEF Now
<1>9. \A l \in Lanes : lane2[l] = IF l \in W THEN Clear ELSE lane[l]
  OBVIOUS
<1> HIDE DEF lane2, r
<1>10. r \in Moments
  BY <1>4, <1>5, <1>6, <1>7, <1>8 DEF Moments
<1>11. /\ r.jobs = left /\ r.timer = timer /\ r.job = held /\ r.lane = lane2
       /\ r.pulse = pulse /\ r.pill = pill /\ r.tally = tally
  BY <1>8
<1>12. AtEase(r, seen)
  <2>1. ASSUME NEW l \in Lanes PROVE LaneInv(r.lane[l], r.job[l], seen[l], r.tally[l])
    <3>1. l \in Widgets
      BY NamesApart
    <3>2. CASE l \in W
      BY <1>6, <1>9, <1>11, <3>1, <3>2, ClearIsLane
    <3>3. CASE l \notin W
      BY <1>6, <1>9, <1>11, <3>1, <3>3, NowIs DEF AtEase
    <3> QED
      BY <3>2, <3>3
  <2>2. r.job[Pulse] = 0 => r.pulse = Flat
    BY <1>1, <1>6, <1>11, NowIs, NamesApart DEF AtEase
  <2>3. \A p \in Pills : r.job[p] = 0 => r.pill[p].glow = r.pill[p].target
    BY <1>1, <1>6, <1>11, NowIs, NamesApart DEF AtEase
  <2> QED
    BY <2>1, <2>2, <2>3 DEF AtEase
<1>13. Steady(r, seen') /\ Armed(r)
  BY <1>3, <1>5, <1>11, <1>12, NowIs DEF Steady, Armed
<1>14. ASSUME NEW l \in Lanes PROVE Advances(Now, r, l)
  <2>1. l \in Widgets
    BY NamesApart
  <2>2. CASE l \in W
    BY <1>6, <1>9, <1>11, <2>1, <2>2 DEF Advances, Cleared
  <2>3. CASE l \notin W
    <3>1. r.lane[l] = Now.lane[l] /\ r.job[l] = Now.job[l]
      BY <1>6, <1>9, <1>11, <2>1, <2>3, NowIs
    <3> QED
      BY <3>1, AsBefore
  <2> QED
    BY <2>2, <2>3
<1>15. Now' = r
  BY DEF r
<1> QED
  BY <1>3, <1>10, <1>13, <1>14, <1>15, KeptWhen DEF IInv, TypeInv

(* A button that moves is put on the clock.                                *)
LEMMA PillMovesKeeps ==
  ASSUME IInv, NEW p \in Pills, NEW b \in PillRecords, PillMoves(p, b), gestures' \in Nat
  PROVE  Kept
<1> DEFINE pill2 == [pill EXCEPT ![p] = b]
           s == [Now EXCEPT !.pill = pill2]
           r == Started(s, p)
<1>1. pill \in [Pills -> PillRecords] /\ p \in Widgets /\ p # Pulse /\ p \notin Lanes
  BY NowIs, Spelt, NamesApart
<1>2. Becomes(r) /\ UNCHANGED <<ambient, focus, awaited, seen>>
  BY DEF PillMoves, Now
<1>3. pill2 \in [Pills -> PillRecords] /\ \A q \in Pills : q # p => pill2[q] = pill[q]
  BY <1>1
<1> HIDE DEF pill2
<1>4. /\ s \in Moments /\ s.jobs = jobs /\ s.timer = timer /\ s.job = job /\ s.lane = lane
      /\ s.pulse = pulse /\ s.pill = pill2 /\ s.tally = tally /\ s.alive = TRUE
  <2> DEFINE now == Now
  <2>1. /\ now \in Moments /\ now.jobs = jobs /\ now.timer = timer /\ now.job = job
        /\ now.pulse = pulse /\ now.alive = TRUE /\ now.lane = lane /\ now.tally = tally
    BY NowIs
  <2>2. s = [now EXCEPT !.pill = pill2]
    OBVIOUS
  <2> HIDE DEF now, s
  <2>3. s = [jobs |-> now.jobs, timer |-> now.timer, job |-> now.job, lane |-> now.lane,
             pulse |-> now.pulse, pill |-> pill2, tally |-> now.tally, alive |-> now.alive]
    BY <2>1, <2>2 DEF Moments
  <2>4. s \in Moments
    BY <1>3, <2>1, <2>3, Spelt DEF Moments
  <2> QED
    BY <2>1, <2>3, <2>4
<1> HIDE DEF s
<1>5. OnlyStarts(s, r, p)
  BY <1>1, <1>4, NowIs, StartedOnlyStarts
<1> HIDE DEF r
<1>6. /\ r \in Moments /\ r.alive = TRUE /\ Owned(r.jobs, r.job) /\ r.job[p] # 0
      /\ \A v \in Widgets : v # p => r.job[v] = job[v]
      /\ r.lane = lane /\ r.pulse = pulse /\ r.pill = pill2 /\ r.tally = tally /\ Armed(r)
  BY <1>4, <1>5, NowIs DEF OnlyStarts, Armed
<1>7. Now' = r
  BY <1>2, <1>6, BecomesIs
<1>8. AtEase(r, seen)
  <2>1. \A l \in Lanes : LaneInv(r.lane[l], r.job[l], seen[l], r.tally[l])
    BY <1>1, <1>6, NowIs, NamesApart DEF AtEase
  <2>2. r.job[Pulse] = 0 => r.pulse = Flat
    BY <1>1, <1>6, NowIs, NamesApart DEF AtEase
  <2>3. \A q \in Pills : r.job[q] = 0 => r.pill[q].glow = r.pill[q].target
    BY <1>3, <1>6, NowIs, NamesApart DEF AtEase
  <2> QED
    BY <2>1, <2>2, <2>3 DEF AtEase
<1>9. Steady(r, seen')
  BY <1>2, <1>6, <1>8 DEF Steady
<1>10. ASSUME NEW l \in Lanes PROVE Advances(Now, r, l)
  <2>1. r.lane[l] = Now.lane[l] /\ r.job[l] = Now.job[l]
    BY <1>1, <1>6, NowIs, NamesApart
  <2> QED
    BY <2>1, AsBefore
<1> QED
  BY <1>2, <1>6, <1>7, <1>9, <1>10, KeptWhen DEF IInv, TypeInv

(* A button that is drawn at once stays off the clock, or on it.           *)
LEMMA PillDrawn ==
  ASSUME IInv, NEW p \in Pills, NEW b \in PillRecords,
         b.glow = pill[p].glow, b.target = pill[p].target,
         pill' = [pill EXCEPT ![p] = b], gestures' \in Nat,
         UNCHANGED <<jobs, timer, job, lane, pulse, tally, ambient, focus, awaited, seen>>
  PROVE  Kept
<1> DEFINE r == Now'
           pill2 == [pill EXCEPT ![p] = b]
<1>1. /\ Now \in Moments /\ pill \in [Pills -> PillRecords]
  BY NowIs, Spelt
<1>2. /\ pill2 \in [Pills -> PillRecords]
      /\ \A q \in Pills : pill2[q].glow = pill[q].glow /\ pill2[q].target = pill[q].target
  BY <1>1
<1>3. r = [jobs |-> jobs, timer |-> timer, job |-> job, lane |-> lane, pulse |-> pulse,
           pill |-> pill2, tally |-> tally, alive |-> TRUE]
  BY DEF Now
<1>4. Now' = r
  OBVIOUS
<1> HIDE DEF r, pill2
<1>5. r \in Moments
  BY <1>1, <1>2, <1>3, NowIs, Spelt DEF Moments
<1>6. /\ r.jobs = jobs /\ r.timer = timer /\ r.job = job /\ r.lane = lane
      /\ r.pulse = pulse /\ r.pill = pill2 /\ r.tally = tally
  BY <1>3
<1>7. Steady(r, seen') /\ Armed(r)
  <2>1. \A l \in Lanes : LaneInv(r.lane[l], r.job[l], seen[l], r.tally[l])
    BY <1>6, NowIs DEF AtEase
  <2>2. r.job[Pulse] = 0 => r.pulse = Flat
    BY <1>6, NowIs DEF AtEase
  <2>3. \A q \in Pills : r.job[q] = 0 => r.pill[q].glow = r.pill[q].target
    BY <1>2, <1>6, NowIs DEF AtEase
  <2> QED
    BY <1>6, <2>1, <2>2, <2>3, NowIs DEF Steady, AtEase, Armed
<1>8. ASSUME NEW l \in Lanes PROVE Advances(Now, r, l)
  BY <1>6, NowIs, AsBefore
<1> QED
  BY <1>4, <1>5, <1>7, <1>8, KeptWhen DEF IInv, TypeInv

LEMMA PillFields ==
  ASSUME NEW b \in PillRecords, NEW n \in Nat, NEW on \in BOOLEAN
  PROVE  /\ [b EXCEPT !.target = n] \in PillRecords
         /\ [b EXCEPT !.press = n] \in PillRecords /\ [b EXCEPT !.enabled = on] \in PillRecords
         /\ [b EXCEPT !.press = n].glow = b.glow /\ [b EXCEPT !.press = n].target = b.target
         /\ [b EXCEPT !.enabled = on].glow = b.glow
         /\ [b EXCEPT !.enabled = on].target = b.target
BY DEF PillRecords

LEMMA PillsKeep ==
  ASSUME IInv, NEW p \in Pills, Enter(p) \/ Exit(p) \/ Press(p) \/ LetGo(p) \/ Configure(p)
  PROVE  Kept
<1>1. pill \in [Pills -> PillRecords] /\ pill[p] \in PillRecords /\ gestures \in Nat
  BY NowIs, Spelt DEF IInv, TypeInv
<1>2. CASE Enter(p)
  <2> DEFINE b == [pill[p] EXCEPT !.target = Glow]
  <2>1. PillMoves(p, b) /\ gestures' = gestures + 1
    BY <1>2 DEF Enter, Gesture
  <2>2. b \in PillRecords
    BY <1>1, PillFields, Sizes
  <2> HIDE DEF b
  <2> QED
    BY <1>1, <2>1, <2>2, PillMovesKeeps
<1>3. CASE Exit(p)
  <2>1. /\ PillMoves(p, Left(pill[p])) /\ gestures' \in Nat
        /\ Left(pill[p]) \in PillRecords
    BY <1>1, <1>3, PillFields DEF Exit, Left
  <2> QED
    BY <2>1, PillMovesKeeps
<1>4. CASE LetGo(p)
  <2>1. PICK press \in 1..2 : PillMoves(p, [pill[p] EXCEPT !.press = press])
    BY <1>4 DEF LetGo
  <2> DEFINE b == [pill[p] EXCEPT !.press = press]
  <2>2. gestures' = gestures + 1
    BY <1>4 DEF LetGo, Gesture
  <2>3. b \in PillRecords
    <3>1. press \in Nat
      OBVIOUS
    <3> QED
      BY <1>1, <3>1, PillFields
  <2>4. PillMoves(p, b)
    BY <2>1
  <2> HIDE DEF b
  <2> QED
    BY <1>1, <2>2, <2>3, <2>4, PillMovesKeeps
<1>5. CASE Press(p)
  <2> DEFINE b == [pill[p] EXCEPT !.press = 2]
  <2>1. /\ pill' = [pill EXCEPT ![p] = b] /\ gestures' \in Nat
        /\ UNCHANGED <<jobs, timer, job, lane, pulse, tally, ambient, focus, awaited, seen>>
    BY <1>1, <1>5 DEF Press, Gesture
  <2>2. b \in PillRecords /\ b.glow = pill[p].glow /\ b.target = pill[p].target
    BY <1>1, PillFields
  <2> HIDE DEF b
  <2> QED
    BY <2>1, <2>2, PillDrawn
<1>6. CASE Configure(p)
  <2> DEFINE on == ~pill[p].enabled
             b == [pill[p] EXCEPT !.enabled = on]
  <2>1. /\ pill' = [pill EXCEPT ![p] = b] /\ gestures' \in Nat
        /\ UNCHANGED <<jobs, timer, job, lane, pulse, tally, ambient, focus, awaited, seen>>
    BY <1>1, <1>6 DEF Configure, Gesture
  <2>2. on \in BOOLEAN
    OBVIOUS
  <2> HIDE DEF on
  <2>3. b \in PillRecords /\ b.glow = pill[p].glow /\ b.target = pill[p].target
    BY <1>1, <2>2, PillFields
  <2> HIDE DEF b
  <2> QED
    BY <2>1, <2>3, PillDrawn
<1> QED
  BY <1>2, <1>3, <1>4, <1>5, <1>6

(* The focus touches the timer, and no widget.                             *)
LEMMA FocusKeeps == ASSUME IInv, FocusMoves \/ FocusCheck \/ UNCHANGED vars PROVE Kept
<1> DEFINE r == Now'
<1>1. /\ focus \in [here : BOOLEAN, check : BOOLEAN] /\ ambient \in BOOLEAN /\ gestures \in Nat
      /\ awaited \in [Lanes -> Nat] /\ seen \in [Lanes -> SUBSET States]
  BY DEF IInv, TypeInv
<1>2. UNCHANGED <<jobs, job, lane, pulse, pill, tally, awaited, seen>>
  <2>1. CASE FocusMoves
    BY <2>1 DEF FocusMoves, animVars
  <2>2. CASE FocusCheck
    BY <2>2 DEF FocusCheck
  <2>3. CASE UNCHANGED vars
    BY <2>3 DEF vars, animVars
  <2> QED
    BY <2>1, <2>2, <2>3
<1>3. timer' = timer \/ timer' \in {16, 90}
  BY DEF FocusMoves, FocusCheck, vars, animVars
<1>4. focus' \in [here : BOOLEAN, check : BOOLEAN] /\ ambient' \in BOOLEAN /\ gestures' \in Nat
  <2>1. CASE FocusMoves
    BY <1>1, <2>1 DEF FocusMoves, Gesture
  <2>2. CASE FocusCheck
    BY <1>1, <2>2 DEF FocusCheck
  <2>3. CASE UNCHANGED vars
    BY <1>1, <2>3 DEF vars, animVars
  <2> QED
    BY <2>1, <2>2, <2>3
<1>5. r = [jobs |-> jobs, timer |-> timer', job |-> job, lane |-> lane, pulse |-> pulse,
           pill |-> pill, tally |-> tally, alive |-> TRUE]
  BY <1>2 DEF Now
<1>6. Now' = r
  OBVIOUS
<1> HIDE DEF r
<1>7. timer' \in Nat /\ (timer # 0 => timer' # 0)
  BY <1>3, NowIs, Spelt
<1>8. r \in Moments
  BY <1>5, <1>7, NowIs, Spelt DEF Moments
<1>9. /\ r.jobs = jobs /\ r.timer = timer' /\ r.job = job /\ r.lane = lane
      /\ r.pulse = pulse /\ r.pill = pill /\ r.tally = tally
  BY <1>5
<1>10. Steady(r, seen') /\ Armed(r)
  BY <1>2, <1>7, <1>9, NowIs DEF Steady, AtEase, Armed
<1>11. \A l \in Lanes : Advances(Now, r, l)
  BY <1>9, NowIs, AsBefore
<1> QED
  BY <1>1, <1>2, <1>4, <1>6, <1>8, <1>10, <1>11, KeptWhen

LEMMA StepsKeep == ASSUME IInv, [Next]_vars PROVE Kept
<1>1. CASE Tick
  BY <1>1, TickKeeps
<1>2. CASE \E l \in Lanes : Fire(l) \/ Resolve(l)
  BY <1>2, FireKeeps, ResolveKeeps
<1>3. CASE RunAllDone
  BY <1>3, RunAllDoneKeeps
<1>4. CASE \E p \in Pills : Enter(p) \/ Exit(p) \/ Press(p) \/ LetGo(p) \/ Configure(p)
  BY <1>4, PillsKeep
<1>5. CASE FocusMoves \/ FocusCheck \/ UNCHANGED vars
  BY <1>5, FocusKeeps
<1> QED
  BY <1>1, <1>2, <1>3, <1>4, <1>5 DEF Next

-----------------------------------------------------------------------------
(* The theorems.                                                           *)

LEMMA InitIsSteady == Init => IInv
<1> SUFFICES ASSUME Init PROVE IInv
  OBVIOUS
<1>1. /\ jobs = <<>> /\ timer = 80 /\ job = [w \in Widgets |-> 0]
      /\ lane = [l \in Lanes |-> Clear] /\ pulse = Flat
      /\ pill = [p \in Pills |-> [enabled |-> TRUE, glow |-> 0, target |-> 0, press |-> 0]]
      /\ tally = [l \in Lanes |-> [waited |-> FALSE, through |-> 0]]
  BY DEF Init
<1>2. /\ jobs \in Seq(Jobs) /\ DOMAIN jobs = {} /\ timer \in Nat /\ timer # 0
      /\ job \in [Widgets -> Nat] /\ \A w \in Widgets : job[w] = 0
  BY <1>1
<1>3. lane \in [Lanes -> LaneRecords] /\ \A l \in Lanes : lane[l] = Clear
  BY <1>1, ClearIsLane
<1>4. pulse \in PulseRecords
  BY <1>1 DEF Flat, PulseRecords
<1>5. /\ pill \in [Pills -> PillRecords]
      /\ \A p \in Pills : pill[p].glow = 0 /\ pill[p].target = 0
  BY <1>1 DEF PillRecords
<1>6. tally \in [Lanes -> Tallies]
  BY <1>1 DEF Tallies
<1>7. Now = [jobs |-> jobs, timer |-> timer, job |-> job, lane |-> lane, pulse |-> pulse,
             pill |-> pill, tally |-> tally, alive |-> TRUE]
  BY DEF Now
<1>8. Now \in Moments
  BY <1>2, <1>3, <1>4, <1>5, <1>6, <1>7 DEF Moments
<1>9. /\ Now.jobs = jobs /\ Now.timer = timer /\ Now.job = job /\ Now.lane = lane
      /\ Now.pulse = pulse /\ Now.pill = pill /\ Now.tally = tally
  BY <1>7
<1>10. TypeInv
  BY <1>8 DEF TypeInv, Init
<1>11. AtEase(Now, seen)
  <2>1. \A l \in Lanes : LaneInv(Now.lane[l], Now.job[l], seen[l], Now.tally[l])
    <3>1. \A l \in Lanes : Now.lane[l] = Clear /\ Now.job[l] = 0
      BY <1>2, <1>3, <1>9, NamesApart
    <3> QED
      BY <3>1, ClearIsLane
  <2> QED
    BY <1>1, <1>5, <1>9, <2>1 DEF AtEase
<1>12. Owned(Now.jobs, Now.job)
  BY <1>2, <1>9 DEF Owned
<1>13. Armed(Now)
  BY <1>2, <1>9 DEF Armed
<1> QED
  BY <1>10, <1>11, <1>12, <1>13 DEF IInv, Steady

(* The clock, its jobs and every widget that holds one stay in step, in    *)
(* every behaviour of the window: _Anim.add, drop and _tick, _Lane, _Pulse *)
(* and _Pill with all their frames, Fire, resolve, clear, the mouse and    *)
(* the focus keep the types and the invariant the theorems below rest on.  *)
THEOREM MotionSteady == Spec => []IInv
<1>1. IInv /\ [Next]_vars => IInv'
  BY StepsKeep DEF Kept
<1> QED
  BY <1>1, InitIsSteady, PTL DEF Spec

(* As many numbers as jobs: each number stands for one place in the list.  *)
LEMMA NumbersAreApart ==
  ASSUME NEW js \in Seq(Jobs), NEW own \in [Widgets -> Nat], Owned(js, own)
  PROVE  Cardinality(IdsOf(js)) = Len(js)
<1> DEFINE L == Len(js)
           A == 1..L
           B == IdsOf(js)
           id == [i \in A |-> js[i].id]
<1>1. L \in Nat /\ DOMAIN js = A /\ \A i \in A : js[i] \in Jobs
  OBVIOUS
<1>2. \A i \in A : js[i].of \in Widgets /\ js[i].id # 0 /\ js[i].id = own[js[i].of]
  BY <1>1 DEF Jobs, Owned
<1>3. \A i, k \in A : js[i].id = js[k].id => i = k
  BY <1>1, <1>2 DEF Owned
<1>4. B = {js[i].id : i \in A}
  BY <1>1 DEF IdsOf
<1>5. IsFiniteSet(A) /\ Cardinality(A) = L
  <2>1. IsFiniteSet(1..L) /\ Cardinality(1..L) = IF 1 > L THEN 0 ELSE L - 1 + 1
    BY <1>1, FS_Interval
  <2> HIDE DEF L
  <2> QED
    BY <1>1, <2>1
<1> HIDE DEF A, B
<1>6. id \in Bijection(A, B)
  <2>1. id \in [A -> B] /\ \A b \in B : \E i \in A : id[i] = b
    BY <1>4
  <2>2. \A i, k \in A : id[i] = id[k] => i = k
    BY <1>3
  <2> HIDE DEF id
  <2> QED
    BY <2>1, <2>2 DEF Bijection, Injection, IsInjective, Surjection
<1>7. Cardinality(B) = Cardinality(A)
  BY <1>5, <1>6, FS_Bijection DEF ExistsBijection
<1> QED
  BY <1>5, <1>7 DEF B, L

LEMMA SteadyIsOwned == IInv => JobsAreOwned
<1> SUFFICES ASSUME IInv PROVE JobsAreOwned
  OBVIOUS
<1>1. /\ jobs \in Seq(Jobs) /\ job \in [Widgets -> Nat] /\ Owned(jobs, job)
      /\ (jobs # <<>> => timer # 0)
  BY NowIs, Spelt DEF Armed
<1>2. \A i \in DOMAIN jobs : jobs[i].of \in Widgets /\ jobs[i].id # 0 /\ jobs[i].id = job[jobs[i].of]
  <2>1. \A i \in DOMAIN jobs : jobs[i] \in Jobs
    BY <1>1
  <2> QED
    BY <1>1, <2>1 DEF Jobs, Owned
<1>3. ASSUME NEW w \in Widgets, NEW i \in DOMAIN jobs
      PROVE  jobs[i].of = w <=> jobs[i].id = job[w]
  BY <1>1, <1>2 DEF Owned
<1>4. ASSUME NEW w \in Widgets
      PROVE  {i \in DOMAIN jobs : jobs[i].of = w} = {i \in DOMAIN jobs : jobs[i].id = job[w]}
  BY <1>3
<1>5. ASSUME NEW w \in Widgets, job[w] # 0 PROVE job[w] \in IdsOf(jobs)
  <2>1. PICK i \in DOMAIN jobs : jobs[i].of = w
    BY <1>1, <1>5 DEF Owned
  <2> QED
    BY <1>2, <2>1 DEF IdsOf
<1>6. Cardinality(IdsOf(jobs)) = Len(jobs)
  BY <1>1, NumbersAreApart
<1> QED
  BY <1>1, <1>4, <1>5, <1>6 DEF JobsAreOwned

(* A widget's _job is in _Anim.jobs exactly when the widget holds it, once *)
(* each, and while there is one a timer is armed: add() on a clock that is *)
(* idle or running, drop() from a frame, a second fire and the clearing at *)
(* the end of a run-all never leave a widget off a clock it waits for.     *)
THEOREM NoJobIsLost == Spec => []JobsAreOwned
BY MotionSteady, SteadyIsOwned, PTL

LEMMA SteadyIsAtRest == IInv => OffTheClockAtRest
BY NowIs DEF OffTheClockAtRest, AtEase, LaneInv

(* What is off the clock is at rest: _Lane._frame, _Pulse._frame and       *)
(* _Pill._frame say they are done only when there is nothing left to play, *)
(* and whatever sets them moving again puts them back.                     *)
THEOREM NothingStops == Spec => []OffTheClockAtRest
BY MotionSteady, SteadyIsAtRest, PTL

LEMMA SteadyIsSeen == IInv => DrawsWhatWasSeen
<1> SUFFICES ASSUME IInv PROVE DrawsWhatWasSeen
  OBVIOUS
<1>1. \A l \in Lanes : LaneInv(lane[l], job[l], seen[l], tally[l])
  BY NowIs DEF AtEase
<1>2. NothingUnseen
  BY <1>1 DEF NothingUnseen, LaneInv, ShowsKnown
<1>3. ASSUME NEW l \in Lanes, tally[l].waited /\ lane[l].rest # None
      PROVE  tally[l].through = CASE lane[l].rest = "allowed" -> lane[l].total
                                  [] lane[l].rest = "ratio" -> Smaller(lane[l].passes, lane[l].total)
                                  [] OTHER                  -> 0
  <2>1. lane[l].verdict # None
    BY <1>1, <1>3 DEF LaneInv
  <2>2. AllLearnt(lane[l], tally[l])
    BY <1>1, <1>3, <2>1 DEF LaneInv, StillWait
  <2>3. lane[l].rest = lane[l].verdict /\ tally[l].through = Admitted(lane[l])
    BY <1>3, <2>2 DEF AllLearnt
  <2> QED
    BY <2>3 DEF Admitted
<1>4. AsManyAsWereSeen
  BY <1>3 DEF AsManyAsWereSeen
<1> QED
  BY <1>2, <1>4 DEF DrawsWhatWasSeen

(* "The lane only ever animates a state the console actually observed", in *)
(* whatever order signals leave, verdicts arrive and the lane is fired     *)
(* again; and when all the signals waited for the verdict, as many get     *)
(* through as _outcome says of it: all, none, or the ratio's share.        *)
THEOREM LanesDrawWhatWasSeen == Spec => []DrawsWhatWasSeen
BY MotionSteady, SteadyIsSeen, PTL

(* Every lane implements LaneLife: it is armed by fire(), takes a verdict  *)
(* from resolve(), comes to rest on that verdict only by playing it out on *)
(* the clock, and goes blank only by being fired or cleared.               *)
THEOREM LanesAreLives == Spec => LanesLive
<1>1. Init => \A l \in Lanes : Life(l)!Init
  <2> SUFFICES ASSUME Init, NEW l \in Lanes PROVE Life(l)!Init
    OBVIOUS
  <2>1. lane[l] = Clear /\ job[l] = 0
    BY NamesApart DEF Init
  <2>2. (lane[l].total > 0) = FALSE /\ lane[l].verdict = None /\ lane[l].rest = None
        /\ (job[l] # 0) = FALSE
    BY <2>1 DEF Clear
  <2>3. LifeOf(l) = Life(l)!Unfired
    BY <2>2, LifeSpelt DEF LifeOf
  <2> QED
    BY <2>3 DEF Life!Init
<1>2. IInv /\ [Next]_vars => [\A l \in Lanes : Life(l)!Next \/ UNCHANGED LifeOf(l)]_vars
  <2> SUFFICES ASSUME IInv, [Next]_vars, NEW l \in Lanes
               PROVE  Life(l)!Next \/ UNCHANGED LifeOf(l)
    OBVIOUS
  <2>1. TypeInv /\ TypeInv' /\ Advances(Now, Now', l)
    BY StepsKeep DEF Kept, IInv
  <2> QED
    BY <2>1, AdvancesIsLife
<1> QED
  BY <1>1, <1>2, MotionSteady, PTL DEF Spec, LanesLive
=============================================================================
