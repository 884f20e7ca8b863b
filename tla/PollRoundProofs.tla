-------------------------- MODULE PollRoundProofs ---------------------------
(***************************************************************************)
(* Proofs about the rounds of the poller, for all ElastiServices, settings *)
(* of the watched namespaces, schedules and answers: a round handles what  *)
(* is in scope once, scales to zero only what Prometheus reports idle, and *)
(* respects the enabled periods.  The loops of effectiveWatchNamespaces    *)
(* and findLastTriggerTime are recursive functions; what they compute is   *)
(* proved from the least number for which it would fail.                   *)
(***************************************************************************)
EXTENDS PollRound, WellFoundedInduction, TLAPS

(* A set of natural numbers that is not empty has a least one. *)
LEMMA LeastNumber ==
  ASSUME NEW S, S \subseteq Nat, S # {}
  PROVE  \E i \in S : \A j \in S : i <= j
<1> DEFINE R == {ss \in Nat \X Nat : ss[1] < ss[2]}
<1>1. IsWellFoundedOn(R, Nat)
  BY NatLessThanWellFounded, Zenon DEF OpToRel
<1>2. PICK i \in S : \A j \in S : ~(<<j, i>> \in R)
  BY <1>1, WFMin, Zenon
<1>3. \A j \in S : i <= j
  <2> SUFFICES ASSUME NEW j \in S, ~(i <= j) PROVE FALSE
    BY Zenon
  <2>1. i \in Nat /\ j \in Nat /\ j < i
    OBVIOUS
  <2>2. <<j, i>> \in R
    BY <2>1, Zenon
  <2> QED
    BY <1>2, <2>2, Zenon
<1> QED
  BY <1>3, Zenon

(* The schedule's Next finds the first trigger after t, if there is one. *)
LEMMA NextTriggerIsNext ==
  ASSUME NEW schedule \in SUBSET Nat, NEW t \in Int
  PROVE  \/ NextTrigger(schedule, t) = -1 /\ \A y \in schedule : y <= t
         \/ /\ NextTrigger(schedule, t) \in schedule /\ NextTrigger(schedule, t) > t
            /\ \A y \in schedule : y > t => NextTrigger(schedule, t) <= y
<1> DEFINE S == {x \in schedule : x > t}
<1>1. CASE S = {}
  BY <1>1 DEF NextTrigger
<1>2. CASE S # {}
  <2>1. PICK x \in S : \A y \in S : x <= y
    BY <1>2, LeastNumber, Zenon
  <2> QED
    BY <2>1, Zenon DEF NextTrigger
<1> QED
  BY <1>1, <1>2, Zenon

(* The loop of findLastTriggerTime ends with the last trigger of the       *)
(* lookback window.                                                        *)
LEMMA LastTriggerIsLast ==
  ASSUME NEW schedule \in SUBSET Nat, NEW t \in Int, NEW lookback \in Nat
  PROVE  LET W == {x \in schedule : t - lookback < x /\ x <= t}
             l == findLastTriggerTime(schedule, t, lookback)
         IN  IF W = {} THEN l = -1 ELSE l \in W /\ \A x \in W : x <= l
<1> DEFINE D == (t - lookback) .. t
           Step(f, from) ==
             LET x == NextTrigger(schedule, from) IN
             IF x # -1 /\ x <= t THEN f[x] ELSE IF from = t - lookback THEN -1 ELSE from
           Eq(f) == f = [from \in D |-> Step(f, from)]
           last == CHOOSE f : Eq(f)
<1>1. findLastTriggerTime(schedule, t, lookback) = last[t - lookback]
  BY Zenon DEF findLastTriggerTime
<1> DEFINE Found == \E x \in schedule : x <= t
           After(from) == \E x \in schedule : from < x /\ x <= t
           m == CHOOSE x \in schedule : x <= t /\ \A y \in schedule : y <= t => y <= x
           value(from) == IF After(from) THEN m ELSE IF from = t - lookback THEN -1 ELSE from
           G == [from \in D |-> value(from)]
<1>2. ASSUME Found PROVE m \in schedule /\ m <= t /\ \A y \in schedule : y <= t => y <= m
  <2> DEFINE S == {d \in Nat : t - d \in schedule}
  <2>1. PICK x \in schedule : x <= t
    BY <1>2, Zenon
  <2>2. t - x \in S
    BY <2>1
  <2>3. PICK d \in S : \A e \in S : d <= e
    BY <2>2, LeastNumber, Zenon
  <2>4. ASSUME NEW y \in schedule, y <= t PROVE y <= t - d
    <3>1. t - y \in Nat /\ t - (t - y) = y
      BY <2>4
    <3> QED
      BY <2>3, <3>1
  <2>5. t - d \in schedule /\ t - d <= t
    BY <2>3
  <2> QED
    BY <2>4, <2>5, Zenon
<1> HIDE DEF m
<1>3. ASSUME NEW from \in D
      PROVE  LET x == NextTrigger(schedule, from) IN
             IF x # -1 /\ x <= t THEN x \in D /\ from < x /\ value(from) = value(x)
             ELSE value(from) = IF from = t - lookback THEN -1 ELSE from
  <2> DEFINE x == NextTrigger(schedule, from)
  <2>1. \/ x = -1 /\ \A y \in schedule : y <= from
        \/ x \in schedule /\ x > from /\ \A y \in schedule : y > from => x <= y
    BY NextTriggerIsNext
  <2> HIDE DEF x
  <2>0. from \in Int /\ \A y \in schedule : y \in Nat
    OBVIOUS
  <2>2. ASSUME x # -1, x <= t PROVE x \in D /\ from < x /\ value(from) = value(x)
    <3>0. x \in schedule /\ x > from /\ \A y \in schedule : y > from => x <= y
      BY <2>1, <2>2, Zenon
    <3>1. x \in Nat /\ x \in D /\ from < x /\ After(from) /\ Found /\ x # t - lookback
      BY <2>0, <2>2, <3>0
    <3>2. m \in schedule /\ m <= t /\ \A y \in schedule : y <= t => y <= m
      BY <1>2, <3>1, Zenon
    <3>3. value(from) = m
      BY <3>1, Zenon
    <3>4. CASE After(x)
      BY <3>1, <3>3, <3>4, Zenon
    <3>5. CASE ~After(x)
      <4>1. ~(x < m) /\ x <= m
        BY <2>2, <3>0, <3>2, <3>5, Zenon
      <4>2. m = x
        BY <2>0, <3>1, <3>2, <4>1
      <4> QED
        BY <3>1, <3>3, <3>5, <4>2, Zenon
    <3> QED
      BY <3>4, <3>5, Zenon
  <2>3. ASSUME ~(x # -1 /\ x <= t)
        PROVE  value(from) = IF from = t - lookback THEN -1 ELSE from
    <3>1. ASSUME NEW y \in schedule, from < y, y <= t PROVE FALSE
      <4>1. y \in Nat /\ y > from /\ ~(y <= from)
        BY <2>0, <3>1
      <4>2. x \in schedule /\ x <= y
        BY <2>1, <4>1, Zenon
      <4>3. x \in Nat
        BY <2>0, <4>2, Zenon
      <4> QED
        BY <2>3, <3>1, <4>1, <4>2, <4>3
    <3> QED
      BY <3>1, Zenon
  <2> QED
    BY <2>2, <2>3, Zenon DEF x
<1> HIDE DEF value
<1>4. Eq(G)
  <2>1. ASSUME NEW from \in D PROVE value(from) = Step(G, from)
    BY <1>3, Zenon
  <2> QED
    BY <2>1, Zenon
<1> HIDE DEF G
<1>5. Eq(last)
  BY <1>4, Zenon
<1> HIDE DEF last
<1>6. ASSUME NEW from \in D PROVE last[from] = value(from)
  <2> DEFINE B == {d \in 0 .. lookback : last[t - d] # value(t - d)}
  <2>1. ASSUME B # {} PROVE FALSE
    <3>1. PICK d \in B : \A e \in B : d <= e
      <4>1. B \subseteq Nat
        OBVIOUS
      <4> HIDE DEF B
      <4> QED
        BY <2>1, <4>1, LeastNumber, Zenon
    <3> DEFINE g == t - d
               x == NextTrigger(schedule, g)
    <3>2. g \in D
      OBVIOUS
    <3>3. last[g] = IF x # -1 /\ x <= t THEN last[x] ELSE IF g = t - lookback THEN -1 ELSE g
      BY <1>5, <3>2, Zenon
    <3>4. IF x # -1 /\ x <= t THEN x \in D /\ g < x /\ value(g) = value(x)
          ELSE value(g) = IF g = t - lookback THEN -1 ELSE g
      BY <1>3, <3>2, Zenon
    <3> HIDE DEF x
    <3>5. CASE x # -1 /\ x <= t
      <4>1. t - x \in 0 .. lookback /\ t - x < d /\ t - (t - x) = x
        BY <3>4, <3>5
      <4>2. last[x] = value(x)
        BY <3>1, <4>1
      <4> QED
        BY <3>1, <3>3, <3>4, <3>5, <4>2, Zenon
    <3>6. CASE ~(x # -1 /\ x <= t)
      BY <3>1, <3>3, <3>4, <3>6, Zenon
    <3> QED
      BY <3>5, <3>6, Zenon
  <2>2. t - from \in 0 .. lookback /\ t - (t - from) = from
    OBVIOUS
  <2> QED
    BY <2>1, <2>2, Zenon
<1>7. t - lookback \in D
  OBVIOUS
<1>8. findLastTriggerTime(schedule, t, lookback) = value(t - lookback)
  BY <1>1, <1>6, <1>7, Zenon
<1> DEFINE W == {x \in schedule : t - lookback < x /\ x <= t}
<1>9. CASE W = {}
  <2>1. ~After(t - lookback)
    BY <1>9, Zenon
  <2> QED
    BY <1>8, <1>9, <2>1, Zenon DEF value
<1>10. CASE W # {}
  <2>1. PICK x \in schedule : t - lookback < x /\ x <= t
    BY <1>10, Zenon
  <2>2. m \in schedule /\ m <= t /\ \A y \in schedule : y <= t => y <= m
    BY <1>2, <2>1, Zenon
  <2>3. m \in W /\ \A y \in W : y <= m
    BY <2>1, <2>2
  <2>4. value(t - lookback) = m
    BY <2>1, Zenon DEF value
  <2> QED
    BY <1>8, <1>10, <2>3, <2>4, Zenon
<1> QED
  BY <1>9, <1>10, Zenon

(* The enabled period is found by looking back as far as the duration and  *)
(* a day: a trigger before that is too old to matter.                      *)
LEMMA PeriodIsFound ==
  ASSUME NEW i \in Items, i.period # NoPeriod, NEW t \in Nat
  PROVE  isInEnabledPeriod(i.period, t) <=> Enabled(i.period, t)
<1> DEFINE schedule == scheduleOf(i.period)
           duration == durationOf(i.period)
           l == findLastTriggerTime(schedule, t, duration + Day)
           W == {x \in schedule : t - (duration + Day) < x /\ x <= t}
<1>1. schedule \in SUBSET Nat /\ duration \in Int /\ Day \in Nat \ {0}
  BY PollAssumption DEF scheduleOf, durationOf
<1>2. /\ isInEnabledPeriod(i.period, t) <=> duration > 0 /\ l # -1 /\ t < l + duration
      /\ Enabled(i.period, t) <=> \E x \in schedule : x <= t /\ t < x + duration
  BY Zenon DEF isInEnabledPeriod, IsInEnabledPeriodAt, Enabled
<1>3. ASSUME duration > 0 PROVE IF W = {} THEN l = -1 ELSE l \in W /\ \A x \in W : x <= l
  <2>1. duration + Day \in Nat /\ t \in Int
    BY <1>1, <1>3
  <2> HIDE DEF schedule, duration
  <2> QED
    BY <1>1, <2>1, LastTriggerIsLast, Zenon
<1> HIDE DEF schedule, duration, l
<1>4. ASSUME NEW x \in schedule, x <= t, t < x + duration PROVE duration > 0 /\ x \in W
  BY <1>1, <1>4
<1>5. ASSUME isInEnabledPeriod(i.period, t) PROVE Enabled(i.period, t)
  <2>1. l \in schedule /\ l <= t
    BY <1>2, <1>3, <1>5, Zenon
  <2> QED
    BY <1>2, <1>5, <2>1, Zenon
<1>6. ASSUME Enabled(i.period, t) PROVE isInEnabledPeriod(i.period, t)
  <2>1. PICK x \in schedule : x <= t /\ t < x + duration
    BY <1>2, <1>6, Zenon
  <2>2. duration > 0 /\ x \in W
    BY <1>4, <2>1, Zenon
  <2>3. l \in W /\ x <= l
    BY <1>3, <2>2, Zenon
  <2>4. l \in Nat /\ x \in Nat
    BY <1>1, <2>3, Zenon
  <2> QED
    BY <1>1, <1>2, <2>1, <2>2, <2>3, <2>4
<1> QED
  BY <1>5, <1>6, Zenon

-----------------------------------------------------------------------------
(* The namespaces of a round.                                              *)

(* What the loop of effectiveWatchNamespaces has put out after n of the    *)
(* names, given what f says of the names before.                           *)
Kept(all, first, f, n) ==
  IF n = 0 THEN <<>> ELSE IF n \in first THEN Append(f[n - 1], all[n]) ELSE f[n - 1]

(* The loop can be run over any names. *)
LEMMA LoopRuns ==
  ASSUME NEW all, NEW first, NEW N \in Nat
  PROVE  \E f : f = [n \in 0 .. N |-> Kept(all, first, f, n)]
<1> DEFINE Runs(L) == \E f : f = [n \in 0 .. L |-> Kept(all, first, f, n)]
           B == {L \in Nat : ~Runs(L)}
<1>1. ASSUME B # {} PROVE FALSE
  <2>1. PICK L \in B : \A M \in B : L <= M
    <3>1. B \subseteq Nat
      BY Zenon
    <3> HIDE DEF B
    <3> QED
      BY <1>1, <3>1, LeastNumber, Zenon
  <2>2. CASE L = 0
    <3> DEFINE f == [n \in 0 .. 0 |-> <<>>]
    <3>1. f = [n \in 0 .. 0 |-> Kept(all, first, f, n)]
      BY DEF Kept
    <3>2. Runs(0)
      BY <3>1, Zenon
    <3> QED
      BY <2>1, <2>2, <3>2, Zenon
  <2>3. CASE L # 0
    <3>1. L - 1 \in Nat /\ L \in Nat /\ ~(L <= L - 1)
      BY <2>3
    <3>2. Runs(L - 1)
      BY <2>1, <3>1, Zenon
    <3>3. PICK f : f = [n \in 0 .. L - 1 |-> Kept(all, first, f, n)]
      BY <3>2, Zenon
    <3> DEFINE g == [n \in 0 .. L |-> Kept(all, first, f, n)]
    <3>4. ASSUME NEW n \in 0 .. L PROVE Kept(all, first, f, n) = Kept(all, first, g, n)
      <4>1. CASE n = 0
        BY <4>1, Zenon DEF Kept
      <4>2. CASE n # 0
        <5>1. n - 1 \in 0 .. L - 1 /\ n - 1 \in 0 .. L
          BY <3>1, <4>2
        <5>2. g[n - 1] = f[n - 1]
          BY <3>3, <5>1, Zenon
        <5> QED
          BY <4>2, <5>2, Zenon DEF Kept
      <4> QED
        BY <4>1, <4>2, Zenon
    <3>5. g = [n \in 0 .. L |-> Kept(all, first, g, n)]
      BY <3>4, Zenon
    <3>6. Runs(L)
      BY <3>5, Zenon
    <3> QED
      BY <2>1, <3>6, Zenon
  <2> QED
    BY <2>2, <2>3, Zenon
<1> QED
  BY <1>1, Zenon

(* What effectiveWatchNamespaces has put out after n of the names: each of *)
(* them once, but for the empty one.                                       *)
PutOut(all, q, n) ==
  /\ \A k, l \in 1 .. Len(q) : q[k] = q[l] => k = l
  /\ \A k \in 1 .. Len(q) : q[k] # NamespaceAll /\ \E m \in 1 .. n : q[k] = all[m]
  /\ \A m \in 1 .. n : all[m] # NamespaceAll => \E k \in 1 .. Len(q) : q[k] = all[m]

Firsts(all) ==
  {n \in DOMAIN all : all[n] # NamespaceAll /\ \A m \in 1 .. n - 1 : all[m] # all[n]}

(* A name that was seen before, or is empty, is left out; a new one is put *)
(* out.                                                                    *)
LEMMA LoopStep ==
  ASSUME NEW S, NEW all \in Seq(S), NEW n \in 1 .. Len(all), NEW q \in Seq(S),
         PutOut(all, q, n - 1)
  PROVE  IF n \in Firsts(all)
         THEN Append(q, all[n]) \in Seq(S) /\ PutOut(all, Append(q, all[n]), n)
         ELSE PutOut(all, q, n)
<1>0. /\ 1 .. n = (1 .. n - 1) \cup {n} /\ all[n] \in S
      /\ \A m \in 1 .. n : m \in 1 .. n - 1 \/ m = n
  OBVIOUS
<1>p. /\ \A k, l \in 1 .. Len(q) : q[k] = q[l] => k = l
      /\ \A k \in 1 .. Len(q) : q[k] # NamespaceAll /\ \E m \in 1 .. n - 1 : q[k] = all[m]
      /\ \A m \in 1 .. n - 1 : all[m] # NamespaceAll => \E k \in 1 .. Len(q) : q[k] = all[m]
  BY Zenon DEF PutOut
<1>1. CASE n \in Firsts(all)
  <2> DEFINE r == Append(q, all[n])
  <2>1. /\ r \in Seq(S) /\ 1 .. Len(r) = (1 .. Len(q)) \cup {Len(q) + 1}
        /\ \A k \in 1 .. Len(r) : k \in 1 .. Len(q) \/ k = Len(q) + 1
        /\ r[Len(q) + 1] = all[n] /\ \A k \in 1 .. Len(q) : r[k] = q[k]
    BY <1>0
  <2>2. all[n] # NamespaceAll /\ \A m \in 1 .. n - 1 : all[m] # all[n]
    BY <1>1, Zenon DEF Firsts
  <2> HIDE DEF r
  <2>3. \A k, l \in 1 .. Len(r) : r[k] = r[l] => k = l
    <3>1. ASSUME NEW k \in 1 .. Len(q) PROVE r[k] # r[Len(q) + 1]
      BY <1>p, <2>1, <2>2
    <3>2. ASSUME NEW k \in 1 .. Len(q), NEW l \in 1 .. Len(q), r[k] = r[l] PROVE k = l
      BY <1>p, <2>1, <3>2
    <3> QED
      BY <2>1, <3>1, <3>2, Zenon
  <2>4. \A k \in 1 .. Len(r) : r[k] # NamespaceAll /\ \E m \in 1 .. n : r[k] = all[m]
    <3>1. ASSUME NEW k \in 1 .. Len(q)
          PROVE  r[k] # NamespaceAll /\ \E m \in 1 .. n : r[k] = all[m]
      <4>1. PICK m \in 1 .. n - 1 : q[k] = all[m]
        BY <1>p, Zenon
      <4>2. m \in 1 .. n
        BY <1>0, Zenon
      <4> QED
        BY <1>p, <2>1, <4>1, <4>2, Zenon
    <3>2. r[Len(q) + 1] # NamespaceAll /\ \E m \in 1 .. n : r[Len(q) + 1] = all[m]
      BY <1>0, <2>1, <2>2, Zenon
    <3> QED
      BY <2>1, <3>1, <3>2, Zenon
  <2>5. \A m \in 1 .. n : all[m] # NamespaceAll => \E k \in 1 .. Len(r) : r[k] = all[m]
    <3>1. ASSUME NEW m \in 1 .. n - 1, all[m] # NamespaceAll
          PROVE  \E k \in 1 .. Len(r) : r[k] = all[m]
      <4>1. PICK k \in 1 .. Len(q) : q[k] = all[m]
        BY <1>p, <3>1, Zenon
      <4>2. k \in 1 .. Len(r)
        BY <2>1, Zenon
      <4> QED
        BY <2>1, <4>1, <4>2, Zenon
    <3>2. \E k \in 1 .. Len(r) : r[k] = all[n]
      BY <2>1, Zenon
    <3> QED
      BY <1>0, <3>1, <3>2, Zenon
  <2> QED
    BY <1>1, <2>1, <2>3, <2>4, <2>5, Zenon DEF r, PutOut
<1>2. CASE n \notin Firsts(all)
  <2>1. n \in DOMAIN all
    OBVIOUS
  <2>2. all[n] = NamespaceAll \/ \E m \in 1 .. n - 1 : all[m] = all[n]
    BY <1>2, <2>1, Zenon DEF Firsts
  <2> QED
    <3>1. \A k \in 1 .. Len(q) : q[k] # NamespaceAll /\ \E m \in 1 .. n : q[k] = all[m]
      BY <1>0, <1>p, Zenon
    <3>2. \A m \in 1 .. n : all[m] # NamespaceAll => \E k \in 1 .. Len(q) : q[k] = all[m]
      BY <1>0, <1>p, <2>2, Zenon
    <3> QED
      BY <1>p, <1>2, <3>1, <3>2, Zenon DEF PutOut
<1> QED
  BY <1>1, <1>2, Zenon

(* So the loop puts out every name once. *)
LEMMA LoopPutsOut ==
  ASSUME NEW S, NEW all \in Seq(S), NEW out,
         out = [n \in 0 .. Len(all) |-> Kept(all, Firsts(all), out, n)]
  PROVE  \A n \in 0 .. Len(all) : out[n] \in Seq(S) /\ PutOut(all, out[n], n)
<1> DEFINE B == {n \in 0 .. Len(all) : ~(out[n] \in Seq(S) /\ PutOut(all, out[n], n))}
<1>1. ASSUME B # {} PROVE FALSE
  <2>1. PICK n \in B : \A m \in B : n <= m
    <3>1. B \subseteq Nat
      OBVIOUS
    <3> HIDE DEF B
    <3> QED
      BY <1>1, <3>1, LeastNumber, Zenon
  <2>2. out[n] = Kept(all, Firsts(all), out, n)
    BY Zenon
  <2>3. CASE n = 0
    <3>1. out[n] = <<>>
      BY <2>2, <2>3, Zenon DEF Kept
    <3> QED
      BY <2>1, <2>3, <3>1 DEF PutOut
  <2>4. CASE n # 0
    <3>1. n \in 1 .. Len(all) /\ n - 1 \in 0 .. Len(all) /\ ~(n <= n - 1)
      BY <2>4
    <3>2. out[n - 1] \in Seq(S) /\ PutOut(all, out[n - 1], n - 1)
      BY <2>1, <3>1, Zenon
    <3>3. out[n] = IF n \in Firsts(all) THEN Append(out[n - 1], all[n]) ELSE out[n - 1]
      BY <2>2, <2>4, Zenon DEF Kept
    <3>4. out[n] \in Seq(S) /\ PutOut(all, out[n], n)
      BY <3>1, <3>2, <3>3, LoopStep, Zenon
    <3> QED
      BY <2>1, <3>4, Zenon
  <2> QED
    BY <2>3, <2>4, Zenon
<1> QED
  BY <1>1, Zenon

(* The queries that a round has to make: one for all namespaces, or one    *)
(* for each that is watched and for those of operator and resolver.        *)
ScopeOf(w) ==
  IF w = <<>> THEN {NamespaceAll}
  ELSE (Range(w) \cup {OperatorNS, ResolverNS}) \ {NamespaceAll}

Once(q) == \A k, l \in 1 .. Len(q) : q[k] = q[l] => k = l

(* A round begins with every query it has to make, once. *)
LEMMA RoundQueries ==
  ASSUME NEW w \in Watches, NEW q, q = listNamespaces(effectiveWatchNamespaces(w))
  PROVE  /\ q \in Seq(ScopeOf(w)) /\ Once(q)
         /\ \A x \in ScopeOf(w) : \E k \in 1 .. Len(q) : q[k] = x
<1>1. CASE w = <<>>
  <2>1. q = <<NamespaceAll>>
    BY <1>1, Zenon DEF listNamespaces, effectiveWatchNamespaces
  <2> QED
    <3>1. /\ q \in Seq({NamespaceAll}) /\ 1 .. Len(q) = {1} /\ q[1] = NamespaceAll
      BY <2>1
    <3>2. ScopeOf(w) = {NamespaceAll}
      BY <1>1, Zenon DEF ScopeOf
    <3> QED
      BY <3>1, <3>2, Zenon DEF Once
<1>2. CASE w # <<>>
  <2> DEFINE U == UNION {Range(v) : v \in Watches}
             S == U \cup {OperatorNS, ResolverNS}
             all == w \o <<OperatorNS, ResolverNS>>
             out == CHOOSE f : f = [n \in 0 .. Len(all) |-> Kept(all, Firsts(all), f, n)]
             e == out[Len(all)]
  <2>1. w \in Seq(U)
    BY PollAssumption, Zenon
  <2>2. w \in Seq(S)
    BY <2>1
  <2> HIDE DEF U
  <2>3. /\ all \in Seq(S) /\ Len(all) = Len(w) + 2
        /\ \A m \in 1 .. Len(w) : all[m] = w[m]
        /\ all[Len(w) + 1] = OperatorNS /\ all[Len(w) + 2] = ResolverNS
    BY <2>2
  <2>4. effectiveWatchNamespaces(w) = e
    BY <1>2, Zenon DEF effectiveWatchNamespaces, Kept, Firsts
  <2> HIDE DEF S, all
  <2>5. \E f : f = [n \in 0 .. Len(all) |-> Kept(all, Firsts(all), f, n)]
    <3>1. Len(all) \in Nat
      BY <2>3
    <3> QED
      BY <3>1, LoopRuns, Zenon
  <2>6. out = [n \in 0 .. Len(all) |-> Kept(all, Firsts(all), out, n)]
    BY <2>5, Zenon
  <2> HIDE DEF out
  <2>7. Len(all) \in 0 .. Len(all)
    BY <2>3
  <2>8. e \in Seq(S) /\ PutOut(all, e, Len(all))
    BY <2>3, <2>6, <2>7, LoopPutsOut, Zenon
  <2> HIDE DEF e
  <2>9. Len(w) + 1 \in 1 .. Len(all) /\ Len(w) + 2 \in 1 .. Len(all)
    BY <2>2, <2>3
  <2>10. \E k \in 1 .. Len(e) : e[k] = OperatorNS
    BY <2>3, <2>8, <2>9, PollAssumption, Zenon DEF PutOut
  <2>11. q = e
    BY <2>4, <2>10 DEF listNamespaces
  <2>12. ASSUME NEW k \in 1 .. Len(e) PROVE e[k] \in ScopeOf(w)
    <3>1. PICK m \in 1 .. Len(all) : e[k] = all[m] /\ e[k] # NamespaceAll
      BY <2>8, Zenon DEF PutOut
    <3>2. m \in 1 .. Len(w) \/ m = Len(w) + 1 \/ m = Len(w) + 2
      BY <2>2, <2>3
    <3>3. \A j \in 1 .. Len(w) : w[j] \in Range(w)
      BY <2>2 DEF Range
    <3> QED
      BY <1>2, <2>3, <3>1, <3>2, <3>3, Zenon DEF ScopeOf
  <2>13. ASSUME NEW x \in ScopeOf(w) PROVE \E k \in 1 .. Len(e) : e[k] = x
    <3>1. x # NamespaceAll /\ x \in Range(w) \cup {OperatorNS, ResolverNS}
      BY <1>2, <2>13, Zenon DEF ScopeOf
    <3>2. \E m \in 1 .. Len(all) : all[m] = x
      <4>1. CASE x \in Range(w)
        <5>1. PICK m \in 1 .. Len(w) : w[m] = x
          BY <2>2, <4>1 DEF Range
        <5>2. m \in 1 .. Len(all)
          BY <2>2, <2>3
        <5> QED
          BY <2>3, <5>1, <5>2, Zenon
      <4>2. CASE x \in {OperatorNS, ResolverNS}
        BY <2>3, <2>9, <4>2, Zenon
      <4> QED
        BY <3>1, <4>1, <4>2, Zenon
    <3> QED
      BY <2>8, <3>1, <3>2, Zenon DEF PutOut
  <2>14. e \in Seq(ScopeOf(w))
    BY <2>8, <2>12
  <2> QED
    BY <2>8, <2>11, <2>13, <2>14, ZenonT(40) DEF PutOut, Once
<1> QED
  BY <1>1, <1>2, Zenon

-----------------------------------------------------------------------------
(* The round.                                                              *)

Handling == {"calculate", "health", "metric", "up", "keepUp", "down"}

Waiting(i) == \E k \in 1 .. Len(queries) : queries[k] = QueryFor(i)

(* What has become of an ElastiService in this round: its query is still   *)
(* to be made, or it is listed, or it was handled, or its query failed.    *)
Turn(i) ==
  /\ ~InScope(i) => turns[i] = 0 /\ i \notin listed
  /\ InScope(i) => turns[i] \in {0, 1}
  /\ InScope(i) /\ Waiting(i) => turns[i] = 0 /\ i \notin listed
  /\ i \in listed => turns[i] = 0
  /\ InScope(i) /\ pc # "wait" =>
       Waiting(i) \/ i \in listed \/ turns[i] = 1 \/ QueryFor(i) \in unlisted

(* The inductive invariant of a round. *)
RoundInv ==
  /\ watch \in Watches
  /\ queries \in Seq(ScopeOf(watch)) /\ Once(queries)
  /\ listed \subseteq Items
  /\ turns = [i \in Items |-> turns[i]]
  /\ pc \in {"wait", "list"} => listed = {}
  /\ \A i \in Items : Turn(i)

(* The inductive invariant of the handling of an ElastiService.  As long   *)
(* as it may end in "down", all answers say that it is idle, or one left   *)
(* out the value.                                                          *)
ItemInv ==
  /\ now \in Nat
  /\ listed \subseteq Items
  /\ pc \in Handling => item \in Items
  /\ pc \in {"calculate", "health", "metric", "down"} => idle \/ omitted
  /\ PeriodRespected

(* An ElastiService in scope is listed by a query of the round, and a      *)
(* query of the round lists those in scope that it is for.                 *)
LEMMA QueryInScope ==
  ASSUME NEW i \in Items
  PROVE  /\ InScope(i) => QueryFor(i) \in ScopeOf(watch)
         /\ \A x \in ScopeOf(watch) :
              x \in {NamespaceAll, i.namespace} <=> InScope(i) /\ QueryFor(i) = x
BY PollAssumption, Zenon DEF InScope, InScopeOf, QueryFor, ScopeOf

(* Taking the first query off leaves all others. *)
LEMMA QueryTaken ==
  ASSUME NEW S, NEW q \in Seq(S), q # <<>>, Once(q)
  PROVE  /\ Head(q) \in S /\ Tail(q) \in Seq(S) /\ Once(Tail(q))
         /\ \A k \in 1 .. Len(Tail(q)) : Tail(q)[k] # Head(q)
         /\ \E k \in 1 .. Len(q) : q[k] = Head(q)
         /\ \A x : (\E k \in 1 .. Len(q) : q[k] = x) =>
                     x = Head(q) \/ \E k \in 1 .. Len(Tail(q)) : Tail(q)[k] = x
         /\ \A x : (\E k \in 1 .. Len(Tail(q)) : Tail(q)[k] = x) => \E k \in 1 .. Len(q) : q[k] = x
<1>1. /\ Head(q) = q[1] /\ Head(q) \in S /\ Tail(q) \in Seq(S) /\ Len(q) \in Nat \ {0}
      /\ Len(Tail(q)) = Len(q) - 1
      /\ \A k \in 1 .. Len(q) - 1 : Tail(q)[k] = q[k + 1]
  OBVIOUS
<1>2. \A k \in 1 .. Len(q) - 1 : k + 1 \in 1 .. Len(q) /\ k + 1 # 1
  BY <1>1
<1>3. 1 \in 1 .. Len(q)
  BY <1>1
<1>4. Once(Tail(q))
  BY <1>1, <1>2 DEF Once
<1>5. \A k \in 1 .. Len(Tail(q)) : Tail(q)[k] # Head(q)
  BY <1>1, <1>2, <1>3 DEF Once
<1>6. ASSUME NEW k \in 1 .. Len(q)
      PROVE  q[k] = Head(q) \/ \E l \in 1 .. Len(Tail(q)) : Tail(q)[l] = q[k]
  <2>1. k = 1 \/ (k - 1 \in 1 .. Len(q) - 1 /\ (k - 1) + 1 = k)
    BY <1>1
  <2> QED
    BY <1>1, <2>1, Zenon
<1>7. ASSUME NEW k \in 1 .. Len(Tail(q)) PROVE \E l \in 1 .. Len(q) : q[l] = Tail(q)[k]
  BY <1>1, <1>2, Zenon
<1> QED
  BY <1>1, <1>3, <1>4, <1>5, <1>6, <1>7, ZenonT(40)

(* No round has begun. *)
LEMMA RoundInvInit == Init => RoundInv
<1> SUFFICES ASSUME Init PROVE RoundInv
  BY Zenon
<1>1. queries = <<>> /\ Len(queries) = 0 /\ queries \in Seq(ScopeOf(watch))
  BY DEF Init
<1> QED
  BY <1>1 DEF Init, RoundInv, Turn, Waiting, Once

(* A round begins with nothing listed, nothing handled and no failure. *)
LEMMA BeginKeeps == ASSUME RoundInv, Begin PROVE RoundInv'
<1>1. /\ watch' = watch /\ watch \in Watches /\ listed' = {} /\ pc' = "list"
      /\ turns' = [i \in Items |-> 0]
  BY Zenon DEF Begin, RoundInv
<1>2. /\ queries' \in Seq(ScopeOf(watch)) /\ Once(queries')
      /\ \A x \in ScopeOf(watch) : \E k \in 1 .. Len(queries') : queries'[k] = x
  <2>1. queries' = listNamespaces(effectiveWatchNamespaces(watch))
    BY Zenon DEF Begin
  <2> QED
    BY <1>1, <2>1, RoundQueries
<1>3. ASSUME NEW i \in Items PROVE Turn(i)'
  <2>1. InScope(i)' = InScope(i) /\ QueryFor(i)' = QueryFor(i)
    BY <1>1, Zenon DEF InScope, QueryFor
  <2>2. InScope(i)' => Waiting(i)'
    BY <1>2, <2>1, QueryInScope, Zenon DEF Waiting
  <2>3. turns'[i] = 0 /\ i \notin listed'
    BY <1>1, Zenon
  <2> QED
    BY <2>2, <2>3, Zenon DEF Turn
<1>4. ScopeOf(watch)' = ScopeOf(watch) /\ Once(queries)' = Once(queries')
  BY <1>1, Zenon DEF ScopeOf, Once
<1> QED
  BY <1>1, <1>2, <1>3, <1>4, Zenon DEF RoundInv

(* A query lists those it is for, or fails for them. *)
LEMMA ListKeeps == ASSUME RoundInv, NEW ok \in BOOLEAN, List(ok) PROVE RoundInv'
<1> DEFINE ns == Head(queries)
<1>1. /\ watch' = watch /\ watch \in Watches /\ listed = {} /\ queries' = Tail(queries)
      /\ pc = "list" /\ pc' = "next" /\ turns' = turns /\ turns = [i \in Items |-> turns[i]]
      /\ listed' = IF ok THEN {i \in Items : ns \in {NamespaceAll, i.namespace}} ELSE {}
      /\ unlisted' = IF ok THEN unlisted ELSE unlisted \cup {ns}
  BY Zenon DEF List, RoundInv
<1>2. queries \in Seq(ScopeOf(watch)) /\ queries # <<>> /\ Once(queries)
  BY Zenon DEF List, RoundInv
<1>3. /\ ns \in ScopeOf(watch) /\ queries' \in Seq(ScopeOf(watch)) /\ Once(queries')
      /\ \A k \in 1 .. Len(queries') : queries'[k] # ns
      /\ \E k \in 1 .. Len(queries) : queries[k] = ns
      /\ \A x : (\E k \in 1 .. Len(queries) : queries[k] = x) =>
                  x = ns \/ \E k \in 1 .. Len(queries') : queries'[k] = x
      /\ \A x : (\E k \in 1 .. Len(queries') : queries'[k] = x)
                  => \E k \in 1 .. Len(queries) : queries[k] = x
  <2> DEFINE rest == Tail(queries)
  <2>1. /\ ns \in ScopeOf(watch) /\ rest \in Seq(ScopeOf(watch)) /\ Once(rest)
        /\ \A k \in 1 .. Len(rest) : rest[k] # ns
        /\ \E k \in 1 .. Len(queries) : queries[k] = ns
        /\ \A x : (\E k \in 1 .. Len(queries) : queries[k] = x) =>
                    x = ns \/ \E k \in 1 .. Len(rest) : rest[k] = x
        /\ \A x : (\E k \in 1 .. Len(rest) : rest[k] = x)
                    => \E k \in 1 .. Len(queries) : queries[k] = x
    BY <1>2, QueryTaken, Zenon
  <2>2. queries' = rest
    BY <1>1, Zenon
  <2> HIDE DEF rest, ns
  <2> QED
    BY <2>1, <2>2, Zenon
<1> HIDE DEF ns
<1>4. ASSUME NEW i \in Items PROVE Turn(i)'
  <2>1. InScope(i)' = InScope(i) /\ QueryFor(i)' = QueryFor(i)
    BY <1>1, Zenon DEF InScope, QueryFor
  <2>2. /\ Waiting(i)' => Waiting(i) /\ QueryFor(i) # ns
        /\ Waiting(i) => QueryFor(i) = ns \/ Waiting(i)'
        /\ QueryFor(i) = ns => Waiting(i)
    BY <1>3, <2>1, Zenon DEF Waiting
  <2>3. i \in listed' <=> ok /\ InScope(i) /\ QueryFor(i) = ns
    BY <1>1, <1>3, QueryInScope, Zenon
  <2>4. QueryFor(i) \in unlisted' <=> QueryFor(i) \in unlisted \/ (~ok /\ QueryFor(i) = ns)
    BY <1>1, Zenon
  <2>5. Turn(i) /\ i \notin listed
    BY <1>1, Zenon DEF RoundInv
  <2> QED
    BY <1>1, <2>1, <2>2, <2>3, <2>4, <2>5, Zenon DEF Turn
<1>5. ScopeOf(watch)' = ScopeOf(watch) /\ Once(queries)' = Once(queries')
  BY <1>1, Zenon DEF ScopeOf, Once
<1>6. listed' \subseteq Items
  BY <1>1, Zenon
<1> QED
  BY <1>1, <1>3, <1>4, <1>5, <1>6, Zenon DEF RoundInv

(* An ElastiService is taken off the list when its turn comes. *)
LEMMA NextItemKeeps == ASSUME RoundInv, NextItem PROVE RoundInv'
<1>1. UNCHANGED <<watch, queries, unlisted>> /\ pc = "next"
  BY Zenon DEF NextItem
<1>2. ASSUME NEW i PROVE InScope(i)' = InScope(i) /\ QueryFor(i)' = QueryFor(i) /\ Waiting(i)' = Waiting(i)
  BY <1>1, Zenon DEF InScope, QueryFor, Waiting
<1>3. ScopeOf(watch)' = ScopeOf(watch) /\ Once(queries)' = Once(queries)
  BY <1>1, Zenon DEF ScopeOf, Once
<1>4. CASE listed = {} /\ pc' = "list" /\ UNCHANGED <<listed, turns>>
  BY <1>1, <1>2, <1>3, <1>4 DEF RoundInv, Turn
<1>5. ASSUME NEW i \in listed, listed' = listed \ {i}, pc' = "calculate",
             turns' = [turns EXCEPT ![i] = @ + 1]
      PROVE  RoundInv'
  <2>1. i \in Items /\ turns[i] = 0 /\ turns = [j \in Items |-> turns[j]] /\ InScope(i) /\ ~Waiting(i)
    BY <1>5, Zenon DEF RoundInv, Turn
  <2>2. turns'[i] = 1 /\ \A j \in Items \ {i} : turns'[j] = turns[j]
    BY <1>5, <2>1
  <2>3. turns' = [j \in Items |-> turns'[j]]
    BY <1>5, <2>1, Zenon
  <2>4. ASSUME NEW j \in Items PROVE Turn(j)'
    BY <1>1, <1>2, <1>5, <2>1, <2>2 DEF RoundInv, Turn
  <2> QED
    BY <1>1, <1>3, <1>5, <2>3, <2>4, Zenon DEF RoundInv
<1> QED
  BY <1>4, <1>5, Zenon DEF NextItem

(* After a restart no round has begun. *)
LEMMA RestartKeeps == ASSUME RoundInv, Restart PROVE RoundInv'
<1>1. /\ watch' = watch /\ watch \in Watches /\ queries' = <<>> /\ listed' = {}
      /\ pc' = "wait" /\ turns' = [i \in Items |-> 0]
  BY Zenon DEF Restart, RoundInv
<1>2. queries' \in Seq(ScopeOf(watch')) /\ Len(queries') = 0
  BY <1>1
<1> QED
  BY <1>1, <1>2 DEF RoundInv, Turn, Waiting, Once

(* The rest of the round changes neither lists nor turns. *)
LEMMA OthersKeep ==
  ASSUME RoundInv, UNCHANGED <<watch, queries, listed, turns, unlisted>>,
         pc' = pc \/ (pc # "wait" /\ pc' \notin {"wait", "list"}) \/ (pc = "list" /\ pc' = "wait")
  PROVE  RoundInv'
<1>1. ASSUME NEW i
      PROVE  InScope(i)' = InScope(i) /\ QueryFor(i)' = QueryFor(i) /\ Waiting(i)' = Waiting(i)
  BY Zenon DEF InScope, QueryFor, Waiting
<1>2. ScopeOf(watch)' = ScopeOf(watch) /\ Once(queries)' = Once(queries)
  BY Zenon DEF ScopeOf, Once
<1>3. ASSUME NEW i \in Items PROVE Turn(i)'
  BY <1>1 DEF RoundInv, Turn
<1> QED
  BY <1>2, <1>3, Zenon DEF RoundInv

(* The invariant of the round holds in every reachable state. *)
LEMMA RoundInvHolds == Spec => []RoundInv
<1>1. RoundInv /\ [Next]_vars => RoundInv'
  <2> SUFFICES ASSUME RoundInv, [Next]_vars PROVE RoundInv'
    BY Zenon
  <2>1. CASE UNCHANGED vars
    BY <2>1, OthersKeep, Zenon DEF vars, round
  <2>2. CASE End
    BY <2>2, OthersKeep, Zenon DEF End
  <2>3. CASE Calculate
    BY <2>3, OthersKeep, Zenon DEF Calculate
  <2>4. CASE NoScaler
    BY <2>4, OthersKeep, Zenon DEF NoScaler
  <2>5. CASE Act
    BY <2>5, OthersKeep, Zenon DEF Act
  <2>6. ASSUME NEW a \in Answers, CheckHealth(a) PROVE RoundInv'
    BY <2>6, OthersKeep, Zenon DEF CheckHealth
  <2>7. ASSUME NEW a \in Answers, CheckMetric(a) PROVE RoundInv'
    BY <2>7, OthersKeep, Zenon DEF CheckMetric
  <2>8. CASE Advance \/ Settle
    BY <2>8, OthersKeep, Zenon DEF Advance, Settle, round
  <2> QED
    BY <2>1, <2>2, <2>3, <2>4, <2>5, <2>6, <2>7, <2>8, BeginKeeps, ListKeeps, NextItemKeeps,
       RestartKeeps, Zenon
       DEF Next, Poller
<1> QED
  BY <1>1, RoundInvInit, PTL DEF Spec

(* A round of checkAndScale handles every ElastiService in scope once,     *)
(* unless its namespace could not be listed, and none out of scope,        *)
(* whatever namespaces are watched.                                        *)
THEOREM RoundHandlesOnce == Spec => []OnceInScope
<1>1. RoundInv => OnceInScope
  <2> SUFFICES ASSUME RoundInv, NEW i \in Items
               PROVE  /\ turns[i] <= IF InScope(i) THEN 1 ELSE 0
                      /\ pc = "list" /\ queries = <<>> /\ InScope(i) /\ QueryFor(i) \notin unlisted
                           => turns[i] = 1
    BY Zenon DEF OnceInScope
  <2>1. Turn(i) /\ (pc = "list" => listed = {})
    BY Zenon DEF RoundInv
  <2>2. queries = <<>> => ~Waiting(i)
    BY DEF Waiting
  <2> QED
    BY <2>1, <2>2 DEF Turn
<1> QED
  BY <1>1, RoundInvHolds, PTL

-----------------------------------------------------------------------------
(* The handling of an ElastiService.                                       *)

(* An answer that leaves nothing out, and that the scaler takes for        *)
(* healthy or for idle, says so.                                           *)
LEMMA AnswerIsTaken ==
  ASSUME NEW a \in Answers, ~Omits(a), NEW threshold
  PROVE  /\ IsHealthy(executePromQuery(a)) => a = Answer("1", Number(1))
         /\ ShouldScaleToZero(executePromQuery(a), threshold) =>
              \E n \in Metrics : a = Answer("1", Number(n)) /\ n < threshold
<1> DEFINE v == executePromQuery(a)
<1>1. a.results \in {"error", "scalar"} => v = Failed
  BY Zenon DEF executePromQuery
<1>2. ASSUME a.results \notin {"error", "scalar"}
      PROVE  Decode(a) = a
  BY <1>2, Zenon DEF Decode, Omits
<1>3. ASSUME a.results \notin {"error", "scalar"}
      PROVE  v = IF a.results # "1" \/ a.value.kind = "unusable" THEN Failed
                 ELSE IF a.value.kind = "other" THEN Panicked
                 ELSE IF a.value.kind = "null" THEN Number(-1) ELSE a.value
  BY <1>2, <1>3 DEF executePromQuery, Answers, Omits, Answer, Value, Number, Unusable
<1> HIDE DEF v
<1>4. IsHealthy(v) => a = Answer("1", Number(1))
  BY <1>1, <1>3 DEF IsHealthy, Answers, Omits, Answer, Value, Number, Unusable, Failed, Panicked
<1>5. ShouldScaleToZero(v, threshold) =>
        \E n \in Metrics : a = Answer("1", Number(n)) /\ n < threshold
  BY <1>1, <1>3 DEF ShouldScaleToZero, Answers, Omits, Answer, Value, Number, Unusable, Failed, Panicked
<1> QED
  BY <1>4, <1>5, Zenon DEF v

(* Initially nothing is handled. *)
LEMMA ItemInvInit == Init => ItemInv
  BY DEF Init, ItemInv, PeriodRespected, Handling

(* Calculate asks the triggers exactly in the enabled period. *)
LEMMA CalculateKeeps ==
  ASSUME ItemInv, Calculate
  PROVE  ItemInv'
<1>1. /\ pc = "calculate" /\ checked' = now /\ item' = item /\ idle' = idle /\ omitted' = omitted
      /\ now' = now /\ listed' = listed
      /\ pc' = IF item.triggers = <<>> \/ now < item.scalableFrom THEN "next"
               ELSE IF item.period # NoPeriod /\ ~isInEnabledPeriod(item.period, now)
                    THEN "keepUp" ELSE "health"
  BY Zenon DEF Calculate
<1>2. item \in Items /\ now \in Nat /\ (idle \/ omitted) /\ listed \subseteq Items
  BY <1>1, Zenon DEF ItemInv, Handling
<1>3. item.period # NoPeriod =>
        (isInEnabledPeriod(item.period, now) <=> Enabled(item.period, now))
  BY <1>2, PeriodIsFound, Zenon
<1>4. Enabled(item.period, checked)' <=> Enabled(item.period, now)
  BY <1>1, Zenon DEF Enabled
<1>5. PeriodRespected'
  BY <1>1, <1>3, <1>4, Zenon DEF PeriodRespected
<1> QED
  BY <1>1, <1>2, <1>5, Zenon DEF ItemInv

(* A step that leaves item and the check of its period alone keeps the     *)
(* period respected, if it was when the step goes on.                      *)
LEMMA PeriodKeeps ==
  ASSUME PeriodRespected, item' = item, checked' = checked,
         \/ pc' = pc
         \/ pc' \notin {"health", "metric", "up", "down", "keepUp"}
         \/ pc \in {"health", "metric"} /\ pc' # "keepUp"
  PROVE  PeriodRespected'
<1>1. Enabled(item.period, checked)' <=> Enabled(item.period, checked)
  BY Zenon DEF Enabled
<1> QED
  BY <1>1, Zenon DEF PeriodRespected

(* The scaler's answers and the handling go together. *)
LEMMA ItemInvNext ==
  ASSUME ItemInv, [Next]_vars
  PROVE  ItemInv'
<1>1. CASE UNCHANGED vars
  BY <1>1, PeriodKeeps, Zenon DEF ItemInv, vars, round, evidence, Handling
<1>2. CASE Begin
  BY <1>2, PeriodKeeps, Zenon DEF ItemInv, Begin, evidence, Handling
<1>3. CASE End
  BY <1>3, PeriodKeeps, Zenon DEF ItemInv, End, evidence, Handling
<1>4. ASSUME NEW ok \in BOOLEAN, List(ok) PROVE ItemInv'
  <2>1. listed' \subseteq Items
    BY <1>4, Zenon DEF List
  <2> QED
    BY <1>4, <2>1, PeriodKeeps, Zenon DEF ItemInv, List, evidence, Handling
<1>5. CASE NextItem
  <2>1. PeriodRespected'
    BY <1>5, Zenon DEF NextItem, PeriodRespected
  <2> QED
    BY <1>5, <2>1, Zenon DEF ItemInv, NextItem, Handling
<1>6. CASE NoScaler
  BY <1>6, PeriodKeeps, Zenon DEF ItemInv, NoScaler, evidence, Handling
<1>7. CASE Act
  BY <1>7, PeriodKeeps, Zenon DEF ItemInv, Act, evidence, Handling
<1>8. ASSUME NEW a \in Answers, CheckHealth(a) PROVE ItemInv'
  <2>1. ~Omits(a) => (IsHealthy(executePromQuery(a)) => a = Answer("1", Number(1)))
    BY AnswerIsTaken, Zenon
  <2>2. /\ pc = "health"
        /\ pc' = IF executePromQuery(a) = Panicked THEN "crashed"
                 ELSE IF IsHealthy(executePromQuery(a)) THEN "metric" ELSE "next"
        /\ idle' = (idle /\ a = Answer("1", Number(1))) /\ omitted' = (omitted \/ Omits(a))
        /\ item' = item /\ checked' = checked /\ now' = now /\ listed' = listed
    BY <1>8, Zenon DEF CheckHealth
  <2>3. PeriodRespected'
    BY <2>2, PeriodKeeps, Zenon DEF ItemInv
  <2>4. pc' = "metric" => idle' \/ omitted'
    BY <2>1, <2>2, Zenon DEF ItemInv
  <2> QED
    BY <2>2, <2>3, <2>4, Zenon DEF ItemInv, Handling
<1>9. ASSUME NEW a \in Answers, CheckMetric(a) PROVE ItemInv'
  <2> DEFINE v == executePromQuery(a)
             low == ShouldScaleToZero(v, Trigger.threshold)
             said == \E n \in Metrics : a = Answer("1", Number(n)) /\ n < Trigger.threshold
  <2>1. ~Omits(a) => (low => said)
    BY AnswerIsTaken, Zenon
  <2>2. /\ pc = "metric"
        /\ pc' = CASE v = Failed -> "next"
                   [] v = Panicked -> "crashed"
                   [] v \notin {Failed, Panicked} /\ ~low -> "up"
                   [] low -> IF trigger = Len(item.triggers) THEN "down" ELSE "health"
        /\ idle' = (idle /\ said) /\ omitted' = (omitted \/ Omits(a))
        /\ item' = item /\ checked' = checked /\ now' = now /\ listed' = listed
    BY <1>9, Zenon DEF CheckMetric
  <2>3. low => v # Failed /\ v # Panicked
    BY DEF ShouldScaleToZero, Failed, Panicked, Value
  <2> HIDE DEF v, low, said
  <2>4. pc' \in {"next", "up", "crashed"} \/ (low /\ pc' \in {"down", "health"})
    BY <2>2, <2>3, Zenon
  <2>5. PeriodRespected'
    BY <2>2, <2>4, PeriodKeeps, Zenon DEF ItemInv
  <2>6. pc' \in {"down", "health"} => idle' \/ omitted'
    BY <2>1, <2>2, <2>4, Zenon DEF ItemInv
  <2> QED
    BY <2>2, <2>4, <2>5, <2>6, Zenon DEF ItemInv, Handling
<1>10. CASE Advance
  BY <1>10, PeriodKeeps DEF ItemInv, Advance, round, evidence, Handling
<1>11. CASE Settle
  BY <1>11, PeriodKeeps, Zenon DEF ItemInv, Settle, round, evidence, Handling
<1>12. CASE Restart
  <2>1. PeriodRespected'
    BY <1>12, Zenon DEF Restart, PeriodRespected
  <2> QED
    BY <1>12, <2>1, Zenon DEF ItemInv, Restart, Handling
<1> QED
  BY <1>1, <1>2, <1>3, <1>4, <1>5, <1>6, <1>7, <1>8, <1>9, <1>10, <1>11, <1>12, CalculateKeeps, Zenon
     DEF Next, Poller

(* The invariant of the handling holds in every reachable state. *)
LEMMA ItemInvHolds == Spec => []ItemInv
  BY ItemInvInit, ItemInvNext, PTL DEF Spec

(* handleScaleToZero is called only for an ElastiService whose triggers    *)
(* Prometheus has all reported healthy and below their thresholds, unless  *)
(* an answer left out its value: whatever the other answers are, and       *)
(* however many triggers there are.                                        *)
THEOREM RoundDownOnlyIfIdle == Spec => []DownOnlyIfIdle
<1>1. ItemInv => DownOnlyIfIdle
  BY Zenon DEF ItemInv, DownOnlyIfIdle
<1> QED
  BY <1>1, ItemInvHolds, PTL

(* The triggers are asked exactly if some trigger of the schedule, however *)
(* long ago, was less than the duration ago: findLastTriggerTime, which    *)
(* only looks back a duration and a day, misses none.                      *)
THEOREM RoundRespectsPeriod == Spec => []PeriodRespected
<1>1. ItemInv => PeriodRespected
  BY Zenon DEF ItemInv
<1> QED
  BY <1>1, ItemInvHolds, PTL

====
