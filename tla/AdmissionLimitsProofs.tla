------------------------ MODULE AdmissionLimitsProofs ------------------------
(***************************************************************************)
(* Proofs about the budget governor, for every cap, grace, cost bound and  *)
(* counter width; about the rate limiter and its history, for any routes,  *)
(* cap, window width and cooldown; and about the two composed in the       *)
(* dispatcher's order, which still obey their own specifications, so what  *)
(* is proved of each alone holds of the two together.                      *)
(***************************************************************************)
EXTENDS AdmissionLimits, SequenceTheorems, FiniteSetTheorems, TLAPS

-----------------------------------------------------------------------------
(* The governor: facts about its operators.                                *)

\* Min2 returns a value no larger than either argument, and one of the two.
LEMMA Min2Facts ==
    ASSUME NEW a \in Nat, NEW b \in Nat
    PROVE  /\ Min2(a, b) \in Nat
           /\ Min2(a, b) <= a
           /\ Min2(a, b) <= b
           /\ Min2(a, b) = a \/ Min2(a, b) = b
  BY DEF Min2

\* What a charge does to each counter: it grows by at most MaxCost, never
\* shrinks, and keeps its width; the job count stays.
LEMMA ChargeFacts ==
    ASSUME TypeOK, NEW cost \in JobCost, Charge(cost)
    PROVE  /\ spent' \in [Dim -> Nat]
           /\ spent'["jobs"] = spent["jobs"]
           /\ \A d \in CostDim : /\ spent'[d] <= MaxU64
                                 /\ spent'[d] >= spent[d]
                                 /\ spent'[d] <= spent[d] + MaxCost
  <1>1. ASSUME NEW d \in CostDim
        PROVE  /\ spent'[d] \in Nat
               /\ spent'[d] <= MaxU64
               /\ spent'[d] >= spent[d]
               /\ spent'[d] <= spent[d] + MaxCost
    <2>1. cost[d] \in 0 .. MaxCost /\ spent[d] \in Nat /\ spent[d] <= MaxU64
      BY <1>1 DEF TypeOK, JobCost, Dim
    <2>2. spent'[d] = Min2(spent[d] + cost[d], MaxU64)
      BY <1>1 DEF Charge, Dim
    <2>3. QED
      BY <2>1, <2>2, GovernorAssumption DEF Min2
  <1>2. spent'["jobs"] = spent["jobs"]
    BY DEF Charge, Dim, CostDim
  <1>3. spent' \in [Dim -> Nat]
    <2>1. \A d \in Dim : (IF d \in CostDim THEN Min2(spent[d] + cost[d], MaxU64)
                                           ELSE spent[d]) \in Nat
      BY GovernorAssumption DEF TypeOK, JobCost, Dim, Min2
    <2>2. QED
      BY <2>1 DEF Charge
  <1>4. QED
    BY <1>1, <1>2, <1>3

\* What an admission does: one more job, the cost counters stay.
LEMMA AdmitFacts ==
    ASSUME TypeOK, Admit
    PROVE  /\ spent' \in [Dim -> Nat]
           /\ spent'["jobs"] = spent["jobs"] + 1
           /\ \A d \in CostDim : spent'[d] = spent[d]
           /\ grace_used' \in Nat
  <1>1. spent' \in [Dim -> Nat] /\ spent'["jobs"] = spent["jobs"] + 1
    BY DEF TypeOK, Admit, Dim
  <1>2. \A d \in CostDim : spent'[d] = spent[d]
    BY DEF TypeOK, Admit, Dim, CostDim
  <1>3. grace_used' \in Nat
    BY DEF TypeOK, Admit
  <1>4. QED
    BY <1>1, <1>2, <1>3

-----------------------------------------------------------------------------
(* Type correctness.                                                       *)

\* The initial counters are well typed.
LEMMA TypeInit == Init => TypeOK
  <1> SUFFICES ASSUME Init
               PROVE  TypeOK
    OBVIOUS
  <1>1. spent \in [Dim -> Nat] /\ \A d \in Dim : spent[d] = 0
    BY DEF Init
  <1>2. \A d \in CostDim : spent[d] <= MaxU64
    <2>1. MaxU64 \in Nat /\ 0 <= MaxU64
      BY GovernorAssumption
    <2>2. QED
      BY <1>1, <2>1 DEF Dim
  <1>3. grace_used \in Nat /\ inflight \in BOOLEAN
    BY DEF Init
  <1>4. QED
    BY <1>1, <1>2, <1>3 DEF TypeOK

\* Every step keeps the types.
LEMMA TypeStep == TypeOK /\ [Next]_vars => TypeOK'
  <1> SUFFICES ASSUME TypeOK, [Next]_vars
               PROVE  TypeOK'
    OBVIOUS
  <1>1. CASE Begin
    BY <1>1, AdmitFacts DEF Begin, TypeOK
  <1>2. CASE Deliver
    <2>1. PICK cost \in JobCost : Charge(cost)
      BY <1>2 DEF Deliver
    <2>2. QED
      BY <1>2, <2>1, ChargeFacts DEF Deliver, TypeOK
  <1>3. CASE Fail
    BY <1>3 DEF Fail, TypeOK
  <1>4. CASE UNCHANGED vars
    BY <1>4 DEF vars, TypeOK
  <1>5. QED
    BY <1>1, <1>2, <1>3, <1>4 DEF Next

\* The counters of the governor (governor.rs, Spend) keep their types and the
\* cost counters their u64 width.
THEOREM TypeCorrect == Spec => []TypeOK
  BY TypeInit, TypeStep, PTL DEF Spec

-----------------------------------------------------------------------------
(* How far a met cap can be overrun.                                       *)

\* Adding to both sides of a bound, with the products as plain numbers.
LEMMA BoundGrows ==
    ASSUME NEW s \in Nat, NEW t \in Nat, NEW c \in Nat, NEW p \in Nat, NEW q \in Nat,
           NEW m \in Nat, s < c + p, t <= s + m, p <= q
    PROVE  t < c + q + m
  OBVIOUS

\* The inductive form of the two bounds.  A running dispatch has not been
\* charged yet, so the cost bound has room for one more job when none runs;
\* every grace admission adds room for one.
OverrunInv ==
    /\ TypeOK
    /\ grace_used <= Grace
    /\ Cap["jobs"] # 0 => spent["jobs"] <= Cap["jobs"] + grace_used
    /\ \A d \in CostDim :
         Cap[d] # 0 =>
           /\ inflight => spent[d] < Cap[d] + grace_used * MaxCost
           /\ spent[d] < Cap[d] + grace_used * MaxCost + MaxCost

\* Nothing is spent initially.
LEMMA OverrunInit == Init => OverrunInv
  <1> SUFFICES ASSUME Init
               PROVE  OverrunInv
    OBVIOUS
  <1>1. TypeOK
    BY TypeInit
  <1>2. \A d \in Dim : spent[d] = 0 /\ Cap[d] \in Nat
    BY GovernorAssumption DEF Init
  <1>3. grace_used * MaxCost = 0 /\ ~inflight
    BY GovernorAssumption DEF Init
  <1>4. QED
    BY <1>1, <1>2, <1>3, GovernorAssumption DEF OverrunInv, Init, Dim, CostDim

\* Every step keeps the overrun within its bound.
LEMMA OverrunStep == OverrunInv /\ [Next]_vars => OverrunInv'
  <1> SUFFICES ASSUME OverrunInv, [Next]_vars
               PROVE  OverrunInv'
    OBVIOUS
  <1> USE GovernorAssumption
  <1>t. TypeOK /\ TypeOK'
    BY TypeStep DEF OverrunInv
  <1>c. \A d \in Dim : Cap[d] \in Nat /\ spent[d] \in Nat /\ spent'[d] \in Nat
    BY <1>t DEF TypeOK
  <1>m. /\ grace_used * MaxCost \in Nat
        /\ (grace_used + 1) * MaxCost = grace_used * MaxCost + MaxCost
    BY <1>t DEF TypeOK
  <1>1. CASE Begin
    <2>1. ~inflight /\ inflight' /\ Admit
      BY <1>1 DEF Begin
    <2>2. CASE Exhausted
      <3>1. grace_used' = grace_used + 1 /\ grace_used < Grace
        BY <2>1, <2>2, <1>t DEF Admit, Refuses, TypeOK
      <3>2. Cap["jobs"] # 0 => spent'["jobs"] <= Cap["jobs"] + grace_used'
        BY <2>1, <3>1, <1>t, <1>c, AdmitFacts DEF OverrunInv, Dim, TypeOK
      <3>3. ASSUME NEW d \in CostDim, Cap[d] # 0
            PROVE  spent'[d] < Cap[d] + grace_used' * MaxCost
        BY <2>1, <3>1, <3>3, <1>t, <1>c, <1>m, AdmitFacts DEF OverrunInv, Dim
      <3>4. grace_used' <= Grace
        BY <3>1, <1>t DEF TypeOK
      <3>5. QED
        BY <2>1, <3>2, <3>3, <3>4, <1>t, <1>c DEF OverrunInv, TypeOK, Dim
    <2>3. CASE ~Exhausted
      <3>1. grace_used' = grace_used
        BY <2>1, <2>3 DEF Admit
      <3>2. \A d \in Dim : Cap[d] # 0 => spent[d] < Cap[d]
        BY <2>3, <1>c DEF Exhausted
      <3>3. Cap["jobs"] # 0 => spent'["jobs"] <= Cap["jobs"] + grace_used'
        BY <2>1, <3>1, <3>2, <1>t, <1>c, AdmitFacts DEF Dim, TypeOK
      <3>4. ASSUME NEW d \in CostDim, Cap[d] # 0
            PROVE  spent'[d] < Cap[d] + grace_used' * MaxCost
        <4>1. /\ Cap[d] \in Nat /\ spent[d] \in Nat
              /\ spent[d] < Cap[d] /\ spent'[d] = spent[d]
          BY <2>1, <3>2, <3>4, <1>t, <1>c, AdmitFacts DEF Dim
        <4>2. QED
          BY <3>1, <4>1, <1>m
      <3>5. QED
        BY <2>1, <3>1, <3>3, <3>4, <1>t, <1>c DEF OverrunInv, TypeOK, Dim
    <2>4. QED
      BY <2>2, <2>3
  <1>2. CASE Deliver
    <2>1. PICK cost \in JobCost : Charge(cost)
      BY <1>2 DEF Deliver
    <2>2. inflight /\ ~inflight' /\ grace_used' = grace_used
      BY <1>2 DEF Deliver
    <2>3. ASSUME NEW d \in CostDim, Cap[d] # 0
          PROVE  spent'[d] < Cap[d] + grace_used' * MaxCost + MaxCost
      <3>1. spent[d] < Cap[d] + grace_used * MaxCost
        BY <2>2, <2>3 DEF OverrunInv
      <3>2. spent'[d] <= spent[d] + MaxCost
        BY <2>1, <2>3, <1>t, ChargeFacts
      <3>3. Cap[d] \in Nat /\ spent[d] \in Nat /\ spent'[d] \in Nat
        BY <2>3, <1>c DEF Dim
      <3>4. grace_used * MaxCost <= grace_used * MaxCost
        BY <1>m
      <3>5. QED
        BY <2>2, <3>1, <3>2, <3>3, <3>4, <1>m, BoundGrows
    <2>4. spent'["jobs"] = spent["jobs"]
      BY <2>1, <1>t, ChargeFacts
    <2>5. QED
      BY <2>2, <2>3, <2>4, <1>t DEF OverrunInv
  <1>3. CASE Fail
    <2>1. inflight /\ ~inflight' /\ grace_used' = grace_used /\ spent' = spent
      BY <1>3 DEF Fail
    <2>2. ASSUME NEW d \in CostDim, Cap[d] # 0
          PROVE  spent[d] < Cap[d] + grace_used * MaxCost + MaxCost
      BY <2>1, <2>2, <1>t, <1>c, <1>m DEF OverrunInv, Dim
    <2>3. QED
      BY <2>1, <2>2, <1>t DEF OverrunInv
  <1>4. CASE UNCHANGED vars
    BY <1>4, <1>t DEF vars, OverrunInv
  <1>5. QED
    BY <1>1, <1>2, <1>3, <1>4 DEF Next

\* The bound on the overrun of a met cap, at any grace: governor.rs promises
\* "up to grace further distress admits before refusing all dispatch".
THEOREM OverrunBoundedThm == Spec => []OverrunBounded
  <1>1. OverrunInv => OverrunBounded
    <2> SUFFICES ASSUME OverrunInv
                 PROVE  OverrunBounded
      OBVIOUS
    <2> USE GovernorAssumption
    <2>1. \A d \in Dim : Cap[d] \in Nat /\ spent[d] \in Nat
      BY DEF OverrunInv, TypeOK
    <2>2. JobOverrunBounded
      BY <2>1 DEF OverrunInv, TypeOK, JobOverrunBounded, Dim
    <2>3. CostOverrunBounded
      <3>1. /\ grace_used * MaxCost \in Nat /\ Grace * MaxCost \in Nat
            /\ grace_used * MaxCost <= Grace * MaxCost
            /\ (Grace + 1) * MaxCost = Grace * MaxCost + MaxCost
        BY DEF OverrunInv, TypeOK
      <3>2. ASSUME NEW d \in CostDim, Cap[d] # 0
            PROVE  spent[d] < Cap[d] + (Grace + 1) * MaxCost
        <4>1. Cap[d] \in Nat /\ spent[d] \in Nat
          BY <2>1, <3>2 DEF Dim
        <4>2. spent[d] < Cap[d] + grace_used * MaxCost + MaxCost
          BY <3>2 DEF OverrunInv
        <4>3. QED
          BY <3>1, <4>1, <4>2
      <3>3. QED
        BY <3>2 DEF CostOverrunBounded
    <2>4. QED
      BY <2>2, <2>3 DEF OverrunBounded
  <1>2. QED
    BY <1>1, OverrunInit, OverrunStep, PTL DEF Spec

-----------------------------------------------------------------------------
(* What a step never does.                                                 *)

\* Spend only grows, and the grace counter with it.
LEMMA SpendGrows ==
    ASSUME TypeOK, [Next]_vars
    PROVE  /\ \A d \in Dim : spent[d] \in Nat /\ spent'[d] \in Nat /\ spent'[d] >= spent[d]
           /\ grace_used \in Nat /\ grace_used' \in Nat /\ grace_used' >= grace_used
  <1>1. CASE Begin
    <2>1. grace_used' >= grace_used
      BY <1>1 DEF Begin, Admit, TypeOK
    <2>2. QED
      BY <1>1, <2>1, AdmitFacts DEF Begin, TypeOK, Dim
  <1>2. CASE Deliver
    <2>1. PICK cost \in JobCost : Charge(cost)
      BY <1>2 DEF Deliver
    <2>2. QED
      BY <1>2, <2>1, ChargeFacts DEF Deliver, TypeOK, Dim
  <1>3. CASE Fail
    BY <1>3 DEF Fail, TypeOK
  <1>4. CASE UNCHANGED vars
    BY <1>4 DEF vars, TypeOK
  <1>5. QED
    BY <1>1, <1>2, <1>3, <1>4 DEF Next

\* Once admit() refuses it refuses forever: only a new process is re-armed.
THEOREM RefusalLatchesThm == Spec => RefusalLatches
  <1>1. ASSUME TypeOK, [Next]_vars, Refuses
        PROVE  Refuses'
    <2>1. PICK d \in Dim : Cap[d] # 0 /\ spent[d] >= Cap[d]
      BY <1>1 DEF Refuses, Exhausted
    <2>2. spent'[d] >= Cap[d]
      BY <1>1, <2>1, SpendGrows, GovernorAssumption
    <2>3. grace_used' >= Grace
      BY <1>1, SpendGrows, GovernorAssumption DEF Refuses
    <2>4. QED
      BY <2>1, <2>2, <2>3 DEF Refuses, Exhausted
  <1>2. TypeOK /\ [Next]_vars => [Refuses => Refuses']_vars
    BY <1>1
  <1>3. QED
    BY <1>2, TypeCorrect, PTL DEF Spec, RefusalLatches

\* A usage fraction once reached stays reached.
LEMMA AtLeastStays ==
    ASSUME TypeOK, [Next]_vars, NEW d \in Dim, NEW num \in Nat, NEW den \in Nat,
           AtLeast(d, num, den)
    PROVE  AtLeast(d, num, den)'
  <1>1. spent[d] \in Nat /\ spent'[d] \in Nat /\ spent'[d] >= spent[d]
    BY SpendGrows
  <1>2. den * spent'[d] >= den * spent[d]
    BY <1>1
  <1>3. /\ den * spent'[d] \in Nat /\ den * spent[d] \in Nat
        /\ num * Cap[d] \in Nat
    BY <1>1, GovernorAssumption
  <1>4. QED
    BY <1>2, <1>3 DEF AtLeast

\* The survival tier, which the state gate compares with a route's limit, never
\* improves: a deferred route stays deferred until the process is restarted.
THEOREM TierNeverImprovesThm == Spec => TierNeverImproves
  <1>1. ASSUME TypeOK, [Next]_vars
        PROVE  tier' >= tier
    <2> DEFINE At(num, den) == \E d \in Dim : AtLeast(d, num, den)
    <2>1. /\ At(1, 1) => At(1, 1)'
          /\ At(9, 10) => At(9, 10)'
          /\ At(3, 4) => At(3, 4)'
      BY <1>1, AtLeastStays
    <2>2. QED
      BY <2>1 DEF tier, Full, Conserving, Distress, Halted
  <1>2. TypeOK /\ [Next]_vars => [tier' >= tier]_vars
    BY <1>1
  <1>3. QED
    BY <1>2, TypeCorrect, PTL DEF Spec, TierNeverImproves

\* The tier reads Halted exactly when admit() considers a cap met.
THEOREM HaltedIffExhaustedThm == Spec => []HaltedIffExhausted
  <1>1. TypeOK => HaltedIffExhausted
    <2> SUFFICES ASSUME TypeOK
                 PROVE  HaltedIffExhausted
      OBVIOUS
    <2>1. \A d \in Dim : AtLeast(d, 1, 1) <=> Cap[d] # 0 /\ spent[d] >= Cap[d]
      BY GovernorAssumption DEF AtLeast, TypeOK
    <2>2. QED
      BY <2>1 DEF HaltedIffExhausted, tier, Exhausted, Full, Conserving, Distress, Halted
  <1>2. QED
    BY <1>1, TypeCorrect, PTL

-----------------------------------------------------------------------------
(* The rate limiter: facts about pruning.                                  *)

\* k is where the live entries of s begin at time t.
LiveFrom(s, t, k) ==
    /\ k \in 1 .. Len(s) + 1
    /\ \A j \in 1 .. k - 1 : AgedOut(s[j], t)
    /\ k <= Len(s) => ~AgedOut(s[k], t)

\* There is such a place: the least one whose entry, if any, is live.
LEMMA LiveFromExists ==
    ASSUME NEW s \in Seq(Nat), NEW t \in Nat
    PROVE  \E k \in 1 .. Len(s) + 1 : LiveFrom(s, t, k)
  <1> DEFINE T == {k \in 1 .. Len(s) + 1 : k <= Len(s) => ~AgedOut(s[k], t)}
  <1>1. Len(s) \in Nat
    OBVIOUS
  <1>2. T \subseteq Nat
    BY <1>1
  <1>3. Len(s) + 1 \in T
    BY <1>1
  <1>4. PICK k \in T : \A j \in T : ~(<<j, k>> \in OpToRel(<, Nat))
    <2> HIDE DEF T
    <2>1. T # {}
      BY <1>3
    <2>2. QED
      BY <1>2, <2>1, NatLessThanWellFounded, WFMin, Zenon
  <1>5. \A j \in T : ~(j < k)
    BY <1>2, <1>4 DEF OpToRel
  <1>6. ASSUME NEW j \in 1 .. k - 1
        PROVE  AgedOut(s[j], t)
    <2>0. k \in 1 .. Len(s) + 1
      OBVIOUS
    <2>1. j \in 1 .. Len(s) /\ j < k
      BY <1>1, <1>6, <2>0
    <2>2. j \notin T
      BY <1>5, <2>1
    <2>3. QED
      BY <1>1, <2>1, <2>2
  <1>7. QED
    BY <1>4, <1>6 DEF LiveFrom

\* And only one: a place before another is aged out.
LEMMA LiveFromUnique ==
    ASSUME NEW s \in Seq(Nat), NEW t \in Nat, NEW j, NEW k,
           LiveFrom(s, t, j), LiveFrom(s, t, k)
    PROVE  j = k
  <1>1. Len(s) \in Nat /\ j \in 1 .. Len(s) + 1 /\ k \in 1 .. Len(s) + 1
    BY DEF LiveFrom
  <1>2. ~(j < k)
    BY <1>1 DEF LiveFrom
  <1>3. ~(k < j)
    BY <1>1 DEF LiveFrom
  <1>4. QED
    BY <1>1, <1>2, <1>3

\* FirstLive chooses that place.
LEMMA FirstLiveFacts ==
    ASSUME recent \in Seq(Nat), NEW t \in Nat
    PROVE  LiveFrom(recent, t, FirstLive(t))
  <1>1. \E k \in 1 .. Len(recent) + 1 :
           /\ \A j \in 1 .. k - 1 : AgedOut(recent[j], t)
           /\ k <= Len(recent) => ~AgedOut(recent[k], t)
    BY LiveFromExists DEF LiveFrom
  <1>2. QED
    BY <1>1 DEF FirstLive, LiveFrom

\* The pruned window is the live suffix of the window.
LEMMA PrunedFacts ==
    ASSUME recent \in Seq(Nat), NEW t \in Nat
    PROVE  /\ Pruned(t) \in Seq(Nat)
           /\ Len(Pruned(t)) = Len(recent) - FirstLive(t) + 1
           /\ FirstLive(t) \in 1 .. Len(recent) + 1
           /\ Len(recent) \in Nat
           /\ \A j \in 1 .. Len(Pruned(t)) : Pruned(t)[j] = recent[FirstLive(t) + j - 1]
  <1>1. FirstLive(t) \in 1 .. Len(recent) + 1 /\ Len(recent) \in Nat
    BY FirstLiveFacts DEF LiveFrom
  <1>2. \A i \in FirstLive(t) .. Len(recent) : recent[i] \in Nat
    BY <1>1, ElementOfSeq
  <1>3. FirstLive(t) \in Int /\ Len(recent) \in Int
    BY <1>1
  <1> DEFINE m == FirstLive(t)
             n == Len(recent)
  <1>4. /\ SubSeq(recent, m, n) \in Seq(Nat)
        /\ Len(SubSeq(recent, m, n)) = IF m <= n THEN n - m + 1 ELSE 0
        /\ \A i \in 1 .. n - m + 1 : SubSeq(recent, m, n)[i] = recent[m + i - 1]
    <2> HIDE DEF m, n
    <2>1. m \in Int /\ n \in Int /\ \A i \in m .. n : recent[i] \in Nat
      BY <1>2, <1>3 DEF m, n
    <2>2. QED
      BY <2>1, SubSeqProperties
  <1>5. Len(Pruned(t)) = n - m + 1
    BY <1>1, <1>4 DEF Pruned
  <1>6. QED
    BY <1>1, <1>4, <1>5 DEF Pruned

-----------------------------------------------------------------------------
(* Type correctness.                                                       *)

\* The initial state is well typed.
LEMMA LimiterTypeInit == LimiterInit => LimiterTypeOK
  BY RateLimiterAssumption DEF LimiterInit, LimiterTypeOK

\* A dropped cooldown entry keeps the bound on the others.
LEMMA DropEntryKeeps ==
    ASSUME LimiterTypeOK, NEW route \in Route, DropEntry(route)
    PROVE  /\ cooldown_until' \in [Route -> Nat]
           /\ \A r \in Route : cooldown_until'[r] <= now_secs + CooldownSecs
  BY RateLimiterAssumption DEF LimiterTypeOK, DropEntry

\* Every step keeps the types.
LEMMA LimiterTypeStep == LimiterTypeOK /\ [LimiterNext]_limiterVars => LimiterTypeOK'
  <1> SUFFICES ASSUME LimiterTypeOK, [LimiterNext]_limiterVars
               PROVE  LimiterTypeOK'
    OBVIOUS
  <1> USE RateLimiterAssumption
  <1>1. CASE Advance
    <2>1. now_secs' \in Nat /\ now_secs <= now_secs'
      BY <1>1 DEF Advance, LimiterTypeOK
    <2>2. \A r \in Route : cooldown_until'[r] <= now_secs' + CooldownSecs
      BY <1>1, <2>1 DEF Advance, LimiterTypeOK
    <2>3. QED
      BY <1>1, <2>1, <2>2 DEF Advance, LimiterTypeOK
  <1>2. ASSUME NEW route \in Route, Deny(route)
        PROVE  LimiterTypeOK'
    <2>1. UNCHANGED <<now_secs, pending>>
      BY <1>2 DEF Deny
    <2>2. CASE DenyCooling(route, now_secs)
      BY <2>1, <2>2 DEF DenyCooling, LimiterTypeOK
    <2>3. CASE DenyWindow(route, now_secs)
      <3>1. recent' \in Seq(Nat)
        BY <2>3, PrunedFacts DEF DenyWindow, LimiterTypeOK
      <3>2. QED
        BY <2>1, <2>3, <3>1, DropEntryKeeps DEF DenyWindow, LimiterTypeOK
    <2>4. QED
      BY <1>2, <2>2, <2>3 DEF Deny
  <1>3. ASSUME NEW route \in Route, Proceed(route)
        PROVE  LimiterTypeOK'
    <2>1. now_secs' = now_secs /\ AdmitRoute(route, now_secs)
      BY <1>3 DEF Proceed
    <2>2. recent' \in Seq(Nat)
      BY <2>1, PrunedFacts DEF AdmitRoute, LimiterTypeOK
    <2>3. pending' \in Dispatch \cup {NoDispatch} /\ (pending' # NoDispatch => pending'.at <= now_secs')
      BY <1>3 DEF Proceed, LimiterTypeOK, Dispatch
    <2>4. QED
      BY <2>1, <2>2, <2>3, DropEntryKeeps DEF AdmitRoute, LimiterTypeOK
  <1>4. CASE Failed
    <2>1. pending \in Dispatch /\ pending.at <= now_secs /\ pending.route \in Route /\ pending.at \in Nat
      BY <1>4 DEF Failed, LimiterTypeOK, Dispatch
    <2>2. /\ cooldown_until' \in [Route -> Nat]
          /\ \A r \in Route : cooldown_until'[r] <= now_secs + CooldownSecs
      BY <1>4, <2>1 DEF Failed, RecordFailure, LimiterTypeOK
    <2>3. QED
      BY <1>4, <2>2 DEF Failed, RecordFailure, LimiterTypeOK
  <1>5. CASE Delivered
    <2>1. pending.route \in Route
      BY <1>5 DEF Delivered, LimiterTypeOK, Dispatch
    <2>2. QED
      BY <1>5, <2>1, DropEntryKeeps DEF Delivered, ClearRoute, LimiterTypeOK
  <1>6. CASE UNCHANGED limiterVars
    BY <1>6 DEF limiterVars, LimiterTypeOK
  <1>7. QED
    BY <1>1, <1>2, <1>3, <1>4, <1>5, <1>6 DEF LimiterNext

\* The limiter's state keeps its types, and no cooldown reaches further than
\* one started now: whatever times check() and record_failure() are given in
\* the order handle_request gives them.
THEOREM LimiterTypeCorrect == LimiterSpec => []LimiterTypeOK
  BY LimiterTypeInit, LimiterTypeStep, PTL DEF LimiterSpec

-----------------------------------------------------------------------------
(* The retry-after hint.                                                   *)

\* The window never holds more entries than the cap.
RoomInv == LimiterTypeOK /\ (MaxPerWindow # 0 => Len(recent) <= MaxPerWindow)

\* Every step keeps the window within the cap.
LEMMA RoomStep == RoomInv /\ [LimiterNext]_limiterVars => RoomInv'
  <1> SUFFICES ASSUME RoomInv, [LimiterNext]_limiterVars, MaxPerWindow # 0
               PROVE  Len(recent') <= MaxPerWindow
    BY LimiterTypeStep DEF RoomInv
  <1> USE RateLimiterAssumption
  <1>t. recent \in Seq(Nat) /\ now_secs \in Nat /\ Len(recent) \in Nat /\ Len(recent) <= MaxPerWindow
    BY DEF RoomInv, LimiterTypeOK
  <1>p. /\ Pruned(now_secs) \in Seq(Nat)
        /\ Len(Pruned(now_secs)) \in Nat
        /\ Len(Pruned(now_secs)) <= Len(recent)
    <2>1. /\ Pruned(now_secs) \in Seq(Nat)
          /\ Len(Pruned(now_secs)) = Len(recent) - FirstLive(now_secs) + 1
          /\ FirstLive(now_secs) \in 1 .. Len(recent) + 1
      BY <1>t, PrunedFacts
    <2>2. QED
      BY <1>t, <2>1
  <1>1. ASSUME NEW route \in Route, Deny(route)
        PROVE  Len(recent') <= MaxPerWindow
    BY <1>1, <1>t, <1>p DEF Deny, DenyCooling, DenyWindow
  <1>2. ASSUME NEW route \in Route, Proceed(route)
        PROVE  Len(recent') <= MaxPerWindow
    <2>1. Len(Pruned(now_secs)) < MaxPerWindow /\ recent' = Append(Pruned(now_secs), now_secs)
      BY <1>2, <1>p DEF Proceed, AdmitRoute, Denies, WindowFull
    <2>2. QED
      BY <1>t, <1>p, <2>1
  <1>3. CASE Advance \/ Failed \/ Delivered \/ UNCHANGED limiterVars
    BY <1>3, <1>t DEF Advance, Failed, RecordFailure, Delivered, ClearRoute, limiterVars
  <1>4. QED
    BY <1>1, <1>2, <1>3 DEF LimiterNext

\* The window is within the cap in every reachable state.
LEMMA RoomInvariant == LimiterSpec => []RoomInv
  <1>1. LimiterInit => RoomInv
    BY LimiterTypeInit, RateLimiterAssumption DEF LimiterInit, RoomInv
  <1>2. QED
    BY <1>1, RoomStep, PTL DEF LimiterSpec

\* While the oldest live entry stays live, pruning later removes nothing more.
LEMMA SameWindow ==
    ASSUME recent \in Seq(Nat), NEW t \in Nat, NEW u \in Nat, t <= u,
           FirstLive(t) <= Len(recent), ~AgedOut(recent[FirstLive(t)], u)
    PROVE  Pruned(u) = Pruned(t)
  <1>1. LiveFrom(recent, t, FirstLive(t)) /\ LiveFrom(recent, u, FirstLive(u))
    BY FirstLiveFacts
  <1>2. \A j \in 1 .. FirstLive(t) - 1 : recent[j] \in Nat
    BY <1>1 DEF LiveFrom
  <1>3. LiveFrom(recent, u, FirstLive(t))
    <2>1. WindowSecs \in Nat
      BY RateLimiterAssumption
    <2>2. \A j \in 1 .. FirstLive(t) - 1 : AgedOut(recent[j], u)
      <3> SUFFICES ASSUME NEW j \in 1 .. FirstLive(t) - 1
                   PROVE  AgedOut(recent[j], u)
        OBVIOUS
      <3>1. AgedOut(recent[j], t) /\ recent[j] \in Nat
        BY <1>1, <1>2 DEF LiveFrom
      <3>2. QED
        BY <2>1, <3>1 DEF AgedOut
    <2>3. QED
      BY <1>1, <2>2 DEF LiveFrom
  <1>4. FirstLive(u) = FirstLive(t)
    BY <1>1, <1>3, LiveFromUnique
  <1>5. QED
    BY <1>4 DEF Pruned

\* Once it has aged out, pruning removes at least that entry.
LEMMA SmallerWindow ==
    ASSUME recent \in Seq(Nat), NEW t \in Nat, NEW u \in Nat, t <= u,
           FirstLive(t) <= Len(recent), AgedOut(recent[FirstLive(t)], u)
    PROVE  Len(Pruned(u)) < Len(Pruned(t))
  <1>1. LiveFrom(recent, t, FirstLive(t)) /\ LiveFrom(recent, u, FirstLive(u))
    BY FirstLiveFacts
  <1>2. \A j \in 1 .. Len(recent) : recent[j] \in Nat
    OBVIOUS
  <1>3. /\ Len(recent) \in Nat
        /\ FirstLive(t) \in 1 .. Len(recent)
        /\ FirstLive(u) \in 1 .. Len(recent) + 1
    BY <1>1 DEF LiveFrom
  <1>4. ASSUME NEW j \in 1 .. FirstLive(t)
        PROVE  AgedOut(recent[j], u)
    <2>1. CASE j = FirstLive(t)
      BY <2>1
    <2>2. CASE j # FirstLive(t)
      <3>1. j \in 1 .. FirstLive(t) - 1 /\ recent[j] \in Nat
        BY <1>2, <1>3, <2>2
      <3>2. AgedOut(recent[j], t)
        BY <1>1, <3>1 DEF LiveFrom
      <3>3. QED
        BY <3>1, <3>2, RateLimiterAssumption DEF AgedOut
    <2>3. QED
      BY <2>1, <2>2
  <1>5. FirstLive(u) > FirstLive(t)
    BY <1>1, <1>3, <1>4 DEF LiveFrom
  <1>6. /\ Len(Pruned(t)) = Len(recent) - FirstLive(t) + 1
        /\ Len(Pruned(u)) = Len(recent) - FirstLive(u) + 1
    BY PrunedFacts
  <1>7. QED
    BY <1>3, <1>5, <1>6

\* A refusal's hint is exact, in every reachable state: a retry before it is
\* refused again, and one at it is admitted unless the route was cooling.
THEOREM RetryAfterExactThm == LimiterSpec => []RetryAfterExact
  <1>1. RoomInv => RetryAfterExact
    <2> SUFFICES ASSUME RoomInv, NEW route \in Route, Denies(route, now_secs)
                 PROVE  LET hint == RetryAfter(route, now_secs) IN
                        /\ hint >= 1
                        /\ \A d \in 0 .. hint - 1 : Denies(route, now_secs + d)
                        /\ ~Cooling(route, now_secs) => ~Denies(route, now_secs + hint)
      BY DEF RetryAfterExact
    <2> USE RateLimiterAssumption
    <2> DEFINE t == now_secs
               hint == RetryAfter(route, t)
    <2>1. /\ recent \in Seq(Nat) /\ t \in Nat /\ cooldown_until[route] \in Nat
          /\ MaxPerWindow # 0 => Len(recent) <= MaxPerWindow
      BY DEF RoomInv, LimiterTypeOK
    <2>2. CASE Cooling(route, t)
      <3>1. hint = cooldown_until[route] - t /\ t < cooldown_until[route]
        BY <2>2 DEF RetryAfter, Cooling
      <3>2. ASSUME NEW d \in 0 .. hint - 1
            PROVE  Denies(route, t + d)
        BY <2>1, <3>1, <3>2 DEF Denies, Cooling
      <3>3. QED
        BY <2>1, <2>2, <3>1, <3>2
    <2>3. CASE ~Cooling(route, t)
      <3> DEFINE k == FirstLive(t)
      <3>1. WindowFull(t)
        BY <2>3 DEF Denies
      <3>2. /\ Pruned(t) \in Seq(Nat)
            /\ Len(Pruned(t)) = Len(recent) - k + 1
            /\ k \in 1 .. Len(recent) + 1
            /\ Len(recent) \in Nat
            /\ \A j \in 1 .. Len(Pruned(t)) : Pruned(t)[j] = recent[k + j - 1]
        BY <2>1, PrunedFacts
      <3>3. MaxPerWindow # 0 /\ Len(Pruned(t)) >= MaxPerWindow
        BY <3>1 DEF WindowFull
      <3>4. k \in 1 .. Len(recent)
        BY <3>2, <3>3
      <3>5. recent[k] \in Nat /\ Head(Pruned(t)) = recent[k]
        <4>1. 1 \in 1 .. Len(Pruned(t)) /\ Pruned(t) # <<>> /\ k + 1 - 1 = k
          BY <3>2, <3>4
        <4>2. Pruned(t)[1] = recent[k]
          BY <3>2, <4>1
        <4>3. Head(Pruned(t)) = Pruned(t)[1]
          BY <3>2, <4>1
        <4>4. QED
          BY <2>1, <3>4, <4>2, <4>3
      <3>6. ~AgedOut(recent[k], t)
        BY <2>1, <3>4, FirstLiveFacts DEF LiveFrom
      <3>7. hint = recent[k] + WindowSecs - t /\ hint \in Nat /\ hint >= 1
        BY <2>1, <2>3, <3>5, <3>6 DEF RetryAfter, AtLeastOne, AgedOut
      <3>8. ASSUME NEW d \in 0 .. hint - 1
            PROVE  Denies(route, t + d)
        <4>1. t + d \in Nat /\ t <= t + d /\ ~AgedOut(recent[k], t + d)
          BY <2>1, <3>5, <3>7, <3>8 DEF AgedOut
        <4>2. Pruned(t + d) = Pruned(t)
          BY <2>1, <3>4, <4>1, SameWindow
        <4>3. QED
          BY <3>3, <4>2 DEF Denies, WindowFull
      <3>9. ~Denies(route, t + hint)
        <4>1. t + hint \in Nat /\ t <= t + hint /\ AgedOut(recent[k], t + hint)
          BY <2>1, <3>5, <3>7 DEF AgedOut
        <4>2. Len(Pruned(t + hint)) < Len(Pruned(t))
          BY <2>1, <3>4, <4>1, SmallerWindow
        <4>3. /\ Len(Pruned(t + hint)) \in Nat
              /\ Len(Pruned(t)) <= MaxPerWindow
          <5>1. Pruned(t + hint) \in Seq(Nat)
            BY <2>1, <4>1, PrunedFacts
          <5>2. Len(Pruned(t)) <= MaxPerWindow
            BY <2>1, <3>2, <3>3, <3>4
          <5>3. QED
            BY <5>1, <5>2
        <4>4. ~WindowFull(t + hint)
          BY <3>2, <4>2, <4>3 DEF WindowFull
        <4>5. ~Cooling(route, t + hint)
          BY <2>1, <2>3, <3>7 DEF Cooling
        <4>6. QED
          BY <4>4, <4>5 DEF Denies
      <3>10. QED
        BY <2>3, <3>7, <3>8, <3>9
    <2>4. QED
      BY <2>2, <2>3
  <1>2. QED
    BY <1>1, RoomInvariant, PTL

-----------------------------------------------------------------------------
(* The window and the cooldown, over the history.                          *)

Entry == [route : Route, at : Nat]

\* The window is the end of the history, and what came before has aged out.
WindowInv ==
    /\ LimiterTypeOK
    /\ admits \in Seq(Entry)
    /\ MaxPerWindow # 0 =>
         /\ Len(recent) <= MaxPerWindow
         /\ Len(recent) <= Len(admits)
         /\ \A j \in 1 .. Len(recent) :
               recent[j] = admits[Len(admits) - Len(recent) + j].at
         /\ \A i \in 1 .. Len(admits) - Len(recent) : AgedOut(admits[i].at, now_secs)
         /\ WindowCapHolds

\* A failed route is held until its cooldown is over, or it is over already.
HeldInv ==
    /\ LimiterTypeOK
    /\ failed_at \in [Route -> {<<at>> : at \in Nat} \cup {Healthy}]
    /\ \A route \in Route :
          failed_at[route] # Healthy =>
            \/ now_secs >= failed_at[route][1] + CooldownSecs
            \/ cooldown_until[route] >= failed_at[route][1] + CooldownSecs

\* The history's steps are the limiter's.
LEMMA HistoryStep == [HNext]_hvars => [LimiterNext]_limiterVars
  BY DEF HNext, hvars, HQuiet, HProceed, HFailed, HDelivered, LimiterNext

\* The history hides nothing: what is proved of LimiterSpec holds of HSpec.
THEOREM HistoryKeepsSpec == HSpec => LimiterSpec
  <1>1. HInit => LimiterInit
    BY DEF HInit
  <1>2. QED
    BY <1>1, HistoryStep, PTL DEF HSpec, LimiterSpec

\* The empty history and window agree.
LEMMA WindowInit == HInit => WindowInv
  BY LimiterTypeInit, RateLimiterAssumption DEF HInit, LimiterInit, WindowInv, WindowCapHolds

\* Pruning at the current time keeps the window the end of the history.
LEMMA PrunedWindow ==
    ASSUME WindowInv, MaxPerWindow # 0
    PROVE  LET window == Pruned(now_secs)
               gone == Len(admits) - Len(window)
           IN  /\ window \in Seq(Nat)
               /\ Len(window) \in Nat
               /\ Len(window) <= Len(recent)
               /\ gone \in Nat
               /\ \A j \in 1 .. Len(window) : window[j] = admits[gone + j].at
               /\ \A i \in 1 .. gone : AgedOut(admits[i].at, now_secs)
  <1> DEFINE window == Pruned(now_secs)
             gone == Len(admits) - Len(window)
             k == FirstLive(now_secs)
  <1>1. /\ recent \in Seq(Nat) /\ now_secs \in Nat /\ Len(recent) \in Nat
        /\ Len(admits) \in Nat /\ Len(recent) <= Len(admits)
    BY DEF WindowInv, LimiterTypeOK
  <1>2. /\ window \in Seq(Nat)
        /\ Len(window) = Len(recent) - k + 1
        /\ k \in 1 .. Len(recent) + 1
        /\ \A j \in 1 .. Len(window) : window[j] = recent[k + j - 1]
    BY <1>1, PrunedFacts
  <1>3. \A j \in 1 .. k - 1 : AgedOut(recent[j], now_secs)
    BY <1>1, FirstLiveFacts DEF LiveFrom
  <1>4. Len(window) \in Nat /\ Len(window) <= Len(recent)
    BY <1>1, <1>2
  <1>5. gone \in Nat /\ gone = Len(admits) - Len(recent) + k - 1
    BY <1>1, <1>2, <1>4
  <1>6. ASSUME NEW j \in 1 .. Len(window)
        PROVE  window[j] = admits[gone + j].at
    <2>0. /\ Len(window) = Len(recent) - k + 1 /\ k \in Nat /\ Len(recent) \in Nat
          /\ Len(admits) \in Nat /\ gone = Len(admits) - Len(recent) + k - 1
          /\ j \in Nat /\ j >= 1 /\ j <= Len(window) /\ k >= 1
      BY <1>1, <1>2, <1>4, <1>5
    <2>1. k + j - 1 \in 1 .. Len(recent)
      <3> HIDE DEF window, gone, k
      <3>1. QED
        BY <2>0
    <2>2. recent[k + j - 1] = admits[Len(admits) - Len(recent) + (k + j - 1)].at
      BY <2>1, <1>1 DEF WindowInv
    <2>3. Len(admits) - Len(recent) + (k + j - 1) = gone + j
      <3> HIDE DEF window, gone, k
      <3>1. QED
        BY <2>0
    <2>4. QED
      BY <1>2, <2>2, <2>3
  <1>7. ASSUME NEW i \in 1 .. gone
        PROVE  AgedOut(admits[i].at, now_secs)
    <2>1. CASE i <= Len(admits) - Len(recent)
      BY <1>1, <1>5, <2>1 DEF WindowInv
    <2>2. CASE i > Len(admits) - Len(recent)
      <3> DEFINE j == i - (Len(admits) - Len(recent))
      <3>1. j \in 1 .. k - 1 /\ j \in 1 .. Len(recent)
        BY <1>1, <1>2, <1>5, <2>2
      <3>2. recent[j] = admits[Len(admits) - Len(recent) + j].at
        BY <3>1 DEF WindowInv
      <3>3. Len(admits) - Len(recent) + j = i
        BY <1>1, <1>5
      <3>4. QED
        BY <1>3, <3>1, <3>2, <3>3
    <2>3. QED
      BY <1>1, <1>5, <2>1, <2>2
  <1>8. QED
    BY <1>2, <1>4, <1>5, <1>6, <1>7

\* An admission extends the history and the pruned window by one.
LEMMA ProceedKeeps ==
    ASSUME WindowInv, NEW route \in Route, HProceed(route)
    PROVE  WindowInv'
  <1> USE RateLimiterAssumption
  <1> DEFINE entry == [route |-> route, at |-> now_secs]
  <1>1. /\ admits \in Seq(Entry) /\ admits' = Append(admits, entry) /\ entry \in Entry
        /\ now_secs' = now_secs /\ now_secs \in Nat /\ Len(admits) \in Nat
    BY DEF WindowInv, LimiterTypeOK, HProceed, Proceed, Entry
  <1>2. LimiterTypeOK'
    BY LimiterTypeStep DEF WindowInv, HProceed, LimiterNext
  <1>3. /\ admits' \in Seq(Entry)
        /\ Len(admits') = Len(admits) + 1
        /\ \A i \in 1 .. Len(admits) : admits'[i] = admits[i]
        /\ admits'[Len(admits) + 1] = entry
    BY <1>1
  <1>4. ASSUME MaxPerWindow # 0
        PROVE  /\ Len(recent') <= MaxPerWindow
               /\ Len(recent') <= Len(admits')
               /\ \A j \in 1 .. Len(recent') :
                     recent'[j] = admits'[Len(admits') - Len(recent') + j].at
               /\ \A i \in 1 .. Len(admits') - Len(recent') :
                     AgedOut(admits'[i].at, now_secs')
               /\ WindowCapHolds'
    <2> DEFINE window == Pruned(now_secs)
               gone == Len(admits) - Len(window)
    <2>1. /\ window \in Seq(Nat)
          /\ Len(window) \in Nat
          /\ gone \in Nat
          /\ \A j \in 1 .. Len(window) : window[j] = admits[gone + j].at
          /\ \A i \in 1 .. gone : AgedOut(admits[i].at, now_secs)
      BY <1>4, PrunedWindow
    <2>2. Len(window) < MaxPerWindow /\ recent' = Append(window, now_secs)
      BY <1>4, <2>1 DEF HProceed, Proceed, AdmitRoute, Denies, WindowFull
    <2>3. /\ Len(recent') = Len(window) + 1
          /\ \A j \in 1 .. Len(window) : recent'[j] = window[j]
          /\ recent'[Len(window) + 1] = now_secs
      BY <1>1, <2>1, <2>2
    <2>4. Len(admits') - Len(recent') = gone
      BY <1>1, <1>3, <2>1, <2>3
    <2>5. ASSUME NEW j \in 1 .. Len(recent')
          PROVE  recent'[j] = admits'[gone + j].at
      <3>1. CASE j = Len(window) + 1
        BY <1>1, <1>3, <2>1, <2>3, <3>1
      <3>2. CASE j # Len(window) + 1
        <4>1. j \in 1 .. Len(window) /\ gone + j \in 1 .. Len(admits)
          BY <1>1, <2>1, <2>3, <3>2
        <4>2. QED
          BY <1>3, <2>1, <2>3, <4>1
      <3>3. QED
        BY <3>1, <3>2
    <2>6. ASSUME NEW i \in 1 .. gone
          PROVE  AgedOut(admits'[i].at, now_secs')
      <3>1. i \in 1 .. Len(admits)
        BY <1>1, <2>1
      <3>2. QED
        BY <1>1, <1>3, <2>1, <3>1
    <2>7. ASSUME NEW i \in DOMAIN admits', i + MaxPerWindow \in DOMAIN admits'
          PROVE  admits'[i + MaxPerWindow].at >= admits'[i].at + WindowSecs
      <3>1. /\ i \in 1 .. Len(admits) + 1
            /\ i + MaxPerWindow \in 1 .. Len(admits) + 1
        BY <1>3, <2>7
      <3>2. CASE i + MaxPerWindow = Len(admits) + 1
        <4>1. i \in 1 .. gone
          BY <1>1, <2>1, <2>2, <3>1, <3>2
        <4>2. AgedOut(admits'[i].at, now_secs)
          BY <1>1, <2>6, <4>1
        <4>3. admits'[i + MaxPerWindow].at = now_secs
          BY <1>3, <3>2
        <4>4. admits'[i].at \in Nat
          <5>1. admits'[i] \in Entry
            BY <1>3, <3>1
          <5>2. QED
            BY <5>1 DEF Entry
        <4>5. QED
          BY <1>1, <4>2, <4>3, <4>4 DEF AgedOut
      <3>3. CASE i + MaxPerWindow # Len(admits) + 1
        <4>1. i \in DOMAIN admits /\ i + MaxPerWindow \in DOMAIN admits
          BY <1>1, <1>4, <3>1, <3>3
        <4>2. admits[i + MaxPerWindow].at >= admits[i].at + WindowSecs
          BY <1>4, <4>1 DEF WindowInv, WindowCapHolds
        <4>3. QED
          BY <1>1, <1>3, <4>1, <4>2
      <3>4. QED
        BY <3>2, <3>3
    <2>8. WindowCapHolds'
      BY <2>7 DEF WindowCapHolds
    <2>9. Len(recent') <= MaxPerWindow /\ Len(recent') <= Len(admits')
      BY <1>1, <1>3, <2>1, <2>2, <2>3
    <2>10. QED
      BY <2>4, <2>5, <2>6, <2>8, <2>9
  <1>5. QED
    BY <1>2, <1>3, <1>4 DEF WindowInv

\* Every step keeps the window the end of the history.
LEMMA WindowStep == WindowInv /\ [HNext]_hvars => WindowInv'
  <1> SUFFICES ASSUME WindowInv, [HNext]_hvars
               PROVE  WindowInv'
    OBVIOUS
  <1> USE RateLimiterAssumption
  <1>t. LimiterTypeOK'
    BY HistoryStep, LimiterTypeStep DEF WindowInv
  <1>1. CASE Advance /\ UNCHANGED <<admits, failed_at>>
    <2>1. /\ recent' = recent /\ admits' = admits /\ now_secs <= now_secs'
          /\ now_secs \in Nat /\ now_secs' \in Nat
      BY <1>1 DEF Advance, WindowInv, LimiterTypeOK
    <2>2. ASSUME MaxPerWindow # 0, NEW i \in 1 .. Len(admits) - Len(recent)
          PROVE  AgedOut(admits[i].at, now_secs')
      <3>1. i \in 1 .. Len(admits)
        BY <2>2 DEF WindowInv, LimiterTypeOK
      <3>2. admits[i].at \in Nat
        <4>1. admits[i] \in Entry
          BY <3>1 DEF WindowInv
        <4>2. QED
          BY <4>1 DEF Entry
      <3>3. AgedOut(admits[i].at, now_secs)
        BY <2>2 DEF WindowInv
      <3>4. QED
        BY <2>1, <3>2, <3>3 DEF AgedOut
    <2>3. WindowCapHolds' <=> WindowCapHolds
      BY <2>1 DEF WindowCapHolds
    <2>4. QED
      BY <1>t, <2>1, <2>2, <2>3 DEF WindowInv
  <1>2. ASSUME NEW route \in Route, Deny(route), UNCHANGED <<admits, failed_at>>
        PROVE  WindowInv'
    <2>1. now_secs' = now_secs /\ admits' = admits
      BY <1>2 DEF Deny
    <2>2. WindowCapHolds' <=> WindowCapHolds
      BY <2>1 DEF WindowCapHolds
    <2>3. CASE recent' = recent
      BY <1>t, <2>1, <2>2, <2>3 DEF WindowInv, AgedOut
    <2>4. CASE recent' = Pruned(now_secs)
      <3>1. ASSUME MaxPerWindow # 0
            PROVE  /\ Len(recent') <= MaxPerWindow
                   /\ Len(recent') <= Len(admits)
                   /\ \A j \in 1 .. Len(recent') :
                         recent'[j] = admits[Len(admits) - Len(recent') + j].at
                   /\ \A i \in 1 .. Len(admits) - Len(recent') :
                         AgedOut(admits[i].at, now_secs)
        <4> DEFINE window == Pruned(now_secs)
                   gone == Len(admits) - Len(window)
        <4>1. /\ Len(window) \in Nat
              /\ Len(window) <= Len(recent)
              /\ \A j \in 1 .. Len(window) : window[j] = admits[gone + j].at
              /\ \A i \in 1 .. gone : AgedOut(admits[i].at, now_secs)
          BY <3>1, PrunedWindow
        <4>2. /\ Len(recent) \in Nat /\ Len(admits) \in Nat
              /\ Len(recent) <= MaxPerWindow /\ Len(recent) <= Len(admits)
          BY <3>1 DEF WindowInv, LimiterTypeOK
        <4>3. recent' = window
          BY <2>4
        <4>4. QED
          <5> HIDE DEF window
          <5>1. Len(recent') <= MaxPerWindow /\ Len(recent') <= Len(admits)
            BY <4>1, <4>2, <4>3
          <5>2. QED
            BY <4>1, <4>3, <5>1
      <3>2. QED
        BY <1>t, <2>1, <2>2, <3>1 DEF WindowInv, AgedOut
    <2>5. QED
      BY <1>2, <2>3, <2>4 DEF Deny, DenyCooling, DenyWindow
  <1>3. ASSUME NEW route \in Route, HProceed(route)
        PROVE  WindowInv'
    BY <1>3, ProceedKeeps
  <1>4. CASE HFailed \/ HDelivered \/ UNCHANGED hvars
    <2>1. recent' = recent /\ now_secs' = now_secs /\ admits' = admits
      BY <1>4 DEF HFailed, Failed, RecordFailure, HDelivered, Delivered, ClearRoute, hvars, limiterVars
    <2>2. WindowCapHolds' <=> WindowCapHolds
      BY <2>1 DEF WindowCapHolds
    <2>3. QED
      BY <1>t, <2>1, <2>2 DEF WindowInv, AgedOut
  <1>5. QED
    BY <1>1, <1>2, <1>3, <1>4 DEF HNext, HQuiet

\* "At most max_per_window dispatches in any window_secs span" (ratelimit.rs),
\* in the times check() is given, for any cap, width and pattern of calls.
THEOREM WindowCapThm == HSpec => []WindowCapHolds
  <1>1. WindowInv => WindowCapHolds
    BY DEF WindowInv, WindowCapHolds
  <1>2. QED
    BY <1>1, WindowInit, WindowStep, PTL DEF HSpec

\* No route has failed initially.
LEMMA HeldInit == HInit => HeldInv
  BY LimiterTypeInit DEF HInit, HeldInv, Healthy

\* Every step keeps a failed route held.
LEMMA HeldStep == HeldInv /\ [HNext]_hvars => HeldInv'
  <1> SUFFICES ASSUME HeldInv, [HNext]_hvars
               PROVE  HeldInv'
    OBVIOUS
  <1> USE RateLimiterAssumption
  <1>t. LimiterTypeOK /\ LimiterTypeOK'
    BY HistoryStep, LimiterTypeStep DEF HeldInv
  <1> DEFINE Since(route) == failed_at[route][1] + CooldownSecs
  <1>f. \A route \in Route : failed_at[route] # Healthy => Since(route) \in Nat
    BY DEF HeldInv, Healthy
  <1>1. CASE Advance /\ UNCHANGED <<admits, failed_at>>
    <2>1. /\ now_secs \in Nat /\ now_secs' \in Nat /\ now_secs <= now_secs'
          /\ cooldown_until' = cooldown_until /\ failed_at' = failed_at
      BY <1>1 DEF Advance, HeldInv, LimiterTypeOK
    <2>2. QED
      BY <1>t, <1>f, <2>1 DEF HeldInv
  <1>2. ASSUME NEW route \in Route, ~Cooling(route, now_secs),
               DropEntry(route), now_secs' = now_secs, failed_at' = failed_at
        PROVE  HeldInv'
    <2>1. now_secs \in Nat /\ cooldown_until \in [Route -> Nat]
      BY <1>t DEF LimiterTypeOK
    <2>2. now_secs >= cooldown_until[route]
      BY <1>2, <2>1 DEF Cooling
    <2>3. ASSUME NEW r \in Route, failed_at[r] # Healthy
          PROVE  now_secs >= Since(r) \/ cooldown_until'[r] >= Since(r)
      <3>1. Since(r) \in Nat /\ (now_secs >= Since(r) \/ cooldown_until[r] >= Since(r))
        BY <1>f, <2>3 DEF HeldInv
      <3>2. CASE r = route
        BY <2>1, <2>2, <3>1, <3>2
      <3>3. CASE r # route
        BY <1>2, <2>1, <3>1, <3>3 DEF DropEntry
      <3>4. QED
        BY <3>2, <3>3
    <2>4. QED
      BY <1>2, <1>t, <2>3 DEF HeldInv
  <1>3. CASE HQuiet
    <2>1. ASSUME NEW route \in Route, Deny(route), UNCHANGED <<admits, failed_at>>
          PROVE  HeldInv'
      <3>1. CASE DenyCooling(route, now_secs)
        BY <1>t, <2>1, <3>1 DEF Deny, DenyCooling, HeldInv
      <3>2. CASE DenyWindow(route, now_secs)
        BY <1>2, <2>1, <3>2 DEF Deny, DenyWindow
      <3>3. QED
        BY <2>1, <3>1, <3>2 DEF Deny
    <2>2. QED
      BY <1>1, <1>3, <2>1 DEF HQuiet
  <1>4. ASSUME NEW route \in Route, HProceed(route)
        PROVE  HeldInv'
    BY <1>2, <1>4 DEF HProceed, Proceed, AdmitRoute, Denies
  <1>5. CASE HFailed
    <2>1. /\ pending \in Dispatch /\ pending.route \in Route /\ pending.at \in Nat
          /\ pending.at <= now_secs /\ now_secs \in Nat /\ now_secs' = now_secs
          /\ cooldown_until \in [Route -> Nat]
      BY <1>5, <1>t DEF HFailed, Failed, LimiterTypeOK, Dispatch
    <2>2. /\ failed_at' = [failed_at EXCEPT ![pending.route] = <<pending.at>>]
          /\ RecordFailure(pending.route, pending.at)
      BY <1>5 DEF HFailed, Failed
    <2>3. failed_at' \in [Route -> {<<at>> : at \in Nat} \cup {Healthy}]
      BY <2>1, <2>2 DEF HeldInv
    <2>4. ASSUME NEW r \in Route, failed_at'[r] # Healthy
          PROVE  \/ now_secs >= failed_at'[r][1] + CooldownSecs
                 \/ cooldown_until'[r] >= failed_at'[r][1] + CooldownSecs
      <3>1. CASE r = pending.route
        <4>1. failed_at'[r][1] = pending.at
          BY <2>1, <2>2, <3>1 DEF HeldInv
        <4>2. CASE CooldownSecs = 0
          BY <2>1, <4>1, <4>2
        <4>3. CASE CooldownSecs # 0
          BY <2>1, <2>2, <3>1, <4>1, <4>3 DEF RecordFailure
        <4>4. QED
          BY <4>2, <4>3
      <3>2. CASE r # pending.route
        <4>1. failed_at'[r] = failed_at[r] /\ cooldown_until'[r] = cooldown_until[r]
          BY <2>1, <2>2, <3>2 DEF HeldInv, RecordFailure
        <4>2. QED
          BY <2>4, <4>1 DEF HeldInv
      <3>3. QED
        BY <3>1, <3>2
    <2>5. QED
      BY <1>t, <2>1, <2>3, <2>4 DEF HeldInv
  <1>6. CASE HDelivered
    <2>1. /\ pending.route \in Route /\ now_secs' = now_secs
          /\ cooldown_until \in [Route -> Nat]
          /\ failed_at' = [failed_at EXCEPT ![pending.route] = Healthy]
          /\ cooldown_until' = [cooldown_until EXCEPT ![pending.route] = 0]
      BY <1>6, <1>t DEF HDelivered, Delivered, ClearRoute, DropEntry, LimiterTypeOK, Dispatch
    <2>2. ASSUME NEW r \in Route, failed_at'[r] # Healthy
          PROVE  /\ failed_at'[r] = failed_at[r]
                 /\ cooldown_until'[r] = cooldown_until[r]
      BY <2>1, <2>2 DEF HeldInv
    <2>3. failed_at' \in [Route -> {<<at>> : at \in Nat} \cup {Healthy}]
      BY <2>1 DEF HeldInv
    <2>4. QED
      BY <1>t, <2>1, <2>2, <2>3 DEF HeldInv
  <1>7. CASE UNCHANGED hvars
    BY <1>7, <1>t DEF hvars, limiterVars, HeldInv
  <1>8. QED
    BY <1>3, <1>4, <1>5, <1>6, <1>7 DEF HNext

\* A route is not dispatched within CooldownSecs of the admission of its last
\* failed dispatch, unless it has delivered since (record_failure, clear_route).
THEOREM CooldownThm == HSpec => CooldownHolds
  <1>1. HeldInv /\ [HNext]_hvars =>
          [\A route \in Route :
             HProceed(route) /\ failed_at[route] # Healthy =>
               now_secs >= failed_at[route][1] + CooldownSecs]_hvars
    <2> SUFFICES ASSUME HeldInv, NEW route \in Route, HProceed(route),
                        failed_at[route] # Healthy
                 PROVE  now_secs >= failed_at[route][1] + CooldownSecs
      OBVIOUS
    <2>1. /\ now_secs \in Nat /\ cooldown_until[route] \in Nat
          /\ failed_at[route][1] + CooldownSecs \in Nat
      BY RateLimiterAssumption DEF HeldInv, LimiterTypeOK, Healthy
    <2>2. ~Cooling(route, now_secs)
      BY DEF HProceed, Proceed, AdmitRoute, Denies
    <2>3. QED
      BY <2>1, <2>2 DEF HeldInv, Cooling
  <1>2. QED
    BY <1>1, HeldInit, HeldStep, PTL DEF HSpec, CooldownHolds

-----------------------------------------------------------------------------
(* The window counts what is live in the history.                          *)

\* The admissions come in the order of their times, none of which lies ahead.
TimesInv ==
    /\ WindowInv
    /\ \A i \in 1 .. Len(admits) : admits[i].at <= now_secs
    /\ \A i, j \in 1 .. Len(admits) : i <= j => admits[i].at <= admits[j].at

\* Every step keeps the times in order.
LEMMA TimesStep == TimesInv /\ [HNext]_hvars => TimesInv'
  <1> SUFFICES ASSUME TimesInv, [HNext]_hvars
               PROVE  TimesInv'
    OBVIOUS
  <1>1. WindowInv /\ WindowInv'
    BY WindowStep DEF TimesInv
  <1>2. /\ admits \in Seq(Entry) /\ Len(admits) \in Nat
        /\ now_secs \in Nat /\ now_secs' \in Nat
    BY <1>1 DEF WindowInv, LimiterTypeOK
  <1>3. \A i \in 1 .. Len(admits) : admits[i].at \in Nat
    <2>1. \A i \in 1 .. Len(admits) : admits[i] \in Entry
      BY <1>2
    <2>2. QED
      BY <2>1 DEF Entry
  <1>4. ASSUME admits' = admits, now_secs <= now_secs'
        PROVE  TimesInv'
    <2>1. \A i \in 1 .. Len(admits) : admits[i].at <= now_secs'
      BY <1>2, <1>3, <1>4 DEF TimesInv
    <2>2. QED
      BY <1>1, <1>4, <2>1 DEF TimesInv
  <1>5. ASSUME NEW route \in Route, HProceed(route)
        PROVE  TimesInv'
    <2> DEFINE entry == [route |-> route, at |-> now_secs]
               n == Len(admits)
    <2>1. admits' = Append(admits, entry) /\ now_secs' = now_secs /\ entry.at = now_secs
      BY <1>5 DEF HProceed, Proceed
    <2>2. /\ Len(admits') = n + 1
          /\ \A i \in 1 .. n : admits'[i] = admits[i]
          /\ admits'[n + 1] = entry
      BY <1>2, <2>1
    <2>3. ASSUME NEW i \in 1 .. n + 1
          PROVE  admits'[i].at <= now_secs
      BY <1>2, <2>1, <2>2 DEF TimesInv
    <2>4. ASSUME NEW i \in 1 .. n + 1, NEW j \in 1 .. n + 1, i <= j
          PROVE  admits'[i].at <= admits'[j].at
      <3>1. CASE j = n + 1
        BY <2>1, <2>2, <2>3, <3>1
      <3>2. CASE j # n + 1
        <4>1. i \in 1 .. n /\ j \in 1 .. n
          BY <1>2, <2>4, <3>2
        <4>2. QED
          BY <2>2, <2>4, <4>1 DEF TimesInv
      <3>3. QED
        BY <3>1, <3>2
    <2>5. QED
      BY <1>1, <2>1, <2>2, <2>3, <2>4 DEF TimesInv
  <1>6. CASE HQuiet
    BY <1>2, <1>4, <1>6 DEF HQuiet, Advance, Deny
  <1>7. CASE HFailed \/ HDelivered \/ UNCHANGED hvars
    BY <1>2, <1>4, <1>7 DEF HFailed, Failed, HDelivered, Delivered, hvars, limiterVars
  <1>8. QED
    BY <1>5, <1>6, <1>7 DEF HNext

\* The pruned window is exactly the live end of the history.
LEMMA LiveEnd ==
    ASSUME TimesInv, MaxPerWindow # 0
    PROVE  Len(Pruned(now_secs)) =
             Cardinality({i \in DOMAIN admits : admits[i].at + WindowSecs > now_secs})
  <1> USE RateLimiterAssumption
  <1> DEFINE window == Pruned(now_secs)
             gone == Len(admits) - Len(window)
             Live == {i \in DOMAIN admits : admits[i].at + WindowSecs > now_secs}
  <1>1. /\ window \in Seq(Nat) /\ Len(window) \in Nat /\ gone \in Nat
        /\ \A j \in 1 .. Len(window) : window[j] = admits[gone + j].at
        /\ \A i \in 1 .. gone : AgedOut(admits[i].at, now_secs)
    BY PrunedWindow DEF TimesInv
  <1>2. /\ admits \in Seq(Entry) /\ Len(admits) \in Nat /\ DOMAIN admits = 1 .. Len(admits)
        /\ now_secs \in Nat /\ recent \in Seq(Nat)
    BY DEF TimesInv, WindowInv, LimiterTypeOK
  <1>3. \A i \in 1 .. Len(admits) : admits[i].at \in Nat
    <2>1. \A i \in 1 .. Len(admits) : admits[i] \in Entry
      BY <1>2
    <2>2. QED
      BY <2>1 DEF Entry
  <1>4. ASSUME window # <<>>
        PROVE  ~AgedOut(admits[gone + 1].at, now_secs) /\ gone + 1 \in 1 .. Len(admits)
    <2>1. Len(window) >= 1
      BY <1>1, <1>4, EmptySeq
    <2>2. /\ FirstLive(now_secs) <= Len(recent)
          /\ window[1] = recent[FirstLive(now_secs)]
      <3>1. /\ Len(window) = Len(recent) - FirstLive(now_secs) + 1
            /\ FirstLive(now_secs) \in 1 .. Len(recent) + 1
            /\ Len(recent) \in Nat
            /\ \A j \in 1 .. Len(window) : window[j] = recent[FirstLive(now_secs) + j - 1]
        BY <1>2, PrunedFacts
      <3>2. FirstLive(now_secs) <= Len(recent)
        BY <1>1, <2>1, <3>1
      <3>3. window[1] = recent[FirstLive(now_secs) + 1 - 1]
        BY <1>1, <2>1, <3>1
      <3>4. QED
        BY <3>1, <3>2, <3>3
    <2>3. ~AgedOut(window[1], now_secs)
      BY <1>2, <2>2, FirstLiveFacts DEF LiveFrom
    <2>4. QED
      BY <1>1, <1>2, <2>1, <2>3
  <1>5. Live = gone + 1 .. Len(admits)
    <2>1. ASSUME NEW i \in gone + 1 .. Len(admits)
          PROVE  i \in Live
      <3>1. i \in 1 .. Len(admits) /\ gone + 1 <= i /\ Len(window) # 0
        BY <1>1, <1>2
      <3>2. window # <<>>
        BY <3>1
      <3>3. /\ gone + 1 \in 1 .. Len(admits)
            /\ ~AgedOut(admits[gone + 1].at, now_secs)
        BY <1>4, <3>2
      <3>4. admits[gone + 1].at <= admits[i].at
        <4> HIDE DEF gone
        <4>1. QED
          BY <3>1, <3>3 DEF TimesInv
      <3>5. ~AgedOut(admits[i].at, now_secs)
        <4> HIDE DEF gone
        <4>1. admits[i].at \in Nat /\ admits[gone + 1].at \in Nat
          BY <1>3, <3>1, <3>3
        <4>2. QED
          BY <1>2, <3>3, <3>4, <4>1 DEF AgedOut
      <3>6. QED
        BY <1>2, <1>3, <3>1, <3>5 DEF AgedOut
    <2>2. ASSUME NEW i \in Live
          PROVE  i \in gone + 1 .. Len(admits)
      <3>1. i \in 1 .. Len(admits) /\ ~AgedOut(admits[i].at, now_secs)
        BY <1>2, <1>3, <2>2 DEF AgedOut
      <3>2. i \notin 1 .. gone
        BY <1>1, <3>1
      <3>3. QED
        <4> HIDE DEF gone
        <4>1. gone \in Nat /\ Len(admits) \in Nat
          BY <1>1, <1>2
        <4>2. QED
          BY <3>1, <3>2, <4>1
    <2>3. QED
      <3> HIDE DEF Live
      <3>1. QED
        BY <2>1, <2>2
  <1>6. Cardinality(gone + 1 .. Len(admits)) = Len(window)
    <2>1. gone + 1 \in Int /\ Len(admits) \in Int
      BY <1>1, <1>2
    <2>2. Cardinality(gone + 1 .. Len(admits)) =
             IF gone + 1 > Len(admits) THEN 0 ELSE Len(admits) - (gone + 1) + 1
      <3> HIDE DEF gone
      <3>1. QED
        BY <2>1, FS_Interval
    <2>3. QED
      BY <1>1, <1>2, <2>2
  <1>7. QED
    BY <1>5, <1>6

\* The limiter's deque is never longer than the cap, and what a check counts is
\* exactly the dispatches admitted in the last window (ratelimit.rs, prune).
THEOREM WindowIsExactThm == HSpec => []WindowIsExact
  <1>1. HInit => TimesInv
    BY WindowInit DEF HInit, TimesInv
  <1>2. TimesInv => WindowIsExact
    BY LiveEnd DEF TimesInv, WindowInv, WindowIsExact
  <1>3. QED
    BY <1>1, <1>2, TimesStep, PTL DEF HSpec

-----------------------------------------------------------------------------
(* The two together.                                                       *)

\* Every step of the composition is a step of the governor, or leaves it alone.
LEMMA GovernorStep == [LimitsNext]_limitsVars => [Next]_vars
<1> SUFFICES ASSUME [LimitsNext]_limitsVars
             PROVE  [Next]_vars
    OBVIOUS
<1>1. CASE Waits
    BY <1>1 DEF Waits, vars
<1>2. ASSUME NEW route \in Route, Runs(route)
      PROVE  [Next]_vars
    BY <1>2 DEF Runs, Next
<1>3. ASSUME NEW route \in Route, Refused(route)
      PROVE  [Next]_vars
    BY <1>3 DEF Refused, vars
<1>4. CASE Fails
    BY <1>4 DEF Fails, Next
<1>5. CASE Delivers
    BY <1>5 DEF Delivers, Next
<1>6. CASE UNCHANGED limitsVars
    BY <1>6 DEF limitsVars
<1> QED
    BY <1>1, <1>2, <1>3, <1>4, <1>5, <1>6 DEF LimitsNext

\* Every step of the composition is a step of the rate limiter with its history.
LEMMA LimiterStep == [LimitsNext]_limitsVars => [HNext]_hvars
<1> SUFFICES ASSUME [LimitsNext]_limitsVars
             PROVE  [HNext]_hvars
    OBVIOUS
<1>1. CASE Waits
    BY <1>1 DEF Waits, HNext
<1>2. ASSUME NEW route \in Route, Runs(route) \/ Refused(route)
      PROVE  [HNext]_hvars
    BY <1>2 DEF Runs, Refused, HNext
<1>3. CASE Fails
    BY <1>3 DEF Fails, HNext
<1>4. CASE Delivers
    BY <1>4 DEF Delivers, HNext
<1>5. CASE UNCHANGED limitsVars
    BY <1>5 DEF limitsVars
<1> QED
    BY <1>1, <1>2, <1>3, <1>4, <1>5 DEF LimitsNext

\* The two limits consulted in turn, with one dispatch in flight, implement the
\* calling discipline each of them is specified and proved under.
THEOREM LimitsImplementBoth == LimitsSpec => Spec /\ HSpec
<1>1. LimitsInit => Init /\ HInit
    BY DEF LimitsInit
<1> QED
    BY <1>1, GovernorStep, LimiterStep, PTL DEF LimitsSpec, Spec, HSpec
=============================================================================
