-------------------------- MODULE DispatcherProofs --------------------------
(***************************************************************************)
(* Proofs about Dispatcher, for any frames, caps, thresholds and windows,  *)
(* with restarts at any point.                                             *)
(***************************************************************************)
EXTENDS Dispatcher, SequenceTheorems, FiniteSetTheorems, TLAPS

-----------------------------------------------------------------------------
(* The guards' operators, as the dispatcher uses them.                     *)

\* A power of two is a natural number: it counts the subsets of 1 .. n.
LEMMA PowerOfTwo ==
    ASSUME NEW n \in Nat
    PROVE  2 ^ n \in Nat
  <1>1. IsFiniteSet(1 .. n) /\ Cardinality(1 .. n) = n
    BY FS_Interval
  <1>2. /\ IsFiniteSet(SUBSET (1 .. n))
        /\ Cardinality(SUBSET (1 .. n)) = 2 ^ Cardinality(1 .. n)
    BY <1>1, FS_SUBSET
  <1>3. Cardinality(SUBSET (1 .. n)) \in Nat
    BY <1>2, FS_CardinalityType
  <1>4. QED
    BY <1>1, <1>2, <1>3

Advice == [action : {"retry", "escalate", "none"}, attempt : Nat, backoff : Nat]

\* Recovery routing answers with a directive of its type.
LEMMA DecisionType ==
    ASSUME Rec!RecoveryTypeOK, NEW fp \in Fingerprint, NEW kind
    PROVE  Rec!Decision(fp, kind) \in Advice
  <1>1. attempts[fp] \in Nat
    BY DEF Rec!RecoveryTypeOK
  <1>2. ASSUME NEW n \in Nat \ {0}
        PROVE  Rec!BackoffFor(n) \in Nat
    <2> DEFINE shift == IF n > 17 THEN 16 ELSE n - 1
               backoff == Rec!base * 2 ^ shift
    <2>1. shift \in Nat
      OBVIOUS
    <2>2. 2 ^ shift \in Nat
      BY <2>1, PowerOfTwo
    <2>3. Rec!base \in Nat
      BY DispatcherAssumption DEF Rec!base
    <2>4. backoff \in Nat
      <3> HIDE DEF shift
      <3>1. QED
        BY <2>2, <2>3
    <2>5. Rec!BackoffFor(n) = IF backoff > MaxU64 THEN MaxU64 ELSE backoff
      BY DEF Rec!BackoffFor
    <2>6. QED
      <3> HIDE DEF backoff
      <3>1. QED
        BY <2>4, <2>5, DispatcherAssumption
  <1>3. Rec!BackoffFor(attempts[fp] + 1) \in Nat
    BY <1>1, <1>2
  <1>4. QED
    BY <1>1, <1>3 DEF Rec!Decision, Rec!Escalate, Rec!Retry, Advice

\* The place where the live entries of the window begin.
LiveFrom(t, k) ==
    /\ k \in 1 .. Len(recent) + 1
    /\ \A j \in 1 .. k - 1 : Rate!AgedOut(recent[j], t)
    /\ k <= Len(recent) => ~Rate!AgedOut(recent[k], t)

\* There is one: the least place whose entry, if any, is live.
LEMMA FirstLiveFacts ==
    ASSUME recent \in Seq(Nat), NEW t \in Nat
    PROVE  LiveFrom(t, Rate!FirstLive(t))
  <1> DEFINE T == {k \in 1 .. Len(recent) + 1 :
                       k <= Len(recent) => ~Rate!AgedOut(recent[k], t)}
  <1>1. Len(recent) \in Nat
    OBVIOUS
  <1>2. T \subseteq Nat /\ Len(recent) + 1 \in T
    BY <1>1
  <1>3. PICK k \in T : \A j \in T : ~(<<j, k>> \in OpToRel(<, Nat))
    <2> HIDE DEF T
    <2>1. T # {}
      BY <1>2
    <2>2. QED
      BY <1>2, <2>1, NatLessThanWellFounded, WFMin, Zenon
  <1>4. \A j \in T : ~(j < k)
    BY <1>2, <1>3 DEF OpToRel
  <1>5. ASSUME NEW j \in 1 .. k - 1
        PROVE  Rate!AgedOut(recent[j], t)
    <2>1. k \in 1 .. Len(recent) + 1
      OBVIOUS
    <2>2. j \in 1 .. Len(recent) /\ j < k
      BY <1>1, <1>5, <2>1
    <2>3. j \notin T
      BY <1>4, <2>2
    <2>4. QED
      BY <1>1, <2>2, <2>3
  <1>6. LiveFrom(t, k)
    BY <1>3, <1>5 DEF LiveFrom
  <1>7. QED
    BY <1>6 DEF LiveFrom, Rate!FirstLive

\* Pruning keeps a window of times, whose oldest entry is live.
LEMMA PrunedFacts ==
    ASSUME recent \in Seq(Nat), NEW t \in Nat
    PROVE  /\ Rate!Pruned(t) \in Seq(Nat)
           /\ Rate!Pruned(t) # <<>> =>
                 /\ Head(Rate!Pruned(t)) \in Nat
                 /\ ~Rate!AgedOut(Head(Rate!Pruned(t)), t)
  <1> DEFINE m == Rate!FirstLive(t)
             n == Len(recent)
  <1>1. m \in 1 .. n + 1 /\ n \in Nat /\ (m <= n => ~Rate!AgedOut(recent[m], t))
    BY FirstLiveFacts DEF LiveFrom
  <1>2. \A i \in m .. n : recent[i] \in Nat
    BY <1>1, ElementOfSeq
  <1>3. /\ SubSeq(recent, m, n) \in Seq(Nat)
        /\ Len(SubSeq(recent, m, n)) = IF m <= n THEN n - m + 1 ELSE 0
        /\ \A i \in 1 .. n - m + 1 : SubSeq(recent, m, n)[i] = recent[m + i - 1]
    <2> HIDE DEF m, n
    <2>1. m \in Int /\ n \in Int /\ \A i \in m .. n : recent[i] \in Nat
      BY <1>1, <1>2
    <2>2. QED
      BY <2>1, SubSeqProperties
  <1>4. Rate!Pruned(t) = SubSeq(recent, m, n)
    BY DEF Rate!Pruned
  <1>5. ASSUME Rate!Pruned(t) # <<>>
        PROVE  Head(Rate!Pruned(t)) = recent[m] /\ m <= n
    <2> HIDE DEF m, n
    <2>1. m <= n
      BY <1>1, <1>3, <1>4, <1>5, EmptySeq
    <2>2. SubSeq(recent, m, n)[1] = recent[m]
      BY <1>1, <1>3, <2>1
    <2>3. QED
      BY <1>3, <1>4, <1>5, <2>1, <2>2
  <1>6. QED
    <2> HIDE DEF m, n
    <2>1. QED
      BY <1>1, <1>2, <1>3, <1>4, <1>5

\* What is known of a frame a client may send.
LEMMA FrameFacts ==
    ASSUME NEW frame \in Frame
    PROVE  /\ frame.job.fp \in Fingerprint /\ frame.job.id \in JobId
           /\ class(frame) \in Class /\ target(frame) \in Target
  <1>1. frame \in FrameType
    BY DispatcherAssumption
  <1>2. frame.job.fp \in Fingerprint /\ frame.job.id \in JobId
    BY <1>1 DEF FrameType, Job
  <1>3. QED
    BY <1>2, GatesAssumption DEF class, target

\* A check of the rate limiter, whatever its verdict, keeps its types, and the
\* hint of a refusal is a time.
LEMMA RateFacts ==
    ASSUME TypeOK, NEW c \in Class,
           \/ Rate!DenyCooling(c, now_secs) \/ Rate!DenyWindow(c, now_secs)
           \/ Rate!AdmitRoute(c, now_secs)
    PROVE  /\ recent' \in Seq(Nat)
           /\ cooldown_until' \in [Class -> Nat]
           /\ \A d \in Class : /\ cooldown_until'[d] <= cooldown_until[d]
                               /\ cooldown_until'[d] <= now_secs + CooldownSecs
           /\ ~Rate!AdmitRoute(c, now_secs) => Rate!RetryAfter(c, now_secs) \in Nat
  <1> USE DispatcherAssumption
  <1>1. /\ recent \in Seq(Nat) /\ now_secs \in Nat
        /\ cooldown_until \in [Class -> Nat]
        /\ \A d \in Class : cooldown_until[d] <= now_secs + CooldownSecs
    BY DEF TypeOK, Rate!LimiterTypeOK
  <1>2. recent' \in Seq(Nat)
    <2>1. Rate!Pruned(now_secs) \in Seq(Nat)
      BY <1>1, PrunedFacts
    <2>2. CASE Rate!DenyCooling(c, now_secs)
      BY <1>1, <2>2 DEF Rate!DenyCooling
    <2>3. CASE Rate!DenyWindow(c, now_secs)
      BY <2>1, <2>3 DEF Rate!DenyWindow
    <2>4. CASE Rate!AdmitRoute(c, now_secs)
      BY <1>1, <2>1, <2>4 DEF Rate!AdmitRoute
    <2>5. QED
      BY <2>2, <2>3, <2>4
  <1>3. cooldown_until' = cooldown_until \/ cooldown_until' = [cooldown_until EXCEPT ![c] = 0]
    BY DEF Rate!DenyCooling, Rate!DenyWindow, Rate!AdmitRoute, Rate!DropEntry
  <1>4. ASSUME NEW d \in Class
        PROVE  /\ cooldown_until'[d] <= cooldown_until[d]
               /\ cooldown_until'[d] <= now_secs + CooldownSecs
    BY <1>1, <1>3
  <1>5. ASSUME ~Rate!AdmitRoute(c, now_secs)
        PROVE  Rate!RetryAfter(c, now_secs) \in Nat
    <2>1. CASE Rate!Cooling(c, now_secs)
      BY <1>1, <2>1 DEF Rate!RetryAfter, Rate!Cooling
    <2>2. CASE ~Rate!Cooling(c, now_secs)
      <3>1. MaxPerWindow # 0 /\ Len(Rate!Pruned(now_secs)) >= MaxPerWindow
        BY <1>5, <2>2 DEF Rate!DenyCooling, Rate!DenyWindow, Rate!WindowFull
      <3>2. Rate!Pruned(now_secs) # <<>>
        BY <3>1
      <3> DEFINE oldest == Head(Rate!Pruned(now_secs))
      <3>3. oldest \in Nat /\ ~(oldest + WindowSecs <= now_secs)
        BY <1>1, <3>2, PrunedFacts DEF Rate!AgedOut
      <3>4. Rate!RetryAfter(c, now_secs) = Rate!AtLeastOne(oldest + WindowSecs - now_secs)
        BY <2>2 DEF Rate!RetryAfter
      <3>5. QED
        <4> HIDE DEF oldest
        <4>1. QED
          BY <1>1, <3>3, <3>4 DEF Rate!AtLeastOne
    <2>3. QED
      BY <2>1, <2>2
  <1>6. cooldown_until' \in [Class -> Nat]
    BY <1>1, <1>3
  <1>7. QED
    BY <1>2, <1>4, <1>5, <1>6

\* An observation keeps the breaker's window within its width.
LEMMA ObservedFacts ==
    ASSUME Loop!LoopTypeOK, NEW fp \in Fingerprint
    PROVE  Loop!Observed(fp) \in Seq(Fingerprint) /\ Len(Loop!Observed(fp)) <= Loop!window
  <1> DEFINE pushed == Append(seen, fp)
  <1>1. Loop!window \in Nat \ {0}
    BY DispatcherAssumption DEF Loop!window
  <1>2. seen \in Seq(Fingerprint) /\ Len(seen) \in Nat /\ Len(seen) <= Loop!window
    BY DEF Loop!LoopTypeOK
  <1>3. pushed \in Seq(Fingerprint) /\ Len(pushed) = Len(seen) + 1 /\ pushed # <<>>
    BY <1>2
  <1>4. Tail(pushed) \in Seq(Fingerprint) /\ Len(Tail(pushed)) = Len(seen)
    <2> HIDE DEF pushed
    <2>1. QED
      BY <1>2, <1>3
  <1>5. Loop!Observed(fp) = IF Len(pushed) > Loop!window THEN Tail(pushed) ELSE pushed
    BY DEF Loop!Observed
  <1>6. QED
    <2> HIDE DEF pushed
    <2>1. QED
      BY <1>1, <1>2, <1>3, <1>4, <1>5

-----------------------------------------------------------------------------
(* What the handlers do.                                                   *)

\* The state the checks of a dispatch may change, refused or not.
WindowsTypeOK ==
    /\ recent \in Seq(Nat)
    /\ cooldown_until \in [Class -> Nat]
    /\ \A c \in Class : cooldown_until[c] <= now_secs + CooldownSecs
    /\ Loop!LoopTypeOK
    /\ next_sequence \in Nat

RefusedBefore(frame) == \E gate \in GateName : RefuseAtGate(frame, gate)
RefusedAfter(frame) == RefuseRate(frame) \/ RefuseLoop(frame) \/ RefuseBudget(frame)

\* A response is told from the absence of one by its fields.
LEMMA ResponseIsSome == \A r \in Response : r # None
  <1> SUFFICES ASSUME NEW r \in Response, r = None PROVE FALSE
    OBVIOUS
  <1>1. DOMAIN r = {"fp", "outcome", "directive"}
    BY DEF Response
  <1>2. DOMAIN r = {}
    <2>1. DOMAIN << >> = 1 .. 0
      OBVIOUS
    <2>2. QED
      BY <2>1 DEF None
  <1>3. QED
    BY <1>1, <1>2

\* A response with a type.
LEMMA AnswerFacts ==
    ASSUME NEW fp \in Fingerprint, NEW outcome \in Outcome, NEW directive \in Advice,
           Answer(fp, outcome, directive)
    PROVE  /\ phase' = "replying" /\ cur' = None /\ now_secs' = now_secs
           /\ reply' \in Response /\ reply' # None
           /\ reply'.fp = fp /\ reply'.outcome = outcome /\ reply'.directive = directive
  <1>1. reply' = [fp |-> fp, outcome |-> outcome, directive |-> directive]
    BY DEF Answer
  <1>2. reply' # None
    BY <1>1 DEF None
  <1>3. reply' \in Response
    BY <1>1 DEF Response, Advice
  <1>4. QED
    BY <1>1, <1>2, <1>3 DEF Answer

\* The advice that does not come from recovery routing.
LEMMA OtherAdvice ==
    ASSUME NEW secs \in Nat
    PROVE  NoDirective \in Advice /\ RetryAfter(secs) \in Advice
  BY DEF NoDirective, Rec!NoDirective, RetryAfter, Advice

\* A gate before the single-flight lock leaves no trace but a sequence number.
LEMMA GateRefusal ==
    ASSUME TypeOK, NEW frame \in Frame, NEW gate \in GateName, RefuseAtGate(frame, gate)
    PROVE  /\ phase = "reading" /\ phase' = "replying" /\ cur' = None /\ now_secs' = now_secs
           /\ reply' \in Response /\ reply'.outcome = gate
           /\ UNCHANGED <<world, budget, limiter, failure_ledgers, seen, active>>
           /\ WindowsTypeOK'
  <1>1. frame.job.fp \in Fingerprint
    BY FrameFacts
  <1>2. Directive(frame, gate) \in Advice
    <2>1. Rec!Decision(frame.job.fp, gate) \in Advice
      BY <1>1, DecisionType DEF TypeOK
    <2>2. NoDirective \in Advice /\ RetryAfter(StateDeferSecs) \in Advice
      BY OtherAdvice, DispatcherAssumption
    <2>3. QED
      BY <2>1, <2>2 DEF Directive
  <1>3. Answer(frame.job.fp, gate, Directive(frame, gate)) /\ gate \in Outcome
    BY DEF RefuseAtGate, Outcome
  <1>4. attempts' = attempts
    BY DEF RefuseAtGate, Rec!Decide, Rec!Retryable, GateName
  <1>5. active' = active /\ (next_sequence' = next_sequence \/ next_sequence' = next_sequence + 1)
    BY DEF RefuseAtGate, Flight!Refuse, Flight!Draw, flights
  <1>6. UNCHANGED <<world, budget, limiter, failure_ledgers, seen>>
    BY <1>4 DEF RefuseAtGate, failure_ledgers
  <1>7. phase = "reading" /\ now_secs' = now_secs
    BY <1>3 DEF RefuseAtGate, Answer
  <1>8. WindowsTypeOK'
    BY <1>5, <1>6, <1>7
       DEF WindowsTypeOK, TypeOK, Rate!LimiterTypeOK, Loop!LoopTypeOK, Flight!FlightTypeOK, limiter
  <1>9. QED
    BY <1>1, <1>2, <1>3, <1>5, <1>6, <1>7, <1>8, AnswerFacts

\* A guard behind the lock gives the target back: its trace is a sequence
\* number, a slot of the rate window or a place in the loop window.
LEMMA GuardRefusal ==
    ASSUME TypeOK, NEW frame \in Frame, RefusedAfter(frame)
    PROVE  /\ phase = "reading" /\ phase' = "replying" /\ cur' = None /\ now_secs' = now_secs
           /\ reply' \in Response
           /\ reply'.outcome \in {"RateLimited", "LoopTripped", "BudgetDenied"}
           /\ UNCHANGED <<world, budget, failure_ledgers, active>>
           /\ WindowsTypeOK'
           /\ \A c \in Class : cooldown_until'[c] <= cooldown_until[c]
           /\ reply'.outcome = "RateLimited" => UNCHANGED seen
  <1> DEFINE fp == frame.job.fp
             c == class(frame)
  <1>1. fp \in Fingerprint /\ c \in Class
    BY FrameFacts
  <1>2. /\ phase = "reading" /\ active' = active /\ next_sequence' = next_sequence + 1
        /\ UNCHANGED world
    BY DEF RefusedAfter, RefuseRate, RefuseLoop, RefuseBudget, TakesTarget, LeavesTarget, Flight!Draw
  <1>3. Loop!LoopTypeOK /\ next_sequence \in Nat /\ Rec!RecoveryTypeOK
    BY DEF TypeOK, Flight!FlightTypeOK
  <1>4. \/ Rate!DenyCooling(c, now_secs) \/ Rate!DenyWindow(c, now_secs)
        \/ Rate!AdmitRoute(c, now_secs)
    BY DEF RefusedAfter, RefuseRate, RefuseLoop, RefuseBudget
  <1>5. seen' = seen \/ seen' = Loop!Observed(fp)
    BY DEF RefusedAfter, RefuseRate, RefuseLoop, RefuseBudget, Loop!Observe
  <1>6. Loop!LoopTypeOK'
    <2>1. seen \in Seq(Fingerprint) /\ Len(seen) <= Loop!window
      BY <1>3 DEF Loop!LoopTypeOK
    <2>2. Loop!Observed(fp) \in Seq(Fingerprint) /\ Len(Loop!Observed(fp)) <= Loop!window
      BY <1>1, <1>3, ObservedFacts
    <2>3. QED
      BY <1>5, <2>1, <2>2 DEF Loop!LoopTypeOK, Loop!window
  <1>7. UNCHANGED <<budget, failure_ledgers>>
    <2>1. CASE RefuseLoop(frame)
      BY <2>1 DEF RefuseLoop, Rec!Decide, Rec!Retryable, failure_ledgers
    <2>2. CASE RefuseRate(frame) \/ RefuseBudget(frame)
      BY <2>2 DEF RefuseRate, RefuseBudget, budget
    <2>3. QED
      BY <2>1, <2>2 DEF RefusedAfter
  <1>8. /\ phase' = "replying" /\ cur' = None /\ now_secs' = now_secs /\ reply' \in Response
        /\ reply'.outcome \in {"RateLimited", "LoopTripped", "BudgetDenied"}
        /\ reply'.outcome = "RateLimited" => UNCHANGED seen
    <2>1. CASE RefuseRate(frame)
      <3>1. Rate!RetryAfter(c, now_secs) \in Nat
        BY <1>1, <2>1, RateFacts
           DEF RefuseRate, Rate!DenyCooling, Rate!DenyWindow, Rate!AdmitRoute, Rate!Denies
      <3>2. RetryAfter(Rate!RetryAfter(c, now_secs)) \in Advice
        BY <3>1, OtherAdvice
      <3>3. Answer(fp, "RateLimited", RetryAfter(Rate!RetryAfter(c, now_secs))) /\ seen' = seen
        BY <2>1 DEF RefuseRate
      <3>4. QED
        BY <1>1, <3>2, <3>3, AnswerFacts DEF Outcome
    <2>2. CASE RefuseLoop(frame)
      <3>1. Rec!Decision(fp, "LoopTripped") \in Advice
        BY <1>1, <1>3, DecisionType
      <3>2. Answer(fp, "LoopTripped", Rec!Decision(fp, "LoopTripped"))
        BY <2>2 DEF RefuseLoop
      <3>3. "LoopTripped" \in Outcome
        BY DEF Outcome
      <3>4. /\ phase' = "replying" /\ cur' = None /\ now_secs' = now_secs /\ reply' \in Response
            /\ reply'.outcome = "LoopTripped"
        BY <1>1, <3>1, <3>2, <3>3, AnswerFacts
      <3>5. QED
        BY <3>4
    <2>3. CASE RefuseBudget(frame)
      <3>1. NoDirective \in Advice /\ Answer(fp, "BudgetDenied", NoDirective)
        BY <2>3, OtherAdvice DEF RefuseBudget
      <3>2. QED
        BY <1>1, <3>1, AnswerFacts DEF Outcome
    <2>4. QED
      BY <2>1, <2>2, <2>3 DEF RefusedAfter
  <1>9. /\ recent' \in Seq(Nat) /\ cooldown_until' \in [Class -> Nat]
        /\ \A d \in Class : /\ cooldown_until'[d] <= cooldown_until[d]
                            /\ cooldown_until'[d] <= now_secs + CooldownSecs
    BY <1>1, <1>4, RateFacts
  <1>10. WindowsTypeOK'
    BY <1>2, <1>3, <1>6, <1>8, <1>9 DEF WindowsTypeOK
  <1>11. QED
    BY <1>2, <1>7, <1>8, <1>9, <1>10

\* The kernel is started only when every gate let the frame pass: its target is
\* free and its fingerprint not in quarantine.
LEMMA StartFacts ==
    ASSUME TypeOK, NEW frame \in Frame, Start(frame)
    PROVE  /\ phase = "reading" /\ phase' = "running" /\ reply' = reply /\ now_secs' = now_secs
           /\ cur' \in Dispatched /\ cur' # None
           /\ cur'.frame = frame /\ cur'.lease.target = target(frame)
           /\ UNCHANGED <<world, failure_ledgers>>
           /\ Gov!Admit
           /\ ~Quar!Quarantined(frame.job.fp)
           /\ active[target(frame)] = Flight!Free
           /\ active' = [active EXCEPT ![target(frame)] = Flight!Held(cur'.lease)]
           /\ Flight!Held(cur'.lease) \in Flight!Flight
           /\ Flight!Held(cur'.lease) # Flight!Free
           /\ WindowsTypeOK'
  <1> DEFINE fp == frame.job.fp
             c == class(frame)
             lease == Flight!Lease(target(frame), frame.job.id)
  <1>1. fp \in Fingerprint /\ frame.job.id \in JobId /\ c \in Class /\ target(frame) \in Target
    BY FrameFacts
  <1>2. Loop!LoopTypeOK /\ next_sequence \in Nat /\ clock \in Nat
    BY DEF TypeOK, Flight!FlightTypeOK
  <1>3. /\ phase = "reading" /\ phase' = "running" /\ reply' = reply /\ now_secs' = now_secs
        /\ cur' = [frame |-> frame, began |-> clock, lease |-> lease]
        /\ UNCHANGED <<world, failure_ledgers>>
        /\ Gov!Admit
        /\ Rate!AdmitRoute(c, now_secs)
        /\ seen' = Loop!Observed(fp)
        /\ Flight!Acquire(target(frame), frame.job.id)
        /\ Passes(gates(frame))
    BY DEF Start, TakesTarget, Loop!Observe
  <1>4. lease = [target |-> target(frame), job_id |-> frame.job.id, sequence |-> next_sequence]
    BY DEF Flight!Lease
  <1>5. /\ cur'.frame = frame /\ cur'.lease = lease /\ cur'.began = clock
        /\ lease.target = target(frame)
        /\ lease \in [target : Target, job_id : JobId, sequence : Nat]
    BY <1>1, <1>2, <1>3, <1>4
  <1>6. cur' \in Dispatched /\ cur' # None
    BY <1>2, <1>3, <1>5 DEF Dispatched, None
  <1>7. ~Quar!Quarantined(fp)
    <2>1. 9 \in DOMAIN gates(frame) /\ gates(frame)[9].stop = Quar!Quarantined(fp)
      BY DEF gates, Stops
    <2>2. ~gates(frame)[9].stop
      BY <1>3, <2>1 DEF Passes
    <2>3. QED
      BY <2>1, <2>2
  <1>8. /\ active[target(frame)] = Flight!Free
        /\ active' = [active EXCEPT ![target(frame)] = Flight!Held(lease)]
        /\ next_sequence' = next_sequence + 1
    BY <1>3 DEF Flight!Acquire, Flight!Busy, Flight!Draw
  <1>9. Flight!Held(lease) \in Flight!Flight /\ Flight!Held(lease) # Flight!Free
    <2>1. Flight!Held(lease) = [job_id |-> frame.job.id, sequence |-> next_sequence]
      BY <1>4 DEF Flight!Held
    <2>2. QED
      BY <1>1, <1>2, <2>1 DEF Flight!Flight, Flight!Free
  <1>10. WindowsTypeOK'
    <2>1. /\ recent' \in Seq(Nat) /\ cooldown_until' \in [Class -> Nat]
          /\ \A d \in Class : cooldown_until'[d] <= now_secs + CooldownSecs
      BY <1>1, <1>3, RateFacts
    <2>2. Loop!LoopTypeOK'
      BY <1>1, <1>2, <1>3, ObservedFacts DEF Loop!LoopTypeOK, Loop!window
    <2>3. QED
      BY <1>2, <1>3, <1>8, <2>1, <2>2 DEF WindowsTypeOK
  <1>11. QED
    BY <1>3, <1>5, <1>6, <1>7, <1>8, <1>9, <1>10

\* The target is held, by the lease of the running dispatch.
FlightHeld ==
    /\ TargetHeldWhileRunning
    /\ phase = "running" =>
          /\ cur.lease.target = target(cur.frame)
          /\ active[cur.lease.target] = Flight!Held(cur.lease)

Ends == Delivered \/ \E kind \in KernelFailure : Fails(kind)

\* What every end of a kernel does: it is answered and its target freed.
LEMMA EndFacts ==
    ASSUME TypeOK, FlightHeld, Ends
    PROVE  /\ phase = "running" /\ phase' = "replying" /\ cur' = None /\ now_secs' = now_secs
           /\ cur \in Dispatched /\ cur.frame \in Frame
           /\ reply' \in Response /\ reply' # None
           /\ reply'.outcome \in KernelFailure \cup {"Delegated"}
           /\ UNCHANGED <<world, seen, grace_used>>
           /\ active' = [active EXCEPT ![target(cur.frame)] = Flight!Free]
           /\ WindowsTypeOK'
  <1> DEFINE frame == cur.frame
             fp == frame.job.fp
  <1>1. phase = "running" /\ UNCHANGED <<world, seen, grace_used>>
    BY DEF Ends, Delivered, Fails
  <1>2. cur \in Dispatched
    BY <1>1 DEF TypeOK
  <1>3. frame \in Frame
    BY <1>2 DEF Dispatched
  <1>4. fp \in Fingerprint /\ class(frame) \in Class
    BY <1>3, FrameFacts
  <1>5. /\ phase' = "replying" /\ cur' = None /\ now_secs' = now_secs
        /\ reply' \in Response /\ reply' # None
        /\ reply'.outcome \in KernelFailure \cup {"Delegated"}
    <2>1. CASE Delivered
      <3>1. Answer(fp, "Delegated", NoDirective) /\ NoDirective \in Advice
        BY <2>1, OtherAdvice DEF Delivered
      <3>2. "Delegated" \in Outcome
        BY DEF Outcome
      <3>3. QED
        BY <1>4, <3>1, <3>2, AnswerFacts
    <2>2. ASSUME NEW kind \in KernelFailure, Fails(kind)
          PROVE  /\ phase' = "replying" /\ cur' = None /\ now_secs' = now_secs
                 /\ reply' \in Response /\ reply' # None /\ reply'.outcome = kind
      <3>1. Answer(fp, kind, Rec!Decision(fp, kind)) /\ kind \in Outcome
        BY <2>2 DEF Fails, Outcome
      <3>2. Rec!Decision(fp, kind) \in Advice
        BY <1>4, DecisionType DEF TypeOK
      <3>3. QED
        BY <1>4, <3>1, <3>2, AnswerFacts
    <2>3. QED
      BY <2>1, <2>2 DEF Ends
  <1>6. active' = [active EXCEPT ![target(frame)] = Flight!Free] /\ next_sequence' = next_sequence
    <2>1. Flight!Release(cur.lease)
      BY DEF Ends, Delivered, Fails
    <2>2. cur.lease.target = target(frame) /\ active[cur.lease.target] = Flight!Held(cur.lease)
      BY <1>1 DEF FlightHeld
    <2>3. QED
      BY <2>1, <2>2 DEF Flight!Release, Flight!Matches
  <1>7. /\ now_secs \in Nat /\ recent \in Seq(Nat) /\ Loop!LoopTypeOK /\ next_sequence \in Nat
        /\ cooldown_until \in [Class -> Nat]
        /\ \A c \in Class : cooldown_until[c] <= now_secs + CooldownSecs
    BY DEF TypeOK, Rate!LimiterTypeOK, Flight!FlightTypeOK
  <1>8. /\ recent' = recent
        /\ \/ cooldown_until' = cooldown_until
           \/ cooldown_until' = [cooldown_until EXCEPT ![class(frame)] = 0]
           \/ cooldown_until' = [cooldown_until EXCEPT ![class(frame)] = now_secs + CooldownSecs]
    BY DEF Ends, Delivered, Fails, Rate!ClearRoute, Rate!DropEntry, Rate!RecordFailure
  <1>9. /\ cooldown_until' \in [Class -> Nat]
        /\ \A c \in Class : cooldown_until'[c] <= now_secs + CooldownSecs
    <2>1. 0 <= now_secs + CooldownSecs /\ now_secs + CooldownSecs \in Nat
      BY <1>7, DispatcherAssumption
    <2>2. cooldown_until' \in [Class -> Nat]
      BY <1>4, <1>7, <1>8, <2>1
    <2>3. ASSUME NEW c \in Class
          PROVE  cooldown_until'[c] <= now_secs + CooldownSecs
      <3>1. cooldown_until'[c] \in {cooldown_until[c], 0, now_secs + CooldownSecs}
        BY <1>4, <1>7, <1>8
      <3>2. QED
        BY <1>7, <2>1, <3>1
    <2>4. QED
      BY <2>2, <2>3
  <1>10. Loop!LoopTypeOK'
    BY <1>1, <1>7 DEF Loop!LoopTypeOK
  <1>11. WindowsTypeOK'
    BY <1>5, <1>6, <1>7, <1>8, <1>9, <1>10 DEF WindowsTypeOK
  <1>12. QED
    BY <1>1, <1>2, <1>3, <1>5, <1>6, <1>11

-----------------------------------------------------------------------------
(* Type correctness, and who holds a target.                               *)

\* The parts of TypeOK, by what moves together.
ConnectionOK ==
    /\ phase \in Phase
    /\ cur \in Dispatched \cup {None}
    /\ (phase = "running") <=> (cur # None)
    /\ reply \in Response \cup {None}
    /\ (phase = "replying") <=> (reply # None)
WorldOK ==
    /\ clock \in Nat /\ now_secs \in Nat /\ now_secs <= clock
    /\ drifted \subseteq SealedFile
    /\ restarts \in Nat
FailuresOK == Rec!RecoveryTypeOK /\ Quar!QuarantineTypeOK /\ Risk!RiskTypeOK
FlightsOK == active \in [Target -> Flight!Flight \cup {Flight!Free}]

\* They add up to it.
LEMMA TypeParts ==
    TypeOK <=> /\ ConnectionOK /\ WorldOK /\ Gov!TypeOK /\ WindowsTypeOK
               /\ FailuresOK /\ FlightsOK
  <1>1. TypeOK => /\ ConnectionOK /\ WorldOK /\ Gov!TypeOK /\ WindowsTypeOK
                  /\ FailuresOK /\ FlightsOK
    BY DEF TypeOK, ConnectionOK, WorldOK, WindowsTypeOK, FailuresOK, FlightsOK,
           Rate!LimiterTypeOK, Flight!FlightTypeOK
  <1>2. ASSUME ConnectionOK, WorldOK, Gov!TypeOK, WindowsTypeOK, FailuresOK, FlightsOK
        PROVE  TypeOK
    <2>1. ASSUME phase = "running"
          PROVE  class(cur.frame) \in Class
      <3>1. cur \in Dispatched
        BY <1>2, <2>1 DEF ConnectionOK
      <3>2. QED
        BY <3>1, FrameFacts DEF Dispatched
    <2>2. now_secs \in Nat
      BY <1>2 DEF WorldOK
    <2> DEFINE pending == IF phase = "running"
                          THEN [route |-> class(cur.frame), at |-> now_secs] ELSE <<>>
    <2>3. pending \in Rate!Dispatch \cup {Rate!NoDispatch}
      BY <2>1, <2>2 DEF Rate!Dispatch, Rate!NoDispatch
    <2>4. pending # Rate!NoDispatch => pending.at <= now_secs
      BY <2>2 DEF Rate!NoDispatch
    <2>5. Rate!LimiterTypeOK
      BY <1>2, <2>2, <2>3, <2>4 DEF Rate!LimiterTypeOK, WindowsTypeOK
    <2>6. Flight!FlightTypeOK
      BY <1>2 DEF WindowsTypeOK, FlightsOK, Flight!FlightTypeOK
    <2>7. Loop!LoopTypeOK
      BY <1>2 DEF WindowsTypeOK
    <2>8. QED
      BY <1>2, <2>5, <2>6, <2>7 DEF TypeOK, ConnectionOK, WorldOK, FailuresOK
  <1>3. QED
    BY <1>1, <1>2

\* The memory of a fresh process is well typed and no target is held.
LEMMA FreshFacts ==
    /\ Fresh.spent \in [Gov!Dim -> Nat] /\ \A d \in Gov!Dim : Fresh.spent[d] = 0
    /\ Fresh.cooldown \in [Class -> Nat] /\ \A c \in Class : Fresh.cooldown[c] = 0
    /\ Fresh.attempts \in [Fingerprint -> Nat]
    /\ \A fp \in Fingerprint : Fresh.attempts[fp] = 0
    /\ Fresh.failures \in [Fingerprint -> Nat]
    /\ \A fp \in Fingerprint : Fresh.failures[fp] = 0
    /\ Fresh.history \in [Fingerprint -> [ok : Nat, bad : Nat]]
    /\ \A fp \in Fingerprint : Fresh.history[fp].ok = 0 /\ Fresh.history[fp].bad = 0
    /\ Fresh.active \in [Target -> {Flight!Free}]
  BY DEF Fresh, Risk!Record0

\* A process that holds the fresh memory and has no connection.
Started ==
    /\ phase = "idle" /\ cur = None /\ reply = None
    /\ clock = 0 /\ now_secs = 0 /\ drifted = {} /\ restarts \in Nat
    /\ spent = Fresh.spent /\ grace_used = 0
    /\ recent = <<>> /\ cooldown_until = Fresh.cooldown
    /\ seen = <<>>
    /\ attempts = Fresh.attempts
    /\ failures = Fresh.failures /\ quarantined = {}
    /\ history = Fresh.history
    /\ active = Fresh.active /\ next_sequence = 0

\* It is well typed and holds no target.
LEMMA StartedFacts == Started => TypeOK /\ FlightHeld
  <1> SUFFICES ASSUME Started
               PROVE  TypeOK /\ FlightHeld
    OBVIOUS
  <1>1. ConnectionOK /\ WorldOK
    BY DEF Started, ConnectionOK, WorldOK, Phase
  <1>2. Gov!TypeOK
    BY FreshFacts, DispatcherAssumption DEF Started, Gov!TypeOK, Gov!Dim, Gov!CostDim
  <1>3. WindowsTypeOK
    <2>1. Loop!LoopTypeOK
      BY DispatcherAssumption DEF Started, Loop!LoopTypeOK, Loop!window
    <2>2. /\ recent \in Seq(Nat) /\ next_sequence \in Nat /\ cooldown_until \in [Class -> Nat]
          /\ now_secs = 0 /\ CooldownSecs \in Nat
      BY FreshFacts, DispatcherAssumption DEF Started
    <2>3. ASSUME NEW c \in Class
          PROVE  cooldown_until[c] <= now_secs + CooldownSecs
      <3>1. cooldown_until[c] = 0
        BY FreshFacts DEF Started
      <3>2. now_secs = 0 /\ CooldownSecs \in Nat
        BY <2>2
      <3>3. QED
        BY <3>1, <3>2
    <2>4. QED
      BY <2>1, <2>2, <2>3 DEF WindowsTypeOK
  <1>4. FailuresOK
    BY FreshFacts
       DEF Started, FailuresOK, Rec!RecoveryTypeOK, Quar!QuarantineTypeOK, Risk!RiskTypeOK
  <1>5. FlightsOK
    BY FreshFacts DEF Started, FlightsOK
  <1>6. FlightHeld
    BY FreshFacts DEF Started, FlightHeld, TargetHeldWhileRunning
  <1>7. QED
    BY <1>1, <1>2, <1>3, <1>4, <1>5, <1>6, TypeParts

\* Both the first and every later start are such a process.
LEMMA StartsFresh == (Init => Started) /\ (TypeOK /\ Restart => Started')
  <1>1. Init => Started
    BY DEF Init, Started
  <1>2. TypeOK /\ Restart => Started'
    BY DEF Restart, Started, Fresh, TypeOK
  <1>3. QED
    BY <1>1, <1>2

-----------------------------------------------------------------------------
(* The steps, by what they may change.                                     *)

\* The steps that touch no ledger: a connection is accepted, dropped or
\* answered, the clock or the sealed files move, or nothing happens.
AcceptsOrDrops == Accept \/ ReadFails \/ Respond
WorldMoves == Tick \/ \E file \in SealedFile : Drift(file) \/ Restore(file)
Plumbing == AcceptsOrDrops \/ WorldMoves \/ UNCHANGED vars

\* Every step is plumbing, a handler, or a restart.
LEMMA StepCases ==
    ASSUME [Next]_vars
    PROVE  \/ Plumbing
           \/ \E frame \in Frame : RefusedBefore(frame) \/ RefusedAfter(frame) \/ Start(frame)
           \/ Ends
           \/ Restart
  <1>1. ASSUME NEW frame \in Frame, Handle(frame)
        PROVE  RefusedBefore(frame) \/ RefusedAfter(frame) \/ Start(frame)
    BY <1>1 DEF Handle, RefusedBefore, RefusedAfter
  <1>2. QED
    BY <1>1 DEF Next, Plumbing, AcceptsOrDrops, WorldMoves, Ends

\* Plumbing leaves the ledgers, the running dispatch and the number of restarts
\* alone, answers nobody, and never moves the time of a running dispatch.
LEMMA PlumbingFacts ==
    ASSUME TypeOK, Plumbing
    PROVE  /\ UNCHANGED <<ledgers, cur, restarts>>
           /\ phase' = "running" <=> phase = "running"
           /\ reply' = reply \/ reply' = None
           /\ now_secs' = now_secs \/ (phase # "running" /\ now_secs' = clock)
           /\ ConnectionOK' /\ WorldOK'
  <1>1. ConnectionOK /\ WorldOK
    BY TypeParts
  <1>2. CASE AcceptsOrDrops
    <2>1. /\ UNCHANGED <<ledgers, cur, restarts, clock, drifted>>
          /\ phase # "running" /\ phase' # "running"
          /\ reply' = reply \/ reply' = None
          /\ now_secs' = now_secs \/ now_secs' = clock
      BY <1>2 DEF AcceptsOrDrops, Accept, ReadFails, Respond, world
    <2>2. ConnectionOK'
      BY <1>1, <1>2
         DEF AcceptsOrDrops, Accept, ReadFails, Respond, ConnectionOK, Phase
    <2>3. WorldOK'
      BY <1>1, <2>1 DEF WorldOK
    <2>4. QED
      BY <2>1, <2>2, <2>3
  <1>3. CASE WorldMoves
    <2>1. UNCHANGED <<ledgers, connection, restarts>>
      BY <1>3 DEF WorldMoves, Tick, Drift, Restore
    <2>2. ConnectionOK'
      BY <1>1, <2>1 DEF connection, ConnectionOK
    <2>3. WorldOK'
      <3>1. CASE Tick
        BY <1>1, <2>1, <3>1 DEF Tick, WorldOK, connection
      <3>2. CASE \E file \in SealedFile : Drift(file) \/ Restore(file)
        BY <1>1, <2>1, <3>2 DEF Drift, Restore, WorldOK, connection
      <3>3. QED
        BY <1>3, <3>1, <3>2 DEF WorldMoves
    <2>4. QED
      BY <2>1, <2>2, <2>3 DEF connection
  <1>4. CASE UNCHANGED vars
    <2>1. UNCHANGED <<ledgers, connection, clock, drifted, restarts>>
      BY <1>4 DEF vars, ledgers, connection
    <2>2. QED
      BY <1>1, <2>1 DEF connection, ConnectionOK, WorldOK
  <1>5. QED
    BY <1>2, <1>3, <1>4 DEF Plumbing

\* A refusal ends the connection's dispatch before its kernel has started.
Refused(frame) == RefusedBefore(frame) \/ RefusedAfter(frame)
\* What every refusal does to the connection, whichever gate it comes from.
LEMMA RefusalFacts ==
    ASSUME TypeOK, NEW frame \in Frame, Refused(frame)
    PROVE  /\ phase = "reading" /\ phase' = "replying" /\ cur' = None /\ now_secs' = now_secs
           /\ reply' \in Response /\ reply' # None
           /\ reply'.outcome \in GateName \cup {"RateLimited", "LoopTripped", "BudgetDenied"}
           /\ UNCHANGED <<world, budget, failure_ledgers, active>>
           /\ WindowsTypeOK'
  <1>1. /\ phase = "reading" /\ phase' = "replying" /\ cur' = None /\ now_secs' = now_secs
        /\ reply' \in Response
        /\ reply'.outcome \in GateName \cup {"RateLimited", "LoopTripped", "BudgetDenied"}
        /\ UNCHANGED <<world, budget, failure_ledgers, active>>
        /\ WindowsTypeOK'
    <2>1. CASE RefusedBefore(frame)
      BY <2>1, GateRefusal DEF RefusedBefore
    <2>2. CASE RefusedAfter(frame)
      BY <2>2, GuardRefusal
    <2>3. QED
      BY <2>1, <2>2 DEF Refused
  <1>2. reply' # None
    BY <1>1, ResponseIsSome
  <1>3. QED
    BY <1>1, <1>2

\* What an admission does to the budget (as AdmissionLimitsProofs does, for the
\* dispatcher's governor).
LEMMA AdmitFacts ==
    ASSUME Gov!TypeOK, Gov!Admit
    PROVE  /\ spent' \in [Gov!Dim -> Nat]
           /\ spent'["jobs"] = spent["jobs"] + 1
           /\ \A d \in Gov!CostDim : spent'[d] = spent[d]
           /\ grace_used' \in Nat
  <1>1. spent \in [Gov!Dim -> Nat] /\ grace_used \in Nat
    BY DEF Gov!TypeOK
  <1>2. QED
    BY <1>1 DEF Gov!Admit, Gov!Dim, Gov!CostDim

\* What a charge does to it.
LEMMA ChargeFacts ==
    ASSUME Gov!TypeOK, NEW cost \in Gov!JobCost, Gov!Charge(cost)
    PROVE  /\ spent' \in [Gov!Dim -> Nat]
           /\ spent'["jobs"] = spent["jobs"]
           /\ \A d \in Gov!CostDim : spent'[d] <= MaxU64
  <1>1. spent \in [Gov!Dim -> Nat] /\ MaxU64 \in Nat /\ MaxCost \in Nat
    BY DispatcherAssumption DEF Gov!TypeOK
  <1>2. ASSUME NEW d \in Gov!CostDim
        PROVE  Gov!Min2(spent[d] + cost[d], MaxU64) \in 0 .. MaxU64
    <2>1. spent[d] \in Nat /\ cost[d] \in Nat
      BY <1>1 DEF Gov!JobCost, Gov!Dim
    <2>2. QED
      BY <1>1, <2>1 DEF Gov!Min2
  <1>3. spent' = [d \in Gov!Dim |-> IF d \in Gov!CostDim
                                    THEN Gov!Min2(spent[d] + cost[d], MaxU64) ELSE spent[d]]
    BY DEF Gov!Charge
  <1>4. "jobs" \in Gov!Dim /\ "jobs" \notin Gov!CostDim /\ Gov!CostDim \subseteq Gov!Dim
    BY DEF Gov!Dim, Gov!CostDim
  <1>5. QED
    BY <1>1, <1>2, <1>3, <1>4

\* What the end of a kernel does to the failure ledgers and to the budget.
LEMMA SettlementFacts ==
    ASSUME TypeOK, FlightHeld, Ends
    PROVE  /\ spent' \in [Gov!Dim -> Nat]
           /\ spent'["jobs"] = spent["jobs"]
           /\ \A d \in Gov!CostDim : spent'[d] <= MaxU64
           /\ FailuresOK'
  <1> DEFINE fp == cur.frame.job.fp
  <1>1. fp \in Fingerprint
    BY EndFacts, FrameFacts
  <1>2. Gov!TypeOK /\ FailuresOK
    BY TypeParts
  <1>3. /\ spent' \in [Gov!Dim -> Nat] /\ spent'["jobs"] = spent["jobs"]
        /\ \A d \in Gov!CostDim : spent'[d] <= MaxU64
    <2>1. CASE Delivered
      BY <1>2, <2>1, ChargeFacts DEF Delivered
    <2>2. CASE \E kind \in KernelFailure : Fails(kind)
      BY <1>2, <2>2 DEF Fails, Gov!TypeOK
    <2>3. QED
      BY <2>1, <2>2 DEF Ends
  <1>4. Rec!RecoveryTypeOK'
    BY <1>1, <1>2
       DEF Ends, Delivered, Fails, FailuresOK, Rec!RecoveryTypeOK, Rec!ClearAttempts, Rec!Decide
  <1>5. Quar!QuarantineTypeOK'
    BY <1>1, <1>2
       DEF Ends, Delivered, Fails, FailuresOK, Quar!QuarantineTypeOK, Quar!Release, Quar!OnFailure
  <1>6. Risk!RiskTypeOK'
    BY <1>1, <1>2
       DEF Ends, Delivered, Fails, FailuresOK, Risk!RiskTypeOK, Risk!RecordSuccess,
           Risk!RecordFailure
  <1>7. QED
    BY <1>3, <1>4, <1>5, <1>6 DEF FailuresOK

-----------------------------------------------------------------------------
(* The types are kept, and every target is held by its running dispatch.   *)

\* Memory and sealed files are well typed and every target accounted for after
\* a handler, given what the handler leaves.
LEMMA TypeOKHandler ==
    ASSUME ConnectionOK', WorldOK', Gov!TypeOK', WindowsTypeOK', FailuresOK', FlightsOK'
    PROVE  TypeOK'
  BY TypeParts, PTL

\* What ledgers that did not change are worth.
LEMMA LedgersKept ==
    ASSUME TypeOK, UNCHANGED ledgers, now_secs' \in Nat, now_secs' >= now_secs
    PROVE  WindowsTypeOK' /\ FailuresOK' /\ FlightsOK'
  <1>1. WindowsTypeOK /\ FailuresOK /\ FlightsOK /\ now_secs \in Nat /\ CooldownSecs \in Nat
    BY TypeParts, DispatcherAssumption DEF WorldOK
  <1>2. \A c \in Class : cooldown_until'[c] <= now_secs' + CooldownSecs
    BY <1>1 DEF ledgers, WindowsTypeOK
  <1>3. WindowsTypeOK'
    BY <1>1, <1>2 DEF ledgers, WindowsTypeOK, Loop!LoopTypeOK
  <1>4. FailuresOK' /\ FlightsOK'
    BY <1>1 DEF ledgers, FailuresOK, FlightsOK, Rec!RecoveryTypeOK, Quar!QuarantineTypeOK,
                Risk!RiskTypeOK
  <1>5. QED
    BY <1>3, <1>4

\* Every step keeps the types and the claim on the targets.
LEMMA TypeStep == TypeOK /\ FlightHeld /\ [Next]_vars => TypeOK' /\ FlightHeld'
  <1> SUFFICES ASSUME TypeOK, FlightHeld, [Next]_vars
               PROVE  TypeOK' /\ FlightHeld'
    OBVIOUS
  <1>1. /\ ConnectionOK /\ WorldOK /\ Gov!TypeOK /\ WindowsTypeOK /\ FailuresOK /\ FlightsOK
        /\ TargetHeldWhileRunning
    BY TypeParts DEF FlightHeld
  <1>2. CASE Plumbing
    <2>1. /\ UNCHANGED <<ledgers, cur, restarts>>
          /\ phase' = "running" <=> phase = "running"
          /\ now_secs' = now_secs \/ now_secs' = clock
          /\ ConnectionOK' /\ WorldOK'
      BY <1>2, PlumbingFacts
    <2>2. now_secs' \in Nat /\ now_secs' >= now_secs
      BY <1>1, <2>1 DEF WorldOK
    <2>3. WindowsTypeOK' /\ FailuresOK' /\ FlightsOK'
      BY <2>1, <2>2, LedgersKept
    <2>4. Gov!TypeOK'
      BY <1>1, <2>1 DEF ledgers, Gov!TypeOK
    <2>5. FlightHeld'
      BY <2>1 DEF ledgers, FlightHeld, TargetHeldWhileRunning
    <2>6. QED
      BY <2>1, <2>3, <2>4, <2>5, TypeOKHandler
  <1>3. ASSUME NEW frame \in Frame, Refused(frame)
        PROVE  TypeOK' /\ FlightHeld'
    <2>1. /\ phase = "reading" /\ phase' = "replying" /\ cur' = None /\ now_secs' = now_secs
          /\ reply' \in Response /\ reply' # None
          /\ UNCHANGED <<world, budget, failure_ledgers, active>>
          /\ WindowsTypeOK'
      BY <1>3, RefusalFacts
    <2>2. ConnectionOK' /\ WorldOK'
      BY <1>1, <2>1 DEF ConnectionOK, WorldOK, world, Phase
    <2>3. Gov!TypeOK' /\ FailuresOK' /\ FlightsOK'
      BY <1>1, <2>1 DEF budget, failure_ledgers, Gov!TypeOK, FailuresOK, FlightsOK,
                        Rec!RecoveryTypeOK, Quar!QuarantineTypeOK, Risk!RiskTypeOK
    <2>4. FlightHeld'
      BY <1>1, <2>1 DEF FlightHeld, TargetHeldWhileRunning
    <2>5. QED
      BY <2>1, <2>2, <2>3, <2>4, TypeOKHandler
  <1>4. ASSUME NEW frame \in Frame, Start(frame)
        PROVE  TypeOK' /\ FlightHeld'
    <2>1. /\ phase = "reading" /\ phase' = "running" /\ reply' = reply /\ now_secs' = now_secs
          /\ cur' \in Dispatched /\ cur' # None
          /\ cur'.frame = frame /\ cur'.lease.target = target(frame)
          /\ UNCHANGED <<world, failure_ledgers>>
          /\ Gov!Admit
          /\ active' = [active EXCEPT ![target(frame)] = Flight!Held(cur'.lease)]
          /\ Flight!Held(cur'.lease) \in Flight!Flight
          /\ Flight!Held(cur'.lease) # Flight!Free
          /\ WindowsTypeOK'
      BY <1>4, StartFacts
    <2>2. target(frame) \in Target
      BY FrameFacts
    <2>3. ConnectionOK' /\ WorldOK'
      BY <1>1, <2>1 DEF ConnectionOK, WorldOK, world, Phase
    <2>4. Gov!TypeOK'
      <3>1. /\ spent' \in [Gov!Dim -> Nat] /\ grace_used' \in Nat
            /\ \A d \in Gov!CostDim : spent'[d] = spent[d]
        BY <1>1, <2>1, AdmitFacts
      <3>2. \A d \in Gov!CostDim : spent[d] <= MaxU64
        BY <1>1 DEF Gov!TypeOK
      <3>3. QED
        BY <2>1, <3>1, <3>2 DEF Gov!TypeOK
    <2>5. FailuresOK'
      BY <1>1, <2>1 DEF failure_ledgers, FailuresOK, Rec!RecoveryTypeOK,
                        Quar!QuarantineTypeOK, Risk!RiskTypeOK
    <2>6. FlightsOK'
      BY <1>1, <2>1, <2>2 DEF FlightsOK
    <2>7. FlightHeld'
      BY <1>1, <2>1, <2>2 DEF FlightHeld, TargetHeldWhileRunning, FlightsOK
    <2>8. QED
      BY <2>1, <2>3, <2>4, <2>5, <2>6, <2>7, TypeOKHandler
  <1>5. CASE Ends
    <2>1. /\ phase = "running" /\ phase' = "replying" /\ cur' = None /\ now_secs' = now_secs
          /\ cur.frame \in Frame
          /\ reply' \in Response /\ reply' # None
          /\ UNCHANGED <<world, seen, grace_used>>
          /\ active' = [active EXCEPT ![target(cur.frame)] = Flight!Free]
          /\ WindowsTypeOK'
      BY <1>5, EndFacts
    <2>2. target(cur.frame) \in Target
      BY <2>1, FrameFacts
    <2>3. ConnectionOK' /\ WorldOK'
      BY <1>1, <2>1 DEF ConnectionOK, WorldOK, world, Phase
    <2>4. Gov!TypeOK' /\ FailuresOK'
      BY <1>1, <1>5, <2>1, SettlementFacts DEF Gov!TypeOK
    <2>5. FlightsOK'
      BY <1>1, <2>1, <2>2 DEF FlightsOK
    <2>6. FlightHeld'
      BY <1>1, <2>1, <2>2 DEF FlightHeld, TargetHeldWhileRunning, FlightsOK
    <2>7. QED
      BY <2>1, <2>3, <2>4, <2>5, <2>6, TypeOKHandler
  <1>6. CASE Restart
    BY <1>6, StartsFresh, StartedFacts, PTL
  <1>7. QED
    BY <1>2, <1>3, <1>4, <1>5, <1>6, StepCases DEF Refused

\* The inductive invariant the other results rest on.
LEMMA TypeInvariant == Spec => [](TypeOK /\ FlightHeld)
  <1>1. Init => TypeOK /\ FlightHeld
    BY StartsFresh, StartedFacts
  <1>2. QED
    BY <1>1, TypeStep, PTL DEF Spec

\* Every variable of the dispatcher process keeps its type, through every
\* refusal, delegation and restart (main.rs, handle_request).
THEOREM TypeCorrect == Spec => []TypeOK
  BY TypeInvariant, PTL

\* No path of handle_request keeps a lease past the end of its kernel, and no
\* kernel runs without one: a target is held exactly while its kernel runs.
THEOREM TargetHeld == Spec => []TargetHeldWhileRunning
  <1>1. FlightHeld => TargetHeldWhileRunning
    BY DEF FlightHeld
  <1>2. QED
    BY <1>1, TypeInvariant, PTL

-----------------------------------------------------------------------------
(* The failure ledgers.                                                    *)

\* Only the end of a kernel, or a restart, writes to a failure ledger.
LEMMA FailuresKept ==
    ASSUME TypeOK, [Next]_vars, ~Ends, ~Restart
    PROVE  UNCHANGED failure_ledgers
  <1>1. CASE Plumbing
    BY <1>1, PlumbingFacts DEF ledgers, failure_ledgers
  <1>2. ASSUME NEW frame \in Frame, Refused(frame)
        PROVE  UNCHANGED failure_ledgers
    BY <1>2, RefusalFacts
  <1>3. ASSUME NEW frame \in Frame, Start(frame)
        PROVE  UNCHANGED failure_ledgers
    BY <1>3, StartFacts
  <1>4. QED
    BY <1>1, <1>2, <1>3, StepCases DEF Refused

\* Work in quarantine does not run, and without a threshold none is in it.
FailuresOrdered ==
    /\ LedgersAgree
    /\ QuarantineThreshold = 0 => quarantined = {}
    /\ phase = "running" => cur.frame.job.fp \notin quarantined

\* A fresh process has no failure on record.
LEMMA FailuresFresh == Started => FailuresOrdered
  <1> SUFFICES ASSUME Started
               PROVE  FailuresOrdered
    OBVIOUS
  <1>1. /\ \A fp \in Fingerprint : attempts[fp] = 0 /\ failures[fp] = 0 /\ history[fp].bad = 0
        /\ quarantined = {} /\ phase # "running"
    BY FreshFacts DEF Started
  <1>2. LedgersAgree
    BY <1>1, DispatcherAssumption DEF LedgersAgree
  <1>3. QED
    BY <1>1, <1>2 DEF FailuresOrdered

\* A delivery and a failure keep the ledgers in order.
LEMMA FailuresSettled ==
    ASSUME TypeOK, FlightHeld, FailuresOrdered, Ends
    PROVE  FailuresOrdered'
  <1> DEFINE fp == cur.frame.job.fp
  <1>1. fp \in Fingerprint /\ phase = "running" /\ phase' # "running"
    BY EndFacts, FrameFacts
  <1>2. /\ attempts \in [Fingerprint -> Nat] /\ failures \in [Fingerprint -> Nat]
        /\ history \in [Fingerprint -> [ok : Nat, bad : Nat]]
        /\ QuarantineThreshold \in Nat
    BY DispatcherAssumption DEF TypeOK, Rec!RecoveryTypeOK, Quar!QuarantineTypeOK, Risk!RiskTypeOK
  <1>3. LedgersAgree /\ (QuarantineThreshold = 0 => quarantined = {})
    BY DEF FailuresOrdered
  <1>4. CASE Delivered
    <2>1. /\ attempts' = [attempts EXCEPT ![fp] = 0]
          /\ failures' = [failures EXCEPT ![fp] = 0]
          /\ quarantined' = quarantined \ {fp}
          /\ history' = [history EXCEPT ![fp].ok = @ + 1]
      BY <1>4 DEF Delivered, Rec!ClearAttempts, Quar!Release, Risk!RecordSuccess
    <2>2. \A work \in Fingerprint : history'[work].bad = history[work].bad
      BY <1>1, <1>2, <2>1
    <2>3. ASSUME NEW work \in Fingerprint
          PROVE  /\ attempts'[work] <= history'[work].bad
                 /\ QuarantineThreshold > 0 =>
                       /\ attempts'[work] <= failures'[work]
                       /\ failures'[work] <= history'[work].bad
                       /\ work \in quarantined' <=> failures'[work] >= QuarantineThreshold
      <3>1. CASE work = fp
        BY <1>1, <1>2, <2>1, <2>2, <3>1
      <3>2. CASE work # fp
        BY <1>1, <1>2, <1>3, <2>1, <2>2, <3>2 DEF LedgersAgree
      <3>3. QED
        BY <3>1, <3>2
    <2>4. QED
      BY <1>1, <1>3, <2>1, <2>3 DEF FailuresOrdered, LedgersAgree
  <1>5. ASSUME NEW kind \in KernelFailure, Fails(kind)
        PROVE  FailuresOrdered'
    <2>1. /\ attempts' = attempts \/ attempts' = [attempts EXCEPT ![fp] = @ + 1]
          /\ history' = [history EXCEPT ![fp].bad = @ + 1]
          /\ QuarantineThreshold = 0 => UNCHANGED <<failures, quarantined>>
          /\ QuarantineThreshold # 0 =>
                /\ failures' = [failures EXCEPT ![fp] = @ + 1]
                /\ quarantined' = IF failures[fp] + 1 >= QuarantineThreshold
                                  THEN quarantined \cup {fp} ELSE quarantined
      BY <1>5 DEF Fails, Rec!Decide, Quar!OnFailure, Risk!RecordFailure
    <2>2. ASSUME NEW work \in Fingerprint
          PROVE  /\ attempts'[work] <= history'[work].bad
                 /\ QuarantineThreshold > 0 =>
                       /\ attempts'[work] <= failures'[work]
                       /\ failures'[work] <= history'[work].bad
                       /\ work \in quarantined' <=> failures'[work] >= QuarantineThreshold
      <3>1. /\ attempts[work] <= history[work].bad
            /\ QuarantineThreshold > 0 =>
                  /\ attempts[work] <= failures[work]
                  /\ failures[work] <= history[work].bad
                  /\ work \in quarantined <=> failures[work] >= QuarantineThreshold
        BY <1>3 DEF LedgersAgree
      <3>2. attempts[work] \in Nat /\ failures[work] \in Nat /\ history[work].bad \in Nat
        BY <1>2
      <3>3. CASE work = fp
        <4>1. /\ attempts'[work] \in {attempts[work], attempts[work] + 1}
              /\ history'[work].bad = history[work].bad + 1
          BY <1>1, <1>2, <2>1, <3>3
        <4>2. QuarantineThreshold > 0 =>
                 /\ failures'[work] = failures[work] + 1
                 /\ work \in quarantined' <=> \/ work \in quarantined
                                              \/ failures[work] + 1 >= QuarantineThreshold
          BY <1>1, <1>2, <2>1, <3>3
        <4>3. QED
          BY <1>2, <3>1, <3>2, <4>1, <4>2
      <3>4. CASE work # fp
        <4>1. /\ attempts'[work] = attempts[work] /\ history'[work].bad = history[work].bad
              /\ QuarantineThreshold > 0 => /\ failures'[work] = failures[work]
                                            /\ work \in quarantined' <=> work \in quarantined
          BY <1>1, <1>2, <2>1, <3>4
        <4>2. QED
          BY <3>1, <4>1
      <3>5. QED
        BY <3>3, <3>4
    <2>3. QED
      BY <1>1, <1>3, <2>1, <2>2 DEF FailuresOrdered, LedgersAgree
  <1>6. QED
    BY <1>4, <1>5 DEF Ends

\* Every step keeps the ledgers in order; the start of a kernel because the
\* quarantine gate has let its fingerprint pass.
LEMMA FailuresStep == TypeOK /\ FlightHeld /\ FailuresOrdered /\ [Next]_vars => FailuresOrdered'
  <1> SUFFICES ASSUME TypeOK, FlightHeld, FailuresOrdered, [Next]_vars
               PROVE  FailuresOrdered'
    OBVIOUS
  <1>1. CASE Ends
    BY <1>1, FailuresSettled
  <1>2. CASE Restart
    BY <1>2, StartsFresh, FailuresFresh, PTL
  <1>3. CASE ~Ends /\ ~Restart
    <2>1. UNCHANGED <<attempts, failures, quarantined, history>>
      BY <1>3, FailuresKept DEF failure_ledgers
    <2>2. LedgersAgree'
      BY <2>1 DEF FailuresOrdered, LedgersAgree
    <2>3. phase' = "running" => cur'.frame.job.fp \notin quarantined
      <3>1. CASE Plumbing
        BY <3>1, PlumbingFacts DEF FailuresOrdered
      <3>2. ASSUME NEW frame \in Frame, Refused(frame)
            PROVE  phase' # "running"
        BY <3>2, RefusalFacts
      <3>3. ASSUME NEW frame \in Frame, Start(frame)
            PROVE  cur'.frame.job.fp \notin quarantined
        <4>1. cur'.frame = frame /\ ~Quar!Quarantined(frame.job.fp)
          BY <3>3, StartFacts
        <4>2. QuarantineThreshold \in Nat
          BY DispatcherAssumption
        <4>3. QED
          BY <4>1, <4>2 DEF Quar!Quarantined, FailuresOrdered
      <3>4. QED
        BY <1>3, <3>1, <3>2, <3>3, StepCases DEF Refused
    <2>4. QED
      BY <2>1, <2>2, <2>3 DEF FailuresOrdered
  <1>4. QED
    BY <1>1, <1>2, <1>3

\* Failures stay ordered in every reachable state.
LEMMA FailuresInvariant == Spec => []FailuresOrdered
  <1>1. Init => FailuresOrdered
    BY StartsFresh, FailuresFresh
  <1>2. QED
    BY <1>1, FailuresStep, TypeInvariant, PTL DEF Spec

\* Recovery routing, quarantine and the risk ledger count the failures of a
\* fingerprint apart and forget them at different times, yet never disagree on
\* which is the larger count (recovery.rs, quarantine.rs, risk.rs).
THEOREM LedgersInAgreement == Spec => []LedgersAgree
  <1>1. FailuresOrdered => LedgersAgree
    BY DEF FailuresOrdered
  <1>2. QED
    BY <1>1, FailuresInvariant, PTL

\* Nothing but a restart takes work out of quarantine (quarantine.rs, "until an
\* operator explicitly re-arms"): a delivery would, but latched work never runs.
THEOREM QuarantineLatches == Spec => QuarantineIsTerminal
  <1>1. ASSUME TypeOK, FlightHeld, FailuresOrdered, [Next]_vars
        PROVE  [restarts' = restarts => quarantined \subseteq quarantined']_vars
    <2>1. CASE Ends
      <3>1. cur.frame.job.fp \notin quarantined
        BY <1>1, <2>1, EndFacts DEF FailuresOrdered
      <3>2. QED
        BY <2>1, <3>1 DEF Ends, Delivered, Fails, Quar!Release, Quar!OnFailure
    <2>2. CASE Restart
      <3>1. restarts \in Nat /\ restarts' = restarts + 1
        BY <1>1, <2>2 DEF Restart, TypeOK
      <3>2. QED
        BY <3>1
    <2>3. CASE ~Ends /\ ~Restart
      BY <1>1, <2>3, FailuresKept DEF failure_ledgers
    <2>4. QED
      BY <2>1, <2>2, <2>3
  <1>2. QED
    BY <1>1, TypeInvariant, FailuresInvariant, PTL DEF Spec, QuarantineIsTerminal

\* The retry budget of a fingerprint is drawn on by its own transient kernel
\* failures and by nothing else (recovery.rs, decide).
THEOREM RetryBudget == Spec => RetryBudgetIsOwn
  <1> DEFINE Own == \A fp \in Fingerprint :
                       attempts'[fp] > attempts[fp] =>
                          Running(fp) /\ reply'.outcome \in KernelFailure \ {"KernelFatal"}
  <1>1. ASSUME TypeOK, FlightHeld, [Next]_vars, NEW fp \in Fingerprint,
               attempts'[fp] > attempts[fp]
        PROVE  Running(fp) /\ reply'.outcome \in KernelFailure \ {"KernelFatal"}
    <2>1. attempts \in [Fingerprint -> Nat] /\ attempts[fp] \in Nat
      BY <1>1 DEF TypeOK, Rec!RecoveryTypeOK
    <2>2. CASE Ends
      <3> DEFINE own == cur.frame.job.fp
      <3>1. own \in Fingerprint /\ phase = "running"
        BY <1>1, <2>2, EndFacts, FrameFacts
      <3>2. CASE Delivered
        <4>1. attempts' = [attempts EXCEPT ![own] = 0]
          BY <3>2 DEF Delivered, Rec!ClearAttempts
        <4>2. attempts'[fp] = attempts[fp] \/ attempts'[fp] = 0
          BY <2>1, <3>1, <4>1
        <4>3. QED
          BY <1>1, <2>1, <4>2
      <3>3. ASSUME NEW kind \in KernelFailure, Fails(kind)
            PROVE  Running(fp) /\ reply'.outcome \in KernelFailure \ {"KernelFatal"}
        <4>1. attempts' = IF kind \in Rec!Retryable THEN [attempts EXCEPT ![own] = @ + 1]
                          ELSE attempts
          BY <3>3 DEF Fails, Rec!Decide
        <4>2. kind \in Rec!Retryable /\ fp = own
          BY <1>1, <2>1, <4>1
        <4>3. reply'.outcome = kind
          BY <3>3 DEF Fails, Answer
        <4>4. QED
          BY <3>1, <4>2, <4>3 DEF Running, Rec!Retryable
      <3>4. QED
        BY <2>2, <3>2, <3>3 DEF Ends
    <2>3. CASE Restart
      <3>1. attempts'[fp] = 0
        BY <2>3, FreshFacts DEF Restart
      <3>2. QED
        BY <1>1, <2>1, <3>1
    <2>4. CASE ~Ends /\ ~Restart
      <3>1. attempts' = attempts
        BY <1>1, <2>4, FailuresKept DEF failure_ledgers
      <3>2. QED
        BY <1>1, <2>1, <3>1
    <2>5. QED
      BY <2>2, <2>3, <2>4
  <1>2. TypeOK /\ FlightHeld /\ [Next]_vars => [Own]_vars
    BY <1>1
  <1>3. QED
    BY <1>2, TypeInvariant, PTL DEF Spec, RetryBudgetIsOwn

\* Back-pressure is not a job failure: a rate-limited or deferred dispatch is
\* refused at no cost (main.rs, handle_request; ratelimit.rs; authority.rs).
THEOREM BackPressure == Spec => BackPressureIsFree
  <1> DEFINE Free == Answered({"RateLimited", "StateDeferred"}) =>
                        /\ UNCHANGED <<failure_ledgers, seen, budget>>
                        /\ \A c \in Class : cooldown_until'[c] <= cooldown_until[c]
  <1>1. ASSUME TypeOK, FlightHeld, [Next]_vars, Answered({"RateLimited", "StateDeferred"})
        PROVE  /\ UNCHANGED <<failure_ledgers, seen, budget>>
               /\ \A c \in Class : cooldown_until'[c] <= cooldown_until[c]
    <2>1. reply = None /\ reply' # None /\ reply'.outcome \in {"RateLimited", "StateDeferred"}
      BY <1>1 DEF Answered
    <2>2. ~Plumbing
      BY <1>1, <2>1, PlumbingFacts
    <2>3. ~Restart
      BY <2>1 DEF Restart
    <2>4. ~Ends
      <3>1. Ends => reply'.outcome \in KernelFailure \cup {"Delegated"}
        BY <1>1, EndFacts
      <3>2. QED
        BY <2>1, <3>1 DEF KernelFailure
    <2>5. \A frame \in Frame : ~Start(frame)
      BY <1>1, <2>1, StartFacts
    <2>6. PICK frame \in Frame : RefusedBefore(frame) \/ RefusedAfter(frame)
      BY <1>1, <2>2, <2>3, <2>4, <2>5, StepCases
    <2>7. CASE RefusedBefore(frame)
      <3>1. UNCHANGED <<budget, limiter, failure_ledgers, seen>>
        BY <1>1, <2>7, GateRefusal DEF RefusedBefore
      <3>2. cooldown_until \in [Class -> Nat]
        BY <1>1 DEF TypeOK, Rate!LimiterTypeOK
      <3>3. QED
        BY <3>1, <3>2 DEF limiter
    <2>8. CASE RefusedAfter(frame)
      <3>1. /\ UNCHANGED <<budget, failure_ledgers>>
            /\ \A c \in Class : cooldown_until'[c] <= cooldown_until[c]
            /\ reply'.outcome \in {"RateLimited", "LoopTripped", "BudgetDenied"}
            /\ reply'.outcome = "RateLimited" => UNCHANGED seen
        BY <1>1, <2>8, GuardRefusal
      <3>2. QED
        BY <2>1, <3>1
    <2>9. QED
      BY <2>6, <2>7, <2>8
  <1>2. TypeOK /\ FlightHeld /\ [Next]_vars => [Free]_vars
    BY <1>1
  <1>3. QED
    BY <1>2, TypeInvariant, PTL DEF Spec, BackPressureIsFree

-----------------------------------------------------------------------------
(* The promise to the control plane: every step of the dispatcher is a     *)
(* step of DispatchService or changes nothing it speaks of.                *)

\* The runs that are not a start, a settlement or a restart spend no budget.
LEMMA BudgetKept ==
    ASSUME TypeOK, [Next]_vars, ~Ends, ~Restart, \A frame \in Frame : ~Start(frame)
    PROVE  UNCHANGED budget /\ (phase' = "running" <=> phase = "running")
  <1>1. CASE Plumbing
    BY <1>1, PlumbingFacts DEF ledgers, budget
  <1>2. ASSUME NEW frame \in Frame, Refused(frame)
        PROVE  UNCHANGED budget /\ phase # "running" /\ phase' # "running"
    BY <1>2, RefusalFacts
  <1>3. QED
    BY <1>1, <1>2, StepCases DEF Refused

\* The job count passes a cap only by the grace used so far.
BudgetInv ==
    /\ grace_used <= Grace
    /\ Cap["jobs"] # 0 => spent["jobs"] <= Cap["jobs"] + grace_used

\* An admission past the cap uses up grace, so the count stays below what the
\* promise allows, and within it afterwards.
LEMMA AdmitWithin ==
    ASSUME Gov!TypeOK, BudgetInv, Gov!Admit
    PROVE  /\ BudgetInv'
           /\ Cap["jobs"] # 0 => spent["jobs"] < Cap["jobs"] + Grace
  <1>1. /\ spent["jobs"] \in Nat /\ grace_used \in Nat /\ Grace \in Nat /\ Cap["jobs"] \in Nat
        /\ "jobs" \in Gov!Dim
    BY DispatcherAssumption DEF Gov!TypeOK, Gov!Dim
  <1>2. spent'["jobs"] = spent["jobs"] + 1
    BY AdmitFacts
  <1>3. CASE Gov!Exhausted
    <2>1. grace_used' = grace_used + 1 /\ grace_used < Grace
      BY <1>1, <1>3 DEF Gov!Admit, Gov!Refuses
    <2>2. QED
      BY <1>1, <1>2, <2>1 DEF BudgetInv
  <1>4. CASE ~Gov!Exhausted
    <2>1. grace_used' = grace_used
      BY <1>4 DEF Gov!Admit
    <2>2. Cap["jobs"] # 0 => spent["jobs"] < Cap["jobs"]
      BY <1>1, <1>4 DEF Gov!Exhausted
    <2>3. QED
      BY <1>1, <1>2, <2>1, <2>2 DEF BudgetInv
  <1>5. QED
    BY <1>3, <1>4

\* Every step keeps the count within the grace.
LEMMA BudgetStep == TypeOK /\ FlightHeld /\ BudgetInv /\ [Next]_vars => BudgetInv'
  <1> SUFFICES ASSUME TypeOK, FlightHeld, BudgetInv, [Next]_vars
               PROVE  BudgetInv'
    OBVIOUS
  <1>1. ASSUME NEW frame \in Frame, Start(frame)
        PROVE  BudgetInv'
    BY <1>1, StartFacts, AdmitWithin, TypeParts
  <1>2. CASE Ends
    <2>1. spent'["jobs"] = spent["jobs"] /\ grace_used' = grace_used
      BY <1>2, SettlementFacts, EndFacts
    <2>2. QED
      BY <2>1 DEF BudgetInv
  <1>3. CASE Restart
    BY <1>3, FreshFacts, DispatcherAssumption DEF Restart, BudgetInv, Gov!Dim
  <1>4. CASE ~Ends /\ ~Restart /\ \A frame \in Frame : ~Start(frame)
    BY <1>4, BudgetKept DEF budget, BudgetInv
  <1>5. QED
    BY <1>1, <1>2, <1>3, <1>4

\* The spend and the graces keep their bounds in every reachable state.
LEMMA BudgetInvariant == Spec => []BudgetInv
  <1>1. Init => BudgetInv
    BY FreshFacts, DispatcherAssumption DEF Init, BudgetInv, Gov!Dim
  <1>2. QED
    BY <1>1, BudgetStep, TypeInvariant, PTL DEF Spec

\* The start of a kernel is a run the service allows: nothing else is underway,
\* the work is not retired and the arming has a run left.
LEMMA StartIsRun ==
    ASSUME TypeOK, FlightHeld, FailuresOrdered, BudgetInv, NEW frame \in Frame, Start(frame)
    PROVE  Service!Run(frame.job.fp)
  <1> DEFINE fp == frame.job.fp
  <1>1. /\ phase = "reading" /\ phase' = "running" /\ cur'.frame = frame
        /\ UNCHANGED failure_ledgers
        /\ Gov!Admit
        /\ ~Quar!Quarantined(fp)
    BY StartFacts
  <1>2. fp \in Fingerprint /\ Gov!TypeOK
    BY FrameFacts, TypeParts
  <1>3. ~Service!Retired(fp)
    <2>1. QuarantineThreshold \in Nat
      BY DispatcherAssumption
    <2>2. QuarantineThreshold > 0 =>
             (fp \in quarantined <=> failures[fp] >= QuarantineThreshold)
      BY <1>2 DEF FailuresOrdered, LedgersAgree
    <2>3. QED
      BY <1>1, <2>1, <2>2 DEF Service!Retired, Quar!Quarantined
  <1>4. spent'["jobs"] = spent["jobs"] + 1
    BY <1>1, <1>2, AdmitFacts
  <1>5. /\ Cap["jobs"] # 0 => spent["jobs"] < Cap["jobs"] + Grace
        /\ failures' = failures
    BY <1>1, <1>2, AdmitWithin DEF failure_ledgers
  <1>6. QED
    BY <1>1, <1>3, <1>4, <1>5 DEF Service!Run

\* Every step of the dispatcher is a step of the service, or none of its own.
LEMMA ServiceStep ==
    TypeOK /\ FlightHeld /\ FailuresOrdered /\ BudgetInv /\ [Next]_vars
        => [Service!ServiceNext]_(Service!serviceVars)
  <1> SUFFICES ASSUME TypeOK, FlightHeld, FailuresOrdered, BudgetInv, [Next]_vars
               PROVE  [Service!ServiceNext]_(Service!serviceVars)
    OBVIOUS
  <1>1. ASSUME NEW frame \in Frame, Start(frame)
        PROVE  Service!ServiceNext
    BY <1>1, StartIsRun, FrameFacts DEF Service!ServiceNext
  <1>2. CASE Ends
    <2> DEFINE fp == cur.frame.job.fp
    <2>1. /\ phase = "running" /\ phase' # "running" /\ fp \in Fingerprint
          /\ spent'["jobs"] = spent["jobs"]
      BY <1>2, EndFacts, FrameFacts, SettlementFacts
    <2>2. CASE Delivered
      <3>1. failures' = [failures EXCEPT ![fp] = 0]
        BY <2>2 DEF Delivered, Quar!Release
      <3>2. Service!Succeed(fp)
        BY <2>1, <3>1 DEF Service!Succeed
      <3>3. QED
        BY <2>1, <3>2 DEF Service!ServiceNext
    <2>3. ASSUME NEW kind \in KernelFailure, Fails(kind)
          PROVE  Service!ServiceNext
      <3>1. failures' = IF QuarantineThreshold = 0 THEN failures
                        ELSE [failures EXCEPT ![fp] = @ + 1]
        BY <2>3 DEF Fails, Quar!OnFailure
      <3>2. Service!Strike(fp)
        BY <2>1, <3>1 DEF Service!Strike
      <3>3. QED
        BY <2>1, <3>2 DEF Service!ServiceNext
    <2>4. QED
      BY <1>2, <2>2, <2>3 DEF Ends
  <1>3. CASE Restart
    <2>1. /\ spent'["jobs"] = 0 /\ phase' # "running"
          /\ failures' = [fp \in Fingerprint |-> 0]
      BY <1>3, FreshFacts DEF Restart, Fresh, Gov!Dim
    <2>2. Service!Rearm
      BY <2>1 DEF Service!Rearm, Service!Armed
    <2>3. QED
      BY <2>2 DEF Service!ServiceNext
  <1>4. CASE ~Ends /\ ~Restart /\ \A frame \in Frame : ~Start(frame)
    <2>1. UNCHANGED <<budget, failures>> /\ (phase' = "running" <=> phase = "running")
      BY <1>4, BudgetKept, FailuresKept DEF failure_ledgers
    <2>2. phase = "running" => cur' = cur
      <3>1. CASE Plumbing
        BY <3>1, PlumbingFacts
      <3>2. ASSUME NEW frame \in Frame, Refused(frame)
            PROVE  phase # "running"
        BY <3>2, RefusalFacts
      <3>3. QED
        BY <1>4, <3>1, <3>2, StepCases DEF Refused
    <2>3. QED
      BY <2>1, <2>2 DEF budget, Service!serviceVars
  <1>5. QED
    BY <1>1, <1>2, <1>3, <1>4

\* The dispatcher (main.rs) implements DispatchService: one kernel at a time, a
\* bounded number of runs between restarts, and no run of retired work.
THEOREM ServicePromise == Spec => KeepsItsPromise
  <1>1. Init => Service!Armed
    BY FreshFacts DEF Init, Fresh, Service!Armed, Gov!Dim
  <1>2. QED
    BY <1>1, ServiceStep, TypeInvariant, FailuresInvariant, BudgetInvariant, PTL
       DEF Spec, KeepsItsPromise, Service!ServiceSpec

-----------------------------------------------------------------------------
(* The guards are used as their own specifications assume, for the life of *)
(* one process: a restart is the beginning of another.                     *)

\* Without restarts there is no restart step.
LEMMA OneLife ==
    ASSUME MaxRestarts = 0, TypeOK
    PROVE  ~Restart
  BY DEF Restart, TypeOK

\* The budget moves only as the governor's calling discipline allows.
LEMMA GovernorStep ==
    ASSUME MaxRestarts = 0, TypeOK, FlightHeld, [Next]_vars
    PROVE  [Gov!Next]_(Gov!vars)
  <1>1. ASSUME NEW frame \in Frame, Start(frame)
        PROVE  Gov!Next
    <2>1. phase = "reading" /\ phase' = "running" /\ Gov!Admit
      BY <1>1, StartFacts
    <2>2. QED
      BY <2>1 DEF Gov!Next, Gov!Begin
  <1>2. CASE Ends
    <2>1. phase = "running" /\ phase' = "replying" /\ grace_used' = grace_used
      BY <1>2, EndFacts
    <2>2. CASE Delivered
      BY <2>1, <2>2 DEF Delivered, Gov!Next, Gov!Deliver
    <2>3. CASE \E kind \in KernelFailure : Fails(kind)
      BY <2>1, <2>3 DEF Fails, Gov!Next, Gov!Fail
    <2>4. QED
      BY <1>2, <2>2, <2>3 DEF Ends
  <1>3. CASE ~Ends /\ ~Restart /\ \A frame \in Frame : ~Start(frame)
    BY <1>3, BudgetKept DEF budget, Gov!vars
  <1>4. QED
    BY <1>1, <1>2, <1>3, OneLife

\* handle_request admits, runs and settles in the order governor.rs expects, so
\* the governor's theorems in AdmissionLimitsProofs hold of the dispatcher's budget.
THEOREM GovernorUsed ==
    ASSUME MaxRestarts = 0
    PROVE  Spec => GovernorAsSpecified
  <1>1. Init => Gov!Init
    BY DEF Init, Fresh, Gov!Init
  <1>2. TypeOK /\ FlightHeld /\ [Next]_vars => [Gov!Next]_(Gov!vars)
    BY GovernorStep
  <1>3. QED
    BY <1>1, <1>2, TypeInvariant, PTL DEF Spec, GovernorAsSpecified, Gov!Spec

\* The clock stays within the bound of the model.
ClockBounded == clock <= MaxTime

\* No reading of the clock is past the bound.
LEMMA ClockInvariant == Spec => []ClockBounded
  <1>1. MaxTime \in Nat
    BY DispatcherAssumption
  <1>2. Init => ClockBounded
    BY <1>1 DEF Init, ClockBounded
  <1>3. ASSUME TypeOK, FlightHeld, ClockBounded, [Next]_vars
        PROVE  ClockBounded'
    <2>1. CASE Plumbing
      <3>1. CASE Tick
        BY <1>1, <1>3, <3>1 DEF Tick, ClockBounded, TypeOK
      <3>2. CASE AcceptsOrDrops \/ (\E file \in SealedFile : Drift(file) \/ Restore(file))
                 \/ UNCHANGED vars
        BY <1>3, <3>2 DEF AcceptsOrDrops, Accept, ReadFails, Respond, Drift, Restore, world, vars,
                          ClockBounded
      <3>3. QED
        BY <2>1, <3>1, <3>2 DEF Plumbing, WorldMoves
    <2>2. ASSUME NEW frame \in Frame, Refused(frame)
          PROVE  ClockBounded'
      BY <1>3, <2>2, RefusalFacts DEF world, ClockBounded
    <2>3. ASSUME NEW frame \in Frame, Start(frame)
          PROVE  ClockBounded'
      BY <1>3, <2>3, StartFacts DEF world, ClockBounded
    <2>4. CASE Ends
      BY <1>3, <2>4, EndFacts DEF world, ClockBounded
    <2>5. CASE Restart
      BY <1>1, <2>5 DEF Restart, ClockBounded
    <2>6. QED
      BY <1>3, <2>1, <2>2, <2>3, <2>4, <2>5, StepCases DEF Refused
  <1>4. QED
    BY <1>2, <1>3, TypeInvariant, PTL DEF Spec

\* What a dispatch past the lock does to the limiter is a call of its check.
LEMMA LimiterChecked ==
    ASSUME TypeOK, NEW frame \in Frame, RefusedAfter(frame) \/ Start(frame)
    PROVE  Rate!LimiterNext
  <1> DEFINE c == class(frame)
  <1>1. c \in Class
    BY FrameFacts
  <1>2. phase = "reading" /\ now_secs' = now_secs
    BY GuardRefusal, StartFacts
  <1>3. CASE RefuseRate(frame)
    <2>1. phase' = "replying"
      BY <1>3 DEF RefuseRate, Answer
    <2>2. Rate!DenyCooling(c, now_secs) \/ Rate!DenyWindow(c, now_secs)
      BY <1>3 DEF RefuseRate
    <2>3. Rate!Deny(c)
      BY <1>2, <2>1, <2>2 DEF Rate!Deny, Rate!NoDispatch
    <2>4. QED
      BY <1>1, <2>3 DEF Rate!LimiterNext
  <1>4. CASE RefuseLoop(frame) \/ RefuseBudget(frame)
    <2>1. phase' = "replying" /\ Rate!AdmitRoute(c, now_secs)
      BY <1>4 DEF RefuseLoop, RefuseBudget, Answer
    <2>2. Rate!Proceed(c)
      BY <1>2, <2>1 DEF Rate!Proceed, Rate!NoDispatch
    <2>3. QED
      BY <1>1, <2>2 DEF Rate!LimiterNext
  <1>5. CASE Start(frame)
    <2>1. /\ phase' = "running" /\ Rate!AdmitRoute(c, now_secs)
          /\ cur'.frame = frame
      BY <1>5, StartFacts DEF Start
    <2>2. class(cur'.frame) = c
      BY <2>1
    <2>3. Rate!Proceed(c)
      BY <1>2, <2>1, <2>2 DEF Rate!Proceed, Rate!NoDispatch
    <2>4. QED
      BY <1>1, <2>3 DEF Rate!LimiterNext
  <1>6. QED
    BY <1>3, <1>4, <1>5 DEF RefusedAfter

\* Every step of the dispatcher calls the limiter as its specification allows,
\* or not at all.
LEMMA LimiterStep ==
    ASSUME MaxRestarts = 0, TypeOK, FlightHeld, ClockBounded, [Next]_vars
    PROVE  [Rate!LimiterNext]_(Rate!limiterVars)
  <1>1. CASE Plumbing
    <2>1. /\ UNCHANGED <<ledgers, cur>>
          /\ phase' = "running" <=> phase = "running"
          /\ now_secs' = now_secs \/ (phase # "running" /\ now_secs' = clock)
      BY <1>1, PlumbingFacts
    <2>2. CASE now_secs' = now_secs
      BY <2>1, <2>2 DEF ledgers, Rate!limiterVars
    <2>3. CASE phase # "running" /\ now_secs' = clock /\ now_secs' # now_secs
      <3>1. clock \in now_secs + 1 .. MaxTime
        BY <2>3, DispatcherAssumption DEF TypeOK, ClockBounded
      <3>2. Rate!Advance
        BY <2>1, <2>3, <3>1 DEF Rate!Advance, Rate!NoDispatch, ledgers
      <3>3. QED
        BY <3>2 DEF Rate!LimiterNext
    <2>4. QED
      BY <2>1, <2>2, <2>3
  <1>2. ASSUME NEW frame \in Frame, RefusedBefore(frame)
        PROVE  UNCHANGED Rate!limiterVars
    <2>1. /\ phase = "reading" /\ phase' = "replying" /\ now_secs' = now_secs
          /\ UNCHANGED limiter
      BY <1>2, GateRefusal DEF RefusedBefore
    <2>2. QED
      BY <2>1 DEF limiter, Rate!limiterVars
  <1>3. CASE Ends
    <2>1. phase = "running" /\ phase' = "replying" /\ now_secs' = now_secs
      BY <1>3, EndFacts
    <2>2. CASE Delivered
      <3>1. Rate!ClearRoute(class(cur.frame))
        BY <2>2 DEF Delivered
      <3>2. Rate!Delivered
        BY <2>1, <3>1 DEF Rate!Delivered, Rate!NoDispatch
      <3>3. QED
        BY <3>2 DEF Rate!LimiterNext
    <2>3. CASE \E kind \in KernelFailure : Fails(kind)
      <3>1. Rate!RecordFailure(class(cur.frame), now_secs)
        BY <2>3 DEF Fails
      <3>2. Rate!Failed
        BY <2>1, <3>1 DEF Rate!Failed, Rate!NoDispatch
      <3>3. QED
        BY <3>2 DEF Rate!LimiterNext
    <2>4. QED
      BY <1>3, <2>2, <2>3 DEF Ends
  <1>4. QED
    BY <1>1, <1>2, <1>3, LimiterChecked, StepCases, OneLife

\* The server samples its clock once per connection and settles every admitted
\* dispatch before the next, as ratelimit.rs expects of its caller, so the
\* limiter's theorems in AdmissionLimitsProofs hold of the dispatcher's limiter.
THEOREM RateLimiterUsed ==
    ASSUME MaxRestarts = 0
    PROVE  Spec => RateLimiterAsSpecified
  <1>1. Init => Rate!LimiterInit
    BY DEF Init, Fresh, Rate!LimiterInit, Rate!NoDispatch
  <1>2. TypeOK /\ FlightHeld /\ ClockBounded /\ [Next]_vars
            => [Rate!LimiterNext]_(Rate!limiterVars)
    BY LimiterStep
  <1>3. QED
    BY <1>1, <1>2, TypeInvariant, ClockInvariant, PTL
       DEF Spec, RateLimiterAsSpecified, Rate!LimiterSpec

-----------------------------------------------------------------------------
(* Sums of finite functions.  SumFunction recurses over the subsets of a   *)
(* domain; what it returns is shown from a smallest subset that would be   *)
(* an exception.                                                           *)

Pick(s) == CHOOSE x \in s : TRUE
SumsUp(g, f, S) ==
    g = [s \in SUBSET S |-> IF s = {} THEN 0 ELSE f[Pick(s)] + g[s \ {Pick(s)}]]
Total(f, S) == (CHOOSE g : SumsUp(g, f, S))[S]

\* The sum of the community modules is the total defined above.
LEMMA SumIsTotal ==
    ASSUME NEW f
    PROVE  SumFunction(f) = Total(f, DOMAIN f)
  BY DEF SumFunction, SumFunctionOnSet, FoldFunctionOnSet, MapThenFoldSet, SumsUp, Pick, Total

\* Among subsets of a finite set there is one with no other below it.
LEMMA SmallestSubset ==
    ASSUME NEW S, IsFiniteSet(S), NEW B, B \subseteq SUBSET S, B # {}
    PROVE  \E s \in B : \A t \in B : t \subseteq s => t = s
  <1>1. IsWellFoundedOn(StrictSubsetOrdering(S), SUBSET S)
    BY FS_StrictSubsetOrderingWellFounded, FS_FiniteSubsetsOfFinite
  <1>2. PICK s \in B : \A t \in B : ~(<<t, s>> \in StrictSubsetOrdering(S))
    BY <1>1, WFMin, Zenon
  <1>3. ASSUME NEW t \in B, t \subseteq s, t # s
        PROVE  FALSE
    BY <1>2, <1>3 DEF StrictSubsetOrdering
  <1>4. QED
    BY <1>3

\* A member leaves a smaller subset behind.
LEMMA PickFacts ==
    ASSUME NEW s, s # {}
    PROVE  Pick(s) \in s /\ s \ {Pick(s)} \subseteq s /\ s \ {Pick(s)} # s
  BY DEF Pick

\* Two functions that sum up f agree where both are defined.
LEMMA SumUnique ==
    ASSUME NEW f, NEW S, NEW T, IsFiniteSet(S), T \subseteq S,
           NEW g, NEW h, SumsUp(g, f, S), SumsUp(h, f, T)
    PROVE  \A s \in SUBSET T : g[s] = h[s]
  <1> DEFINE B == {s \in SUBSET T : g[s] # h[s]}
  <1> SUFFICES ASSUME B # {}
               PROVE  FALSE
    OBVIOUS
  <1>1. PICK s \in B : \A t \in B : t \subseteq s => t = s
    <2>1. B \subseteq SUBSET S
      OBVIOUS
    <2>2. QED
      <3> HIDE DEF B
      <3>1. QED
        BY <2>1, SmallestSubset
  <1>2. s \in SUBSET T /\ s \in SUBSET S /\ g[s] # h[s]
    OBVIOUS
  <1>3. /\ g[s] = IF s = {} THEN 0 ELSE f[Pick(s)] + g[s \ {Pick(s)}]
        /\ h[s] = IF s = {} THEN 0 ELSE f[Pick(s)] + h[s \ {Pick(s)}]
    BY <1>2 DEF SumsUp
  <1>4. s # {}
    BY <1>2, <1>3
  <1>5. s \ {Pick(s)} \in SUBSET T /\ s \ {Pick(s)} \notin B
    BY <1>1, <1>2, <1>4, PickFacts
  <1>6. g[s \ {Pick(s)}] = h[s \ {Pick(s)}]
    BY <1>5
  <1>7. QED
    BY <1>2, <1>3, <1>4, <1>6

\* There is one for every finite set.
LEMMA SumExists ==
    ASSUME NEW f, NEW S, IsFiniteSet(S)
    PROVE  \E g : SumsUp(g, f, S)
  <1> DEFINE B == {T \in SUBSET S : ~\E g : SumsUp(g, f, T)}
  <1> SUFFICES ASSUME B # {}
               PROVE  FALSE
    OBVIOUS
  <1>1. PICK T \in B : \A t \in B : t \subseteq T => t = T
    <2>1. B \subseteq SUBSET S
      OBVIOUS
    <2>2. QED
      <3> HIDE DEF B
      <3>1. QED
        BY <2>1, SmallestSubset
  <1>2. T \subseteq S /\ ~\E g : SumsUp(g, f, T)
    OBVIOUS
  <1>3. ASSUME NEW t \in SUBSET T, t # T
        PROVE  SumsUp(CHOOSE g : SumsUp(g, f, t), f, t)
    <2>1. t \notin B /\ t \subseteq S
      BY <1>1, <1>2, <1>3
    <2>2. \E g : SumsUp(g, f, t)
      BY <2>1
    <2>3. QED
      BY <2>2
  <1> DEFINE G == [s \in SUBSET T |->
                      IF s = {} THEN 0 ELSE f[Pick(s)] + Total(f, s \ {Pick(s)})]
  <1>4. ASSUME NEW u \in SUBSET T, u # T
        PROVE  G[u] = Total(f, u)
    <2> DEFINE h == CHOOSE g : SumsUp(g, f, u)
    <2>1. SumsUp(h, f, u)
      BY <1>3, <1>4
    <2>2. h[u] = IF u = {} THEN 0 ELSE f[Pick(u)] + h[u \ {Pick(u)}]
      <3> HIDE DEF h
      <3>1. QED
        BY <2>1 DEF SumsUp
    <2>3. Total(f, u) = h[u]
      BY DEF Total
    <2>4. ASSUME u # {}
          PROVE  h[u \ {Pick(u)}] = Total(f, u \ {Pick(u)})
      <3> DEFINE v == u \ {Pick(u)}
                 k == CHOOSE g : SumsUp(g, f, v)
      <3>1. v \subseteq u /\ v \in SUBSET T /\ v # T
        BY <1>4, <2>4, PickFacts
      <3>2. SumsUp(k, f, v)
        BY <1>3, <3>1
      <3>3. IsFiniteSet(u)
        BY <1>2, FS_Subset
      <3>4. h[v] = k[v]
        <4> HIDE DEF h, k, v
        <4>1. QED
          BY <2>1, <3>1, <3>2, <3>3, SumUnique
      <3>5. QED
        BY <3>4 DEF Total
    <2>5. G[u] = IF u = {} THEN 0 ELSE f[Pick(u)] + Total(f, u \ {Pick(u)})
      OBVIOUS
    <2>6. QED
      <3> HIDE DEF h, G
      <3>1. QED
        BY <2>2, <2>3, <2>4, <2>5
  <1>5. SumsUp(G, f, T)
    <2>1. ASSUME NEW s \in SUBSET T, s # {}
          PROVE  G[s \ {Pick(s)}] = Total(f, s \ {Pick(s)})
      <3> HIDE DEF G
      <3>1. s \ {Pick(s)} \in SUBSET T /\ s \ {Pick(s)} # T
        BY <2>1, PickFacts
      <3>2. QED
        BY <1>4, <3>1
    <2>2. G = [s \in SUBSET T |-> IF s = {} THEN 0 ELSE f[Pick(s)] + G[s \ {Pick(s)}]]
      BY <2>1
    <2>3. QED
      <3> HIDE DEF G
      <3>1. QED
        BY <2>2 DEF SumsUp
  <1>6. QED
    BY <1>2, <1>5

\* So the total of a set is the entry of one member and the total of the rest.
LEMMA TotalFacts ==
    ASSUME NEW f, NEW S, IsFiniteSet(S)
    PROVE  Total(f, S) = IF S = {} THEN 0 ELSE f[Pick(S)] + Total(f, S \ {Pick(S)})
  <1> DEFINE g == CHOOSE g : SumsUp(g, f, S)
             v == S \ {Pick(S)}
             k == CHOOSE h : SumsUp(h, f, v)
  <1>1. SumsUp(g, f, S)
    BY SumExists
  <1>2. IsFiniteSet(v) /\ v \subseteq S
    BY FS_Subset
  <1>3. SumsUp(k, f, v)
    <2> HIDE DEF v
    <2>1. QED
      BY <1>2, SumExists
  <1>4. g[S] = IF S = {} THEN 0 ELSE f[Pick(S)] + g[v]
    <2> HIDE DEF g
    <2>1. QED
      BY <1>1 DEF SumsUp
  <1>5. g[v] = k[v]
    <2> HIDE DEF g, v, k
    <2>1. QED
      BY <1>1, <1>2, <1>3, SumUnique
  <1>6. Total(f, S) = g[S] /\ Total(f, v) = k[v]
    BY DEF Total
  <1>7. QED
    <2> HIDE DEF g, k
    <2>1. QED
      BY <1>4, <1>5, <1>6

\* Totals of natural numbers are natural numbers, and of zeros zero.
LEMMA TotalType ==
    ASSUME NEW S, IsFiniteSet(S), NEW f, \A x \in S : f[x] \in Nat, NEW T, T \subseteq S
    PROVE  Total(f, T) \in Nat /\ ((\A x \in T : f[x] = 0) => Total(f, T) = 0)
  <1> DEFINE OK(s) == Total(f, s) \in Nat /\ ((\A x \in s : f[x] = 0) => Total(f, s) = 0)
             B == {s \in SUBSET S : ~OK(s)}
  <1> SUFFICES ASSUME B # {}
               PROVE  FALSE
    OBVIOUS
  <1>1. PICK s \in B : \A t \in B : t \subseteq s => t = s
    <2>1. B \subseteq SUBSET S
      OBVIOUS
    <2>2. QED
      <3> HIDE DEF B
      <3>1. QED
        BY <2>1, SmallestSubset
  <1>2. s \in SUBSET S /\ ~OK(s)
    OBVIOUS
  <1>3. Total(f, s) = IF s = {} THEN 0 ELSE f[Pick(s)] + Total(f, s \ {Pick(s)})
    BY <1>2, FS_Subset, TotalFacts
  <1>4. s # {}
    BY <1>2, <1>3
  <1>5. /\ s \ {Pick(s)} \in SUBSET S /\ OK(s \ {Pick(s)})
        /\ Pick(s) \in S /\ Pick(s) \in s
    BY <1>1, <1>2, <1>4, PickFacts
  <1>6. f[Pick(s)] \in Nat
    BY <1>5
  <1>7. OK(s)
    BY <1>3, <1>4, <1>5, <1>6
  <1>8. QED
    BY <1>2, <1>7

\* One more in one entry is one more in the total.
LEMMA TotalGrows ==
    ASSUME NEW S, IsFiniteSet(S), NEW f \in [S -> Nat], NEW x \in S
    PROVE  Total([f EXCEPT ![x] = @ + 1], S) = Total(f, S) + 1
  <1> DEFINE h == [f EXCEPT ![x] = @ + 1]
             more(s) == IF x \in s THEN 1 ELSE 0
             B == {s \in SUBSET S : Total(h, s) # Total(f, s) + more(s)}
  <1> SUFFICES ASSUME B # {}
               PROVE  FALSE
    OBVIOUS
  <1>1. PICK s \in B : \A t \in B : t \subseteq s => t = s
    <2>1. B \subseteq SUBSET S
      OBVIOUS
    <2>2. QED
      <3> HIDE DEF B
      <3>1. QED
        BY <2>1, SmallestSubset
  <1>2. s \in SUBSET S /\ IsFiniteSet(s) /\ Total(h, s) # Total(f, s) + more(s)
    BY FS_Subset
  <1> DEFINE p == Pick(s)
             rest == s \ {p}
  <1>3. /\ Total(h, s) = IF s = {} THEN 0 ELSE h[p] + Total(h, rest)
        /\ Total(f, s) = IF s = {} THEN 0 ELSE f[p] + Total(f, rest)
    <2> HIDE DEF h
    <2>1. QED
      BY <1>2, TotalFacts
  <1>4. s # {}
    <2> HIDE DEF h
    <2>1. QED
      BY <1>2, <1>3
  <1>5. p \in s /\ p \in S /\ rest \in SUBSET S /\ IsFiniteSet(rest) /\ rest \notin B
    BY <1>1, <1>2, <1>4, PickFacts, FS_Subset
  <1>6. Total(h, rest) = Total(f, rest) + more(rest)
    BY <1>5
  <1>7. f[p] \in Nat /\ h[p] = f[p] + (IF p = x THEN 1 ELSE 0)
    BY <1>5
  <1>8. Total(f, rest) \in Nat
    <2> HIDE DEF B, h, rest
    <2>1. \A y \in S : f[y] \in Nat
      OBVIOUS
    <2>2. QED
      BY <1>5, <2>1, TotalType
  <1>9. more(s) = (IF p = x THEN 1 ELSE 0) + more(rest)
    BY <1>5
  <1>10. QED
    <2> HIDE DEF h, rest, p
    <2>1. QED
      BY <1>2, <1>3, <1>4, <1>6, <1>7, <1>8, <1>9

-----------------------------------------------------------------------------
(* The governor and the risk ledger account for the same kernel runs.      *)

Runs(fp) == history[fp].ok + history[fp].bad
Outcomes == [fp \in Fingerprint |-> Runs(fp)]
Underway == IF phase = "running" THEN 1 ELSE 0

Balanced == spent["jobs"] = Total(Outcomes, Fingerprint) + Underway
CountsOK == Outcomes \in [Fingerprint -> Nat]

\* A total of outcomes is a number, and zero when there are none.
LEMMA CountsFacts ==
    ASSUME NEW counts \in [Fingerprint -> Nat]
    PROVE  /\ Total(counts, Fingerprint) \in Nat
           /\ (\A fp \in Fingerprint : counts[fp] = 0) => Total(counts, Fingerprint) = 0
  <1>1. IsFiniteSet(Fingerprint)
    BY DispatcherAssumption
  <1>2. \A fp \in Fingerprint : counts[fp] \in Nat
    OBVIOUS
  <1>3. QED
    BY <1>1, <1>2, TotalType

\* JobsAccountedFor, with the sum as a total.
LEMMA Accounts == TypeOK => CountsOK /\ (JobsAccountedFor <=> Balanced)
  <1> SUFFICES ASSUME TypeOK
               PROVE  CountsOK /\ (JobsAccountedFor <=> Balanced)
    OBVIOUS
  <1>1. Outcomes \in [Fingerprint -> Nat] /\ DOMAIN Outcomes = Fingerprint
    BY DEF Outcomes, Runs, TypeOK, Risk!RiskTypeOK
  <1>2. SumFunction(Outcomes) = Total(Outcomes, Fingerprint)
    BY <1>1, SumIsTotal
  <1>3. JobsAccountedFor <=> spent["jobs"] = SumFunction(Outcomes) + Underway
    BY DEF JobsAccountedFor, Outcomes, Runs, Underway
  <1>4. QED
    BY <1>1, <1>2, <1>3 DEF CountsOK, Balanced

\* A settlement adds one outcome to the ledger, whatever it is.
LEMMA OutcomeRecorded ==
    ASSUME TypeOK, FlightHeld, Ends
    PROVE  Outcomes' = [Outcomes EXCEPT ![cur.frame.job.fp] = @ + 1]
  <1> DEFINE fp == cur.frame.job.fp
  <1>1. fp \in Fingerprint
    BY EndFacts, FrameFacts
  <1>2. history \in [Fingerprint -> [ok : Nat, bad : Nat]]
    BY DEF TypeOK, Risk!RiskTypeOK
  <1>3. \/ history' = [history EXCEPT ![fp].ok = @ + 1]
        \/ history' = [history EXCEPT ![fp].bad = @ + 1]
    BY DEF Ends, Delivered, Fails, Risk!RecordSuccess, Risk!RecordFailure
  <1>4. ASSUME NEW work \in Fingerprint
        PROVE  Runs(work)' = IF work = fp THEN Runs(work) + 1 ELSE Runs(work)
    <2>1. history[work].ok \in Nat /\ history[work].bad \in Nat
      BY <1>2
    <2>2. CASE work = fp
      <3>1. \/ /\ history'[work].ok = history[work].ok + 1
               /\ history'[work].bad = history[work].bad
            \/ /\ history'[work].ok = history[work].ok
               /\ history'[work].bad = history[work].bad + 1
        BY <1>1, <1>2, <1>3, <2>2
      <3>2. QED
        BY <2>1, <2>2, <3>1 DEF Runs
    <2>3. CASE work # fp
      <3>1. history'[work] = history[work]
        BY <1>1, <1>2, <1>3, <2>3
      <3>2. QED
        BY <2>3, <3>1 DEF Runs
    <2>4. QED
      BY <2>2, <2>3
  <1>5. QED
    BY <1>1, <1>4 DEF Outcomes

\* Every step keeps the account: a start counts the kernel that then runs, its
\* end turns it into an outcome.
LEMMA AccountStep ==
    ASSUME TypeOK, TypeOK', FlightHeld, JobsAccountedFor, [Next]_vars
    PROVE  JobsAccountedFor'
  <1>1. /\ spent["jobs"] = Total(Outcomes, Fingerprint) + Underway
        /\ Outcomes \in [Fingerprint -> Nat]
        /\ Total(Outcomes, Fingerprint) \in Nat
    BY Accounts, CountsFacts DEF Balanced, CountsOK
  <1>2. CountsOK' /\ (JobsAccountedFor' <=> Balanced')
    BY Accounts, PTL
  <1>3. ASSUME UNCHANGED failure_ledgers
        PROVE  Outcomes' = Outcomes
    BY <1>3 DEF failure_ledgers, Outcomes, Runs
  <1>4. ASSUME NEW frame \in Frame, Start(frame)
        PROVE  JobsAccountedFor'
    <2>1. /\ phase = "reading" /\ phase' = "running" /\ Gov!Admit
          /\ UNCHANGED failure_ledgers
      BY <1>4, StartFacts
    <2>2. spent'["jobs"] = spent["jobs"] + 1
      BY <2>1, AdmitFacts, TypeParts
    <2>3. Outcomes' = Outcomes /\ Underway = 0 /\ Underway' = 1
      BY <1>3, <2>1 DEF Underway
    <2>4. QED
      BY <1>1, <1>2, <2>2, <2>3 DEF Balanced
  <1>5. CASE Ends
    <2>1. phase = "running" /\ phase' = "replying" /\ cur.frame.job.fp \in Fingerprint
      BY <1>5, EndFacts, FrameFacts
    <2>2. Total(Outcomes', Fingerprint) = Total(Outcomes, Fingerprint) + 1
      BY <1>1, <1>5, <2>1, OutcomeRecorded, TotalGrows, DispatcherAssumption
    <2>3. spent'["jobs"] = spent["jobs"]
      BY <1>5, SettlementFacts
    <2>4. Underway = 1 /\ Underway' = 0
      BY <2>1 DEF Underway
    <2>5. QED
      BY <1>1, <1>2, <2>2, <2>3, <2>4 DEF Balanced
  <1>6. CASE Restart
    <2>1. spent'["jobs"] = 0 /\ Underway' = 0
      BY <1>6, FreshFacts DEF Restart, Underway, Gov!Dim
    <2>2. history' = Fresh.history
      BY <1>6 DEF Restart
    <2>3. \A fp \in Fingerprint : Outcomes'[fp] = 0
      BY <2>2, FreshFacts DEF Outcomes, Runs
    <2>4. Outcomes' \in [Fingerprint -> Nat]
      BY <1>2 DEF CountsOK
    <2>5. Total(Outcomes', Fingerprint) = 0
      BY <2>3, <2>4, CountsFacts
    <2>6. QED
      BY <1>2, <2>1, <2>5 DEF Balanced
  <1>7. CASE ~Ends /\ ~Restart /\ \A frame \in Frame : ~Start(frame)
    <2>1. spent' = spent /\ Underway' = Underway /\ Outcomes' = Outcomes
      BY <1>3, <1>7, BudgetKept, FailuresKept DEF budget, Underway
    <2>2. QED
      BY <1>1, <1>2, <2>1 DEF Balanced
  <1>8. QED
    BY <1>4, <1>5, <1>6, <1>7

\* The jobs the governor has counted are the outcomes the risk ledger holds and
\* the kernel that runs: no path of handle_request admits a job it does not
\* settle, or settles one twice (governor.rs, risk.rs).
THEOREM JobsSettled == Spec => []JobsAccountedFor
  <1>1. Init => JobsAccountedFor
    <2> SUFFICES ASSUME Init
                 PROVE  JobsAccountedFor
      OBVIOUS
    <2>1. TypeOK /\ spent["jobs"] = 0 /\ Underway = 0
      BY StartsFresh, StartedFacts, FreshFacts DEF Init, Underway, Gov!Dim
    <2>2. \A fp \in Fingerprint : Outcomes[fp] = 0
      BY FreshFacts DEF Init, Outcomes, Runs
    <2>3. Total(Outcomes, Fingerprint) = 0
      BY <2>1, <2>2, Accounts, CountsFacts DEF CountsOK
    <2>4. QED
      BY <2>1, <2>3, Accounts DEF Balanced
  <1>2. TypeOK /\ TypeOK' /\ FlightHeld /\ JobsAccountedFor /\ [Next]_vars => JobsAccountedFor'
    BY AccountStep
  <1>3. QED
    BY <1>1, <1>2, TypeInvariant, PTL DEF Spec
=============================================================================
