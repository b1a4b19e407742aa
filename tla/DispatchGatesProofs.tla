------------------------- MODULE DispatchGatesProofs -------------------------
(***************************************************************************)
(* Proofs about SingleFlightWorkers and DispatchGates: the ledger is       *)
(* exactly the dispatches that run, alone and with the loop breaker behind *)
(* the lock, and the breaker counts exactly, for any targets, job ids,     *)
(* fingerprints, window, threshold and number of attempts.                 *)
(*                                                                         *)
(* The argument about the lock: a lease is told apart from every lease     *)
(* granted before it by its sequence number, so a release by an ended      *)
(* dispatch never names the holder.  It needs that no lease is both        *)
(* running and ended and that every number granted is below the next one   *)
(* (part of TypeOK).                                                       *)
(***************************************************************************)
EXTENDS DispatchGates, SequenceTheorems, FiniteSetTheorems, TLAPS

-----------------------------------------------------------------------------
(* The lock alone.                                                         *)

\* The lease that holds a busy target.
HolderOf(target) == [target |-> target, job_id |-> active[target].job_id,
                     sequence |-> active[target].sequence]

\* LedgerMatchesRunning, as the two inclusions, with what makes it inductive.
FlightInv ==
    /\ TypeOK
    /\ running \cap ended = {}
    /\ \A target \in Target : Busy(target) => HolderOf(target) \in running
    /\ \A lease \in running : active[lease.target] = Held(lease)

\* Initially no target is held and nothing runs.
LEMMA FlightInvInit == Init => FlightInv
  BY DEF Init, FlightInit, FlightInv, TypeOK, FlightTypeOK, Busy, Free, Flight

\* A lease is given by its target and what the ledger holds for it.
LEMMA LeaseIsHolder ==
    ASSUME NEW lease \in LeaseType, NEW held, held = Held(lease)
    PROVE  /\ lease = [target |-> lease.target, job_id |-> held.job_id,
                       sequence |-> held.sequence]
           /\ held # Free
           /\ held \in Flight
  <1>1. held = [job_id |-> lease.job_id, sequence |-> lease.sequence]
    BY DEF Held
  <1>2. held # Free
    BY <1>1 DEF Free
  <1>3. held.job_id = lease.job_id /\ held.sequence = lease.sequence
    BY <1>1
  <1>4. held \in Flight
    BY <1>1 DEF LeaseType, Flight
  <1>5. QED
    BY <1>2, <1>3, <1>4 DEF LeaseType

\* A new flight is the only one on its target.
LEMMA BeginKeeps ==
    ASSUME FlightInv, NEW target \in Target, NEW id \in JobId, Begin(target, id)
    PROVE  FlightInv'
  <1> DEFINE new == Lease(target, id)
  <1>1. /\ active[target] = Free
        /\ active' = [active EXCEPT ![target] = Held(new)]
        /\ next_sequence' = next_sequence + 1
        /\ running' = running \cup {new}
        /\ ended' = ended
    BY DEF Begin, Acquire, Busy, Draw
  <1>2. new \in LeaseType /\ new.target = target /\ new.sequence = next_sequence
    BY DEF FlightInv, TypeOK, FlightTypeOK, LeaseType, Lease
  <1>3. TypeOK'
    <2>1. Held(new) \in Flight
      BY <1>2, LeaseIsHolder
    <2>2. FlightTypeOK'
      BY <1>1, <2>1 DEF FlightInv, TypeOK, FlightTypeOK
    <2>3. \A lease \in running' \cup ended' : lease.sequence < next_sequence'
      BY <1>1, <1>2 DEF FlightInv, TypeOK, FlightTypeOK, LeaseType
    <2>4. QED
      BY <1>1, <1>2, <2>2, <2>3 DEF FlightInv, TypeOK
  <1>4. new \notin ended
    BY <1>2 DEF FlightInv, TypeOK, FlightTypeOK, LeaseType
  <1>5. ASSUME NEW t \in Target, Busy(t)'
        PROVE  HolderOf(t)' \in running'
    <2>1. CASE t = target
      <3>1. active'[t] = Held(new)
        BY <1>1, <2>1 DEF FlightInv, TypeOK, FlightTypeOK
      <3>2. HolderOf(t)' = new
        BY <3>1, <2>1, <1>2, LeaseIsHolder DEF HolderOf
      <3>3. QED
        BY <3>2, <1>1
    <2>2. CASE t # target
      <3>1. active'[t] = active[t]
        BY <1>1, <2>2 DEF FlightInv, TypeOK, FlightTypeOK
      <3>2. Busy(t) /\ HolderOf(t)' = HolderOf(t)
        BY <3>1, <1>5 DEF Busy, HolderOf
      <3>3. QED
        BY <3>2, <1>1 DEF FlightInv
    <2>3. QED
      BY <2>1, <2>2
  <1>6. ASSUME NEW lease \in running'
        PROVE  active'[lease.target] = Held(lease)
    <2>1. CASE lease = new
      BY <1>1, <1>2, <2>1 DEF FlightInv, TypeOK, FlightTypeOK
    <2>2. CASE lease \in running
      <3>1. lease \in LeaseType /\ active[lease.target] = Held(lease)
        BY <2>2 DEF FlightInv, TypeOK
      <3>2. active[lease.target] # Free
        BY <3>1, LeaseIsHolder
      <3>3. lease.target # target
        BY <3>2, <1>1
      <3>4. QED
        BY <1>1, <3>1, <3>3 DEF FlightInv, TypeOK, FlightTypeOK, LeaseType
    <2>3. QED
      BY <1>1, <1>6, <2>1, <2>2
  <1>7. (\A lease \in running : active[lease.target] = Held(lease))'
    BY <1>6 DEF Held
  <1>8. QED
    BY <1>1, <1>3, <1>4, <1>5, <1>7 DEF FlightInv

\* A release by the holder frees its target.
LEMMA EndKeeps ==
    ASSUME FlightInv, NEW lease \in running, End(lease)
    PROVE  FlightInv'
  <1>1. lease \in LeaseType /\ active[lease.target] = Held(lease)
    BY DEF FlightInv, TypeOK
  <1>2. /\ active' = [active EXCEPT ![lease.target] = Free]
        /\ next_sequence' = next_sequence
        /\ running' = running \ {lease}
        /\ ended' = ended \cup {lease}
    BY <1>1 DEF End, Release, Matches
  <1>3. TypeOK'
    BY <1>1, <1>2 DEF FlightInv, TypeOK, FlightTypeOK, LeaseType
  <1>4. ASSUME NEW t \in Target, Busy(t)'
        PROVE  HolderOf(t)' \in running'
    <2>1. t # lease.target /\ active'[t] = active[t]
      BY <1>1, <1>2, <1>4 DEF Busy, FlightInv, TypeOK, FlightTypeOK, LeaseType
    <2>2. Busy(t) /\ HolderOf(t)' = HolderOf(t)
      BY <2>1, <1>4 DEF Busy, HolderOf
    <2>3. HolderOf(t).target = t
      BY DEF HolderOf
    <2>4. QED
      BY <1>2, <2>1, <2>2, <2>3 DEF FlightInv
  <1>5. ASSUME NEW other \in running'
        PROVE  active'[other.target] = Held(other)
    <2>1. other \in running /\ other # lease /\ other \in LeaseType
      BY <1>2, <1>5 DEF FlightInv, TypeOK
    <2>2. active[other.target] = Held(other)
      BY <2>1 DEF FlightInv
    <2>3. other.target # lease.target
      BY <1>1, <2>1, <2>2, LeaseIsHolder
    <2>4. QED
      BY <1>2, <2>1, <2>2, <2>3 DEF FlightInv, TypeOK, FlightTypeOK, LeaseType
  <1>6. (\A other \in running : active[other.target] = Held(other))'
    BY <1>5 DEF Held
  <1>7. QED
    BY <1>2, <1>3, <1>4, <1>6 DEF FlightInv

\* A repeated release names no holder: its number is not the holder's.
LEMMA ReleaseAgainKeeps ==
    ASSUME FlightInv, NEW lease \in ended, ReleaseAgain(lease)
    PROVE  FlightInv'
  <1>1. lease \in LeaseType /\ lease \notin running
    BY DEF FlightInv, TypeOK
  <1>2. active[lease.target] # Held(lease)
    <2> SUFFICES ASSUME active[lease.target] = Held(lease)
                 PROVE  FALSE
      OBVIOUS
    <2>1. Busy(lease.target) /\ HolderOf(lease.target) = lease
      BY <1>1, LeaseIsHolder DEF Busy, HolderOf
    <2>2. QED
      BY <1>1, <2>1 DEF FlightInv, LeaseType
  <1>3. UNCHANGED vars
    BY <1>2 DEF ReleaseAgain, Release, Matches, vars
  <1>4. QED
    BY <1>3 DEF vars, FlightInv, TypeOK, FlightTypeOK, Busy, HolderOf, Held

\* Every step keeps the ledger and the running dispatches in agreement.
LEMMA FlightInvStep == FlightInv /\ [Next]_vars => FlightInv'
  <1> SUFFICES ASSUME FlightInv, [Next]_vars
               PROVE  FlightInv'
    OBVIOUS
  <1>1. ASSUME NEW target \in Target, NEW id \in JobId, Begin(target, id)
        PROVE  FlightInv'
    BY <1>1, BeginKeeps
  <1>2. ASSUME NEW target \in Target, TurnAway(target)
        PROVE  FlightInv'
    BY <1>2 DEF TurnAway, Refuse, Draw, FlightInv, TypeOK, FlightTypeOK,
                Busy, HolderOf, Held, LeaseType
  <1>3. ASSUME NEW lease \in running, End(lease)
        PROVE  FlightInv'
    BY <1>3, EndKeeps
  <1>4. ASSUME NEW lease \in ended, ReleaseAgain(lease)
        PROVE  FlightInv'
    BY <1>4, ReleaseAgainKeeps
  <1>5. CASE UNCHANGED vars
    BY <1>5 DEF vars, FlightInv, TypeOK, FlightTypeOK, Busy, HolderOf, Held
  <1>6. QED
    BY <1>1, <1>2, <1>3, <1>4, <1>5 DEF Next

\* They agree in every reachable state.
THEOREM FlightInvariant == Spec => []FlightInv
  BY FlightInvInit, FlightInvStep, PTL DEF Spec

\* The types of the ledger and of the leases, and that a sequence number is
\* never granted twice.
THEOREM TypeCorrect == Spec => []TypeOK
  <1>1. FlightInv => TypeOK
    BY DEF FlightInv
  <1>2. QED
    BY <1>1, FlightInvariant, PTL

\* The two inclusions are the equality.
LEMMA LedgerFromInv == FlightInv => LedgerMatchesRunning
  <1> SUFFICES ASSUME FlightInv
               PROVE  LedgerMatchesRunning
    OBVIOUS
  <1>1. ASSUME NEW lease \in running
        PROVE  /\ lease.target \in Target
               /\ Busy(lease.target)
               /\ lease = HolderOf(lease.target)
    <2>1. lease \in LeaseType /\ active[lease.target] = Held(lease)
      BY DEF FlightInv, TypeOK
    <2>2. QED
      BY <2>1, LeaseIsHolder DEF Busy, HolderOf, LeaseType
  <1>2. QED
    BY <1>1 DEF LedgerMatchesRunning, FlightInv, HolderOf

\* The ledger is exactly the running dispatches, whatever releases arrive late
\* or twice: singleflight.rs, release(), honours only the active holder.
THEOREM LedgerExact == Spec => []LedgerMatchesRunning
  BY LedgerFromInv, FlightInvariant, PTL

\* At most one dispatch runs on a target: two running leases of the same target
\* are the same lease.
THEOREM OnePerTarget ==
    Spec => [](\A a, b \in running : a.target = b.target => a = b)
  <1>1. FlightInv => \A a, b \in running : a.target = b.target => a = b
    <2> SUFFICES ASSUME FlightInv, NEW a \in running, NEW b \in running,
                        a.target = b.target
                 PROVE  a = b
      OBVIOUS
    <2>1. /\ a \in LeaseType /\ active[a.target] = Held(a)
          /\ b \in LeaseType /\ active[b.target] = Held(b)
      BY DEF FlightInv, TypeOK
    <2>2. QED
      BY <2>1, LeaseIsHolder
  <1>2. QED
    BY <1>1, FlightInvariant, PTL

-----------------------------------------------------------------------------
(* The lock with the breaker behind it.  FlightInv still holds; a dispatch *)
(* that trips takes its target and gives it back in one step.              *)

\* A dispatch that trips draws a number and holds nothing.
LEMMA TripKeeps ==
    ASSUME FlightInv, NEW target \in Target, NEW id \in JobId, NEW fp \in Fingerprint,
           Trip(target, id, fp)
    PROVE  FlightInv'
  <1> DEFINE new == Lease(target, id)
  <1>1. /\ UNCHANGED <<active, running>>
        /\ next_sequence' = next_sequence + 1
        /\ ended' = ended \cup {new}
    BY DEF Trip, Draw
  <1>2. /\ active \in [Target -> Flight \cup {Free}] /\ next_sequence \in Nat
        /\ running \subseteq LeaseType /\ ended \subseteq LeaseType
        /\ \A lease \in running \cup ended : lease.sequence < next_sequence
    BY DEF FlightInv, TypeOK, FlightTypeOK
  <1>3. new \in LeaseType /\ new.sequence = next_sequence
    BY <1>2 DEF LeaseType, Lease
  <1>4. \A lease \in running \cup ended : lease.sequence \in Nat
    BY <1>2 DEF LeaseType
  <1>5. new \notin running
    BY <1>2, <1>3
  <1>6. \A lease \in running' \cup ended' : lease.sequence < next_sequence'
    BY <1>1, <1>2, <1>3, <1>4
  <1>7. TypeOK'
    BY <1>1, <1>2, <1>3, <1>6 DEF TypeOK, FlightTypeOK
  <1>8. QED
    BY <1>1, <1>5, <1>7 DEF FlightInv, Busy, HolderOf, Held

\* Every step keeps the ledger and the running dispatches in agreement.
LEMMA GatesFlightStep == FlightInv /\ [GatesNext]_gatesVars => FlightInv'
  <1> SUFFICES ASSUME FlightInv, [GatesNext]_gatesVars
               PROVE  FlightInv'
    OBVIOUS
  <1>1. ASSUME NEW target \in Target, NEW id \in JobId, NEW fp \in Fingerprint,
               Trip(target, id, fp)
        PROVE  FlightInv'
    BY <1>1, TripKeeps
  <1>2. CASE [Next]_vars
    BY <1>2, FlightInvStep
  <1>3. QED
    BY <1>1, <1>2
       DEF GatesNext, gatesVars, Next, TurnedAway, Enter, Leave, LeaveAgain

\* What is proved of single-flight workers holds with the breaker behind them.
LEMMA GatesFlightInvariant == GatesSpec => []FlightInv
  <1>1. GatesInit => FlightInv
    BY FlightInvInit DEF GatesInit
  <1>2. QED
    BY <1>1, GatesFlightStep, PTL DEF GatesSpec

\* The types of the ledger and of the leases, with the breaker between them.
THEOREM GatesTypeCorrect == GatesSpec => []TypeOK
  <1>1. FlightInv => TypeOK
    BY DEF FlightInv
  <1>2. QED
    BY <1>1, GatesFlightInvariant, PTL

\* A dispatch that trips the breaker leaves its target free and takes no other
\* dispatch's target with it: the permit is dropped on the early return.
THEOREM GatesLedgerExact == GatesSpec => []LedgerMatchesRunning
  BY LedgerFromInv, GatesFlightInvariant, PTL

-----------------------------------------------------------------------------
(* What the breaker has observed.                                          *)

\* The leases granted so far are as many as the observations.
ObservedInv ==
    /\ FlightInv
    /\ verdicts \in Seq([fp : Fingerprint, passed : BOOLEAN])
    /\ IsFiniteSet(running \cup ended)
    /\ BusyIsNotObserved

\* A grant comes with an observation, and its lease is a new one.
LEMMA GrantObserved ==
    ASSUME ObservedInv, NEW target \in Target, NEW id \in JobId, NEW fp \in Fingerprint,
           running' \cup ended' = (running \cup ended) \cup {Lease(target, id)},
           Breaker!Dispatch(fp), FlightInv'
    PROVE  ObservedInv'
  <1> DEFINE new == Lease(target, id)
             granted == running \cup ended
  <1>1. /\ verdicts' = Append(verdicts, [fp |-> fp, passed |-> ~Breaker!Trips(fp)])
        /\ verdicts \in Seq([fp : Fingerprint, passed : BOOLEAN])
        /\ IsFiniteSet(granted) /\ Len(verdicts) = Cardinality(granted)
    BY DEF Breaker!Dispatch, ObservedInv, BusyIsNotObserved
  <1>2. [fp |-> fp, passed |-> ~Breaker!Trips(fp)] \in [fp : Fingerprint, passed : BOOLEAN]
    OBVIOUS
  <1>3. verdicts' \in Seq([fp : Fingerprint, passed : BOOLEAN])
        /\ Len(verdicts') = Len(verdicts) + 1
    <2> HIDE DEF granted
    <2>1. QED
      BY <1>1, <1>2
  <1>4. new \notin granted
    <2>1. new.sequence = next_sequence /\ next_sequence \in Nat
      BY DEF Lease, ObservedInv, FlightInv, TypeOK, FlightTypeOK
    <2>2. \A lease \in granted : lease.sequence < next_sequence
      BY DEF ObservedInv, FlightInv, TypeOK
    <2>3. QED
      <3> HIDE DEF new, granted
      <3>1. QED
        BY <2>1, <2>2
  <1>5. /\ IsFiniteSet(granted \cup {new})
        /\ Cardinality(granted \cup {new}) = Cardinality(granted) + 1
    <2> HIDE DEF new, granted
    <2>1. QED
      BY <1>1, <1>4, FS_AddElement
  <1>6. QED
    BY <1>1, <1>3, <1>5 DEF ObservedInv, BusyIsNotObserved

\* Every step keeps the two in number.
LEMMA ObservedStep == ObservedInv /\ [GatesNext]_gatesVars => ObservedInv'
  <1> SUFFICES ASSUME ObservedInv, [GatesNext]_gatesVars
               PROVE  ObservedInv'
    OBVIOUS
  <1>1. FlightInv'
    BY GatesFlightStep DEF ObservedInv
  <1>2. ASSUME NEW target \in Target, NEW id \in JobId, NEW fp \in Fingerprint,
               Enter(target, id, fp) \/ Trip(target, id, fp)
        PROVE  ObservedInv'
    <2>1. /\ running' \cup ended' = (running \cup ended) \cup {Lease(target, id)}
          /\ Breaker!Dispatch(fp)
      BY <1>2 DEF Enter, Begin, Trip
    <2>2. QED
      BY <1>1, <2>1, GrantObserved
  <1>3. ASSUME UNCHANGED <<verdicts, running \cup ended>>
        PROVE  ObservedInv'
    BY <1>1, <1>3 DEF ObservedInv, BusyIsNotObserved
  <1>4. ASSUME NEW target \in Target, TurnedAway(target)
        PROVE  ObservedInv'
    BY <1>3, <1>4 DEF TurnedAway, TurnAway
  <1>5. ASSUME NEW lease \in running, Leave(lease)
        PROVE  ObservedInv'
    <2>1. running' \cup ended' = running \cup ended
      BY <1>5 DEF Leave, End
    <2>2. QED
      BY <1>3, <1>5, <2>1 DEF Leave
  <1>6. ASSUME NEW lease \in ended, LeaveAgain(lease)
        PROVE  ObservedInv'
    BY <1>3, <1>6 DEF LeaveAgain, ReleaseAgain
  <1>7. CASE UNCHANGED gatesVars
    BY <1>3, <1>7 DEF gatesVars, vars
  <1>8. QED
    BY <1>2, <1>4, <1>5, <1>6, <1>7 DEF GatesNext

\* "A busy target pollutes neither rate slots, breaker window, nor budget"
\* (main.rs, handle_request): the breaker has observed one dispatch for each
\* target taken, and nothing of those turned away.
THEOREM BusyGoesUnobserved == GatesSpec => []BusyIsNotObserved
  <1>1. GatesInit => ObservedInv
    <2> SUFFICES ASSUME GatesInit
                 PROVE  ObservedInv
      OBVIOUS
    <2>1. FlightInv /\ running \cup ended = {} /\ verdicts = <<>>
      BY FlightInvInit DEF GatesInit, Init, Breaker!Init
    <2>2. QED
      BY <2>1, FS_EmptySet DEF ObservedInv, BusyIsNotObserved
  <1>2. ObservedInv => BusyIsNotObserved
    BY DEF ObservedInv
  <1>3. QED
    BY <1>1, <1>2, ObservedStep, PTL DEF GatesSpec

-----------------------------------------------------------------------------
(* The breaker.  Its window is the tail of the history, so the occurrences *)
(* it counts are the observations it means to count; the last job of a     *)
(* run that passed bounds all those of the run before it.                  *)

\* The first of the window of observations that ends with the l-th.
From(l) == IF l > Breaker!window THEN l - Breaker!window + 1 ELSE 1

\* The observations of fp from the k-th to the l-th of the history v.
Alike(v, fp, k, l) == {i \in k .. l : v[i].fp = fp}

\* The window s shows the observations from the k-th to the l-th of v.
Shows(s, v, k, l) ==
    /\ k \in Nat /\ l \in Nat /\ k >= 1
    /\ DOMAIN s = 1 .. (l - k) + 1
    /\ \A i \in DOMAIN s : s[i] = v[(k - 1) + i].fp

\* The entries of the window s with fingerprint fp.
Repeats(fp, s) == {i \in DOMAIN s : s[i] = fp}

\* The window holds the last observations, and each verdict is the count.
WindowInv ==
    /\ verdicts \in Seq([fp : Fingerprint, passed : BOOLEAN])
    /\ seen \in Seq(Fingerprint)
    /\ Len(seen) = IF Len(verdicts) > Breaker!window THEN Breaker!window ELSE Len(verdicts)
    /\ \A i \in 1 .. Len(seen) : seen[i] = verdicts[Len(verdicts) - Len(seen) + i].fp
    /\ \A l \in 1 .. Len(verdicts) :
           verdicts[l].passed <=>
               Cardinality(Alike(verdicts, verdicts[l].fp, From(l), l)) < Breaker!trip_threshold

\* The window is one or more, and the threshold one to the window.
LEMMA Clamped ==
    /\ Breaker!window \in Nat /\ Breaker!window >= 1
    /\ Breaker!trip_threshold \in Nat /\ Breaker!trip_threshold >= 1
  BY DispatchGatesAssumption DEF Breaker!window, Breaker!trip_threshold

\* The breaker's Cardinality is the one the theorems are about.
LEMMA SameCardinality == \A S : Breaker!Cardinality(S) = Cardinality(S)
  BY DEF Breaker!Cardinality, Cardinality

\* The observations of a fingerprint in an interval are finitely many.
LEMMA AlikeFinite ==
    ASSUME NEW v, NEW fp, NEW k \in Int, NEW l \in Int
    PROVE  /\ IsFiniteSet(Alike(v, fp, k, l))
           /\ Cardinality(Alike(v, fp, k, l)) \in Nat
  <1>1. IsFiniteSet(k .. l) /\ Alike(v, fp, k, l) \in SUBSET (k .. l)
    BY FS_Interval DEF Alike
  <1>2. IsFiniteSet(Alike(v, fp, k, l))
    <2> HIDE DEF Alike
    <2>1. QED
      BY <1>1, FS_Subset
  <1>3. QED
    BY <1>2, FS_CardinalityType

\* A fingerprint is counted the same in the window as in the history it ends.
LEMMA ShiftedCount ==
    ASSUME NEW s, NEW v, NEW fp, NEW k, NEW l, Shows(s, v, k, l)
    PROVE  Cardinality(Repeats(fp, s)) = Cardinality(Alike(v, fp, k, l))
  <1> DEFINE n == (l - k) + 1
             d == k - 1
             A == {i \in 1 .. n : s[i] = fp}
             B == Alike(v, fp, k, l)
             shift == [i \in A |-> d + i]
  <1>0. /\ k \in Nat /\ l \in Nat /\ n \in Int /\ d \in Nat /\ k = d + 1 /\ l = d + n
        /\ DOMAIN s = 1 .. n /\ \A i \in 1 .. n : s[i] = v[d + i].fp
    BY DEF Shows
  <1>1. Repeats(fp, s) = A
    BY <1>0 DEF Repeats
  <1> HIDE DEF n, d
  <1>2. IsFiniteSet(A)
    <2>1. IsFiniteSet(1 .. n) /\ A \in SUBSET (1 .. n)
      BY <1>0, FS_Interval
    <2>2. QED
      <3> HIDE DEF A
      <3>1. QED
        BY <2>1, FS_Subset
  <1>3. \A i \in A : d + i \in B
    BY <1>0 DEF Alike
  <1>4. \A j \in B : j - d \in A /\ d + (j - d) = j
    BY <1>0 DEF Alike
  <1>5. \A i, j \in A : d + i = d + j => i = j
    BY <1>0
  <1>6. shift \in [A -> B]
    <2> HIDE DEF A, B
    <2>1. QED
      BY <1>3
  <1>7. \A i, j \in A : shift[i] = shift[j] => i = j
    <2>1. \A i \in A : shift[i] = d + i
      OBVIOUS
    <2>2. QED
      BY <1>5, <2>1
  <1>8. \A j \in B : \E i \in A : shift[i] = j
    <2> HIDE DEF A, B
    <2>1. QED
      BY <1>4
  <1>9. shift \in Bijection(A, B)
    <2> HIDE DEF A, B, shift
    <2>1. shift \in Injection(A, B)
      BY <1>6, <1>7 DEF Injection, IsInjective
    <2>2. QED
      BY <1>6, <1>8, <2>1 DEF Bijection, Surjection
  <1>10. ExistsBijection(A, B)
    BY <1>9 DEF ExistsBijection
  <1>11. QED
    BY <1>1, <1>2, <1>10, FS_Bijection

\* A job that is observed enters the window and is counted with it.
LEMMA WindowKeeps ==
    ASSUME WindowInv, NEW fp \in Fingerprint, Breaker!Dispatch(fp)
    PROVE  WindowInv'
  <1> DEFINE n == Len(verdicts)
             w == Breaker!window
             pushed == Append(seen, fp)
             verdict == [fp |-> fp, passed |-> ~Breaker!Trips(fp)]
  <1>1. /\ seen' = Breaker!Observed(fp)
        /\ verdicts' = Append(verdicts, verdict)
    BY DEF Breaker!Dispatch, Breaker!Observe
  <1>2. /\ n \in Nat /\ w \in Nat /\ w >= 1
        /\ verdict \in [fp : Fingerprint, passed : BOOLEAN]
        /\ verdicts \in Seq([fp : Fingerprint, passed : BOOLEAN])
    BY Clamped DEF WindowInv
  <1>3. /\ verdicts' \in Seq([fp : Fingerprint, passed : BOOLEAN])
        /\ Len(verdicts') = n + 1
        /\ \A i \in 1 .. n : verdicts'[i] = verdicts[i]
        /\ verdicts'[n + 1] = verdict
    <2> HIDE DEF verdict
    <2>1. QED
      BY <1>1, <1>2, AppendProperties
  <1>4. /\ seen \in Seq(Fingerprint)
        /\ Len(seen) = IF n > w THEN w ELSE n
        /\ \A i \in 1 .. Len(seen) : seen[i] = verdicts[n - Len(seen) + i].fp
    BY DEF WindowInv
  <1>5. /\ pushed \in Seq(Fingerprint) /\ pushed # <<>>
        /\ Len(pushed) = Len(seen) + 1
        /\ \A i \in 1 .. Len(seen) : pushed[i] = seen[i]
        /\ pushed[Len(seen) + 1] = fp
    BY <1>4, AppendProperties
  <1>6. \A i \in 1 .. Len(pushed) : pushed[i] = verdicts'[n - Len(seen) + i].fp
    <2> SUFFICES ASSUME NEW i \in 1 .. Len(pushed)
                 PROVE  pushed[i] = verdicts'[n - Len(seen) + i].fp
      OBVIOUS
    <2> HIDE DEF pushed, n, w
    <2>1. CASE i = Len(seen) + 1
      <3>1. n - Len(seen) + i = n + 1
        BY <1>2, <1>4, <2>1
      <3>2. QED
        BY <1>3, <1>5, <2>1, <3>1
    <2>2. CASE i # Len(seen) + 1
      <3>1. i \in 1 .. Len(seen) /\ n - Len(seen) + i \in 1 .. n
        BY <1>2, <1>4, <1>5, <2>2
      <3>2. QED
        BY <1>3, <1>4, <1>5, <3>1
    <2>3. QED
      BY <2>1, <2>2
  <1>7. /\ seen' \in Seq(Fingerprint)
        /\ Len(seen') = IF n + 1 > w THEN w ELSE n + 1
        /\ \A i \in 1 .. Len(seen') : seen'[i] = verdicts'[(n + 1) - Len(seen') + i].fp
    <2>1. seen' = IF Len(pushed) > w THEN Tail(pushed) ELSE pushed
      BY <1>1 DEF Breaker!Observed
    <2> HIDE DEF pushed, n, w
    <2>2. CASE Len(pushed) > w
      <3>1. /\ seen' \in Seq(Fingerprint) /\ Len(seen') = Len(pushed) - 1
            /\ \A i \in 1 .. Len(seen') : seen'[i] = pushed[i + 1]
        BY <1>5, <2>1, <2>2, HeadTailProperties
      <3>2. /\ Len(seen') = Len(seen) /\ Len(seen) = w /\ n + 1 > w
            /\ Len(seen) \in Nat
        BY <1>2, <1>4, <1>5, <2>2, <3>1
      <3>3. ASSUME NEW i \in 1 .. Len(seen')
            PROVE  seen'[i] = verdicts'[(n + 1) - Len(seen') + i].fp
        <4>1. /\ i + 1 \in 1 .. Len(pushed)
              /\ n - Len(seen) + (i + 1) = (n + 1) - Len(seen') + i
          BY <1>2, <1>5, <3>2
        <4>2. QED
          BY <1>6, <3>1, <4>1
      <3>4. QED
        BY <3>1, <3>2, <3>3
    <2>3. CASE ~(Len(pushed) > w)
      <3>1. seen' = pushed /\ Len(seen) = n /\ ~(n + 1 > w) /\ Len(seen') = n + 1
        BY <1>2, <1>4, <1>5, <2>1, <2>3
      <3>2. \A i \in 1 .. Len(seen') : (n + 1) - Len(seen') + i = n - Len(seen) + i
        BY <1>2, <3>1
      <3>3. QED
        BY <1>5, <1>6, <3>1, <3>2
    <2>4. QED
      BY <2>2, <2>3
  <1>8. ASSUME NEW l \in 1 .. n, NEW f
        PROVE  Alike(verdicts', f, From(l), l) = Alike(verdicts, f, From(l), l)
    <2>1. From(l) \in Nat /\ From(l) >= 1
      BY <1>2 DEF From
    <2>2. \A i \in From(l) .. l : i \in 1 .. n
      BY <1>2, <2>1
    <2>3. QED
      BY <1>3, <2>2 DEF Alike
  <1>9. verdict.passed <=>
            Cardinality(Alike(verdicts', fp, From(n + 1), n + 1)) < Breaker!trip_threshold
    <2> DEFINE d == (n + 1) - Len(seen')
               m == Len(seen')
    <2>1. d \in Nat /\ m \in Nat /\ d + 1 = From(n + 1) /\ d + m = n + 1
      BY <1>2, <1>7 DEF From
    <2>2. DOMAIN seen' = 1 .. m
      BY <1>7
    <2>3. \A i \in 1 .. m : seen'[i] = verdicts'[d + i].fp
      BY <1>7
    <2>4. From(n + 1) \in Nat /\ n + 1 \in Nat
      BY <1>2 DEF From
    <2>5. Cardinality(Repeats(fp, seen'))
              = Cardinality(Alike(verdicts', fp, From(n + 1), n + 1))
      <3> DEFINE k == From(n + 1)
                 l == n + 1
      <3>1. k \in Nat /\ l \in Nat /\ k >= 1 /\ k - 1 = d /\ (l - k) + 1 = m
        BY <2>1, <2>4
      <3> HIDE DEF k, l, d, m
      <3>2. Shows(seen', verdicts', k, l)
        BY <2>2, <2>3, <3>1 DEF Shows
      <3>3. Cardinality(Repeats(fp, seen')) = Cardinality(Alike(verdicts', fp, k, l))
        BY <3>2, ShiftedCount
      <3>4. QED
        BY <3>3 DEF k, l
    <2>6. verdict.passed <=> ~(Cardinality(Repeats(fp, seen')) >= Breaker!trip_threshold)
      BY <1>1, SameCardinality DEF Breaker!Trips, Breaker!Occurrences, Repeats
    <2>7. Cardinality(Alike(verdicts', fp, From(n + 1), n + 1)) \in Nat
      <3>1. From(n + 1) \in Int /\ n + 1 \in Int
        BY <1>2 DEF From
      <3>2. QED
        BY <3>1, AlikeFinite
    <2>8. QED
      <3> HIDE DEF verdict, n
      <3> DEFINE c == Cardinality(Alike(verdicts', fp, From(n + 1), n + 1))
      <3>1. verdict.passed <=> ~(c >= Breaker!trip_threshold)
        BY <2>5, <2>6
      <3>2. c \in Nat
        BY <2>7
      <3> HIDE DEF c
      <3>3. verdict.passed <=> c < Breaker!trip_threshold
        BY <3>1, <3>2, Clamped
      <3>4. QED
        BY <3>3 DEF c
  <1>10. ASSUME NEW l \in 1 .. Len(verdicts')
         PROVE  verdicts'[l].passed <=>
                    Cardinality(Alike(verdicts', verdicts'[l].fp, From(l), l))
                        < Breaker!trip_threshold
    <2>1. CASE l = n + 1
      <3>1. verdicts'[l] = verdict /\ verdict.fp = fp
        BY <1>3, <2>1
      <3>2. QED
        <4> HIDE DEF verdict, n
        <4>1. QED
          BY <1>9, <2>1, <3>1
    <2>2. CASE l # n + 1
      <3>1. l \in 1 .. n
        BY <1>2, <1>3, <2>2
      <3>2. verdicts'[l] = verdicts[l]
        BY <1>3, <3>1
      <3>3. verdicts[l].passed <=>
                Cardinality(Alike(verdicts, verdicts[l].fp, From(l), l))
                    < Breaker!trip_threshold
        BY <3>1 DEF WindowInv
      <3>4. QED
        BY <1>8, <3>1, <3>2, <3>3
    <2>3. QED
      BY <2>1, <2>2
  <1>11. QED
    BY <1>3, <1>7, <1>10 DEF WindowInv, From, Alike, Breaker!window, Breaker!trip_threshold

\* Every step keeps the window the tail of the history.
LEMMA WindowStep == WindowInv /\ [GatesNext]_gatesVars => WindowInv'
  <1> SUFFICES ASSUME WindowInv, [GatesNext]_gatesVars
               PROVE  WindowInv'
    OBVIOUS
  <1>1. ASSUME UNCHANGED <<seen, verdicts>>
        PROVE  WindowInv'
    <2>1. seen' = seen /\ verdicts' = verdicts
      BY <1>1
    <2>2. QED
      BY <2>1 DEF WindowInv, From, Alike, Breaker!window, Breaker!trip_threshold
  <1>2. ASSUME NEW fp \in Fingerprint, Breaker!Dispatch(fp)
        PROVE  WindowInv'
    BY <1>2, WindowKeeps
  <1>3. QED
    BY <1>1, <1>2
       DEF GatesNext, gatesVars, TurnedAway, Enter, Trip, Leave, LeaveAgain

\* A set of positions that is not empty has a last one.
LEMMA LastOf ==
    ASSUME NEW l \in Nat, NEW P, P \subseteq 1 .. l, P # {}
    PROVE  \E m \in P : \A i \in P : i <= m
  <1> DEFINE T == {j \in Nat : l - j \in P}
  <1>1. PICK i \in P : TRUE
    OBVIOUS
  <1>2. i \in 1 .. l /\ l - i \in T
    <2>1. i \in 1 .. l
      BY <1>1
    <2>2. l - i \in Nat /\ l - (l - i) = i
      BY <2>1
    <2>3. QED
      BY <1>1, <2>1, <2>2
  <1>3. PICK j \in T : \A h \in T : ~(<<h, j>> \in OpToRel(<, Nat))
    <2>1. T \subseteq Nat /\ T # {}
      BY <1>2
    <2> HIDE DEF T
    <2>2. QED
      BY <2>1, NatLessThanWellFounded, WFMin, Zenon
  <1>4. j \in Nat /\ l - j \in P
    BY <1>3
  <1>5. \A h \in T : ~(h < j)
    BY <1>3 DEF OpToRel
  <1>6. ASSUME NEW h \in P
        PROVE  h <= l - j
    <2>1. h \in 1 .. l
      BY <1>6
    <2>2. l - h \in Nat /\ l - (l - h) = h
      BY <2>1
    <2>3. l - h \in T
      BY <1>6, <2>2
    <2>4. ~(l - h < j)
      BY <1>5, <2>3
    <2>5. QED
      BY <1>4, <2>1, <2>4
  <1>7. QED
    BY <1>4, <1>6

\* The last that passes of a run no longer than the window bounds those before it.
LEMMA RunBounded ==
    ASSUME WindowInv, NEW fp \in Fingerprint, NEW k \in 1 .. Len(verdicts),
           NEW l \in Nat, l <= Len(verdicts), l <= (k + Breaker!window) - 1
    PROVE  Cardinality({i \in Alike(verdicts, fp, k, l) : verdicts[i].passed})
               < Breaker!trip_threshold
  <1> DEFINE P == {i \in Alike(verdicts, fp, k, l) : verdicts[i].passed}
             w == Breaker!window
  <1>1. Len(verdicts) \in Nat
    BY DEF WindowInv
  <1>2. P \subseteq 1 .. l /\ \A i \in P : verdicts[i].fp = fp /\ verdicts[i].passed
    BY <1>1 DEF Alike
  <1>3. CASE P = {}
    <2> HIDE DEF P
    <2>1. Cardinality(P) = 0
      BY <1>3, FS_EmptySet
    <2>2. QED
      BY <2>1, Clamped DEF P
  <1>4. CASE P # {}
    <2>1. PICK m \in P : \A i \in P : i <= m
      <3> HIDE DEF P
      <3>1. QED
        BY <1>2, <1>4, LastOf
    <2>2. m \in 1 .. Len(verdicts) /\ m <= l
      BY <1>1, <1>2
    <2>3. From(m) \in Nat /\ From(m) <= k
      BY <1>1, <2>2, Clamped DEF From
    <2>4. P \subseteq Alike(verdicts, fp, From(m), m)
      <3> SUFFICES ASSUME NEW i \in P
                   PROVE  i \in Alike(verdicts, fp, From(m), m)
        OBVIOUS
      <3>1. i \in k .. l /\ verdicts[i].fp = fp /\ i <= m
        BY <2>1 DEF Alike
      <3>2. i \in From(m) .. m
        BY <1>1, <2>2, <2>3, <3>1
      <3>3. QED
        BY <3>1, <3>2 DEF Alike
    <2>5. Cardinality(Alike(verdicts, fp, From(m), m)) < Breaker!trip_threshold
      <3>1. verdicts[m].passed /\ verdicts[m].fp = fp
        BY <1>2
      <3>2. QED
        BY <2>2, <3>1 DEF WindowInv
    <2>6. /\ IsFiniteSet(Alike(verdicts, fp, From(m), m))
          /\ Cardinality(Alike(verdicts, fp, From(m), m)) \in Nat
      <3>1. From(m) \in Int /\ m \in Int
        BY <2>2, <2>3
      <3>2. QED
        BY <3>1, AlikeFinite
    <2>7. /\ IsFiniteSet(P) /\ Cardinality(P) \in Nat
          /\ Cardinality(P) <= Cardinality(Alike(verdicts, fp, From(m), m))
      <3> HIDE DEF P
      <3>1. QED
        BY <2>4, <2>6, FS_Subset, FS_CardinalityType
    <2>8. QED
      <3> DEFINE c == Cardinality(P)
                 a == Cardinality(Alike(verdicts, fp, From(m), m))
      <3>1. c \in Nat /\ a \in Nat /\ c <= a /\ a < Breaker!trip_threshold
        BY <2>5, <2>6, <2>7
      <3> HIDE DEF c, a
      <3>2. c < Breaker!trip_threshold
        BY <3>1, Clamped
      <3>3. QED
        BY <3>2 DEF c
  <1>5. QED
    BY <1>3, <1>4

\* What the window counts is what the breaker promises of the whole history.
LEMMA ExactFromWindow == WindowInv => BreakerCountsExactly
  <1> SUFFICES ASSUME WindowInv
               PROVE  BreakerCountsExactly
    OBVIOUS
  <1> DEFINE n == Len(verdicts)
             w == Breaker!window
  <1>1. n \in Nat /\ DOMAIN verdicts = 1 .. n
    BY DEF WindowInv
  <1>2. \A fp, k, l : Breaker!Between(fp, k, l) = Alike(verdicts, fp, k, l)
    BY DEF Breaker!Between, Alike
  <1>3. ASSUME NEW fp \in Fingerprint, NEW k \in DOMAIN verdicts
        PROVE  LET l == IF k + w - 1 > n THEN n ELSE k + w - 1
               IN  Cardinality({i \in Breaker!Between(fp, k, l) : verdicts[i].passed})
                       < Breaker!trip_threshold
    <2> DEFINE l == IF k + w - 1 > n THEN n ELSE k + w - 1
    <2>1. l \in Nat /\ l <= n /\ l <= (k + w) - 1 /\ k \in 1 .. n
      BY <1>1, Clamped
    <2>2. Cardinality({i \in Alike(verdicts, fp, k, l) : verdicts[i].passed})
              < Breaker!trip_threshold
      <3> HIDE DEF l
      <3>1. QED
        BY <2>1, RunBounded
    <2>3. QED
      BY <1>2, <2>2
  <1>4. ASSUME NEW l \in DOMAIN verdicts, ~verdicts[l].passed
        PROVE  Cardinality(Breaker!Between(verdicts[l].fp, From(l), l))
                   >= Breaker!trip_threshold
    <2> DEFINE c == Cardinality(Alike(verdicts, verdicts[l].fp, From(l), l))
    <2>1. ~(c < Breaker!trip_threshold)
      BY <1>1, <1>4 DEF WindowInv
    <2>2. c \in Nat
      <3>1. From(l) \in Int /\ l \in Int
        BY <1>1, Clamped DEF From
      <3>2. QED
        BY <3>1, AlikeFinite
    <2>3. c >= Breaker!trip_threshold
      <3> HIDE DEF c
      <3>1. QED
        BY <2>1, <2>2, Clamped
    <2>4. QED
      BY <1>2, <2>3
  <1>5. Breaker!PassesBounded
    BY <1>3, SameCardinality DEF Breaker!PassesBounded
  <1>6. Breaker!OnlyLoopsTrip
    BY <1>4, SameCardinality DEF Breaker!OnlyLoopsTrip, From
  <1>7. QED
    BY <1>5, <1>6 DEF BreakerCountsExactly, Breaker!BreakerCountsExactly

\* The breaker stops a runaway loop neither too late nor too early, however
\* the dispatches overlap: in any window's length of observations fewer than
\* the threshold of one fingerprint pass, and one that trips is the
\* threshold-th or later of its own (LoopGuard::observe).
THEOREM BreakerExact == GatesSpec => []BreakerCountsExactly
  <1>1. GatesInit => WindowInv
    <2> SUFFICES ASSUME GatesInit
                 PROVE  WindowInv
      OBVIOUS
    <2>1. seen = <<>> /\ verdicts = <<>>
      BY DEF GatesInit, Breaker!Init
    <2>2. Breaker!window \in Nat
      BY Clamped
    <2>3. QED
      BY <2>1, <2>2 DEF WindowInv
  <1>2. QED
    BY <1>1, WindowStep, ExactFromWindow, PTL DEF GatesSpec
=============================================================================
