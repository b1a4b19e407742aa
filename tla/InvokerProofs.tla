--------------------------- MODULE InvokerProofs ---------------------------
(***************************************************************************)
(* Proofs about Invoker, for any limits, for a kernel that may or may not  *)
(* fork, a job of any size and pipes of any size.                          *)
(*                                                                         *)
(* The argument: invoke() answers with a kernel that still runs only where *)
(* it gave up on it, because the wait loop is left towards the join only   *)
(* once the kernel has ended (EndedAtJoin).  A pump runs from the start of *)
(* the loop on (PumpsRun), and one that ended although nothing failed had  *)
(* read all there was and left nobody who could print more (EndedAtEnd).   *)
(* `activity` is behind the last output only while there is output on its  *)
(* way to it (ActivityKeepsUp).                                            *)
(***************************************************************************)
EXTENDS Invoker, TLAPS

\* The wait loop is left towards the join only when the kernel has ended.
EndedAtJoin == pc = "join" => child # "running"

\* The pumps of the piped streams are started where the wait loop begins.
Before == {"acquire", "prepare", "spawn", "feed"}
PumpsRun ==
    /\ pc \in Before => pump = [s \in Stream |-> "off"]
    /\ pc \notin Before \cup {"done"} => \A s \in Piped : pump[s] # "off"

\* A pump that ended by end-of-file has passed everything on, and for good.
EndedAtEnd == \A s \in Stream : pump[s] = "ended" => faulty[s] \/ (unread[s] = 0 /\ ~Held)

\* The activity is as recent as the last output unless a pump has not noted it.
ActivityKeepsUp == quiet <= still \/ \E s \in Piped : Unseen(s)

InvokerInv ==
    TypeOK /\ EndedAtJoin /\ LeavesNothingBehind /\ PumpsRun /\ EndedAtEnd /\ ActivityKeepsUp

-----------------------------------------------------------------------------
(* What the helpers do.                                                    *)

\* A clock that is stopped at its bound stays within it, and in step with others.
LEMMA UpToFacts ==
    ASSUME NEW bound \in Nat, NEW m \in Nat, NEW n \in Nat
    PROVE  /\ UpTo(bound, n) \in 0 .. bound
           /\ m <= n => UpTo(bound, m + 1) <= UpTo(bound, n + 1)
  BY DEF UpTo

\* A return with a proper outcome leaves no directory unaccounted for.
LEMMA ReturnFacts ==
    ASSUME TypeOK, NEW outcome \in {"Delivered", "Failed", "TimedOut", "IdleTimedOut"},
           Return(outcome)
    PROVE  /\ pc' = "done" /\ result' = outcome
           /\ workspace' \in {"none", "removed", "residue"}
  BY DEF TypeOK, Return, DropWorkspace

\* A kill leaves no running kernel, and one that had ended as it was.
LEMMA KillFacts ==
    ASSUME TypeOK, NEW outcome \in {"TimedOut", "IdleTimedOut"}, Kill(outcome)
    PROVE  /\ child' # "running" /\ child' \in {"none", "ok", "err", "killed"}
           /\ pc' = "done" /\ result' = outcome
           /\ workspace' \in {"none", "removed", "residue"}
  <1>1. Return(outcome)
    BY DEF Kill
  <1>2. QED
    BY <1>1, ReturnFacts DEF Kill, TypeOK

-----------------------------------------------------------------------------
(* The inductive invariant.                                                *)

\* Nothing has been started.
LEMMA InvokerInit == Init => InvokerInv
  <1> SUFFICES ASSUME Init
               PROVE  InvokerInv
    OBVIOUS
  <1>1. TypeOK
    <2>1. 0 \in 0 .. MaxTime /\ 0 \in 0 .. PipeSize
      BY InvokerAssumption
    <2>2. fed \in BOOLEAN /\ helper \in BOOLEAN
      BY InvokerAssumption, Zenon DEF Init
    <2>3. unread \in [Stream -> 0 .. PipeSize] /\ faulty \in [Stream -> BOOLEAN]
      BY <2>1 DEF Init
    <2>4. pump \in [Stream -> {"off", "reading", "noting", "relaying", "ended"}]
      BY DEF Init
    <2>5. QED
      BY <2>1, <2>2, <2>3, <2>4, Zenon DEF Init, TypeOK
  <1>2. PumpsRun
    BY DEF Init, PumpsRun, Before
  <1>3. EndedAtEnd
    BY DEF Init, EndedAtEnd
  <1>4. ActivityKeepsUp
    BY DEF Init, ActivityKeepsUp
  <1>5. QED
    BY <1>1, <1>2, <1>3, <1>4 DEF Init, InvokerInv, EndedAtJoin, LeavesNothingBehind

\* Every step of invoke() keeps it: it starts the pumps, and otherwise leaves
\* them and the clocks alone.
LEMMA InvokerStepKeeps == InvokerInv /\ InvokerStep => InvokerInv'
  <1> SUFFICES ASSUME InvokerInv, InvokerStep
               PROVE  InvokerInv'
    OBVIOUS
  <1> USE InvokerAssumption DEF InvokerInv, TypeOK, EndedAtJoin, LeavesNothingBehind, PumpsRun, Before, EndedAtEnd,
          ActivityKeepsUp, Unseen, Held, Goes, pumpVars, clocks
  <1>1. CASE StartFails
    BY <1>1, ReturnFacts DEF StartFails
  <1>2. CASE Acquire
    BY <1>2 DEF Acquire
  <1>3. CASE Prepare
    BY <1>3 DEF Prepare
  <1>4. CASE Spawn
    BY <1>4 DEF Spawn
  <1>5. CASE Feed
    <2>1. \A s \in Stream : pump[s] = "off" /\ pump'[s] \in {"off", "reading"} /\ (s \in Piped => pump'[s] = "reading")
      BY <1>5 DEF Feed
    <2>2. pump' \in [Stream -> {"off", "reading", "noting", "relaying", "ended"}]
      BY <1>5 DEF Feed
    <2>3. ActivityKeepsUp'
      BY <1>5, <2>1 DEF Feed, Piped
    <2>4. TypeOK'
      BY <1>5, <2>2 DEF Feed
    <2>5. EndedAtEnd' /\ PumpsRun'
      BY <1>5, <2>1, Zenon DEF Feed, Piped
    <2>6. EndedAtJoin' /\ LeavesNothingBehind'
      BY <1>5 DEF Feed
    <2>7. QED
      BY <2>3, <2>4, <2>5, <2>6
  <1>6. CASE Reap
    BY <1>6 DEF Reap
  <1>7. CASE WaitFails
    BY <1>7, ReturnFacts DEF WaitFails
  <1>8. CASE StillRunning
    BY <1>8 DEF StillRunning
  <1>9. CASE FindLate \/ NotLate
    BY <1>9 DEF FindLate, NotLate
  <1>10. CASE FindSilent \/ PollAgain
    BY <1>10 DEF FindSilent, PollAgain
  <1>11. CASE StopLate
    BY <1>11, KillFacts DEF StopLate
  <1>12. CASE StopSilent
    BY <1>12, KillFacts DEF StopSilent
  <1>13. CASE Finish
    <2>1. child # "running"
      BY <1>13 DEF Finish
    <2>2. CASE child = "ok"
      BY <1>13, <2>1, <2>2, ReturnFacts DEF Finish
    <2>3. CASE child # "ok"
      BY <1>13, <2>1, <2>3, ReturnFacts DEF Finish
    <2>4. QED
      BY <2>2, <2>3
  <1>14. QED
    BY <1>1, <1>2, <1>3, <1>4, <1>5, <1>6, <1>7, <1>8, <1>9, <1>10, <1>11, <1>12, <1>13
       DEF InvokerStep

\* So does every step of a pump: output leaves the pipe as it is about to be
\* noted, and a pump that ends has seen the end or is faulty.
LEMMA PumpKeeps ==
    ASSUME InvokerInv, NEW s \in Stream, PumpStep(s) \/ RelayStep(s) \/ PumpBreaks(s)
    PROVE  InvokerInv'
  <1> USE InvokerAssumption DEF InvokerInv, TypeOK, EndedAtJoin, LeavesNothingBehind, PumpsRun, Before, EndedAtEnd,
          ActivityKeepsUp, Unseen, Held, Turns
  <1>1. CASE PumpReads(s)
    BY <1>1 DEF PumpReads
  <1>2. CASE PumpNotes(s)
    BY <1>2 DEF PumpNotes
  <1>3. CASE PumpRelays(s)
    BY <1>3 DEF PumpRelays
  <1>4. CASE RelayFails(s)
    BY <1>4 DEF RelayFails
  <1>5. CASE PumpEnds(s)
    BY <1>5 DEF PumpEnds, AtEnd
  <1>6. CASE PumpBreaks(s)
    BY <1>6 DEF PumpBreaks
  <1>7. QED
    BY <1>1, <1>2, <1>3, <1>4, <1>5, <1>6 DEF PumpStep, RelayStep

\* And every step of the kernel and its helper, and time.
LEMMA WorldStepKeeps == InvokerInv /\ (KernelStep \/ Tick) => InvokerInv'
  <1> SUFFICES ASSUME InvokerInv, KernelStep \/ Tick
               PROVE  InvokerInv'
    OBVIOUS
  <1> USE InvokerAssumption DEF InvokerInv, TypeOK, EndedAtJoin, LeavesNothingBehind, PumpsRun, EndedAtEnd,
          ActivityKeepsUp, Unseen, Held, pumpVars, clocks
  <1>1. CASE ReadStdin
    BY <1>1 DEF ReadStdin
  <1>2. ASSUME NEW s \in Stream, Output(s)
        PROVE  InvokerInv'
    BY <1>2 DEF Output
  <1>3. CASE Fork
    BY <1>3 DEF Fork
  <1>4. CASE HelperEnds
    <2>1. EndedAtEnd'
      BY <1>4, Zenon DEF HelperEnds
    <2>2. TypeOK'
      BY <1>4, Zenon DEF HelperEnds
    <2>3. EndedAtJoin' /\ LeavesNothingBehind' /\ PumpsRun' /\ ActivityKeepsUp'
      BY <1>4, Zenon DEF HelperEnds
    <2>4. QED
      BY <2>1, <2>2, <2>3
  <1>5. ASSUME NEW status \in {"ok", "err"}, KernelEnds(status)
        PROVE  InvokerInv'
    BY <1>5 DEF KernelEnds
  <1>6. CASE Tick
    <2>1. elapsed \in Nat /\ quiet \in Nat /\ still \in Nat
      OBVIOUS
    <2>2. elapsed' \in 0 .. MaxTime /\ quiet' \in 0 .. MaxTime /\ still' \in 0 .. MaxTime
      BY <1>6, <2>1, UpToFacts DEF Tick
    <2>3. quiet <= still => quiet' <= still'
      BY <1>6, <2>1, UpToFacts DEF Tick
    <2>4. TypeOK' /\ EndedAtJoin' /\ LeavesNothingBehind' /\ PumpsRun' /\ EndedAtEnd'
      BY <1>6, <2>2 DEF Tick
    <2>5. (\E s \in Piped : Unseen(s)) => (\E s \in Piped : Unseen(s))'
      BY <1>6 DEF Tick
    <2>6. ActivityKeepsUp'
      BY <2>3, <2>5
    <2>7. QED
      BY <2>4, <2>6
  <1>7. QED
    BY <1>1, <1>2, <1>3, <1>4, <1>5, <1>6 DEF KernelStep

\* The strengthened invariant holds of every reachable state.
LEMMA InvokerInvHolds == Spec => []InvokerInv
  <1>1. InvokerInv /\ UNCHANGED vars => InvokerInv'
    BY DEF vars, InvokerInv, TypeOK, EndedAtJoin, LeavesNothingBehind, PumpsRun, EndedAtEnd, ActivityKeepsUp,
           Unseen, Held
  <1>2. InvokerInv /\ [Next]_vars => InvokerInv'
    BY <1>1, InvokerStepKeeps, PumpKeeps, WorldStepKeeps DEF Next
  <1>3. QED
    BY <1>2, InvokerInit, PTL DEF Spec

-----------------------------------------------------------------------------
(* The theorems.                                                           *)

\* The phases of invoke() (main.rs) and what they own keep their types; it
\* has answered exactly when it is done.
THEOREM TypeCorrect == Spec => []TypeOK
  BY InvokerInvHolds, PTL DEF InvokerInv

\* "Zero residue" (main.rs, SubprocessInvoker::invoke): on every return path
\* the directory is gone or reported, and a kernel that still runs was
\* answered as a failure.
THEOREM NothingLeftBehind == Spec => []LeavesNothingBehind
  BY InvokerInvHolds, PTL DEF InvokerInv

\* An answer by the exit status comes after all output of both streams, the
\* helper's included, was relayed, save a stream that could not be read or
\* relayed (main.rs, the pump threads and their join).
THEOREM DeliveryIsComplete == Spec => DeliveredInFull
  <1> DEFINE A == pc = "join" /\ pc' = "done" =>
                      \A s \in Piped : faulty[s] \/ (unread[s] = 0 /\ pump[s] = "ended" /\ ~Held)
  <1>1. InvokerInv /\ [Next]_vars => A
    <2> SUFFICES ASSUME InvokerInv, [Next]_vars, pc = "join", pc' = "done", NEW s \in Piped
                 PROVE  faulty[s] \/ (unread[s] = 0 /\ pump[s] = "ended" /\ ~Held)
      OBVIOUS
    <2>1. s \in Stream /\ pump[s] # "off"
      BY DEF InvokerInv, PumpsRun, Before, Piped
    <2>2. Finish
      BY DEF Next, InvokerStep, KernelStep, StartFails, Acquire, Prepare, Spawn, Feed, Reap, WaitFails, StillRunning,
             FindLate, NotLate, FindSilent, PollAgain, StopLate, StopSilent, Goes, PumpStep, RelayStep, PumpReads,
             PumpNotes, PumpEnds, PumpRelays, RelayFails, PumpBreaks, Turns, ReadStdin, Output, Fork, HelperEnds,
             KernelEnds, Tick, vars
    <2>3. pump[s] = "ended"
      BY <2>1, <2>2 DEF Finish
    <2>4. QED
      BY <2>1, <2>3 DEF InvokerInv, EndedAtEnd
  <1>2. QED
    BY <1>1, InvokerInvHolds, PTL DEF Spec, DeliveredInFull

\* invoke() finds a kernel silent only when nothing was printed for the idle
\* time, but for output a pump has not noted yet (main.rs, the activity the
\* pumps refresh and the wait loop reads).
THEOREM StoppedOnlyWhenSilent == Spec => OnlySilenceIsStopped
  <1> DEFINE A == pc = "look" /\ pc' = "silent" => still >= Idle \/ \E s \in Piped : Unseen(s)
  <1>1. InvokerInv /\ [Next]_vars => A
    <2> SUFFICES ASSUME InvokerInv, [Next]_vars, pc = "look", pc' = "silent"
                 PROVE  still >= Idle \/ \E s \in Piped : Unseen(s)
      OBVIOUS
    <2>1. FindSilent
      BY DEF Next, InvokerStep, KernelStep, StartFails, Acquire, Prepare, Spawn, Feed, Reap, WaitFails, StillRunning,
             FindLate, NotLate, PollAgain, StopLate, StopSilent, Finish, Goes, Return, Kill, PumpStep, RelayStep,
             PumpReads, PumpNotes, PumpEnds, PumpRelays, RelayFails, PumpBreaks, Turns, ReadStdin, Output, Fork,
             HelperEnds, KernelEnds, Tick, vars
    <2>2. quiet >= Idle
      BY <2>1 DEF FindSilent, Silent
    <2>3. Idle \in Nat /\ quiet \in Nat /\ still \in Nat
      BY InvokerAssumption DEF InvokerInv, TypeOK
    <2>4. QED
      BY <2>2, <2>3 DEF InvokerInv, ActivityKeepsUp
  <1>2. QED
    BY <1>1, InvokerInvHolds, PTL DEF Spec, OnlySilenceIsStopped
=============================================================================
