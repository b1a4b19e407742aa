------------------------------ MODULE Invoker ------------------------------
(***************************************************************************)
(* One delegation by SubprocessInvoker (runner-dispatch, main.rs): the     *)
(* kernel is spawned in a fresh workspace, handed the job on its stdin,    *)
(* watched against the deadline and the idle timeout by polling, and       *)
(* reaped; two threads pump its output and note activity.                  *)
(*                                                                         *)
(* The kernel and a process it starts ("helper") are external: they read,  *)
(* print, start each other and end when they like.  A helper inherits the  *)
(* kernel's pipes and holds them until it ends.                            *)
(***************************************************************************)
EXTENDS Naturals

CONSTANTS
    Deadline,   \* effective deadline in seconds, 0 = none
    Idle,       \* effective idle timeout in seconds, 0 = none
    MayFork,    \* whether the kernel may leave a helper behind
    FitsPipe,   \* whether the serialised job fits the stdin pipe
    PipeSize,   \* an output pipe, in buffers of a pump thread
    MaxTime     \* times beyond the limits are not told apart, for model checking

ASSUME InvokerAssumption ==
    /\ Deadline \in Nat
    /\ Idle \in Nat
    /\ MayFork \in BOOLEAN
    /\ FitsPipe \in BOOLEAN
    /\ PipeSize \in Nat \ {0}
    /\ MaxTime \in Nat
    /\ MaxTime >= Deadline /\ MaxTime >= Idle

VARIABLES
    pc,             \* where invoke() is
    result,         \* what invoke() returned, or "none"
    workspace,      \* the job's directory
    child,          \* the kernel process
    helper,         \* whether a helper runs
    fed,            \* the job fits the stdin pipe, or has been read
    unread,         \* per stream, the output no pump has read, in buffers
    pump,           \* per stream, what its pump thread does
    faulty,         \* per stream, whether reading or relaying it has failed
    elapsed,        \* seconds since the wait loop began
    quiet,          \* seconds since `activity` was last set
    still           \* seconds since something was printed; the code does not know it

vars == <<pc, result, workspace, child, helper, fed, unread, pump, faulty, elapsed, quiet, still>>
pumpVars == <<unread, pump, faulty>>
clocks == <<elapsed, quiet, still>>

Stream == {"stdout", "stderr"}

\* With an idle timeout the output goes through pumps; without, it does not.
Piped == IF Idle # 0 THEN Stream ELSE {}
Watched == Deadline # 0 \/ Idle # 0

\* Somebody holds the kernel's ends of the pipes.
Held == child = "running" \/ helper

TypeOK ==
    /\ pc \in {"acquire", "prepare", "spawn", "feed", "poll", "check", "late", "look", "silent", "join", "done"}
    /\ result \in {"none", "Delivered", "Failed", "TimedOut", "IdleTimedOut"}
    /\ result # "none" <=> pc = "done"
    /\ workspace \in {"none", "present", "removed", "residue"}
    /\ child \in {"none", "running", "ok", "err", "killed"}
    /\ helper \in BOOLEAN /\ fed \in BOOLEAN
    /\ unread \in [Stream -> 0 .. PipeSize] /\ faulty \in [Stream -> BOOLEAN]
    /\ pump \in [Stream -> {"off", "reading", "noting", "relaying", "ended"}]
    /\ elapsed \in 0 .. MaxTime /\ quiet \in 0 .. MaxTime /\ still \in 0 .. MaxTime

Init ==
    /\ pc = "acquire" /\ result = "none" /\ workspace = "none"
    /\ child = "none" /\ helper = FALSE /\ fed = FitsPipe
    /\ unread = [s \in Stream |-> 0] /\ faulty = [s \in Stream |-> FALSE]
    /\ pump = [s \in Stream |-> "off"]
    /\ elapsed = 0 /\ quiet = 0 /\ still = 0

-----------------------------------------------------------------------------
(* invoke().                                                               *)

\* Every return drops the workspace guard, which removes the directory or
\* reports that it could not.
DropWorkspace ==
    workspace' \in IF workspace = "present" THEN {"removed", "residue"} ELSE {workspace}

\* Faulty variant: a return that is missing, the loop goes on.
ReturnFallsThrough(outcome) ==
    /\ pc' = "poll"
    /\ result' = outcome
    /\ DropWorkspace

Return(outcome) ==
    /\ pc' = "done"
    /\ result' = outcome
    /\ DropWorkspace

\* From one statement to the next, with nothing but the clocks and the kernel
\* touched, which each action says of its own.
Goes(from, to) == pc = from /\ pc' = to /\ UNCHANGED <<result, workspace, helper, fed>>

\* The directory cannot be created; or the job cannot be encoded or its stderr
\* file created; or the kernel cannot be spawned.
StartFails ==
    /\ pc \in {"acquire", "prepare", "spawn"}
    /\ Return("Failed")
    /\ UNCHANGED <<child, helper, fed, pumpVars, clocks>>

Acquire ==
    /\ pc = "acquire"
    /\ pc' = "prepare"
    /\ workspace' = "present"
    /\ UNCHANGED <<result, child, helper, fed, pumpVars, clocks>>

\* The job is encoded and `activity` is set for the first time.
Prepare ==
    /\ Goes("prepare", "spawn")
    /\ quiet' = 0 /\ still' = 0
    /\ UNCHANGED <<child, pumpVars, elapsed>>

Spawn ==
    /\ Goes("spawn", "feed")
    /\ child' = "running"
    /\ UNCHANGED <<pumpVars, clocks>>

\* write_all() to the kernel's stdin returns: the job fits the pipe or has been
\* read, or nobody is left to read it.  Then the pump threads are started.
Feed ==
    /\ Goes("feed", "poll")
    /\ fed \/ ~Held
    /\ pump' = [s \in Stream |-> IF s \in Piped THEN "reading" ELSE "off"]
    /\ elapsed' = 0
    /\ UNCHANGED <<child, unread, faulty, quiet, still>>

\* try_wait(), or wait() without limits: the kernel has ended and is reaped.
Reap ==
    /\ Goes("poll", "join")
    /\ child # "running"
    /\ UNCHANGED <<child, pumpVars, clocks>>

\* try_wait() or wait() itself fails: invoke() gives up on the kernel, which
\* is neither killed nor reaped.
WaitFails ==
    /\ pc = "poll"
    /\ Return("Failed")
    /\ UNCHANGED <<child, helper, fed, pumpVars, clocks>>

\* try_wait(): still running; the limits are looked at next.
StillRunning ==
    /\ Goes("poll", "check")
    /\ Watched /\ child = "running"
    /\ UNCHANGED <<child, pumpVars, clocks>>

\* Faulty variant: a deadline that is never reached.
PastDeadlineNever == Deadline # 0 /\ elapsed > MaxTime

PastDeadline == Deadline # 0 /\ elapsed >= Deadline
Silent == Idle # 0 /\ quiet >= Idle

FindLate == Goes("check", "late") /\ PastDeadline /\ UNCHANGED <<child, pumpVars, clocks>>
NotLate == Goes("check", "look") /\ ~PastDeadline /\ UNCHANGED <<child, pumpVars, clocks>>

\* `activity` is read under its lock, and decides; what is printed or noted
\* after that does not count.
FindSilent == Goes("look", "silent") /\ Silent /\ UNCHANGED <<child, pumpVars, clocks>>
PollAgain == Goes("look", "poll") /\ ~Silent /\ UNCHANGED <<child, pumpVars, clocks>>

\* Faulty variant: the wait loop is left without killing the kernel.
KillNothing(outcome) ==
    /\ UNCHANGED child
    /\ Return(outcome)

\* kill() and wait(): only the kernel itself is killed, and not if it ended
\* since it was polled.
Kill(outcome) ==
    /\ child' = IF child = "running" THEN "killed" ELSE child
    /\ Return(outcome)

StopLate == pc = "late" /\ Kill("TimedOut") /\ UNCHANGED <<helper, fed, pumpVars, clocks>>
StopSilent == pc = "silent" /\ Kill("IdleTimedOut") /\ UNCHANGED <<helper, fed, pumpVars, clocks>>

\* The pump threads are joined and the exit status decides.
Finish ==
    /\ pc = "join"
    /\ \A s \in Stream : pump[s] \in {"off", "ended"}
    /\ Return(IF child = "ok" THEN "Delivered" ELSE "Failed")
    /\ UNCHANGED <<child, helper, fed, pumpVars, clocks>>

-----------------------------------------------------------------------------
(* The pump threads.  They go on when invoke() has returned.               *)

Turns(s, from, to) ==
    /\ pump[s] = from
    /\ pump' = [pump EXCEPT ![s] = to]
    /\ UNCHANGED <<pc, result, workspace, child, helper, fed, elapsed, still>>

\* read(): takes what there is, as far as its buffer holds it.
PumpReads(s) ==
    /\ Turns(s, "reading", "noting")
    /\ unread[s] > 0
    /\ unread' = [unread EXCEPT ![s] = @ - 1]
    /\ UNCHANGED <<faulty, quiet>>

\* Faulty variant: what was read is passed on, and the time is not noted.
PumpForgets(s) == Turns(s, "noting", "relaying") /\ UNCHANGED <<unread, faulty, quiet>>

\* `activity` is set, under its lock.
PumpNotes(s) == Turns(s, "noting", "relaying") /\ quiet' = 0 /\ UNCHANGED <<unread, faulty>>

\* What was read is written to the server's stdout or to the stderr file.
PumpRelays(s) == Turns(s, "relaying", "reading") /\ UNCHANGED <<unread, faulty, quiet>>

\* The write fails, which is ignored: what was read is lost.
RelayFails(s) ==
    /\ Turns(s, "relaying", "reading")
    /\ faulty' = [faulty EXCEPT ![s] = TRUE]
    /\ UNCHANGED <<unread, quiet>>

\* Faulty variant: a pump that ends with the kernel.
KernelGone(s) == child # "running"

\* End-of-file: all is read and nobody holds the pipe any more.
AtEnd(s) == unread[s] = 0 /\ ~Held

PumpEnds(s) == Turns(s, "reading", "ended") /\ AtEnd(s) /\ UNCHANGED <<unread, faulty, quiet>>

\* read() fails and the pump ends, whatever is still to come.
PumpBreaks(s) ==
    /\ Turns(s, "reading", "ended")
    /\ faulty' = [faulty EXCEPT ![s] = TRUE]
    /\ UNCHANGED <<unread, quiet>>

-----------------------------------------------------------------------------
(* The kernel, its helper, and time.                                       *)

ReadStdin ==
    /\ Held /\ ~fed
    /\ fed' = TRUE
    /\ UNCHANGED <<pc, result, workspace, child, helper, pumpVars, clocks>>

\* The kernel or its helper prints, from its first moment on; once the pump
\* has ended there is no pipe to print to, and a full one blocks.
Output(s) ==
    /\ Held /\ s \in Piped /\ pump[s] # "ended" /\ unread[s] < PipeSize
    /\ unread' = [unread EXCEPT ![s] = @ + 1]
    /\ still' = 0
    /\ UNCHANGED <<pc, result, workspace, child, helper, fed, pump, faulty, elapsed, quiet>>

Fork ==
    /\ MayFork
    /\ child = "running" /\ ~helper
    /\ helper' = TRUE
    /\ UNCHANGED <<pc, result, workspace, child, fed, pumpVars, clocks>>

HelperEnds ==
    /\ helper
    /\ helper' = FALSE
    /\ UNCHANGED <<pc, result, workspace, child, fed, pumpVars, clocks>>

KernelEnds(status) ==
    /\ child = "running"
    /\ child' = status
    /\ UNCHANGED <<pc, result, workspace, helper, fed, pumpVars, clocks>>

\* The clocks are read in the wait loop and not after it.
UpTo(bound, n) == IF n < bound THEN n ELSE bound
Tick ==
    /\ pc \notin {"join", "done"}
    /\ elapsed' = UpTo(MaxTime, elapsed + 1)
    /\ quiet' = UpTo(MaxTime, quiet + 1)
    /\ still' = UpTo(MaxTime, still + 1)
    /\ UNCHANGED <<pc, result, workspace, child, helper, fed, pumpVars>>

-----------------------------------------------------------------------------

InvokerStep ==
    \/ StartFails \/ Acquire \/ Prepare \/ Spawn \/ Feed
    \/ Reap \/ WaitFails \/ StillRunning \/ FindLate \/ NotLate \/ FindSilent \/ PollAgain
    \/ StopLate \/ StopSilent \/ Finish

PumpStep(s) == PumpReads(s) \/ PumpNotes(s) \/ PumpEnds(s)
RelayStep(s) == PumpRelays(s) \/ RelayFails(s)

KernelStep ==
    \/ ReadStdin \/ Fork \/ HelperEnds
    \/ \E s \in Stream : Output(s)
    \/ \E status \in {"ok", "err"} : KernelEnds(status)

Next ==
    \/ InvokerStep \/ KernelStep \/ Tick
    \/ \E s \in Stream : PumpStep(s) \/ RelayStep(s) \/ PumpBreaks(s)

\* The invoker's and the pumps' threads are scheduled, a file can be written,
\* and time passes.  Of the kernel nothing is assumed, nor that somebody reads
\* the server's own stdout, on which a write may block for ever.
Fairness ==
    /\ WF_vars(InvokerStep) /\ WF_vars(Tick)
    /\ \A s \in Stream : WF_vars(PumpStep(s))
    /\ WF_vars(RelayStep("stderr"))

Spec == Init /\ [][Next]_vars /\ Fairness

-----------------------------------------------------------------------------
(* Properties.                                                             *)

\* "Zero residue": when invoke() has returned, on whichever path, its directory
\* is gone or reported and its kernel is not running, save that a failed wait
\* leaves it running and is answered as a failure.
LeavesNothingBehind ==
    result # "none" =>
        /\ workspace # "present"
        /\ child = "running" => result = "Failed"

\* Output that no pump has noted: a kernel that made it may be found silent.
Unseen(s) == unread[s] > 0 \/ pump[s] = "noting"

\* A kernel is found silent only when nothing was printed for Idle seconds, on
\* either stream, by it or by its helper, or what was printed since has not been
\* noted by its pump: no output is forgotten between the pipe and `activity`,
\* however printing, pumping and polling interleave.
OnlySilenceIsStopped ==
    [][pc = "look" /\ pc' = "silent" => still >= Idle \/ \E s \in Piped : Unseen(s)]_vars

\* When invoke() answers by the exit status, all that the kernel and its helper
\* printed has been relayed and nothing more can come, unless reading or relaying
\* that stream failed, which nobody is told.
DeliveredInFull ==
    [][pc = "join" /\ pc' = "done" =>
           \A s \in Piped : faulty[s] \/ (unread[s] = 0 /\ pump[s] = "ended" /\ ~Held)]_vars

\* Whatever the kernel does, a delegation with a deadline comes to an end, or the
\* invoker writes for ever to a kernel that does not read its stdin, or it waits for
\* the pump threads for ever, because a helper that outlives the kernel holds its
\* output open or nobody reads the server's stdout.
EndsUnlessHeld ==
    Deadline # 0 =>
        \/ <>(pc = "done")
        \/ <>[](pc = "feed" /\ Held /\ ~fed)
        \/ <>[](pc = "join" /\ (helper \/ pump["stdout"] = "relaying"))

-----------------------------------------------------------------------------
(* What the documentation says and the code does not do; it is refuted.    *)

\* main.rs: "the invoker owns deadline enforcement", and the write to stdin
\* "never blocks": a delegation with a deadline comes to an end whatever its
\* kernel does.  Neither the write to the kernel's stdin nor the join of the
\* pump threads is under the deadline.
DeadlineEnforced == Deadline # 0 => <>(pc = "done")
=============================================================================
