---------------------------- MODULE MCDispatcher ----------------------------
(***************************************************************************)
(* Small instances of Dispatcher: the frames the work can come in, and the *)
(* constants of the runs.  "lint" is an agent task, "ship" a CI job on     *)
(* another repository and "merge" a loop cycle, whose kernel is not        *)
(* allowed; a frame is good unless it is varied.                           *)
(***************************************************************************)
EXTENDS Dispatcher

MCFingerprint == {"lint", "ship", "merge"}
MCJobId == {"job1", "job2"}
MCTarget == {"repoA", "repoB"}
MCClassOf == [fp \in MCFingerprint |-> CASE fp = "lint" -> "agent" [] fp = "ship" -> "ci"
                                      [] OTHER -> "cycle"]
MCTargetOf == [fp \in MCFingerprint |-> IF fp = "ship" THEN "repoB" ELSE "repoA"]
MCJobOf(fp) == [id |-> IF fp = "ship" THEN "job2" ELSE "job1", fp |-> fp,
                from_fork |-> FALSE, well_formed |-> TRUE, severity |-> 0]
MCGood(fp) == [parses |-> TRUE, frame_ok |-> TRUE, envelope_ok |-> TRUE, job |-> MCJobOf(fp),
               tier |-> 2, grant |-> {fp}, deadline_secs |-> 0, idle_secs |-> 0]

\* One good frame for each work, and for each stateless gate one it stops.
MCGateFrames ==
    { MCGood("lint"), MCGood("ship"), MCGood("merge"),
      [MCGood("lint") EXCEPT !.parses = FALSE],
      [MCGood("lint") EXCEPT !.frame_ok = FALSE],
      [MCGood("lint") EXCEPT !.envelope_ok = FALSE],
      [MCGood("lint") EXCEPT !.tier = 0],
      [MCGood("lint") EXCEPT !.job.well_formed = FALSE],
      [MCGood("lint") EXCEPT !.job.severity = 3],
      [MCGood("ship") EXCEPT !.job.from_fork = TRUE],
      [MCGood("lint") EXCEPT !.grant = {}] }
MCAuthorityFloor == [c \in {"agent"} |-> 2]
MCApprovalBands == {"agent"}

\* Frames that ask for limits of their own.
MCTimedFrames == { [MCGood("lint") EXCEPT !.deadline_secs = 1],
                   [MCGood("ship") EXCEPT !.idle_secs = 2] }
MCNoFloor == [c \in {} |-> 0]
MCStateLimit == [c \in {"agent"} |-> 0]

\* Work that every gate before the limits lets pass, with the limits that are off.
MCPlainFrames == { MCGood("lint"), MCGood("ship") }
MCNoCap == [d \in {"jobs", "tokens", "usd_micros"} |-> 0]

MCSealedFile == {"policy"}
MCJobCap == [d \in {"jobs", "tokens", "usd_micros"} |-> IF d = "jobs" THEN 4 ELSE 0]
=============================================================================
