---------------------------- MODULE AuditsProofs -----------------------------
(***************************************************************************)
(* What is proved of the parts that Audits puts together: a server that    *)
(* starts on a path leaves it served, whichever servers start with it, an  *)
(* evaluation that is accepted is of one dry run, and the two audit logs   *)
(* agree.  Each part has an invariant of its own, under the condition that *)
(* it is the part that runs.                                               *)
(***************************************************************************)
EXTENDS Audits, Integers, Functions, SequenceTheorems, TLAPS

-----------------------------------------------------------------------------
(* Dispatchers that start on one path.                                     *)

Step == {"off", "parent", "look", "remove", "bind", "harden", "serving"}
Path == {Start!Nothing, [kind |-> "file"]}
            \cup [kind : {"socket"}, by : Servers \cup {"gone"}, mode : {"open", "0600"}]

StartTypeOK ==
    /\ server \in [Servers -> Step] /\ path \in Path
    /\ lost \in BOOLEAN /\ disturbed \in BOOLEAN

\* A file came after every server that is about to remove something had looked.
FileIsNews ==
    /\ ~lost
    /\ path.kind = "file" => \A s \in Servers : server[s] = "remove" => s \in later

\* Since a start went well the path is bound, by a server that serves or is about
\* to, or is about to be bound by one.
BoundOrBinding ==
    ~disturbed =>
        \/ path.kind = "none" /\ \E s \in Servers : server[s] = "bind"
        \/ /\ path.kind = "socket" /\ path.by \in Servers
           /\ \/ server[path.by] = "harden"
              \/ server[path.by] = "serving" /\ path.mode = "0600"

StartInv == StartTypeOK /\ FileIsNews /\ BoundOrBinding

\* A path is one of three kinds, which its record tells.
LEMMA PathKinds ==
    ASSUME NEW p \in Path
    PROVE  \/ p = Start!Nothing /\ p.kind = "none"
           \/ p = [kind |-> "file"] /\ p.kind = "file"
           \/ /\ p.kind = "socket" /\ p.by \in Servers \cup {"gone"} /\ p.mode \in {"open", "0600"}
              /\ p = [kind |-> "socket", by |-> p.by, mode |-> p.mode]
              /\ [p EXCEPT !.mode = "0600"] = [kind |-> "socket", by |-> p.by, mode |-> "0600"]
  BY DEF Path, Start!Nothing

\* The step a server goes to is all that changes in the others' eyes.
LEMMA GoesFacts ==
    ASSUME server \in [Servers -> Step], NEW s \in Servers, NEW step \in Step, Start!Goes(s, step)
    PROVE  /\ server' \in [Servers -> Step] /\ server'[s] = step
           /\ \A t \in Servers : t # s => server'[t] = server[t]
  BY DEF Start!Goes

\* Before anything has started nothing has been lost, and nothing is promised.
LEMMA StartInitial == Start!StartInit => StartInv
  <1> SUFFICES ASSUME Start!StartInit PROVE StartInv
    OBVIOUS
  <1>1. server \in [Servers -> Step] /\ \A s \in Servers : server[s] # "remove"
    BY DEF Start!StartInit, Step
  <1>2. path \in Path
    BY DEF Start!StartInit, Path
  <1>3. lost = FALSE /\ disturbed = TRUE
    BY DEF Start!StartInit
  <1>4. QED
    BY <1>1, <1>2, <1>3 DEF StartInv, StartTypeOK, FileIsNews, BoundOrBinding

\* A server that looks, or fails to start, leaves the path as it is.
LEMMA LookingStep ==
    ASSUME StartInv, NEW s \in Servers,
           Start!Configure(s) \/ Start!CheckParent(s) \/ Start!Look(s)
    PROVE  StartInv'
  <1>1. /\ UNCHANGED <<path, later, lost, disturbed>>
        /\ server[s] \in {"off", "parent", "look"}
    BY DEF Start!Configure, Start!CheckParent, Start!Look
  <1>2. \E step \in {"off", "parent", "look", "remove", "bind"} :
            Start!Goes(s, step) /\ (step = "remove" => path.kind = "socket")
    BY DEF Start!Configure, Start!CheckParent, Start!Look
  <1>3. PICK step \in {"off", "parent", "look", "remove", "bind"} :
            Start!Goes(s, step) /\ (step = "remove" => path.kind = "socket")
    BY <1>2
  <1>4. /\ server' \in [Servers -> Step] /\ server'[s] = step
        /\ \A t \in Servers : t # s => server'[t] = server[t]
    BY <1>3, GoesFacts DEF StartInv, StartTypeOK, Step
  <1>5. StartTypeOK'
    BY <1>1, <1>4 DEF StartInv, StartTypeOK
  <1>6. FileIsNews'
    BY <1>1, <1>3, <1>4 DEF StartInv, FileIsNews
  <1>7. BoundOrBinding'
    BY <1>1, <1>4 DEF StartInv, BoundOrBinding
  <1>8. QED
    BY <1>5, <1>6, <1>7 DEF StartInv

\* Whoever removes a socket is about to bind, or finds another who is.
LEMMA RemoveStep ==
    ASSUME StartInv, NEW s \in Servers, Start!Remove(s)
    PROVE  StartInv'
  <1>1. /\ server[s] = "remove" /\ path' = Start!Nothing /\ UNCHANGED <<later, disturbed>>
        /\ Start!Goes(s, IF path.kind = "none" THEN "off" ELSE "bind")
        /\ lost' = (lost \/ (path.kind = "file" /\ s \notin later))
    BY DEF Start!Remove
  <1>2. /\ server' \in [Servers -> Step] /\ server'[s] = IF path.kind = "none" THEN "off" ELSE "bind"
        /\ \A t \in Servers : t # s => server'[t] = server[t]
    BY <1>1, GoesFacts DEF StartInv, StartTypeOK, Step
  <1>3. path'.kind = "none" /\ path' \in Path
    BY <1>1 DEF Start!Nothing, Path
  <1>4. lost' = FALSE
    BY <1>1 DEF StartInv, FileIsNews, StartTypeOK
  <1>5. StartTypeOK' /\ FileIsNews'
    BY <1>1, <1>2, <1>3, <1>4 DEF StartInv, StartTypeOK, FileIsNews
  <1>6. BoundOrBinding'
    BY <1>1, <1>2, <1>3 DEF StartInv, BoundOrBinding
  <1>7. QED
    BY <1>5, <1>6 DEF StartInv

\* A bind takes a free path or leaves a taken one.
LEMMA BindStep ==
    ASSUME StartInv, NEW s \in Servers, Start!Bind(s)
    PROVE  StartInv'
  <1>1. server[s] = "bind" /\ UNCHANGED <<later, lost, disturbed>>
    BY DEF Start!Bind
  <1>2. CASE path.kind = "none"
    <2>1. Start!Goes(s, "harden") /\ path' = [kind |-> "socket", by |-> s, mode |-> "open"]
      BY <1>2 DEF Start!Bind
    <2>2. /\ server' \in [Servers -> Step] /\ server'[s] = "harden"
          /\ \A t \in Servers : t # s => server'[t] = server[t]
      BY <2>1, GoesFacts DEF StartInv, StartTypeOK, Step
    <2>3. path' \in Path /\ path'.kind = "socket" /\ path'.by = s
      BY <2>1 DEF Path
    <2>4. QED
      BY <1>1, <2>2, <2>3 DEF StartInv, StartTypeOK, FileIsNews, BoundOrBinding
  <1>3. CASE path.kind # "none"
    <2>1. Start!Goes(s, "off") /\ path' = path
      BY <1>3 DEF Start!Bind
    <2>2. /\ server' \in [Servers -> Step] /\ server'[s] = "off"
          /\ \A t \in Servers : t # s => server'[t] = server[t]
      BY <2>1, GoesFacts DEF StartInv, StartTypeOK, Step
    <2>3. StartTypeOK' /\ FileIsNews'
      BY <1>1, <2>1, <2>2 DEF StartInv, StartTypeOK, FileIsNews
    <2>4. BoundOrBinding'
      BY <1>1, <1>3, <2>1, <2>2 DEF StartInv, BoundOrBinding
    <2>5. QED
      BY <2>3, <2>4 DEF StartInv
  <1>4. QED
    BY <1>2, <1>3

\* A server hardens what the path names, and counts as well started when that is
\* its own socket.
LEMMA HardenStep ==
    ASSUME StartInv, NEW s \in Servers, Start!Harden(s)
    PROVE  StartInv'
  <1> DEFINE well == /\ path.kind = "socket" /\ path.by = s
                     /\ \A t \in Servers \ {s} : server[t] \notin Start!Starting
  <1>1. /\ server[s] = "harden" /\ UNCHANGED <<later, lost>>
        /\ disturbed' = (disturbed /\ ~well)
    BY DEF Start!Harden
  <1>2. path \in Path /\ server \in [Servers -> Step] /\ lost \in BOOLEAN /\ disturbed \in BOOLEAN
    BY DEF StartInv, StartTypeOK
  <1>3. disturbed' \in BOOLEAN
    BY <1>1
  <1>4. CASE path.kind = "none"
    <2>1. Start!Goes(s, "off") /\ path' = path /\ disturbed' = disturbed
      BY <1>1, <1>2, <1>4 DEF Start!Harden
    <2>2. /\ server' \in [Servers -> Step] /\ server'[s] = "off"
          /\ \A t \in Servers : t # s => server'[t] = server[t]
      BY <1>2, <2>1, GoesFacts DEF Step
    <2>3. StartTypeOK' /\ FileIsNews'
      BY <1>1, <1>3, <2>1, <2>2 DEF StartInv, StartTypeOK, FileIsNews
    <2>4. BoundOrBinding'
      BY <1>1, <1>4, <2>1, <2>2 DEF StartInv, BoundOrBinding
    <2>5. QED
      BY <2>3, <2>4 DEF StartInv
  <1>5. CASE path.kind # "none"
    <2>1. /\ Start!Goes(s, "serving")
          /\ path' = IF path.kind = "socket" THEN [path EXCEPT !.mode = "0600"] ELSE path
      BY <1>5 DEF Start!Harden
    <2>2. /\ server' \in [Servers -> Step] /\ server'[s] = "serving"
          /\ \A t \in Servers : t # s => server'[t] = server[t]
      BY <1>2, <2>1, GoesFacts DEF Step
    <2>3. /\ path' \in Path /\ path'.kind = path.kind
          /\ path.kind = "socket" => path'.by = path.by /\ path'.mode = "0600"
      <3>1. CASE path.kind = "socket"
        <4>1. path.by \in Servers \cup {"gone"}
          BY <1>2, <3>1, PathKinds
        <4>2. path' = [kind |-> "socket", by |-> path.by, mode |-> "0600"]
          BY <1>2, <2>1, <3>1, PathKinds
        <4>3. QED
          BY <3>1, <4>1, <4>2 DEF Path
      <3>2. CASE path.kind # "socket"
        BY <1>2, <2>1, <3>2
      <3>3. QED
        BY <3>1, <3>2
    <2>4. StartTypeOK' /\ FileIsNews'
      BY <1>1, <1>3, <2>2, <2>3 DEF StartInv, StartTypeOK, FileIsNews
    <2>5. BoundOrBinding'
      <3>1. CASE ~disturbed
        BY <1>5, <2>2, <2>3, <3>1 DEF StartInv, BoundOrBinding
      <3>2. CASE disturbed /\ well
        BY <2>2, <2>3, <3>2 DEF BoundOrBinding
      <3>3. CASE disturbed /\ ~well
        BY <1>1, <3>3 DEF BoundOrBinding
      <3>4. QED
        BY <1>2, <3>1, <3>2, <3>3
    <2>6. QED
      BY <2>4, <2>5 DEF StartInv
  <1>6. QED
    BY <1>4, <1>5

\* A kill and what the operator does take the promise back; a file the operator
\* puts down is news to every server that had looked.
LEMMA DisturbingStep ==
    ASSUME StartInv,
           \/ \E s \in Servers : Start!Kill(s)
           \/ Start!PutFile \/ Start!TakeAway \/ Start!ChangeParent
    PROVE  StartInv'
  <1>1. disturbed' = TRUE /\ lost' = lost
    BY DEF Start!Kill, Start!PutFile, Start!TakeAway, Start!ChangeParent, Start!Edit
  <1>2. BoundOrBinding'
    BY <1>1 DEF BoundOrBinding
  <1>3. CASE \E s \in Servers : Start!Kill(s)
    <2>1. PICK s \in Servers : Start!Kill(s)
      BY <1>3
    <2>2. Start!Goes(s, "off") /\ UNCHANGED <<path, later>>
      BY <2>1 DEF Start!Kill
    <2>3. /\ server' \in [Servers -> Step] /\ server'[s] = "off"
          /\ \A t \in Servers : t # s => server'[t] = server[t]
      BY <2>2, GoesFacts DEF StartInv, StartTypeOK, Step
    <2>4. QED
      BY <1>1, <1>2, <2>2, <2>3 DEF StartInv, StartTypeOK, FileIsNews
  <1>4. CASE Start!PutFile
    <2>1. /\ path' = [kind |-> "file"] /\ server' = server
          /\ later' = {s \in Servers : server[s] = "remove"}
      BY <1>4 DEF Start!PutFile, Start!Edit
    <2>2. QED
      BY <1>1, <1>2, <2>1 DEF StartInv, StartTypeOK, FileIsNews, Path
  <1>5. CASE Start!TakeAway
    <2>1. path' = Start!Nothing /\ UNCHANGED <<server, later>>
      BY <1>5 DEF Start!TakeAway, Start!Edit
    <2>2. path' \in Path /\ path'.kind # "file"
      BY <2>1 DEF Start!Nothing, Path
    <2>3. QED
      BY <1>1, <1>2, <2>1, <2>2 DEF StartInv, StartTypeOK, FileIsNews
  <1>6. CASE Start!ChangeParent
    <2>1. UNCHANGED <<server, path, later>>
      BY <1>6 DEF Start!ChangeParent, Start!Edit
    <2>2. QED
      BY <1>1, <1>2, <2>1 DEF StartInv, StartTypeOK, FileIsNews
  <1>7. QED
    BY <1>3, <1>4, <1>5, <1>6

\* A step of the part keeps its invariant, and so does a step of another part.
LEMMA StartKept == StartInv /\ [Start!StartNext]_startVars => StartInv'
  <1> SUFFICES ASSUME StartInv, [Start!StartNext]_startVars PROVE StartInv'
    OBVIOUS
  <1>1. CASE UNCHANGED startVars
    BY <1>1 DEF startVars, StartInv, StartTypeOK, FileIsNews, BoundOrBinding
  <1>2. CASE Start!StartNext
    <2>1. CASE Start!StartDone
      BY <1>1, <2>1 DEF Start!StartDone, Start!startVars, startVars
    <2>2. CASE \E s \in Servers : \/ Start!Configure(s) \/ Start!CheckParent(s) \/ Start!Look(s)
                                  \/ Start!Remove(s) \/ Start!Bind(s) \/ Start!Harden(s)
      BY <2>2, LookingStep, RemoveStep, BindStep, HardenStep
    <2>3. CASE \/ \E s \in Servers : Start!Kill(s)
               \/ Start!PutFile \/ Start!TakeAway \/ Start!ChangeParent
      BY <2>3, DisturbingStep
    <2>4. QED
      BY <1>2, <2>1, <2>2, <2>3 DEF Start!StartNext
  <1>3. QED
    BY <1>1, <1>2

\* A part that runs has started so, and goes on by its own steps.
LEMMA StartRuns ==
    /\ Init => (subject = "start" => Start!StartInit)
    /\ [Next]_vars => subject' = subject /\ (subject = "start" => [Start!StartNext]_startVars)
  <1>1. Init => (subject = "start" => Start!StartInit)
    BY DEF Init
  <1>2. [Next]_vars => subject' = subject /\ (subject = "start" => [Start!StartNext]_startVars)
    BY DEF Next, HistoryStep, QueueStep, FleetStep, CycleStep, RepoStep, StartStep, TrailStep, CliStep, vars
  <1>3. QED
    BY <1>1, <1>2

\* Servers may start together, fail, remove each other's sockets and be killed while
\* an operator puts files at the path: for any number of them a file that was there when
\* a server looked is never removed by it, and between starts the path, when nothing was
\* killed or edited since one went well, is a hardened socket of a server that serves.
THEOREM ServerReachable == Spec => []ServerIsReachable
  <1> DEFINE inv == subject = "start" => StartInv
  <1>1. Init => inv
    BY StartRuns, StartInitial
  <1>2. inv /\ [Next]_vars => inv'
    BY StartRuns, StartKept
  <1>3. inv => ServerIsReachable
    <2> SUFFICES ASSUME subject = "start", StartInv PROVE Start!ServerIsReachable
      BY DEF ServerIsReachable
    <2>1. ~lost
      BY DEF StartInv, FileIsNews
    <2>2. ASSUME ~disturbed, \A s \in Servers : server[s] \notin Start!Starting
          PROVE  path.kind = "socket" /\ path.mode = "0600" /\ path.by \in Servers /\ server[path.by] = "serving"
      <3>1. \A s \in Servers : server[s] # "bind" /\ server[s] # "harden"
        BY <2>2 DEF Start!Starting
      <3>2. QED
        BY <2>2, <3>1 DEF StartInv, BoundOrBinding
    <2>3. QED
      BY <2>1, <2>2 DEF Start!ServerIsReachable
  <1>4. QED
    BY <1>1, <1>2, <1>3, PTL DEF Spec

-----------------------------------------------------------------------------
(* The evaluation of a cycle.                                              *)

\* The prompt of a manifest is the prompt of a dry run there was, whatever else in
\* the manifest was edited.
AskedFor(prompt) == \E dry \in made : prompt = Cycle!Prompt(dry.goal, dry.auto, dry.home)

Filed ==
    /\ cycle = [manifest |-> cycle.manifest, metrics |-> cycle.metrics]
    /\ \A m \in cycle.manifest :
          /\ m = [goal |-> m.goal, auto |-> m.auto, prompt |-> m.prompt, contract |-> m.contract]
          /\ AskedFor(m.prompt)
    /\ \A input \in cycle.metrics : input.measure \in Cycle!Measure

\* What an evaluation has read, and what it tells of that.
ReadWell ==
    /\ eval.step = "manifest" => eval.input.measure \in Cycle!Measure
    /\ eval.step = "told" =>
          /\ eval.input.measure \in Cycle!Measure
          /\ eval.report = Cycle!Evaluate(eval.input.measure)
          /\ eval.accepted /\ eval.with =>
                \E dry \in made : /\ dry.home = eval.home /\ dry.goal = eval.input.goal
                                  /\ eval.input.prompt = Cycle!Prompt(dry.goal, dry.auto, dry.home)

CycleInv == Filed /\ ReadWell

\* The smaller and the larger of two numbers.
LEMMA MinOfTwo == \A i, k \in Int : Cycle!Min({i, k}) = IF i <= k THEN i ELSE k
  <1> SUFFICES ASSUME NEW i \in Int, NEW k \in Int PROVE Cycle!Min({i, k}) = IF i <= k THEN i ELSE k
    OBVIOUS
  <1>1. \E x \in {i, k} : \A y \in {i, k} : x <= y
    OBVIOUS
  <1>2. Cycle!Min({i, k}) \in {i, k} /\ \A y \in {i, k} : Cycle!Min({i, k}) <= y
    BY <1>1 DEF Cycle!Min
  <1>3. QED
    BY <1>2

\* The same of the larger.
LEMMA MaxOfTwo == \A i, k \in Int : Cycle!Max({i, k}) = IF i >= k THEN i ELSE k
  <1> SUFFICES ASSUME NEW i \in Int, NEW k \in Int PROVE Cycle!Max({i, k}) = IF i >= k THEN i ELSE k
    OBVIOUS
  <1>1. \E x \in {i, k} : \A y \in {i, k} : x >= y
    OBVIOUS
  <1>2. Cycle!Max({i, k}) \in {i, k} /\ \A y \in {i, k} : Cycle!Max({i, k}) >= y
    BY <1>1 DEF Cycle!Max
  <1>3. QED
    BY <1>2

\* The points of a measure, before they are kept between 0 and 100.
Sum(m) ==
    Cycle!Points(m.red, 25) + Cycle!Points(m.gates, 35)
        + (IF m.retry <= 1 THEN 10 ELSE -5 * (m.retry - 1))
        + 5 * (IF m.research <= 3 THEN m.research ELSE 3)
        + Cycle!Points(m.runtime <= 900, 10) + Cycle!Points(m.diff \in 1 .. 12, 5)

\* What the points come to, before it is cut to 0 .. 100, is a number.
LEMMA SumIsNumber == \A m \in Cycle!Measure : Sum(m) \in Int
  <1> SUFFICES ASSUME NEW m \in Cycle!Measure PROVE Sum(m) \in Int
    OBVIOUS
  <1>1. \A c, p : Cycle!Points(c, p) = IF c THEN p ELSE 0
    BY DEF Cycle!Points
  <1>2. m.retry \in Nat /\ m.research \in Nat
    BY DEF Cycle!Measure
  <1>3. QED
    BY <1>1, <1>2 DEF Sum

\* The score is the sum of the points, no more than 100 and no less than none.
LEMMA ScoreOfSum ==
    \A m \in Cycle!Measure :
        Cycle!Score(m) = IF Sum(m) > 100 THEN 100 ELSE IF Sum(m) < 0 THEN 0 ELSE Sum(m)
  <1> SUFFICES ASSUME NEW m \in Cycle!Measure
               PROVE  Cycle!Score(m) = IF Sum(m) > 100 THEN 100 ELSE IF Sum(m) < 0 THEN 0 ELSE Sum(m)
    OBVIOUS
  <1>1. Sum(m) \in Int
    BY SumIsNumber
  <1>2. Cycle!Min({m.research, 3}) = IF m.research <= 3 THEN m.research ELSE 3
    BY MinOfTwo DEF Cycle!Measure
  <1>3. Cycle!Score(m) = Cycle!Max({Cycle!Min({Sum(m), 100}), 0})
    BY <1>2 DEF Cycle!Score, Sum
  <1>4. Cycle!Min({Sum(m), 100}) = IF Sum(m) <= 100 THEN Sum(m) ELSE 100
    BY <1>1, MinOfTwo
  <1>5. QED
    BY <1>1, <1>3, <1>4, MaxOfTwo

\* What a measure lacks, its sum lacks.
LEMMA SumFacts ==
    \A m \in Cycle!Measure :
        /\ Sum(m) >= 85 => m.red /\ m.gates /\ m.retry <= 2
        /\ ~m.gates => Sum(m) <= 65
  <1> SUFFICES ASSUME NEW m \in Cycle!Measure
               PROVE  /\ Sum(m) >= 85 => m.red /\ m.gates /\ m.retry <= 2
                      /\ ~m.gates => Sum(m) <= 65
    OBVIOUS
  <1> DEFINE retries == IF m.retry <= 1 THEN 10 ELSE -5 * (m.retry - 1)
             researched == 5 * (IF m.research <= 3 THEN m.research ELSE 3)
             fast == Cycle!Points(m.runtime <= 900, 10)
             small == Cycle!Points(m.diff \in 1 .. 12, 5)
  <1>1. Sum(m) = Cycle!Points(m.red, 25) + Cycle!Points(m.gates, 35) + retries + researched + fast + small
    BY DEF Sum
  <1>2. /\ fast \in {0, 10} /\ small \in {0, 5}
        /\ Cycle!Points(m.red, 25) = (IF m.red THEN 25 ELSE 0)
        /\ Cycle!Points(m.gates, 35) = (IF m.gates THEN 35 ELSE 0)
    BY DEF Cycle!Points
  <1>3. /\ researched \in Int /\ researched <= 15
        /\ retries \in Int /\ retries <= 10 /\ (m.retry > 2 => retries <= -10)
    BY DEF Cycle!Measure
  <1>4. m.retry \in Nat
    BY DEF Cycle!Measure
  <1> HIDE DEF retries, researched, fast, small
  <1>5. QED
    BY <1>1, <1>2, <1>3, <1>4

\* A sum is no larger when one thing is worse.
LEMMA WorseFacts ==
    \A m \in Cycle!Measure : \A w \in Cycle!Worse(m) :
        /\ w \in Cycle!Measure /\ Sum(w) <= Sum(m)
        /\ w.gates /\ w.red /\ w.diff > 0 => m.gates /\ m.red /\ m.diff > 0
  <1> SUFFICES ASSUME NEW m \in Cycle!Measure, NEW w \in Cycle!Worse(m)
               PROVE  /\ w \in Cycle!Measure /\ Sum(w) <= Sum(m)
                      /\ w.gates /\ w.red /\ w.diff > 0 => m.gates /\ m.red /\ m.diff > 0
    OBVIOUS
  <1>1. /\ m.red \in BOOLEAN /\ m.gates \in BOOLEAN
        /\ m.retry \in Nat /\ m.research \in Nat /\ m.runtime \in Nat /\ m.diff \in Nat
        /\ m = [red |-> m.red, gates |-> m.gates, retry |-> m.retry, research |-> m.research,
                runtime |-> m.runtime, diff |-> m.diff]
    BY DEF Cycle!Measure
  <1>2. w \in Cycle!Measure
    <2>1. \A x \in Cycle!Measure :
              /\ [x EXCEPT !.red = FALSE] \in Cycle!Measure
              /\ [x EXCEPT !.gates = FALSE] \in Cycle!Measure
      BY DEF Cycle!Measure
    <2>2. \A x \in Cycle!Measure :
              /\ [x EXCEPT !.retry = x.retry + 1] \in Cycle!Measure
              /\ [x EXCEPT !.research = 0] \in Cycle!Measure
              /\ [x EXCEPT !.runtime = x.runtime + 1] \in Cycle!Measure
      BY DEF Cycle!Measure
    <2>3. QED
      BY <2>1, <2>2 DEF Cycle!Worse
  <1>3. /\ w.diff = m.diff
        /\ w.red = m.red \/ w.red = FALSE
        /\ w.gates = m.gates \/ w.gates = FALSE
        /\ w.retry = m.retry \/ w.retry = m.retry + 1
        /\ w.research = m.research \/ w.research = 0
        /\ w.runtime = m.runtime \/ w.runtime = m.runtime + 1
    BY <1>1 DEF Cycle!Worse
  <1> DEFINE retries(x) == IF x.retry <= 1 THEN 10 ELSE -5 * (x.retry - 1)
             researched(x) == 5 * (IF x.research <= 3 THEN x.research ELSE 3)
  <1>4. /\ Cycle!Points(w.red, 25) <= Cycle!Points(m.red, 25)
        /\ Cycle!Points(w.gates, 35) <= Cycle!Points(m.gates, 35)
        /\ Cycle!Points(w.runtime <= 900, 10) <= Cycle!Points(m.runtime <= 900, 10)
    <2>1. (w.red => m.red) /\ (w.gates => m.gates) /\ (w.runtime <= 900 => m.runtime <= 900)
      BY <1>1, <1>3
    <2>2. ASSUME NEW c, NEW d, c => d, NEW p \in Nat
          PROVE  Cycle!Points(c, p) <= Cycle!Points(d, p)
      <3>1. Cycle!Points(d, p) = p \/ (~d /\ Cycle!Points(d, p) = 0)
        BY DEF Cycle!Points
      <3>2. (Cycle!Points(c, p) = p /\ c) \/ Cycle!Points(c, p) = 0
        BY DEF Cycle!Points
      <3>3. \/ Cycle!Points(c, p) = 0 /\ Cycle!Points(d, p) \in {0, p}
            \/ Cycle!Points(c, p) = p /\ Cycle!Points(d, p) = p
        BY <2>2, <3>1, <3>2, Zenon
      <3>4. QED
        BY <3>3
    <2>3. Cycle!Points(w.red, 25) <= Cycle!Points(m.red, 25)
      BY <2>1, <2>2
    <2>4. Cycle!Points(w.gates, 35) <= Cycle!Points(m.gates, 35)
      BY <2>1, <2>2
    <2>5. Cycle!Points(w.runtime <= 900, 10) <= Cycle!Points(m.runtime <= 900, 10)
      <3>1. w.runtime \in Nat /\ m.runtime \in Nat /\ m.runtime <= w.runtime
        BY <1>1, <1>3
      <3>2. QED
        BY <3>1 DEF Cycle!Points
    <2>6. QED
      BY <2>3, <2>4, <2>5
  <1>5. retries(w) <= retries(m) /\ researched(w) <= researched(m)
    BY <1>1, <1>3
  <1>6. \A x \in {w, m} :
            /\ Sum(x) = Cycle!Points(x.red, 25) + Cycle!Points(x.gates, 35) + retries(x) + researched(x)
                            + Cycle!Points(x.runtime <= 900, 10) + Cycle!Points(x.diff \in 1 .. 12, 5)
            /\ Cycle!Points(x.red, 25) \in Int /\ Cycle!Points(x.gates, 35) \in Int
            /\ Cycle!Points(x.runtime <= 900, 10) \in Int /\ Cycle!Points(x.diff \in 1 .. 12, 5) \in Int
            /\ retries(x) \in Int /\ researched(x) \in Int
    <2>1. \A x \in {w, m} : x.retry \in Nat /\ x.research \in Nat
      BY <1>1, <1>3
    <2>2. \A x \in {w, m} : retries(x) \in Int /\ researched(x) \in Int
      BY <2>1
    <2>3. \A c : Cycle!Points(c, 25) \in Int /\ Cycle!Points(c, 35) \in Int
                    /\ Cycle!Points(c, 10) \in Int /\ Cycle!Points(c, 5) \in Int
      BY DEF Cycle!Points
    <2>4. QED
      BY <2>2, <2>3 DEF Sum
  <1> HIDE DEF retries, researched
  <1>7. Sum(w) <= Sum(m)
    BY <1>3, <1>4, <1>5, <1>6
  <1>8. QED
    BY <1>1, <1>2, <1>3, <1>7

\* What an evaluation concludes, of any measure.
LEMMA VerdictIsSound ==
    \A m \in Cycle!Measure :
        LET told == Cycle!Evaluate(m)
        IN  /\ told.verdict = "promote" => m.red /\ m.gates /\ m.retry <= 2
            /\ ~m.gates => told.verdict \in {"hold-and-repair", "quarantine"} /\ ~told.upgrade_allowed
            /\ told.upgrade_allowed => told.verdict \in {"promote", "upgrade-candidate"}
            /\ \A w \in Cycle!Worse(m) : /\ Cycle!Score(w) <= told.score
                                         /\ Cycle!Evaluate(w).upgrade_allowed => told.upgrade_allowed
  <1> SUFFICES ASSUME NEW m \in Cycle!Measure
               PROVE  LET told == Cycle!Evaluate(m)
                      IN  /\ told.verdict = "promote" => m.red /\ m.gates /\ m.retry <= 2
                          /\ ~m.gates => told.verdict \in {"hold-and-repair", "quarantine"} /\ ~told.upgrade_allowed
                          /\ told.upgrade_allowed => told.verdict \in {"promote", "upgrade-candidate"}
                          /\ \A w \in Cycle!Worse(m) : /\ Cycle!Score(w) <= told.score
                                                       /\ Cycle!Evaluate(w).upgrade_allowed => told.upgrade_allowed
    OBVIOUS
  <1> DEFINE told == Cycle!Evaluate(m)
  <1>1. \A x \in Cycle!Measure :
            /\ Cycle!Evaluate(x).score = Cycle!Score(x)
            /\ Cycle!Evaluate(x).verdict = Cycle!Verdict(Cycle!Score(x))
            /\ Cycle!Evaluate(x).upgrade_allowed <=> Cycle!Score(x) >= 70 /\ x.gates /\ x.red /\ x.diff > 0
    BY DEF Cycle!Evaluate
  <1>2. Sum(m) \in Int /\ Cycle!Score(m) = IF Sum(m) > 100 THEN 100 ELSE IF Sum(m) < 0 THEN 0 ELSE Sum(m)
    BY SumIsNumber, ScoreOfSum
  <1>3. told.verdict = "promote" => m.red /\ m.gates /\ m.retry <= 2
    BY <1>1, <1>2, SumFacts DEF Cycle!Verdict
  <1>4. ~m.gates => told.verdict \in {"hold-and-repair", "quarantine"} /\ ~told.upgrade_allowed
    BY <1>1, <1>2, SumFacts DEF Cycle!Verdict
  <1>5. told.upgrade_allowed => told.verdict \in {"promote", "upgrade-candidate"}
    BY <1>1, <1>2 DEF Cycle!Verdict
  <1>6. ASSUME NEW w \in Cycle!Worse(m)
        PROVE  /\ Cycle!Score(w) <= told.score
               /\ Cycle!Evaluate(w).upgrade_allowed => told.upgrade_allowed
    <2>1. /\ w \in Cycle!Measure /\ Sum(w) <= Sum(m)
          /\ w.gates /\ w.red /\ w.diff > 0 => m.gates /\ m.red /\ m.diff > 0
      BY WorseFacts
    <2>2. Sum(w) \in Int /\ Cycle!Score(w) = IF Sum(w) > 100 THEN 100 ELSE IF Sum(w) < 0 THEN 0 ELSE Sum(w)
      BY <2>1, SumIsNumber, ScoreOfSum
    <2>3. Cycle!Score(w) <= Cycle!Score(m) /\ (Cycle!Score(w) >= 70 => Cycle!Score(m) >= 70)
      BY <1>2, <2>1, <2>2
    <2>4. QED
      BY <1>1, <2>1, <2>3
  <1>7. QED
    BY <1>3, <1>4, <1>5, <1>6

\* What every step of a dry run does to the directory: a manifest of a dry run, the
\* fixture's metrics, or nothing.
LEMMA FixtureMeasured == \A at : Cycle!Fixture(at).measure \in Cycle!Measure
  BY DEF Cycle!Fixture, Cycle!Measure

\* Dry runs are only added to those there were.
LEMMA AskedKept == made \subseteq made' => \A prompt : AskedFor(prompt) => AskedFor(prompt)'
  BY DEF AskedFor, Cycle!Prompt

\* The dry runs, the measured cycles and whoever edits the manifest.
LEMMA FilingStep ==
    ASSUME CycleInv,
           \/ Cycle!SetHome \/ Cycle!DryRunStarts \/ Cycle!DryRunEnds \/ Cycle!DryRunFails
           \/ Cycle!Measured \/ Cycle!ManifestEdited
    PROVE  CycleInv'
  <1>1. eval' = eval /\ made \subseteq made'
    BY DEF Cycle!SetHome, Cycle!DryRunStarts, Cycle!DryRunEnds, Cycle!DryRunFails, Cycle!Measured,
           Cycle!ManifestEdited
  <1>2. ReadWell'
    BY <1>1 DEF CycleInv, ReadWell, Cycle!Prompt, Cycle!Evaluate
  <1>3. cycle = [manifest |-> cycle.manifest, metrics |-> cycle.metrics]
    BY DEF CycleInv, Filed
  <1>4. CASE Cycle!SetHome \/ Cycle!DryRunFails
    <2>1. cycle' = cycle /\ made' = made
      BY <1>4 DEF Cycle!SetHome, Cycle!DryRunFails
    <2>2. QED
      BY <1>2, <2>1 DEF CycleInv, Filed, AskedFor
  <1>5. CASE Cycle!DryRunStarts
    <2>1. PICK r \in Requests :
              LET dry == [goal |-> r.goal, auto |-> r.auto, home |-> home]
              IN  /\ made' = made \cup {dry}
                  /\ cycle' = [cycle EXCEPT !.manifest =
                         {[goal |-> r.goal, auto |-> r.auto, prompt |-> Cycle!Prompt(r.goal, r.auto, home),
                           contract |-> TRUE]}]
      BY <1>5 DEF Cycle!DryRunStarts
    <2>2. PICK dry : dry = [goal |-> r.goal, auto |-> r.auto, home |-> home]
      OBVIOUS
    <2>3. PICK new : new = [goal |-> r.goal, auto |-> r.auto, prompt |-> Cycle!Prompt(r.goal, r.auto, home),
                            contract |-> TRUE]
      OBVIOUS
    <2>4. cycle'.manifest = {new} /\ cycle'.metrics = cycle.metrics
             /\ cycle' = [manifest |-> {new}, metrics |-> cycle.metrics]
      BY <1>3, <2>1, <2>3
    <2>5. AskedFor(new.prompt)'
      <3>1. dry \in made' /\ new.prompt = Cycle!Prompt(dry.goal, dry.auto, dry.home)
        BY <2>1, <2>2, <2>3
      <3>2. QED
        BY <3>1 DEF AskedFor, Cycle!Prompt
    <2>6. new = [goal |-> new.goal, auto |-> new.auto, prompt |-> new.prompt, contract |-> new.contract]
      BY <2>3
    <2>7. Filed'
      BY <2>4, <2>5, <2>6 DEF CycleInv, Filed
    <2>8. QED
      BY <1>2, <2>7 DEF CycleInv
  <1>6. CASE Cycle!DryRunEnds \/ Cycle!Measured
    <2>1. \E input : input.measure \in Cycle!Measure /\ cycle' = [cycle EXCEPT !.metrics = {input}]
      <3>1. CASE Cycle!DryRunEnds
        BY <3>1, FixtureMeasured DEF Cycle!DryRunEnds
      <3>2. CASE Cycle!Measured
        <4>1. PICK m \in Measures, dry \in made :
                  cycle' = [cycle EXCEPT !.metrics =
                      {[goal |-> IF m.named THEN dry.goal ELSE "none",
                        prompt |-> IF m.named THEN Cycle!Prompt(dry.goal, dry.auto, dry.home) ELSE <<>>,
                        measure |-> m.measure]}]
          BY <3>2 DEF Cycle!Measured
        <4>2. m.measure \in Cycle!Measure
          BY AuditsAssumption DEF Cycle!CycleEvalConstants
        <4>3. \A g, p : [goal |-> g, prompt |-> p, measure |-> m.measure].measure \in Cycle!Measure
          BY <4>2
        <4>4. QED
          BY <4>1, <4>3
      <3>3. QED
        BY <1>6, <3>1, <3>2
    <2>2. PICK input : input.measure \in Cycle!Measure /\ cycle' = [cycle EXCEPT !.metrics = {input}]
      BY <2>1
    <2>3. cycle' = [manifest |-> cycle.manifest, metrics |-> {input}]
      BY <1>3, <2>2
    <2>4. cycle'.manifest = cycle.manifest /\ cycle'.metrics = {input}
      BY <2>3
    <2>5. \A m \in cycle.manifest :
              /\ m = [goal |-> m.goal, auto |-> m.auto, prompt |-> m.prompt, contract |-> m.contract]
              /\ AskedFor(m.prompt)'
      BY <1>1, AskedKept DEF CycleInv, Filed
    <2>6. Filed'
      BY <2>2, <2>3, <2>4, <2>5 DEF Filed
    <2>7. QED
      BY <1>2, <2>6 DEF CycleInv
  <1>7. CASE Cycle!ManifestEdited
    <2>1. PICK m \in cycle.manifest, r \in Requests, contract \in BOOLEAN :
              cycle' = [cycle EXCEPT !.manifest = {[m EXCEPT !.goal = r.goal, !.contract = @ /\ contract]}]
      BY <1>7 DEF Cycle!ManifestEdited
    <2>2. /\ m = [goal |-> m.goal, auto |-> m.auto, prompt |-> m.prompt, contract |-> m.contract]
          /\ AskedFor(m.prompt)
      BY DEF CycleInv, Filed
    <2>3. PICK both : both = (m.contract /\ contract)
      OBVIOUS
    <2>4. PICK new : new = [m EXCEPT !.goal = r.goal, !.contract = both]
      OBVIOUS
    <2>5. new = [goal |-> r.goal, auto |-> m.auto, prompt |-> m.prompt, contract |-> both]
      BY <2>2, <2>4
    <2>6. /\ new = [goal |-> new.goal, auto |-> new.auto, prompt |-> new.prompt, contract |-> new.contract]
          /\ new.prompt = m.prompt
      BY <2>5
    <2>7. cycle' = [cycle EXCEPT !.manifest = {new}]
      BY <2>1, <2>3, <2>4
    <2>8. /\ cycle' = [manifest |-> {new}, metrics |-> cycle.metrics]
          /\ cycle'.manifest = {new} /\ cycle'.metrics = cycle.metrics
      BY <1>3, <2>7
    <2>9. AskedFor(new.prompt)'
      BY <1>1, <2>2, <2>6, AskedKept
    <2>10. Filed'
      BY <2>6, <2>8, <2>9 DEF CycleInv, Filed
    <2>11. QED
      BY <1>2, <2>10 DEF CycleInv
  <1>8. QED
    BY <1>4, <1>5, <1>6, <1>7

\* The evaluation: what it accepts is of one dry run, because the prompt it read with
\* the metrics is the manifest's, and the manifest's is that of a dry run in this home.
LEMMA EvaluatingStep ==
    ASSUME CycleInv,
           \/ Cycle!EvalStarts \/ Cycle!EvalReadsMetrics \/ Cycle!EvalFindsNothing
           \/ Cycle!EvalReadsManifest \/ Cycle!SelfUpgrade
    PROVE  CycleInv'
  <1>1. UNCHANGED <<made, cycle>>
    BY DEF Cycle!EvalStarts, Cycle!EvalReadsMetrics, Cycle!EvalFindsNothing, Cycle!EvalReadsManifest,
           Cycle!SelfUpgrade
  <1>2. Filed'
    BY <1>1 DEF CycleInv, Filed, AskedFor
  <1>3. CASE Cycle!EvalStarts \/ Cycle!EvalFindsNothing \/ Cycle!SelfUpgrade
    <2>1. eval'.step \in {"none", "metrics", "upgrade"}
      BY <1>3 DEF Cycle!EvalStarts, Cycle!EvalFindsNothing, Cycle!SelfUpgrade
    <2>2. QED
      BY <1>2, <2>1 DEF CycleInv, ReadWell
  <1>4. CASE Cycle!EvalReadsMetrics
    <2>1. PICK input \in IF eval.fixture THEN {Cycle!Fixture(eval.home)} ELSE cycle.metrics :
              IF input.measure.retry > Cycle!MaxRetry THEN Cycle!Told(input, eval.with, FALSE)
              ELSE IF ~eval.with THEN Cycle!Told(input, FALSE, TRUE)
              ELSE eval' = [step |-> "manifest", home |-> eval.home, input |-> input]
      BY <1>4 DEF Cycle!EvalReadsMetrics
    <2>2. input.measure \in Cycle!Measure
      BY FixtureMeasured DEF CycleInv, Filed
    <2>3. \/ eval' = [step |-> "manifest", home |-> eval.home, input |-> input]
          \/ \E with, accepted :
                /\ ~(with /\ accepted)
                /\ eval' = [step |-> "told", home |-> eval.home, input |-> input, with |-> with,
                            accepted |-> accepted, report |-> Cycle!Evaluate(input.measure)]
      BY <2>1 DEF Cycle!Told
    <2>4. ReadWell'
      <3>1. CASE eval' = [step |-> "manifest", home |-> eval.home, input |-> input]
        BY <2>2, <3>1 DEF ReadWell
      <3>2. CASE \E with, accepted :
                    /\ ~(with /\ accepted)
                    /\ eval' = [step |-> "told", home |-> eval.home, input |-> input, with |-> with,
                                accepted |-> accepted, report |-> Cycle!Evaluate(input.measure)]
        <4>1. PICK with, accepted :
                    /\ ~(with /\ accepted)
                    /\ eval' = [step |-> "told", home |-> eval.home, input |-> input, with |-> with,
                                accepted |-> accepted, report |-> Cycle!Evaluate(input.measure)]
          BY <3>2
        <4>2. /\ eval'.step = "told" /\ eval'.input = input /\ ~(eval'.accepted /\ eval'.with)
              /\ eval'.report = Cycle!Evaluate(input.measure)
          BY <4>1
        <4>3. QED
          BY <2>2, <4>2 DEF ReadWell
      <3>3. QED
        BY <2>3, <3>1, <3>2
    <2>5. QED
      BY <1>2, <2>4 DEF CycleInv
  <1>5. CASE Cycle!EvalReadsManifest
    <2>1. PICK m \in cycle.manifest :
              Cycle!Told(eval.input, TRUE, Cycle!ManifestIsValid(m, eval.home) /\ Cycle!PairMatches(eval.input, m))
      BY <1>5 DEF Cycle!EvalReadsManifest
    <2>2. eval.input.measure \in Cycle!Measure
      BY <1>5 DEF Cycle!EvalReadsManifest, CycleInv, ReadWell
    <2>3. /\ eval'.step = "told" /\ eval'.input = eval.input /\ eval'.home = eval.home
          /\ eval'.report = Cycle!Evaluate(eval.input.measure)
          /\ eval'.accepted = (Cycle!ManifestIsValid(m, eval.home) /\ Cycle!PairMatches(eval.input, m))
      BY <2>1 DEF Cycle!Told
    <2>4. ASSUME Cycle!ManifestIsValid(m, eval.home), Cycle!PairMatches(eval.input, m)
          PROVE  \E dry \in made : /\ dry.home = eval.home /\ dry.goal = eval.input.goal
                                   /\ eval.input.prompt = Cycle!Prompt(dry.goal, dry.auto, dry.home)
      <3>1. /\ m.prompt = Cycle!Prompt(m.goal, m.auto, eval.home)
            /\ eval.input.goal = m.goal /\ eval.input.prompt = m.prompt
        BY <2>4 DEF Cycle!ManifestIsValid, Cycle!PairMatches
      <3>2. PICK dry \in made : m.prompt = Cycle!Prompt(dry.goal, dry.auto, dry.home)
        BY DEF CycleInv, Filed, AskedFor
      <3>3. dry.goal = m.goal /\ dry.home = eval.home
        BY <3>1, <3>2 DEF Cycle!Prompt
      <3>4. QED
        BY <3>1, <3>2, <3>3
    <2>5. eval'.accepted =>
              \E dry \in made' : /\ dry.home = eval'.home /\ dry.goal = eval'.input.goal
                                 /\ eval'.input.prompt = Cycle!Prompt(dry.goal, dry.auto, dry.home)
      BY <1>1, <2>3, <2>4
    <2>6. ReadWell'
      BY <2>2, <2>3, <2>5 DEF ReadWell, Cycle!Prompt, Cycle!Evaluate
    <2>7. QED
      BY <1>2, <2>6 DEF CycleInv
  <1>6. QED
    BY <1>3, <1>4, <1>5

\* A step of the part keeps its invariant, and so does a step of another part.
LEMMA CycleKept == CycleInv /\ [Cycle!CycleNext]_cycleVars => CycleInv'
  <1> SUFFICES ASSUME CycleInv, [Cycle!CycleNext]_cycleVars PROVE CycleInv'
    OBVIOUS
  <1>1. CASE UNCHANGED cycleVars
    BY <1>1 DEF cycleVars, CycleInv, Filed, ReadWell, AskedFor, Cycle!Prompt, Cycle!Evaluate
  <1>2. CASE Cycle!CycleDone
    BY <1>1, <1>2 DEF Cycle!CycleDone, Cycle!cycleVars, cycleVars
  <1>3. CASE Cycle!CycleNext /\ ~Cycle!CycleDone
    BY <1>3, FilingStep, EvaluatingStep DEF Cycle!CycleNext
  <1>4. QED
    BY <1>1, <1>2, <1>3

\* An evaluation, too, starts and goes on by the steps of its own part.
LEMMA CycleRuns ==
    /\ Init => (subject = "cycle" => CycleInv)
    /\ [Next]_vars => subject' = subject /\ (subject = "cycle" => [Cycle!CycleNext]_cycleVars)
  <1>1. Init => (subject = "cycle" => Cycle!CycleInit)
    BY DEF Init
  <1>2. Cycle!CycleInit => CycleInv
    BY DEF Cycle!CycleInit, CycleInv, Filed, ReadWell
  <1>3. [Next]_vars => subject' = subject /\ (subject = "cycle" => [Cycle!CycleNext]_cycleVars)
    BY DEF Next, HistoryStep, QueueStep, FleetStep, CycleStep, RepoStep, StartStep, TrailStep, CliStep, vars
  <1>4. QED
    BY <1>1, <1>2, <1>3

\* Metrics and manifest may be replaced, edited or taken away before, between and after
\* the reads: for any measures and any number of dry runs an accepted pair was asked for
\* by one dry run in the home of the evaluation; and whatever was measured, a promotion
\* needs the red test, the gates and at most two retries, and nothing that is worse
\* scores more or is allowed an upgrade first.
THEOREM EvaluationSound == Spec => []EvaluationIsSound
  <1> DEFINE inv == subject = "cycle" => CycleInv
  <1>1. Init => inv
    BY CycleRuns
  <1>2. inv /\ [Next]_vars => inv'
    BY CycleRuns, CycleKept
  <1>3. inv => EvaluationIsSound
    <2> SUFFICES ASSUME subject = "cycle", CycleInv, eval.step = "told", eval.accepted
                 PROVE  Cycle!EvaluationIsSound
      BY DEF EvaluationIsSound, Cycle!EvaluationIsSound
    <2>1. /\ eval.input.measure \in Cycle!Measure
          /\ eval.report = Cycle!Evaluate(eval.input.measure)
          /\ eval.with =>
                \E dry \in made : /\ dry.home = eval.home /\ dry.goal = eval.input.goal
                                  /\ eval.input.prompt = Cycle!Prompt(dry.goal, dry.auto, dry.home)
      BY DEF CycleInv, ReadWell
    <2>2. QED
      BY <2>1, VerdictIsSound DEF Cycle!EvaluationIsSound
  <1>4. QED
    BY <1>1, <1>2, <1>3, PTL DEF Spec

-----------------------------------------------------------------------------
(* The two audit logs.                                                     *)

IsSequence(s) == s \in Seq(Range(s))

\* A server has the text of its event still to write to a log.
Ahead(s, stream) ==
    \/ emitting[s].stream = stream /\ emitting[s].part = "text"
    \/ emitting[s].stream = "all" /\ stream = "policy"

\* A server has written the text at a place, nothing since, and its newline is next.
Ends(s, stream, i) ==
    /\ emitting[s].stream = stream /\ emitting[s].part = "newline"
    /\ log[stream][i] = [kind |-> "text", event |-> emitting[s].event]
    /\ \A j \in i + 1 .. Len(log[stream]) : log[stream][j].event.by # s

\* An event that is about to be written, or has been, is the one that was made.
AsMade(e) == e.nr \in DOMAIN events /\ e = [events[e.nr] EXCEPT !.detail = e.detail]

\* A server has an event of its own or none, and the policy log has the policy's only.
WriterOK(s) ==
    \/ emitting[s] = Trail!Idle
    \/ /\ emitting[s] = [event |-> emitting[s].event, stream |-> emitting[s].stream, part |-> emitting[s].part]
       /\ emitting[s].stream \in Trail!Stream /\ emitting[s].part \in {"text", "newline"}
       /\ AsMade(emitting[s].event) /\ emitting[s].event.by = s
       /\ emitting[s].stream = "policy" => Trail!PolicyTakes(emitting[s].event)

LogOK(stream) ==
    /\ IsSequence(log[stream])
    /\ \A i \in DOMAIN log[stream] :
          /\ AsMade(log[stream][i].event)
          /\ stream = "policy" => Trail!PolicyTakes(log[stream][i].event)

TrailShape ==
    /\ emitting = [s \in Writers |-> emitting[s]] /\ \A s \in Writers : WriterOK(s)
    /\ log = [stream \in Trail!Stream |-> log[stream]] /\ \A stream \in Trail!Stream : LogOK(stream)

EventsOK ==
    /\ IsSequence(events)
    /\ \A nr \in DOMAIN events :
          /\ events[nr] = [by |-> events[nr].by, nr |-> nr, outcome |-> events[nr].outcome,
                           detail |-> events[nr].detail, denied_by |-> events[nr].denied_by]
          /\ events[nr].denied_by # {} <=> Trail!PolicyTakes(events[nr])

\* Of a text that is still to be written nothing stands in the log.
NotYetWritten ==
    \A s \in Writers, stream \in Trail!Stream : Ahead(s, stream) => Trail!Texts(stream, emitting[s].event.nr) = {}

\* What has one number is one event, wherever it stands and whoever writes it, and no
\* log has its text twice.
OneEvent ==
    /\ \A p, q \in Trail!Stream : \A i \in DOMAIN log[p], k \in DOMAIN log[q] :
          log[p][i].event.nr = log[q][k].event.nr =>
              /\ log[p][i].event = log[q][k].event
              /\ p = q /\ log[p][i].kind # "newline" /\ log[q][k].kind # "newline" => i = k
    /\ \A s \in Writers, q \in Trail!Stream : \A k \in DOMAIN log[q] :
          Trail!Writing(s) /\ emitting[s].event.nr = log[q][k].event.nr => emitting[s].event = log[q][k].event

\* A text begins a line or is glued to what may be, and has ended, is about to end, or
\* has failed to end, its line.
LinesKept ==
    \A stream \in Trail!Stream : \A i \in DOMAIN log[stream] : log[stream][i].kind # "newline" =>
        /\ Trail!BeginsItsLine(stream, i)
        /\ \/ log[stream][i].event.nr \in failures \/ Trail!EndsItsLine(stream, i)
           \/ \E s \in Writers : Ends(s, stream, i)

\* What has not failed stands in its logs or is about to.
Comes(stream, nr) == Trail!Texts(stream, nr) # {} \/ \E s \in Writers : Ahead(s, stream) /\ emitting[s].event.nr = nr
NothingForgotten ==
    \A nr \in DOMAIN events \ failures :
        Comes("all", nr) /\ (Trail!PolicyTakes(events[nr]) => Comes("policy", nr))

TrailInv == TrailShape /\ EventsOK /\ NotYetWritten /\ OneEvent /\ LinesKept /\ NothingForgotten

\* A sequence grows at its end.
LEMMA GrowFacts ==
    ASSUME NEW s, IsSequence(s), NEW e
    PROVE  /\ IsSequence(Append(s, e)) /\ Len(s) \in Nat
           /\ DOMAIN s = 1 .. Len(s) /\ DOMAIN Append(s, e) = 1 .. Len(s) + 1
           /\ Append(s, e)[Len(s) + 1] = e
           /\ \A i \in 1 .. Len(s) : Append(s, e)[i] = s[i]
  <1> DEFINE S == Range(s) \cup {e}
  <1>1. s \in Seq(S)
    BY ElementOfSeq, SeqMonotonic DEF IsSequence
  <1>2. /\ Append(s, e) \in Seq(S) /\ Len(s) \in Nat /\ DOMAIN s = 1 .. Len(s)
        /\ Len(Append(s, e)) = Len(s) + 1 /\ Append(s, e)[Len(s) + 1] = e
        /\ \A i \in 1 .. Len(s) : Append(s, e)[i] = s[i]
    BY <1>1, AppendProperties, LenProperties
  <1>3. DOMAIN Append(s, e) = 1 .. Len(s) + 1
    BY <1>2, LenProperties
  <1>4. IsSequence(Append(s, e))
    BY <1>2, SeqOfRange DEF IsSequence
  <1>5. QED
    BY <1>2, <1>3, <1>4

\* A new event is the last one, and the others are what they were.
LEMMA EmitStep == TrailInv /\ Trail!Emit => TrailInv'
  <1> SUFFICES ASSUME TrailInv, Trail!Emit PROVE TrailInv'
    OBVIOUS
  <1> USE DEF TrailInv
  <1>1. PICK s \in Writers, e \in Emitted :
            LET event == Trail!DispatchEvent(s, Len(events) + 1, e.outcome, e.detail)
                scrubbed == [event EXCEPT !.detail = Trail!Redact(secrets, @)]
            IN  /\ emitting[s] = Trail!Idle
                /\ events' = Append(events, event)
                /\ emitting' = [emitting EXCEPT ![s] = [event |-> scrubbed, stream |-> "all", part |-> "text"]]
    BY DEF Trail!Emit
  <1>2. UNCHANGED <<secrets, log, failures>>
    BY DEF Trail!Emit
  <1>3. PICK new : new = Trail!DispatchEvent(s, Len(events) + 1, e.outcome, e.detail)
    OBVIOUS
  <1>4. PICK text : text = Trail!Redact(secrets, e.detail)
    OBVIOUS
  <1>5. PICK number : number = Len(events) + 1
    OBVIOUS
  <1>6. PICK scr : scr = [new EXCEPT !.detail = text]
    OBVIOUS
  <1>7. new = [by |-> s, nr |-> number, outcome |-> e.outcome, detail |-> e.detail, denied_by |-> new.denied_by]
    BY <1>3, <1>5 DEF Trail!DispatchEvent
  <1>8. new.denied_by # {} <=> Trail!PolicyTakes(new)
    <2>1. e.outcome \in Trail!Outcome
      BY AuditsAssumption DEF Trail!AuditTrailConstants
    <2>2. new.denied_by = IF e.outcome \in DOMAIN Trail!DeniedBy THEN {Trail!DeniedBy[e.outcome]} ELSE {}
      BY <1>3 DEF Trail!DispatchEvent
    <2>3. e.outcome \in DOMAIN Trail!DeniedBy <=> e.outcome \notin Trail!Execution
      BY <2>1 DEF Trail!Outcome, Trail!Execution, Trail!DeniedBy
    <2>4. new.outcome = e.outcome
      BY <1>7
    <2>5. Trail!PolicyTakes(new) <=> e.outcome \notin Trail!Execution
      BY <2>4 DEF Trail!PolicyTakes, Trail!Category
    <2>6. new.denied_by # {} <=> e.outcome \in DOMAIN Trail!DeniedBy
      BY <2>2
    <2>7. QED
      BY <2>3, <2>5, <2>6
  <1>9. /\ scr = [new EXCEPT !.detail = scr.detail] /\ scr.nr = number /\ new.nr = number /\ scr.by = s
    BY <1>6, <1>7
  <1>10. /\ events' = Append(events, new)
         /\ emitting' = [emitting EXCEPT ![s] = [event |-> scr, stream |-> "all", part |-> "text"]]
    <2>1. new.detail = e.detail
      BY <1>7
    <2>2. scr = [new EXCEPT !.detail = Trail!Redact(secrets, new.detail)]
      BY <1>4, <1>6, <2>1
    <2>3. QED
      BY <1>1, <1>3, <2>2
  <1>11. /\ IsSequence(events') /\ number \in Nat \ {0} /\ DOMAIN events = 1 .. number - 1 /\ DOMAIN events' = 1 .. number
         /\ events'[number] = new /\ \A nr \in DOMAIN events : events'[nr] = events[nr] /\ nr # number
    BY <1>5, <1>10, GrowFacts DEF EventsOK
  <1>12. /\ emitting' = [t \in Writers |-> emitting'[t]]
         /\ emitting'[s] = [event |-> scr, stream |-> "all", part |-> "text"]
         /\ \A t \in Writers : t # s => emitting'[t] = emitting[t]
    BY <1>10 DEF TrailShape
  <1>13. /\ ~Trail!Writing(s)
         /\ \A stream \in Trail!Stream : ~Ahead(s, stream) /\ Ahead(s, stream)' /\ \A i : ~Ends(s, stream, i)
    <2>1. emitting[s].stream = "none" /\ "none" \notin Trail!Stream
      BY <1>1 DEF Trail!Idle, Trail!Stream
    <2>2. emitting'[s].stream = "all" /\ emitting'[s].part = "text"
      BY <1>12
    <2>3. \A stream \in Trail!Stream : stream = "all" \/ stream = "policy"
      BY DEF Trail!Stream
    <2>4. QED
      BY <2>1, <2>2, <2>3 DEF Trail!Writing, Ahead, Ends, Trail!Stream
  <1>14. \A t \in Writers : t # s => /\ Trail!Writing(t)' <=> Trail!Writing(t)
                                     /\ \A stream : Ahead(t, stream)' <=> Ahead(t, stream)
                                     /\ \A stream, i : Ends(t, stream, i)' <=> Ends(t, stream, i)
    BY <1>2, <1>12 DEF Trail!Writing, Ahead, Ends
  <1>15. \A stream, nr : Trail!Texts(stream, nr)' = Trail!Texts(stream, nr)
    BY <1>2 DEF Trail!Texts
  <1>16. \A x : AsMade(x) => AsMade(x)' /\ x.nr \in DOMAIN events /\ x.nr # number
    BY <1>11 DEF AsMade
  <1>17. AsMade(scr)'
    BY <1>9, <1>11 DEF AsMade
  <1>18. EventsOK'
    <2>1. \A nr \in DOMAIN events' :
              /\ events'[nr] = [by |-> events'[nr].by, nr |-> nr, outcome |-> events'[nr].outcome,
                                detail |-> events'[nr].detail, denied_by |-> events'[nr].denied_by]
              /\ events'[nr].denied_by # {} <=> Trail!PolicyTakes(events'[nr])
      <3> SUFFICES ASSUME NEW nr \in DOMAIN events'
                   PROVE  /\ events'[nr] = [by |-> events'[nr].by, nr |-> nr, outcome |-> events'[nr].outcome,
                                            detail |-> events'[nr].detail, denied_by |-> events'[nr].denied_by]
                          /\ events'[nr].denied_by # {} <=> Trail!PolicyTakes(events'[nr])
        OBVIOUS
      <3>1. CASE nr = number
        BY <1>7, <1>8, <1>11, <3>1
      <3>2. CASE nr # number
        BY <1>11, <3>2 DEF EventsOK
      <3>3. QED
        BY <3>1, <3>2
    <2>2. QED
      BY <1>11, <2>1 DEF EventsOK, Trail!PolicyTakes
  <1>19. TrailShape'
    <2>1. ASSUME NEW t \in Writers, t # s PROVE WriterOK(t)'
      <3>1. emitting'[t] = emitting[t] /\ WriterOK(t)
        BY <1>12, <2>1 DEF TrailShape
      <3>2. AsMade(emitting[t].event) => AsMade(emitting[t].event)'
        BY <1>16, <3>1 DEF AsMade
      <3>3. QED
        BY <3>1, <3>2 DEF WriterOK, Trail!PolicyTakes
    <2>2. WriterOK(s)'
      <3>1. /\ emitting'[s].event = scr /\ emitting'[s].stream = "all" /\ emitting'[s].part = "text"
            /\ "all" \in Trail!Stream
        BY <1>12 DEF Trail!Stream
      <3>2. AsMade(emitting[s].event)'
        BY <1>17, <3>1 DEF AsMade
      <3>3. QED
        BY <1>9, <1>12, <3>1, <3>2 DEF WriterOK
    <2>3. \A stream \in Trail!Stream : LogOK(stream)'
      BY <1>2, <1>16 DEF TrailShape, LogOK, AsMade, Trail!PolicyTakes
    <2>4. QED
      BY <1>2, <1>12, <2>1, <2>2, <2>3 DEF TrailShape
  <1>20. \A q \in Trail!Stream : \A k \in DOMAIN log[q] : log[q][k].event.nr \in DOMAIN events /\ log[q][k].event.nr # number
    BY <1>16 DEF TrailShape, LogOK
  <1>21. NotYetWritten'
    <2>1. ASSUME NEW t \in Writers, NEW q \in Trail!Stream, Ahead(t, q)'
          PROVE  Trail!Texts(q, emitting'[t].event.nr) = {}
      <3>1. CASE t = s
        <4>1. emitting'[t].event.nr = number
          BY <1>9, <1>12, <3>1
        <4>2. QED
          BY <1>20, <4>1 DEF Trail!Texts
      <3>2. CASE t # s
        BY <1>12, <1>14, <2>1, <3>2 DEF NotYetWritten
      <3>3. QED
        BY <3>1, <3>2
    <2>2. QED
      BY <1>2, <2>1 DEF NotYetWritten, Trail!Texts
  <1>22. OneEvent'
    <2>1. ASSUME NEW t \in Writers, NEW q \in Trail!Stream, NEW k \in DOMAIN log[q],
                 Trail!Writing(t)', emitting'[t].event.nr = log[q][k].event.nr
          PROVE  emitting'[t].event = log[q][k].event
      <3>1. CASE t = s
        BY <1>9, <1>12, <1>20, <2>1, <3>1
      <3>2. CASE t # s
        BY <1>12, <1>14, <2>1, <3>2 DEF OneEvent
      <3>3. QED
        BY <3>1, <3>2
    <2>2. QED
      BY <1>2, <2>1 DEF OneEvent
  <1>23. LinesKept'
    <2> SUFFICES ASSUME NEW q \in Trail!Stream, NEW i \in DOMAIN log[q], log[q][i].kind # "newline"
                 PROVE  /\ Trail!BeginsItsLine(q, i)'
                        /\ \/ log[q][i].event.nr \in failures \/ Trail!EndsItsLine(q, i)'
                           \/ \E t \in Writers : Ends(t, q, i)'
      BY <1>2 DEF LinesKept
    <2>1. /\ Trail!BeginsItsLine(q, i)' <=> Trail!BeginsItsLine(q, i)
          /\ Trail!EndsItsLine(q, i)' <=> Trail!EndsItsLine(q, i)
      BY <1>2 DEF Trail!BeginsItsLine, Trail!EndsItsLine
    <2>2. QED
      BY <1>13, <1>14, <2>1 DEF LinesKept
  <1>24. NothingForgotten'
    <2> SUFFICES ASSUME NEW nr \in DOMAIN events' \ failures, NEW q \in Trail!Stream,
                        q = "policy" => Trail!PolicyTakes(events'[nr])
                 PROVE  Comes(q, nr)'
      BY <1>2 DEF NothingForgotten, Trail!Stream, Trail!PolicyTakes
    <2>1. CASE nr = number
      BY <1>9, <1>12, <1>13, <2>1 DEF Comes
    <2>2. CASE nr # number
      <3>1. nr \in DOMAIN events \ failures /\ events'[nr] = events[nr]
        BY <1>11, <2>2
      <3>2. Comes(q, nr)
        BY <3>1 DEF NothingForgotten, Trail!Stream
      <3>3. QED
        BY <1>12, <1>13, <1>14, <1>15, <3>2 DEF Comes
    <2>3. QED
      BY <2>1, <2>2
  <1>25. QED
    BY <1>18, <1>19, <1>21, <1>22, <1>23, <1>24

\* A server's turn: what it appends to the log of its stream, if anything, and whether it
\* has its newline, the other stream or nothing next.
Grows(s, kind) ==
    /\ log' = [q \in Trail!Stream |-> log'[q]]
    /\ \A q \in Trail!Stream :
          /\ IsSequence(log'[q]) /\ Len(log[q]) \in Nat /\ Len(log'[q]) \in Nat
          /\ DOMAIN log[q] = 1 .. Len(log[q]) /\ DOMAIN log'[q] = 1 .. Len(log'[q])
          /\ \A i \in DOMAIN log[q] : i \in DOMAIN log'[q] /\ log'[q][i] = log[q][i]
          /\ \A i \in DOMAIN log'[q] \ DOMAIN log[q] :
                /\ kind # "none" /\ q = emitting[s].stream /\ i = Len(log[q]) + 1
                /\ log'[q][i] = [kind |-> kind, event |-> emitting[s].event]
    /\ kind # "none" => Len(log[emitting[s].stream]) + 1 \in
                            DOMAIN log'[emitting[s].stream] \ DOMAIN log[emitting[s].stream]

Passes(s) ==
    /\ emitting[s].stream = "all" /\ Trail!PolicyTakes(emitting[s].event)
    /\ emitting'[s] = [event |-> emitting[s].event, stream |-> "policy", part |-> "text"]

Turn(s, kind) ==
    /\ Trail!Writing(s) /\ events' = events
    /\ emitting' = [t \in Writers |-> emitting'[t]] /\ \A t \in Writers : t # s => emitting'[t] = emitting[t]
    /\ Grows(s, kind)
    /\ \/ /\ kind = "text" /\ emitting[s].part = "text" /\ failures' = failures
          /\ emitting'[s] = [event |-> emitting[s].event, stream |-> emitting[s].stream, part |-> "newline"]
       \/ /\ kind = "newline" /\ emitting[s].part = "newline" /\ failures' = failures
          /\ \/ Passes(s)
             \/ emitting'[s] = Trail!Idle /\ ~(emitting[s].stream = "all" /\ Trail!PolicyTakes(emitting[s].event))
       \/ /\ kind \in {"torn", "none"} /\ (kind = "torn" => emitting[s].part = "text")
          /\ failures' = failures \cup {emitting[s].event.nr}
          /\ Passes(s) \/ emitting'[s] = Trail!Idle

\* What a server that writes has before it.
LEMMA WritingFacts ==
    ASSUME TrailShape, NEW s \in Writers, Trail!Writing(s)
    PROVE  /\ emitting[s] = [event |-> emitting[s].event, stream |-> emitting[s].stream, part |-> emitting[s].part]
           /\ emitting[s].stream \in Trail!Stream /\ emitting[s].part \in {"text", "newline"}
           /\ AsMade(emitting[s].event) /\ emitting[s].event.by = s
           /\ emitting[s].stream = "policy" => Trail!PolicyTakes(emitting[s].event)
  BY DEF TrailShape, WriterOK, Trail!Writing, Trail!Idle

\* An append makes one log longer by one chunk.
LEMMA AppendGrows ==
    ASSUME TrailShape, NEW s \in Writers, Trail!Writing(s), NEW kind, kind # "none", Trail!Appends(s, kind)
    PROVE  Grows(s, kind)
  <1>1. PICK stream : stream = emitting[s].stream
    OBVIOUS
  <1>2. PICK chunk : chunk = [kind |-> kind, event |-> emitting[s].event]
    OBVIOUS
  <1>3. stream \in Trail!Stream
    BY <1>1, WritingFacts
  <1>4. log = [q \in Trail!Stream |-> log[q]] /\ \A q \in Trail!Stream : IsSequence(log[q])
    BY DEF TrailShape, LogOK
  <1>5. log' = [log EXCEPT ![stream] = Append(@, chunk)]
    BY <1>1, <1>2 DEF Trail!Appends
  <1>6. /\ log' = [q \in Trail!Stream |-> log'[q]] /\ log'[stream] = Append(log[stream], chunk)
        /\ \A q \in Trail!Stream : q # stream => log'[q] = log[q]
    BY <1>3, <1>4, <1>5
  <1>7. ASSUME NEW q \in Trail!Stream
        PROVE  /\ IsSequence(log'[q]) /\ Len(log[q]) \in Nat /\ Len(log'[q]) \in Nat
               /\ DOMAIN log[q] = 1 .. Len(log[q]) /\ DOMAIN log'[q] = 1 .. Len(log'[q])
               /\ \A i \in DOMAIN log[q] : i \in DOMAIN log'[q] /\ log'[q][i] = log[q][i]
               /\ \A i \in DOMAIN log'[q] \ DOMAIN log[q] : q = stream /\ i = Len(log[q]) + 1 /\ log'[q][i] = chunk
    <2>1. IsSequence(log[q])
      BY <1>4
    <2>2. Len(log[q]) \in Nat /\ DOMAIN log[q] = 1 .. Len(log[q])
      BY <2>1, GrowFacts
    <2>3. CASE q = stream
      <3>1. /\ IsSequence(log'[q]) /\ DOMAIN log'[q] = 1 .. Len(log[q]) + 1 /\ log'[q][Len(log[q]) + 1] = chunk
            /\ \A i \in 1 .. Len(log[q]) : log'[q][i] = log[q][i]
        <4>1. log'[q] = Append(log[q], chunk)
          BY <1>6, <2>3
        <4>2. /\ IsSequence(Append(log[q], chunk)) /\ DOMAIN Append(log[q], chunk) = 1 .. Len(log[q]) + 1
              /\ Append(log[q], chunk)[Len(log[q]) + 1] = chunk
              /\ \A i \in 1 .. Len(log[q]) : Append(log[q], chunk)[i] = log[q][i]
          BY <2>1, GrowFacts
        <4>3. QED
          BY <4>1, <4>2
      <3>2. Len(log'[q]) \in Nat /\ DOMAIN log'[q] = 1 .. Len(log'[q])
        BY <3>1, GrowFacts
      <3>3. QED
        BY <2>2, <2>3, <3>1, <3>2
    <2>4. CASE q # stream
      BY <1>6, <2>1, <2>2, <2>4
    <2>5. QED
      BY <2>3, <2>4
  <1>8. Len(log[stream]) + 1 \in DOMAIN log'[stream] \ DOMAIN log[stream]
    <2>1. IsSequence(log[stream])
      BY <1>3, <1>4
    <2>2. Len(log[stream]) \in Nat /\ DOMAIN log[stream] = 1 .. Len(log[stream])
          /\ DOMAIN log'[stream] = 1 .. Len(log[stream]) + 1
      BY <1>6, <2>1, GrowFacts
    <2>3. QED
      BY <2>2
  <1>9. QED
    BY <1>1, <1>2, <1>6, <1>7, <1>8 DEF Grows

\* Where nothing is written no log grows.
LEMMA NothingGrows ==
    ASSUME TrailShape, NEW s \in Writers, log' = log
    PROVE  Grows(s, "none")
  <1>1. \A q \in Trail!Stream : IsSequence(log[q])
    BY DEF TrailShape, LogOK
  <1>2. \A q \in Trail!Stream : Len(log[q]) \in Nat /\ DOMAIN log[q] = 1 .. Len(log[q])
    BY <1>1, GrowFacts
  <1>3. log' = [q \in Trail!Stream |-> log'[q]]
    BY DEF TrailShape
  <1>4. QED
    BY <1>1, <1>2, <1>3 DEF Grows

\* The actions of the servers are turns.
LEMMA EveryTurn ==
    ASSUME TrailInv, NEW s \in Writers,
           Trail!WriteText(s) \/ Trail!WriteNewline(s) \/ Trail!WriteFails(s) \/ Trail!KillWriter(s)
    PROVE  \E kind \in {"text", "newline", "torn", "none"} : Turn(s, kind)
  <1>1. TrailShape /\ Trail!Writing(s) /\ events' = events
    BY DEF TrailInv, Trail!WriteText, Trail!WriteNewline, Trail!WriteFails, Trail!KillWriter, Trail!Fails
  <1>2. emitting = [t \in Writers |-> emitting[t]]
    BY <1>1 DEF TrailShape
  <1>3. ASSUME NEW next, emitting' = [emitting EXCEPT ![s] = next]
        PROVE  /\ emitting' = [t \in Writers |-> emitting'[t]] /\ emitting'[s] = next
               /\ \A t \in Writers : t # s => emitting'[t] = emitting[t]
    BY <1>2, <1>3
  <1>4. Trail!Onward(s) =>
            /\ emitting' = [t \in Writers |-> emitting'[t]] /\ \A t \in Writers : t # s => emitting'[t] = emitting[t]
            /\ \/ Passes(s)
               \/ emitting'[s] = Trail!Idle /\ ~(emitting[s].stream = "all" /\ Trail!PolicyTakes(emitting[s].event))
    <2>1. PICK next : next = IF emitting[s].stream = "all" /\ Trail!PolicyTakes(emitting[s].event)
                             THEN [event |-> emitting[s].event, stream |-> "policy", part |-> "text"] ELSE Trail!Idle
      OBVIOUS
    <2>2. Trail!Onward(s) => emitting' = [emitting EXCEPT ![s] = next]
      BY <2>1 DEF Trail!Onward
    <2>3. QED
      BY <1>3, <2>1, <2>2 DEF Passes
  <1>5. CASE Trail!WriteText(s)
    <2>1. /\ emitting[s].part = "text" /\ Trail!Appends(s, "text") /\ failures' = failures
          /\ emitting' = [emitting EXCEPT ![s] = [event |-> emitting[s].event, stream |-> emitting[s].stream, part |-> "newline"]]
      BY <1>5 DEF Trail!WriteText
    <2>2. Grows(s, "text")
      BY <1>1, <2>1, AppendGrows
    <2>3. QED
      BY <1>1, <1>3, <2>1, <2>2 DEF Turn
  <1>6. CASE Trail!WriteNewline(s)
    <2>1. emitting[s].part = "newline" /\ Trail!Appends(s, "newline") /\ failures' = failures /\ Trail!Onward(s)
      BY <1>6 DEF Trail!WriteNewline
    <2>2. Grows(s, "newline")
      BY <1>1, <2>1, AppendGrows
    <2>3. QED
      BY <1>1, <1>4, <2>1, <2>2 DEF Turn
  <1>7. CASE Trail!WriteFails(s) \/ Trail!KillWriter(s)
    <2>1. /\ failures' = failures \cup {emitting[s].event.nr}
          /\ log' = log \/ (emitting[s].part = "text" /\ Trail!Appends(s, "torn"))
      BY <1>7 DEF Trail!WriteFails, Trail!KillWriter, Trail!Fails
    <2>2. PICK kind \in {"torn", "none"} : Grows(s, kind) /\ (kind = "torn" => emitting[s].part = "text")
      BY <1>1, <2>1, AppendGrows, NothingGrows
    <2>3. /\ emitting' = [t \in Writers |-> emitting'[t]] /\ \A t \in Writers : t # s => emitting'[t] = emitting[t]
          /\ Passes(s) \/ emitting'[s] = Trail!Idle
      BY <1>3, <1>4, <1>7 DEF Trail!WriteFails, Trail!KillWriter
    <2>4. Turn(s, kind)
      BY <1>1, <2>1, <2>2, <2>3 DEF Turn
    <2>5. QED
      BY <2>4
  <1>8. QED
    BY <1>5, <1>6, <1>7

\* An event that was made says who made it, and goes where its outcome sends it.
LEMMA MadeFacts ==
    ASSUME EventsOK, NEW e, AsMade(e)
    PROVE  /\ e.nr \in DOMAIN events /\ e.by = events[e.nr].by
           /\ Trail!PolicyTakes(e) <=> Trail!PolicyTakes(events[e.nr])
  <1>1. e.nr \in DOMAIN events /\ e = [events[e.nr] EXCEPT !.detail = e.detail]
    BY DEF AsMade
  <1>2. PICK text : text = e.detail
    OBVIOUS
  <1>3. PICK one : one = events[e.nr]
    OBVIOUS
  <1>4. one = [by |-> one.by, nr |-> e.nr, outcome |-> one.outcome, detail |-> one.detail, denied_by |-> one.denied_by]
    BY <1>1, <1>3 DEF EventsOK
  <1>5. [one EXCEPT !.detail = text] = [by |-> one.by, nr |-> e.nr, outcome |-> one.outcome,
                                        detail |-> text, denied_by |-> one.denied_by]
    BY <1>4
  <1>6. e.by = one.by /\ e.outcome = one.outcome
    BY <1>1, <1>2, <1>3, <1>5
  <1>7. QED
    BY <1>1, <1>3, <1>6 DEF Trail!PolicyTakes

\* A turn is one server's: it goes on with its event, and no other server has it.
LEMMA TurnFacts ==
    ASSUME TrailInv, NEW s \in Writers, NEW kind, Turn(s, kind)
    PROVE  /\ emitting[s].stream \in Trail!Stream /\ AsMade(emitting[s].event) /\ emitting[s].event.by = s
           /\ emitting[s].stream = "policy" => Trail!PolicyTakes(emitting[s].event)
           /\ WriterOK(s)' /\ (Trail!Writing(s)' => emitting'[s].event = emitting[s].event)
           /\ \A q \in Trail!Stream : Ahead(s, q)' => Ahead(s, q) /\ q # emitting[s].stream
           /\ \A t \in Writers : t # s =>
                 /\ emitting'[t] = emitting[t]
                 /\ Trail!Writing(t) => emitting[t].event.nr # emitting[s].event.nr /\ emitting[t].event.by = t
           /\ failures \subseteq failures'
  <1>1. /\ emitting[s] = [event |-> emitting[s].event, stream |-> emitting[s].stream, part |-> emitting[s].part]
        /\ emitting[s].stream \in Trail!Stream /\ AsMade(emitting[s].event) /\ emitting[s].event.by = s
        /\ emitting[s].stream = "policy" => Trail!PolicyTakes(emitting[s].event)
    BY WritingFacts DEF TrailInv, Turn
  <1>2. PICK e : e = emitting[s].event
    OBVIOUS
  <1>3. \/ emitting'[s] = [event |-> e, stream |-> emitting[s].stream, part |-> "newline"]
        \/ /\ emitting[s].stream = "all" /\ Trail!PolicyTakes(e)
           /\ emitting'[s] = [event |-> e, stream |-> "policy", part |-> "text"]
        \/ emitting'[s] = [stream |-> "none"]
    BY <1>2 DEF Turn, Passes, Trail!Idle
  <1>4. AsMade(e) /\ AsMade(e)' /\ e.by = s
    BY <1>1, <1>2 DEF AsMade, Turn
  <1>5. /\ WriterOK(s)' /\ (Trail!Writing(s)' => emitting'[s].event = emitting[s].event)
        /\ \A q \in Trail!Stream : Ahead(s, q)' => Ahead(s, q) /\ q # emitting[s].stream
    <2>1. CASE emitting'[s] = [stream |-> "none"]
      <3>1. emitting'[s].stream = "none" /\ WriterOK(s)'
        BY <2>1 DEF WriterOK, Trail!Idle
      <3>2. ~Trail!Writing(s)' /\ \A q \in Trail!Stream : ~Ahead(s, q)'
        BY <3>1 DEF Trail!Writing, Ahead, Trail!Stream
      <3>3. QED
        BY <3>1, <3>2
    <2>2. ASSUME NEW stream \in Trail!Stream, NEW part \in {"text", "newline"},
                 stream = "policy" => Trail!PolicyTakes(e),
                 emitting'[s] = [event |-> e, stream |-> stream, part |-> part]
          PROVE  WriterOK(s)' /\ emitting'[s].event = e /\ emitting'[s].stream = stream /\ emitting'[s].part = part
      <3>1. emitting'[s].event = e /\ emitting'[s].stream = stream /\ emitting'[s].part = part
        BY <2>2
      <3>2. AsMade(emitting[s].event)'
        BY <1>4, <3>1 DEF AsMade
      <3>3. QED
        BY <1>4, <2>2, <3>1, <3>2 DEF WriterOK, Trail!PolicyTakes
    <2>3. CASE emitting'[s] = [event |-> e, stream |-> emitting[s].stream, part |-> "newline"]
      <3>1. WriterOK(s)' /\ emitting'[s].event = e /\ emitting'[s].stream = emitting[s].stream /\ emitting'[s].part = "newline"
        BY <1>1, <1>2, <2>2, <2>3
      <3>2. \A q \in Trail!Stream : Ahead(s, q)' => Ahead(s, q) /\ q # emitting[s].stream
        BY <3>1 DEF Ahead
      <3>3. QED
        BY <1>2, <3>1, <3>2
    <2>4. CASE /\ emitting[s].stream = "all" /\ Trail!PolicyTakes(e)
               /\ emitting'[s] = [event |-> e, stream |-> "policy", part |-> "text"]
      <3>1. WriterOK(s)' /\ emitting'[s].event = e /\ emitting'[s].stream = "policy"
        BY <2>2, <2>4 DEF Trail!Stream
      <3>2. \A q \in Trail!Stream : Ahead(s, q)' => Ahead(s, q) /\ q # emitting[s].stream
        BY <2>4, <3>1 DEF Ahead
      <3>3. QED
        BY <1>2, <3>1, <3>2
    <2>5. QED
      BY <1>3, <2>1, <2>3, <2>4
  <1>6. ASSUME NEW t \in Writers, t # s
        PROVE  /\ emitting'[t] = emitting[t]
               /\ Trail!Writing(t) => emitting[t].event.nr # e.nr /\ emitting[t].event.by = t
    <2>1. emitting'[t] = emitting[t]
      BY <1>6 DEF Turn
    <2>2. ASSUME Trail!Writing(t) PROVE emitting[t].event.nr # e.nr /\ emitting[t].event.by = t
      <3>1. AsMade(emitting[t].event) /\ emitting[t].event.by = t
        BY <2>2, WritingFacts DEF TrailInv
      <3>2. \A x : AsMade(x) => x.by = events[x.nr].by
        BY MadeFacts DEF TrailInv
      <3>3. QED
        BY <1>4, <1>6, <3>1, <3>2
    <2>3. QED
      BY <2>1, <2>2
  <1>7. failures \subseteq failures'
    BY DEF Turn
  <1>8. QED
    BY <1>1, <1>2, <1>5, <1>6, <1>7

\* What is found of an event after a turn was there before, or is the new text.
LEMMA TextsFacts ==
    ASSUME TrailInv, NEW s \in Writers, NEW kind, Turn(s, kind), NEW q \in Trail!Stream, NEW nr
    PROVE  /\ Trail!Texts(q, nr) \subseteq Trail!Texts(q, nr)'
           /\ q # emitting[s].stream \/ nr # emitting[s].event.nr \/ kind \notin {"text", "torn"} =>
                  Trail!Texts(q, nr)' = Trail!Texts(q, nr)
           /\ q = emitting[s].stream /\ nr = emitting[s].event.nr /\ kind = "text" => Trail!Texts(q, nr)' # {}
  <1>1. /\ \A i \in DOMAIN log[q] : i \in DOMAIN log'[q] /\ log'[q][i] = log[q][i]
        /\ \A i \in DOMAIN log'[q] \ DOMAIN log[q] :
              /\ kind # "none" /\ q = emitting[s].stream
              /\ log'[q][i].kind = kind /\ log'[q][i].event = emitting[s].event
    BY DEF Turn, Grows
  <1>2. kind \in {"text", "newline", "torn", "none"}
    BY DEF Turn
  <1>3. Trail!Texts(q, nr) \subseteq Trail!Texts(q, nr)'
    BY <1>1 DEF Trail!Texts
  <1>4. ASSUME q # emitting[s].stream \/ nr # emitting[s].event.nr \/ kind \notin {"text", "torn"}
        PROVE  Trail!Texts(q, nr)' \subseteq Trail!Texts(q, nr)
    BY <1>1, <1>2, <1>4 DEF Trail!Texts
  <1>5. ASSUME q = emitting[s].stream, nr = emitting[s].event.nr, kind = "text" PROVE Trail!Texts(q, nr)' # {}
    <2>1. PICK i \in DOMAIN log'[q] : i \notin DOMAIN log[q]
      BY <1>5 DEF Turn, Grows
    <2>2. log'[q][i].kind = "text" /\ log'[q][i].event.nr = nr
      BY <1>1, <1>5, <2>1
    <2>3. QED
      BY <2>1, <2>2 DEF Trail!Texts
  <1>6. QED
    BY <1>3, <1>4, <1>5

\* What a turn keeps, one part of the invariant after the other.
LEMMA TurnShape == ASSUME TrailInv, NEW s \in Writers, NEW kind, Turn(s, kind) PROVE TrailShape' /\ EventsOK'
  <1>1. EventsOK'
    BY DEF TrailInv, EventsOK, Turn, Trail!PolicyTakes
  <1>2. \A x : AsMade(x) => AsMade(x)'
    BY DEF AsMade, Turn
  <1>3. ASSUME NEW t \in Writers PROVE WriterOK(t)'
    <2>1. CASE t = s
      BY <2>1, TurnFacts
    <2>2. CASE t # s
      <3>1. emitting'[t] = emitting[t] /\ WriterOK(t)
        BY <2>2, TurnFacts DEF TrailInv, TrailShape
      <3>2. AsMade(emitting[t].event) => AsMade(emitting[t].event)'
        BY <1>2, <3>1 DEF AsMade
      <3>3. QED
        BY <3>1, <3>2 DEF WriterOK, Trail!PolicyTakes
    <2>3. QED
      BY <2>1, <2>2
  <1>4. ASSUME NEW q \in Trail!Stream PROVE LogOK(q)'
    <2>1. ASSUME NEW i \in DOMAIN log'[q]
          PROVE  AsMade(log'[q][i].event) /\ (q = "policy" => Trail!PolicyTakes(log'[q][i].event))
      <3>1. CASE i \in DOMAIN log[q]
        <4>1. log'[q][i] = log[q][i] /\ LogOK(q)
          BY <3>1 DEF Turn, Grows, TrailInv, TrailShape
        <4>2. QED
          BY <3>1, <4>1 DEF LogOK
      <3>2. CASE i \notin DOMAIN log[q]
        <4>1. log'[q][i].event = emitting[s].event /\ q = emitting[s].stream
          BY <3>2 DEF Turn, Grows
        <4>2. QED
          BY <4>1, TurnFacts
      <3>3. QED
        BY <3>1, <3>2
    <2>2. IsSequence(log'[q])
      BY DEF Turn, Grows
    <2>3. \A i \in DOMAIN log'[q] : AsMade(log[q][i].event)' /\ (q = "policy" => Trail!PolicyTakes(log[q][i].event)')
      BY <1>2, <2>1 DEF AsMade, Trail!PolicyTakes
    <2>4. QED
      BY <2>2, <2>3 DEF LogOK
  <1>5. QED
    BY <1>1, <1>3, <1>4 DEF TrailShape, Turn, Grows

LEMMA TurnNotYetWritten ==
    ASSUME TrailInv, NEW s \in Writers, NEW kind, Turn(s, kind) PROVE NotYetWritten'
  <1>1. ASSUME NEW t \in Writers, NEW q \in Trail!Stream, NEW nr, nr = emitting'[t].event.nr, Ahead(t, q)'
        PROVE  Trail!Texts(q, nr)' = {}
    <2>1. CASE t = s
      <3>1. Ahead(s, q) /\ q # emitting[s].stream
        BY <1>1, <2>1, TurnFacts
      <3>2. Trail!Writing(s)'
        BY <1>1, <2>1 DEF Ahead, Trail!Writing, Trail!Stream
      <3>3. nr = emitting[s].event.nr
        BY <1>1, <2>1, <3>2, TurnFacts
      <3>4. Trail!Texts(q, nr)' = Trail!Texts(q, nr)
        BY <3>1, TextsFacts
      <3>5. QED
        BY <3>1, <3>3, <3>4 DEF TrailInv, NotYetWritten
    <2>2. CASE t # s
      <3>1. emitting'[t] = emitting[t] /\ Ahead(t, q)
        BY <1>1, <2>2, TurnFacts DEF Ahead
      <3>2. Trail!Writing(t)
        BY <3>1 DEF Ahead, Trail!Writing, Trail!Stream
      <3>3. nr # emitting[s].event.nr
        BY <1>1, <2>2, <3>1, <3>2, TurnFacts
      <3>4. Trail!Texts(q, nr)' = Trail!Texts(q, nr)
        BY <3>3, TextsFacts
      <3>5. QED
        BY <1>1, <3>1, <3>4 DEF TrailInv, NotYetWritten
    <2>3. QED
      BY <2>1, <2>2
  <1>2. QED
    BY <1>1 DEF NotYetWritten, Trail!Texts

LEMMA TurnOneEvent ==
    ASSUME TrailInv, NEW s \in Writers, NEW kind, Turn(s, kind) PROVE OneEvent'
  <1>1. PICK e : e = emitting[s].event
    OBVIOUS
  <1>2. ASSUME NEW q \in Trail!Stream, NEW k \in DOMAIN log'[q]
        PROVE  \/ k \in DOMAIN log[q] /\ log'[q][k] = log[q][k]
               \/ /\ k \notin DOMAIN log[q] /\ k = Len(log[q]) + 1 /\ q = emitting[s].stream
                  /\ log'[q][k].event = e /\ log'[q][k].kind = kind /\ kind # "none"
    BY <1>1 DEF Turn, Grows
  <1>3. \A q \in Trail!Stream : \A k \in DOMAIN log[q] : log[q][k].event.nr = e.nr => log[q][k].event = e
    BY <1>1 DEF TrailInv, OneEvent, Turn
  <1>4. kind \in {"text", "torn"} => \A k \in Trail!Texts(emitting[s].stream, e.nr) : FALSE
    <2>1. kind \in {"text", "torn"} => Ahead(s, emitting[s].stream)
      BY DEF Turn, Ahead
    <2>2. QED
      BY <1>1, <2>1, TurnFacts DEF TrailInv, NotYetWritten
  <1>5. kind \in {"text", "newline", "torn", "none"}
    BY DEF Turn
  <1>6. ASSUME NEW p \in Trail!Stream, NEW q \in Trail!Stream, NEW i \in DOMAIN log'[p], NEW k \in DOMAIN log'[q],
               log'[p][i].event.nr = log'[q][k].event.nr
        PROVE  log'[p][i].event = log'[q][k].event
    <2>1. CASE i \in DOMAIN log[p] /\ k \in DOMAIN log[q]
      <3>1. log'[p][i] = log[p][i] /\ log'[q][k] = log[q][k]
        BY <1>2, <2>1
      <3>2. QED
        BY <1>6, <2>1, <3>1 DEF TrailInv, OneEvent
    <2>2. CASE i \notin DOMAIN log[p] \/ k \notin DOMAIN log[q]
      <3>1. log'[p][i].event.nr = e.nr /\ log'[q][k].event.nr = e.nr
        BY <1>2, <1>6, <2>2
      <3>2. log'[p][i].event = e /\ log'[q][k].event = e
        BY <1>2, <1>3, <3>1
      <3>3. QED
        BY <3>2
    <2>3. QED
      BY <2>1, <2>2
  <1>7. ASSUME NEW q \in Trail!Stream, NEW i \in DOMAIN log'[q], NEW k \in DOMAIN log'[q],
               log'[q][i].event.nr = log'[q][k].event.nr, log'[q][i].kind # "newline", log'[q][k].kind # "newline"
        PROVE  i = k
    <2>1. CASE i \in DOMAIN log[q] /\ k \in DOMAIN log[q]
      <3>1. log'[q][i] = log[q][i] /\ log'[q][k] = log[q][k]
        BY <1>2, <2>1
      <3>2. QED
        BY <1>7, <2>1, <3>1 DEF TrailInv, OneEvent
    <2>2. CASE i \notin DOMAIN log[q] \/ k \notin DOMAIN log[q]
      <3>1. kind \in {"text", "torn"} /\ q = emitting[s].stream /\ log'[q][i].event.nr = e.nr /\ log'[q][k].event.nr = e.nr
        BY <1>2, <1>5, <1>7, <2>2
      <3>2. i \notin DOMAIN log[q]
        BY <1>2, <1>4, <1>7, <3>1 DEF Trail!Texts
      <3>3. k \notin DOMAIN log[q]
        BY <1>2, <1>4, <1>7, <3>1 DEF Trail!Texts
      <3>4. QED
        BY <1>2, <3>2, <3>3
    <2>3. QED
      BY <2>1, <2>2
  <1>8. ASSUME NEW t \in Writers, NEW q \in Trail!Stream, NEW k \in DOMAIN log'[q], Trail!Writing(t)',
               emitting'[t].event.nr = log'[q][k].event.nr
        PROVE  emitting'[t].event = log'[q][k].event
    <2>1. CASE t = s
      <3>1. emitting'[t].event = e
        BY <1>1, <1>8, <2>1, TurnFacts
      <3>2. QED
        BY <1>2, <1>3, <1>8, <3>1
    <2>2. CASE t # s
      <3>1. emitting'[t] = emitting[t] /\ Trail!Writing(t)
        BY <1>8, <2>2, TurnFacts DEF Trail!Writing
      <3>2. emitting[t].event.nr # e.nr
        BY <1>1, <2>2, <3>1, TurnFacts
      <3>3. k \in DOMAIN log[q] /\ log'[q][k] = log[q][k]
        BY <1>2, <1>8, <3>1, <3>2
      <3>4. QED
        BY <1>8, <3>1, <3>3 DEF TrailInv, OneEvent
    <2>3. QED
      BY <2>1, <2>2
  <1>9. QED
    BY <1>6, <1>7, <1>8 DEF OneEvent

\* A line that has ended has, and one whose newline is next gets it, if nothing fails;
\* a new text comes after lines its own server has ended or failed to end.
LEMMA TurnLines ==
    ASSUME TrailInv, NEW s \in Writers, NEW kind, Turn(s, kind) PROVE LinesKept'
  <1>1. PICK e : e = emitting[s].event
    OBVIOUS
  <1>2. e.by = s /\ failures \subseteq failures'
    BY <1>1, TurnFacts
  <1>3. ASSUME NEW q \in Trail!Stream
        PROVE  /\ Len(log[q]) \in Nat /\ Len(log'[q]) \in Nat
               /\ DOMAIN log[q] = 1 .. Len(log[q]) /\ DOMAIN log'[q] = 1 .. Len(log'[q])
               /\ \A k \in DOMAIN log[q] : k \in DOMAIN log'[q] /\ log'[q][k] = log[q][k]
               /\ \A k \in DOMAIN log'[q] \ DOMAIN log[q] :
                     /\ k = Len(log[q]) + 1 /\ q = emitting[s].stream /\ kind # "none"
                     /\ log'[q][k] = [kind |-> kind, event |-> e]
    BY <1>1 DEF Turn, Grows
  <1>4. ASSUME NEW q \in Trail!Stream, NEW i \in DOMAIN log[q], log[q][i].kind # "newline"
        PROVE  /\ Trail!BeginsItsLine(q, i)'
               /\ \/ log'[q][i].event.nr \in failures' \/ Trail!EndsItsLine(q, i)'
                  \/ \E t \in Writers : Ends(t, q, i)'
    <2>1. /\ Trail!BeginsItsLine(q, i)
          /\ \/ log[q][i].event.nr \in failures \/ Trail!EndsItsLine(q, i)
             \/ \E t \in Writers : Ends(t, q, i)
      BY <1>4 DEF TrailInv, LinesKept
    <2>2. Trail!BeginsItsLine(q, i)'
      <3>1. i = 1 \/ (i - 1 \in DOMAIN log[q] /\ log'[q][i - 1] = log[q][i - 1])
        BY <1>3, <1>4
      <3>2. log'[q][i] = log[q][i]
        BY <1>3, <1>4
      <3>3. QED
        BY <1>2, <2>1, <3>1, <3>2 DEF Trail!BeginsItsLine
    <2>3. ASSUME Trail!EndsItsLine(q, i) PROVE Trail!EndsItsLine(q, i)'
      <3>1. PICK k \in DOMAIN log[q] :
                /\ i < k /\ log[q][i].kind = "text"
                /\ log[q][k] = [kind |-> "newline", event |-> log[q][i].event]
                /\ \A j \in i + 1 .. k - 1 : log[q][j].event.by # log[q][i].event.by
        BY <2>3 DEF Trail!EndsItsLine
      <3>2. \A j \in i .. k : j \in DOMAIN log'[q] /\ log'[q][j] = log[q][j]
        BY <1>3, <1>4
      <3>3. i \in i .. k /\ k \in i .. k /\ \A j \in i + 1 .. k - 1 : j \in i .. k
        BY <1>3, <1>4, <3>1
      <3>4. QED
        BY <3>1, <3>2, <3>3 DEF Trail!EndsItsLine
    <2>4. ASSUME NEW t \in Writers, t # s, Ends(t, q, i) PROVE Ends(t, q, i)'
      <3>1. emitting'[t] = emitting[t]
        BY <2>4, TurnFacts
      <3>2. log'[q][i] = log[q][i]
        BY <1>3, <1>4
      <3>3. ASSUME NEW j \in i + 1 .. Len(log'[q]) PROVE log'[q][j].event.by # t
        <4>1. j \in DOMAIN log'[q]
          BY <1>3, <1>4
        <4>2. CASE j \in DOMAIN log[q]
          BY <1>3, <1>4, <2>4, <4>2 DEF Ends
        <4>3. CASE j \notin DOMAIN log[q]
          BY <1>2, <1>3, <2>4, <4>1, <4>3
        <4>4. QED
          BY <4>2, <4>3
      <3>4. QED
        BY <2>4, <3>1, <3>2, <3>3 DEF Ends
    <2>5. ASSUME Ends(s, q, i) PROVE log'[q][i].event.nr \in failures' \/ Trail!EndsItsLine(q, i)'
      <3>1. /\ emitting[s].stream = q /\ emitting[s].part = "newline"
            /\ log[q][i] = [kind |-> "text", event |-> e]
            /\ \A j \in i + 1 .. Len(log[q]) : log[q][j].event.by # s
        BY <1>1, <2>5 DEF Ends
      <3>2. log'[q][i] = log[q][i] /\ log[q][i].kind = "text" /\ log[q][i].event = e
        BY <1>3, <1>4, <3>1
      <3>3. kind = "newline" \/ e.nr \in failures'
        BY <1>1, <3>1 DEF Turn
      <3>4. CASE kind = "newline"
        <4>1. PICK k \in DOMAIN log'[q] : k \notin DOMAIN log[q]
          BY <3>1, <3>4 DEF Turn, Grows
        <4>2. k = Len(log[q]) + 1 /\ log'[q][k] = [kind |-> "newline", event |-> e]
          BY <1>3, <3>4, <4>1
        <4>3. i < k /\ \A j \in i + 1 .. k - 1 : log'[q][j].event.by # e.by
          BY <1>2, <1>3, <1>4, <3>1, <4>2
        <4>4. QED
          BY <3>2, <4>2, <4>3 DEF Trail!EndsItsLine
      <3>5. QED
        BY <3>2, <3>3, <3>4
    <2>6. log'[q][i] = log[q][i]
      BY <1>3, <1>4
    <2>7. QED
      BY <1>2, <2>1, <2>2, <2>3, <2>4, <2>5, <2>6
  <1>5. ASSUME NEW q \in Trail!Stream, NEW i \in DOMAIN log'[q], i \notin DOMAIN log[q], log'[q][i].kind # "newline"
        PROVE  /\ Trail!BeginsItsLine(q, i)'
               /\ log'[q][i].event.nr \in failures' \/ Ends(s, q, i)'
    <2>1. /\ i = Len(log[q]) + 1 /\ q = emitting[s].stream
          /\ log'[q][i] = [kind |-> kind, event |-> e]
          /\ log'[q][i].kind = kind /\ log'[q][i].event = e
      BY <1>3, <1>5
    <2>2. kind \in {"text", "torn"} /\ emitting[s].part = "text"
      BY <1>3, <1>5, <2>1 DEF Turn
    <2>3. Trail!BeginsItsLine(q, i)'
      <3> SUFFICES ASSUME i # 1, log[q][i - 1].kind # "newline", log[q][i - 1].event.by = s
                   PROVE  log[q][i - 1].event.nr \in failures
        <4>1. i = 1 \/ (i - 1 \in DOMAIN log[q] /\ log'[q][i - 1] = log[q][i - 1])
          BY <1>3, <2>1
        <4>2. QED
          BY <1>2, <2>1, <4>1 DEF Trail!BeginsItsLine
      <3>1. i - 1 \in DOMAIN log[q] /\ i - 1 = Len(log[q])
        BY <1>3, <2>1
      <3>2. \/ log[q][i - 1].event.nr \in failures \/ Trail!EndsItsLine(q, i - 1)
            \/ \E t \in Writers : Ends(t, q, i - 1)
        BY <3>1 DEF TrailInv, LinesKept
      <3>3. ~Trail!EndsItsLine(q, i - 1)
        BY <1>3, <3>1 DEF Trail!EndsItsLine
      <3>4. ASSUME NEW t \in Writers, Ends(t, q, i - 1) PROVE FALSE
        <4>1. emitting[t].stream = q /\ emitting[t].part = "newline" /\ log[q][i - 1].event = emitting[t].event
          BY <3>4 DEF Ends
        <4>2. Trail!Writing(t)
          BY <4>1 DEF Trail!Writing, Trail!Stream
        <4>3. emitting[t].event.by = t
          BY <4>2, WritingFacts DEF TrailInv
        <4>4. QED
          BY <2>2, <4>1, <4>3
      <3>5. QED
        BY <3>2, <3>3, <3>4
    <2>4. log'[q][i].event.nr \in failures' \/ Ends(s, q, i)'
      <3>1. CASE kind = "torn"
        BY <1>1, <2>1, <3>1 DEF Turn
      <3>2. CASE kind = "text"
        <4>1. emitting'[s] = [event |-> e, stream |-> q, part |-> "newline"]
          BY <1>1, <2>1, <3>2 DEF Turn
        <4>2. emitting'[s].event = e /\ emitting'[s].stream = q /\ emitting'[s].part = "newline"
          BY <4>1
        <4>3. Len(log'[q]) = i
          <5>1. \A j \in DOMAIN log'[q] : j <= i
            BY <1>3, <2>1
          <5>2. Len(log'[q]) \in DOMAIN log'[q] /\ i <= Len(log'[q])
            BY <1>3, <1>5
          <5>3. QED
            BY <1>3, <2>1, <5>1, <5>2
        <4>4. i + 1 .. Len(log'[q]) = {}
          BY <1>3, <2>1, <4>3
        <4>5. QED
          BY <2>1, <3>2, <4>2, <4>4 DEF Ends
      <3>3. QED
        BY <2>2, <3>1, <3>2
    <2>5. QED
      BY <2>3, <2>4
  <1>6. QED
    <2> SUFFICES ASSUME NEW q \in Trail!Stream, NEW i \in DOMAIN log'[q], log'[q][i].kind # "newline"
                 PROVE  /\ Trail!BeginsItsLine(q, i)'
                        /\ \/ log'[q][i].event.nr \in failures' \/ Trail!EndsItsLine(q, i)'
                           \/ \E t \in Writers : Ends(t, q, i)'
      BY DEF LinesKept
    <2>1. CASE i \in DOMAIN log[q]
      BY <1>3, <1>4, <2>1
    <2>2. CASE i \notin DOMAIN log[q]
      BY <1>5, <2>2
    <2>3. QED
      BY <2>1, <2>2

LEMMA TurnForgetsNothing ==
    ASSUME TrailInv, NEW s \in Writers, NEW kind, Turn(s, kind) PROVE NothingForgotten'
  <1> SUFFICES ASSUME NEW nr \in DOMAIN events \ failures', NEW q \in Trail!Stream,
                      q = "policy" => Trail!PolicyTakes(events[nr])
               PROVE  Comes(q, nr)'
    BY DEF NothingForgotten, Turn, Trail!Stream, Trail!PolicyTakes
  <1>1. Comes(q, nr)
    BY TurnFacts DEF TrailInv, NothingForgotten, Trail!Stream
  <1>2. CASE Trail!Texts(q, nr) # {}
    BY <1>2, TextsFacts DEF Comes
  <1>3. ASSUME NEW t \in Writers, Ahead(t, q), emitting[t].event.nr = nr, t # s
        PROVE  Comes(q, nr)'
    <2>1. emitting'[t] = emitting[t]
      BY <1>3, TurnFacts
    <2>2. Ahead(t, q)' /\ emitting'[t].event.nr = nr
      BY <1>3, <2>1 DEF Ahead
    <2>3. QED
      BY <2>2 DEF Comes
  <1>4. ASSUME Ahead(s, q), emitting[s].event.nr = nr
        PROVE  Comes(q, nr)'
    <2>1. \/ /\ kind = "text" /\ emitting[s].part = "text"
             /\ emitting'[s] = [event |-> emitting[s].event, stream |-> emitting[s].stream, part |-> "newline"]
          \/ /\ kind = "newline" /\ emitting[s].part = "newline"
             /\ Passes(s) \/ ~(emitting[s].stream = "all" /\ Trail!PolicyTakes(emitting[s].event))
      BY <1>4 DEF Turn
    <2>2. CASE kind = "text" /\ q = emitting[s].stream
      BY <1>4, <2>2, TextsFacts DEF Comes
    <2>3. CASE kind = "text" /\ q # emitting[s].stream
      <3>1. emitting[s].stream = "all" /\ q = "policy"
        BY <1>4, <2>3 DEF Ahead
      <3>2. emitting'[s].stream = "all" /\ emitting'[s].event.nr = nr
        BY <1>4, <2>1, <2>3, <3>1
      <3>3. Ahead(s, q)'
        BY <3>1, <3>2 DEF Ahead
      <3>4. QED
        BY <3>2, <3>3 DEF Comes
    <2>4. CASE kind = "newline"
      <3>1. emitting[s].stream = "all" /\ q = "policy"
        BY <1>4, <2>1, <2>4 DEF Ahead
      <3>2. Trail!PolicyTakes(emitting[s].event)
        <4>1. AsMade(emitting[s].event)
          BY TurnFacts
        <4>2. QED
          BY <1>4, <3>1, <4>1, MadeFacts DEF TrailInv
      <3>3. Passes(s)
        BY <2>1, <2>4, <3>1, <3>2
      <3>4. emitting'[s].stream = "policy" /\ emitting'[s].part = "text" /\ emitting'[s].event.nr = nr
        BY <1>4, <3>3 DEF Passes
      <3>5. Ahead(s, q)'
        BY <3>1, <3>4 DEF Ahead
      <3>6. QED
        BY <3>4, <3>5 DEF Comes
    <2>5. QED
      BY <2>1, <2>2, <2>3, <2>4
  <1>5. QED
    BY <1>1, <1>2, <1>3, <1>4 DEF Comes

\* Before an event is made there is nothing in the logs, and nothing to write.
LEMMA TrailInitial == Trail!TrailInit => TrailInv
  <1> SUFFICES ASSUME Trail!TrailInit PROVE TrailInv
    OBVIOUS
  <1>1. /\ emitting = [s \in Writers |-> Trail!Idle] /\ log = [stream \in Trail!Stream |-> <<>>]
        /\ events = <<>> /\ failures = {}
    BY DEF Trail!TrailInit
  <1>2. IsSequence(<<>>) /\ DOMAIN <<>> = {}
    BY DEF IsSequence
  <1>3. \A stream \in Trail!Stream : log[stream] = <<>>
    BY <1>1
  <1>4. \A s \in Writers : emitting[s] = Trail!Idle
    BY <1>1
  <1>5. TrailShape
    <2>1. \A stream \in Trail!Stream : LogOK(stream)
      BY <1>2, <1>3 DEF LogOK
    <2>2. \A s \in Writers : WriterOK(s)
      BY <1>4 DEF WriterOK
    <2>3. QED
      BY <1>1, <2>1, <2>2 DEF TrailShape
  <1>6. EventsOK /\ OneEvent /\ LinesKept /\ NothingForgotten
    BY <1>1, <1>2, <1>3 DEF EventsOK, OneEvent, LinesKept, NothingForgotten
  <1>7. NotYetWritten
    BY <1>2, <1>3 DEF NotYetWritten, Trail!Texts
  <1>8. QED
    BY <1>5, <1>6, <1>7 DEF TrailInv

\* A step that changes nothing of the logs leaves what is said of them.
LEMMA TrailUntouched == TrailInv /\ UNCHANGED trailVars => TrailInv'
  <1> SUFFICES ASSUME TrailInv, UNCHANGED trailVars PROVE TrailInv'
    OBVIOUS
  <1>1. UNCHANGED <<emitting, log, events, failures>>
    BY DEF trailVars
  <1>2. TrailShape'
    BY <1>1 DEF TrailInv, TrailShape, WriterOK, LogOK, AsMade, Trail!PolicyTakes
  <1>3. EventsOK' /\ OneEvent'
    BY <1>1 DEF TrailInv, EventsOK, OneEvent, Trail!PolicyTakes, Trail!Writing
  <1>4. NotYetWritten'
    BY <1>1 DEF TrailInv, NotYetWritten, Ahead, Trail!Texts
  <1>5. LinesKept'
    BY <1>1 DEF TrailInv, LinesKept, Ends, Trail!BeginsItsLine, Trail!EndsItsLine
  <1>6. NothingForgotten'
    BY <1>1 DEF TrailInv, NothingForgotten, Comes, Ahead, Trail!Texts, Trail!PolicyTakes
  <1>7. QED
    BY <1>2, <1>3, <1>4, <1>5, <1>6 DEF TrailInv

\* A step of the part keeps its invariant, and so does a step of another part.
LEMMA TrailKept == TrailInv /\ [Trail!TrailNext]_trailVars => TrailInv'
  <1> SUFFICES ASSUME TrailInv, [Trail!TrailNext]_trailVars PROVE TrailInv'
    OBVIOUS
  <1>1. CASE UNCHANGED trailVars \/ Trail!TrailDone
    BY <1>1, TrailUntouched DEF Trail!TrailDone, Trail!trailVars, trailVars
  <1>2. CASE Trail!Emit
    BY <1>2, EmitStep
  <1>3. ASSUME NEW s \in Writers,
               Trail!WriteText(s) \/ Trail!WriteNewline(s) \/ Trail!WriteFails(s) \/ Trail!KillWriter(s)
        PROVE  TrailInv'
    <2>1. PICK kind : Turn(s, kind)
      BY <1>3, EveryTurn
    <2>2. QED
      BY <2>1, TurnShape, TurnNotYetWritten, TurnOneEvent, TurnLines, TurnForgetsNothing DEF TrailInv
  <1>4. QED
    BY <1>1, <1>2, <1>3 DEF Trail!TrailNext

\* The logs, too, go on by their own steps.
LEMMA TrailRuns ==
    /\ Init => (subject = "trail" => TrailInv)
    /\ [Next]_vars => subject' = subject /\ (subject = "trail" => [Trail!TrailNext]_trailVars)
  <1>1. Init => (subject = "trail" => TrailInv)
    BY TrailInitial DEF Init
  <1>2. [Next]_vars => subject' = subject /\ (subject = "trail" => [Trail!TrailNext]_trailVars)
    BY DEF Next, HistoryStep, QueueStep, FleetStep, CycleStep, RepoStep, StartStep, TrailStep, CliStep, vars
  <1>3. QED
    BY <1>1, <1>2

\* Servers write to the same two files, a text and then its newline, a stream at a time;
\* any write may fail, in part too, and a server may be killed between two: for any
\* number of servers, events and failures no log has the text of an event twice, both
\* have the same of it, and an event no write of which failed is in the log of all
\* events, and in the policy log exactly when a gate denied it.  Such a text is whole
\* and its newline follows, with nothing in between but what other servers wrote; and
\* it begins a line but after a write that failed or before the end of another's line.
THEOREM TrailAgrees == Spec => []AuditTrailAgrees
  <1> DEFINE inv == subject = "trail" => TrailInv
  <1>1. Init => inv
    BY TrailRuns
  <1>2. inv /\ [Next]_vars => inv'
    BY TrailRuns, TrailKept
  <1>3. inv => AuditTrailAgrees
    <2> SUFFICES ASSUME subject = "trail", TrailInv, NEW nr \in DOMAIN events
                 PROVE  /\ \A stream \in Trail!Stream : \A i \in Trail!Texts(stream, nr) :
                               /\ Trail!Texts(stream, nr) = {i} /\ Trail!BeginsItsLine(stream, i)
                               /\ log[stream][i].event = [events[nr] EXCEPT !.detail = log[stream][i].event.detail]
                               /\ nr \notin failures \cup Trail!Unfinished => Trail!EndsItsLine(stream, i)
                        /\ \A i \in Trail!Texts("all", nr), k \in Trail!Texts("policy", nr) :
                               log["all"][i].event = log["policy"][k].event
                        /\ nr \notin failures \cup Trail!Unfinished =>
                               /\ Trail!Texts("all", nr) # {}
                               /\ Trail!Texts("policy", nr) # {} <=> events[nr].denied_by # {}
      BY DEF AuditTrailAgrees, Trail!AuditTrailAgrees
    <2> USE DEF TrailInv
    <2>1. \A stream \in Trail!Stream : \A i \in Trail!Texts(stream, nr) :
              i \in DOMAIN log[stream] /\ log[stream][i].event.nr = nr /\ log[stream][i].kind # "newline"
      BY DEF Trail!Texts
    <2>2. ASSUME NEW stream \in Trail!Stream, NEW i \in Trail!Texts(stream, nr)
          PROVE  /\ Trail!Texts(stream, nr) = {i} /\ Trail!BeginsItsLine(stream, i)
                 /\ log[stream][i].event = [events[nr] EXCEPT !.detail = log[stream][i].event.detail]
                 /\ nr \notin failures \cup Trail!Unfinished => Trail!EndsItsLine(stream, i)
      <3>1. Trail!Texts(stream, nr) = {i}
        BY <2>1, <2>2 DEF OneEvent
      <3>2. /\ Trail!BeginsItsLine(stream, i)
            /\ \/ nr \in failures \/ Trail!EndsItsLine(stream, i)
               \/ \E s \in Writers : Ends(s, stream, i)
        BY <2>1 DEF LinesKept
      <3>3. log[stream][i].event = [events[nr] EXCEPT !.detail = log[stream][i].event.detail]
        BY <2>1 DEF TrailShape, LogOK, AsMade
      <3>4. ASSUME NEW s \in Writers, Ends(s, stream, i) PROVE nr \in Trail!Unfinished
        <4>1. emitting[s].stream = stream /\ log[stream][i].event = emitting[s].event
          BY <3>4 DEF Ends
        <4>2. Trail!Writing(s)
          BY <4>1 DEF Trail!Writing, Trail!Stream
        <4>3. QED
          BY <2>1, <4>1, <4>2 DEF Trail!Unfinished
      <3>5. QED
        BY <3>1, <3>2, <3>3, <3>4
    <2>3. \A i \in Trail!Texts("all", nr), k \in Trail!Texts("policy", nr) :
              log["all"][i].event = log["policy"][k].event
      BY <2>1 DEF OneEvent, Trail!Stream
    <2>4. ASSUME nr \notin failures \cup Trail!Unfinished
          PROVE  /\ Trail!Texts("all", nr) # {}
                 /\ Trail!Texts("policy", nr) # {} <=> events[nr].denied_by # {}
      <3>1. \A s \in Writers, stream \in Trail!Stream : Ahead(s, stream) => emitting[s].event.nr # nr
        BY <2>4 DEF Ahead, Trail!Writing, Trail!Stream, Trail!Unfinished
      <3>2. /\ Trail!Texts("all", nr) # {}
            /\ Trail!PolicyTakes(events[nr]) => Trail!Texts("policy", nr) # {}
        BY <2>4, <3>1 DEF NothingForgotten, Comes, Trail!Stream
      <3>3. \A k \in Trail!Texts("policy", nr) : Trail!PolicyTakes(events[nr])
        <4>1. ASSUME NEW k \in Trail!Texts("policy", nr) PROVE Trail!PolicyTakes(events[nr])
          <5>1. k \in DOMAIN log["policy"] /\ log["policy"][k].event.nr = nr
            BY <2>1 DEF Trail!Stream
          <5>2. AsMade(log["policy"][k].event) /\ Trail!PolicyTakes(log["policy"][k].event)
            BY <5>1 DEF TrailShape, LogOK, Trail!Stream
          <5>3. QED
            BY <5>1, <5>2, MadeFacts
        <4>2. QED
          BY <4>1
      <3>4. QED
        BY <3>2, <3>3 DEF EventsOK
    <2>5. QED
      BY <2>2, <2>3, <2>4
  <1>4. QED
    BY <1>1, <1>2, <1>3, PTL DEF Spec
=============================================================================
