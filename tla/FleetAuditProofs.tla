-------------------------- MODULE FleetAuditProofs ---------------------------
(***************************************************************************)
(* What is proved of the fleet audit, a part of Audits: it finds what ran  *)
(* all through its scan under a worker, and no job that no worker ran,     *)
(* whatever processes start and end meanwhile.  The invariant says what    *)
(* the processes have of each other (Family), what the index has of them   *)
(* (Index), that who has a job from elsewhere is under no worker there     *)
(* (Strangers), and what has been found (Found).                           *)
(***************************************************************************)
EXTENDS Audits, Integers, Functions, FiniteSetTheorems, SequenceTheorems, WellFoundedInduction, TLAPS

-----------------------------------------------------------------------------
(* The invariant.                                                          *)

IsSequence(s) == s \in Seq(Range(s))

\* What a process may have in its environment that its worker gave it.
Given == Range(JobOf) \cup {Fleet!NoJob}

\* The processes and what they have of each other: a process has a smaller pid for
\* its parent, and its parent's job, or is a child of init.
Family ==
    /\ process = [p \in Fleet!Alive |-> [ppid |-> process[p].ppid, job |-> process[p].job]]
    /\ Fleet!Alive \subseteq Fleet!Pid /\ 1 \in Fleet!Alive /\ process[1].ppid = 0
    /\ \A p \in Fleet!Alive \cap ({1} \cup Fleet!Workers) : process[p].job = Fleet!NoJob
    /\ \A p \in Fleet!Alive \ {1} :
          /\ process[p].ppid \in Fleet!Alive /\ process[p].ppid < p
          /\ process[p].ppid \in Fleet!Workers => process[p].job = JobOf[process[p].ppid]
          /\ process[p].ppid \notin Fleet!Workers \cup {1} => process[p].job = process[process[p].ppid].job

\* What the index says of a process was so, and still is when it has run through.
Index ==
    /\ scan = [step |-> scan.step, at |-> scan.at, half |-> scan.half, index |-> scan.index, found |-> scan.found]
    /\ scan.index = [p \in DOMAIN scan.index |-> [ppid |-> scan.index[p].ppid, worker |-> scan.index[p].worker]]
    /\ DOMAIN scan.index \subseteq Fleet!Pid
    /\ \A p \in DOMAIN scan.index : scan.index[p].worker => p \in Fleet!Workers
    /\ scan.at \in Nat /\ scan.half \in Nat
    /\ scan.step = "before" => DOMAIN scan.index = {} /\ scan.at = 0 /\ scan.half = 0 /\ through = {}
    /\ scan.step = "index" =>
          /\ \A p \in Fleet!Alive : p <= scan.at => p \in DOMAIN scan.index
          /\ \A p \in DOMAIN scan.index : p <= scan.at
          /\ scan.at = 0 \/ scan.at \in DOMAIN scan.index
          /\ scan.half = 0 \/ scan.half \in DOMAIN scan.index
    /\ through \subseteq Fleet!Alive
    /\ scan.step \in {"find", "told"} => through \subseteq DOMAIN scan.index
    /\ \A p \in through \cap DOMAIN scan.index :
          /\ scan.index[p].ppid = process[p].ppid
          /\ ~(scan.step = "index" /\ scan.half = p) => (scan.index[p].worker <=> p \in Fleet!Workers)

\* The strangers in the index, whose jobs no worker gave, are among processes no
\* worker is an indexed ancestor of.
Closed(T) ==
    /\ T \subseteq DOMAIN scan.index \ Fleet!Workers
    /\ \A p \in T : scan.index[p].ppid \in T \cup {0}
    /\ 1 \in DOMAIN scan.index => 1 \in T
    /\ \A p \in Fleet!Alive \cap DOMAIN scan.index : process[p].job \notin Given => p \in T

Strangers == \E T \in SUBSET DOMAIN scan.index : Closed(T)

\* What is found has a job a worker gave, and what ran through is found.
Found ==
    /\ IsSequence(scan.found)
    /\ scan.step \in {"before", "index"} => scan.found = <<>>
    /\ \A i \in DOMAIN scan.found : scan.found[i].job \in Range(JobOf)
    /\ scan.step = "find" /\ scan.half # 0 =>
          scan.half \in DOMAIN scan.index /\ Fleet!HasRunnerWorkerAncestor(scan.half, scan.index)
    /\ scan.step \in {"find", "told"} =>
          \A p \in through :
              p <= scan.at /\ (scan.step = "told" \/ p # scan.half) /\ process[p].job # Fleet!NoJob
                  /\ Fleet!HasRunnerWorkerAncestor(p, scan.index)
                  => \E i \in DOMAIN scan.found : scan.found[i].job = process[p].job

Reported ==
    /\ scan.step \in {"before", "index", "find", "told"}
    /\ scan.step = "told" =>
          /\ \A p \in through : p <= scan.at
          /\ fleet_told = [jobs |-> Fleet!DedupeFleet(scan.found),
                           exit |-> IF Fleet!FleetReport(scan.found).ready THEN "ok" ELSE "failed"]

FleetInv == Family /\ Index /\ Strangers /\ Found /\ Reported

-----------------------------------------------------------------------------
(* Numbers, sequences and the ways up.                                     *)

\* A sequence grows at its end.
LEMMA GrowFacts ==
    ASSUME NEW s, IsSequence(s), NEW e
    PROVE  /\ IsSequence(Append(s, e)) /\ Len(s) \in Nat
           /\ DOMAIN s = 1 .. Len(s) /\ DOMAIN Append(s, e) = 1 .. Len(s) + 1
           /\ Append(s, e)[Len(s) + 1] = e
           /\ \A i \in 1 .. Len(s) : Append(s, e)[i] = s[i]
  <1> DEFINE S == Range(s) \cup {e}
  <1>1. s \in Seq(S)
    BY ElementOfSeq, SeqMonotonic DEF IsSequence
  <1>2. /\ Append(s, e) \in Seq(S) /\ Len(s) \in Nat /\ DOMAIN s = 1 .. Len(s)
        /\ Len(Append(s, e)) = Len(s) + 1 /\ Append(s, e)[Len(s) + 1] = e
        /\ \A i \in 1 .. Len(s) : Append(s, e)[i] = s[i]
    BY <1>1, AppendProperties, LenProperties
  <1>3. DOMAIN Append(s, e) = 1 .. Len(s) + 1
    BY <1>2, LenProperties
  <1>4. IsSequence(Append(s, e))
    BY <1>2, SeqOfRange DEF IsSequence
  <1>5. QED
    BY <1>2, <1>3, <1>4

\* A sequence begins with nothing.
LEMMA NothingIsSequence == IsSequence(<<>>)
  BY DEF IsSequence

\* A set of numbers has a least one.
LEMMA LeastOf ==
    ASSUME NEW S, S \subseteq Nat, S # {}
    PROVE  \E x \in S : \A y \in S : x <= y
  <1>1. PICK x \in S : \A y \in S : ~(<<y, x>> \in OpToRel(<, Nat))
    BY NatLessThanWellFounded, WFMin, Zenon
  <1>2. \A y \in S : ~(y < x)
    BY <1>1 DEF OpToRel
  <1>3. QED
    BY <1>2

\* The next entry of a directory, and the last.
LEMMA MinFacts ==
    ASSUME NEW S, S \subseteq Nat, S # {}
    PROVE  Fleet!Min(S) \in S /\ \A y \in S : Fleet!Min(S) <= y
  <1>1. \E x \in S : \A y \in S : x <= y
    BY LeastOf
  <1>2. QED
    BY <1>1 DEF Fleet!Min

\* The greatest of the pids.
LEMMA MaxFacts ==
    ASSUME NEW S, S \subseteq Fleet!Pid, S # {}
    PROVE  Fleet!Max(S) \in S /\ \A y \in S : Fleet!Max(S) >= y
  <1> DEFINE bounds == {n \in Nat : \A y \in S : y <= n}
  <1>1. MaxPid \in Nat
    BY AuditsAssumption DEF Fleet!FleetAuditConstants
  <1>2. S \subseteq Nat /\ MaxPid \in bounds
    BY <1>1 DEF Fleet!Pid
  <1>3. PICK x \in bounds : \A y \in bounds : x <= y
    <2>1. bounds \subseteq Nat /\ bounds # {}
      BY <1>2
    <2>2. QED
      <3> HIDE DEF bounds
      <3>1. QED
        BY <2>1, LeastOf
  <1>4. x \in S
    <2> SUFFICES ASSUME x \notin S PROVE FALSE
      OBVIOUS
    <2>1. \A y \in S : y <= x /\ y # x /\ y \in Nat /\ y >= 1
      BY <1>2 DEF Fleet!Pid
    <2>2. x \in Nat
      OBVIOUS
    <2>3. x - 1 \in Nat /\ \A y \in S : y <= x - 1
      <3> HIDE DEF bounds
      <3>1. PICK y \in S : y <= x /\ y # x /\ y \in Nat /\ y >= 1
        BY <2>1
      <3>2. QED
        BY <2>1, <2>2, <3>1
    <2>4. x - 1 \in bounds
      BY <2>3
    <2>5. QED
      BY <1>3, <2>2, <2>4
  <1>5. \E z \in S : \A y \in S : z >= y
    BY <1>2, <1>4
  <1>6. QED
    BY <1>5 DEF Fleet!Max

\* The way up from a process, as far as n.
Climbs(up, pid, index, n) ==
    up = [d \in 0 .. n |->
             IF d = 0 THEN pid ELSE IF up[d - 1] \in DOMAIN index THEN index[up[d - 1]].ppid ELSE 0]

\* There is one, however far one goes: the least distance to which there is none
\* would be one further than one to which there is.
LEMMA ClimbExists ==
    ASSUME NEW pid, NEW index
    PROVE  \A n \in Nat : \E up : Climbs(up, pid, index, n)
  <1> DEFINE stuck == {n \in Nat : ~\E up : Climbs(up, pid, index, n)}
  <1> SUFFICES ASSUME stuck # {} PROVE FALSE
    OBVIOUS
  <1>1. PICK n \in stuck : \A k \in stuck : n <= k
    <2>1. stuck \subseteq Nat
      OBVIOUS
    <2>2. QED
      <3> HIDE DEF stuck
      <3>1. QED
        BY <2>1, LeastOf
  <1>2. n \in Nat /\ ~\E up : Climbs(up, pid, index, n)
    OBVIOUS
  <1>3. n # 0
    <2>1. Climbs([d \in 0 .. 0 |-> pid], pid, index, 0)
      BY DEF Climbs
    <2>2. QED
      BY <1>2, <2>1
  <1>4. n - 1 \in Nat /\ n - 1 \notin stuck
    BY <1>1, <1>2, <1>3
  <1>5. PICK up : Climbs(up, pid, index, n - 1)
    BY <1>4
  <1> DEFINE above == IF up[n - 1] \in DOMAIN index THEN index[up[n - 1]].ppid ELSE 0
             longer == [d \in 0 .. n |-> IF d = n THEN above ELSE up[d]]
  <1>6. \A d \in 0 .. n - 1 :
            up[d] = IF d = 0 THEN pid ELSE IF up[d - 1] \in DOMAIN index THEN index[up[d - 1]].ppid ELSE 0
    BY <1>5 DEF Climbs
  <1>7. \A d \in 0 .. n - 1 : longer[d] = up[d]
    BY <1>2
  <1>8. \A d \in 0 .. n :
            longer[d] = IF d = 0 THEN pid ELSE IF longer[d - 1] \in DOMAIN index THEN index[longer[d - 1]].ppid ELSE 0
    <2> SUFFICES ASSUME NEW d \in 0 .. n
                 PROVE  longer[d] = IF d = 0 THEN pid ELSE IF longer[d - 1] \in DOMAIN index
                                                           THEN index[longer[d - 1]].ppid ELSE 0
      OBVIOUS
    <2>1. CASE d = n
      <3>1. longer[d] = above /\ longer[d - 1] = up[n - 1] /\ d # 0
        BY <1>2, <1>3, <1>7, <2>1
      <3>2. QED
        <4> HIDE DEF longer
        <4>1. QED
          BY <2>1, <3>1
    <2>2. CASE d # n
      <3>1. d \in 0 .. n - 1 /\ (d # 0 => d - 1 \in 0 .. n - 1)
        BY <1>2, <2>2
      <3>2. QED
        <4> HIDE DEF longer
        <4>1. QED
          BY <1>6, <1>7, <3>1
    <2>3. QED
      BY <2>1, <2>2
  <1>9. Climbs(longer, pid, index, n)
    <2>1. longer = [d \in 0 .. n |-> longer[d]]
      OBVIOUS
    <2>2. QED
      <3> HIDE DEF longer
      <3>1. QED
        BY <1>8, <2>1 DEF Climbs
  <1>10. QED
    BY <1>2, <1>9

\* What the audit follows is that way, as far as it looks.
LEMMA CandidateFacts ==
    ASSUME NEW pid, NEW index
    PROVE  /\ Fleet!Candidate(pid, index)[0] = pid
           /\ \A d \in 1 .. MaxDepth :
                 Fleet!Candidate(pid, index)[d] =
                     IF Fleet!Candidate(pid, index)[d - 1] \in DOMAIN index
                     THEN index[Fleet!Candidate(pid, index)[d - 1]].ppid ELSE 0
  <1>1. MaxDepth \in Nat
    BY AuditsAssumption DEF Fleet!FleetAuditConstants
  <1>2. PICK up : up = Fleet!Candidate(pid, index)
    OBVIOUS
  <1>3. up = CHOOSE f : Climbs(f, pid, index, MaxDepth)
    BY <1>2 DEF Fleet!Candidate, Climbs
  <1>4. Climbs(up, pid, index, MaxDepth)
    BY <1>1, <1>3, ClimbExists
  <1>5. \A d \in 0 .. MaxDepth :
            up[d] = IF d = 0 THEN pid ELSE IF up[d - 1] \in DOMAIN index THEN index[up[d - 1]].ppid ELSE 0
    BY <1>4 DEF Climbs
  <1>6. QED
    BY <1>1, <1>2, <1>5

\* The way up stays where it cannot get out.
LEMMA WayStays ==
    ASSUME NEW pid, NEW index, NEW T, pid \in T, 0 \in T,
           \A p \in T : p \in DOMAIN index => index[p].ppid \in T
    PROVE  \A d \in 0 .. MaxDepth : Fleet!Candidate(pid, index)[d] \in T
  <1> DEFINE outside == {d \in 0 .. MaxDepth : Fleet!Candidate(pid, index)[d] \notin T}
  <1> SUFFICES ASSUME outside # {} PROVE FALSE
    OBVIOUS
  <1>0. MaxDepth \in Nat
    BY AuditsAssumption DEF Fleet!FleetAuditConstants
  <1>1. PICK d \in outside : \A k \in outside : d <= k
    <2>1. outside \subseteq Nat
      BY <1>0
    <2>2. QED
      <3> HIDE DEF outside
      <3>1. QED
        BY <2>1, LeastOf
  <1>2. d \in 0 .. MaxDepth /\ Fleet!Candidate(pid, index)[d] \notin T
    OBVIOUS
  <1>3. d # 0
    BY <1>2, CandidateFacts
  <1>4. d \in 1 .. MaxDepth /\ d - 1 \in 0 .. MaxDepth /\ d - 1 \notin outside
    BY <1>0, <1>1, <1>2, <1>3
  <1>5. Fleet!Candidate(pid, index)[d - 1] \in T
    BY <1>4
  <1>6. QED
    BY <1>2, <1>4, <1>5, CandidateFacts

\* Only what is in the index has a worker for an ancestor there.
LEMMA AncestorIndexed ==
    ASSUME NEW pid, NEW index, 0 \notin DOMAIN index, Fleet!HasRunnerWorkerAncestor(pid, index)
    PROVE  pid \in DOMAIN index
  <1> SUFFICES ASSUME pid \notin DOMAIN index PROVE FALSE
    OBVIOUS
  <1>1. \A d \in 0 .. MaxDepth : Fleet!Candidate(pid, index)[d] \in {pid, 0}
    BY WayStays
  <1>2. MaxDepth \in Nat
    BY AuditsAssumption DEF Fleet!FleetAuditConstants
  <1>3. QED
    BY <1>1, <1>2 DEF Fleet!HasRunnerWorkerAncestor

\* While the index has the parents of what the way passes, it shows the same way.
LEMMA SameWay ==
    ASSUME NEW pid, NEW n \in 0 .. MaxDepth,
           \A d \in 0 .. n : Fleet!Candidate(pid, process)[d] \in through,
           \A q \in through : q \in DOMAIN process /\ q \in DOMAIN scan.index /\ process[q].ppid = scan.index[q].ppid
    PROVE  \A d \in 0 .. n : Fleet!Candidate(pid, scan.index)[d] = Fleet!Candidate(pid, process)[d]
  <1> DEFINE apart == {d \in 0 .. n : Fleet!Candidate(pid, scan.index)[d] # Fleet!Candidate(pid, process)[d]}
  <1> SUFFICES ASSUME apart # {} PROVE FALSE
    OBVIOUS
  <1>0. MaxDepth \in Nat
    BY AuditsAssumption DEF Fleet!FleetAuditConstants
  <1>1. PICK d \in apart : \A k \in apart : d <= k
    <2>1. apart \subseteq Nat
      BY <1>0
    <2>2. QED
      <3> HIDE DEF apart
      <3>1. QED
        BY <2>1, LeastOf
  <1>2. d \in 0 .. n /\ Fleet!Candidate(pid, scan.index)[d] # Fleet!Candidate(pid, process)[d]
    OBVIOUS
  <1>3. d # 0
    BY <1>2, CandidateFacts
  <1>4. d \in 1 .. MaxDepth /\ d - 1 \in 0 .. n /\ d - 1 \notin apart
    BY <1>0, <1>1, <1>2, <1>3
  <1>5. /\ Fleet!Candidate(pid, scan.index)[d - 1] = Fleet!Candidate(pid, process)[d - 1]
        /\ Fleet!Candidate(pid, process)[d - 1] \in through
    BY <1>4
  <1>6. QED
    BY <1>2, <1>4, <1>5, CandidateFacts

-----------------------------------------------------------------------------
(* The machine and the scan.                                               *)

\* Init, the workers and the strangers are there before the scan begins.
LEMMA FleetInitial == Fleet!FleetInit => FleetInv
  <1> SUFFICES ASSUME Fleet!FleetInit PROVE FleetInv
    OBVIOUS
  <1> DEFINE there == {1} \cup Fleet!Workers \cup DOMAIN StrayJob
  <1>1. /\ process = [p \in there |->
                         [ppid |-> IF p = 1 THEN 0 ELSE 1,
                          job |-> IF p \in DOMAIN StrayJob THEN StrayJob[p] ELSE Fleet!NoJob]]
        /\ scan = [step |-> "before", at |-> 0, half |-> 0, index |-> <<>>, found |-> <<>>]
        /\ through = {}
    BY DEF Fleet!FleetInit
  <1>2. /\ MaxPid \in Nat \ {0}
        /\ Fleet!Workers \subseteq Fleet!Pid \ {1}
        /\ DOMAIN StrayJob \subseteq Fleet!Pid \ ({1} \cup Fleet!Workers)
    BY AuditsAssumption DEF Fleet!FleetAuditConstants
  <1>3. Family
    <2>1. 1 \in Fleet!Pid
      BY <1>2 DEF Fleet!Pid
    <2>2. Fleet!Alive = there /\ there \subseteq Fleet!Pid
      BY <1>1, <1>2, <2>1 DEF Fleet!Alive
    <2>3. process = [p \in Fleet!Alive |-> [ppid |-> process[p].ppid, job |-> process[p].job]]
      BY <1>1, <2>2
    <2>4. \A p \in there \ {1} : process[p].ppid = 1 /\ 1 < p
      BY <1>1, <2>2 DEF Fleet!Pid
    <2>5. process[1].ppid = 0 /\ \A p \in {1} \cup Fleet!Workers : process[p].job = Fleet!NoJob
      BY <1>1, <1>2
    <2>6. QED
      BY <1>2, <2>2, <2>3, <2>4, <2>5 DEF Family
  <1>4. DOMAIN scan.index = {} /\ scan.found = <<>> /\ scan.step = "before" /\ scan.at = 0 /\ scan.half = 0
    BY <1>1
  <1>5. Index
    <2>1. scan = [step |-> scan.step, at |-> scan.at, half |-> scan.half, index |-> scan.index, found |-> scan.found]
      BY <1>1
    <2>2. scan.index = [p \in DOMAIN scan.index |-> [ppid |-> scan.index[p].ppid, worker |-> scan.index[p].worker]]
      BY <1>1
    <2>3. QED
      BY <1>1, <1>4, <2>1, <2>2 DEF Index
  <1>6. Strangers
    BY <1>4 DEF Strangers, Closed
  <1>7. Found /\ Reported
    BY <1>1, <1>4, NothingIsSequence DEF Found, Reported
  <1>8. QED
    BY <1>3, <1>5, <1>6, <1>7 DEF FleetInv

\* A step of the machine: the scan stays where it is, no pid it has met comes back,
\* and what still runs through has what it had.
LEMMA MachineStep ==
    ASSUME FleetInv, UNCHANGED scan, Family', scan.step # "told",
           through' \subseteq through \cap DOMAIN process',
           \A p \in through' : p \in Fleet!Alive /\ process'[p].ppid = process[p].ppid
                                                /\ process'[p].job = process[p].job,
           \A p \in DOMAIN process' :
               \/ p \in Fleet!Alive /\ process'[p].job = process[p].job
               \/ p \notin DOMAIN scan.index /\ (scan.step = "index" => ~(p <= scan.at))
    PROVE  FleetInv'
  <1> USE DEF FleetInv
  <1>1. Index'
    <2>1. \A p \in DOMAIN process' : scan.step = "index" /\ p <= scan.at => p \in DOMAIN scan.index
      BY DEF Index, Fleet!Alive
    <2>2. through' \subseteq DOMAIN process' /\ (scan.step \in {"find", "told"} => through' \subseteq DOMAIN scan.index)
      BY DEF Index
    <2>3. \A p \in through' \cap DOMAIN scan.index :
              /\ scan.index[p].ppid = process'[p].ppid
              /\ ~(scan.step = "index" /\ scan.half = p) => (scan.index[p].worker <=> p \in Fleet!Workers)
      BY DEF Index
    <2>4. scan.step = "before" => through' = {}
      BY DEF Index
    <2>5. QED
      BY <2>1, <2>2, <2>3, <2>4 DEF Index, Fleet!Alive
  <1>2. Strangers'
    <2>1. PICK T \in SUBSET DOMAIN scan.index : Closed(T)
      BY DEF Strangers
    <2>2. \A p \in DOMAIN process' \cap DOMAIN scan.index : process'[p].job \notin Given => p \in T
      BY <2>1 DEF Closed
    <2>3. Closed(T)'
      BY <2>1, <2>2 DEF Closed, Fleet!Alive, Given
    <2>4. QED
      BY <2>1, <2>3 DEF Strangers
  <1>3. Found'
    <2>1. \A p \in through' : process'[p].job = process[p].job /\ p \in through
      OBVIOUS
    <2>2. QED
      BY <2>1 DEF Found
  <1>4. Reported'
    BY DEF Reported
  <1>5. QED
    BY <1>1, <1>2, <1>3, <1>4

\* A process that is started gets a pid nobody has.
LEMMA ForkStep == FleetInv /\ Fleet!Fork => FleetInv'
  <1> SUFFICES ASSUME FleetInv, Fleet!Fork PROVE FleetInv'
    OBVIOUS
  <1> USE DEF FleetInv
  <1>1. PICK new : new = Fleet!NextPid
    OBVIOUS
  <1>2. PICK p \in Fleet!Alive \ {1} :
            process' = [q \in Fleet!Alive \cup {new} |->
                IF q = new THEN [ppid |-> p, job |-> IF p \in Fleet!Workers THEN JobOf[p] ELSE process[p].job]
                ELSE process[q]]
    BY <1>1 DEF Fleet!Fork
  <1>3. UNCHANGED <<scan, through>> /\ scan.step # "told" /\ new \in Fleet!Pid
    BY <1>1 DEF Fleet!Fork, Fleet!Runs
  <1>4. \A q \in Fleet!Alive \cup Fleet!Workers \cup through \cup DOMAIN scan.index : q < new /\ q \in Nat
    <2> DEFINE S == Fleet!Alive \cup Fleet!Workers \cup through \cup DOMAIN scan.index
    <2>1. S \subseteq Fleet!Pid /\ S # {}
      BY AuditsAssumption DEF Fleet!FleetAuditConstants, Family, Index
    <2>2. new = Fleet!Max(S) + 1
      BY <1>1 DEF Fleet!NextPid
    <2>3. S \subseteq Nat
      BY <2>1 DEF Fleet!Pid
    <2>4. PICK last : last = Fleet!Max(S)
      OBVIOUS
    <2>5. last \in S /\ \A y \in S : last >= y
      <3> HIDE DEF S
      <3>1. QED
        BY <2>1, <2>4, MaxFacts
    <2>6. QED
      <3> HIDE DEF S
      <3>1. last \in Nat /\ new = last + 1
        BY <2>2, <2>3, <2>4, <2>5
      <3>2. \A q \in S : q < new /\ q \in Nat
        BY <2>3, <2>5, <3>1
      <3>3. QED
        BY <3>2 DEF S
  <1>5. /\ new \notin Fleet!Alive /\ new \notin Fleet!Workers /\ new \notin DOMAIN scan.index /\ new # 1
        /\ \A q \in Fleet!Alive : q # new
    BY <1>4 DEF Family
  <1>6. /\ DOMAIN process' = Fleet!Alive \cup {new}
        /\ process'[new] = [ppid |-> p, job |-> IF p \in Fleet!Workers THEN JobOf[p] ELSE process[p].job]
        /\ \A q \in Fleet!Alive : process'[q] = process[q]
    BY <1>2, <1>5
  <1>7. Family'
    <2>1. process' = [q \in DOMAIN process' |-> [ppid |-> process'[q].ppid, job |-> process'[q].job]]
      <3>1. \A q \in Fleet!Alive : process[q] = [ppid |-> process[q].ppid, job |-> process[q].job]
        BY DEF Family
      <3>2. \A q \in DOMAIN process' : process'[q] = [ppid |-> process'[q].ppid, job |-> process'[q].job]
        BY <1>6, <3>1
      <3>3. process' = [q \in DOMAIN process' |-> process'[q]]
        BY <1>2
      <3>4. QED
        BY <3>2, <3>3
    <2>2. /\ DOMAIN process' \subseteq Fleet!Pid /\ 1 \in DOMAIN process' /\ process'[1].ppid = 0
          /\ \A q \in DOMAIN process' \cap ({1} \cup Fleet!Workers) : process'[q].job = Fleet!NoJob
      BY <1>3, <1>5, <1>6 DEF Family
    <2>3. ASSUME NEW q \in DOMAIN process' \ {1}
          PROVE  /\ process'[q].ppid \in DOMAIN process' /\ process'[q].ppid < q
                 /\ process'[q].ppid \in Fleet!Workers => process'[q].job = JobOf[process'[q].ppid]
                 /\ process'[q].ppid \notin Fleet!Workers \cup {1} => process'[q].job = process'[process'[q].ppid].job
      <3>1. CASE q = new
        BY <1>4, <1>6, <3>1
      <3>2. CASE q # new
        <4>1. q \in Fleet!Alive \ {1} /\ process'[q] = process[q]
          BY <1>6, <3>2
        <4>2. process[q].ppid \in Fleet!Alive /\ process'[process[q].ppid] = process[process[q].ppid]
          BY <1>6, <4>1 DEF Family
        <4>3. QED
          BY <1>6, <4>1, <4>2 DEF Family
      <3>3. QED
        BY <3>1, <3>2
    <2>4. QED
      BY <2>1, <2>2, <2>3 DEF Family, Fleet!Alive
  <1>8. through \subseteq Fleet!Alive /\ (scan.step = "index" => ~(new <= scan.at))
    BY <1>3, <1>4 DEF Index, Fleet!Pid
  <1>9. QED
    BY <1>3, <1>5, <1>6, <1>7, <1>8, MachineStep

\* A process that ends leaves its children to init.
LEMMA ExitStep == FleetInv /\ Fleet!Exit => FleetInv'
  <1> SUFFICES ASSUME FleetInv, Fleet!Exit PROVE FleetInv'
    OBVIOUS
  <1> USE DEF FleetInv
  <1>1. PICK p \in Fleet!Alive \ {1} :
            LET orphans == {q \in Fleet!Alive : process[q].ppid = p}
            IN  /\ process' = [q \in Fleet!Alive \ {p} |->
                                  IF q \in orphans THEN [process[q] EXCEPT !.ppid = 1] ELSE process[q]]
                /\ through' = through \ ({p} \cup orphans)
    BY DEF Fleet!Exit
  <1>2. UNCHANGED scan /\ scan.step # "told"
    BY DEF Fleet!Exit, Fleet!Runs
  <1>3. /\ DOMAIN process' = Fleet!Alive \ {p}
        /\ \A q \in Fleet!Alive \ {p} :
              /\ process[q].ppid = p => process'[q] = [process[q] EXCEPT !.ppid = 1]
              /\ process[q].ppid # p => process'[q] = process[q]
    BY <1>1
  <1>4. ASSUME NEW q \in Fleet!Alive \ {p}
        PROVE  /\ process'[q] = [ppid |-> process'[q].ppid, job |-> process'[q].job]
               /\ process'[q].job = process[q].job
               /\ process[q].ppid = p => process'[q].ppid = 1
               /\ process[q].ppid # p => process'[q].ppid = process[q].ppid
    <2>1. process[q] = [ppid |-> process[q].ppid, job |-> process[q].job]
      BY <1>4 DEF Family
    <2>2. CASE process[q].ppid = p
      <3>1. process'[q] = [process[q] EXCEPT !.ppid = 1]
        BY <1>3, <1>4, <2>2
      <3>2. process'[q] = [ppid |-> 1, job |-> process[q].job]
        BY <2>1, <3>1
      <3>3. QED
        BY <2>2, <3>2
    <2>3. CASE process[q].ppid # p
      BY <1>3, <1>4, <2>1, <2>3
    <2>4. QED
      BY <2>2, <2>3
  <1>5. Family'
    <2>1. process' = [q \in DOMAIN process' |-> [ppid |-> process'[q].ppid, job |-> process'[q].job]]
      <3>1. process' = [q \in DOMAIN process' |-> process'[q]]
        BY <1>1
      <3>2. QED
        BY <1>3, <1>4, <3>1
    <2>2. /\ DOMAIN process' \subseteq Fleet!Pid /\ 1 \in DOMAIN process'
          /\ \A q \in DOMAIN process' \cap ({1} \cup Fleet!Workers) : process'[q].job = Fleet!NoJob
      BY <1>1, <1>3, <1>4 DEF Family
    <2>3. process'[1].ppid = 0
      <3>1. 1 \in Fleet!Alive \ {p} /\ process[1].ppid # p
        BY <1>1 DEF Family, Fleet!Pid
      <3>2. QED
        BY <1>4, <3>1 DEF Family
    <2>4. ASSUME NEW q \in DOMAIN process' \ {1}
          PROVE  /\ process'[q].ppid \in DOMAIN process' /\ process'[q].ppid < q
                 /\ process'[q].ppid \in Fleet!Workers => process'[q].job = JobOf[process'[q].ppid]
                 /\ process'[q].ppid \notin Fleet!Workers \cup {1} => process'[q].job = process'[process'[q].ppid].job
      <3>1. q \in Fleet!Alive \ {p, 1} /\ 1 \in DOMAIN process' /\ 1 \notin Fleet!Workers
        BY <1>3, <2>2, <2>4, AuditsAssumption DEF Fleet!FleetAuditConstants
      <3>2. CASE process[q].ppid = p
        <4>1. 1 < q
          BY <3>1 DEF Family, Fleet!Pid
        <4>2. QED
          BY <1>4, <3>1, <3>2, <4>1
      <3>3. CASE process[q].ppid # p
        <4>1. process'[q].ppid = process[q].ppid /\ process[q].ppid \in Fleet!Alive \ {p}
          BY <1>4, <3>1, <3>3 DEF Family
        <4>2. process'[process[q].ppid].job = process[process[q].ppid].job
          BY <1>4, <4>1
        <4>3. /\ process[q].ppid < q
              /\ process[q].ppid \in Fleet!Workers => process[q].job = JobOf[process[q].ppid]
              /\ process[q].ppid \notin Fleet!Workers \cup {1} => process[q].job = process[process[q].ppid].job
          BY <3>1 DEF Family
        <4>4. process'[q].job = process[q].job
          BY <1>4, <3>1
        <4>5. QED
          BY <1>3, <4>1, <4>2, <4>3, <4>4
      <3>4. QED
        BY <3>2, <3>3
    <2>5. QED
      BY <2>1, <2>2, <2>3, <2>4 DEF Family, Fleet!Alive
  <1>6. /\ through' \subseteq through \cap DOMAIN process'
        /\ \A q \in through' : q \in Fleet!Alive \ {p} /\ process[q].ppid # p
    BY <1>1, <1>3 DEF Index
  <1>7. \A q \in DOMAIN process' : q \in Fleet!Alive /\ process'[q].job = process[q].job
    BY <1>3, <1>4
  <1>8. \A q \in through' : q \in Fleet!Alive /\ process'[q].ppid = process[q].ppid
                                             /\ process'[q].job = process[q].job
    BY <1>4, <1>6
  <1>9. QED
    BY <1>2, <1>5, <1>6, <1>7, <1>8, MachineStep

\* The scan leaves the processes as they are.
LEMMA FamilyStays == Family /\ UNCHANGED process => Family'
  BY DEF Family, Fleet!Alive

\* The next process is the least that is further on.
LEMMA AtFacts ==
    ASSUME FleetInv, NEW p \in Fleet!Ahead, Fleet!At(p)
    PROVE  /\ p \in Fleet!Alive /\ p \in Nat /\ p > scan.at /\ scan.half = 0
           /\ \A q \in Fleet!Alive : q < p => q <= scan.at
  <1> USE DEF FleetInv
  <1>1. Fleet!Ahead \subseteq Nat /\ Fleet!Ahead # {} /\ p = Fleet!Min(Fleet!Ahead) /\ scan.half = 0
    BY DEF Fleet!At, Fleet!Ahead, Family, Fleet!Pid
  <1>2. \A q \in Fleet!Ahead : p <= q
    BY <1>1, MinFacts
  <1>3. p \in Fleet!Alive /\ p \in Nat /\ p > scan.at
    BY <1>1 DEF Fleet!Ahead
  <1>4. ASSUME NEW q \in Fleet!Alive, q < p
        PROVE  q <= scan.at
    <2>1. q \in Nat /\ scan.at \in Nat
      BY DEF Family, Fleet!Pid, Index
    <2>2. q \notin Fleet!Ahead
      BY <1>2, <1>3, <1>4, <2>1
    <2>3. QED
      BY <2>1, <2>2 DEF Fleet!Ahead
  <1>5. QED
    BY <1>1, <1>3, <1>4

\* The last process has been met when none is further on.
LEMMA AllMet ==
    ASSUME FleetInv, Fleet!Ahead = {}
    PROVE  \A p \in Fleet!Alive : p <= scan.at
  BY DEF FleetInv, Family, Index, Fleet!Ahead, Fleet!Pid

\* What is alive when the scan begins has run since.
LEMMA BeginStep == FleetInv /\ Fleet!Begin => FleetInv'
  <1> SUFFICES ASSUME FleetInv, Fleet!Begin PROVE FleetInv'
    OBVIOUS
  <1> USE DEF FleetInv
  <1>1. /\ scan.step = "before" /\ UNCHANGED process /\ through' = Fleet!Alive
        /\ scan' = [scan EXCEPT !.step = "index"]
    BY DEF Fleet!Begin
  <1>2. scan = [step |-> "before", at |-> 0, half |-> 0, index |-> scan.index, found |-> scan.found]
    BY <1>1 DEF Index
  <1>3. scan' = [step |-> "index", at |-> 0, half |-> 0, index |-> scan.index, found |-> scan.found]
    BY <1>1, <1>2
  <1>4. DOMAIN scan.index = {} /\ scan.found = <<>>
    BY <1>1 DEF Index, Found
  <1>5. Fleet!Alive \subseteq Fleet!Pid /\ Fleet!Alive' = Fleet!Alive
    BY <1>1 DEF Family, Fleet!Alive
  <1>6. Family'
    BY <1>1, FamilyStays
  <1>7. Index'
    <2>1. \A p \in Fleet!Alive : ~(p <= 0)
      BY <1>5 DEF Fleet!Pid
    <2>2. /\ scan'.step = "index" /\ scan'.at = 0 /\ scan'.half = 0 /\ scan'.index = scan.index
          /\ scan' = [step |-> scan'.step, at |-> scan'.at, half |-> scan'.half,
                      index |-> scan'.index, found |-> scan'.found]
      BY <1>3
    <2>3. scan.index = [p \in DOMAIN scan.index |-> [ppid |-> scan.index[p].ppid, worker |-> scan.index[p].worker]]
      BY DEF Index
    <2>4. through' = Fleet!Alive /\ through' \cap DOMAIN scan.index = {}
      BY <1>1, <1>4
    <2>5. /\ DOMAIN scan'.index = {} /\ scan'.at \in Nat /\ scan'.half \in Nat
          /\ scan'.index = [p \in DOMAIN scan'.index |-> [ppid |-> scan'.index[p].ppid, worker |-> scan'.index[p].worker]]
      BY <1>4, <2>2, <2>3
    <2>6. /\ \A p \in Fleet!Alive' : ~(p <= scan'.at)
          /\ through' \subseteq Fleet!Alive'
      BY <1>5, <2>1, <2>2, <2>4
    <2>7. QED
      BY <2>2, <2>5, <2>6 DEF Index
  <1>8. Strangers'
    <2>1. DOMAIN scan'.index = {}
      BY <1>3, <1>4
    <2>2. QED
      BY <2>1 DEF Strangers, Closed
  <1>9. Found'
    <2>1. scan'.step = "index" /\ scan'.found = <<>>
      BY <1>3, <1>4
    <2>2. QED
      BY <2>1, NothingIsSequence DEF Found
  <1>10. Reported'
    BY <1>3 DEF Reported
  <1>11. QED
    BY <1>6, <1>7, <1>8, <1>9, <1>10

\* A process that is met is put into the index with its parent, which is there,
\* and among the strangers if its job is none that a worker gave.
LEMMA ReadStatusStep == FleetInv /\ Fleet!ReadStatus => FleetInv'
  <1> SUFFICES ASSUME FleetInv, Fleet!ReadStatus PROVE FleetInv'
    OBVIOUS
  <1> USE DEF FleetInv
  <1>1. PICK p \in Fleet!Ahead :
            /\ Fleet!At(p)
            /\ scan' = [scan EXCEPT !.at = p, !.half = p,
                           !.index = [q \in DOMAIN @ \cup {p} |->
                               IF q = p THEN [ppid |-> process[p].ppid, worker |-> FALSE] ELSE @[q]]]
    BY DEF Fleet!ReadStatus
  <1>2. scan.step = "index" /\ UNCHANGED <<process, through>>
    BY DEF Fleet!ReadStatus
  <1>3. PICK index : index = [q \in DOMAIN scan.index \cup {p} |->
                                 IF q = p THEN [ppid |-> process[p].ppid, worker |-> FALSE] ELSE scan.index[q]]
    OBVIOUS
  <1>4. /\ scan'.step = "index" /\ scan'.at = p /\ scan'.half = p /\ scan'.index = index /\ scan'.found = scan.found
        /\ scan' = [step |-> "index", at |-> p, half |-> p, index |-> index, found |-> scan.found]
    <2>1. scan = [step |-> scan.step, at |-> scan.at, half |-> scan.half, index |-> scan.index, found |-> scan.found]
      BY DEF Index
    <2>2. QED
      BY <1>1, <1>2, <1>3, <2>1
  <1>5. /\ p \in Fleet!Alive /\ p \in Nat /\ p > scan.at /\ scan.half = 0
        /\ \A q \in Fleet!Alive : q < p => q <= scan.at
    BY <1>1, AtFacts
  <1>6. /\ DOMAIN index = DOMAIN scan.index \cup {p} /\ p \notin DOMAIN scan.index
        /\ index[p] = [ppid |-> process[p].ppid, worker |-> FALSE]
        /\ \A q \in DOMAIN scan.index : index[q] = scan.index[q]
    <2>1. p \notin DOMAIN scan.index
      BY <1>2, <1>5 DEF Index, Fleet!Pid
    <2>2. QED
      BY <1>3, <2>1
  <1>7. \A q \in Fleet!Alive : q < p => q \in DOMAIN scan.index
    BY <1>2, <1>5 DEF Index
  <1>8. Fleet!Alive' = Fleet!Alive /\ Fleet!Alive \subseteq Fleet!Pid
    BY <1>2 DEF Fleet!Alive, Family
  <1>9. Family'
    BY <1>2, FamilyStays
  <1>10. Index'
    <2>1. scan' = [step |-> scan'.step, at |-> scan'.at, half |-> scan'.half, index |-> scan'.index, found |-> scan'.found]
      BY <1>4
    <2>2. index = [q \in DOMAIN index |-> [ppid |-> index[q].ppid, worker |-> index[q].worker]]
      <3>1. \A q \in DOMAIN scan.index : scan.index[q] = [ppid |-> scan.index[q].ppid, worker |-> scan.index[q].worker]
        BY DEF Index
      <3>2. \A q \in DOMAIN index : index[q] = [ppid |-> index[q].ppid, worker |-> index[q].worker]
        BY <1>6, <3>1
      <3>3. index = [q \in DOMAIN index |-> index[q]]
        BY <1>3
      <3>4. QED
        BY <3>2, <3>3
    <2>3. DOMAIN index \subseteq Fleet!Pid
      BY <1>5, <1>6, <1>8 DEF Index
    <2>4. \A q \in DOMAIN index : index[q].worker => q \in Fleet!Workers
      BY <1>6 DEF Index
    <2>5. \A q \in Fleet!Alive : q <= p => q \in DOMAIN index
      <3>1. \A q \in Fleet!Alive : q \in Nat
        BY <1>8 DEF Fleet!Pid
      <3>2. QED
        BY <1>5, <1>6, <1>7, <3>1
    <2>6. \A q \in DOMAIN index : q <= p
      <3>1. \A q \in DOMAIN scan.index : q <= scan.at /\ q \in Nat
        BY <1>2 DEF Index, Fleet!Pid
      <3>2. scan.at \in Nat
        BY DEF Index
      <3>3. QED
        BY <1>5, <1>6, <3>1, <3>2
    <2>7. \A q \in through \cap DOMAIN index :
              /\ index[q].ppid = process[q].ppid
              /\ q # p => (index[q].worker <=> q \in Fleet!Workers)
      <3>1. 0 \notin DOMAIN scan.index
        BY DEF Index, Fleet!Pid
      <3>2. QED
        BY <1>5, <1>6, <3>1 DEF Index
    <2>8. through \subseteq Fleet!Alive
      BY DEF Index
    <2>9. QED
      BY <1>2, <1>4, <1>5, <1>6, <1>8, <2>1, <2>2, <2>3, <2>4, <2>5, <2>6, <2>7, <2>8 DEF Index
  <1>11. Strangers'
    <2>1. PICK T \in SUBSET DOMAIN scan.index : Closed(T)
      BY DEF Strangers
    <2>2. PICK U : U = IF p = 1 \/ process[p].job \notin Given THEN T \cup {p} ELSE T
      OBVIOUS
    <2>3. 1 \notin Fleet!Workers /\ (p \in Fleet!Workers => process[p].job \in Given)
      BY <1>5, AuditsAssumption DEF Fleet!FleetAuditConstants, Family, Given
    <2>4. U \subseteq DOMAIN index \ Fleet!Workers
      BY <1>6, <2>1, <2>2, <2>3 DEF Closed
    <2>5. \A q \in U : index[q].ppid \in U \cup {0}
      <3>1. \A q \in T : index[q].ppid \in T \cup {0}
        BY <1>6, <2>1 DEF Closed
      <3>2. p \in U => process[p].ppid \in T \cup {0}
        <4>1. CASE p = 1
          BY <4>1 DEF Family
        <4>2. CASE p # 1 /\ process[p].job \notin Given
          <5>1. /\ process[p].ppid \in Fleet!Alive /\ process[p].ppid < p
                /\ process[p].ppid \in Fleet!Workers => process[p].job = JobOf[process[p].ppid]
                /\ process[p].ppid \notin Fleet!Workers \cup {1} => process[p].job = process[process[p].ppid].job
            BY <1>5, <4>2 DEF Family
          <5>2. process[p].ppid \in DOMAIN scan.index
            BY <1>7, <5>1
          <5>3. process[p].ppid \notin Fleet!Workers
            BY <4>2, <5>1 DEF Given, Range, Fleet!Workers
          <5>4. process[p].ppid = 1 \/ process[process[p].ppid].job \notin Given
            BY <4>2, <5>1, <5>3
          <5>5. QED
            BY <2>1, <5>1, <5>2, <5>4 DEF Closed
        <4>3. CASE ~(p = 1 \/ process[p].job \notin Given)
          BY <1>6, <2>1, <2>2, <4>3
        <4>4. QED
          BY <4>1, <4>2, <4>3
      <3>3. QED
        BY <1>6, <2>2, <3>1, <3>2
    <2>6. 1 \in DOMAIN index => 1 \in U
      BY <1>6, <2>1, <2>2 DEF Closed
    <2>7. \A q \in Fleet!Alive \cap DOMAIN index : process[q].job \notin Given => q \in U
      BY <1>6, <2>1, <2>2 DEF Closed
    <2>8. Closed(U)'
      BY <1>2, <1>4, <1>8, <2>4, <2>5, <2>6, <2>7 DEF Closed, Given
    <2>9. QED
      BY <1>4, <2>4, <2>8 DEF Strangers
  <1>12. Found'
    BY <1>2, <1>4 DEF Found
  <1>13. Reported'
    BY <1>4 DEF Reported
  <1>14. QED
    BY <1>9, <1>10, <1>11, <1>12, <1>13

\* The command line of a process that still runs tells whether it is a worker.
LEMMA ReadCmdlineStep == FleetInv /\ Fleet!ReadCmdline => FleetInv'
  <1> SUFFICES ASSUME FleetInv, Fleet!ReadCmdline PROVE FleetInv'
    OBVIOUS
  <1> USE DEF FleetInv
  <1>1. /\ scan.step = "index" /\ scan.half # 0 /\ UNCHANGED <<process, through>>
        /\ scan' = [scan EXCEPT !.half = 0, !.index[scan.half].worker = scan.half \in Fleet!Workers \cap Fleet!Alive]
    BY DEF Fleet!ReadCmdline
  <1>2. PICK h : h = scan.half
    OBVIOUS
  <1>3. PICK is : is = (h \in Fleet!Workers \cap Fleet!Alive)
    OBVIOUS
  <1>4. PICK index : index = [scan.index EXCEPT ![h] = [scan.index[h] EXCEPT !.worker = is]]
    OBVIOUS
  <1>5. /\ scan'.step = "index" /\ scan'.at = scan.at /\ scan'.half = 0
        /\ scan'.index = index /\ scan'.found = scan.found
        /\ scan' = [step |-> "index", at |-> scan.at, half |-> 0, index |-> index, found |-> scan.found]
    <2>1. scan = [step |-> scan.step, at |-> scan.at, half |-> scan.half, index |-> scan.index, found |-> scan.found]
      BY DEF Index
    <2>2. scan' = [scan EXCEPT !.half = 0, !.index = index]
      BY <1>1, <1>2, <1>3, <1>4, <2>1
    <2>3. QED
      BY <1>1, <2>1, <2>2
  <1>6. h \in DOMAIN scan.index /\ h \in Nat /\ h # 0
    BY <1>1, <1>2 DEF Index
  <1>7. /\ DOMAIN index = DOMAIN scan.index
        /\ \A q \in DOMAIN index : q # h => index[q] = scan.index[q]
        /\ index[h] = [ppid |-> scan.index[h].ppid, worker |-> is]
    <2>1. scan.index = [p \in DOMAIN scan.index |-> scan.index[p]]
      BY DEF Index
    <2>2. scan.index[h] = [ppid |-> scan.index[h].ppid, worker |-> scan.index[h].worker]
      BY <1>6 DEF Index
    <2>3. [scan.index[h] EXCEPT !.worker = is] = [ppid |-> scan.index[h].ppid, worker |-> is]
      BY <2>2
    <2>4. QED
      BY <1>4, <1>6, <2>1, <2>3
  <1>8. \A q \in DOMAIN index : index[q].ppid = scan.index[q].ppid
    BY <1>7
  <1>9. Family' /\ Fleet!Alive' = Fleet!Alive
    BY <1>1, FamilyStays DEF Fleet!Alive
  <1>10. Index'
    <2>1. scan' = [step |-> scan'.step, at |-> scan'.at, half |-> scan'.half, index |-> scan'.index, found |-> scan'.found]
      BY <1>5
    <2>2. index = [q \in DOMAIN index |-> [ppid |-> index[q].ppid, worker |-> index[q].worker]]
      <3>1. \A q \in DOMAIN scan.index : scan.index[q] = [ppid |-> scan.index[q].ppid, worker |-> scan.index[q].worker]
        BY DEF Index
      <3>2. \A q \in DOMAIN index : index[q] = [ppid |-> index[q].ppid, worker |-> index[q].worker]
        BY <1>7, <3>1
      <3>3. index = [q \in DOMAIN index |-> index[q]]
        <4>1. scan.index = [p \in DOMAIN scan.index |-> scan.index[p]]
          BY DEF Index
        <4>2. QED
          BY <1>4, <4>1
      <3>4. QED
        BY <3>2, <3>3
    <2>3. /\ index[h].worker <=> h \in Fleet!Workers \cap Fleet!Alive
          /\ \A q \in DOMAIN index : q # h => (index[q].worker <=> scan.index[q].worker)
      <3>1. index[h].worker = is
        BY <1>7
      <3>2. index[h].worker <=> h \in Fleet!Workers \cap Fleet!Alive
        BY <1>3, <3>1, Zenon
      <3>3. \A q \in DOMAIN index : q # h => (index[q].worker <=> scan.index[q].worker)
        BY <1>7, Zenon
      <3>4. QED
        BY <3>2, <3>3
    <2>4. \A q \in DOMAIN index : index[q].worker => q \in Fleet!Workers
      BY <1>7, <2>3 DEF Index
    <2>5. \A q \in through \cap DOMAIN index :
              /\ index[q].ppid = process[q].ppid
              /\ index[q].worker <=> q \in Fleet!Workers
      <3>1. through \subseteq Fleet!Alive
        BY DEF Index
      <3>2. QED
        BY <1>2, <1>7, <1>8, <2>3, <3>1 DEF Index
    <2>6. /\ DOMAIN index \subseteq Fleet!Pid /\ scan.at \in Nat /\ through \subseteq Fleet!Alive
          /\ \A p \in Fleet!Alive : p <= scan.at => p \in DOMAIN index
          /\ \A p \in DOMAIN index : p <= scan.at
          /\ scan.at = 0 \/ scan.at \in DOMAIN index
      BY <1>1, <1>7 DEF Index
    <2>7. QED
      BY <1>1, <1>5, <1>9, <2>1, <2>2, <2>4, <2>5, <2>6 DEF Index
  <1>11. Strangers'
    <2>1. PICK T \in SUBSET DOMAIN scan.index : Closed(T)
      BY DEF Strangers
    <2>2. /\ T \subseteq DOMAIN index \ Fleet!Workers
          /\ \A p \in T : index[p].ppid \in T \cup {0}
          /\ 1 \in DOMAIN index => 1 \in T
          /\ \A p \in Fleet!Alive \cap DOMAIN index : process[p].job \notin Given => p \in T
      BY <1>7, <1>8, <2>1 DEF Closed
    <2>3. Closed(T)'
      BY <1>1, <1>5, <1>9, <2>2 DEF Closed, Given
    <2>4. QED
      BY <1>5, <2>2, <2>3 DEF Strangers
  <1>12. Found'
    BY <1>1, <1>5 DEF Found
  <1>13. Reported'
    BY <1>5 DEF Reported
  <1>14. QED
    BY <1>9, <1>10, <1>11, <1>12, <1>13

\* What the index says stays so in the steps that only go through it.
LEMMA IndexStays ==
    ASSUME FleetInv, UNCHANGED <<process, through>>, scan.step \in {"index", "find"},
           scan.step = "index" => scan.half = 0 /\ Fleet!Ahead = {},
           scan' = [step |-> scan'.step, at |-> scan'.at, half |-> scan'.half,
                    index |-> scan.index, found |-> scan'.found],
           scan'.step \in {"find", "told"}, scan'.at \in Nat, scan'.half \in Nat
    PROVE  Family' /\ Index' /\ Strangers'
  <1> USE DEF FleetInv
  <1>1. scan'.index = scan.index /\ scan'.step \notin {"before", "index"}
    <2>1. PICK step, at, half, found :
              scan' = [step |-> step, at |-> at, half |-> half, index |-> scan.index, found |-> found]
      OBVIOUS
    <2>2. scan'.index = scan.index
      BY <2>1
    <2>3. QED
      BY <2>2
  <1>2. Family' /\ Fleet!Alive' = Fleet!Alive
    BY FamilyStays DEF Fleet!Alive
  <1>3. through \subseteq DOMAIN scan.index /\ through \subseteq Fleet!Alive
    <2>1. CASE scan.step = "index"
      BY <2>1, AllMet DEF Index
    <2>2. CASE scan.step = "find"
      BY <2>2 DEF Index
    <2>3. QED
      BY <2>1, <2>2
  <1>4. 0 \notin DOMAIN scan.index
    BY DEF Index, Fleet!Pid
  <1>5. Index'
    <2>1. scan' = [step |-> scan'.step, at |-> scan'.at, half |-> scan'.half, index |-> scan'.index, found |-> scan'.found]
      BY <1>1
    <2>2. /\ scan.index = [p \in DOMAIN scan.index |-> [ppid |-> scan.index[p].ppid, worker |-> scan.index[p].worker]]
          /\ DOMAIN scan.index \subseteq Fleet!Pid
          /\ \A p \in DOMAIN scan.index : scan.index[p].worker => p \in Fleet!Workers
      BY DEF Index
    <2>3. \A p \in through \cap DOMAIN scan.index :
              /\ scan.index[p].ppid = process[p].ppid
              /\ scan.index[p].worker <=> p \in Fleet!Workers
      BY <1>4 DEF Index
    <2>4. QED
      BY <1>1, <1>2, <1>3, <2>1, <2>2, <2>3 DEF Index
  <1>6. Strangers'
    <2>1. PICK T \in SUBSET DOMAIN scan.index : Closed(T)
      BY DEF Strangers
    <2>2. Closed(T)'
      BY <1>1, <1>2, <2>1 DEF Closed, Given
    <2>3. QED
      BY <1>1, <2>1, <2>2 DEF Strangers
  <1>7. QED
    BY <1>2, <1>5, <1>6

\* When all have been indexed nothing has been found yet.
LEMMA IndexedStep == FleetInv /\ Fleet!Indexed => FleetInv'
  <1> SUFFICES ASSUME FleetInv, Fleet!Indexed PROVE FleetInv'
    OBVIOUS
  <1> USE DEF FleetInv
  <1>1. /\ scan.step = "index" /\ scan.half = 0 /\ Fleet!Ahead = {} /\ UNCHANGED <<process, through>>
        /\ scan' = [scan EXCEPT !.step = "find", !.at = 0]
    BY DEF Fleet!Indexed
  <1>2. /\ scan'.step = "find" /\ scan'.at = 0 /\ scan'.half = 0 /\ scan'.index = scan.index /\ scan'.found = scan.found
        /\ scan' = [step |-> "find", at |-> 0, half |-> 0, index |-> scan.index, found |-> scan.found]
    <2>1. scan = [step |-> scan.step, at |-> scan.at, half |-> scan.half, index |-> scan.index, found |-> scan.found]
      BY DEF Index
    <2>2. QED
      BY <1>1, <2>1
  <1>3. Family' /\ Index' /\ Strangers'
    <2>1. scan' = [step |-> scan'.step, at |-> scan'.at, half |-> scan'.half, index |-> scan.index, found |-> scan'.found]
      BY <1>2
    <2>2. scan'.step \in {"find", "told"} /\ scan'.at \in Nat /\ scan'.half \in Nat
      BY <1>2
    <2>3. QED
      BY <1>1, <2>1, <2>2, IndexStays
  <1>4. \A p \in through : ~(p <= 0)
    BY DEF Family, Index, Fleet!Pid
  <1>5. Found'
    BY <1>1, <1>2, <1>4 DEF Found, IsSequence
  <1>6. Reported'
    BY <1>2 DEF Reported
  <1>7. QED
    BY <1>3, <1>5, <1>6

\* A process with a worker among its indexed ancestors is half read.
LEMMA FindProcessStep == FleetInv /\ Fleet!FindProcess => FleetInv'
  <1> SUFFICES ASSUME FleetInv, Fleet!FindProcess PROVE FleetInv'
    OBVIOUS
  <1> USE DEF FleetInv
  <1>1. PICK p \in Fleet!Ahead :
            /\ Fleet!At(p)
            /\ scan' = [scan EXCEPT !.at = p,
                           !.half = IF Fleet!HasRunnerWorkerAncestor(p, scan.index) THEN p ELSE 0]
    BY DEF Fleet!FindProcess
  <1>2. scan.step = "find" /\ UNCHANGED <<process, through>>
    BY DEF Fleet!FindProcess
  <1>3. PICK h : h = IF Fleet!HasRunnerWorkerAncestor(p, scan.index) THEN p ELSE 0
    OBVIOUS
  <1>4. /\ scan'.step = "find" /\ scan'.at = p /\ scan'.half = h /\ scan'.index = scan.index /\ scan'.found = scan.found
        /\ scan' = [step |-> "find", at |-> p, half |-> h, index |-> scan.index, found |-> scan.found]
    <2>1. scan = [step |-> scan.step, at |-> scan.at, half |-> scan.half, index |-> scan.index, found |-> scan.found]
      BY DEF Index
    <2>2. QED
      BY <1>1, <1>2, <1>3, <2>1
  <1>5. /\ p \in Fleet!Alive /\ p \in Nat /\ p > scan.at /\ scan.half = 0
        /\ \A q \in Fleet!Alive : q < p => q <= scan.at
    BY <1>1, AtFacts
  <1>6. Family' /\ Index' /\ Strangers'
    <2>1. scan' = [step |-> scan'.step, at |-> scan'.at, half |-> scan'.half, index |-> scan.index, found |-> scan'.found]
      BY <1>4
    <2>2. scan'.step \in {"find", "told"} /\ scan'.at \in Nat /\ scan'.half \in Nat
      BY <1>3, <1>4, <1>5
    <2>3. QED
      BY <1>2, <2>1, <2>2, IndexStays
  <1>7. Found'
    <2>1. h # 0 => h \in DOMAIN scan.index /\ Fleet!HasRunnerWorkerAncestor(h, scan.index)
      <3>1. 0 \notin DOMAIN scan.index
        BY DEF Index, Fleet!Pid
      <3>2. QED
        BY <1>3, <3>1, AncestorIndexed
    <2>2. ASSUME NEW q \in through, q <= p, q # h, process[q].job # Fleet!NoJob,
                 Fleet!HasRunnerWorkerAncestor(q, scan.index)
          PROVE  \E i \in DOMAIN scan.found : scan.found[i].job = process[q].job
      <3>1. q # p
        BY <1>3, <2>2
      <3>2. q \in Fleet!Alive /\ q \in Nat /\ q # 0
        BY DEF Index, Family, Fleet!Pid
      <3>3. q <= scan.at
        BY <1>5, <2>2, <3>1, <3>2
      <3>4. QED
        BY <1>2, <1>5, <2>2, <3>2, <3>3 DEF Found
    <2>3. \A i \in DOMAIN scan.found : scan.found[i].job \in Range(JobOf)
      BY DEF Found
    <2>4. IsSequence(scan'.found)
      BY <1>4 DEF Found
    <2>5. QED
      BY <1>2, <1>4, <2>1, <2>2, <2>3, <2>4 DEF Found
  <1>8. Reported'
    BY <1>4 DEF Reported
  <1>9. QED
    BY <1>6, <1>7, <1>8

\* A process no worker is an indexed ancestor of stays so; what is found under one
\* has a job its worker gave.
LEMMA UnderWorker ==
    ASSUME FleetInv, NEW p \in Fleet!Alive \cap DOMAIN scan.index, Fleet!HasRunnerWorkerAncestor(p, scan.index)
    PROVE  process[p].job \in Given
  <1> USE DEF FleetInv
  <1> SUFFICES ASSUME process[p].job \notin Given PROVE FALSE
    OBVIOUS
  <1>1. PICK T \in SUBSET DOMAIN scan.index : Closed(T)
    BY DEF Strangers
  <1>2. PICK index : index = scan.index
    OBVIOUS
  <1>3. /\ p \in T /\ T \cap Fleet!Workers = {} /\ 0 \notin DOMAIN index
        /\ \A q \in DOMAIN index : index[q].worker => q \in Fleet!Workers
    BY <1>1, <1>2 DEF Closed, Index, Fleet!Pid
  <1>4. \A q \in T \cup {0} : q \in DOMAIN index => index[q].ppid \in T \cup {0}
    BY <1>1, <1>2, <1>3 DEF Closed
  <1>5. \A d \in 0 .. MaxDepth : Fleet!Candidate(p, index)[d] \in T \cup {0}
    BY <1>3, <1>4, WayStays
  <1>6. MaxDepth \in Nat
    BY AuditsAssumption DEF Fleet!FleetAuditConstants
  <1>7. PICK d \in 0 .. MaxDepth - 1 :
            /\ Fleet!Candidate(p, index)[d] \in DOMAIN index
            /\ index[Fleet!Candidate(p, index)[d]].worker
    BY <1>2 DEF Fleet!HasRunnerWorkerAncestor
  <1>8. d \in 0 .. MaxDepth
    BY <1>6, <1>7
  <1>9. QED
    BY <1>3, <1>5, <1>7, <1>8

\* The environment of a process that still runs tells its job.
LEMMA ReadEnvironStep == FleetInv /\ Fleet!ReadEnviron => FleetInv'
  <1> SUFFICES ASSUME FleetInv, Fleet!ReadEnviron PROVE FleetInv'
    OBVIOUS
  <1> USE DEF FleetInv
  <1>1. PICK h : h = scan.half
    OBVIOUS
  <1>2. PICK entry : entry = [job |-> process[h].job, pid |-> h]
    OBVIOUS
  <1>3. PICK found : found = IF h \in Fleet!Alive /\ process[h].job # Fleet!NoJob
                             THEN Append(scan.found, entry) ELSE scan.found
    OBVIOUS
  <1>4. /\ scan.step = "find" /\ h # 0 /\ UNCHANGED <<process, through>>
        /\ scan' = [scan EXCEPT !.half = 0, !.found = found]
    <2>1. scan = [step |-> scan.step, at |-> scan.at, half |-> scan.half, index |-> scan.index, found |-> scan.found]
      BY DEF Index
    <2>2. QED
      BY <1>1, <1>2, <1>3, <2>1 DEF Fleet!ReadEnviron
  <1>5. /\ scan'.step = "find" /\ scan'.at = scan.at /\ scan'.half = 0 /\ scan'.index = scan.index /\ scan'.found = found
        /\ scan' = [step |-> "find", at |-> scan.at, half |-> 0, index |-> scan.index, found |-> found]
    <2>1. scan = [step |-> scan.step, at |-> scan.at, half |-> scan.half, index |-> scan.index, found |-> scan.found]
      BY DEF Index
    <2>2. QED
      BY <1>4, <2>1
  <1>6. Family' /\ Index' /\ Strangers'
    <2>1. scan' = [step |-> scan'.step, at |-> scan'.at, half |-> scan'.half, index |-> scan.index, found |-> scan'.found]
      BY <1>5
    <2>2. scan'.step \in {"find", "told"} /\ scan'.at \in Nat /\ scan'.half \in Nat
      BY <1>5 DEF Index
    <2>3. QED
      BY <1>4, <2>1, <2>2, IndexStays
  <1>7. Found'
    <2>1. h \in DOMAIN scan.index /\ Fleet!HasRunnerWorkerAncestor(h, scan.index)
      BY <1>1, <1>4 DEF Found
    <2>2. \A i \in DOMAIN scan.found : scan.found[i].job \in Range(JobOf)
      BY DEF Found
    <2>3. CASE h \in Fleet!Alive /\ process[h].job # Fleet!NoJob
      <3>1. process[h].job \in Range(JobOf)
        BY <2>1, <2>3, UnderWorker DEF Given
      <3>2. /\ IsSequence(found) /\ Len(scan.found) \in Nat
            /\ DOMAIN scan.found = 1 .. Len(scan.found) /\ DOMAIN found = 1 .. Len(scan.found) + 1
            /\ found[Len(scan.found) + 1] = entry
            /\ \A i \in 1 .. Len(scan.found) : found[i] = scan.found[i]
        BY <1>3, <2>3, GrowFacts DEF Found
      <3>3. PICK n \in Nat : n = Len(scan.found)
        BY <3>2
      <3>4. DOMAIN found = DOMAIN scan.found \cup {n + 1} /\ found[n + 1].job = process[h].job
        BY <1>2, <3>2, <3>3
      <3>5. \A i \in DOMAIN scan.found : i \in DOMAIN found /\ found[i] = scan.found[i]
        BY <3>2, <3>4
      <3>6. \A i \in DOMAIN found : found[i].job \in Range(JobOf)
        BY <2>2, <3>1, <3>4, <3>5
      <3>7. ASSUME NEW q \in through, q <= scan.at, process[q].job # Fleet!NoJob,
                   Fleet!HasRunnerWorkerAncestor(q, scan.index)
            PROVE  \E i \in DOMAIN found : found[i].job = process[q].job
        <4>1. CASE q = h
          BY <3>4, <4>1
        <4>2. CASE q # h
          <5>1. PICK i \in DOMAIN scan.found : scan.found[i].job = process[q].job
            BY <1>1, <1>4, <3>7, <4>2 DEF Found
          <5>2. QED
            BY <3>5, <5>1
        <4>3. QED
          BY <4>1, <4>2
      <3>8. IsSequence(found)
        BY <3>2
      <3>9. IsSequence(scan'.found) /\ scan'.half = 0
        BY <1>5, <3>8
      <3>10. QED
        BY <1>4, <1>5, <3>6, <3>7, <3>9 DEF Found
    <2>4. CASE ~(h \in Fleet!Alive /\ process[h].job # Fleet!NoJob)
      <3>1. found = scan.found /\ through \subseteq Fleet!Alive
        BY <1>3, <2>4 DEF Index
      <3>2. IsSequence(scan'.found) /\ scan'.half = 0
        BY <1>5, <3>1 DEF Found
      <3>3. ASSUME NEW q \in through, q <= scan.at, process[q].job # Fleet!NoJob,
                   Fleet!HasRunnerWorkerAncestor(q, scan.index)
            PROVE  \E i \in DOMAIN found : found[i].job = process[q].job
        <4>1. q # h
          BY <2>4, <3>1, <3>3
        <4>2. QED
          BY <1>1, <1>4, <3>1, <3>3, <4>1 DEF Found
      <3>4. QED
        BY <1>4, <1>5, <2>2, <3>1, <3>2, <3>3 DEF Found
    <2>5. QED
      BY <2>3, <2>4
  <1>8. Reported'
    BY <1>5 DEF Reported
  <1>9. QED
    BY <1>6, <1>7, <1>8

\* The report is of all that was found once no process is further on.
LEMMA FleetAuditStep == FleetInv /\ Fleet!FleetAudit => FleetInv'
  <1> SUFFICES ASSUME FleetInv, Fleet!FleetAudit PROVE FleetInv'
    OBVIOUS
  <1> USE DEF FleetInv
  <1>1. /\ scan.step = "find" /\ scan.half = 0 /\ Fleet!Ahead = {} /\ UNCHANGED <<process, through>>
        /\ scan' = [scan EXCEPT !.step = "told"]
        /\ \E report \in {Fleet!FleetReport(scan.found)} :
              fleet_told' = [jobs |-> report.jobs, exit |-> IF report.ready THEN "ok" ELSE "failed"]
    BY DEF Fleet!FleetAudit
  <1>2. /\ scan'.step = "told" /\ scan'.at = scan.at /\ scan'.half = 0 /\ scan'.index = scan.index /\ scan'.found = scan.found
        /\ scan' = [step |-> "told", at |-> scan.at, half |-> 0, index |-> scan.index, found |-> scan.found]
    <2>1. scan = [step |-> scan.step, at |-> scan.at, half |-> scan.half, index |-> scan.index, found |-> scan.found]
      BY DEF Index
    <2>2. QED
      BY <1>1, <2>1
  <1>3. Family' /\ Index' /\ Strangers'
    <2>1. scan' = [step |-> scan'.step, at |-> scan'.at, half |-> scan'.half, index |-> scan.index, found |-> scan'.found]
      BY <1>2
    <2>2. scan'.step \in {"find", "told"} /\ scan'.at \in Nat /\ scan'.half \in Nat
      BY <1>2 DEF Index
    <2>3. QED
      BY <1>1, <2>1, <2>2, IndexStays
  <1>4. \A p \in through : p <= scan.at /\ p # 0
    <2>1. \A p \in Fleet!Alive : p <= scan.at
      BY <1>1, AllMet
    <2>2. \A p \in Fleet!Alive : p # 0
      BY DEF Family, Fleet!Pid
    <2>3. QED
      BY <2>1, <2>2 DEF Index
  <1>5. Found'
    <2>1. IsSequence(scan'.found) /\ scan'.step = "told"
      BY <1>2 DEF Found
    <2>2. QED
      BY <1>1, <1>2, <1>4, <2>1 DEF Found
  <1>6. Reported'
    <2>1. PICK report : report = Fleet!FleetReport(scan.found)
      OBVIOUS
    <2>2. fleet_told' = [jobs |-> report.jobs, exit |-> IF report.ready THEN "ok" ELSE "failed"]
      BY <1>1, <2>1
    <2>3. report.jobs = Fleet!DedupeFleet(scan.found)
      BY <2>1 DEF Fleet!FleetReport
    <2>4. QED
      BY <1>1, <1>2, <1>4, <2>1, <2>2, <2>3 DEF Reported
  <1>7. QED
    BY <1>3, <1>5, <1>6

\* The scan goes on while the machine does.
LEMMA FleetKept == FleetInv /\ [Fleet!FleetNext]_fleetVars => FleetInv'
  <1> SUFFICES ASSUME FleetInv, [Fleet!FleetNext]_fleetVars PROVE FleetInv'
    OBVIOUS
  <1>1. CASE UNCHANGED fleetVars \/ Fleet!FleetDone
    <2>1. UNCHANGED process /\ UNCHANGED scan /\ UNCHANGED through /\ UNCHANGED fleet_told
      BY <1>1 DEF fleetVars, Fleet!FleetDone, Fleet!fleetVars
    <2>2. Family' /\ Index'
      BY <2>1 DEF FleetInv, Family, Index, Fleet!Alive
    <2>3. Strangers'
      BY <2>1 DEF FleetInv, Strangers, Closed, Fleet!Alive, Given
    <2>4. Found' /\ Reported'
      BY <2>1 DEF FleetInv, Found, Reported, IsSequence
    <2>5. QED
      BY <2>2, <2>3, <2>4 DEF FleetInv
  <1>2. QED
    BY <1>1, ForkStep, ExitStep, BeginStep, ReadStatusStep, ReadCmdlineStep, IndexedStep, FindProcessStep,
       ReadEnvironStep, FleetAuditStep
       DEF Fleet!FleetNext

\* The fleet audit, too, goes on by its own steps.
LEMMA FleetRuns ==
    /\ Init => (subject = "fleet" => FleetInv)
    /\ [Next]_vars => subject' = subject /\ (subject = "fleet" => [Fleet!FleetNext]_fleetVars)
  <1>1. Init => (subject = "fleet" => FleetInv)
    BY FleetInitial DEF Init
  <1>2. [Next]_vars => subject' = subject /\ (subject = "fleet" => [Fleet!FleetNext]_fleetVars)
    BY DEF Next, HistoryStep, QueueStep, FleetStep, CycleStep, RepoStep, StartStep, TrailStep, CliStep, vars
  <1>3. QED
    BY <1>1, <1>2

-----------------------------------------------------------------------------
(* The report.                                                             *)

\* A set that is listed is listed once each.
LEMMA ListedOnce ==
    ASSUME NEW S, IsFiniteSet(S)
    PROVE  /\ Cardinality(S) \in Nat /\ Fleet!SetToSeq(S) \in [1 .. Cardinality(S) -> S]
           /\ \A a, b \in 1 .. Cardinality(S) : Fleet!SetToSeq(S)[a] = Fleet!SetToSeq(S)[b] => a = b
           /\ \A x \in S : \E i \in 1 .. Cardinality(S) : Fleet!SetToSeq(S)[i] = x
  <1> DEFINE n == Cardinality(S)
  <1>1. n \in Nat /\ ExistsBijection(1 .. n, S)
    BY FS_CardinalityType
  <1>2. PICK f \in [1 .. n -> S] : \A a, b \in DOMAIN f : f[a] = f[b] => a = b
    BY <1>1 DEF ExistsBijection, Bijection, Injection, IsInjective
  <1>3. PICK s : s = Fleet!SetToSeq(S)
    OBVIOUS
  <1>4. s = CHOOSE g \in [1 .. n -> S] : \A a, b \in DOMAIN g : g[a] = g[b] => a = b
    BY <1>3 DEF Fleet!SetToSeq, Fleet!IsInjective, Fleet!Cardinality, Cardinality
  <1>5. s \in [1 .. n -> S] /\ \A a, b \in DOMAIN s : s[a] = s[b] => a = b
    BY <1>2, <1>4
  <1>6. s \in Injection(1 .. n, S)
    BY <1>5 DEF Injection, IsInjective
  <1>7. IsFiniteSet(1 .. n) /\ Cardinality(1 .. n) = n
    BY <1>1, FS_Interval
  <1>8. s \in Surjection(1 .. n, S)
    BY <1>6, <1>7, FS_Injection
  <1>9. QED
    BY <1>1, <1>3, <1>5, <1>8 DEF Surjection

\* The jobs of a list.
Told(jobs) == {jobs[i].job : i \in DOMAIN jobs}

\* The processes of a job are listed as one, and every job that was found is listed.
LEMMA DedupeFacts ==
    ASSUME NEW found, IsSequence(found), NEW jobs, jobs = Fleet!DedupeFleet(found)
    PROVE  /\ IsFiniteSet(DOMAIN jobs) /\ IsFiniteSet(Told(jobs)) /\ Len(jobs) = Cardinality(Told(jobs))
           /\ Told(jobs) = Told(found)
  <1> DEFINE Entry(i) == [job |-> found[i].job,
                          pids |-> {found[k].pid : k \in {n \in DOMAIN found : found[n].job = found[i].job}}]
  <1>1. PICK S : S = {Entry(i) : i \in DOMAIN found}
    OBVIOUS
  <1>2. PICK U : U = {found[i].job : i \in DOMAIN found}
    OBVIOUS
  <1>3. jobs = Fleet!SetToSeq(S)
    BY <1>1 DEF Fleet!DedupeFleet
  <1>4. IsFiniteSet(S)
    <2>1. found \in Seq(Range(found))
      BY DEF IsSequence
    <2>2. PICK n \in Nat : DOMAIN found = 1 .. n
      BY <2>1, LenProperties
    <2>3. IsFiniteSet(DOMAIN found)
      BY <2>2, FS_Interval
    <2>4. PICK f : f = [i \in DOMAIN found |-> Entry(i)]
      OBVIOUS
    <2>5. f \in Surjection(DOMAIN found, S)
      BY <1>1, <2>4 DEF Surjection
    <2>6. QED
      BY <2>3, <2>5, FS_Surjection
  <1>5. IsFiniteSet(U) /\ Cardinality(U) = Cardinality(S)
    <2>1. PICK g : g = [e \in S |-> e.job]
      OBVIOUS
    <2>2. \A i \in DOMAIN found : Entry(i).job = found[i].job
      OBVIOUS
    <2>3. \A i, k \in DOMAIN found : found[i].job = found[k].job => Entry(i) = Entry(k)
      OBVIOUS
    <2>4. g \in [S -> U] /\ \A x \in U : \E e \in S : g[e] = x
      <3> HIDE DEF Entry
      <3>1. QED
        BY <1>1, <1>2, <2>1, <2>2
    <2>5. \A e, x \in S : g[e] = g[x] => e = x
      <3> HIDE DEF Entry
      <3>1. QED
        BY <1>1, <2>1, <2>2, <2>3
    <2>6. g \in Bijection(S, U)
      BY <2>1, <2>4, <2>5 DEF Bijection, Injection, Surjection, IsInjective
    <2>7. QED
      BY <1>4, <2>6, FS_Bijection DEF ExistsBijection
  <1>6. /\ Cardinality(S) \in Nat /\ jobs \in [1 .. Cardinality(S) -> S]
        /\ \A x \in S : \E i \in 1 .. Cardinality(S) : jobs[i] = x
    BY <1>3, <1>4, ListedOnce
  <1>7. Len(jobs) = Cardinality(S) /\ DOMAIN jobs = 1 .. Cardinality(S)
    BY <1>6
  <1>8. Told(jobs) = U
    <2>1. \A i \in DOMAIN found : Entry(i).job = found[i].job
      OBVIOUS
    <2>2. \A i \in DOMAIN jobs : \E k \in DOMAIN found : jobs[i].job = found[k].job
      <3> HIDE DEF Entry
      <3>1. QED
        BY <1>1, <1>6, <1>7, <2>1
    <2>3. ASSUME NEW k \in DOMAIN found
          PROVE  \E i \in DOMAIN jobs : jobs[i].job = found[k].job
      <3>1. Entry(k) \in S
        BY <1>1
      <3>2. PICK i \in DOMAIN jobs : jobs[i] = Entry(k)
        BY <1>6, <1>7, <3>1
      <3>3. QED
        BY <2>1, <3>2
    <2>4. QED
      <3> HIDE DEF Entry
      <3>1. QED
        BY <1>2, <2>2, <2>3 DEF Told
  <1>9. IsFiniteSet(DOMAIN jobs)
    BY <1>6, <1>7, FS_Interval
  <1>10. QED
    BY <1>2, <1>5, <1>7, <1>8, <1>9 DEF Told

\* The fleet audit counts as anyone does.
LEMMA FleetCardinality == ASSUME NEW S PROVE Fleet!Cardinality(S) = Cardinality(S)
  BY DEF Fleet!Cardinality, Cardinality

\* A job that ran all through the scan under its worker, near enough, is found.
LEMMA SteadyFound ==
    ASSUME FleetInv, scan.step = "told", NEW j \in Range(JobOf), Fleet!RanThrough(j)
    PROVE  \E i \in DOMAIN scan.found : scan.found[i].job = j
  <1> USE DEF FleetInv
  <1>1. PICK p \in through :
            /\ process[p].job = j
            /\ \E d \in 1 .. MaxDepth - 1 :
                  /\ Fleet!Candidate(p, process)[d] \in Fleet!Workers
                  /\ \A k \in 0 .. d : Fleet!Candidate(p, process)[k] \in through
    BY DEF Fleet!RanThrough
  <1>2. MaxDepth \in Nat
    BY AuditsAssumption DEF Fleet!FleetAuditConstants
  <1>3. PICK d \in 1 .. MaxDepth - 1 :
            /\ Fleet!Candidate(p, process)[d] \in Fleet!Workers
            /\ \A k \in 0 .. d : Fleet!Candidate(p, process)[k] \in through
    BY <1>1
  <1>4. \A q \in through : /\ q \in DOMAIN process /\ q \in DOMAIN scan.index
                           /\ process[q].ppid = scan.index[q].ppid
                           /\ scan.index[q].worker <=> q \in Fleet!Workers
    BY DEF Index, Fleet!Alive
  <1>5. \A k \in 0 .. d : Fleet!Candidate(p, scan.index)[k] = Fleet!Candidate(p, process)[k]
    <2>1. d \in 0 .. MaxDepth
      BY <1>2, <1>3
    <2>2. QED
      BY <1>3, <1>4, <2>1, SameWay
  <1>6. Fleet!HasRunnerWorkerAncestor(p, scan.index)
    <2>1. d \in 0 .. d /\ d \in 0 .. MaxDepth - 1
      BY <1>2, <1>3
    <2>2. /\ Fleet!Candidate(p, scan.index)[d] \in DOMAIN scan.index
          /\ scan.index[Fleet!Candidate(p, scan.index)[d]].worker
      BY <1>3, <1>4, <1>5, <2>1
    <2>3. QED
      BY <2>1, <2>2 DEF Fleet!HasRunnerWorkerAncestor
  <1>7. j # Fleet!NoJob
    BY AuditsAssumption DEF Fleet!FleetAuditConstants, Range, Fleet!Workers
  <1>8. p <= scan.at
    BY DEF Reported
  <1>9. QED
    BY <1>1, <1>6, <1>7, <1>8 DEF Found

\* For any workers, strangers and depth, whatever processes start and end while the
\* scan goes on: the report has no job that no worker ran, every job that ran all
\* through the scan, each once, and does not pass when too many of them are of others.
THEOREM FleetTold == Spec => []FleetIsTold
  <1> DEFINE inv == subject = "fleet" => FleetInv
  <1>1. Init => inv
    BY FleetRuns
  <1>2. inv /\ [Next]_vars => inv'
    BY FleetRuns, FleetKept
  <1>3. inv => FleetIsTold
    <2> SUFFICES ASSUME subject = "fleet", FleetInv PROVE Fleet!FleetIsTold
      BY DEF FleetIsTold
    <2> SUFFICES ASSUME scan.step = "told" PROVE Fleet!FleetIsTold
      BY DEF Fleet!FleetIsTold
    <2>1. PICK found : found = scan.found
      OBVIOUS
    <2>2. PICK jobs : jobs = Fleet!DedupeFleet(found)
      OBVIOUS
    <2>3. PICK told : told = Told(jobs)
      OBVIOUS
    <2>4. IsSequence(found) /\ \A i \in DOMAIN found : found[i].job \in Range(JobOf)
      BY <2>1 DEF FleetInv, Found
    <2>5. /\ IsFiniteSet(DOMAIN jobs) /\ IsFiniteSet(told) /\ Len(jobs) = Cardinality(told)
          /\ told = Told(found)
      BY <2>2, <2>3, <2>4, DedupeFacts
    <2>6. /\ fleet_told.jobs = jobs
          /\ fleet_told.exit = "ok" => Fleet!FleetReport(found).ready
      BY <2>1, <2>2 DEF FleetInv, Reported
    <2>7. PICK steady : steady = {j \in Range(JobOf) : Fleet!RanThrough(j)}
      OBVIOUS
    <2>8. steady \subseteq told /\ told \subseteq Range(JobOf)
      BY <2>1, <2>4, <2>5, <2>7, SteadyFound DEF Told
    <2>9. ASSUME fleet_told.exit = "ok"
          PROVE  Cardinality({j \in steady : ~Fleet!InScope(j)}) <= MaxOutOfScope
      <3>1. PICK out : out = {i \in DOMAIN jobs : ~Fleet!InScope(jobs[i].job)}
        OBVIOUS
      <3>2. Cardinality(out) <= MaxOutOfScope
        BY <2>2, <2>6, <2>9, <3>1, FleetCardinality DEF Fleet!FleetReport
      <3>3. PICK others : others = {jobs[i].job : i \in out}
        OBVIOUS
      <3>4. PICK f : f = [i \in out |-> jobs[i].job]
        OBVIOUS
      <3>5. f \in Surjection(out, others)
        BY <3>3, <3>4 DEF Surjection
      <3>6. IsFiniteSet(out) /\ Cardinality(out) \in Nat
        BY <2>5, <3>1, FS_Subset, FS_CardinalityType
      <3>7. IsFiniteSet(others) /\ Cardinality(others) <= Cardinality(out) /\ Cardinality(others) \in Nat
        BY <3>5, <3>6, FS_Surjection, FS_CardinalityType
      <3>8. PICK rest : rest = {j \in steady : ~Fleet!InScope(j)}
        OBVIOUS
      <3>9. rest \subseteq others
        BY <2>3, <2>8, <3>1, <3>3, <3>8 DEF Told
      <3>10. Cardinality(rest) <= Cardinality(others) /\ Cardinality(rest) \in Nat
        BY <3>7, <3>9, FS_Subset, FS_CardinalityType
      <3>11. MaxOutOfScope \in Nat
        BY AuditsAssumption DEF Fleet!FleetAuditConstants
      <3>12. QED
        BY <3>2, <3>6, <3>7, <3>8, <3>10, <3>11
    <2>10. /\ {fleet_told.jobs[i].job : i \in DOMAIN fleet_told.jobs} = told
           /\ Len(fleet_told.jobs) = Fleet!Cardinality(told)
      BY <2>3, <2>5, <2>6, FleetCardinality DEF Told
    <2>11. fleet_told.exit = "ok" => Fleet!Cardinality({j \in steady : ~Fleet!InScope(j)}) <= MaxOutOfScope
      BY <2>9, FleetCardinality
    <2>12. QED
      <3> DEFINE T == {fleet_told.jobs[i].job : i \in DOMAIN fleet_told.jobs}
                 Q == {j \in Fleet!Range(JobOf) : Fleet!RanThrough(j)}
      <3>0. Fleet!Range(JobOf) = Range(JobOf)
        BY DEF Fleet!Range, Range
      <3>1. T = told /\ Q = steady
        BY <2>7, <2>10, <3>0
      <3>2. /\ Q \subseteq T /\ T \subseteq Fleet!Range(JobOf) /\ Len(fleet_told.jobs) = Fleet!Cardinality(T)
            /\ fleet_told.exit = "ok" => Fleet!Cardinality({j \in Q : ~Fleet!InScope(j)}) <= MaxOutOfScope
        <4> HIDE DEF T, Q
        <4>1. QED
          BY <2>8, <2>10, <2>11, <3>0, <3>1
      <3>3. QED
        BY <3>2, Zenon DEF Fleet!FleetIsTold
  <1>4. QED
    BY <1>1, <1>2, <1>3, PTL DEF Spec
=============================================================================
