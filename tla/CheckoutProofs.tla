--------------------------- MODULE CheckoutProofs ---------------------------
(***************************************************************************)
(* Proofs about Checkout: a forge-loop cycle and runner-state settlement   *)
(* in one checkout, for any paths and traits, any files and lines, and any *)
(* number of calls, cycles, writes and edits.                              *)
(***************************************************************************)
EXTENDS Checkout, SequenceTheorems, FiniteSetTheorems, TLAPS

-----------------------------------------------------------------------------
(* Kept: its positions are counted by an injection between finite sets of  *)
(* the same size, so each line kept has its place.                         *)

\* The positions of keep up to the i-th.
UpTo(keep, i) == {j \in keep : j <= i}

\* Counting the positions up to each is a bijection onto their number.
LEMMA CountingIsBijection ==
    ASSUME NEW n \in Nat, NEW keep \in SUBSET (1 .. n)
    PROVE  /\ IsFiniteSet(keep) /\ Cardinality(keep) \in Nat
           /\ \A i \in keep : Cardinality(UpTo(keep, i)) \in 1 .. Cardinality(keep)
           /\ \A i, j \in keep :
                  Cardinality(UpTo(keep, i)) = Cardinality(UpTo(keep, j)) => i = j
           /\ \A k \in 1 .. Cardinality(keep) :
                  \E i \in keep : Cardinality(UpTo(keep, i)) = k
  <1> DEFINE nth == [i \in keep |-> Cardinality(UpTo(keep, i))]
             c == Cardinality(keep)
  <1>1. IsFiniteSet(keep) /\ c \in Nat
    <2>1. IsFiniteSet(1 .. n)
      BY FS_Interval
    <2>2. IsFiniteSet(keep)
      BY <2>1, FS_Subset
    <2>3. QED
      BY <2>2, FS_CardinalityType
  <1>2. ASSUME NEW i \in keep
        PROVE  /\ IsFiniteSet(UpTo(keep, i)) /\ i \in UpTo(keep, i)
               /\ Cardinality(UpTo(keep, i)) \in 1 .. c
    <2>1. UpTo(keep, i) \in SUBSET keep /\ i \in UpTo(keep, i)
      BY DEF UpTo
    <2>2. /\ IsFiniteSet(UpTo(keep, i)) /\ Cardinality(UpTo(keep, i)) <= c
      BY <1>1, <2>1, FS_Subset
    <2>3. Cardinality(UpTo(keep, i)) \in Nat /\ Cardinality(UpTo(keep, i)) # 0
      BY <2>1, <2>2, FS_CardinalityType, FS_EmptySet
    <2>4. QED
      <3> DEFINE u == Cardinality(UpTo(keep, i))
      <3>1. u \in Nat /\ u # 0 /\ u <= c
        BY <2>2, <2>3
      <3> HIDE DEF u, c
      <3>2. u \in 1 .. c
        BY <1>1, <3>1
      <3>3. QED
        BY <2>1, <2>2, <3>2 DEF u
  <1>3. ASSUME NEW i \in keep, NEW j \in keep, i < j
        PROVE  Cardinality(UpTo(keep, i)) # Cardinality(UpTo(keep, j))
    <2>0. \A h \in keep : h \in Nat
      OBVIOUS
    <2>1. UpTo(keep, i) \in SUBSET UpTo(keep, j) /\ j \notin UpTo(keep, i)
      <3>1. ~(j <= i) /\ \A h \in keep : h <= i => h <= j
        BY <1>3, <2>0
      <3>2. QED
        BY <3>1 DEF UpTo
    <2>2. IsFiniteSet(UpTo(keep, j)) /\ j \in UpTo(keep, j)
      BY <1>2
    <2>3. UpTo(keep, i) # UpTo(keep, j)
      BY <2>1, <2>2
    <2> DEFINE small == UpTo(keep, i)
               large == UpTo(keep, j)
    <2>4. Cardinality(large) = Cardinality(small) => large = small
      <3>1. IsFiniteSet(large) /\ small \in SUBSET large
        BY <2>1, <2>2
      <3> HIDE DEF small, large
      <3>2. QED
        BY <3>1, FS_Subset
    <2>5. QED
      BY <2>3, <2>4
  <1>4. \A i, j \in keep : Cardinality(UpTo(keep, i)) = Cardinality(UpTo(keep, j)) => i = j
    <2> SUFFICES ASSUME NEW i \in keep, NEW j \in keep,
                        Cardinality(UpTo(keep, i)) = Cardinality(UpTo(keep, j))
                 PROVE  i = j
      OBVIOUS
    <2>1. ~(i < j) /\ ~(j < i)
      BY <1>3
    <2>2. QED
      BY <2>1
  <1>5. nth \in Injection(keep, 1 .. c)
    <2>1. nth \in [keep -> 1 .. c]
      BY <1>2
    <2>2. \A i, j \in keep : nth[i] = nth[j] => i = j
      BY <1>4
    <2> HIDE DEF nth
    <2>3. QED
      BY <2>1, <2>2 DEF Injection, IsInjective
  <1>6. nth \in Surjection(keep, 1 .. c)
    <2>1. IsFiniteSet(1 .. c) /\ Cardinality(1 .. c) = c
      BY <1>1, FS_Interval
    <2> HIDE DEF nth
    <2>2. QED
      BY <1>5, <2>1, FS_Injection
  <1>7. \A k \in 1 .. c : \E i \in keep : nth[i] = k
    <2> HIDE DEF nth
    <2>1. QED
      BY <1>6 DEF Surjection
  <1>8. QED
    BY <1>1, <1>2, <1>4, <1>7

\* Kept holds the lines at the positions to keep, and no others.
LEMMA KeptFacts ==
    ASSUME NEW S, NEW lines \in Seq(S), NEW keep \in SUBSET DOMAIN lines
    PROVE  /\ Kept(lines, keep) \in Seq(S)
           /\ Elements(Kept(lines, keep)) = {lines[i] : i \in keep}
  <1> DEFINE c == Cardinality(keep)
             nth == [i \in keep |-> Cardinality(UpTo(keep, i))]
             kept == [k \in 1 .. c |-> lines[CHOOSE i \in keep : nth[i] = k]]
  <1>1. Len(lines) \in Nat /\ keep \in SUBSET (1 .. Len(lines))
    OBVIOUS
  <1>2. Kept(lines, keep) = kept
    BY DEF Kept, UpTo
  <1>3. /\ c \in Nat
        /\ \A i \in keep : nth[i] \in 1 .. c
        /\ \A i, j \in keep : nth[i] = nth[j] => i = j
        /\ \A k \in 1 .. c : \E i \in keep : nth[i] = k
    <2>1. \A i \in keep : nth[i] = Cardinality(UpTo(keep, i))
      OBVIOUS
    <2>2. /\ c \in Nat
          /\ \A i \in keep : Cardinality(UpTo(keep, i)) \in 1 .. c
          /\ \A i, j \in keep :
                 Cardinality(UpTo(keep, i)) = Cardinality(UpTo(keep, j)) => i = j
          /\ \A k \in 1 .. c : \E i \in keep : Cardinality(UpTo(keep, i)) = k
      BY <1>1, CountingIsBijection
    <2> HIDE DEF nth
    <2>3. QED
      BY <2>1, <2>2
  <1> HIDE DEF nth
  <1>4. \A i \in keep : (CHOOSE j \in keep : nth[j] = nth[i]) = i
    BY <1>3
  <1>5. \A k \in 1 .. c : \E i \in keep : kept[k] = lines[i]
    BY <1>3
  <1>6. \A i \in keep : nth[i] \in DOMAIN kept /\ kept[nth[i]] = lines[i]
    BY <1>3, <1>4
  <1>7. \A i \in keep : lines[i] \in S
    BY <1>1
  <1>8. kept \in [1 .. c -> S]
    BY <1>5, <1>7
  <1>9. kept \in Seq(S)
    <2> HIDE DEF kept, c
    <2>1. QED
      BY <1>3, <1>8
  <1>10. Elements(kept) = {lines[i] : i \in keep}
    <2>1. DOMAIN kept = 1 .. c
      OBVIOUS
    <2> HIDE DEF kept, c
    <2>2. QED
      BY <1>5, <1>6, <2>1 DEF Elements
  <1>11. QED
    BY <1>2, <1>9, <1>10

-----------------------------------------------------------------------------
(* What the helpers of WorkTree return.                                    *)

\* There is one .gitignore, it has no other trait, and no path is of both _work and .kb.
LEMMA PathTraits ==
    /\ gitignore \in Path /\ traits[gitignore] = {"gitignore"}
    /\ \A p \in Path : "gitignore" \in traits[p] => p = gitignore
    /\ Is("gitconfig") \cap (Is("store") \cup Is("runtime")) = {}
  <1>1. gitignore \in Path /\ traits[gitignore] = {"gitignore"}
        /\ \A p \in Path : "gitignore" \in traits[p] => p = gitignore
    <2>1. PICK p \in Path : /\ traits[p] = {"gitignore"}
                            /\ \A q \in Path : "gitignore" \in traits[q] => q = p
      BY WorkTreeAssumption
    <2>2. gitignore = p
      BY <2>1 DEF gitignore
    <2>3. QED
      BY <2>1, <2>2
  <1>2. QED
    BY <1>1, WorkTreeAssumption DEF Is

\* Writing or removing a file leaves a tree.
LEMMA WithIsTree ==
    ASSUME NEW t, IsTree(t), NEW p \in Path, NEW lines \in Seq(Line)
    PROVE  IsTree(With(t, p, lines)) /\ IsTree(Without(t, p))
  BY DEF IsTree, With, Without

\* git add takes files from the work tree or keeps those of the index.
LEMMA AddIsTree ==
    ASSUME IsTree(tree), IsTree(index), NEW paths, GitAdd(paths)
    PROVE  IsTree(index')
  <1> DEFINE taken == {p \in paths : ~Ignored(p)}
             kept == {p \in DOMAIN index : p \notin taken}
  <1>1. index' = [p \in kept \cup (taken \cap DOMAIN tree) |->
                     IF p \in taken THEN tree[p] ELSE index[p]]
    BY DEF GitAdd
  <1> HIDE DEF taken
  <1>2. DOMAIN index' \subseteq Path
    BY <1>1 DEF IsTree
  <1>3. \A p \in DOMAIN index' : index'[p] \in Seq(Line)
    BY <1>1 DEF IsTree
  <1>4. QED
    BY <1>2, <1>3 DEF IsTree

-----------------------------------------------------------------------------
(* Classification.                                                         *)

\* The first rule that matches, when one does.
LEMMA FirstHit ==
    ASSUME NEW hits \in SUBSET (1 .. 9), hits # {}
    PROVE  LET first == CHOOSE i \in hits : \A j \in hits : i <= j
           IN  first \in hits /\ \A j \in hits : first <= j
  <1>1. \E i \in hits : \A j \in hits : i <= j
    <2>1. hits \subseteq Nat
      OBVIOUS
    <2>2. PICK i \in hits : \A j \in hits : ~(<<j, i>> \in OpToRel(<, Nat))
      BY <2>1, NatLessThanWellFounded, WFMin, Zenon
    <2>3. \A j \in hits : ~(j < i)
      BY <2>1, <2>2 DEF OpToRel
    <2>4. QED
      BY <2>1, <2>3
  <1>2. QED
    BY <1>1

\* The nine rules, one by one.
LEMMA RuleList ==
    ASSUME NEW i \in 1 .. 9
    PROVE  /\ Rules[i].class \in Class /\ Rules[i].blocker \in BOOLEAN
           /\ Rules[i].class = "config churn" <=> Rules[i].when \in {"gitignore", "churned"}
           /\ Rules[i].class = "gitkb runtime" => Rules[i].when \in {"store", "runtime"}
  <1>1. \/ i = 1 \/ i = 2 \/ i = 3 \/ i = 4 \/ i = 5 \/ i = 6 \/ i = 7 \/ i = 8 \/ i = 9
    OBVIOUS
  <1>2. /\ Rules[1].when = "denied" /\ Rules[1].class = "denied" /\ Rules[1].blocker = TRUE
        /\ Rules[2].when = "store" /\ Rules[2].class = "gitkb runtime" /\ Rules[2].blocker = FALSE
        /\ Rules[3].when = "runtime" /\ Rules[3].class = "gitkb runtime" /\ Rules[3].blocker = FALSE
        /\ Rules[4].when = "gitignore" /\ Rules[4].class = "config churn" /\ Rules[4].blocker = TRUE
        /\ Rules[5].when = "churned" /\ Rules[5].class = "config churn" /\ Rules[5].blocker = FALSE
        /\ Rules[6].when = "gitconfig" /\ Rules[6].class = "live" /\ Rules[6].blocker = FALSE
        /\ Rules[7].when = "pipeline" /\ Rules[7].class = "live" /\ Rules[7].blocker = FALSE
        /\ Rules[8].when = "cache" /\ Rules[8].class = "cache" /\ Rules[8].blocker = FALSE
        /\ Rules[9].when = "work" /\ Rules[9].class = "live" /\ Rules[9].blocker = FALSE
    BY DEF Rules
  <1>3. Rules[i].class \in Class /\ Rules[i].blocker \in BOOLEAN
    BY <1>1, <1>2 DEF Class
  <1>4. Rules[i].class = "config churn" <=> Rules[i].when \in {"gitignore", "churned"}
    BY <1>1, <1>2
  <1>5. Rules[i].class = "gitkb runtime" => Rules[i].when \in {"store", "runtime"}
    BY <1>1, <1>2
  <1>6. QED
    BY <1>3, <1>4, <1>5

\* A rule is one of the nine or none; those that ask for a step of normalize
\* ask it of .gitignore and churned gitconfigs, and of what is GitKB's.
LEMMA RuleFacts ==
    ASSUME NEW p \in Path
    PROVE  /\ FirstRule(p).class \in Class /\ FirstRule(p).blocker \in BOOLEAN
           /\ FirstRule(p).class = "config churn" => p = gitignore \/ p \in Is("gitconfig")
           /\ FirstRule(p).class = "gitkb runtime" => p \in Is("store") \cup Is("runtime")
           /\ FirstRule(gitignore).class = "config churn"
  <1> DEFINE hits(q) == {i \in DOMAIN Rules : Matches(q, Rules[i])}
  <1>1. DOMAIN Rules = 1 .. 9
    BY DEF Rules
  <1>4. ASSUME NEW q \in Path, hits(q) # {}
        PROVE  \E i \in 1 .. 9 : FirstRule(q) = Rules[i] /\ Matches(q, Rules[i])
    <2> DEFINE first == CHOOSE i \in hits(q) : \A j \in hits(q) : i <= j
    <2>1. FirstRule(q) = Rules[first]
      BY <1>4 DEF FirstRule
    <2>2. hits(q) \in SUBSET (1 .. 9)
      BY <1>1
    <2>3. first \in hits(q)
      <3> HIDE DEF hits
      <3>1. QED
        BY <1>4, <2>2, FirstHit
    <2>4. QED
      BY <1>1, <2>1, <2>3
  <1>5. ASSUME NEW q \in Path, hits(q) = {}
        PROVE  FirstRule(q) = NoRule
    BY <1>5 DEF FirstRule
  <1>6. NoRule.class = "unclassified" /\ NoRule.blocker = TRUE
    BY DEF NoRule
  <1>7. /\ FirstRule(p).class \in Class /\ FirstRule(p).blocker \in BOOLEAN
        /\ FirstRule(p).class = "config churn" => p = gitignore \/ p \in Is("gitconfig")
        /\ FirstRule(p).class = "gitkb runtime" => p \in Is("store") \cup Is("runtime")
    <2>1. CASE hits(p) = {}
      <3>1. FirstRule(p) = NoRule
        BY <1>5, <2>1
      <3>2. QED
        BY <1>6, <3>1 DEF Class
    <2>2. CASE hits(p) # {}
      <3>1. PICK i \in 1 .. 9 : FirstRule(p) = Rules[i] /\ Matches(p, Rules[i])
        BY <1>4, <2>2
      <3>2. Rules[i].when \in {"gitignore", "churned"} => p = gitignore \/ p \in Is("gitconfig")
        <4>1. "churned" \notin traits[p]
          BY WorkTreeAssumption DEF Trait
        <4>2. QED
          BY <3>1, <4>1, PathTraits DEF Matches, Is
      <3>3. Rules[i].when \in {"store", "runtime"} => p \in Is("store") \cup Is("runtime")
        BY <3>1 DEF Matches, Is
      <3>4. QED
        BY <3>1, <3>2, <3>3, RuleList
    <2>3. QED
      BY <2>1, <2>2
  <1>8. FirstRule(gitignore).class = "config churn"
    <2>1. 4 \in 1 .. 9 /\ Rules[4].when = "gitignore"
      <3>1. 4 \in 1 .. 9
        OBVIOUS
      <3>2. Rules[4].when = "gitignore"
        BY DEF Rules
      <3>3. QED
        BY <3>1, <3>2
    <2>2. \A i \in 1 .. 9 : Matches(gitignore, Rules[i]) <=> Rules[i].when = "gitignore"
      BY PathTraits DEF Matches
    <2>4. 4 \in hits(gitignore)
      BY <1>1, <2>1, <2>2
    <2>5. PICK i \in 1 .. 9 : FirstRule(gitignore) = Rules[i] /\ Matches(gitignore, Rules[i])
      BY <1>4, <2>4, PathTraits
    <2>6. QED
      BY <2>2, <2>5, RuleList
  <1>9. QED
    BY <1>7, <1>8

\* The paths an audit looks at, and that of .gitignore while it hides _work.
LEMMA CandidateFacts ==
    ASSUME GitTypeOK, NEW git \in BOOLEAN
    PROVE  /\ Candidates(git) \subseteq Path
           /\ Hides(tree) => gitignore \in Candidates(git)
           /\ git => GitStatus \cap InScope \subseteq Candidates(git)
           /\ git /\ ~Hides(tree) => Candidates(git) = GitStatus \cap InScope
  BY PathTraits DEF Candidates, GitStatus, InScope, Is, GitTypeOK, IsTree

\* The entries of an audit are of candidates within the slots, each by its rule.
LEMMA AuditFacts ==
    ASSUME GitTypeOK, NEW git \in BOOLEAN
    PROVE  /\ Audit(git).git = git /\ Audit(git).entries \subseteq Entry
           /\ \A e \in Audit(git).entries : e.path \in Path /\ e = Classified(e.path)
           /\ \A p \in Candidates(git) : InSlots(p) => Classified(p) \in Audit(git).entries
           /\ Candidates(git) = {} => Audit(git).entries = {}
  <1>1. Candidates(git) \subseteq Path
    BY CandidateFacts
  <1>2. \A p \in Path : Classified(p) \in Entry /\ Classified(p).path = p
    BY RuleFacts DEF Classified, Entry
  <1>3. /\ Audit(git).git = git
        /\ Audit(git).entries = {Classified(p) : p \in {q \in Candidates(git) : InSlots(q)}}
    BY DEF Audit
  <1>4. QED
    BY <1>1, <1>2, <1>3

\* What normalize may be asked to do with an entry.
Workable(e) ==
    /\ e \in Entry
    /\ e.class \in {"config churn", "gitkb runtime"}
    /\ e.class = "config churn" => e.path = gitignore \/ e.path \in Is("gitconfig")
    /\ e.class = "gitkb runtime" => e.path \in Is("store") \cup Is("runtime")

\* Every entry of an audit that asks for something is worked off once its turn comes.
LEMMA WorkedOffFacts ==
    ASSUME GitTypeOK, NEW git \in BOOLEAN
    PROVE  LET acts == {e \in Audit(git).entries : ActsOn(e)}
           IN  /\ WorkedOff(acts) \in Seq(Entry)
               /\ \A k \in DOMAIN WorkedOff(acts) : Workable(WorkedOff(acts)[k])
               /\ \A e \in acts : \E k \in DOMAIN WorkedOff(acts) : WorkedOff(acts)[k] = e
  <1> DEFINE acts == {e \in Audit(git).entries : ActsOn(e)}
             keep == {i \in DOMAIN PathOrder : \E e \in acts : e.path = PathOrder[i]}
             paths == Kept(PathOrder, keep)
             worked == [k \in DOMAIN paths |-> CHOOSE e \in acts : e.path = paths[k]]
  <1>1. /\ Audit(git).entries \subseteq Entry
        /\ \A e \in Audit(git).entries : e.path \in Path /\ e = Classified(e.path)
    BY AuditFacts
  <1>2. PathOrder \in Seq(Path) /\ Elements(PathOrder) = Path
    BY RunnerStateAssumption
  <1>3. paths \in Seq(Path) /\ Elements(paths) = {PathOrder[i] : i \in keep}
    <2>1. keep \in SUBSET DOMAIN PathOrder
      OBVIOUS
    <2> HIDE DEF keep
    <2>2. QED
      BY <1>2, <2>1, KeptFacts
  <1>4. WorkedOff(acts) = worked
    BY DEF WorkedOff
  <1>5. ASSUME NEW k \in DOMAIN paths
        PROVE  worked[k] \in acts /\ worked[k].path = paths[k]
    <2>1. \E i \in keep : paths[k] = PathOrder[i]
      <3> HIDE DEF keep, paths
      <3>1. QED
        BY <1>3 DEF Elements
    <2>2. \E e \in acts : e.path = paths[k]
      BY <2>1
    <2>3. QED
      <3> HIDE DEF acts, paths
      <3>1. QED
        BY <2>2
  <1>6. \A e \in acts : Workable(e)
    <2> SUFFICES ASSUME NEW e \in acts
                 PROVE  Workable(e)
      OBVIOUS
    <2>1. e \in Entry /\ e.path \in Path /\ e.class = FirstRule(e.path).class
      BY <1>1 DEF Classified
    <2>2. e.class \in {"config churn", "gitkb runtime"}
      BY DEF ActsOn
    <2>3. /\ e.class = "config churn" => e.path = gitignore \/ e.path \in Is("gitconfig")
          /\ e.class = "gitkb runtime" => e.path \in Is("store") \cup Is("runtime")
      BY <2>1, RuleFacts
    <2>4. QED
      BY <2>1, <2>2, <2>3 DEF Workable
  <1>7. worked \in Seq(Entry)
    <2>1. \A k \in DOMAIN paths : worked[k] \in Entry
      BY <1>1, <1>5
    <2>2. DOMAIN paths = 1 .. Len(paths) /\ Len(paths) \in Nat
      <3> HIDE DEF paths
      <3>1. QED
        BY <1>3
    <2>3. worked \in [1 .. Len(paths) -> Entry]
      BY <2>1, <2>2
    <2> HIDE DEF worked, paths
    <2>4. QED
      BY <2>2, <2>3
  <1>8. ASSUME NEW e \in acts
        PROVE  \E k \in DOMAIN worked : worked[k] = e
    <2>1. PICK i \in DOMAIN PathOrder : PathOrder[i] = e.path
      BY <1>1, <1>2 DEF Elements
    <2>2. PathOrder[i] \in {PathOrder[j] : j \in keep}
      BY <2>1
    <2>3. PICK k \in DOMAIN paths : paths[k] = e.path
      <3> HIDE DEF keep, paths
      <3>1. QED
        BY <1>3, <2>1, <2>2 DEF Elements
    <2>4. worked[k] \in acts /\ worked[k].path = e.path
      BY <1>5, <2>3
    <2>5. worked[k] = e
      BY <1>1, <2>4
    <2>6. QED
      BY <2>5
  <1>9. QED
    <2> HIDE DEF acts, worked
    <2>1. /\ worked \in Seq(Entry)
          /\ \A k \in DOMAIN worked : Workable(worked[k])
          /\ \A e \in acts : \E k \in DOMAIN worked : worked[k] = e
      BY <1>5, <1>6, <1>7, <1>8 DEF worked
    <2>2. QED
      BY <1>4, <2>1 DEF acts

-----------------------------------------------------------------------------
(* Types.  A command works off entries it can work off, and a dedupe in    *)
(* progress is that of a gitconfig.                                        *)

StateInv ==
    /\ StateTypeOK
    /\ \A k \in DOMAIN todo : Workable(todo[k])
    /\ pc = "rename" => Head(todo).path \in Is("gitconfig")

CheckoutInv == TypeOK /\ StateInv

\* The entry whose turn it is.
LEMMA HeadWorkable ==
    ASSUME StateInv, pc \in {"normalize", "rename"}
    PROVE  /\ Workable(Head(todo)) /\ Head(todo) = todo[1] /\ 1 \in DOMAIN todo
           /\ Tail(todo) \in Seq(Entry)
           /\ \A k \in DOMAIN Tail(todo) : Tail(todo)[k] = todo[k + 1] /\ k + 1 \in DOMAIN todo
           /\ \A k \in DOMAIN todo : k # 1 => k - 1 \in DOMAIN Tail(todo) /\ Tail(todo)[k - 1] = todo[k]
  <1>1. todo \in Seq(Entry) /\ todo # <<>>
    BY DEF StateInv, StateTypeOK
  <1>2. /\ Head(todo) = todo[1] /\ 1 \in DOMAIN todo
        /\ Tail(todo) \in Seq(Entry) /\ Len(Tail(todo)) = Len(todo) - 1
        /\ \A k \in 1 .. Len(Tail(todo)) : Tail(todo)[k] = todo[k + 1]
    BY <1>1, HeadTailProperties
  <1>3. \A k \in DOMAIN Tail(todo) : k + 1 \in DOMAIN todo
    BY <1>1, <1>2
  <1>4. \A k \in DOMAIN todo : k # 1 => k - 1 \in DOMAIN Tail(todo) /\ (k - 1) + 1 = k
    BY <1>1, <1>2
  <1>5. DOMAIN Tail(todo) = 1 .. Len(Tail(todo))
    BY <1>2
  <1>6. QED
    BY <1>2, <1>3, <1>4, <1>5 DEF StateInv

\* Where a command goes once nothing is left to normalize.
LEMMA AfterNormalizeFacts ==
    AfterNormalize \in {"ok", "failed", "add", "final"}
  BY DEF AfterNormalize

\* When the first entry is dealt with, the next one has its turn.
LEMMA DoneKeeps ==
    ASSUME StateInv, pc \in {"normalize", "rename"}, Done,
           rewritten' \in Seq(Line), report' = report
    PROVE  StateInv'
  <1>1. /\ todo' = Tail(todo)
        /\ pc' = IF todo' = <<>> THEN AfterNormalize ELSE "normalize"
        /\ runnerUp' = runnerUp /\ inv' = inv
    BY DEF Done, Goto
  <1>2. todo' \in Seq(Entry) /\ \A k \in DOMAIN todo' : Workable(todo'[k])
    BY <1>1, HeadWorkable DEF StateInv
  <1>3. pc' \in Running \cup Settled /\ pc' # "rename" /\ (pc' = "normalize" => todo' # <<>>)
    BY <1>1, AfterNormalizeFacts DEF Running, Settled
  <1>4. StateTypeOK'
    BY <1>1, <1>2, <1>3 DEF StateInv, StateTypeOK
  <1>5. QED
    BY <1>2, <1>3, <1>4 DEF StateInv

\* A step that moves on without a todo list of its own.
LEMMA GotoKeeps ==
    ASSUME StateInv, NEW next \in (Running \cup Settled) \ {"normalize", "rename"},
           Goto(next), UNCHANGED <<todo, rewritten>>,
           report'.git \in BOOLEAN, report'.entries \subseteq Entry
    PROVE  StateInv'
  BY DEF StateInv, StateTypeOK, Goto

\* An audit finds entries by the rules, and its todo list can be worked off.
LEMMA AuditBeforeKeeps ==
    ASSUME GitTypeOK, StateInv, AuditBefore
    PROVE  StateInv'
  <1>1. PICK git \in BOOLEAN :
            /\ report' = Audit(git)
            /\ todo' = IF inv.dry_run THEN <<>>
                       ELSE WorkedOff({e \in Audit(git).entries : ActsOn(e)})
    BY DEF AuditBefore
  <1>2. report'.git \in BOOLEAN /\ report'.entries \subseteq Entry
    BY <1>1, AuditFacts
  <1>3. todo' \in Seq(Entry) /\ \A k \in DOMAIN todo' : Workable(todo'[k])
    <2>1. CASE inv.dry_run
      BY <1>1, <2>1
    <2>2. CASE ~inv.dry_run
      BY <1>1, <2>2, WorkedOffFacts
    <2>3. QED
      BY <2>1, <2>2
  <1>4. /\ pc' = IF todo' = <<>> THEN AfterNormalize ELSE "normalize"
        /\ runnerUp' = runnerUp /\ inv' = inv /\ rewritten' = rewritten
    BY DEF AuditBefore, Goto
  <1>5. pc' \in Running \cup Settled /\ pc' # "rename" /\ (pc' = "normalize" => todo' # <<>>)
    BY <1>4, AfterNormalizeFacts DEF Running, Settled
  <1>6. StateTypeOK'
    BY <1>2, <1>3, <1>4, <1>5 DEF StateInv, StateTypeOK
  <1>7. QED
    BY <1>3, <1>5, <1>6 DEF StateInv

\* A duplicate that is dropped leaves a sequence of lines.
LEMMA DedupedFacts ==
    ASSUME NEW lines \in Seq(Line)
    PROVE  /\ Deduped(lines) \in Seq(Line)
           /\ Elements(Deduped(lines)) = {lines[i] : i \in DOMAIN lines \ Duplicates(lines)}
  <1> DEFINE keep == {i \in DOMAIN lines : i \notin Duplicates(lines)}
  <1>1. keep \in SUBSET DOMAIN lines /\ keep = DOMAIN lines \ Duplicates(lines)
    OBVIOUS
  <1>2. Deduped(lines) = Kept(lines, keep)
    BY DEF Deduped
  <1> HIDE DEF keep
  <1>3. QED
    BY <1>1, <1>2, KeptFacts

\* No file of .gitignore hides _work once its broad rules are dropped.
LEMMA RewrittenFacts ==
    ASSUME NEW lines \in Seq(Line)
    PROVE  LET rest == Kept(lines, {i \in DOMAIN lines : lines[i] \notin BroadRule})
           IN  rest \in Seq(Line) /\ Elements(rest) \cap BroadRule = {}
  <1> DEFINE keep == {i \in DOMAIN lines : lines[i] \notin BroadRule}
  <1>1. keep \in SUBSET DOMAIN lines /\ \A i \in keep : lines[i] \notin BroadRule
    OBVIOUS
  <1>2. /\ Kept(lines, keep) \in Seq(Line)
        /\ Elements(Kept(lines, keep)) = {lines[i] : i \in keep}
    <2> HIDE DEF keep
    <2>1. QED
      BY <1>1, KeptFacts
  <1>3. QED
    BY <1>1, <1>2

\* The steps of normalize leave trees behind.
LEMMA NormalizeKeeps ==
    ASSUME GitTypeOK, StateInv, Normalize
    PROVE  GitTypeOK' /\ StateInv'
  <1>1. CASE DedupeRead
    <2>1. /\ pc = "normalize" /\ Workable(Head(todo)) /\ Head(todo).path \in Path
          /\ Head(todo).class = "config churn" /\ Head(todo).path # gitignore
          /\ tree[Head(todo).path] \in Seq(Line)
      BY <1>1, HeadWorkable DEF DedupeRead, GitTypeOK, IsTree, Workable, Entry
    <2>2. rewritten' \in Seq(Line)
      BY <1>1, <2>1, DedupedFacts DEF DedupeRead
    <2>3. /\ Head(todo).path \in Is("gitconfig")
          /\ pc' = "rename" /\ todo # <<>>
          /\ UNCHANGED <<gitVars, runnerUp, inv, todo, report>>
      BY <1>1, <2>1 DEF DedupeRead, Goto, Quiet, Workable, StateInv, StateTypeOK
    <2>4. GitTypeOK'
      BY <2>3 DEF GitTypeOK, gitVars
    <2>5. StateTypeOK'
      BY <2>2, <2>3 DEF StateInv, StateTypeOK, Running
    <2>6. QED
      BY <2>3, <2>4, <2>5 DEF StateInv
  <1>2. CASE DedupeRename \/ RewriteGitignore \/ RemoveRuntime
    <2>1. /\ pc \in {"normalize", "rename"} /\ Done
          /\ UNCHANGED <<index, head, branch, remote, prs, report>>
          /\ rewritten' \in Seq(Line)
      <3>1. rewritten \in Seq(Line) /\ <<>> \in Seq(Line)
        BY DEF StateInv, StateTypeOK
      <3>2. rewritten' \in {rewritten, <<>>}
        BY <1>2 DEF DedupeRename, RewriteGitignore, RemoveRuntime
      <3>3. /\ pc \in {"normalize", "rename"} /\ Done
            /\ UNCHANGED <<index, head, branch, remote, prs, report>>
        BY <1>2 DEF DedupeRename, RewriteGitignore, RemoveRuntime
      <3>4. QED
        BY <3>1, <3>2, <3>3
    <2>2. Head(todo).path \in Path /\ gitignore \in Path
      BY <2>1, HeadWorkable, PathTraits DEF Workable, Entry
    <2>3. IsTree(tree')
      <3>1. IsTree(tree) /\ rewritten \in Seq(Line)
        BY DEF GitTypeOK, StateInv, StateTypeOK
      <3>2. CASE DedupeRename
        BY <2>2, <3>1, <3>2, WithIsTree DEF DedupeRename
      <3>3. CASE RewriteGitignore
        <4>1. tree[gitignore] \in Seq(Line)
          BY <3>1, <3>3 DEF RewriteGitignore, IsTree
        <4>2. QED
          BY <2>2, <3>1, <3>3, <4>1, RewrittenFacts, WithIsTree DEF RewriteGitignore
      <3>4. CASE RemoveRuntime
        <4>1. rewritten \in Seq(Line)
          BY <3>1
        <4>2. QED
          BY <2>2, <3>1, <3>4, WithIsTree DEF RemoveRuntime
      <3>5. QED
        BY <1>2, <3>2, <3>3, <3>4
    <2>4. GitTypeOK'
      BY <2>1, <2>3 DEF GitTypeOK
    <2>5. StateInv'
      BY <2>1, DoneKeeps
    <2>6. QED
      BY <2>4, <2>5
  <1>3. QED
    BY <1>1, <1>2 DEF Normalize

\* The requests of a tree of branches, one more of them with a request of its own.
LEMMA RequestsKeep ==
    ASSUME GitTypeOK, NEW b \in DOMAIN remote \ {Main}, NEW r \in Request,
           prs' = [c \in DOMAIN prs \cup {b} |-> IF c = b THEN r ELSE prs[c]],
           UNCHANGED <<tree, index, head, branch, remote>>
    PROVE  GitTypeOK'
  BY DEF GitTypeOK

\* A push copies the last commit.
LEMMA PushKeeps ==
    ASSUME GitTypeOK, NEW b \in BranchName, GitPush(b),
           UNCHANGED <<tree, index, head, branch, prs>>
    PROVE  GitTypeOK'
  BY DEF GitTypeOK, GitPush

\* Every step of a command keeps the types.
LEMMA StateStepKeeps ==
    ASSUME GitTypeOK, StateInv, StateStep
    PROVE  GitTypeOK' /\ StateInv'
  <1>1. /\ report.git \in BOOLEAN /\ report.entries \subseteq Entry
        /\ IsTree(tree) /\ IsTree(index) /\ branch \in BranchName /\ inv \in Invocation
    BY DEF StateInv, StateTypeOK, GitTypeOK
  <1>2. CASE IdleGate
    <2>1. UNCHANGED <<gitVars, todo, rewritten, report>> /\ (Goto("refused") \/ Goto("audit"))
      BY <1>2 DEF IdleGate, Quiet
    <2>2. GitTypeOK'
      BY <2>1 DEF GitTypeOK, gitVars
    <2>3. QED
      BY <1>1, <2>1, <2>2, GotoKeeps DEF Running, Settled
  <1>3. CASE AuditBefore
    <2>1. GitTypeOK'
      BY <1>3 DEF AuditBefore, Quiet, GitTypeOK, gitVars
    <2>2. QED
      BY <1>3, <2>1, AuditBeforeKeeps
  <1>4. CASE Normalize
    BY <1>4, NormalizeKeeps
  <1>5. CASE AddSnapshot
    <2>1. IsTree(index')
      BY <1>1, <1>5, AddIsTree DEF AddSnapshot
    <2>2. GitTypeOK'
      BY <1>5, <2>1 DEF AddSnapshot, GitTypeOK
    <2>3. (Goto("commit") \/ Goto("failed")) /\ UNCHANGED <<todo, rewritten, report>>
      BY <1>5 DEF AddSnapshot
    <2>4. QED
      BY <1>1, <2>2, <2>3, GotoKeeps DEF Running, Settled
  <1>6. CASE CommitSnapshot
    <2>1. GitTypeOK'
      BY <1>6 DEF CommitSnapshot, GitCommit, GitTypeOK
    <2>2. (Goto("push") \/ Goto("final")) /\ UNCHANGED <<todo, rewritten, report>>
      BY <1>6 DEF CommitSnapshot
    <2>3. QED
      BY <1>1, <2>1, <2>2, GotoKeeps DEF Running, Settled
  <1>7. CASE PushSnapshot
    <2>1. GitTypeOK'
      BY <1>1, <1>7, PushKeeps DEF PushSnapshot
    <2>2. Goto("create") /\ UNCHANGED <<todo, rewritten, report>>
      BY <1>7 DEF PushSnapshot
    <2>3. QED
      BY <1>1, <2>1, <2>2, GotoKeeps DEF Running, Settled
  <1>8. CASE CreateSnapshotPr
    <2>1. PICK armed \in {FALSE, inv.automerge} :
              /\ branch \in DOMAIN remote \ {Main}
              /\ prs' = [c \in DOMAIN prs \cup {branch} |->
                            IF c = branch THEN [checks |-> {}, auto |-> armed] ELSE prs[c]]
      BY <1>8 DEF CreateSnapshotPr
    <2>2. [checks |-> {}, auto |-> armed] \in Request
      BY <1>1 DEF Request, Invocation
    <2>3. GitTypeOK'
      BY <1>8, <2>1, <2>2, RequestsKeep DEF CreateSnapshotPr
    <2>4. Goto("final") /\ UNCHANGED <<todo, rewritten, report>>
      BY <1>8 DEF CreateSnapshotPr
    <2>5. QED
      BY <1>1, <2>3, <2>4, GotoKeeps DEF Running, Settled
  <1>9. CASE FinalAudit
    <2>1. PICK git \in BOOLEAN : report' = Audit(git)
      BY <1>9 DEF FinalAudit
    <2>2. report'.git \in BOOLEAN /\ report'.entries \subseteq Entry
      BY <2>1, AuditFacts
    <2>3. GitTypeOK' /\ (Goto("strict failed") \/ Goto("ok")) /\ UNCHANGED <<todo, rewritten>>
      BY <1>9 DEF FinalAudit, Quiet, GitTypeOK, gitVars
    <2>4. QED
      BY <2>2, <2>3, GotoKeeps DEF Running, Settled
  <1>10. CASE StateFails
    <2>1. GitTypeOK' /\ Goto("failed") /\ UNCHANGED <<todo, rewritten, report>>
      BY <1>10 DEF StateFails, Quiet, GitTypeOK, gitVars
    <2>2. QED
      BY <1>1, <2>1, GotoKeeps DEF Running, Settled
  <1>11. QED
    BY <1>2, <1>3, <1>4, <1>5, <1>6, <1>7, <1>8, <1>9, <1>10 DEF StateStep

\* The steps of a cycle, and what Codex does, keep the types.
LEMMA ForgeKeeps ==
    ASSUME GitTypeOK, ForgeTypeOK,
           ForgeStep \/ (\E p \in Editable : CodexEdits(p)) \/ (\E a \in Cycles : StartCycle(a))
    PROVE  GitTypeOK' /\ ForgeTypeOK'
  <1>1. own \in BranchName /\ IsTree(tree) /\ IsTree(index) /\ IsTree(head)
        /\ log \in Seq(Event) /\ \A b \in Branch : b \in BranchName
    BY DEF GitTypeOK, ForgeTypeOK, BranchName
  <1>2. ASSUME NEW event \in Event, NEW next \in Commands \cup Appends \cup Rest, Note(event, next)
        PROVE  GitTypeOK' /\ ForgeTypeOK'
    <2>1. log' \in Seq(Event)
      BY <1>1, <1>2 DEF Note
    <2>2. QED
      BY <1>2, <2>1 DEF Note, GitTypeOK, ForgeTypeOK, gitVars
  <1>3. ASSUME NEW a \in Cycles, StartCycle(a)
        PROVE  GitTypeOK' /\ ForgeTypeOK'
    <2>1. a \in Args /\ <<>> \in Seq(Event)
      BY CheckoutAssumption
    <2>2. QED
      BY <1>3, <2>1 DEF StartCycle, GitTypeOK, ForgeTypeOK, gitVars, Appends
  <1>4. CASE Started
    <2>1. log' \in Seq(Event)
      <3>1. /\ <<"cycle.started", "continuity.compact_checkpoint">> \in Seq(Event)
            /\ <<"cycle.dry_run">> \in Seq(Event) /\ <<>> \in Seq(Event)
        BY DEF Event
      <3>2. QED
        BY <1>1, <1>4, <3>1 DEF Started
    <2>2. step' \in Commands \cup Appends \cup Rest
      BY <1>4 DEF Started, Commands, Rest
    <2>3. QED
      BY <1>4, <2>1, <2>2 DEF Started, GitTypeOK, ForgeTypeOK, gitVars
  <1>5. ASSUME NEW p \in Editable, CodexEdits(p)
        PROVE  GitTypeOK' /\ ForgeTypeOK'
    <2>1. p \in Path /\ <<EditedLine>> \in Seq(Line)
      BY ForgeLoopAssumption
    <2>2. IsTree(tree')
      BY <1>1, <1>5, <2>1, WithIsTree DEF CodexEdits
    <2>3. QED
      BY <1>5, <2>2 DEF CodexEdits, GitTypeOK, ForgeTypeOK, forgeVars
  <1>6. CASE CodexSucceeds \/ CycleFails
    BY <1>6 DEF CodexSucceeds, CycleFails, GitTypeOK, ForgeTypeOK, gitVars, Commands, Rest
  <1>7. CASE ReadStatus
    <2>1. Publishable(GitStatus) \subseteq Path
      BY DEF Publishable, GitStatus
    <2>2. QED
      BY <1>7, <2>1 DEF ReadStatus, GitTypeOK, ForgeTypeOK, gitVars, Commands, Appends
  <1>8. ASSUME NEW b \in Branch, Switch(b)
        PROVE  GitTypeOK' /\ ForgeTypeOK'
    BY <1>1, <1>8 DEF Switch, GitSwitchNew, GitTypeOK, ForgeTypeOK, Commands
  <1>9. CASE AddListed
    <2>1. IsTree(index')
      BY <1>1, <1>9, AddIsTree DEF AddListed
    <2>2. QED
      BY <1>9, <2>1 DEF AddListed, GitTypeOK, ForgeTypeOK, Commands
  <1>10. CASE CommitCycle
    BY <1>10 DEF CommitCycle, GitCommit, GitTypeOK, ForgeTypeOK, Commands
  <1>11. CASE PushCycle
    <2>1. GitTypeOK'
      BY <1>1, <1>11, PushKeeps DEF PushCycle
    <2>2. QED
      BY <1>11, <2>1 DEF PushCycle, ForgeTypeOK, Commands
  <1>12. CASE CreatePr
    <2>1. [checks |-> {}, auto |-> FALSE] \in Request
      BY DEF Request
    <2>2. GitTypeOK'
      BY <1>12, <2>1, RequestsKeep DEF CreatePr, PrCreate
    <2>3. QED
      BY <1>12, <2>2 DEF CreatePr, ForgeTypeOK, Appends
  <1>13. ASSUME NEW at, NEW workflow \in Workflow, NEW next \in Appends, DispatchCheck(at, workflow, next)
         PROVE  GitTypeOK' /\ ForgeTypeOK'
    <2>1. prs' = [c \in DOMAIN prs |->
                     IF c = own THEN [prs[c] EXCEPT !.checks = @ \cup {workflow}] ELSE prs[c]]
      BY <1>13 DEF DispatchCheck, WorkflowRun
    <2>2. \A c \in DOMAIN prs : [prs[c] EXCEPT !.checks = @ \cup {workflow}] \in Request
      BY DEF GitTypeOK, Request
    <2>3. DOMAIN prs' = DOMAIN prs /\ \A c \in DOMAIN prs' : prs'[c] \in Request
      BY <2>1, <2>2 DEF GitTypeOK
    <2>4. QED
      BY <1>13, <2>3 DEF DispatchCheck, GitTypeOK, ForgeTypeOK
  <1>14. CASE RequestAutoMerge
    <2>1. DOMAIN prs' = DOMAIN prs /\ \A c \in DOMAIN prs' : prs'[c] \in Request
      BY <1>14 DEF RequestAutoMerge, MergeAuto, GitTypeOK, Request
    <2>2. QED
      BY <1>14, <2>1 DEF RequestAutoMerge, GitTypeOK, ForgeTypeOK, Appends
  <1>15. CASE DispatchRequiredChecks
    <2>1. /\ CI \in Workflow /\ Title \in Workflow
          /\ "ci logged" \in Appends /\ "title logged" \in Appends
          /\ "publish.required_check_dispatched" \in Event
          /\ {"title", "merge", "opened"} \subseteq Commands \cup Appends \cup Rest
      BY ForgeLoopAssumption DEF Appends, Event, Commands
    <2>2. QED
      BY <1>2, <1>13, <1>15, <2>1 DEF DispatchRequiredChecks
  <1>16. CASE CodexFails \/ PrCreated \/ AutoMergeRequested \/ PrOpened \/ NoChanges \/ CodexComplete
    <2>1. /\ {"codex.failed", "publish.pr_created", "publish.auto_merge_requested", "publish.pr_opened",
              "publish.no_changes", "cycle.codex_complete"} \subseteq Event
          /\ {"failed", "ci", "opened", "end", "complete"} \subseteq Commands \cup Appends \cup Rest
      BY DEF Event, Commands, Appends, Rest
    <2>2. QED
      BY <1>2, <1>16, <2>1
         DEF CodexFails, PrCreated, AutoMergeRequested, PrOpened, NoChanges, CodexComplete
  <1>17. QED
    BY <1>3, <1>4, <1>5, <1>6, <1>7, <1>8, <1>9, <1>10, <1>11, <1>12, <1>14, <1>15, <1>16
       DEF ForgeStep, Publish

\* What runners and GitKB write leaves trees behind.
LEMMA WritesKeep ==
    ASSUME GitTypeOK, NEW p \in Path,
           (\E line \in SafeDirectory : RunnerAppends(p, line)) \/ RunnerRewrites(p) \/ KbRewrites(p)
    PROVE  GitTypeOK' /\ UNCHANGED stateVars
  <1>1. <<RunnerLine>> \in Seq(Line) /\ <<KbLine>> \in Seq(Line) /\ SafeDirectory \subseteq Line
    BY RunnerStateAssumption
  <1>2. IsTree(tree')
    <2>1. ASSUME NEW line \in SafeDirectory, RunnerAppends(p, line)
          PROVE  IsTree(tree')
      <3>1. tree[p] \in Seq(Line)
        BY <2>1 DEF RunnerAppends, GitTypeOK, IsTree
      <3>2. Append(tree[p], line) \in Seq(Line)
        BY <1>1, <3>1
      <3>3. QED
        BY <2>1, <3>2, WithIsTree DEF RunnerAppends, GitTypeOK
    <2>2. CASE RunnerRewrites(p) \/ KbRewrites(p)
      BY <1>1, <2>2, WithIsTree DEF RunnerRewrites, KbRewrites, GitTypeOK
    <2>3. QED
      BY <2>1, <2>2
  <1>3. QED
    BY <1>2 DEF RunnerAppends, RunnerRewrites, KbRewrites, GitTypeOK

\* A call starts with an empty todo list.
LEMMA CallKeeps ==
    ASSUME GitTypeOK, StateInv, NEW i \in Invocations, Call(i)
    PROVE  GitTypeOK' /\ StateInv'
  <1>1. /\ i \in Invocation /\ inv' = i
        /\ todo' = <<>> /\ report' = NoReport
        /\ pc' \in {"gate", "final", "audit"}
        /\ UNCHANGED <<gitVars, runnerUp, rewritten>>
    BY CheckoutAssumption DEF Call
  <1>2. NoReport.git = TRUE /\ NoReport.entries = {}
    BY DEF NoReport
  <1>3. GitTypeOK'
    BY <1>1 DEF GitTypeOK, gitVars
  <1>4. todo' \in Seq(Entry) /\ pc' \in Running
    BY <1>1 DEF Running
  <1>5. StateTypeOK'
    BY <1>1, <1>2, <1>4 DEF StateInv, StateTypeOK
  <1>6. QED
    BY <1>1, <1>3, <1>5 DEF StateInv

\* What is left alone keeps its type.
LEMMA StateUnchanged == StateInv /\ UNCHANGED stateVars => StateInv'
  BY DEF StateInv, StateTypeOK, stateVars

\* What is spent is counted, so it differs after the step.
LEMMA SpendKeeps ==
    ASSUME spent \in [Budget -> Nat],
           NEW what \in Budget, NEW bound, Spend(what, bound)
    PROVE  /\ spent' \in [Budget -> Nat]
           /\ spent' # spent
  <1>1. spent' = [spent EXCEPT ![what] = spent[what] + 1] /\ spent[what] \in Nat
    BY DEF Spend
  <1>2. spent'[what] = spent[what] + 1
    BY <1>1
  <1>3. QED
    BY <1>1, <1>2

\* Every step keeps the types.
LEMMA CheckoutStep == CheckoutInv /\ [Next]_vars => CheckoutInv'
  <1> SUFFICES ASSUME CheckoutInv, [Next]_vars
               PROVE  CheckoutInv'
    OBVIOUS
  <1>1. /\ GitTypeOK /\ ForgeTypeOK /\ StateTypeOK /\ StateInv
        /\ alone \in BOOLEAN /\ mixed \in BOOLEAN /\ denied \in BOOLEAN
        /\ appended \subseteq Line /\ IsTree(base) /\ IsTree(head)
        /\ spent \in [Budget -> Nat]
    BY DEF CheckoutInv, TypeOK, GitTypeOK
  <1>2. ASSUME GitTypeOK', ForgeTypeOK', StateInv',
               alone' \in BOOLEAN, mixed' \in BOOLEAN, denied' \in BOOLEAN,
               appended' \subseteq Line, IsTree(base'),
               spent' \in [Budget -> Nat]
        PROVE  CheckoutInv'
    BY <1>2 DEF CheckoutInv, TypeOK, StateInv
  <1>3. CASE BeginCycle
    <2>1. GitTypeOK' /\ ForgeTypeOK'
      BY <1>1, <1>3, ForgeKeeps DEF BeginCycle
    <2>2. StateInv' /\ spent' \in [Budget -> Nat]
      BY <1>1, <1>3, StateUnchanged, SpendKeeps DEF BeginCycle, Budget
    <2>3. QED
      BY <1>1, <1>2, <1>3, <2>1, <2>2 DEF BeginCycle
  <1>4. CASE Cycle
    <2>1. GitTypeOK' /\ ForgeTypeOK'
      BY <1>1, <1>4, ForgeKeeps DEF Cycle
    <2>2. StateInv' /\ spent' \in [Budget -> Nat]
      BY <1>1, <1>4, StateUnchanged, SpendKeeps DEF Cycle, Budget
    <2>3. QED
      BY <1>1, <1>2, <1>4, <2>1, <2>2 DEF Cycle
  <1>5. CASE BeginCall
    <2>1. GitTypeOK' /\ StateInv'
      BY <1>1, <1>5, CallKeeps DEF BeginCall
    <2>2. ForgeTypeOK' /\ spent' \in [Budget -> Nat]
      BY <1>1, <1>5, SpendKeeps DEF BeginCall, Budget, ForgeTypeOK, forgeVars
    <2>3. QED
      BY <1>1, <1>2, <1>5, <2>1, <2>2 DEF BeginCall
  <1>6. CASE Settle
    <2>1. GitTypeOK' /\ StateInv'
      BY <1>1, <1>6, StateStepKeeps DEF Settle
    <2>2. ForgeTypeOK'
      BY <1>1, <1>6 DEF Settle, ForgeTypeOK, forgeVars
    <2>3. /\ mixed' \in BOOLEAN /\ denied' \in BOOLEAN /\ appended' \subseteq Line
          /\ UNCHANGED <<spent, alone, base>>
      BY <1>1, <1>6 DEF Settle
    <2>4. QED
      BY <1>1, <1>2, <2>1, <2>2, <2>3
  <1>7. CASE Runner
    <2>1. ForgeTypeOK'
      BY <1>1, <1>7 DEF Runner, ForgeTypeOK, forgeVars
    <2>2. ASSUME RunnerStops \/ RunnerStarts, UNCHANGED <<spent, historyVars>>
          PROVE  CheckoutInv'
      <3>1. UNCHANGED <<gitVars, pc, inv, todo, rewritten, report>> /\ runnerUp' \in BOOLEAN
        BY <2>2 DEF RunnerStops, RunnerStarts, Quiet
      <3>2. GitTypeOK' /\ StateInv'
        BY <1>1, <3>1 DEF GitTypeOK, gitVars, StateInv, StateTypeOK
      <3>3. QED
        BY <1>1, <1>2, <2>1, <2>2, <3>2 DEF historyVars
    <2>3. ASSUME Spend("writes", MaxWrites), OthersWrote, appended' \subseteq Line,
                 NEW p \in Path,
                 (\E line \in SafeDirectory : RunnerAppends(p, line)) \/ RunnerRewrites(p) \/ KbRewrites(p)
          PROVE  CheckoutInv'
      <3>1. GitTypeOK' /\ UNCHANGED stateVars
        BY <1>1, <2>3, WritesKeep
      <3>2. StateInv' /\ spent' \in [Budget -> Nat]
        BY <1>1, <2>3, <3>1, StateUnchanged, SpendKeeps DEF Budget
      <3>3. QED
        BY <1>1, <1>2, <2>1, <2>3, <3>1, <3>2 DEF OthersWrote
    <2>4. SafeDirectory \subseteq Line
      BY RunnerStateAssumption
    <2>5. QED
      BY <1>1, <1>7, <2>2, <2>3, <2>4 DEF Runner
  <1>8. CASE UNCHANGED vars
    <2>1. GitTypeOK' /\ ForgeTypeOK' /\ StateInv'
      BY <1>1, <1>8, StateUnchanged DEF vars, GitTypeOK, gitVars, ForgeTypeOK, forgeVars
    <2>2. QED
      BY <1>1, <1>2, <1>8, <2>1 DEF vars, historyVars
  <1>9. QED
    BY <1>3, <1>4, <1>5, <1>6, <1>7, <1>8 DEF Next

\* Every reachable state has the types and entries that can be worked off.
LEMMA CheckoutInvariant == Spec => []CheckoutInv
  <1>1. Init => CheckoutInv
    <2> SUFFICES ASSUME Init
                 PROVE  CheckoutInv
      OBVIOUS
    <2>1. \A t \in InitialTrees \cup {Committed} : IsTree(t)
      BY CheckoutAssumption
    <2>2. GitTypeOK
      <3>1. branch \in BranchName /\ Main \in BranchName
        BY CheckoutAssumption DEF Init, BranchName
      <3>2. IsTree(tree) /\ IsTree(index) /\ IsTree(head)
        BY <2>1 DEF Init
      <3>3. /\ DOMAIN remote = {Main} /\ remote[Main] = Committed
            /\ DOMAIN prs = {}
        BY DEF Init
      <3>4. QED
        BY <2>1, <3>1, <3>2, <3>3 DEF GitTypeOK
    <2>3. ForgeTypeOK
      BY DEF Init, ForgeInit, ForgeTypeOK, Rest, Args
    <2>4. NoCall \in Invocation
      BY DEF NoCall, Invocation, Slot
    <2>5. NoReport.git = TRUE /\ NoReport.entries = {}
      BY DEF NoReport
    <2>6. pc = "idle" /\ inv = NoCall /\ todo = <<>> /\ rewritten = <<>> /\ report = NoReport /\ runnerUp = FALSE
      BY DEF Init, StateInit
    <2>7. pc \in Running \cup Settled /\ todo \in Seq(Entry) /\ rewritten \in Seq(Line)
      BY <2>6 DEF Settled
    <2>8. StateTypeOK
      BY <2>4, <2>5, <2>6, <2>7 DEF StateTypeOK
    <2>9. StateInv
      BY <2>6, <2>8 DEF StateInv
    <2>10. /\ alone \in BOOLEAN /\ mixed \in BOOLEAN /\ denied \in BOOLEAN
           /\ appended \subseteq Line /\ IsTree(base)
           /\ spent \in [Budget -> Nat]
      <3>1. spent = [what \in Budget |-> 0]
        BY DEF Init
      <3>2. spent \in [Budget -> Nat]
        BY <3>1
      <3>3. /\ alone = TRUE /\ mixed = FALSE /\ denied = FALSE
            /\ appended = {} /\ base = Committed
        BY DEF Init
      <3>4. QED
        BY <2>1, <3>2, <3>3
    <2>11. QED
      BY <2>2, <2>3, <2>8, <2>9, <2>10 DEF CheckoutInv, TypeOK
  <1>2. QED
    BY <1>1, CheckoutStep, PTL DEF Spec

\* Every variable has its type: the files of the work tree, the index and each branch
\* are files of the checkout, a command that normalizes has an entry to work on, and a
\* cycle is at a step of its own (runner_state.rs, forge_loop.rs).
THEOREM TypeCorrect == Spec => []TypeOK
  <1>1. CheckoutInv => TypeOK
    BY DEF CheckoutInv
  <1>2. QED
    BY <1>1, CheckoutInvariant, PTL

-----------------------------------------------------------------------------
(* What settlement preserves.  Between the read of a gitconfig and the     *)
(* rename over it, what the file holds of safe.directory entries is what   *)
(* was read of it and what runners have appended since.                    *)

RaceInv ==
    pc = "rename" /\ Head(todo).path \in DOMAIN tree =>
        Elements(tree[Head(todo).path]) \cap SafeDirectory \subseteq Elements(rewritten) \cup appended

\* The first of equal safe.directory entries is not dropped.
LEMMA DedupeKeepsEntries ==
    ASSUME NEW lines \in Seq(Line)
    PROVE  Elements(lines) \cap SafeDirectory \subseteq Elements(Deduped(lines))
  <1> SUFFICES ASSUME NEW i \in DOMAIN lines, lines[i] \in SafeDirectory
               PROVE  lines[i] \in Elements(Deduped(lines))
    BY DEF Elements
  <1> DEFINE same == {j \in DOMAIN lines : lines[j] = lines[i]}
  <1>1. same \subseteq Nat /\ i \in same
    OBVIOUS
  <1>2. PICK j \in same : \A h \in same : ~(<<h, j>> \in OpToRel(<, Nat))
    <2>1. same # {}
      BY <1>1
    <2> HIDE DEF same
    <2>2. QED
      BY <1>1, <2>1, NatLessThanWellFounded, WFMin, Zenon
  <1>3. \A h \in same : ~(h < j)
    BY <1>1, <1>2 DEF OpToRel
  <1>4. \A h \in 1 .. j - 1 : lines[h] # lines[j]
    <2> SUFFICES ASSUME NEW h \in 1 .. j - 1, lines[h] = lines[j]
                 PROVE  FALSE
      OBVIOUS
    <2>1. h \in DOMAIN lines /\ h < j
      OBVIOUS
    <2>2. QED
      BY <1>3, <2>1
  <1>5. j \in DOMAIN lines \ Duplicates(lines) /\ lines[j] = lines[i]
    BY <1>4 DEF Duplicates
  <1>6. QED
    BY <1>5, DedupedFacts

\* A cycle writes files only through Codex.
LEMMA ForgeStepFrame == ForgeStep => UNCHANGED tree
  BY DEF ForgeStep, Publish, Started, CodexSucceeds, CodexFails, ReadStatus, Switch, AddListed, CommitCycle,
         PushCycle, CreatePr, PrCreated, DispatchRequiredChecks, DispatchCheck, RequestAutoMerge,
         AutoMergeRequested, PrOpened, NoChanges, CodexComplete, CycleFails, Note, gitVars

\* A file that is written holds the lines written; the others are left.
LEMMA FilesWritten ==
    ASSUME NEW t, NEW p, NEW lines, NEW q \in DOMAIN With(t, p, lines)
    PROVE  With(t, p, lines)[q] = (IF q = p THEN lines ELSE t[q]) /\ (q # p => q \in DOMAIN t)
  BY DEF With

\* A file that is removed is gone; the others are left.
LEMMA FilesLeft ==
    ASSUME NEW t, NEW p, NEW q \in DOMAIN Without(t, p)
    PROVE  q \in DOMAIN t /\ q # p /\ Without(t, p)[q] = t[q]
  BY DEF Without

\* Every step keeps what a dedupe has read up to date.
LEMMA RaceStep == CheckoutInv /\ RaceInv /\ [Next]_vars => RaceInv'
  <1> SUFFICES ASSUME CheckoutInv, RaceInv, [Next]_vars,
                      pc' = "rename", Head(todo').path \in DOMAIN tree'
               PROVE  Elements(tree'[Head(todo').path]) \cap SafeDirectory
                          \subseteq Elements(rewritten') \cup appended'
    BY DEF RaceInv
  <1>1. /\ GitTypeOK /\ StateInv
    BY DEF CheckoutInv, TypeOK
  <1> DEFINE q == Head(todo).path
  <1>2. ASSUME UNCHANGED stateVars, appended \subseteq appended',
               \/ q \in DOMAIN tree /\ tree'[q] = tree[q]
               \/ Elements(tree'[q]) \cap SafeDirectory \subseteq appended'
               \/ q \in DOMAIN tree /\ Elements(tree'[q]) \subseteq Elements(tree[q]) \cup appended'
        PROVE  Elements(tree'[Head(todo').path]) \cap SafeDirectory
                   \subseteq Elements(rewritten') \cup appended'
    <2>1. pc = "rename" /\ todo' = todo /\ rewritten' = rewritten
      BY <1>2 DEF stateVars
    <2>2. Head(todo').path = q
      BY <2>1
    <2> HIDE DEF q
    <2>3. q \in DOMAIN tree =>
              Elements(tree[q]) \cap SafeDirectory \subseteq Elements(rewritten) \cup appended
      BY <2>1 DEF RaceInv, q
    <2>4. QED
      BY <1>2, <2>1, <2>2, <2>3
  <1>3. CASE BeginCycle
    <2>1. UNCHANGED <<stateVars, appended, tree>>
      BY <1>3 DEF BeginCycle, StartCycle, gitVars
    <2>2. QED
      BY <1>2, <2>1 DEF stateVars
  <1>4. CASE Cycle
    <2>1. UNCHANGED <<stateVars, appended>>
      BY <1>4 DEF Cycle
    <2>2. q \in DOMAIN tree'
      BY <2>1 DEF stateVars
    <2>3. CASE ForgeStep
      BY <1>2, <2>1, <2>2, <2>3, ForgeStepFrame
    <2>4. ASSUME NEW p \in Editable, CodexEdits(p)
          PROVE  Elements(tree'[Head(todo').path]) \cap SafeDirectory
                     \subseteq Elements(rewritten') \cup appended'
      <3>1. Elements(<<EditedLine>>) = {EditedLine} /\ EditedLine \notin SafeDirectory
        BY CheckoutAssumption DEF Elements
      <3>2. \/ q \in DOMAIN tree /\ tree'[q] = tree[q]
            \/ tree'[q] = <<EditedLine>>
        <4> HIDE DEF q
        <4>1. QED
          BY <2>2, <2>4, FilesWritten, FilesLeft DEF CodexEdits
      <3>3. \/ q \in DOMAIN tree /\ tree'[q] = tree[q]
            \/ Elements(tree'[q]) \cap SafeDirectory \subseteq appended'
        BY <3>1, <3>2
      <3>4. QED
        BY <1>2, <2>1, <3>3
    <2>5. QED
      BY <1>4, <2>3, <2>4 DEF Cycle
  <1>5. CASE BeginCall
    BY <1>5 DEF BeginCall, Call
  <1>6. CASE Settle
    <2>1. CASE DedupeRead
      <3>1. /\ todo' = todo /\ tree' = tree /\ q \in DOMAIN tree
            /\ rewritten' = Deduped(tree[q])
        BY <2>1 DEF DedupeRead, Quiet, gitVars
      <3>2. tree[q] \in Seq(Line)
        BY <1>1, <3>1 DEF GitTypeOK, IsTree
      <3>3. QED
        <4> HIDE DEF q
        <4>1. Elements(tree[q]) \cap SafeDirectory \subseteq Elements(rewritten')
          BY <3>1, <3>2, DedupeKeepsEntries
        <4>2. QED
          BY <3>1, <4>1 DEF q
    <2>2. CASE ~DedupeRead
      <3>1. AfterNormalize # "rename"
        BY AfterNormalizeFacts
      <3>2. pc' # "rename"
        BY <1>6, <2>2, <3>1
           DEF Settle, StateStep, IdleGate, AuditBefore, Normalize, DedupeRename, RewriteGitignore,
               RemoveRuntime, Done, AddSnapshot, CommitSnapshot, PushSnapshot, CreateSnapshotPr,
               FinalAudit, StateFails, Goto
      <3>3. QED
        BY <3>2
    <2>3. QED
      BY <2>1, <2>2
  <1>7. CASE Runner
    <2>1. ASSUME RunnerStops \/ RunnerStarts, UNCHANGED <<spent, historyVars>>
          PROVE  Elements(tree'[Head(todo').path]) \cap SafeDirectory
                     \subseteq Elements(rewritten') \cup appended'
      <3>1. UNCHANGED <<tree, pc, todo, rewritten, appended>>
        BY <2>1 DEF RunnerStops, RunnerStarts, Quiet, gitVars, historyVars
      <3>2. QED
        BY <3>1 DEF RaceInv
    <2>2. ASSUME NEW p \in Path, NEW line \in SafeDirectory,
                 RunnerAppends(p, line), appended' = appended \cup {line}
          PROVE  Elements(tree'[Head(todo').path]) \cap SafeDirectory
                     \subseteq Elements(rewritten') \cup appended'
      <3>1. /\ UNCHANGED stateVars /\ p \in DOMAIN tree
            /\ tree' = With(tree, p, Append(tree[p], line))
        BY <2>2 DEF RunnerAppends
      <3>2. q \in DOMAIN tree'
        BY <3>1 DEF stateVars
      <3>3. Elements(Append(tree[p], line)) \subseteq Elements(tree[p]) \cup {line}
        <4>1. tree[p] \in Seq(Line) /\ line \in Line
          BY <1>1, <3>1, RunnerStateAssumption DEF GitTypeOK, IsTree
        <4>2. QED
          BY <4>1, AppendProperties DEF Elements
      <3>4. \/ q \in DOMAIN tree /\ tree'[q] = tree[q]
            \/ q \in DOMAIN tree /\ Elements(tree'[q]) \subseteq Elements(tree[q]) \cup appended'
        <4> HIDE DEF q
        <4>1. QED
          BY <2>2, <3>1, <3>2, <3>3, FilesWritten
      <3>5. QED
        BY <1>2, <2>2, <3>1, <3>4
    <2>3. ASSUME NEW p \in Path, RunnerRewrites(p) \/ KbRewrites(p), UNCHANGED appended
          PROVE  Elements(tree'[Head(todo').path]) \cap SafeDirectory
                     \subseteq Elements(rewritten') \cup appended'
      <3>1. /\ UNCHANGED stateVars
            /\ \E line \in {RunnerLine, KbLine} : tree' = With(tree, p, <<line>>)
        BY <2>3 DEF RunnerRewrites, KbRewrites
      <3>2. q \in DOMAIN tree'
        BY <3>1 DEF stateVars
      <3>3. \A line \in {RunnerLine, KbLine} : Elements(<<line>>) = {line} /\ line \notin SafeDirectory
        BY RunnerStateAssumption DEF Elements
      <3>4. \/ q \in DOMAIN tree /\ tree'[q] = tree[q]
            \/ Elements(tree'[q]) \cap SafeDirectory \subseteq appended'
        <4> HIDE DEF q
        <4>1. QED
          BY <3>1, <3>2, <3>3, FilesWritten
      <3>5. QED
        BY <1>2, <2>3, <3>1, <3>4
    <2>4. QED
      BY <1>7, <2>1, <2>2, <2>3 DEF Runner
  <1>8. CASE UNCHANGED vars
    <2>1. UNCHANGED <<tree, pc, todo, rewritten, appended>>
      BY <1>8 DEF vars, gitVars, stateVars, historyVars
    <2>2. QED
      BY <2>1 DEF RaceInv
  <1>9. QED
    BY <1>3, <1>4, <1>5, <1>6, <1>7, <1>8 DEF Next

\* The body of PreservedStateSurvives.
Survives ==
    spent' = spent /\ tree' # tree =>
        /\ \A p \in Preserved : File(tree', p) = File(tree, p)
        /\ \A p \in Is("gitconfig") \cap DOMAIN tree :
               /\ p \in DOMAIN tree'
               /\ (Elements(tree[p]) \ Elements(tree'[p])) \cap SafeDirectory \subseteq appended

\* The three steps of normalize that write: a gitconfig is replaced by what was read
\* of it, .gitignore loses lines, and of the rest only what is GitKB's is removed.
LEMMA NormalizeSurvives ==
    ASSUME CheckoutInv, RaceInv, DedupeRename \/ RewriteGitignore \/ RemoveRuntime
    PROVE  Survives
  <1> DEFINE q == Head(todo).path
  <1>1. /\ StateInv /\ pc \in {"normalize", "rename"}
        /\ q \in Path /\ Workable(Head(todo))
    <2>1. StateInv /\ pc \in {"normalize", "rename"}
      BY DEF CheckoutInv, DedupeRename, RewriteGitignore, RemoveRuntime
    <2>2. QED
      BY <2>1, HeadWorkable DEF Workable, Entry
  <1>2. CASE DedupeRename
    <2>1. /\ tree' = With(tree, q, rewritten) /\ pc = "rename"
      BY <1>2 DEF DedupeRename
    <2>2. q \in Is("gitconfig")
      BY <1>1, <2>1 DEF StateInv
    <2>3. \A p \in Preserved : p # q
      BY <2>2 DEF Preserved
    <2>4. DOMAIN tree' = DOMAIN tree \cup {q}
          /\ tree'[q] = rewritten /\ \A p \in DOMAIN tree : p # q => tree'[p] = tree[p]
      <3> HIDE DEF q
      <3>1. QED
        BY <2>1 DEF With
    <2>5. q \in DOMAIN tree =>
              Elements(tree[q]) \cap SafeDirectory \subseteq Elements(rewritten) \cup appended
      BY <2>1 DEF RaceInv
    <2>6. QED
      <3> HIDE DEF q
      <3>1. QED
        BY <2>3, <2>4, <2>5 DEF Survives, File
  <1>3. CASE RewriteGitignore
    <2>1. gitignore \in DOMAIN tree
          /\ DOMAIN tree' = DOMAIN tree /\ \A p \in DOMAIN tree : p # gitignore => tree'[p] = tree[p]
      BY <1>3 DEF RewriteGitignore, With
    <2>2. gitignore \notin Preserved /\ gitignore \notin Is("gitconfig")
      BY PathTraits DEF Preserved, Is
    <2>3. QED
      BY <2>1, <2>2 DEF Survives, File
  <1>4. CASE RemoveRuntime
    <2>1. tree' = Without(tree, q) /\ q \in Is("store") \cup Is("runtime")
      BY <1>1, <1>4 DEF RemoveRuntime, Workable
    <2>2. q \notin Preserved /\ q \notin Is("gitconfig")
      BY <2>1, PathTraits DEF Preserved
    <2>3. DOMAIN tree' = DOMAIN tree \ {q} /\ \A p \in DOMAIN tree' : tree'[p] = tree[p]
      <3> HIDE DEF q
      <3>1. QED
        BY <2>1 DEF Without
    <2>4. QED
      <3> HIDE DEF q
      <3>1. QED
        BY <2>2, <2>3 DEF Survives, File
  <1>5. QED
    BY <1>2, <1>3, <1>4

\* Nobody else writes without spending.
LEMMA SurvivesStep == CheckoutInv /\ RaceInv /\ [Next]_vars => Survives
  <1> SUFFICES ASSUME CheckoutInv, RaceInv, [Next]_vars, spent' = spent, tree' # tree
               PROVE  Survives
    BY DEF Survives
  <1>1. \A what \in Budget : \A bound : ~Spend(what, bound)
    <2>1. spent \in [Budget -> Nat]
      BY DEF CheckoutInv, TypeOK
    <2>2. QED
      BY <2>1, SpendKeeps
  <1>2. ~BeginCycle /\ ~BeginCall /\ ~Cycle
    BY <1>1, ForgeStepFrame DEF BeginCycle, BeginCall, Cycle, Budget
  <1>3. ~Runner
    BY <1>1 DEF Runner, Budget, RunnerStops, RunnerStarts, Quiet, gitVars
  <1>4. tree' # tree => Settle
    BY <1>2, <1>3 DEF Next, vars, gitVars
  <1>5. DedupeRename \/ RewriteGitignore \/ RemoveRuntime
    BY <1>4 DEF Settle, StateStep, IdleGate, AuditBefore, Normalize, DedupeRead, AddSnapshot,
                CommitSnapshot, PushSnapshot, CreateSnapshotPr, FinalAudit, StateFails, Quiet, gitVars
  <1>6. QED
    BY <1>5, NormalizeSurvives

\* "preserving runner identity/state" (runner_state.rs): normalize changes no file of a
\* runner but the gitconfig it dedupes and removes none but GitKB's, and the dedupe
\* loses no safe.directory entry but one a runner appended after it had read the file.
THEOREM StateSurvives == Spec => PreservedStateSurvives
  <1>1. Init => RaceInv
    BY DEF Init, StateInit, RaceInv
  <1>2. CheckoutInv /\ RaceInv /\ [Next]_vars => [Survives]_vars
    BY SurvivesStep
  <1>3. PreservedStateSurvives <=> [][Survives]_vars
    BY DEF PreservedStateSurvives, Survives
  <1>4. QED
    BY <1>1, <1>2, <1>3, CheckoutInvariant, RaceStep, PTL DEF Spec

-----------------------------------------------------------------------------
(* The event log.  Until settle has a hand in it, each step of a cycle     *)
(* knows what has been done on GitHub and how much of it has been noted.   *)

NotedEvents == {"publish.pr_created", "publish.required_check_dispatched", "publish.auto_merge_requested"}
NotedAt(l) == {i \in DOMAIN l : l[i] \in NotedEvents}

Early == {"idle", "start", "codex", "status", "unchanged", "switch", "add", "commit", "push", "create"}

\* The request of the cycle, and the number of effects noted.
At(checks, auto, noted) ==
    own \in DOMAIN prs /\ prs[own].checks = checks /\ prs[own].auto = auto /\ Noted = noted

AsFar ==
    /\ step \in Early => own \notin DOMAIN prs /\ Noted = 0
    /\ step = "created" => At({}, FALSE, 0)
    /\ step = "ci" => At({}, FALSE, 1)
    /\ step = "ci logged" => At({CI}, FALSE, 1)
    /\ step = "title" => At({CI}, FALSE, 2)
    /\ step = "title logged" => At({CI, Title}, FALSE, 2)
    /\ step = "merge" => At({CI, Title}, FALSE, 3)
    /\ step = "merge logged" => At({CI, Title}, TRUE, 3)
    /\ step \in {"opened", "end", "complete"} => Effects = Noted
    /\ step = "failed" => Noted <= Effects /\ Effects <= Noted + 1

ProgressInv == DOMAIN prs \subseteq DOMAIN remote /\ (~mixed => AsFar)

\* An event that is noted counts, any other does not.
LEMMA NotedAppend ==
    ASSUME NEW l \in Seq(Event), NEW event \in Event
    PROVE  /\ Cardinality(NotedAt(l)) \in Nat
           /\ Cardinality(NotedAt(Append(l, event)))
                  = IF event \in NotedEvents THEN Cardinality(NotedAt(l)) + 1
                                             ELSE Cardinality(NotedAt(l))
  <1>1. Len(l) \in Nat /\ DOMAIN l = 1 .. Len(l)
    OBVIOUS
  <1>2. IsFiniteSet(NotedAt(l))
    <2>1. IsFiniteSet(1 .. Len(l)) /\ NotedAt(l) \in SUBSET (1 .. Len(l))
      BY <1>1, FS_Interval DEF NotedAt
    <2>2. QED
      BY <2>1, FS_Subset
  <1>3. /\ DOMAIN Append(l, event) = 1 .. Len(l) + 1
        /\ \A i \in 1 .. Len(l) : Append(l, event)[i] = l[i]
        /\ Append(l, event)[Len(l) + 1] = event
    BY <1>1, AppendProperties
  <1>4. Len(l) + 1 \notin NotedAt(l) /\ NotedAt(l) \subseteq 1 .. Len(l)
    BY <1>1 DEF NotedAt
  <1>5. NotedAt(Append(l, event))
            = IF event \in NotedEvents THEN NotedAt(l) \cup {Len(l) + 1} ELSE NotedAt(l)
    <2>1. \A i : i \in 1 .. Len(l) + 1 <=> i \in 1 .. Len(l) \/ i = Len(l) + 1
      BY <1>1
    <2>2. QED
      BY <1>1, <1>3, <2>1 DEF NotedAt
  <1>6. Cardinality(NotedAt(l)) \in Nat
    BY <1>2, FS_CardinalityType
  <1>7. Cardinality(NotedAt(l) \cup {Len(l) + 1}) = Cardinality(NotedAt(l)) + 1
    BY <1>2, <1>4, FS_AddElement
  <1>8. QED
    BY <1>5, <1>6, <1>7

\* The number of events noted, by the name the lemmas use.
LEMMA NotedIs == Noted = Cardinality(NotedAt(log))
  BY DEF Noted, NotedAt, NotedEvents

\* Dispatched checks are one or two, as there are two workflows.
LEMMA EffectsAre ==
    ASSUME own \in DOMAIN prs
    PROVE  /\ prs[own].checks = {} /\ prs[own].auto = FALSE => Effects = 1
           /\ prs[own].checks = {CI} /\ prs[own].auto = FALSE => Effects = 2
           /\ prs[own].checks = {CI, Title} /\ prs[own].auto = FALSE => Effects = 3
           /\ prs[own].checks = {CI, Title} /\ prs[own].auto = TRUE => Effects = 4
  <1>1. CI # Title
    BY ForgeLoopAssumption
  <1>2. Cardinality({}) = 0
    BY FS_EmptySet
  <1>3. IsFiniteSet({CI}) /\ Cardinality({CI}) = 1
    BY FS_Singleton
  <1>4. Cardinality({CI} \cup {Title}) = 2
    BY <1>1, <1>3, FS_AddElement
  <1>5. {CI} \cup {Title} = {CI, Title}
    OBVIOUS
  <1>6. QED
    BY <1>2, <1>3, <1>4, <1>5 DEF Effects

\* What the invariant says of a step is what the log promises of it.
LEMMA LogFromProgress ==
    ASSUME CheckoutInv, AsFar
    PROVE  /\ Noted <= Effects /\ Effects <= Noted + 1
           /\ step = "complete" => Effects = Noted
  <1>1. Noted \in Nat /\ step \in Commands \cup Appends \cup Rest
    <2>1. log \in Seq(Event) /\ step \in Commands \cup Appends \cup Rest
      BY DEF CheckoutInv, TypeOK, ForgeTypeOK
    <2>2. "cycle.started" \in Event
      BY DEF Event
    <2>3. QED
      BY <2>1, <2>2, NotedIs, NotedAppend
  <1>2. CASE step \in Early
    <2>1. Effects = 0 /\ Noted = 0
      BY <1>2 DEF AsFar, Effects
    <2>2. 0 <= 0 /\ 0 <= 0 + 1
      OBVIOUS
    <2>3. QED
      BY <2>1, <2>2
  <1>3. CASE step \in {"opened", "end", "complete"}
    <2>1. Effects = Noted
      BY <1>3 DEF AsFar
    <2>2. QED
      BY <1>1, <2>1
  <1>4. CASE step = "failed"
    BY <1>4 DEF AsFar
  <1>5. CASE step \in {"created", "ci", "ci logged", "title", "title logged", "merge", "merge logged"}
    <2>1. \/ own \in DOMAIN prs /\ prs[own].checks = {} /\ prs[own].auto = FALSE /\ Noted \in {0, 1}
          \/ own \in DOMAIN prs /\ prs[own].checks = {CI} /\ prs[own].auto = FALSE /\ Noted \in {1, 2}
          \/ own \in DOMAIN prs /\ prs[own].checks = {CI, Title} /\ prs[own].auto = FALSE /\ Noted \in {2, 3}
          \/ own \in DOMAIN prs /\ prs[own].checks = {CI, Title} /\ prs[own].auto = TRUE /\ Noted = 3
      BY <1>5 DEF AsFar, At
    <2>2. \/ Effects = 1 /\ Noted \in {0, 1}
          \/ Effects = 2 /\ Noted \in {1, 2}
          \/ Effects = 3 /\ Noted \in {2, 3}
          \/ Effects = 4 /\ Noted = 3
      BY <2>1, EffectsAre
    <2>3. step # "complete"
      BY <1>5
    <2>4. Noted <= Effects /\ Effects <= Noted + 1
      BY <2>2
    <2>5. QED
      BY <2>3, <2>4
  <1>6. QED
    BY <1>1, <1>2, <1>3, <1>4, <1>5 DEF Early, Commands, Appends, Rest
\* What has not changed is as far as it was.
LEMMA ProgressStays ==
    ASSUME AsFar, UNCHANGED <<step, own, log, prs>>
    PROVE  AsFar'
  BY DEF AsFar, At, Effects, Noted

\* append_event: one event more, and nothing else.
LEMMA NoteCounts ==
    ASSUME ForgeTypeOK, NEW event \in Event, NEW next, Note(event, next)
    PROVE  /\ UNCHANGED <<own, prs, remote>> /\ step' = next
           /\ Noted \in Nat
           /\ Noted' = IF event \in NotedEvents THEN Noted + 1 ELSE Noted
  <1>1. log' = Append(log, event) /\ UNCHANGED <<own, prs, remote>> /\ step' = next
    BY DEF Note, gitVars
  <1>2. log \in Seq(Event)
    BY DEF ForgeTypeOK
  <1>3. Noted' = Cardinality(NotedAt(log'))
    BY DEF Noted, NotedAt, NotedEvents
  <1>4. QED
    BY <1>1, <1>2, <1>3, NotedIs, NotedAppend

\* The first events of a cycle are none of those that count.
LEMMA StartedCounts ==
    ASSUME ForgeTypeOK, Started
    PROVE  Noted' = Noted
  <1> DEFINE begun == Append(Append(log, "cycle.started"), "continuity.compact_checkpoint")
  <1>1. log \in Seq(Event) /\ {"cycle.started", "continuity.compact_checkpoint", "cycle.dry_run"} \subseteq Event
    BY DEF ForgeTypeOK, Event
  <1>2. begun \in Seq(Event) /\ Append(log, "cycle.started") \in Seq(Event)
    BY <1>1
  <1>3. log' = begun \/ log' = Append(begun, "cycle.dry_run")
    <2>1. CASE args.dry_run
      <3>1. log' = log \o <<"cycle.started", "continuity.compact_checkpoint">> \o <<"cycle.dry_run">>
        BY <2>1 DEF Started
      <3>2. QED
        BY <1>1, <3>1
    <2>2. CASE ~args.dry_run
      <3>1. log' = log \o <<"cycle.started", "continuity.compact_checkpoint">> \o <<>>
        BY <2>2 DEF Started
      <3>2. QED
        BY <1>1, <3>1
    <2>3. QED
      BY <2>1, <2>2
  <1>4. {"cycle.started", "continuity.compact_checkpoint", "cycle.dry_run"} \cap NotedEvents = {}
    BY DEF NotedEvents
  <1>5. Cardinality(NotedAt(begun)) = Cardinality(NotedAt(log))
    BY <1>1, <1>2, <1>4, NotedAppend
  <1>6. Cardinality(NotedAt(Append(begun, "cycle.dry_run"))) = Cardinality(NotedAt(begun))
    <2> HIDE DEF begun
    <2>1. QED
      BY <1>1, <1>2, <1>4, NotedAppend
  <1>7. Noted' = Cardinality(NotedAt(log'))
    BY DEF Noted, NotedAt, NotedEvents
  <1>8. QED
    BY <1>3, <1>5, <1>6, <1>7, NotedIs

\* A workflow that is dispatched is one of the checks of the request.
LEMMA Dispatched ==
    ASSUME GitTypeOK, own \in DOMAIN prs, NEW workflow \in Workflow, NEW at, NEW next,
           DispatchCheck(at, workflow, next)
    PROVE  /\ step = at /\ step' = next /\ Noted' = Noted /\ own' = own /\ remote' = remote
           /\ DOMAIN prs' = DOMAIN prs /\ prs'[own].checks = prs[own].checks \cup {workflow}
           /\ prs'[own].auto = prs[own].auto
  <1>1. prs[own] \in Request
    BY DEF GitTypeOK
  <1>2. prs' = [c \in DOMAIN prs |->
                   IF c = own THEN [prs[own] EXCEPT !.checks = @ \cup {workflow}] ELSE prs[c]]
    BY DEF DispatchCheck, WorkflowRun
  <1>3. DOMAIN prs' = DOMAIN prs /\ prs'[own] = [prs[own] EXCEPT !.checks = @ \cup {workflow}]
    BY <1>2
  <1>4. QED
    BY <1>1, <1>3 DEF DispatchCheck, Request, Noted

\* Every step of a cycle gets as far as it should, the first half of them:
\* until the request is open, there is nothing to note.
LEMMA EarlyProgress ==
    ASSUME CheckoutInv, ProgressInv, ~mixed,
           \/ Started \/ CodexSucceeds \/ CodexFails \/ ReadStatus \/ \E b \in Branch : Switch(b)
           \/ AddListed \/ CommitCycle \/ PushCycle \/ CreatePr \/ NoChanges
    PROVE  AsFar' /\ DOMAIN prs' \subseteq DOMAIN remote'
  <1>1. GitTypeOK /\ ForgeTypeOK /\ AsFar /\ DOMAIN prs \subseteq DOMAIN remote
    BY DEF CheckoutInv, TypeOK, ProgressInv
  <1>2. step \in Early /\ own \notin DOMAIN prs /\ Noted = 0
    <2>1. step \in Early
      BY DEF Early, Started, CodexSucceeds, CodexFails, ReadStatus, Switch, AddListed, CommitCycle,
             PushCycle, CreatePr, NoChanges
    <2>2. QED
      BY <1>1, <2>1 DEF AsFar
  <1>3. ASSUME step' \in Early, own' \notin DOMAIN prs', Noted' = 0
        PROVE  AsFar'
    BY <1>3 DEF AsFar, Early
  <1>4. ASSUME step' \in {"end", "complete", "failed"}, own' \notin DOMAIN prs', Noted' = 0
        PROVE  AsFar'
    <2>1. Effects' = 0 /\ 0 <= 0 /\ 0 <= 0 + 1
      BY <1>4 DEF Effects
    <2>2. QED
      BY <1>4, <2>1 DEF AsFar, Early
  <1>5. CASE Started
    <2>1. step' \in {"complete", "codex"} /\ UNCHANGED <<own, prs, remote>>
      BY <1>5 DEF Started, gitVars
    <2>2. Noted' = 0
      BY <1>1, <1>2, <1>5, StartedCounts
    <2>3. step' \in {"end", "complete", "failed"} \/ step' \in Early
      BY <2>1 DEF Early
    <2>4. QED
      BY <1>1, <1>2, <1>3, <1>4, <2>1, <2>2, <2>3
  <1>6. CASE CodexFails \/ NoChanges
    <2>1. /\ step' \in {"end", "complete", "failed"} /\ UNCHANGED <<own, prs, remote>>
          /\ Noted' = Noted
      <3>1. CASE CodexFails
        <4>1. "codex.failed" \in Event \ NotedEvents /\ Note("codex.failed", "failed")
          BY <3>1 DEF CodexFails, Event, NotedEvents
        <4>2. QED
          BY <1>1, <4>1, NoteCounts
      <3>2. CASE NoChanges
        <4>1. "publish.no_changes" \in Event \ NotedEvents /\ Note("publish.no_changes", "end")
          BY <3>2 DEF NoChanges, Event, NotedEvents
        <4>2. QED
          BY <1>1, <4>1, NoteCounts
      <3>3. QED
        BY <1>6, <3>1, <3>2
    <2>2. QED
      BY <1>1, <1>2, <1>4, <2>1
  <1>7. CASE CodexSucceeds \/ ReadStatus \/ AddListed \/ CommitCycle \/ PushCycle
    <2>1. step' \in Early /\ UNCHANGED <<own, prs, log>> /\ DOMAIN remote \subseteq DOMAIN remote'
      BY <1>7 DEF Early, CodexSucceeds, ReadStatus, AddListed, CommitCycle, PushCycle, GitPush, gitVars
    <2>2. Noted' = Noted
      BY <2>1 DEF Noted
    <2>3. QED
      BY <1>1, <1>2, <1>3, <2>1, <2>2
  <1>8. CASE \E b \in Branch : Switch(b)
    <2>1. step' \in Early /\ UNCHANGED <<prs, log, remote>> /\ own' \notin DOMAIN remote
      BY <1>8 DEF Early, Switch, GitSwitchNew
    <2>2. Noted' = Noted
      BY <2>1 DEF Noted
    <2>3. QED
      BY <1>1, <1>2, <1>3, <2>1, <2>2
  <1>9. CASE CreatePr
    <2>1. /\ step' = "created" /\ UNCHANGED <<own, log, remote>> /\ own \in DOMAIN remote
          /\ prs' = [c \in DOMAIN prs \cup {own} |->
                        IF c = own THEN [checks |-> {}, auto |-> FALSE] ELSE prs[c]]
      BY <1>9 DEF CreatePr, PrCreate
    <2>2. Noted' = 0
      BY <1>2, <2>1 DEF Noted
    <2>3. DOMAIN prs' = DOMAIN prs \cup {own} /\ prs'[own] = [checks |-> {}, auto |-> FALSE]
      BY <2>1
    <2>4. At({}, FALSE, 0)'
      BY <2>1, <2>2, <2>3 DEF At
    <2>5. QED
      BY <1>1, <2>1, <2>3, <2>4 DEF AsFar, Early
  <1>10. QED
    BY <1>5, <1>6, <1>7, <1>8, <1>9

\* The other half: each effect on the request is followed by its event.
LEMMA LateProgress ==
    ASSUME CheckoutInv, ProgressInv, ~mixed,
           \/ PrCreated \/ DispatchRequiredChecks \/ RequestAutoMerge \/ AutoMergeRequested
           \/ PrOpened \/ CodexComplete \/ CycleFails
    PROVE  AsFar'
  <1>1. /\ GitTypeOK /\ ForgeTypeOK /\ AsFar
        /\ CI \in Workflow /\ Title \in Workflow
    BY ForgeLoopAssumption DEF CheckoutInv, TypeOK, ProgressInv
  <1>2. {"publish.pr_created", "publish.required_check_dispatched", "publish.auto_merge_requested"}
            \subseteq Event \cap NotedEvents
        /\ {"publish.pr_opened", "cycle.codex_complete"} \subseteq Event \ NotedEvents
    BY DEF Event, NotedEvents
  <1>3. CASE PrCreated
    <2>1. step = "created" /\ Note("publish.pr_created", "ci")
      BY <1>3 DEF PrCreated
    <2>2. At({}, FALSE, 0)
      BY <1>1, <2>1 DEF AsFar
    <2>3. step' = "ci" /\ UNCHANGED <<own, prs>> /\ Noted' = Noted + 1
      BY <1>1, <1>2, <2>1, NoteCounts
    <2>4. At({}, FALSE, 1)'
      BY <2>2, <2>3 DEF At
    <2>5. QED
      BY <2>3, <2>4 DEF AsFar, Early
  <1>4. CASE DispatchCheck("ci", CI, "ci logged")
    <2>1. step = "ci" /\ step' = "ci logged"
      BY <1>4 DEF DispatchCheck
    <2>2. At({}, FALSE, 1)
      BY <1>1, <2>1 DEF AsFar
    <2>3. At({CI}, FALSE, 1)'
      BY <1>1, <1>4, <2>2, Dispatched DEF At
    <2>4. QED
      BY <2>1, <2>3 DEF AsFar, Early
  <1>5. CASE step = "ci logged" /\ Note("publish.required_check_dispatched", "title")
    <2>1. At({CI}, FALSE, 1)
      BY <1>1, <1>5 DEF AsFar
    <2>2. step' = "title" /\ UNCHANGED <<own, prs>> /\ Noted' = Noted + 1
      BY <1>1, <1>2, <1>5, NoteCounts
    <2>3. At({CI}, FALSE, 2)'
      BY <2>1, <2>2 DEF At
    <2>4. QED
      BY <2>2, <2>3 DEF AsFar, Early
  <1>6. CASE DispatchCheck("title", Title, "title logged")
    <2>1. step = "title" /\ step' = "title logged"
      BY <1>6 DEF DispatchCheck
    <2>2. At({CI}, FALSE, 2)
      BY <1>1, <2>1 DEF AsFar
    <2>3. At({CI, Title}, FALSE, 2)'
      BY <1>1, <1>6, <2>2, Dispatched DEF At
    <2>4. QED
      BY <2>1, <2>3 DEF AsFar, Early
  <1>7. CASE /\ step = "title logged"
             /\ Note("publish.required_check_dispatched", IF args.auto_merge THEN "merge" ELSE "opened")
    <2>1. At({CI, Title}, FALSE, 2)
      BY <1>1, <1>7 DEF AsFar
    <2>2. step' \in {"merge", "opened"} /\ UNCHANGED <<own, prs>> /\ Noted' = Noted + 1
      BY <1>1, <1>2, <1>7, NoteCounts
    <2>3. At({CI, Title}, FALSE, 3)'
      BY <2>1, <2>2 DEF At
    <2>4. Effects' = 3 /\ Noted' = 3
      <3>1. Effects = 3 /\ Noted = 2
        BY <2>1, EffectsAre DEF At
      <3>2. Effects' = Effects
        BY <2>2 DEF Effects
      <3>3. QED
        BY <2>2, <3>1, <3>2
    <2>5. QED
      BY <2>2, <2>3, <2>4 DEF AsFar, Early
  <1>8. CASE RequestAutoMerge
    <2>1. step = "merge" /\ step' = "merge logged" /\ UNCHANGED <<own, log>>
          /\ prs' = [prs EXCEPT ![own].auto = TRUE]
      BY <1>8 DEF RequestAutoMerge, MergeAuto
    <2>2. At({CI, Title}, FALSE, 3) /\ prs[own] \in Request
      BY <1>1, <2>1 DEF AsFar, At, GitTypeOK
    <2>3. DOMAIN prs' = DOMAIN prs /\ prs'[own].checks = prs[own].checks /\ prs'[own].auto = TRUE
      BY <2>1, <2>2 DEF At, Request
    <2>4. At({CI, Title}, TRUE, 3)'
      BY <2>1, <2>2, <2>3 DEF At, Noted
    <2>5. QED
      BY <2>1, <2>4 DEF AsFar, Early
  <1>9. CASE AutoMergeRequested
    <2>1. step = "merge logged" /\ Note("publish.auto_merge_requested", "opened")
      BY <1>9 DEF AutoMergeRequested
    <2>2. At({CI, Title}, TRUE, 3)
      BY <1>1, <2>1 DEF AsFar
    <2>3. step' = "opened" /\ UNCHANGED <<own, prs>> /\ Noted' = Noted + 1
      BY <1>1, <1>2, <2>1, NoteCounts
    <2>4. Effects' = 4 /\ Noted' = 4
      <3>1. Effects = 4 /\ Noted = 3
        BY <2>2, EffectsAre DEF At
      <3>2. Effects' = Effects
        BY <2>3 DEF Effects
      <3>3. QED
        BY <2>3, <3>1, <3>2
    <2>5. QED
      BY <2>3, <2>4 DEF AsFar, Early
  <1>10. CASE PrOpened \/ CodexComplete
    <2>1. step \in {"opened", "end"}
      BY <1>10 DEF PrOpened, CodexComplete
    <2>2. Effects = Noted
      BY <1>1, <2>1 DEF AsFar
    <2>3. step' \in {"end", "complete"} /\ UNCHANGED <<own, prs>> /\ Noted' = Noted
      BY <1>1, <1>2, <1>10, NoteCounts DEF PrOpened, CodexComplete
    <2>4. Effects' = Noted'
      BY <2>2, <2>3 DEF Effects
    <2>5. QED
      BY <2>3, <2>4 DEF AsFar, Early
  <1>11. CASE CycleFails
    <2>1. Noted <= Effects /\ Effects <= Noted + 1
      BY <1>1, LogFromProgress
    <2>2. step' = "failed" /\ UNCHANGED <<own, prs, log>>
      BY <1>11 DEF CycleFails, gitVars
    <2>3. Noted' = Noted /\ Effects' = Effects
      BY <2>2 DEF Noted, Effects
    <2>4. QED
      BY <2>1, <2>2, <2>3 DEF AsFar, Early
  <1>12. QED
    BY <1>3, <1>4, <1>5, <1>6, <1>7, <1>8, <1>9, <1>10, <1>11 DEF DispatchRequiredChecks

\* Only a cycle and, while it is not mixed, nobody else moves what is noted.
LEMMA ProgressStep == CheckoutInv /\ ProgressInv /\ [Next]_vars => ProgressInv'
  <1> SUFFICES ASSUME CheckoutInv, ProgressInv, [Next]_vars
               PROVE  ProgressInv'
    OBVIOUS
  <1>1. /\ GitTypeOK /\ ForgeTypeOK /\ mixed \in BOOLEAN
        /\ DOMAIN prs \subseteq DOMAIN remote /\ (~mixed => AsFar)
    BY DEF CheckoutInv, TypeOK, ProgressInv
  <1>2. ASSUME UNCHANGED <<step, own, log, prs>>, DOMAIN remote \subseteq DOMAIN remote', ~mixed' => ~mixed
        PROVE  ProgressInv'
    BY <1>1, <1>2, ProgressStays DEF ProgressInv
  <1>3. CASE BeginCycle
    <2>1. /\ step' = "start" /\ own' = Main /\ log' = <<>> /\ UNCHANGED <<prs, remote>>
      BY <1>3 DEF BeginCycle, StartCycle, gitVars
    <2>2. Noted' = 0
      <3>1. NotedAt(<<>>) = {}
        BY DEF NotedAt
      <3>2. Noted' = Cardinality(NotedAt(log'))
        BY DEF Noted, NotedAt, NotedEvents
      <3>3. QED
        BY <2>1, <3>1, <3>2, FS_EmptySet
    <2>3. Main \notin DOMAIN prs
      BY <1>1 DEF GitTypeOK
    <2>4. QED
      BY <1>1, <2>1, <2>2, <2>3 DEF ProgressInv, AsFar, Early
  <1>4. CASE Cycle
    <2>1. mixed' = mixed
      BY <1>4 DEF Cycle
    <2>2. CASE ForgeStep
      <3>1. \/ Started \/ CodexSucceeds \/ CodexFails \/ ReadStatus \/ \E b \in Branch : Switch(b)
            \/ AddListed \/ CommitCycle \/ PushCycle \/ CreatePr \/ NoChanges
            \/ PrCreated \/ DispatchRequiredChecks \/ RequestAutoMerge \/ AutoMergeRequested
            \/ PrOpened \/ CodexComplete \/ CycleFails
        BY <2>2 DEF ForgeStep, Publish
      <3>2. DOMAIN prs' \subseteq DOMAIN remote'
        <4>1. CASE CreatePr
          BY <1>1, <4>1 DEF CreatePr, PrCreate
        <4>2. CASE DispatchRequiredChecks \/ RequestAutoMerge
          BY <1>1, <4>2 DEF DispatchRequiredChecks, DispatchCheck, WorkflowRun, RequestAutoMerge,
                            MergeAuto, Note, gitVars
        <4>3. CASE ~CreatePr /\ ~DispatchRequiredChecks /\ ~RequestAutoMerge
          BY <1>1, <3>1, <4>3
             DEF Started, CodexSucceeds, CodexFails, ReadStatus, Switch, AddListed, CommitCycle, PushCycle,
                 GitPush, NoChanges, PrCreated, AutoMergeRequested, PrOpened, CodexComplete, CycleFails,
                 Note, gitVars
        <4>4. QED
          BY <4>1, <4>2, <4>3
      <3>3. ~mixed => AsFar'
        BY <3>1, EarlyProgress, LateProgress
      <3>4. QED
        BY <2>1, <3>2, <3>3 DEF ProgressInv
    <2>3. CASE \E p \in Editable : CodexEdits(p)
      BY <1>2, <2>1, <2>3 DEF CodexEdits, forgeVars
    <2>4. QED
      BY <1>4, <2>2, <2>3 DEF Cycle
  <1>5. CASE BeginCall \/ Runner
    <2>1. /\ UNCHANGED <<step, own, log, prs, remote>> /\ mixed' = mixed
      BY <1>5 DEF BeginCall, Call, Runner, RunnerStarts, RunnerStops, RunnerAppends, RunnerRewrites,
                  KbRewrites, OthersWrote, Quiet, gitVars, forgeVars, historyVars
    <2>2. QED
      BY <1>2, <2>1
  <1>6. CASE Settle
    <2>1. UNCHANGED <<step, own, log>>
      BY <1>6 DEF Settle, forgeVars
    <2>2. ~mixed' => ~mixed /\ prs' = prs
      BY <1>6 DEF Settle
    <2>3. DOMAIN prs' \subseteq DOMAIN remote'
      <3>1. CASE CreateSnapshotPr
        BY <1>1, <3>1 DEF CreateSnapshotPr
      <3>2. CASE PushSnapshot
        BY <1>1, <3>2 DEF PushSnapshot, GitPush
      <3>3. CASE ~CreateSnapshotPr /\ ~PushSnapshot
        <4>1. UNCHANGED <<remote, prs>>
          BY <1>6, <3>3 DEF Settle, StateStep, IdleGate, AuditBefore, Normalize, DedupeRead, DedupeRename,
                            RewriteGitignore, RemoveRuntime, AddSnapshot, CommitSnapshot, FinalAudit,
                            StateFails, Quiet, gitVars
        <4>2. QED
          BY <1>1, <4>1
      <3>4. QED
        BY <3>1, <3>2, <3>3
    <2>4. QED
      BY <1>1, <2>1, <2>2, <2>3, ProgressStays DEF ProgressInv
  <1>7. CASE UNCHANGED vars
    <2>1. UNCHANGED <<step, own, log, prs, remote, mixed>>
      BY <1>7 DEF vars, gitVars, forgeVars, historyVars
    <2>2. QED
      BY <1>2, <2>1
  <1>8. QED
    BY <1>3, <1>4, <1>5, <1>6, <1>7 DEF Next

\* dispatch_required_checks and its neighbours in forge_loop.rs: unless settle had a
\* hand in the cycle, the log has an event for every effect on GitHub but the last,
\* and for that one too when the cycle completes.
THEOREM LogTrue == Spec => []LogTellsEffects
  <1>1. Init => ProgressInv
    <2> SUFFICES ASSUME Init
                 PROVE  ProgressInv
      OBVIOUS
    <2>1. step = "idle" /\ log = <<>> /\ DOMAIN prs = {}
      BY DEF Init, ForgeInit
    <2>2. Noted = 0
      <3>1. NotedAt(<<>>) = {}
        BY DEF NotedAt
      <3>2. QED
        BY <2>1, <3>1, NotedIs, FS_EmptySet
    <2>3. QED
      BY <2>1, <2>2 DEF ProgressInv, AsFar, Early
  <1>2. CheckoutInv /\ ProgressInv => LogTellsEffects
    BY LogFromProgress DEF ProgressInv, LogTellsEffects
  <1>3. QED
    BY <1>1, <1>2, CheckoutInvariant, ProgressStep, PTL DEF Spec

-----------------------------------------------------------------------------
(* Publication.  From the audit of git status to the request, the sources  *)
(* of the checkout pass through the index, the commit and the branch, and  *)
(* with them go only the paths that publish listed.                        *)

Agree(t, u, paths) == \A p \in paths : File(t, p) = File(u, p)
IsOpen == "publish.pr_opened" \in Elements(log)

\* The cycle has pushed its branch.
Pushed ==
    \/ step \in {"create", "created", "ci", "ci logged", "title", "title logged", "merge",
                 "merge logged", "opened"}
    \/ IsOpen /\ step \in {"end", "complete"}

\* A tree holds the sources as they are in the checkout; it differs from the
\* base by nothing but what publish listed.
Holds(t) == Agree(t, tree, Sources)
Carries(t) == Holds(t) /\ (~mixed => Agree(t, base, Path \ listed))

PublishInv ==
    /\ listed \cap (Is("work") \cup Is("output")) = {}
    /\ IsOpen => step \in {"end", "complete", "failed"}
    /\ step \in {"start", "codex", "status", "switch", "add"} => (~mixed => Agree(index, base, Path))
    /\ step \in {"switch", "add"} => Agree(index, tree, Sources \ listed)
    /\ step = "commit" => Carries(index)
    /\ step = "push" => Holds(index) /\ Carries(head)
    /\ Pushed => /\ own \in DOMAIN remote /\ Carries(remote[own])
                 /\ Holds(index) /\ Holds(head)
                 /\ step # "create" => own \in DOMAIN prs

\* git add takes the files named that are not ignored, and no other.
LEMMA AddTakes ==
    ASSUME NEW paths, GitAdd(paths)
    PROVE  /\ \A p : p \notin paths => File(index', p) = File(index, p)
           /\ \A p \in paths : ~Ignored(p) => File(index', p) = File(tree, p)
  <1> DEFINE taken == {p \in paths : ~Ignored(p)}
             kept == {p \in DOMAIN index : p \notin taken}
  <1>1. index' = [p \in kept \cup (taken \cap DOMAIN tree) |-> IF p \in taken THEN tree[p] ELSE index[p]]
    BY DEF GitAdd
  <1>2. \A p : p \notin taken => File(index', p) = File(index, p)
    BY <1>1 DEF File
  <1>3. \A p \in taken : File(index', p) = File(tree, p)
    BY <1>1 DEF File
  <1>4. QED
    BY <1>2, <1>3

\* Sources are neither hidden nor the business of a command.
LEMMA SourcesApart ==
    /\ \A p \in Sources : ~Ignored(p) /\ p \notin InScope
    /\ \A p \in Sources : p \notin Is("gitconfig") \cup Is("store") \cup Is("runtime") \cup {gitignore}
  <1>1. \A p \in Sources : p \in Path /\ traits[p] = {}
    BY DEF Sources
  <1>2. traits[gitignore] = {"gitignore"}
    BY PathTraits
  <1>3. QED
    BY <1>1, <1>2 DEF Ignored, InScope, Is

\* Those beside the cycle leave the sources alone, and what they stage, commit
\* or push they take from where the cycle has it too.
LEMMA PublishStays ==
    ASSUME PublishInv, UNCHANGED <<step, own, listed, log, base>>,
           Agree(tree', tree, Sources), Agree(index', index, Sources), head' \in {head, index},
           ~mixed' => ~mixed /\ UNCHANGED <<index, head, remote>>,
           DOMAIN remote \subseteq DOMAIN remote', DOMAIN prs \subseteq DOMAIN prs',
           \A b \in DOMAIN remote : remote'[b] \in {remote[b], head}
    PROVE  PublishInv'
  <1>1. IsOpen' = IsOpen /\ Pushed' = Pushed
    BY DEF IsOpen, Pushed
  <1>2. ASSUME NEW t, Holds(t)
        PROVE  Agree(t, tree', Sources)
    BY <1>2 DEF Holds, Agree
  <1>3. Holds(index) => Holds(index)'
    BY <1>2 DEF Holds, Agree
  <1>4. step = "commit" => Carries(index)'
    BY <1>3 DEF PublishInv, Carries
  <1>5. step = "push" => Holds(index)' /\ Carries(head)'
    BY <1>2, <1>3 DEF PublishInv, Carries, Holds
  <1>6. Pushed => Holds(index)' /\ Holds(head)' /\ own' \in DOMAIN remote' /\ Carries(remote[own])'
    BY <1>2, <1>3 DEF PublishInv, Carries, Holds
  <1>7. step \in {"switch", "add"} => Agree(index', tree', Sources \ listed')
    BY DEF PublishInv, Agree
  <1>8. /\ listed' \cap (Is("work") \cup Is("output")) = {}
        /\ IsOpen' => step' \in {"end", "complete", "failed"}
        /\ step' \in {"start", "codex", "status", "switch", "add"} => (~mixed' => Agree(index', base', Path))
        /\ Pushed' => (step' # "create" => own' \in DOMAIN prs')
    BY <1>1 DEF PublishInv
  <1>9. QED
    BY <1>1, <1>4, <1>5, <1>6, <1>7, <1>8 DEF PublishInv

\* The next event of a cycle, when it is not that the request is open.
LEMMA OpenAppend ==
    ASSUME ForgeTypeOK, NEW event \in Event, log' = Append(log, event)
    PROVE  IsOpen' <=> IsOpen \/ event = "publish.pr_opened"
  <1>1. log \in Seq(Event)
    BY DEF ForgeTypeOK
  <1>2. DOMAIN log' = DOMAIN log \cup {Len(log) + 1} /\ \A i \in DOMAIN log : log'[i] = log[i]
        /\ log'[Len(log) + 1] = event
    BY <1>1, AppendProperties
  <1>3. QED
    BY <1>2 DEF IsOpen, Elements

\* The first events of a cycle do not say that a request is open.
LEMMA OpenStarted ==
    ASSUME ForgeTypeOK, Started
    PROVE  IsOpen' => IsOpen
  <1>1. log \in Seq(Event)
    BY DEF ForgeTypeOK
  <1>2. ASSUME NEW l \in Seq(Event), NEW more \in Seq(Event), \A i \in DOMAIN more : more[i] # "publish.pr_opened",
               "publish.pr_opened" \in Elements(l \o more)
        PROVE  "publish.pr_opened" \in Elements(l)
    <2>1. PICK i \in DOMAIN (l \o more) : (l \o more)[i] = "publish.pr_opened"
      BY <1>2 DEF Elements
    <2>2. /\ i \in 1 .. Len(l) => (l \o more)[i] = l[i] /\ i \in DOMAIN l
          /\ i \notin 1 .. Len(l) => (l \o more)[i] = more[i - Len(l)] /\ i - Len(l) \in DOMAIN more
      BY <2>1
    <2>3. i \in DOMAIN l /\ l[i] = "publish.pr_opened"
      BY <1>2, <2>1, <2>2
    <2>4. QED
      BY <2>3 DEF Elements
  <1>3. /\ <<"cycle.started", "continuity.compact_checkpoint">> \in Seq(Event)
        /\ <<"cycle.dry_run">> \in Seq(Event) /\ <<>> \in Seq(Event)
    BY DEF Event
  <1>4. \E more \in {<<"cycle.dry_run">>, <<>>} :
            log' = (log \o <<"cycle.started", "continuity.compact_checkpoint">>) \o more
    BY DEF Started
  <1>5. log \o <<"cycle.started", "continuity.compact_checkpoint">> \in Seq(Event)
    BY <1>1, <1>3
  <1>6. /\ \A i \in DOMAIN <<"cycle.dry_run">> : <<"cycle.dry_run">>[i] # "publish.pr_opened"
        /\ \A i \in DOMAIN <<>> : <<>>[i] # "publish.pr_opened"
        /\ \A i \in DOMAIN <<"cycle.started", "continuity.compact_checkpoint">> :
               <<"cycle.started", "continuity.compact_checkpoint">>[i] # "publish.pr_opened"
    OBVIOUS
  <1>7. IsOpen' => "publish.pr_opened" \in Elements(log \o <<"cycle.started", "continuity.compact_checkpoint">>)
    BY <1>2, <1>3, <1>4, <1>5, <1>6 DEF IsOpen
  <1>8. QED
    BY <1>1, <1>2, <1>3, <1>6, <1>7 DEF IsOpen

\* What publish lists is none of a runner's; what it does not list is as staged.
LEMMA ListedFacts ==
    /\ Publishable(GitStatus) \cap (Is("work") \cup Is("output")) = {}
    /\ Agree(index, tree, Sources \ Publishable(GitStatus))
  <1>1. Publishable(GitStatus) \cap (Is("work") \cup Is("output")) = {}
    BY DEF Publishable, Is
  <1>2. ASSUME NEW p \in Sources, p \notin Publishable(GitStatus)
        PROVE  File(index, p) = File(tree, p)
    <2>1. p \in Path /\ traits[p] = {} /\ ~Ignored(p)
      BY SourcesApart DEF Sources
    <2>2. p \notin GitStatus
      BY <1>2, <2>1 DEF Publishable
    <2>3. QED
      BY <2>1, <2>2 DEF GitStatus, Listed
  <1>3. QED
    BY <1>1, <1>2 DEF Agree

\* The steps of a cycle up to the push.
LEMMA PublishTrees ==
    ASSUME CheckoutInv, PublishInv,
           \/ Started \/ CodexSucceeds \/ CodexFails \/ ReadStatus \/ \E b \in Branch : Switch(b)
           \/ AddListed \/ CommitCycle \/ PushCycle,
           UNCHANGED <<base, mixed>>
    PROVE  PublishInv'
  <1>1. IsOpen' => IsOpen
    <2>1. ForgeTypeOK /\ "codex.failed" \in Event
      BY DEF CheckoutInv, TypeOK, Event
    <2>2. CASE Started
      BY <2>1, <2>2, OpenStarted
    <2>3. CASE CodexFails
      <3>1. log' = Append(log, "codex.failed")
        BY <2>3 DEF CodexFails, Note
      <3>2. QED
        BY <2>1, <3>1, OpenAppend
    <2>4. CASE log' = log
      BY <2>1, <2>4 DEF IsOpen
    <2>5. QED
      BY <2>2, <2>3, <2>4 DEF CodexSucceeds, ReadStatus, Switch, AddListed, CommitCycle, PushCycle
  <1>2. ~IsOpen'
    <2>1. step \in Early
      BY DEF Early, Started, CodexSucceeds, CodexFails, ReadStatus, Switch, AddListed, CommitCycle, PushCycle
    <2>2. IsOpen => step \in {"end", "complete", "failed"}
      BY DEF PublishInv
    <2>3. QED
      BY <1>1, <2>1, <2>2 DEF Early
  <1>3. CASE Started \/ CodexSucceeds \/ CodexFails
    <2>1. /\ step' \in {"complete", "codex", "status", "failed"} /\ UNCHANGED <<listed, index, base, mixed>>
          /\ step \in {"start", "codex"}
      BY <1>3 DEF Started, CodexSucceeds, CodexFails, Note, gitVars
    <2>2. ~Pushed'
      BY <1>2, <2>1 DEF Pushed
    <2>3. QED
      BY <1>2, <2>1, <2>2 DEF PublishInv
  <1>4. CASE ReadStatus
    <2>1. /\ step' \in {"unchanged", "switch"} /\ step = "status" /\ UNCHANGED <<index, tree>>
          /\ listed' = Publishable(GitStatus)
      BY <1>4 DEF ReadStatus, gitVars
    <2>2. ~Pushed'
      BY <1>2, <2>1 DEF Pushed
    <2>3. Agree(index', tree', Sources \ listed') /\ listed' \cap (Is("work") \cup Is("output")) = {}
      BY <2>1, ListedFacts
    <2>4. QED
      BY <1>2, <2>1, <2>2, <2>3 DEF PublishInv
  <1>5. CASE \E b \in Branch : Switch(b)
    <2>1. step' = "add" /\ step = "switch" /\ UNCHANGED <<index, tree, listed>>
      BY <1>5 DEF Switch
    <2>2. ~Pushed'
      BY <1>2, <2>1 DEF Pushed
    <2>3. QED
      BY <1>2, <2>1, <2>2 DEF PublishInv
  <1>6. CASE AddListed
    <2>1. step' = "commit" /\ step = "add" /\ UNCHANGED <<tree, listed>> /\ GitAdd(listed)
      BY <1>6 DEF AddListed
    <2>2. ~Pushed'
      BY <1>2, <2>1 DEF Pushed
    <2>3. Agree(index', tree, Sources)
      BY <2>1, AddTakes, SourcesApart DEF PublishInv, Agree
    <2>4. ~mixed => Agree(index', base, Path \ listed)
      BY <2>1, AddTakes DEF PublishInv, Agree
    <2>5. Carries(index)'
      BY <2>1, <2>3, <2>4 DEF Carries, Holds
    <2>6. QED
      BY <1>2, <2>1, <2>2, <2>5 DEF PublishInv
  <1>7. CASE CommitCycle
    <2>1. step' = "push" /\ step = "commit" /\ UNCHANGED <<tree, index, listed>> /\ head' = index
      BY <1>7 DEF CommitCycle, GitCommit
    <2>2. ~Pushed'
      BY <1>2, <2>1 DEF Pushed
    <2>3. Holds(index)' /\ Carries(head)'
      BY <2>1 DEF PublishInv, Carries, Holds
    <2>4. QED
      BY <1>2, <2>1, <2>2, <2>3 DEF PublishInv
  <1>8. CASE PushCycle
    <2>1. /\ step' = "create" /\ step = "push" /\ UNCHANGED <<tree, index, head, listed, own>>
          /\ remote' = [c \in DOMAIN remote \cup {own} |-> IF c = own THEN head ELSE remote[c]]
      BY <1>8 DEF PushCycle, GitPush
    <2>2. own \in DOMAIN remote' /\ remote'[own] = head
      BY <2>1
    <2>3. Holds(index)' /\ Holds(head)' /\ Carries(remote[own])'
      BY <2>1, <2>2 DEF PublishInv, Carries, Holds
    <2>4. QED
      BY <1>2, <2>1, <2>2, <2>3 DEF PublishInv
  <1>9. QED
    BY <1>3, <1>4, <1>5, <1>6, <1>7, <1>8

\* The steps of a cycle after the push leave the trees alone.
LEMMA PublishRequest ==
    ASSUME CheckoutInv, PublishInv,
           \/ CreatePr \/ PrCreated \/ DispatchRequiredChecks \/ RequestAutoMerge \/ AutoMergeRequested
           \/ PrOpened \/ NoChanges \/ CodexComplete \/ CycleFails,
           UNCHANGED <<base, mixed>>
    PROVE  PublishInv'
  <1>1. /\ UNCHANGED <<tree, index, head, remote, own, listed, base, mixed>>
        /\ DOMAIN prs \subseteq DOMAIN prs'
    BY DEF CreatePr, PrCreate, PrCreated, DispatchRequiredChecks, DispatchCheck, WorkflowRun, RequestAutoMerge,
           MergeAuto, AutoMergeRequested, PrOpened, NoChanges, CodexComplete, CycleFails, Note, gitVars
  <1>2. ForgeTypeOK
    BY DEF CheckoutInv, TypeOK
  <1>3. CASE \/ CreatePr \/ PrCreated \/ DispatchRequiredChecks \/ RequestAutoMerge \/ AutoMergeRequested
             \/ PrOpened
    <2>1. Pushed
      BY <1>3 DEF Pushed, CreatePr, PrCreated, DispatchRequiredChecks, DispatchCheck, RequestAutoMerge,
                  AutoMergeRequested, PrOpened
    <2>2. /\ step' \in {"created", "ci", "ci logged", "title", "title logged", "merge", "merge logged",
                        "opened", "end"}
          /\ step = "create" => own \in DOMAIN prs'
          /\ IsOpen' => IsOpen \/ step' = "end"
      <3>1. CASE CreatePr
        BY <3>1 DEF CreatePr, PrCreate, IsOpen
      <3>2. CASE PrCreated \/ AutoMergeRequested
        <4>1. \E event \in {"publish.pr_created", "publish.auto_merge_requested"} :
                  log' = Append(log, event) /\ event \in Event /\ event # "publish.pr_opened"
          BY <3>2 DEF PrCreated, AutoMergeRequested, Note, Event
        <4>2. step' \in {"ci", "opened"} /\ step # "create"
          BY <3>2 DEF PrCreated, AutoMergeRequested, Note
        <4>3. QED
          BY <1>2, <4>1, <4>2, OpenAppend
      <3>3. CASE DispatchRequiredChecks
        <4>1. step' \in {"ci logged", "title", "title logged", "merge", "opened"} /\ step # "create"
          BY <3>3 DEF DispatchRequiredChecks, DispatchCheck, Note
        <4>2. log' = log \/ log' = Append(log, "publish.required_check_dispatched")
          BY <3>3 DEF DispatchRequiredChecks, DispatchCheck, Note
        <4>3. "publish.required_check_dispatched" \in Event
          BY DEF Event
        <4>4. IsOpen' => IsOpen
          BY <1>2, <4>2, <4>3, OpenAppend DEF IsOpen
        <4>5. QED
          BY <4>1, <4>4
      <3>4. CASE RequestAutoMerge
        BY <3>4 DEF RequestAutoMerge, IsOpen
      <3>5. CASE PrOpened
        BY <3>5 DEF PrOpened, Note
      <3>6. QED
        BY <1>3, <3>1, <3>2, <3>3, <3>4, <3>5
    <2>3. /\ own' \in DOMAIN remote' /\ Carries(remote[own])' /\ Holds(index)' /\ Holds(head)'
          /\ own' \in DOMAIN prs'
      <3>1. /\ own \in DOMAIN remote /\ Carries(remote[own]) /\ Holds(index) /\ Holds(head)
            /\ step # "create" => own \in DOMAIN prs
        BY <2>1 DEF PublishInv
      <3>2. own' \in DOMAIN prs'
        BY <1>1, <2>2, <3>1
      <3>3. QED
        BY <1>1, <3>1, <3>2 DEF Carries, Holds
    <2>4. ~IsOpen
      <3>1. step \notin {"end", "complete", "failed"}
        BY <1>3 DEF CreatePr, PrCreated, DispatchRequiredChecks, DispatchCheck, RequestAutoMerge,
                    AutoMergeRequested, PrOpened
      <3>2. QED
        BY <3>1 DEF PublishInv
    <2>5. listed' \cap (Is("work") \cup Is("output")) = {}
      BY <1>1 DEF PublishInv
    <2>6. QED
      BY <2>2, <2>3, <2>4, <2>5 DEF PublishInv
  <1>4. CASE NoChanges \/ CodexComplete \/ CycleFails
    <2>1. /\ step' \in {"end", "complete", "failed"}
          /\ step \notin {"end"} => step' = "failed" \/ step = "unchanged"
          /\ step' # "failed" /\ step # "unchanged" => step = "end"
      BY <1>4 DEF NoChanges, CodexComplete, CycleFails, Note
    <2>2. IsOpen' => IsOpen
      <3>1. \/ log' = log
            \/ \E event \in {"publish.no_changes", "cycle.codex_complete"} :
                   log' = Append(log, event) /\ event \in Event /\ event # "publish.pr_opened"
        BY <1>4 DEF NoChanges, CodexComplete, CycleFails, Note, Event
      <3>2. QED
        BY <1>2, <3>1, OpenAppend DEF IsOpen
    <2>3. Pushed' => Pushed /\ step = "end"
      <3>1. IsOpen => step # "unchanged"
        BY DEF PublishInv
      <3>2. QED
        BY <2>1, <2>2, <3>1 DEF Pushed
    <2>4. Pushed' => /\ own' \in DOMAIN remote' /\ Carries(remote[own])' /\ Holds(index)' /\ Holds(head)'
                     /\ own' \in DOMAIN prs'
      BY <1>1, <2>3 DEF PublishInv, Carries, Holds
    <2>5. listed' \cap (Is("work") \cup Is("output")) = {}
      BY <1>1 DEF PublishInv
    <2>6. QED
      BY <2>1, <2>4, <2>5 DEF PublishInv
  <1>5. QED
    BY <1>3, <1>4

\* The files that runners and GitKB write, and those a command does, are no sources.
LEMMA SourcesStay ==
    ASSUME CheckoutInv, RaceInv, Settle \/ Runner
    PROVE  Agree(tree', tree, Sources)
  <1>1. CASE Settle
    <2>1. spent' = spent /\ [Next]_vars
      BY <1>1 DEF Settle, Next
    <2>2. tree' # tree => \A p \in Preserved : File(tree', p) = File(tree, p)
      BY <2>1, SurvivesStep DEF Survives
    <2>3. Sources \subseteq Preserved
      BY SourcesApart, PathTraits DEF Preserved, Sources, Is
    <2>4. QED
      BY <2>2, <2>3 DEF Agree
  <1>2. CASE Runner
    <2>1. \/ tree' = tree
          \/ \E p \in Is("gitconfig") \cup Is("work") \cup Is("kb") : \E lines : tree' = With(tree, p, lines)
      BY <1>2, RunnerStateAssumption
         DEF Runner, RunnerStops, RunnerStarts, RunnerAppends, RunnerRewrites, KbRewrites, Quiet, gitVars
    <2>2. Sources \cap (Is("gitconfig") \cup Is("work") \cup Is("kb")) = {}
      BY DEF Sources, Is
    <2>3. QED
      BY <2>1, <2>2 DEF Agree, File, With
  <1>3. QED
    BY <1>1, <1>2

\* What settle stages is in its own scope, and what it pushes is the commit.
LEMMA SettleTrees ==
    ASSUME Settle
    PROVE  /\ Agree(index', index, Sources) /\ head' \in {head, index}
           /\ DOMAIN remote \subseteq DOMAIN remote' /\ DOMAIN prs \subseteq DOMAIN prs'
           /\ \A b \in DOMAIN remote : remote'[b] \in {remote[b], head}
  <1>1. CASE AddSnapshot
    <2>1. GitAdd(InScope) /\ UNCHANGED <<head, remote, prs>>
      BY <1>1 DEF AddSnapshot
    <2>2. QED
      BY <2>1, AddTakes, SourcesApart DEF Agree
  <1>2. CASE CommitSnapshot
    BY <1>2 DEF CommitSnapshot, GitCommit, Agree
  <1>3. CASE PushSnapshot
    BY <1>3 DEF PushSnapshot, GitPush, Agree
  <1>4. CASE CreateSnapshotPr
    BY <1>4 DEF CreateSnapshotPr, Agree
  <1>5. CASE UNCHANGED <<index, head, remote, prs>>
    BY <1>5 DEF Agree
  <1>6. QED
    BY <1>1, <1>2, <1>3, <1>4, <1>5
       DEF Settle, StateStep, IdleGate, AuditBefore, Normalize, DedupeRead, DedupeRename, RewriteGitignore,
           RemoveRuntime, FinalAudit, StateFails, Quiet, gitVars

\* Every step keeps what is being published as it should be.
LEMMA PublishStep == CheckoutInv /\ RaceInv /\ PublishInv /\ [Next]_vars => PublishInv'
  <1> SUFFICES ASSUME CheckoutInv, RaceInv, PublishInv, [Next]_vars
               PROVE  PublishInv'
    OBVIOUS
  <1>1. CASE BeginCycle
    <2>1. /\ step' = "start" /\ log' = <<>> /\ listed' = {} /\ index' = index /\ base' = head
          /\ mixed' = ~NothingStaged
      BY <1>1 DEF BeginCycle, StartCycle, gitVars
    <2>2. ~IsOpen' /\ ~Pushed'
      BY <2>1 DEF IsOpen, Pushed, Elements
    <2>3. ~mixed' => Agree(index', base', Path)
      BY <2>1 DEF NothingStaged, Agree
    <2>4. QED
      BY <2>1, <2>2, <2>3 DEF PublishInv
  <1>2. CASE Cycle
    <2>1. UNCHANGED <<base, mixed>>
      BY <1>2 DEF Cycle
    <2>2. CASE ForgeStep
      BY <2>1, <2>2, PublishTrees, PublishRequest DEF ForgeStep, Publish
    <2>3. CASE \E p \in Editable : CodexEdits(p)
      <3>1. step = "codex" /\ UNCHANGED <<step, listed, log, index>>
        BY <2>3 DEF CodexEdits, forgeVars
      <3>2. IsOpen' = IsOpen
        BY <3>1 DEF IsOpen
      <3>3. ~Pushed'
        BY <3>1 DEF Pushed
      <3>4. QED
        BY <2>1, <3>1, <3>2, <3>3 DEF PublishInv
    <2>4. QED
      BY <1>2, <2>2, <2>3 DEF Cycle
  <1>3. CASE BeginCall
    <2>1. UNCHANGED <<step, own, listed, log, base, mixed, tree, index, head, remote, prs>>
      BY <1>3 DEF BeginCall, Call, forgeVars, gitVars
    <2>2. QED
      BY <2>1, PublishStays DEF Agree
  <1>4. CASE Settle
    <2>1. /\ UNCHANGED <<step, own, listed, log, base>>
          /\ ~mixed' => ~mixed /\ UNCHANGED <<index, head, remote>>
      BY <1>4 DEF Settle, forgeVars
    <2>2. QED
      BY <1>4, <2>1, SourcesStay, SettleTrees, PublishStays
  <1>5. CASE Runner
    <2>1. UNCHANGED <<step, own, listed, log, base, mixed, index, head, remote, prs>>
      BY <1>5 DEF Runner, RunnerStops, RunnerStarts, RunnerAppends, RunnerRewrites, KbRewrites, OthersWrote,
                  Quiet, gitVars, forgeVars, historyVars
    <2>2. Agree(index', index, Sources)
      BY <2>1 DEF Agree
    <2>3. QED
      BY <1>5, <2>1, <2>2, SourcesStay, PublishStays
  <1>6. CASE UNCHANGED vars
    <2>1. UNCHANGED <<step, own, listed, log, base, mixed, tree, index, head, remote, prs>>
      BY <1>6 DEF vars, forgeVars, gitVars, historyVars
    <2>2. QED
      BY <2>1, PublishStays DEF Agree
  <1>7. QED
    BY <1>1, <1>2, <1>3, <1>4, <1>5, <1>6 DEF Next

\* publish_self_upgrade_if_needed (forge_loop.rs): a request that is reported open holds
\* every source as Codex left it and, unless settle took part, nothing that differs from
\* the base but what publish listed, which is none of the runners' state.
THEOREM PublishExact == Spec => []PublishesExactly
  <1>1. Init => RaceInv /\ PublishInv
    <2> SUFFICES ASSUME Init
                 PROVE  RaceInv /\ PublishInv
      OBVIOUS
    <2>1. step = "idle" /\ log = <<>> /\ listed = {} /\ pc = "idle"
      BY DEF Init, ForgeInit, StateInit
    <2>2. ~IsOpen /\ ~Pushed
      BY <2>1 DEF IsOpen, Pushed, Elements
    <2>3. QED
      BY <2>1, <2>2 DEF RaceInv, PublishInv
  <1>2. PublishInv => PublishesExactly
    <2> SUFFICES ASSUME PublishInv, IsOpen, step \in {"end", "complete"}
                 PROVE  /\ own \in DOMAIN prs
                        /\ \A p \in Sources : File(remote[own], p) = File(tree, p)
                        /\ ~mixed => \A p \in Path : File(remote[own], p) # File(base, p) =>
                                         p \in listed \ (Is("work") \cup Is("output"))
      BY DEF PublishesExactly, IsOpen
    <2>1. own \in DOMAIN prs /\ Carries(remote[own])
      BY DEF PublishInv, Pushed
    <2>2. listed \cap (Is("work") \cup Is("output")) = {}
      BY DEF PublishInv
    <2>3. QED
      BY <2>1, <2>2 DEF Carries, Holds, Agree
  <1>3. CheckoutInv /\ RaceInv /\ PublishInv /\ [Next]_vars => RaceInv' /\ PublishInv'
    BY RaceStep, PublishStep
  <1>4. QED
    BY <1>1, <1>2, <1>3, CheckoutInvariant, PTL DEF Spec

-----------------------------------------------------------------------------
(* Settlement.  A settle of all slots that commits, and that nobody writes *)
(* beside, unhides _work before it stages, stages all that is in its scope *)
(* and commits it: its last audit has nothing left to report.              *)

SettlesAll == inv.cmd = "settle" /\ inv.commit /\ ~inv.dry_run /\ inv.slots = "all" /\ alone

\* An entry for .gitignore is still to be dealt with.
UnhideDue == \E k \in DOMAIN todo : todo[k].path = gitignore

SettleInv ==
    SettlesAll =>
        /\ pc \in {"normalize", "rename"} /\ Hides(tree) => UnhideDue
        /\ pc \in {"add", "commit", "push", "create", "final"} => ~Hides(tree)
        /\ pc \in {"commit", "push", "create", "final"} => Agree(index, tree, InScope)
        /\ pc \in {"push", "create", "final"} => Agree(head, index, InScope)
        /\ pc \in {"ok", "strict failed"} /\ report.git => report.entries = {}

\* What a settle relies on, as far as it is alone, only a command changes.
LEMMA SettleStays ==
    ASSUME SettleInv, UNCHANGED <<pc, inv, todo, report>>, alone' => alone /\ UNCHANGED <<tree, index, head>>
    PROVE  SettleInv'
  <1>1. CASE alone'
    <2>1. UNCHANGED <<pc, inv, todo, report, tree, index, head>> /\ (SettlesAll' => SettlesAll)
      BY <1>1 DEF SettlesAll
    <2>2. UnhideDue' = UnhideDue /\ Hides(tree)' = Hides(tree)
      BY <2>1 DEF UnhideDue, Hides
    <2>3. QED
      BY <2>1, <2>2 DEF SettleInv, Agree
  <1>2. CASE ~alone'
    BY <1>2 DEF SettleInv, SettlesAll
  <1>3. QED
    BY <1>1, <1>2

\* A settle that commits goes on to stage once nothing is left to normalize.
LEMMA AddIsNext == SettlesAll => AfterNormalize = "add"
  BY DEF SettlesAll, AfterNormalize

\* The first audit has an entry for a .gitignore that hides _work.
LEMMA AuditSettles ==
    ASSUME GitTypeOK, SettlesAll, AuditBefore
    PROVE  /\ Hides(tree) => UnhideDue'
           /\ pc' = IF todo' = <<>> THEN "add" ELSE "normalize"
  <1>1. PICK git \in BOOLEAN : todo' = WorkedOff({e \in Audit(git).entries : ActsOn(e)})
    BY DEF AuditBefore, SettlesAll
  <1> DEFINE acts == {e \in Audit(git).entries : ActsOn(e)}
             e0 == Classified(gitignore)
  <1>2. Hides(tree) => UnhideDue'
    <2> SUFFICES ASSUME Hides(tree)
                 PROVE  UnhideDue'
      OBVIOUS
    <2>1. e0 \in Audit(git).entries
      BY AuditFacts, CandidateFacts DEF InSlots, SettlesAll
    <2>2. e0.path = gitignore /\ ActsOn(e0)
      BY RuleFacts, PathTraits DEF Classified, ActsOn
    <2>3. \E k \in DOMAIN WorkedOff(acts) : WorkedOff(acts)[k] = e0
      BY <2>1, <2>2, WorkedOffFacts
    <2> HIDE DEF e0, acts
    <2>4. PICK k \in DOMAIN todo' : todo'[k] = e0
      BY <1>1, <2>3 DEF acts
    <2>5. todo'[k].path = gitignore
      BY <2>2, <2>4
    <2>6. QED
      BY <2>5 DEF UnhideDue
  <1>3. QED
    BY <1>2, AddIsNext DEF AuditBefore, Goto

\* Each step of normalize but the rewrite of .gitignore leaves its entry to do.
LEMMA NormalizeSettles ==
    ASSUME GitTypeOK, StateInv, SettlesAll, SettleInv, DedupeRename \/ RewriteGitignore \/ RemoveRuntime
    PROVE  /\ Hides(tree)' => UnhideDue'
           /\ pc' = IF todo' = <<>> THEN "add" ELSE "normalize"
  <1> DEFINE q == Head(todo).path
  <1>1. /\ pc \in {"normalize", "rename"} /\ Done /\ todo' = Tail(todo)
        /\ pc' = IF todo' = <<>> THEN "add" ELSE "normalize"
    BY AddIsNext DEF DedupeRename, RewriteGitignore, RemoveRuntime, Done, Goto
  <1>2. ASSUME q # gitignore, Hides(tree)
        PROVE  UnhideDue'
    <2>1. PICK k \in DOMAIN todo : todo[k].path = gitignore
      BY <1>1, <1>2 DEF SettleInv, UnhideDue
    <2>2. k # 1
      BY <1>1, <1>2, <2>1, HeadWorkable
    <2>3. k - 1 \in DOMAIN todo' /\ todo'[k - 1].path = gitignore
      BY <1>1, <2>1, <2>2, HeadWorkable
    <2>4. QED
      BY <2>3 DEF UnhideDue
  <1>3. CASE RewriteGitignore
    <2>1. PICK lines \in Seq(Line) : Elements(lines) \cap BroadRule = {} /\ tree' = With(tree, gitignore, lines)
      <3>1. tree[gitignore] \in Seq(Line)
        BY <1>3 DEF RewriteGitignore, GitTypeOK, IsTree
      <3>2. QED
        BY <1>3, <3>1, RewrittenFacts DEF RewriteGitignore
    <2>2. tree'[gitignore] = lines
      BY <2>1 DEF With
    <2>3. QED
      BY <1>1, <2>1, <2>2 DEF Hides
  <1>4. CASE DedupeRename \/ RemoveRuntime
    <2>1. q \in Is("gitconfig") \cup Is("store") \cup Is("runtime")
      <3>1. CASE DedupeRename
        BY <3>1 DEF DedupeRename, StateInv
      <3>2. CASE RemoveRuntime
        BY <1>1, <3>2, HeadWorkable DEF RemoveRuntime, Workable
      <3>3. QED
        BY <1>4, <3>1, <3>2
    <2>2. q # gitignore
      BY <2>1, PathTraits DEF Is
    <2>3. tree' = With(tree, q, rewritten) \/ tree' = Without(tree, q)
      BY <1>4 DEF DedupeRename, RemoveRuntime
    <2>4. Hides(tree)' => Hides(tree)
      <3> HIDE DEF q
      <3>1. gitignore \in DOMAIN tree' => gitignore \in DOMAIN tree /\ tree'[gitignore] = tree[gitignore]
        BY <2>2, <2>3 DEF With, Without
      <3>2. QED
        BY <3>1 DEF Hides
    <2>5. QED
      BY <1>1, <1>2, <2>2, <2>4
  <1>5. QED
    BY <1>3, <1>4

\* When .gitignore hides nothing, git add takes everything in the scope of a settle.
LEMMA AddSettles ==
    ASSUME GitAdd(InScope), ~Hides(tree)
    PROVE  Agree(index', tree, InScope)
  <1>1. \A p : ~Ignored(p)
    BY DEF Ignored
  <1>2. QED
    BY <1>1, AddTakes DEF Agree

\* When everything in scope is staged and committed, an audit finds nothing.
LEMMA FinalSettles ==
    ASSUME GitTypeOK, ~Hides(tree), Agree(index, tree, InScope), Agree(head, index, InScope)
    PROVE  Audit(TRUE).entries = {}
  <1>1. \A p \in InScope : ~Listed(p)
    BY DEF Listed, Agree
  <1>2. GitStatus \cap InScope = {}
    BY <1>1 DEF GitStatus
  <1>3. Candidates(TRUE) = {}
    BY <1>2, CandidateFacts
  <1>4. QED
    BY <1>3, AuditFacts

\* The steps of a command that settles alone.
LEMMA SettleAlone ==
    ASSUME CheckoutInv, SettleInv, Settle, SettlesAll
    PROVE  SettleInv'
  <1>1. /\ GitTypeOK /\ StateInv /\ inv' = inv /\ alone' = alone
        /\ StateStep
    BY DEF CheckoutInv, TypeOK, Settle, StateStep, IdleGate, AuditBefore, Normalize, DedupeRead, DedupeRename,
           RewriteGitignore, RemoveRuntime, AddSnapshot, CommitSnapshot, PushSnapshot, CreateSnapshotPr,
           FinalAudit, StateFails, Goto, Done
  <1>2. ASSUME pc' \in {"refused", "audit", "failed"}
        PROVE  SettleInv'
    BY <1>2 DEF SettleInv
  <1>3. ASSUME Hides(tree)' => UnhideDue', pc' = IF todo' = <<>> THEN "add" ELSE "normalize"
        PROVE  SettleInv'
    <2>1. todo' = <<>> => ~Hides(tree)'
      BY <1>3 DEF UnhideDue
    <2>2. QED
      BY <1>3, <2>1 DEF SettleInv
  <1>4. CASE IdleGate \/ StateFails
    BY <1>2, <1>4 DEF IdleGate, StateFails, Goto
  <1>5. CASE AuditBefore
    <2>1. Hides(tree)' = Hides(tree)
      BY <1>5 DEF AuditBefore, Quiet, gitVars, Hides
    <2>2. QED
      BY <1>1, <1>3, <1>5, <2>1, AuditSettles
  <1>6. CASE DedupeRead
    <2>1. pc = "normalize" /\ pc' = "rename" /\ UNCHANGED <<tree, todo>>
      BY <1>6 DEF DedupeRead, Goto, Quiet, gitVars
    <2>2. Hides(tree)' = Hides(tree) /\ UnhideDue' = UnhideDue
      BY <2>1 DEF Hides, UnhideDue
    <2>3. QED
      BY <2>1, <2>2 DEF SettleInv
  <1>7. CASE DedupeRename \/ RewriteGitignore \/ RemoveRuntime
    BY <1>1, <1>3, <1>7, NormalizeSettles
  <1>8. CASE AddSnapshot
    <2>1. pc = "add" /\ GitAdd(InScope) /\ tree' = tree
      BY <1>8 DEF AddSnapshot
    <2>2. ~Hides(tree) /\ pc' = "commit"
      BY <1>8, <2>1 DEF SettleInv, AddSnapshot, Goto
    <2>3. ~Hides(tree)' /\ Agree(index', tree', InScope)
      BY <2>1, <2>2, AddSettles DEF Hides
    <2>4. QED
      BY <2>1, <2>2, <2>3 DEF SettleInv
  <1>9. CASE CommitSnapshot
    <2>1. /\ pc = "commit" /\ pc' \in {"push", "final"} /\ UNCHANGED <<tree, index>>
          /\ IF NothingStaged THEN head' = head ELSE head' = index
      BY <1>9 DEF CommitSnapshot, GitCommit, Goto
    <2>2. Agree(head', index', InScope)
      BY <2>1, PathTraits DEF NothingStaged, Agree, InScope, Is
    <2>3. ~Hides(tree)' /\ Agree(index', tree', InScope)
      BY <2>1 DEF SettleInv, Hides
    <2>4. QED
      BY <2>1, <2>2, <2>3 DEF SettleInv
  <1>10. CASE PushSnapshot \/ CreateSnapshotPr
    <2>1. /\ pc \in {"push", "create"} /\ pc' \in {"create", "final"} /\ UNCHANGED <<tree, index, head>>
      BY <1>10 DEF PushSnapshot, CreateSnapshotPr, Goto
    <2>2. ~Hides(tree)' /\ Agree(index', tree', InScope) /\ Agree(head', index', InScope)
      BY <2>1 DEF SettleInv, Hides
    <2>3. QED
      BY <2>1, <2>2 DEF SettleInv
  <1>11. CASE FinalAudit
    <2>1. PICK git \in BOOLEAN : report' = Audit(git)
      BY <1>11 DEF FinalAudit
    <2>2. pc = "final" /\ pc' \in {"ok", "strict failed"}
      BY <1>11 DEF FinalAudit, Goto
    <2>3. report'.git => git = TRUE
      BY <1>1, <2>1, AuditFacts
    <2>4. Audit(TRUE).entries = {}
      BY <1>1, <2>2, FinalSettles DEF SettleInv
    <2>5. report'.git => report'.entries = {}
      BY <2>1, <2>3, <2>4
    <2>6. QED
      BY <2>2, <2>5 DEF SettleInv
  <1>12. QED
    BY <1>1, <1>4, <1>5, <1>6, <1>7, <1>8, <1>9, <1>10, <1>11 DEF StateStep, Normalize

\* Every step keeps a settle on its way to a clean state, or ends its being alone.
LEMMA SettleStep == CheckoutInv /\ SettleInv /\ [Next]_vars => SettleInv'
  <1> SUFFICES ASSUME CheckoutInv, SettleInv, [Next]_vars
               PROVE  SettleInv'
    OBVIOUS
  <1>1. CASE BeginCycle \/ Cycle
    <2>1. UNCHANGED <<pc, inv, todo, report>> /\ (alone' => alone /\ UNCHANGED <<tree, index, head>>)
      <3>1. CASE BeginCycle
        BY <3>1 DEF BeginCycle, StartCycle, stateVars, gitVars
      <3>2. CASE Cycle
        <4>1. UNCHANGED <<pc, inv, todo, report>>
          BY <3>2 DEF Cycle, stateVars
        <4>2. alone' = (alone /\ UNCHANGED <<tree, index, head>>)
          BY <3>2 DEF Cycle
        <4>3. alone' => alone /\ UNCHANGED <<tree, index, head>>
          BY <4>2, Zenon
        <4>4. QED
          BY <4>1, <4>3
      <3>3. QED
        BY <1>1, <3>1, <3>2
    <2>2. QED
      BY <2>1, SettleStays
  <1>2. CASE BeginCall
    <2>1. PICK i \in Invocations : Call(i)
      BY <1>2 DEF BeginCall
    <2>2. inv' = i /\ (i.cmd = "settle" => pc' = "gate")
      BY <2>1 DEF Call
    <2>3. QED
      BY <2>2 DEF SettleInv, SettlesAll
  <1>3. CASE Settle
    <2>1. CASE SettlesAll
      BY <1>3, <2>1, SettleAlone
    <2>2. CASE ~SettlesAll
      <3>1. inv' = inv /\ alone' = alone
        BY <1>3 DEF Settle, StateStep, IdleGate, AuditBefore, Normalize, DedupeRead, DedupeRename,
                    RewriteGitignore, RemoveRuntime, AddSnapshot, CommitSnapshot, PushSnapshot,
                    CreateSnapshotPr, FinalAudit, StateFails, Goto, Done
      <3>2. QED
        BY <2>2, <3>1 DEF SettleInv, SettlesAll
    <2>3. QED
      BY <2>1, <2>2
  <1>4. CASE Runner
    <2>1. UNCHANGED <<pc, inv, todo, report>> /\ (alone' => alone /\ UNCHANGED <<tree, index, head>>)
      BY <1>4 DEF Runner, RunnerStops, RunnerStarts, RunnerAppends, RunnerRewrites, KbRewrites, OthersWrote,
                  Quiet, gitVars, stateVars, historyVars
    <2>2. QED
      BY <2>1, SettleStays
  <1>5. CASE UNCHANGED vars
    <2>1. UNCHANGED <<pc, inv, todo, report, tree, index, head, alone>>
      BY <1>5 DEF vars, stateVars, gitVars, historyVars
    <2>2. QED
      BY <2>1, SettleStays
  <1>6. QED
    BY <1>1, <1>2, <1>3, <1>4, <1>5 DEF Next

\* settle leaves "clean" or "committed" state behind (runner_state.rs): when it settles
\* all slots, commits, and nobody else writes, its last audit reports nothing, whatever
\* the checkout, the index and the commits held when it began.
THEOREM SettleConverged == Spec => []SettleConverges
  <1>1. Init => SettleInv
    BY DEF Init, StateInit, SettleInv
  <1>2. SettleInv => SettleConverges
    BY DEF SettleInv, SettleConverges, SettlesAll
  <1>3. QED
    BY <1>1, <1>2, CheckoutInvariant, SettleStep, PTL DEF Spec
=============================================================================
