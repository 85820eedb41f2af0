------------------------ MODULE SwarmWorkflowProofs ------------------------
(***************************************************************************)
(* The serial workflow, for every task graph and every configuration: its  *)
(* invariants, and that a finished task stays finished.  And the planner   *)
(* that such a workflow starts from, for specs of any length: it refuses   *)
(* exactly the ambiguous ones, and makes each task of the others wait for  *)
(* what it should.                                                         *)
(***************************************************************************)
EXTENDS PlannedWorkflow, ReviewGateProofs, FiniteSetTheorems, WellFoundedInduction,
        NaturalsInduction, SequenceTheorems

\* The inductive invariant: DependenciesHonoured alone is not kept by a review
\* decision, which would take a task back that others were built on.
IInv == TypeOK /\ Coherent /\ DependenciesHonoured /\ ReviewIsOfUnfinished

----------------------------------------------------------------------------
\* The parts of the inductive invariant, in terms of workflows.
LEMMA InvIsOrderly == IInv <=> Orderly(wf)
BY DEF IInv, TypeOK, Coherent, DependenciesHonoured, ReviewIsOfUnfinished,
       Orderly, Honoured, Unfinished

\* Every step is one of the operations of ReviewGate.
LEMMA NextIsTransition ==
    ASSUME wf \in Workflow, Next
    PROVE  Transition(wf, wf', RejectBound)
<1>1. wf.reviewQueue \subseteq Tasks
  BY DEF Workflow
<1>2. CASE \E S \in SUBSET Tasks : Overflow(S)
  BY <1>2 DEF Overflow, Transition
<1>3. CASE \E t \in Tasks, runner \in {"acp", "manual"} : Dispatch(t, runner)
  BY <1>3 DEF Dispatch, Transition
<1>4. CASE \E t \in Tasks, s \in RunStatus : ReportRun(t, s)
  BY <1>4 DEF ReportRun, Transition
<1>5. CASE \E t \in Tasks : Rearm(t) \/ Bury(t)
  BY <1>5 DEF Rearm, Bury, Transition
<1>6. CASE \E t \in Tasks, decision \in ReviewDecision : Decide(t, decision)
  BY <1>6 DEF Decide, Transition
<1> QED
  BY <1>2, <1>3, <1>4, <1>5, <1>6 DEF Next

\* The initial workflow satisfies the inductive invariant.
LEMMA InitHolds ==
    ASSUME Init
    PROVE  IInv
BY InitialOrderly, InvIsOrderly DEF Init

\* Every step keeps it, and keeps finished tasks finished.
LEMMA NextHolds ==
    ASSUME IInv, Next
    PROVE  IInv' /\ DoneKept(wf.status, wf'.status)
<1>1. Orderly(wf)
  BY InvIsOrderly
<1>2. Transition(wf, wf', RejectBound)
  BY <1>1, NextIsTransition DEF Orderly
<1>3. Orderly(wf') /\ DoneKept(wf.status, wf'.status)
  BY <1>1, <1>2, TransitionOrderly
<1>4. IInv'
  BY <1>3 DEF IInv, TypeOK, Coherent, DependenciesHonoured, ReviewIsOfUnfinished, Orderly,
              Honoured, Unfinished, WorkflowCoherent, ReviewNeverForgotten,
              CompletedIsSettled, ReviewingHasWork, NobodyLeftPlanned, DependenciesDone
<1> QED
  BY <1>3, <1>4

\* Standing still keeps it too.
LEMMA StutterHolds ==
    ASSUME IInv, UNCHANGED wf
    PROVE  IInv'
BY DEF IInv, TypeOK, Coherent, DependenciesHonoured, ReviewIsOfUnfinished, WorkflowCoherent,
       ReviewNeverForgotten, CompletedIsSettled, ReviewingHasWork, NobodyLeftPlanned,
       DependenciesDone

\* The inductive invariant holds of every behaviour.
LEMMA Invariance == Spec => []IInv
<1>1. IInv /\ [Next]_wf => IInv'
  BY NextHolds, StutterHolds
<1> QED
  BY InitHolds, <1>1, PTL DEF Spec

----------------------------------------------------------------------------
\* The file always has the shape that its schema demands.
THEOREM WorkflowTyped == Spec => []TypeOK
<1>1. IInv => TypeOK
  BY DEF IInv
<1> QED
  BY Invariance, <1>1, PTL

\* The file never misleads its readers.
THEOREM WorkflowCoherence == Spec => []Coherent
<1>1. IInv => Coherent
  BY DEF IInv
<1> QED
  BY Invariance, <1>1, PTL

\* Work is only ever begun, and kept, on grounds that are done.
THEOREM DependenciesAlwaysHonoured == Spec => []DependenciesHonoured
<1>1. IInv => DependenciesHonoured
  BY DEF IInv
<1> QED
  BY Invariance, <1>1, PTL

\* Nobody is ever asked to decide on a task that is done or not yet begun.
THEOREM ReviewsAreOfUnfinished == Spec => []ReviewIsOfUnfinished
<1>1. IInv => ReviewIsOfUnfinished
  BY DEF IInv
<1> QED
  BY Invariance, <1>1, PTL

\* A task that is done stays done, under every operation.
THEOREM DoneStaysDone == Spec => DoneIsFinal
<1>1. IInv /\ [Next]_wf =>
        [\A t \in Tasks : wf.status[t] = "done" => wf'.status[t] = "done"]_wf
  BY NextHolds DEF DoneKept
<1> QED
  BY Invariance, <1>1, PTL DEF Spec, DoneIsFinal

----------------------------------------------------------------------------
\* Induction, as the choice of a least counterexample.

LEMMA LeastNumber ==
    ASSUME NEW T, T \subseteq Nat, T # {}
    PROVE  \E n \in T : \A m \in T : n <= m
<1> DEFINE R == {ss \in Nat \X Nat : ss[1] < ss[2]}
<1>1. IsWellFoundedOn(R, Nat)
  BY NatLessThanWellFounded, Zenon DEF OpToRel
<1>2. \A m, n \in Nat : m < n => <<m, n>> \in R
  BY SMT
<1> HIDE DEF R
<1>3. PICK n \in T : \A m \in T : ~ (<<m, n>> \in R)
  BY <1>1, WFMin, Zenon
<1>4. ASSUME NEW m \in T PROVE n <= m
  <2>1. m \in Nat /\ n \in Nat
    BY Zenon
  <2>2. ~(m < n)
    BY <1>2, <1>3, <2>1, Zenon
  <2> QED
    BY <2>1, <2>2
<1> QED
  BY <1>4, Zenon

----------------------------------------------------------------------------
\* The sequences that plans are made of.

Id == [phase : Slugs, index : Nat, evaluates : BOOLEAN]

Task == [id : Id, deps : SUBSET Id]

Distinct(tasks) == \A k, l \in 1..Len(tasks) : tasks[k].id = tasks[l].id => k = l

Entries(tasks) == {tasks[k] : k \in 1..Len(tasks)}

LEMMA IdsOfSeq ==
    ASSUME NEW tasks \in Seq(Task)
    PROVE  /\ Ids(tasks) = {tasks[k].id : k \in 1..Len(tasks)}
           /\ Ids(tasks) = {e.id : e \in Entries(tasks)}
           /\ Ids(tasks) \subseteq Id
           /\ DOMAIN tasks = 1..Len(tasks) /\ Len(tasks) \in Nat
           /\ \A k \in 1..Len(tasks) : tasks[k] \in Task /\ tasks[k].id \in Id /\ tasks[k].deps \subseteq Id
<1>1. DOMAIN tasks = 1..Len(tasks) /\ Len(tasks) \in Nat /\ \A k \in 1..Len(tasks) : tasks[k] \in Task
  BY SMT
<1>2. \A e \in Task : e.id \in Id /\ e.deps \subseteq Id
  BY SMT DEF Task
<1>3. Ids(tasks) = {tasks[k].id : k \in 1..Len(tasks)}
  BY <1>1, Zenon DEF Ids
<1>4. Ids(tasks) = {e.id : e \in Entries(tasks)}
  BY <1>3, SMT DEF Entries
<1>5. Ids(tasks) \subseteq Id
  BY <1>1, <1>2, <1>3, Zenon
<1> QED
  BY <1>1, <1>2, <1>3, <1>4, <1>5, Zenon

LEMMA Concatenated ==
    ASSUME NEW s \in Seq(Task), NEW t \in Seq(Task)
    PROVE  /\ s \o t \in Seq(Task)
           /\ Entries(s \o t) = Entries(s) \union Entries(t)
           /\ Distinct(s \o t) <=>
                 Distinct(s) /\ Distinct(t) /\ Ids(s) \intersect Ids(t) = {}
<1> DEFINE st == s \o t
<1>1. /\ st \in Seq(Task) /\ Len(st) = Len(s) + Len(t)
      /\ Len(s) \in Nat /\ Len(t) \in Nat
      /\ \A k \in 1..Len(st) : st[k] = IF k <= Len(s) THEN s[k] ELSE t[k - Len(s)]
  BY ConcatProperties
<1>2. /\ \A k \in 1..Len(s) : k \in 1..Len(st) /\ st[k] = s[k]
      /\ \A k \in 1..Len(t) : Len(s) + k \in 1..Len(st) /\ st[Len(s) + k] = t[k]
  BY <1>1
<1>3. \A k \in 1..Len(st) : \/ k \in 1..Len(s) /\ st[k] = s[k]
                            \/ k - Len(s) \in 1..Len(t) /\ st[k] = t[k - Len(s)]
  BY <1>1
<1> HIDE DEF st
<1>4. Entries(st) = Entries(s) \union Entries(t)
  BY <1>2, <1>3 DEF Entries
<1>5. ASSUME Distinct(st) PROVE Distinct(s) /\ Distinct(t) /\ Ids(s) \intersect Ids(t) = {}
  <2>1. Distinct(s)
    BY <1>2, <1>5 DEF Distinct
  <2>2. ASSUME NEW k \in 1..Len(t), NEW l \in 1..Len(t), t[k].id = t[l].id PROVE k = l
    <3>1. Len(s) + k = Len(s) + l
      BY <1>2, <1>5, <2>2, Zenon DEF Distinct
    <3> QED
      BY <3>1, <1>1
  <2>3. ASSUME NEW k \in 1..Len(s), NEW l \in 1..Len(t), s[k].id = t[l].id PROVE FALSE
    <3>1. k = Len(s) + l
      BY <1>2, <1>5, <2>3 DEF Distinct
    <3> QED
      BY <3>1, <1>1
  <2>4. ASSUME NEW x \in Ids(s), x \in Ids(t) PROVE FALSE
    <3>1. /\ \E k \in 1..Len(s) : x = s[k].id
          /\ \E l \in 1..Len(t) : x = t[l].id
      <4>1. /\ Ids(s) = {s[k].id : k \in 1..Len(s)}
            /\ Ids(t) = {t[k].id : k \in 1..Len(t)}
        BY IdsOfSeq, Zenon
      <4> QED
        BY <2>4, <4>1, SMT
    <3> QED
      BY <2>3, <3>1, Zenon
  <2> QED
    BY <2>1, <2>2, <2>4 DEF Distinct
<1>6. ASSUME Distinct(s), Distinct(t), Ids(s) \intersect Ids(t) = {} PROVE Distinct(st)
  <2>1. \A k \in 1..Len(s), l \in 1..Len(t) : s[k].id # t[l].id
    <3>1. /\ \A k \in 1..Len(s) : s[k].id \in Ids(s)
          /\ \A l \in 1..Len(t) : t[l].id \in Ids(t)
      BY IdsOfSeq, Zenon
    <3> QED
      BY <3>1, <1>6, Zenon
  <2>2. SUFFICES ASSUME NEW k \in 1..Len(st), NEW l \in 1..Len(st), st[k].id = st[l].id
                 PROVE  k = l
    BY DEF Distinct
  <2>3. CASE k \in 1..Len(s) /\ l \in 1..Len(s)
    BY <1>2, <1>6, <2>2, <2>3 DEF Distinct
  <2>4. CASE k - Len(s) \in 1..Len(t) /\ l - Len(s) \in 1..Len(t)
             /\ st[k] = t[k - Len(s)] /\ st[l] = t[l - Len(s)]
    <3>1. k - Len(s) = l - Len(s)
      BY <1>6, <2>2, <2>4, Zenon DEF Distinct
    <3> QED
      BY <3>1, <1>1
  <2>5. CASE k \in 1..Len(s) /\ st[k] = s[k] /\ l - Len(s) \in 1..Len(t) /\ st[l] = t[l - Len(s)]
    BY <2>1, <2>2, <2>5, Zenon
  <2>6. CASE l \in 1..Len(s) /\ st[l] = s[l] /\ k - Len(s) \in 1..Len(t) /\ st[k] = t[k - Len(s)]
    BY <2>1, <2>2, <2>6, Zenon
  <2> QED
    BY <1>3, <2>3, <2>4, <2>5, <2>6, Zenon
<1> QED
  BY <1>1, <1>4, <1>5, <1>6, Zenon DEF st

----------------------------------------------------------------------------
\* A plan is put together of the plans of its phases.

FirstOf(seqs, n, f) ==
    f = [i \in 1..n |-> IF i = 1 THEN seqs[i] ELSE f[i - 1] \o seqs[i]]

\* The recursion of FlattenSeq has a solution.
LEMMA FlattenSolves ==
    ASSUME NEW seqs, NEW n \in Nat
    PROVE  \E f : FirstOf(seqs, n, f)
<1> DEFINE Unsolved == {m \in Nat : ~ \E f : FirstOf(seqs, m, f)}
<1>1. SUFFICES ASSUME Unsolved # {} PROVE FALSE
  BY Zenon
<1>2. PICK m \in Unsolved : \A l \in Unsolved : m <= l
  <2>1. Unsolved \subseteq Nat
    BY Zenon
  <2> HIDE DEF Unsolved
  <2> QED
    BY <1>1, <2>1, LeastNumber, Zenon
<1>3. m # 0
  <2>1. SUFFICES ASSUME m = 0 PROVE FALSE
    BY Zenon
  <2>2. 1..0 = {}
    BY SMT
  <2>3. FirstOf(seqs, 0, [i \in 1..0 |-> i])
    BY <2>2 DEF FirstOf
  <2> QED
    BY <2>1, <2>3, Zenon
<1>4. m \in Nat /\ m - 1 \in Nat /\ ~ (m <= m - 1)
  BY <1>3, SMT
<1>5. PICK g : FirstOf(seqs, m - 1, g)
  BY <1>2, <1>4, Zenon
<1> DEFINE f == [i \in 1..m |->
                   IF i = m THEN IF i = 1 THEN seqs[i] ELSE g[i - 1] \o seqs[i] ELSE g[i]]
<1>6. ASSUME NEW i \in 1..m
      PROVE  f[i] = IF i = 1 THEN seqs[i] ELSE f[i - 1] \o seqs[i]
  <2>1. CASE i = 1
    <3>1. i # m => i \in 1..(m - 1)
      BY <2>1, <1>4
    <3> QED
      BY <2>1, <3>1, <1>5 DEF FirstOf
  <2>2. CASE i # 1
    <3>1. i - 1 \in 1..(m - 1) /\ i - 1 \in 1..m /\ i - 1 # m /\ (i # m => i \in 1..(m - 1))
      BY <2>2, <1>4
    <3>2. f[i - 1] = g[i - 1]
      BY <3>1, Zenon
    <3> QED
      BY <2>2, <3>1, <3>2, <1>5 DEF FirstOf
  <2> QED
    BY <2>1, <2>2, Zenon
<1>7. FirstOf(seqs, m, f)
  <2> DEFINE h == [i \in 1..m |-> IF i = 1 THEN seqs[i] ELSE f[i - 1] \o seqs[i]]
  <2>1. f = h
    <3>1. f = [i \in 1..m |-> f[i]]
      BY SMT
    <3>2. \A i \in 1..m : h[i] = f[i]
      BY <1>6, Zenon
    <3>3. h = [i \in 1..m |-> h[i]]
      BY SMT
    <3> HIDE DEF f, h
    <3> QED
      BY <3>1, <3>2, <3>3, SMT
  <2> QED
    BY <2>1, Zenon DEF FirstOf
<1> QED
  BY <1>2, <1>7, Zenon

LEMMA FlattenIs ==
    ASSUME NEW seqs, Len(seqs) \in Nat, Len(seqs) # 0
    PROVE  \E f : FirstOf(seqs, Len(seqs), f) /\ FlattenSeq(seqs) = f[Len(seqs)]
<1> DEFINE f == CHOOSE f : f = [i \in 1..Len(seqs) |->
                                  IF i = 1 THEN seqs[i] ELSE f[i - 1] \o seqs[i]]
<1>1. FlattenSeq(seqs) = f[Len(seqs)]
  BY Zenon DEF FlattenSeq
<1>2. f = [i \in 1..Len(seqs) |-> IF i = 1 THEN seqs[i] ELSE f[i - 1] \o seqs[i]]
  BY FlattenSolves, Zenon DEF FirstOf
<1> QED
  BY <1>1, <1>2, Zenon DEF FirstOf

LEMMA UpTo ==
    ASSUME NEW a \in Nat, NEW b \in Nat, NEW Good,
           a \in Good, \A n \in a..b : n \in Good /\ n + 1 \in a..b => n + 1 \in Good
    PROVE  a..b \subseteq Good
<1> DEFINE Bad == {n \in a..b : n \notin Good}
<1>1. SUFFICES ASSUME Bad # {} PROVE FALSE
  BY Zenon
<1>2. Bad \subseteq Nat
  BY SMT
<1>3. PICK n \in Bad : \A m \in Bad : n <= m
  <2> HIDE DEF Bad
  <2> QED
    BY <1>1, <1>2, LeastNumber, Zenon
<1>4. n - 1 \in a..b /\ n = (n - 1) + 1 /\ ~ (n <= n - 1)
  BY <1>3, SMT
<1>5. n - 1 \in Good
  BY <1>3, <1>4, Zenon
<1> QED
  BY <1>3, <1>4, <1>5, Zenon

LEMMA DownTo ==
    ASSUME NEW a \in Nat, NEW b \in Nat, NEW Good,
           b \in Good, \A n \in a..b : n \in Good /\ n - 1 \in a..b => n - 1 \in Good
    PROVE  a..b \subseteq Good
<1> DEFINE Turned == {n \in 0..(b - a) : b - n \in Good}
<1>1. SUFFICES ASSUME NEW k \in a..b PROVE k \in Good
  BY Zenon
<1>2. b - a \in Nat /\ a..b # {} /\ b - k \in 0..(b - a) /\ b - (b - k) = k /\ b - 0 = b
      /\ 0 \in 0..(b - a) /\ 0 \in Nat
  BY SMT
<1>3. 0 \in Turned
  BY <1>2, Zenon
<1>4. ASSUME NEW n \in 0..(b - a), n \in Turned, n + 1 \in 0..(b - a) PROVE n + 1 \in Turned
  <2>1. b - n \in a..b /\ (b - n) - 1 \in a..b /\ (b - n) - 1 = b - (n + 1)
    BY <1>4, SMT
  <2>2. b - n \in Good
    BY <1>4, Zenon
  <2>3. b - (n + 1) \in Good
    BY <2>1, <2>2, Zenon
  <2> QED
    BY <1>4, <2>3, Zenon
<1> HIDE DEF Turned
<1>5. 0..(b - a) \subseteq Turned
  <2>1. PICK c \in Nat : c = b - a
    BY <1>2, Zenon
  <2>2. \A n \in 0..c : n \in Turned /\ n + 1 \in 0..c => n + 1 \in Turned
    BY <1>4, <2>1, Zenon
  <2>3. 0..c \subseteq Turned
    BY <1>2, <1>3, <2>2, UpTo, Zenon
  <2> QED
    BY <2>1, <2>3, Zenon
<1> QED
  BY <1>2, <1>5, Zenon DEF Turned

\* The first n sequences have no id in common, with each other or within.
Apart(seqs, n) ==
    /\ \A i \in 1..n : Distinct(seqs[i])
    /\ \A i, j \in 1..n : i # j => Ids(seqs[i]) \intersect Ids(seqs[j]) = {}

\* The sequence s is made of the first n.
MadeOf(seqs, n, s) ==
    /\ s \in Seq(Task)
    /\ \A e : e \in Entries(s) <=> \E i \in 1..n : e \in Entries(seqs[i])
    /\ Distinct(s) <=> Apart(seqs, n)

LEMMA OneMore ==
    ASSUME NEW seqs \in Seq(Seq(Task)), NEW n \in 1..Len(seqs), n + 1 \in 1..Len(seqs), NEW s,
           MadeOf(seqs, n, s)
    PROVE  MadeOf(seqs, n + 1, s \o seqs[n + 1])
<1>1. /\ \A i \in 1..(n + 1) : i \in 1..n \/ i = n + 1
      /\ \A i \in 1..n : i \in 1..(n + 1) /\ i # n + 1 /\ i \in 1..Len(seqs)
      /\ n + 1 \in 1..(n + 1)
  BY SMT
<1>2. /\ \A i \in 1..Len(seqs) : seqs[i] \in Seq(Task)
      /\ s \in Seq(Task)
  BY DEF MadeOf
<1> DEFINE t == seqs[n + 1]
<1>3. /\ s \o t \in Seq(Task)
      /\ Entries(s \o t) = Entries(s) \union Entries(t)
      /\ Distinct(s \o t) <=> Distinct(s) /\ Distinct(t) /\ Ids(s) \intersect Ids(t) = {}
  BY <1>2, Concatenated, Zenon
<1>4. ASSUME NEW e
      PROVE  e \in Entries(s \o t) <=> \E i \in 1..(n + 1) : e \in Entries(seqs[i])
  BY <1>1, <1>3, Zenon DEF MadeOf
<1>5. Ids(s) \intersect Ids(t) = {} <=> \A i \in 1..n : Ids(seqs[i]) \intersect Ids(t) = {}
  <2>1. /\ Ids(s) = {e.id : e \in Entries(s)}
        /\ \A i \in 1..n : Ids(seqs[i]) = {e.id : e \in Entries(seqs[i])}
    BY <1>1, <1>2, IdsOfSeq, Zenon
  <2>2. ASSUME NEW x PROVE x \in Ids(s) <=> \E i \in 1..n : x \in Ids(seqs[i])
    <3>1. x \in Ids(s) <=> \E e \in Entries(s) : x = e.id
      BY <2>1, SMT
    <3>2. ASSUME NEW i \in 1..n
          PROVE  x \in Ids(seqs[i]) <=> \E e \in Entries(seqs[i]) : x = e.id
      <4>1. Ids(seqs[i]) = {e.id : e \in Entries(seqs[i])}
        BY <2>1, Zenon
      <4> QED
        BY <4>1, SMT
    <3> QED
      BY <3>1, <3>2, Zenon DEF MadeOf
  <2> QED
    BY <2>2
<1> HIDE DEF t
<1>6. Apart(seqs, n + 1) <=>
        Apart(seqs, n) /\ Distinct(t) /\ \A i \in 1..n : Ids(seqs[i]) \intersect Ids(t) = {}
  <2>1. ASSUME Apart(seqs, n + 1)
        PROVE  Apart(seqs, n) /\ Distinct(t) /\ \A i \in 1..n : Ids(seqs[i]) \intersect Ids(t) = {}
    BY <1>1, <2>1, Zenon DEF Apart, t
  <2>2. ASSUME Apart(seqs, n), Distinct(t), \A i \in 1..n : Ids(seqs[i]) \intersect Ids(t) = {}
        PROVE  Apart(seqs, n + 1)
    <3>1. \A i \in 1..n : Ids(t) \intersect Ids(seqs[i]) = {}
      BY <2>2
    <3> QED
      BY <1>1, <2>2, <3>1, Zenon DEF Apart, t
  <2> QED
    BY <2>1, <2>2, Zenon
<1> QED
  BY <1>3, <1>4, <1>5, <1>6, Zenon DEF MadeOf, t

LEMMA Flattened ==
    ASSUME NEW seqs \in Seq(Seq(Task))
    PROVE  MadeOf(seqs, Len(seqs), FlattenSeq(seqs))
<1>1. Len(seqs) \in Nat /\ \A i \in 1..Len(seqs) : seqs[i] \in Seq(Task)
  BY SMT
<1>2. CASE Len(seqs) = 0
  <2>1. FlattenSeq(seqs) = seqs
    BY <1>2, Zenon DEF FlattenSeq
  <2>2. 1..Len(seqs) = {}
    BY <1>2, SMT
  <2>3. seqs \in Seq(Task)
    BY <1>2, SMT
  <2>4. Entries(seqs) = {}
    BY <2>2, SMT DEF Entries
  <2> QED
    BY <2>1, <2>2, <2>3, <2>4, SMT DEF MadeOf, Distinct, Apart
<1>3. CASE Len(seqs) # 0
  <2>1. PICK f : FirstOf(seqs, Len(seqs), f) /\ FlattenSeq(seqs) = f[Len(seqs)]
    BY <1>1, <1>3, FlattenIs, Zenon
  <2>2. 1 \in 1..Len(seqs) /\ Len(seqs) \in 1..Len(seqs) /\ 1 \in Nat
        /\ \A n \in 1..Len(seqs) : n + 1 # 1 /\ (n + 1) - 1 = n
    BY <1>1, <1>3, SMT
  <2>3. \A n \in 1..Len(seqs) : f[n] = IF n = 1 THEN seqs[n] ELSE f[n - 1] \o seqs[n]
    BY <2>1, Zenon DEF FirstOf
  <2> DEFINE Good == {n \in 1..Len(seqs) : MadeOf(seqs, n, f[n])}
  <2>4. 1 \in Good
    <3>1. f[1] = seqs[1]
      BY <2>2, <2>3, Zenon
    <3>2. \A i \in 1..1 : i = 1
      BY SMT
    <3>3. 1 \in 1..1
      BY SMT
    <3>4. MadeOf(seqs, 1, seqs[1])
      BY <1>1, <2>2, <3>2, <3>3, Zenon DEF MadeOf, Apart
    <3> QED
      BY <2>2, <3>1, <3>4, Zenon
  <2>5. ASSUME NEW n \in 1..Len(seqs), n \in Good, n + 1 \in 1..Len(seqs) PROVE n + 1 \in Good
    <3>1. f[n + 1] = f[n] \o seqs[n + 1]
      BY <2>2, <2>3, <2>5, Zenon
    <3>2. MadeOf(seqs, n + 1, f[n] \o seqs[n + 1])
      BY <2>5, OneMore, Zenon
    <3> QED
      BY <2>5, <3>1, <3>2, Zenon
  <2> HIDE DEF Good
  <2>6. 1..Len(seqs) \subseteq Good
    BY <1>1, <2>2, <2>4, <2>5, UpTo, Zenon
  <2> QED
    BY <2>1, <2>2, <2>6, Zenon DEF Good
<1> QED
  BY <1>2, <1>3, Zenon

----------------------------------------------------------------------------
\* What validateTaskGraph finds out.

LEMMA DistinctByNumber ==
    ASSUME NEW tasks \in Seq(Task)
    PROVE  /\ IsFiniteSet(Ids(tasks)) /\ Cardinality(Ids(tasks)) \in Nat
           /\ Cardinality(Ids(tasks)) <= Len(tasks)
           /\ Cardinality(Ids(tasks)) = Len(tasks) <=> Distinct(tasks)
<1> DEFINE f == [k \in 1..Len(tasks) |-> tasks[k].id]
<1>1. Len(tasks) \in Nat /\ Ids(tasks) = {tasks[k].id : k \in 1..Len(tasks)}
  BY IdsOfSeq, Zenon
<1>2. IsFiniteSet(1..Len(tasks)) /\ Cardinality(1..Len(tasks)) = Len(tasks)
  <2>1. PICK n \in Nat : n = Len(tasks)
    BY <1>1, Zenon
  <2>2. 1 \in Int /\ n \in Int /\ (1 > n => n = 0) /\ n - 1 + 1 = n
    BY SMT
  <2>3. IsFiniteSet(1..n) /\ Cardinality(1..n) = IF 1 > n THEN 0 ELSE n - 1 + 1
    BY <2>2, FS_Interval, Zenon
  <2> QED
    BY <2>1, <2>2, <2>3, Zenon
<1>3. f \in Surjection(1..Len(tasks), Ids(tasks))
  BY <1>1, SMT DEF Surjection
<1>4. f \in Injection(1..Len(tasks), Ids(tasks)) <=> Distinct(tasks)
  <2>1. f \in [1..Len(tasks) -> Ids(tasks)]
    BY <1>1, SMT
  <2>2. IsInjective(f) <=> Distinct(tasks)
    BY Zenon DEF IsInjective, Distinct
  <2> QED
    BY <2>1, <2>2, Zenon DEF Injection
<1> HIDE DEF f
<1>5. /\ IsFiniteSet(Ids(tasks))
      /\ Cardinality(Ids(tasks)) <= Cardinality(1..Len(tasks))
      /\ Cardinality(Ids(tasks)) = Cardinality(1..Len(tasks))
           <=> f \in Injection(1..Len(tasks), Ids(tasks))
  BY <1>2, <1>3, FS_Surjection, Zenon
<1> QED
  BY <1>2, <1>4, <1>5, FS_CardinalityType, Zenon

LEMMA DepsOfTask ==
    ASSUME NEW tasks \in Seq(Task), Distinct(tasks)
    PROVE  /\ \A k \in 1..Len(tasks) : DepsOf(tasks, tasks[k].id) = tasks[k].deps
           /\ \A x : x \notin Ids(tasks) => DepsOf(tasks, x) = {}
<1>1. DOMAIN tasks = 1..Len(tasks) /\ Len(tasks) \in Nat
      /\ Ids(tasks) = {tasks[k].id : k \in 1..Len(tasks)}
  BY IdsOfSeq, Zenon
<1>2. ASSUME NEW k \in 1..Len(tasks) PROVE DepsOf(tasks, tasks[k].id) = tasks[k].deps
  <2> DEFINE last(j) == /\ tasks[j].id = tasks[k].id
                        /\ \A l \in DOMAIN tasks : tasks[l].id = tasks[k].id => l <= j
             j == CHOOSE j \in DOMAIN tasks : last(j)
  <2>1. \A l \in 1..Len(tasks) : tasks[l].id = tasks[k].id => l = k
    BY Zenon DEF Distinct
  <2>2. k <= k
    BY SMT
  <2>3. last(k) /\ k \in DOMAIN tasks
    BY <1>1, <2>1, <2>2, Zenon
  <2>4. j \in DOMAIN tasks /\ last(j)
    BY <2>3, Zenon
  <2>5. j = k
    BY <1>1, <2>1, <2>4, Zenon
  <2>6. tasks[k].id \in Ids(tasks)
    BY <1>1, Zenon
  <2> QED
    BY <2>5, <2>6, Zenon DEF DepsOf
<1>3. ASSUME NEW x, x \notin Ids(tasks) PROVE DepsOf(tasks, x) = {}
  BY <1>3, Zenon DEF DepsOf
<1> QED
  BY <1>2, <1>3, Zenon

\* Who is in C waits for nobody outside C.
Closed(tasks, C) == \A d \in C : DepsOf(tasks, d) \subseteq C

Wider(tasks, before) == before \union UNION {DepsOf(tasks, d) : d \in before}

LayersOf(tasks, id, n, r) ==
    r = [m \in 0..n |-> IF m = 0 THEN DepsOf(tasks, id) ELSE Wider(tasks, r[m - 1])]

\* The recursion of Upstream has a solution.
LEMMA LayersSolve ==
    ASSUME NEW tasks, NEW id, NEW n \in Nat
    PROVE  \E r : LayersOf(tasks, id, n, r)
<1> DEFINE Unsolved == {m \in Nat : ~ \E r : LayersOf(tasks, id, m, r)}
<1>1. SUFFICES ASSUME Unsolved # {} PROVE FALSE
  BY Zenon
<1>2. PICK m \in Unsolved : \A l \in Unsolved : m <= l
  <2>1. Unsolved \subseteq Nat
    BY Zenon
  <2> HIDE DEF Unsolved
  <2> QED
    BY <1>1, <2>1, LeastNumber, Zenon
<1>3. m # 0
  <2>1. SUFFICES ASSUME m = 0 PROVE FALSE
    BY Zenon
  <2> DEFINE r == [l \in 0..0 |-> DepsOf(tasks, id)]
  <2>2. \A l \in 0..0 : l = 0
    BY SMT
  <2>3. r = [l \in 0..0 |-> IF l = 0 THEN DepsOf(tasks, id) ELSE Wider(tasks, r[l - 1])]
    BY <2>2
  <2>4. LayersOf(tasks, id, 0, r)
    BY <2>3, Zenon DEF LayersOf
  <2> QED
    BY <2>1, <2>4, Zenon
<1>4. m \in Nat /\ m - 1 \in Nat /\ ~ (m <= m - 1)
  BY <1>3, SMT
<1>5. PICK g : LayersOf(tasks, id, m - 1, g)
  BY <1>2, <1>4, Zenon
<1> DEFINE r == [l \in 0..m |-> IF l = m THEN Wider(tasks, g[m - 1]) ELSE g[l]]
<1>6. ASSUME NEW l \in 0..m
      PROVE  r[l] = IF l = 0 THEN DepsOf(tasks, id) ELSE Wider(tasks, r[l - 1])
  <2>1. CASE l = 0
    <3>1. l # m /\ l \in 0..(m - 1)
      BY <2>1, <1>4, <1>3
    <3> QED
      BY <2>1, <3>1, <1>5 DEF LayersOf
  <2>2. CASE l # 0
    <3>1. l - 1 \in 0..(m - 1) /\ l - 1 \in 0..m /\ l - 1 # m /\ (l # m => l \in 0..(m - 1))
      BY <2>2, <1>4
    <3>2. r[l - 1] = g[l - 1]
      BY <3>1, Zenon
    <3> QED
      BY <2>2, <3>1, <3>2, <1>5 DEF LayersOf
  <2> QED
    BY <2>1, <2>2, Zenon
<1>7. LayersOf(tasks, id, m, r)
  <2> DEFINE h == [l \in 0..m |-> IF l = 0 THEN DepsOf(tasks, id) ELSE Wider(tasks, r[l - 1])]
  <2>1. r = h
    <3>1. r = [l \in 0..m |-> r[l]]
      BY SMT
    <3>2. \A l \in 0..m : h[l] = r[l]
      BY <1>6, Zenon
    <3>3. h = [l \in 0..m |-> h[l]]
      BY SMT
    <3> HIDE DEF r, h
    <3> QED
      BY <3>1, <3>2, <3>3, SMT
  <2> QED
    BY <2>1, Zenon DEF LayersOf
<1> QED
  BY <1>2, <1>7, Zenon

LEMMA UpstreamIs ==
    ASSUME NEW tasks, NEW id, Len(tasks) \in Nat
    PROVE  \E r : LayersOf(tasks, id, Len(tasks), r) /\ Upstream(tasks, id) = r[Len(tasks)]
<1> DEFINE r == CHOOSE r : r = [m \in 0..Len(tasks) |->
                                  IF m = 0 THEN DepsOf(tasks, id)
                                  ELSE r[m - 1] \union UNION {DepsOf(tasks, d) : d \in r[m - 1]}]
<1>1. Upstream(tasks, id) = r[Len(tasks)]
  BY Zenon DEF Upstream
<1>2. r = [m \in 0..Len(tasks) |->
             IF m = 0 THEN DepsOf(tasks, id)
             ELSE r[m - 1] \union UNION {DepsOf(tasks, d) : d \in r[m - 1]}]
  <2>1. \E g : LayersOf(tasks, id, Len(tasks), g)
    BY LayersSolve, Zenon
  <2>2. \E g : g = [m \in 0..Len(tasks) |->
                     IF m = 0 THEN DepsOf(tasks, id)
                     ELSE g[m - 1] \union UNION {DepsOf(tasks, d) : d \in g[m - 1]}]
    BY <2>1, Zenon DEF LayersOf, Wider
  <2> QED
    BY <2>2, Zenon
<1> QED
  BY <1>1, <1>2, Zenon DEF LayersOf, Wider

\* As many rounds as there are tasks are enough: what they find waits for nothing else,
\* and is no more than the least that does.
LEMMA UpstreamIsLeast ==
    ASSUME NEW tasks \in Seq(Task), Distinct(tasks), NEW id,
           \A k \in 1..Len(tasks) : tasks[k].deps \subseteq Ids(tasks)
    PROVE  /\ DepsOf(tasks, id) \subseteq Upstream(tasks, id)
           /\ Upstream(tasks, id) \subseteq Ids(tasks)
           /\ Closed(tasks, Upstream(tasks, id))
           /\ \A C : DepsOf(tasks, id) \subseteq C /\ Closed(tasks, C)
                        => Upstream(tasks, id) \subseteq C
<1> DEFINE N == Len(tasks)
           D == DepsOf(tasks, id)
<1>1. N \in Nat /\ 0 \in 0..N /\ N \in 0..N /\ 0 \in Nat
      /\ \A n \in 0..N : n \in Nat /\ n + 1 # 0 /\ (n + 1) - 1 = n
  BY IdsOfSeq
<1>2. PICK r : LayersOf(tasks, id, N, r) /\ Upstream(tasks, id) = r[N]
  BY <1>1, UpstreamIs, Zenon
<1>3. r[0] = D /\ \A n \in 0..N : n + 1 \in 0..N => r[n + 1] = Wider(tasks, r[n])
  BY <1>1, <1>2, Zenon DEF LayersOf
<1>4. \A x : DepsOf(tasks, x) \subseteq Ids(tasks)
  <2>1. Ids(tasks) = {tasks[k].id : k \in 1..Len(tasks)}
    BY IdsOfSeq, Zenon
  <2>2. \A x : x \in Ids(tasks) => \E k \in 1..Len(tasks) : x = tasks[k].id
    BY <2>1, Zenon
  <2>3. ASSUME NEW x PROVE DepsOf(tasks, x) \subseteq Ids(tasks)
    <3>1. CASE x \in Ids(tasks)
      <4>1. PICK k \in 1..Len(tasks) : x = tasks[k].id
        BY <2>2, <3>1, Zenon
      <4>2. DepsOf(tasks, x) = tasks[k].deps
        BY <4>1, DepsOfTask, Zenon
      <4> QED
        BY <4>2, Zenon
    <3>2. CASE x \notin Ids(tasks)
      <4>1. DepsOf(tasks, x) = {}
        BY <3>2, DepsOfTask, Zenon
      <4> QED
        BY <4>1, Zenon
    <3> QED
      BY <3>1, <3>2, Zenon
  <2> QED
    BY <2>3, Zenon
<1> HIDE DEF N, D
<1>5. D \subseteq r[N]
  <2> DEFINE Good == {n \in 0..N : D \subseteq r[n]}
  <2>1. 0 \in Good
    BY <1>1, <1>3, Zenon
  <2>2. \A n \in 0..N : n \in Good /\ n + 1 \in 0..N => n + 1 \in Good
    BY <1>3 DEF Wider
  <2> HIDE DEF Good
  <2>3. 0..N \subseteq Good
    BY <1>1, <2>1, <2>2, UpTo, Zenon
  <2> QED
    BY <1>1, <2>3, Zenon DEF Good
<1>6. \A n \in 0..N : r[n] \subseteq Ids(tasks)
  <2> DEFINE Good == {n \in 0..N : r[n] \subseteq Ids(tasks)}
  <2>1. 0 \in Good
    BY <1>1, <1>3, <1>4, Zenon DEF D
  <2>2. ASSUME NEW n \in 0..N, n \in Good, n + 1 \in 0..N PROVE n + 1 \in Good
    <3>1. r[n] \subseteq Ids(tasks) /\ r[n + 1] = Wider(tasks, r[n])
      BY <1>3, <2>2, Zenon
    <3>2. r[n + 1] \subseteq Ids(tasks)
      BY <1>4, <3>1 DEF Wider
    <3> QED
      BY <2>2, <3>2, Zenon
  <2> HIDE DEF Good
  <2>3. 0..N \subseteq Good
    BY <1>1, <2>1, <2>2, UpTo, Zenon
  <2> QED
    BY <2>3, Zenon DEF Good
<1>7. ASSUME NEW C, D \subseteq C, Closed(tasks, C) PROVE r[N] \subseteq C
  <2> DEFINE Good == {n \in 0..N : r[n] \subseteq C}
  <2>1. 0 \in Good
    BY <1>1, <1>3, <1>7, Zenon
  <2>2. ASSUME NEW n \in 0..N, n \in Good, n + 1 \in 0..N PROVE n + 1 \in Good
    <3>1. r[n] \subseteq C /\ r[n + 1] = Wider(tasks, r[n])
      BY <1>3, <2>2, Zenon
    <3>2. r[n + 1] \subseteq C
      BY <1>7, <3>1 DEF Wider, Closed
    <3> QED
      BY <2>2, <3>2, Zenon
  <2> HIDE DEF Good
  <2>3. 0..N \subseteq Good
    BY <1>1, <2>1, <2>2, UpTo, Zenon
  <2> QED
    BY <1>1, <2>3, Zenon DEF Good
<1>8. Closed(tasks, r[N])
  <2> DEFINE Good == {n \in 0..N : Closed(tasks, r[n]) \/ Cardinality(r[n]) >= n + 1}
  <2>1. \A n \in 0..N : /\ IsFiniteSet(r[n]) /\ Cardinality(r[n]) \in Nat
                        /\ Cardinality(r[n]) <= N
    <3>1. /\ IsFiniteSet(Ids(tasks)) /\ Cardinality(Ids(tasks)) \in Nat
          /\ Cardinality(Ids(tasks)) <= N
      BY DistinctByNumber, Zenon DEF N
    <3>2. ASSUME NEW n \in 0..N
          PROVE  /\ IsFiniteSet(r[n]) /\ Cardinality(r[n]) <= Cardinality(Ids(tasks))
                 /\ Cardinality(r[n]) \in Nat
      BY <1>6, <3>1, FS_Subset, FS_CardinalityType, Zenon
    <3> QED
      BY <1>1, <3>1, <3>2, SMT
  <2>2. 0 \in Good
    <3>1. CASE r[0] = {}
      BY <1>1, <3>1, Zenon DEF Closed
    <3>2. CASE r[0] # {}
      <4>1. Cardinality(r[0]) # 0
        BY <1>1, <2>1, <3>2, FS_EmptySet, Zenon
      <4>2. Cardinality(r[0]) >= 0 + 1
        BY <1>1, <2>1, <4>1, SMT
      <4> QED
        BY <1>1, <4>2, Zenon
    <3> QED
      BY <3>1, <3>2, Zenon
  <2>3. ASSUME NEW n \in 0..N, n \in Good, n + 1 \in 0..N PROVE n + 1 \in Good
    <3>1. r[n + 1] = Wider(tasks, r[n])
      BY <1>3, <2>3, Zenon
    <3>2. CASE Closed(tasks, r[n])
      <4>1. r[n + 1] = r[n]
        BY <3>1, <3>2 DEF Wider, Closed
      <4> QED
        BY <2>3, <3>2, <4>1, Zenon
    <3>3. CASE ~Closed(tasks, r[n])
      <4>1. r[n] \subseteq r[n + 1] /\ r[n] # r[n + 1]
        BY <3>1, <3>3 DEF Wider, Closed
      <4>2. Cardinality(r[n]) <= Cardinality(r[n + 1]) /\ Cardinality(r[n]) # Cardinality(r[n + 1])
        BY <2>1, <2>3, <4>1, FS_Subset, Zenon
      <4>3. Cardinality(r[n]) >= n + 1
        BY <2>3, <3>3, Zenon
      <4>4. Cardinality(r[n + 1]) >= (n + 1) + 1
        BY <1>1, <2>1, <2>3, <4>2, <4>3, SMT
      <4> QED
        BY <2>3, <4>4, Zenon
    <3> QED
      BY <3>2, <3>3, Zenon
  <2> HIDE DEF Good
  <2>4. 0..N \subseteq Good
    BY <1>1, <2>2, <2>3, UpTo, Zenon
  <2>5. Closed(tasks, r[N]) \/ Cardinality(r[N]) >= N + 1
    BY <1>1, <2>4, Zenon DEF Good
  <2>6. ~ (Cardinality(r[N]) >= N + 1)
    BY <1>1, <2>1, SMT
  <2> QED
    BY <2>5, <2>6, Zenon
<1> QED
  BY <1>1, <1>2, <1>5, <1>6, <1>7, <1>8, Zenon DEF D

----------------------------------------------------------------------------
\* The plan of a spec.

Size(phase) == IF phase.tasks = 0 THEN 1 ELSE phase.tasks

CodingDeps(spec, i, k) ==
    IF spec[i].parallel \/ k = 1
    THEN IF i = 1 THEN {} ELSE PhaseLeafTaskIds(spec[i - 1])
    ELSE {TaskId(spec[i], k - 1)}

CodingTask(spec, i, k) == [id |-> TaskId(spec[i], k), deps |-> CodingDeps(spec, i, k)]

LEMMA OneBelow ==
    ASSUME NEW n \in Nat, NEW k \in 1..n, k # 1
    PROVE  k - 1 \in 1..n
BY SMT

LEMMA Fields ==
    ASSUME NEW spec, NEW i, NEW k
    PROVE  /\ CodingTask(spec, i, k).id = TaskId(spec[i], k)
           /\ CodingTask(spec, i, k).deps = CodingDeps(spec, i, k)
           /\ TaskId(spec[i], k).phase = spec[i].slug
           /\ TaskId(spec[i], k).index = k
           /\ TaskId(spec[i], k).evaluates = FALSE
BY SMT DEF CodingTask, TaskId

LEMMA PhaseHas ==
    ASSUME NEW spec \in Seq(Phase), NEW i \in 1..Len(spec)
    PROVE  /\ spec[i] \in Phase /\ spec[i].slug \in Slugs /\ spec[i].parallel \in BOOLEAN
           /\ Size(spec[i]) \in Nat /\ Size(spec[i]) # 0
           /\ 1 \in 1..Size(spec[i]) /\ Size(spec[i]) \in 1..Size(spec[i])
           /\ PhaseTaskIds(spec[i]) = [k \in 1..Size(spec[i]) |-> TaskId(spec[i], k)]
           /\ DOMAIN PhaseTaskIds(spec[i]) = 1..Size(spec[i])
           /\ Len(PhaseTaskIds(spec[i])) = Size(spec[i])
           /\ \A k \in 1..Size(spec[i]) : /\ PhaseTaskIds(spec[i])[k] = TaskId(spec[i], k)
                                          /\ TaskId(spec[i], k) \in Id
<1>1. spec[i] \in Phase
  BY SMT
<1>2. spec[i].slug \in Slugs /\ spec[i].parallel \in BOOLEAN /\ spec[i].tasks \in Nat
  BY <1>1, SMT DEF Phase
<1>3. Size(spec[i]) \in Nat /\ Size(spec[i]) # 0
  BY <1>2, SMT DEF Size
<1>4. 1 \in 1..Size(spec[i]) /\ Size(spec[i]) \in 1..Size(spec[i])
  BY <1>3, SMT
<1>5. PhaseTaskIds(spec[i]) = [k \in 1..Size(spec[i]) |-> TaskId(spec[i], k)]
  BY Zenon DEF PhaseTaskIds, Size
<1>6. \A k \in 1..Size(spec[i]) : TaskId(spec[i], k) \in Id
  BY <1>2, <1>3, SMT DEF TaskId, Id
<1>7. Len(PhaseTaskIds(spec[i])) = Size(spec[i])
  BY <1>3, <1>5, SMT
<1> QED
  BY <1>1, <1>2, <1>3, <1>4, <1>5, <1>6, <1>7, Zenon

LEMMA LeavesAre ==
    ASSUME NEW spec \in Seq(Phase), NEW i \in 1..Len(spec), NEW x
    PROVE  x \in PhaseLeafTaskIds(spec[i]) <=>
              \E k \in 1..Size(spec[i]) : /\ spec[i].parallel \/ k = Size(spec[i])
                                          /\ x = TaskId(spec[i], k)
<1>1. CASE spec[i].parallel
  <2>1. PhaseLeafTaskIds(spec[i]) = {PhaseTaskIds(spec[i])[k] : k \in 1..Size(spec[i])}
    BY <1>1, PhaseHas, Zenon DEF PhaseLeafTaskIds
  <2>2. x \in PhaseLeafTaskIds(spec[i]) <=>
           \E k \in 1..Size(spec[i]) : x = PhaseTaskIds(spec[i])[k]
    BY <2>1, Zenon
  <2> QED
    BY <1>1, <2>2, PhaseHas, Zenon
<1>2. CASE ~spec[i].parallel
  <2>1. PhaseLeafTaskIds(spec[i]) = {TaskId(spec[i], Size(spec[i]))}
    <3>1. PhaseLeafTaskIds(spec[i]) = {PhaseTaskIds(spec[i])[Len(PhaseTaskIds(spec[i]))]}
      BY <1>2, Zenon DEF PhaseLeafTaskIds
    <3>2. PhaseTaskIds(spec[i])[Len(PhaseTaskIds(spec[i]))] = TaskId(spec[i], Size(spec[i]))
      BY PhaseHas, Zenon
    <3> QED
      BY <3>1, <3>2, Zenon
  <2> QED
    BY <1>2, <2>1, PhaseHas, Zenon
<1> QED
  BY <1>1, <1>2, Zenon

LEMMA CodingDepsAreIds ==
    ASSUME NEW spec \in Seq(Phase), NEW i \in 1..Len(spec), NEW k \in 1..Size(spec[i])
    PROVE  /\ CodingDeps(spec, i, k) \subseteq Id
           /\ CodingTask(spec, i, k) \in Task
<1>1. ASSUME (spec[i].parallel \/ k = 1) /\ i = 1 PROVE CodingDeps(spec, i, k) \subseteq Id
  <2>1. CodingDeps(spec, i, k) = {}
    BY <1>1, Zenon DEF CodingDeps
  <2> QED
    BY <2>1, Zenon
<1>2. ASSUME (spec[i].parallel \/ k = 1) /\ i # 1 PROVE CodingDeps(spec, i, k) \subseteq Id
  <2>1. PICK j \in 1..Len(spec) : j = i - 1
    BY <1>2, SMT
  <2>2. CodingDeps(spec, i, k) = PhaseLeafTaskIds(spec[j])
    BY <1>2, <2>1, Zenon DEF CodingDeps
  <2>3. ASSUME NEW x \in PhaseLeafTaskIds(spec[j]) PROVE x \in Id
    <3>1. PICK l \in 1..Size(spec[j]) : x = TaskId(spec[j], l)
      BY <2>3, LeavesAre
    <3> QED
      BY <2>1, <3>1, PhaseHas, Zenon
  <2> QED
    BY <2>2, <2>3, Zenon
<1>3. ASSUME ~ (spec[i].parallel \/ k = 1) PROVE CodingDeps(spec, i, k) \subseteq Id
  <2>1. k - 1 \in 1..Size(spec[i])
    BY <1>3, PhaseHas, OneBelow, Zenon
  <2>2. CodingDeps(spec, i, k) = {TaskId(spec[i], k - 1)}
    BY <1>3, Zenon DEF CodingDeps
  <2> QED
    BY <2>1, <2>2, PhaseHas, Zenon
<1>4. CodingDeps(spec, i, k) \subseteq Id
  BY <1>1, <1>2, <1>3, Zenon
<1>5. TaskId(spec[i], k) \in Id
  BY PhaseHas, Zenon
<1> QED
  BY <1>4, <1>5, SMT DEF CodingTask, Task

LEMMA PhasePlanned ==
    ASSUME NEW spec \in Seq(Phase), NEW i \in 1..Len(spec)
    PROVE  /\ PhasePlan(spec, i) \in Seq(Task)
           /\ Len(PhasePlan(spec, i)) = Size(spec[i])
           /\ \A k \in 1..Size(spec[i]) : PhasePlan(spec, i)[k] = CodingTask(spec, i, k)
           /\ Distinct(PhasePlan(spec, i))
<1> DEFINE plan == PhasePlan(spec, i)
<1>1. plan = [k \in 1..Size(spec[i]) |-> CodingTask(spec, i, k)]
  <2>1. plan = [k \in 1..Size(spec[i]) |->
                  [id   |-> PhaseTaskIds(spec[i])[k],
                   deps |-> IF spec[i].parallel \/ k = 1
                            THEN IF i = 1 THEN {} ELSE PhaseLeafTaskIds(spec[i - 1])
                            ELSE {PhaseTaskIds(spec[i])[k - 1]}]]
    BY PhaseHas, Zenon DEF PhasePlan
  <2>2. ASSUME NEW k \in 1..Size(spec[i]), ~ (spec[i].parallel \/ k = 1)
        PROVE  PhaseTaskIds(spec[i])[k - 1] = TaskId(spec[i], k - 1)
    <3>1. k - 1 \in 1..Size(spec[i])
      BY <2>2, PhaseHas, OneBelow, Zenon
    <3> QED
      BY <3>1, PhaseHas, Zenon
  <2>3. ASSUME NEW k \in 1..Size(spec[i])
        PROVE  plan[k] = CodingTask(spec, i, k)
    <3>1. PhaseTaskIds(spec[i])[k] = TaskId(spec[i], k)
      BY PhaseHas, Zenon
    <3> QED
      BY <2>1, <2>2, <3>1, Zenon DEF CodingTask, CodingDeps
  <2>4. plan = [k \in 1..Size(spec[i]) |-> plan[k]]
    BY <2>1, SMT
  <2> HIDE DEF plan
  <2> QED
    BY <2>3, <2>4, SMT
<1>2. Size(spec[i]) \in Nat /\ \A k \in 1..Size(spec[i]) : CodingTask(spec, i, k) \in Task
  BY PhaseHas, CodingDepsAreIds, Zenon
<1> HIDE DEF plan
<1>3. plan \in Seq(Task) /\ Len(plan) = Size(spec[i])
      /\ \A k \in 1..Size(spec[i]) : plan[k] = CodingTask(spec, i, k)
  BY <1>1, <1>2, SMT
<1>4. ASSUME NEW k \in 1..Size(spec[i]) PROVE plan[k].id = TaskId(spec[i], k)
  <2>1. plan[k] = CodingTask(spec, i, k)
    BY <1>3, Zenon
  <2>2. CodingTask(spec, i, k).id = TaskId(spec[i], k)
    BY SMT DEF CodingTask
  <2> QED
    BY <2>1, <2>2, Zenon
<1>5. \A k, l \in 1..Size(spec[i]) : TaskId(spec[i], k) = TaskId(spec[i], l) => k = l
  BY SMT DEF TaskId
<1>6. Distinct(plan)
  BY <1>3, <1>4, <1>5, Zenon DEF Distinct
<1> QED
  BY <1>3, <1>6, Zenon DEF plan

LEMMA CodingPlanned ==
    ASSUME NEW spec \in Seq(Phase)
    PROVE  /\ CodingTasks(spec) \in Seq(Task)
           /\ \A e : e \in Entries(CodingTasks(spec)) <=>
                       \E i \in 1..Len(spec) : \E k \in 1..Size(spec[i]) : e = CodingTask(spec, i, k)
           /\ Distinct(CodingTasks(spec)) <=> ~Ambiguous(spec)
<1> DEFINE seqs == [i \in 1..Len(spec) |-> PhasePlan(spec, i)]
<1>1. DOMAIN spec = 1..Len(spec) /\ Len(spec) \in Nat
  BY SMT
<1>2. CodingTasks(spec) = FlattenSeq(seqs)
  BY <1>1, Zenon DEF CodingTasks
<1>3. \A i \in 1..Len(spec) : PhasePlan(spec, i) \in Seq(Task)
  BY PhasePlanned, Zenon
<1>4. seqs \in Seq(Seq(Task)) /\ Len(seqs) = Len(spec)
      /\ \A i \in 1..Len(spec) : seqs[i] = PhasePlan(spec, i)
  BY <1>1, <1>3, SMT
<1> HIDE DEF seqs
<1>5. MadeOf(seqs, Len(spec), CodingTasks(spec))
  BY <1>2, <1>4, Flattened, Zenon
<1>6. ASSUME NEW i \in 1..Len(spec), NEW e
      PROVE  e \in Entries(seqs[i]) <=> \E k \in 1..Size(spec[i]) : e = CodingTask(spec, i, k)
  <2>1. Entries(seqs[i]) = {PhasePlan(spec, i)[k] : k \in 1..Size(spec[i])}
    BY <1>4, PhasePlanned, Zenon DEF Entries
  <2>2. e \in Entries(seqs[i]) <=> \E k \in 1..Size(spec[i]) : e = PhasePlan(spec, i)[k]
    BY <2>1, Zenon
  <2> QED
    BY <2>2, PhasePlanned, Zenon
<1>7. ASSUME NEW i \in 1..Len(spec), NEW x
      PROVE  x \in Ids(seqs[i]) <=> \E k \in 1..Size(spec[i]) : x = TaskId(spec[i], k)
  <2>1. Ids(seqs[i]) = {PhasePlan(spec, i)[k].id : k \in 1..Size(spec[i])}
    BY <1>3, <1>4, PhasePlanned, IdsOfSeq, Zenon
  <2>2. x \in Ids(seqs[i]) <=> \E k \in 1..Size(spec[i]) : x = PhasePlan(spec, i)[k].id
    BY <2>1, Zenon
  <2> QED
    <3>1. ASSUME NEW k \in 1..Size(spec[i]) PROVE PhasePlan(spec, i)[k].id = TaskId(spec[i], k)
      <4>1. PhasePlan(spec, i)[k] = CodingTask(spec, i, k)
        BY PhasePlanned, Zenon
      <4>2. CodingTask(spec, i, k).id = TaskId(spec[i], k)
        BY SMT DEF CodingTask
      <4> QED
        BY <4>1, <4>2, Zenon
    <3> QED
      BY <2>2, <3>1, Zenon
<1>8. ASSUME NEW i \in 1..Len(spec), NEW j \in 1..Len(spec)
      PROVE  Ids(seqs[i]) \intersect Ids(seqs[j]) = {} <=> spec[i].slug # spec[j].slug
  <2>1. ASSUME spec[i].slug = spec[j].slug PROVE Ids(seqs[i]) \intersect Ids(seqs[j]) # {}
    <3>1. TaskId(spec[i], 1) = TaskId(spec[j], 1)
      BY <2>1, Zenon DEF TaskId
    <3>2. TaskId(spec[i], 1) \in Ids(seqs[i]) /\ TaskId(spec[j], 1) \in Ids(seqs[j])
      BY <1>7, PhaseHas, Zenon
    <3> QED
      BY <3>1, <3>2, SMT
  <2>2. ASSUME spec[i].slug # spec[j].slug, NEW x, x \in Ids(seqs[i]), x \in Ids(seqs[j]) PROVE FALSE
    <3>1. x.phase = spec[i].slug /\ x.phase = spec[j].slug
      <4>1. /\ \E k \in 1..Size(spec[i]) : x = TaskId(spec[i], k)
            /\ \E k \in 1..Size(spec[j]) : x = TaskId(spec[j], k)
        BY <1>7, <2>2, Zenon
      <4> QED
        BY <4>1 DEF TaskId
    <3> QED
      BY <2>2, <3>1, Zenon
  <2> QED
    BY <2>1, <2>2, SMT
<1>9. \A i \in 1..Len(spec) : Distinct(seqs[i])
  BY <1>4, PhasePlanned, Zenon
<1>10. Apart(seqs, Len(spec)) <=> ~Ambiguous(spec)
  BY <1>1, <1>8, <1>9, Zenon DEF Apart, Ambiguous
<1>11. ASSUME NEW e
       PROVE  e \in Entries(CodingTasks(spec)) <=>
                \E i \in 1..Len(spec) : \E k \in 1..Size(spec[i]) : e = CodingTask(spec, i, k)
  <2>1. e \in Entries(CodingTasks(spec)) <=> \E i \in 1..Len(spec) : e \in Entries(seqs[i])
    BY <1>5, Zenon DEF MadeOf
  <2> QED
    BY <1>6, <2>1, Zenon
<1>12. CodingTasks(spec) \in Seq(Task) /\ (Distinct(CodingTasks(spec)) <=> ~Ambiguous(spec))
  BY <1>5, <1>10, Zenon DEF MadeOf
<1> QED
  BY <1>11, <1>12, Zenon

----------------------------------------------------------------------------
\* The evaluators that are inserted.

Waiting(e) == [e EXCEPT !.deps = {EvaluatorId(d) : d \in @}]

Evaluator(e) == [id |-> EvaluatorId(e.id), deps |-> {e.id}]

Coded(e) == e.id.evaluates = FALSE

LEMMA EvaluatorIds ==
    ASSUME NEW d \in Id
    PROVE  /\ EvaluatorId(d) \in Id /\ EvaluatorId(d).evaluates = TRUE
           /\ EvaluatorId(d).phase = d.phase /\ EvaluatorId(d).index = d.index
<1>1. /\ d.phase \in Slugs /\ d.index \in Nat
      /\ d = [phase |-> d.phase, index |-> d.index, evaluates |-> d.evaluates]
  BY SMT DEF Id
<1>2. EvaluatorId(d) = [phase |-> d.phase, index |-> d.index, evaluates |-> TRUE]
  <2>1. PICK p, n, b, t : p = d.phase /\ n = d.index /\ b = d.evaluates /\ t = TRUE
    BY Zenon
  <2>2. [[phase |-> p, index |-> n, evaluates |-> b] EXCEPT !.evaluates = t]
          = [phase |-> p, index |-> n, evaluates |-> t]
    BY SMT
  <2>3. d = [phase |-> p, index |-> n, evaluates |-> b]
    BY <1>1, <2>1, Zenon
  <2> QED
    BY <2>1, <2>2, <2>3, Zenon DEF EvaluatorId
<1> QED
  BY <1>1, <1>2, SMT DEF Id

LEMMA EvaluatorTasks ==
    ASSUME NEW e \in Task, Coded(e)
    PROVE  /\ e.id \in Id /\ e.deps \subseteq Id
           /\ Waiting(e) \in Task /\ Waiting(e).id = e.id
           /\ Waiting(e).deps = {EvaluatorId(d) : d \in e.deps}
           /\ Evaluator(e) \in Task /\ Evaluator(e).id = EvaluatorId(e.id)
           /\ Evaluator(e).deps = {e.id}
           /\ e.id # EvaluatorId(e.id)
<1>1. e.id \in Id /\ e.deps \subseteq Id /\ e = [id |-> e.id, deps |-> e.deps]
  BY SMT DEF Task
<1> DEFINE D == {EvaluatorId(d) : d \in e.deps}
<1>2. D \subseteq Id
  BY <1>1, EvaluatorIds, Zenon
<1> HIDE DEF D
<1>3. Waiting(e) = [id |-> e.id, deps |-> D]
  <2>1. PICK a, b : a = e.id /\ b = e.deps
    BY Zenon
  <2>2. [[id |-> a, deps |-> b] EXCEPT !.deps = D] = [id |-> a, deps |-> D]
    BY SMT
  <2>3. e = [id |-> a, deps |-> b]
    BY <1>1, <2>1, Zenon
  <2>4. Waiting(e) = [e EXCEPT !.deps = D]
    BY Zenon DEF Waiting, D
  <2> QED
    BY <2>1, <2>2, <2>3, <2>4, Zenon
<1>4. Waiting(e) \in Task /\ Waiting(e).id = e.id /\ Waiting(e).deps = D
  BY <1>1, <1>2, <1>3, SMT DEF Task
<1>5. EvaluatorId(e.id) \in Id /\ EvaluatorId(e.id).evaluates = TRUE
  BY <1>1, EvaluatorIds, Zenon
<1>6. Evaluator(e) \in Task /\ Evaluator(e).id = EvaluatorId(e.id) /\ Evaluator(e).deps = {e.id}
  BY <1>1, <1>5, SMT DEF Evaluator, Task
<1>7. e.id # EvaluatorId(e.id)
  BY <1>5, SMT DEF Coded
<1> QED
  BY <1>1, <1>4, <1>6, <1>7, Zenon DEF D

LEMMA EvaluatorIdsApart ==
    ASSUME NEW c \in Task, Coded(c), NEW e \in Task, Coded(e)
    PROVE  /\ EvaluatorId(c.id) = EvaluatorId(e.id) <=> c.id = e.id
           /\ c.id # EvaluatorId(e.id)
<1>1. c.id \in Id /\ e.id \in Id
  BY EvaluatorTasks, Zenon
<1>2. EvaluatorId(e.id).evaluates = TRUE
  BY <1>1, EvaluatorIds, Zenon
<1>3. c.id # EvaluatorId(e.id)
  BY <1>2, SMT DEF Coded
<1>4. EvaluatorId(c.id) = EvaluatorId(e.id) => c.id = e.id
  BY <1>1, SMT DEF EvaluatorId, Id, Coded
<1> QED
  BY <1>3, <1>4, Zenon

LEMMA PairOf ==
    ASSUME NEW e \in Task, Coded(e)
    PROVE  LET pair == <<Waiting(e), Evaluator(e)>>
           IN  /\ pair \in Seq(Task) /\ Distinct(pair)
               /\ Entries(pair) = {Waiting(e), Evaluator(e)}
               /\ Ids(pair) = {e.id, EvaluatorId(e.id)}
<1> DEFINE w == Waiting(e)
           v == Evaluator(e)
           pair == <<w, v>>
<1>1. /\ w \in Task /\ v \in Task /\ w.id = e.id /\ v.id = EvaluatorId(e.id)
      /\ e.id # EvaluatorId(e.id)
  BY EvaluatorTasks, Zenon
<1> HIDE DEF w, v
<1>2. pair \in Seq(Task) /\ Len(pair) = 2 /\ pair[1] = w /\ pair[2] = v
  BY <1>1, SMT
<1>3. \A k : k \in 1..2 <=> k = 1 \/ k = 2
  BY SMT
<1> HIDE DEF pair
<1>4. Distinct(pair)
  BY <1>1, <1>2, <1>3 DEF Distinct
<1>5. Entries(pair) = {w, v}
  BY <1>2, <1>3 DEF Entries
<1>6. Ids(pair) = {w.id, v.id}
  <2>1. Ids(pair) = {x.id : x \in Entries(pair)}
    BY <1>2, IdsOfSeq, Zenon
  <2> QED
    BY <1>5, <2>1
<1> QED
  BY <1>1, <1>2, <1>4, <1>5, <1>6, Zenon DEF pair, w, v

LEMMA Injected ==
    ASSUME NEW tasks \in Seq(Task), \A k \in 1..Len(tasks) : Coded(tasks[k])
    PROVE  /\ injectEvaluatorTasks(tasks) \in Seq(Task)
           /\ \A e : e \in Entries(injectEvaluatorTasks(tasks)) <=>
                       \E c \in Entries(tasks) : e = Waiting(c) \/ e = Evaluator(c)
           /\ Distinct(injectEvaluatorTasks(tasks)) <=> Distinct(tasks)
<1> DEFINE seqs == [k \in 1..Len(tasks) |-> <<Waiting(tasks[k]), Evaluator(tasks[k])>>]
<1>1. /\ DOMAIN tasks = 1..Len(tasks) /\ Len(tasks) \in Nat
      /\ \A k \in 1..Len(tasks) : tasks[k] \in Task
  BY SMT
<1>2. injectEvaluatorTasks(tasks) = FlattenSeq(seqs)
  BY <1>1, Zenon DEF injectEvaluatorTasks, Waiting, Evaluator
<1>3. ASSUME NEW k \in 1..Len(tasks)
      PROVE  /\ seqs[k] \in Seq(Task) /\ Distinct(seqs[k])
             /\ Entries(seqs[k]) = {Waiting(tasks[k]), Evaluator(tasks[k])}
             /\ Ids(seqs[k]) = {tasks[k].id, EvaluatorId(tasks[k].id)}
  BY <1>1, PairOf, Zenon
<1>4. seqs \in [1..Len(tasks) -> Seq(Task)]
  <2>1. seqs = [k \in 1..Len(tasks) |-> seqs[k]]
    BY Zenon
  <2> HIDE DEF seqs
  <2> QED
    BY <1>3, <2>1, Zenon
<1> HIDE DEF seqs
<1>5. seqs \in Seq(Seq(Task)) /\ Len(seqs) = Len(tasks)
  BY <1>1, <1>4, SMT
<1>6. MadeOf(seqs, Len(tasks), injectEvaluatorTasks(tasks))
  BY <1>2, <1>5, Flattened, Zenon
<1>7. ASSUME NEW e
      PROVE  e \in Entries(injectEvaluatorTasks(tasks)) <=>
               \E c \in Entries(tasks) : e = Waiting(c) \/ e = Evaluator(c)
  <2>1. e \in Entries(injectEvaluatorTasks(tasks)) <=>
          \E k \in 1..Len(tasks) : e = Waiting(tasks[k]) \/ e = Evaluator(tasks[k])
    <3>1. e \in Entries(injectEvaluatorTasks(tasks)) <=>
            \E k \in 1..Len(tasks) : e \in Entries(seqs[k])
      BY <1>6, Zenon DEF MadeOf
    <3>2. ASSUME NEW k \in 1..Len(tasks)
          PROVE  e \in Entries(seqs[k]) <=> e = Waiting(tasks[k]) \/ e = Evaluator(tasks[k])
      <4>1. Entries(seqs[k]) = {Waiting(tasks[k]), Evaluator(tasks[k])}
        BY <1>3, Zenon
      <4> QED
        BY <4>1, Zenon
    <3> QED
      BY <3>1, <3>2, Zenon
  <2> QED
    BY <2>1, Zenon DEF Entries
<1>8. ASSUME NEW k \in 1..Len(tasks), NEW l \in 1..Len(tasks)
      PROVE  Ids(seqs[k]) \intersect Ids(seqs[l]) = {} <=> tasks[k].id # tasks[l].id
  <2>1. /\ EvaluatorId(tasks[k].id) = EvaluatorId(tasks[l].id) <=> tasks[k].id = tasks[l].id
        /\ tasks[k].id # EvaluatorId(tasks[l].id)
        /\ tasks[l].id # EvaluatorId(tasks[k].id)
    BY <1>1, EvaluatorIdsApart, Zenon
  <2>2. /\ Ids(seqs[k]) = {tasks[k].id, EvaluatorId(tasks[k].id)}
        /\ Ids(seqs[l]) = {tasks[l].id, EvaluatorId(tasks[l].id)}
    BY <1>3, Zenon
  <2> QED
    BY <2>1, <2>2
<1>9. Apart(seqs, Len(tasks)) <=> Distinct(tasks)
  <2>1. \A k \in 1..Len(tasks) : Distinct(seqs[k])
    BY <1>3, Zenon
  <2>2. ASSUME Apart(seqs, Len(tasks)), NEW k \in 1..Len(tasks), NEW l \in 1..Len(tasks),
               tasks[k].id = tasks[l].id
        PROVE  k = l
    BY <1>8, <2>2, Zenon DEF Apart
  <2>3. ASSUME Distinct(tasks) PROVE Apart(seqs, Len(tasks))
    BY <1>8, <2>1, <2>3, Zenon DEF Apart, Distinct
  <2> QED
    BY <2>2, <2>3, Zenon DEF Distinct
<1>10. /\ injectEvaluatorTasks(tasks) \in Seq(Task)
       /\ Distinct(injectEvaluatorTasks(tasks)) <=> Distinct(tasks)
  BY <1>6, <1>9, Zenon DEF MadeOf
<1> QED
  BY <1>7, <1>10, Zenon

----------------------------------------------------------------------------
\* Both kinds of plan, in the same words.

\* The task at position k of phase i, or its evaluator.
At(spec, i, k, b) == [phase |-> spec[i].slug, index |-> k, evaluates |-> b]

\* What the task at position k of phase i depends on.  With evaluators it is them.
DependsOn(spec, evaluators, i, k, x) ==
    \/ /\ (spec[i].parallel \/ k = 1) /\ i # 1
       /\ \E l \in 1..Size(spec[i - 1]) : /\ spec[i - 1].parallel \/ l = Size(spec[i - 1])
                                          /\ x = At(spec, i - 1, l, evaluators)
    \/ ~ (spec[i].parallel \/ k = 1) /\ x = At(spec, i, k - 1, evaluators)

LEMMA AtIs ==
    ASSUME NEW spec \in Seq(Phase), NEW i \in 1..Len(spec), NEW k \in 1..Size(spec[i])
    PROVE  /\ TaskId(spec[i], k) = At(spec, i, k, FALSE)
           /\ EvaluatorId(TaskId(spec[i], k)) = At(spec, i, k, TRUE)
           /\ At(spec, i, k, FALSE) \in Id /\ At(spec, i, k, TRUE) \in Id
<1>1. TaskId(spec[i], k) = At(spec, i, k, FALSE)
  BY Zenon DEF TaskId, At
<1>2. EvaluatorId(TaskId(spec[i], k)) = At(spec, i, k, TRUE)
  <2>1. PICK p, n, b, t : p = spec[i].slug /\ n = k /\ b = FALSE /\ t = TRUE
    BY Zenon
  <2>2. [[phase |-> p, index |-> n, evaluates |-> b] EXCEPT !.evaluates = t]
          = [phase |-> p, index |-> n, evaluates |-> t]
    BY SMT
  <2> QED
    BY <2>1, <2>2, Zenon DEF EvaluatorId, TaskId, At
<1>3. TaskId(spec[i], k) \in Id
  BY PhaseHas, Zenon
<1>4. EvaluatorId(TaskId(spec[i], k)) \in Id
  BY <1>3, EvaluatorIds, Zenon
<1> QED
  BY <1>1, <1>2, <1>3, <1>4, Zenon

LEMMA CodingDependsOn ==
    ASSUME NEW spec \in Seq(Phase), NEW i \in 1..Len(spec), NEW k \in 1..Size(spec[i]), NEW x
    PROVE  /\ x \in CodingDeps(spec, i, k) <=> DependsOn(spec, FALSE, i, k, x)
           /\ (\E d \in CodingDeps(spec, i, k) : x = EvaluatorId(d))
                 <=> DependsOn(spec, TRUE, i, k, x)
<1>1. CASE (spec[i].parallel \/ k = 1) /\ i # 1
  <2>1. PICK j \in 1..Len(spec) : j = i - 1
    BY <1>1, SMT
  <2>2. CodingDeps(spec, i, k) = PhaseLeafTaskIds(spec[j])
    BY <1>1, <2>1, Zenon DEF CodingDeps
  <2>3. ASSUME NEW b \in BOOLEAN
        PROVE  DependsOn(spec, b, i, k, x) <=>
                 \E l \in 1..Size(spec[j]) : /\ spec[j].parallel \/ l = Size(spec[j])
                                             /\ x = At(spec, j, l, b)
    BY <1>1, <2>1, Zenon DEF DependsOn
  <2>4. \A d : d \in CodingDeps(spec, i, k) <=>
                 \E l \in 1..Size(spec[j]) : /\ spec[j].parallel \/ l = Size(spec[j])
                                             /\ d = TaskId(spec[j], l)
    BY <2>2, LeavesAre
  <2>5. \A l \in 1..Size(spec[j]) : /\ TaskId(spec[j], l) = At(spec, j, l, FALSE)
                                    /\ EvaluatorId(TaskId(spec[j], l)) = At(spec, j, l, TRUE)
    BY AtIs, Zenon
  <2>6. x \in CodingDeps(spec, i, k) <=> DependsOn(spec, FALSE, i, k, x)
    BY <2>3, <2>4, <2>5, Zenon
  <2>7. (\E d \in CodingDeps(spec, i, k) : x = EvaluatorId(d)) <=> DependsOn(spec, TRUE, i, k, x)
    <3>1. ASSUME NEW d \in CodingDeps(spec, i, k), x = EvaluatorId(d)
          PROVE  DependsOn(spec, TRUE, i, k, x)
      <4>1. PICK l \in 1..Size(spec[j]) : (spec[j].parallel \/ l = Size(spec[j])) /\ d = TaskId(spec[j], l)
        BY <2>4, Zenon
      <4>2. x = At(spec, j, l, TRUE)
        BY <2>5, <3>1, <4>1, Zenon
      <4> QED
        BY <2>3, <4>1, <4>2, Zenon
    <3>2. ASSUME DependsOn(spec, TRUE, i, k, x)
          PROVE  \E d \in CodingDeps(spec, i, k) : x = EvaluatorId(d)
      <4>1. PICK l \in 1..Size(spec[j]) : (spec[j].parallel \/ l = Size(spec[j])) /\ x = At(spec, j, l, TRUE)
        BY <2>3, <3>2, Zenon
      <4>2. TaskId(spec[j], l) \in CodingDeps(spec, i, k) /\ x = EvaluatorId(TaskId(spec[j], l))
        BY <2>4, <2>5, <4>1, Zenon
      <4> QED
        BY <4>2, Zenon
    <3> QED
      BY <3>1, <3>2, Zenon
  <2> QED
    BY <2>6, <2>7, Zenon
<1>2. CASE (spec[i].parallel \/ k = 1) /\ i = 1
  <2>1. CodingDeps(spec, i, k) = {}
    BY <1>2, Zenon DEF CodingDeps
  <2>2. ~DependsOn(spec, FALSE, i, k, x) /\ ~DependsOn(spec, TRUE, i, k, x)
    BY <1>2, Zenon DEF DependsOn
  <2> QED
    BY <2>1, <2>2, Zenon
<1>3. CASE ~ (spec[i].parallel \/ k = 1)
  <2>1. PICK l \in 1..Size(spec[i]) : l = k - 1
    BY <1>3, PhaseHas, OneBelow, Zenon
  <2>2. CodingDeps(spec, i, k) = {TaskId(spec[i], l)}
    BY <1>3, <2>1, Zenon DEF CodingDeps
  <2>3. \A b \in BOOLEAN : DependsOn(spec, b, i, k, x) <=> x = At(spec, i, l, b)
    BY <1>3, <2>1, Zenon DEF DependsOn
  <2>4. /\ TaskId(spec[i], l) = At(spec, i, l, FALSE)
        /\ EvaluatorId(TaskId(spec[i], l)) = At(spec, i, l, TRUE)
    BY AtIs, Zenon
  <2> QED
    BY <2>2, <2>3, <2>4, Zenon
<1> QED
  BY <1>1, <1>2, <1>3, Zenon

LEMMA EntryDeps ==
    ASSUME NEW tasks \in Seq(Task), Distinct(tasks), NEW e \in Entries(tasks)
    PROVE  DepsOf(tasks, e.id) = e.deps
<1>1. PICK k \in 1..Len(tasks) : e = tasks[k]
  BY Zenon DEF Entries
<1>2. DepsOf(tasks, tasks[k].id) = tasks[k].deps
  BY DepsOfTask, Zenon
<1> QED
  BY <1>1, <1>2, Zenon

\* The ids of the plan, and what each depends on.
Planned(spec, evaluators, plan) ==
    /\ \A x : x \in Ids(plan) <=>
                 \E i \in 1..Len(spec) : \E k \in 1..Size(spec[i]) : \E b \in BOOLEAN :
                    (b => evaluators) /\ x = At(spec, i, k, b)
    /\ \A i \in 1..Len(spec) : \A k \in 1..Size(spec[i]) :
          /\ \A x : x \in DepsOf(plan, At(spec, i, k, FALSE)) <=> DependsOn(spec, evaluators, i, k, x)
          /\ evaluators => DepsOf(plan, At(spec, i, k, TRUE)) = {At(spec, i, k, FALSE)}

LEMMA CodingPlan ==
    ASSUME NEW spec \in Seq(Phase)
    PROVE  /\ PlanTasks(spec, FALSE) \in Seq(Task)
           /\ Distinct(PlanTasks(spec, FALSE)) <=> ~Ambiguous(spec)
           /\ ~Ambiguous(spec) => Planned(spec, FALSE, PlanTasks(spec, FALSE))
<1> DEFINE plan == CodingTasks(spec)
<1>1. PlanTasks(spec, FALSE) = plan
  BY Zenon DEF PlanTasks
<1>2. /\ plan \in Seq(Task)
      /\ \A e : e \in Entries(plan) <=>
                  \E i \in 1..Len(spec) : \E k \in 1..Size(spec[i]) : e = CodingTask(spec, i, k)
      /\ Distinct(plan) <=> ~Ambiguous(spec)
  BY CodingPlanned, Zenon
<1> HIDE DEF plan
<1>3. ASSUME NEW i \in 1..Len(spec), NEW k \in 1..Size(spec[i])
      PROVE  /\ CodingTask(spec, i, k).id = At(spec, i, k, FALSE)
             /\ CodingTask(spec, i, k).deps = CodingDeps(spec, i, k)
  <2>1. /\ CodingTask(spec, i, k).id = TaskId(spec[i], k)
        /\ CodingTask(spec, i, k).deps = CodingDeps(spec, i, k)
    BY SMT DEF CodingTask
  <2> QED
    BY <2>1, AtIs, Zenon
<1>4. ASSUME NEW x
      PROVE  x \in Ids(plan) <=>
               \E i \in 1..Len(spec) : \E k \in 1..Size(spec[i]) : x = At(spec, i, k, FALSE)
  <2>1. Ids(plan) = {e.id : e \in Entries(plan)}
    BY <1>2, IdsOfSeq, Zenon
  <2>2. x \in Ids(plan) <=> \E e \in Entries(plan) : x = e.id
    BY <2>1, SMT
  <2>3. ASSUME NEW e \in Entries(plan), x = e.id
        PROVE  \E i \in 1..Len(spec) : \E k \in 1..Size(spec[i]) : x = At(spec, i, k, FALSE)
    <3>1. PICK i \in 1..Len(spec) : \E k \in 1..Size(spec[i]) : e = CodingTask(spec, i, k)
      BY <1>2, Zenon
    <3>2. PICK k \in 1..Size(spec[i]) : e = CodingTask(spec, i, k)
      BY <3>1, Zenon
    <3>3. x = At(spec, i, k, FALSE)
      BY <1>3, <2>3, <3>2, Zenon
    <3> QED
      BY <3>3, Zenon
  <2>4. ASSUME NEW i \in 1..Len(spec), NEW k \in 1..Size(spec[i]), x = At(spec, i, k, FALSE)
        PROVE  CodingTask(spec, i, k) \in Entries(plan) /\ x = CodingTask(spec, i, k).id
    BY <1>2, <1>3, <2>4, Zenon
  <2> QED
    BY <2>2, <2>3, <2>4, Zenon
<1>5. ASSUME Distinct(plan), NEW i \in 1..Len(spec), NEW k \in 1..Size(spec[i])
      PROVE  DepsOf(plan, At(spec, i, k, FALSE)) = CodingDeps(spec, i, k)
  <2>1. CodingTask(spec, i, k) \in Entries(plan)
    BY <1>2, Zenon
  <2>2. DepsOf(plan, CodingTask(spec, i, k).id) = CodingTask(spec, i, k).deps
    BY <1>2, <1>5, <2>1, EntryDeps, Zenon
  <2> QED
    BY <1>3, <2>2, Zenon
<1>6. ASSUME Distinct(plan) PROVE Planned(spec, FALSE, plan)
  <2>1. ASSUME NEW i \in 1..Len(spec), NEW k \in 1..Size(spec[i]), NEW x
        PROVE  x \in DepsOf(plan, At(spec, i, k, FALSE)) <=> DependsOn(spec, FALSE, i, k, x)
    <3>1. DepsOf(plan, At(spec, i, k, FALSE)) = CodingDeps(spec, i, k)
      BY <1>5, <1>6, Zenon
    <3>2. x \in CodingDeps(spec, i, k) <=> DependsOn(spec, FALSE, i, k, x)
      BY CodingDependsOn, Zenon
    <3> QED
      BY <3>1, <3>2, Zenon
  <2>2. ASSUME NEW x
        PROVE  x \in Ids(plan) <=>
                 \E i \in 1..Len(spec) : \E k \in 1..Size(spec[i]) : \E b \in BOOLEAN :
                    (b => FALSE) /\ x = At(spec, i, k, b)
    BY <1>4, Zenon
  <2> QED
    BY <2>1, <2>2, Zenon DEF Planned
<1> QED
  BY <1>1, <1>2, <1>6, Zenon

LEMMA EvaluatedPlan ==
    ASSUME NEW spec \in Seq(Phase)
    PROVE  /\ PlanTasks(spec, TRUE) \in Seq(Task)
           /\ Distinct(PlanTasks(spec, TRUE)) <=> ~Ambiguous(spec)
           /\ ~Ambiguous(spec) => Planned(spec, TRUE, PlanTasks(spec, TRUE))
<1> DEFINE coding == CodingTasks(spec)
           plan   == injectEvaluatorTasks(coding)
<1>1. PlanTasks(spec, TRUE) = plan
  BY Zenon DEF PlanTasks
<1>2. /\ coding \in Seq(Task)
      /\ \A e : e \in Entries(coding) <=>
                  \E i \in 1..Len(spec) : \E k \in 1..Size(spec[i]) : e = CodingTask(spec, i, k)
      /\ Distinct(coding) <=> ~Ambiguous(spec)
  BY CodingPlanned, Zenon
<1> HIDE DEF coding
<1>3. ASSUME NEW i \in 1..Len(spec), NEW k \in 1..Size(spec[i])
      PROVE  /\ CodingTask(spec, i, k) \in Task /\ Coded(CodingTask(spec, i, k))
             /\ CodingTask(spec, i, k).id = At(spec, i, k, FALSE)
             /\ EvaluatorId(CodingTask(spec, i, k).id) = At(spec, i, k, TRUE)
             /\ CodingTask(spec, i, k).deps = CodingDeps(spec, i, k)
  <2>1. /\ CodingTask(spec, i, k).id = TaskId(spec[i], k)
        /\ CodingTask(spec, i, k).deps = CodingDeps(spec, i, k)
    BY SMT DEF CodingTask
  <2>2. Coded(CodingTask(spec, i, k))
    <3>1. TaskId(spec[i], k).evaluates = FALSE
      BY SMT DEF TaskId
    <3> QED
      BY <2>1, <3>1, Zenon DEF Coded
  <2> QED
    BY <2>1, <2>2, AtIs, CodingDepsAreIds, Zenon
<1>4. \A k \in 1..Len(coding) : Coded(coding[k])
  <2>1. \A k \in 1..Len(coding) : coding[k] \in Entries(coding)
    BY Zenon DEF Entries
  <2>2. ASSUME NEW e \in Entries(coding) PROVE Coded(e)
    <3>1. PICK i \in 1..Len(spec) : \E k \in 1..Size(spec[i]) : e = CodingTask(spec, i, k)
      BY <1>2, Zenon
    <3>2. PICK k \in 1..Size(spec[i]) : e = CodingTask(spec, i, k)
      BY <3>1, Zenon
    <3> QED
      BY <1>3, <3>2, Zenon
  <2> QED
    BY <2>1, <2>2, Zenon
<1>5. /\ plan \in Seq(Task)
      /\ \A e : e \in Entries(plan) <=> \E c \in Entries(coding) : e = Waiting(c) \/ e = Evaluator(c)
      /\ Distinct(plan) <=> Distinct(coding)
  BY <1>2, <1>4, Injected, Zenon
<1> HIDE DEF plan
<1> DEFINE w(i, k) == Waiting(CodingTask(spec, i, k))
           v(i, k) == Evaluator(CodingTask(spec, i, k))
<1>6. ASSUME NEW i \in 1..Len(spec), NEW k \in 1..Size(spec[i])
      PROVE  /\ w(i, k).id = At(spec, i, k, FALSE)
             /\ w(i, k).deps = {EvaluatorId(d) : d \in CodingDeps(spec, i, k)}
             /\ v(i, k).id = At(spec, i, k, TRUE)
             /\ v(i, k).deps = {At(spec, i, k, FALSE)}
  <2> DEFINE c == CodingTask(spec, i, k)
  <2>1. /\ Waiting(c).id = c.id /\ Waiting(c).deps = {EvaluatorId(d) : d \in c.deps}
        /\ Evaluator(c).id = EvaluatorId(c.id) /\ Evaluator(c).deps = {c.id}
    BY <1>3, EvaluatorTasks, Zenon
  <2> QED
    BY <1>3, <2>1, Zenon
<1>7. ASSUME NEW e
      PROVE  e \in Entries(plan) <=>
               \E i \in 1..Len(spec) : \E k \in 1..Size(spec[i]) : e = w(i, k) \/ e = v(i, k)
  <2>1. ASSUME NEW c \in Entries(coding), e = Waiting(c) \/ e = Evaluator(c)
        PROVE  \E i \in 1..Len(spec) : \E k \in 1..Size(spec[i]) : e = w(i, k) \/ e = v(i, k)
    <3>1. PICK i \in 1..Len(spec) : \E k \in 1..Size(spec[i]) : c = CodingTask(spec, i, k)
      BY <1>2, Zenon
    <3>2. PICK k \in 1..Size(spec[i]) : c = CodingTask(spec, i, k)
      BY <3>1, Zenon
    <3>3. e = w(i, k) \/ e = v(i, k)
      BY <2>1, <3>2, Zenon
    <3> QED
      BY <3>3, Zenon
  <2>2. ASSUME NEW i \in 1..Len(spec), NEW k \in 1..Size(spec[i]), e = w(i, k) \/ e = v(i, k)
        PROVE  \E c \in Entries(coding) : e = Waiting(c) \/ e = Evaluator(c)
    <3>1. CodingTask(spec, i, k) \in Entries(coding)
      BY <1>2, Zenon
    <3> QED
      BY <2>2, <3>1, Zenon
  <2> QED
    BY <1>5, <2>1, <2>2, Zenon
<1> HIDE DEF w, v
<1>8. ASSUME NEW x
      PROVE  x \in Ids(plan) <=>
               \E i \in 1..Len(spec) : \E k \in 1..Size(spec[i]) :
                  x = At(spec, i, k, FALSE) \/ x = At(spec, i, k, TRUE)
  <2>1. Ids(plan) = {e.id : e \in Entries(plan)}
    BY <1>5, IdsOfSeq, Zenon
  <2>2. x \in Ids(plan) <=> \E e \in Entries(plan) : x = e.id
    BY <2>1, SMT
  <2>3. x \in Ids(plan) <=>
          \E i \in 1..Len(spec) : \E k \in 1..Size(spec[i]) : x = w(i, k).id \/ x = v(i, k).id
    <3>1. ASSUME NEW e \in Entries(plan), x = e.id
          PROVE  \E i \in 1..Len(spec) : \E k \in 1..Size(spec[i]) : x = w(i, k).id \/ x = v(i, k).id
      <4>1. PICK i \in 1..Len(spec) : \E k \in 1..Size(spec[i]) : e = w(i, k) \/ e = v(i, k)
        BY <1>7, Zenon
      <4>2. PICK k \in 1..Size(spec[i]) : e = w(i, k) \/ e = v(i, k)
        BY <4>1, Zenon
      <4>3. x = w(i, k).id \/ x = v(i, k).id
        BY <3>1, <4>2, Zenon
      <4> QED
        BY <4>3, Zenon
    <3>2. ASSUME NEW i \in 1..Len(spec), NEW k \in 1..Size(spec[i])
          PROVE  w(i, k) \in Entries(plan) /\ v(i, k) \in Entries(plan)
      BY <1>7, Zenon
    <3> QED
      BY <2>2, <3>1, <3>2, Zenon
  <2> QED
    BY <1>6, <2>3, Zenon
<1>9. ASSUME Distinct(plan), NEW i \in 1..Len(spec), NEW k \in 1..Size(spec[i])
      PROVE  /\ DepsOf(plan, At(spec, i, k, FALSE)) = {EvaluatorId(d) : d \in CodingDeps(spec, i, k)}
             /\ DepsOf(plan, At(spec, i, k, TRUE)) = {At(spec, i, k, FALSE)}
  <2>1. w(i, k) \in Entries(plan) /\ v(i, k) \in Entries(plan)
    BY <1>7, Zenon
  <2>2. DepsOf(plan, w(i, k).id) = w(i, k).deps /\ DepsOf(plan, v(i, k).id) = v(i, k).deps
    BY <1>5, <1>9, <2>1, EntryDeps, Zenon
  <2> QED
    BY <1>6, <2>2, Zenon
<1>10. ASSUME Distinct(plan) PROVE Planned(spec, TRUE, plan)
  <2>1. ASSUME NEW i \in 1..Len(spec), NEW k \in 1..Size(spec[i]), NEW x
        PROVE  x \in DepsOf(plan, At(spec, i, k, FALSE)) <=> DependsOn(spec, TRUE, i, k, x)
    <3>1. x \in DepsOf(plan, At(spec, i, k, FALSE))
            <=> \E d \in CodingDeps(spec, i, k) : x = EvaluatorId(d)
      <4>1. DepsOf(plan, At(spec, i, k, FALSE)) = {EvaluatorId(d) : d \in CodingDeps(spec, i, k)}
        BY <1>9, <1>10, Zenon
      <4> QED
        BY <4>1, Zenon
    <3> QED
      BY <3>1, CodingDependsOn, Zenon
  <2>2. ASSUME NEW x
        PROVE  x \in Ids(plan) <=>
                 \E i \in 1..Len(spec) : \E k \in 1..Size(spec[i]) : \E b \in BOOLEAN :
                    (b => TRUE) /\ x = At(spec, i, k, b)
    BY <1>8, Zenon
  <2> QED
    BY <1>9, <1>10, <2>1, <2>2, Zenon DEF Planned
<1> QED
  BY <1>1, <1>2, <1>5, <1>10, Zenon

LEMMA PlanOf ==
    ASSUME NEW spec \in Seq(Phase), NEW evaluators \in BOOLEAN
    PROVE  /\ PlanTasks(spec, evaluators) \in Seq(Task)
           /\ Distinct(PlanTasks(spec, evaluators)) <=> ~Ambiguous(spec)
           /\ ~Ambiguous(spec) => Planned(spec, evaluators, PlanTasks(spec, evaluators))
BY CodingPlan, EvaluatedPlan, Zenon

----------------------------------------------------------------------------
\* What the author means, in terms of positions.

Later(spec, i, k, b, j, l, c) ==
    \/ j < i
    \/ j = i /\ l = k /\ b /\ ~c
    \/ j = i /\ ~spec[i].parallel /\ l < k

LEMMA WaitsAt ==
    ASSUME NEW spec \in Seq(Phase), ~Ambiguous(spec),
           NEW i \in 1..Len(spec), NEW k, NEW b, NEW j \in 1..Len(spec), NEW l, NEW c
    PROVE  MustWait(spec, At(spec, i, k, b), At(spec, j, l, c)) <=> Later(spec, i, k, b, j, l, c)
<1> DEFINE position(x) == CHOOSE n \in DOMAIN spec : spec[n].slug = x.phase
           p == At(spec, i, k, b)
           q == At(spec, j, l, c)
<1>1. DOMAIN spec = 1..Len(spec)
  BY SMT
<1>2. \A m, n \in 1..Len(spec) : spec[m].slug = spec[n].slug => m = n
  BY <1>1, Zenon DEF Ambiguous
<1>3. /\ p.phase = spec[i].slug /\ p.index = k /\ p.evaluates = b
      /\ q.phase = spec[j].slug /\ q.index = l /\ q.evaluates = c
  BY Zenon DEF At
<1> HIDE DEF p, q
<1>4. position(p) = i
  <2>1. position(p) \in DOMAIN spec /\ spec[position(p)].slug = p.phase
    BY <1>1, <1>3, Zenon
  <2> HIDE DEF position
  <2> QED
    BY <1>1, <1>2, <1>3, <2>1, Zenon
<1>5. position(q) = j
  <2>1. position(q) \in DOMAIN spec /\ spec[position(q)].slug = q.phase
    BY <1>1, <1>3, Zenon
  <2> HIDE DEF position
  <2> QED
    BY <1>1, <1>2, <1>3, <2>1, Zenon
<1>6. q.phase = p.phase <=> j = i
  BY <1>2, <1>3, Zenon
<1>7. MustWait(spec, p, q) <=>
        \/ position(q) < position(p)
        \/ q.phase = p.phase /\ q.index = p.index /\ p.evaluates /\ ~q.evaluates
        \/ /\ q.phase = p.phase
           /\ ~spec[position(p)].parallel
           /\ q.index < p.index
  BY Zenon DEF MustWait
<1> HIDE DEF position
<1>8. MustWait(spec, p, q) <=> Later(spec, i, k, b, j, l, c)
  BY <1>3, <1>4, <1>5, <1>6, <1>7, Zenon DEF Later
<1> QED
  BY <1>8, Zenon DEF p, q

LEMMA LaterTransitive ==
    ASSUME NEW spec, NEW i \in Nat, NEW k \in Nat, NEW b \in BOOLEAN,
           NEW j \in Nat, NEW l \in Nat, NEW c \in BOOLEAN,
           NEW m \in Nat, NEW n \in Nat, NEW d \in BOOLEAN,
           Later(spec, i, k, b, j, l, c), Later(spec, j, l, c, m, n, d)
    PROVE  Later(spec, i, k, b, m, n, d)
BY SMT DEF Later

LEMMA NeverOneself ==
    ASSUME NEW spec, NEW i \in Nat, NEW k \in Nat, NEW b \in BOOLEAN
    PROVE  ~Later(spec, i, k, b, i, k, b)
BY SMT DEF Later

LEMMA DepsAreLater ==
    ASSUME NEW spec \in Seq(Phase), NEW evaluators \in BOOLEAN, NEW plan,
           Planned(spec, evaluators, plan),
           NEW i \in 1..Len(spec), NEW k \in 1..Size(spec[i]), NEW b \in BOOLEAN, b => evaluators,
           NEW x \in DepsOf(plan, At(spec, i, k, b))
    PROVE  \E j \in 1..Len(spec) : \E l \in 1..Size(spec[j]) : \E c \in BOOLEAN :
              /\ c => evaluators
              /\ x = At(spec, j, l, c)
              /\ Later(spec, i, k, b, j, l, c)
<1>1. CASE b
  <2>1. b = TRUE /\ evaluators
    BY <1>1, Zenon
  <2>2. x = At(spec, i, k, FALSE)
    <3>1. DepsOf(plan, At(spec, i, k, b)) = {At(spec, i, k, FALSE)}
      BY <2>1, Zenon DEF Planned
    <3> QED
      BY <3>1, Zenon
  <2>3. Later(spec, i, k, b, i, k, FALSE)
    BY <1>1, Zenon DEF Later
  <2> QED
    BY <2>2, <2>3, Zenon
<1>2. CASE ~b
  <2>1. b = FALSE
    BY <1>2, Zenon
  <2>2. DependsOn(spec, evaluators, i, k, x)
    BY <2>1, Zenon DEF Planned
  <2>3. CASE (spec[i].parallel \/ k = 1) /\ i # 1
    <3>1. PICK j \in 1..Len(spec) : j = i - 1 /\ j < i
      BY <2>3, SMT
    <3>2. PICK l \in 1..Size(spec[j]) : x = At(spec, j, l, evaluators)
      BY <2>2, <2>3, <3>1, Zenon DEF DependsOn
    <3> QED
      BY <3>1, <3>2, Zenon DEF Later
  <2>4. CASE ~ (spec[i].parallel \/ k = 1)
    <3>1. PICK l \in 1..Size(spec[i]) : l = k - 1
      BY <2>4, PhaseHas, OneBelow, Zenon
    <3>2. l < k
      BY <3>1, SMT
    <3>3. x = At(spec, i, l, evaluators)
      BY <2>2, <2>4, <3>1, Zenon DEF DependsOn
    <3>4. Later(spec, i, k, b, i, l, evaluators)
      BY <2>4, <3>2, Zenon DEF Later
    <3> QED
      BY <3>3, <3>4, Zenon
  <2> QED
    BY <2>2, <2>3, <2>4, Zenon DEF DependsOn
<1> QED
  BY <1>1, <1>2, Zenon

----------------------------------------------------------------------------
\* Who waits for a task waits for all that came before it.

Has(spec, evaluators, C, i, k) ==
    At(spec, i, k, FALSE) \in C /\ (evaluators => At(spec, i, k, TRUE) \in C)

Whole(spec, evaluators, C, i) == \A k \in 1..Size(spec[i]) : Has(spec, evaluators, C, i, k)

LEMMA AwaitedHas ==
    ASSUME NEW spec \in Seq(Phase), NEW evaluators \in BOOLEAN, NEW plan,
           Planned(spec, evaluators, plan), NEW C, Closed(plan, C),
           NEW i \in 1..Len(spec), NEW k \in 1..Size(spec[i]),
           At(spec, i, k, evaluators) \in C
    PROVE  Has(spec, evaluators, C, i, k)
<1>1. CASE evaluators = FALSE
  BY <1>1, Zenon DEF Has
<1>2. CASE evaluators = TRUE
  <2>1. DepsOf(plan, At(spec, i, k, TRUE)) = {At(spec, i, k, FALSE)}
    BY <1>2, Zenon DEF Planned
  <2>2. DepsOf(plan, At(spec, i, k, TRUE)) \subseteq C
    BY <1>2, Zenon DEF Closed
  <2> QED
    BY <1>2, <2>1, <2>2, Zenon DEF Has
<1> QED
  BY <1>1, <1>2, Zenon

LEMMA DownThePhase ==
    ASSUME NEW spec \in Seq(Phase), NEW evaluators \in BOOLEAN, NEW plan,
           Planned(spec, evaluators, plan), NEW C, Closed(plan, C),
           NEW i \in 1..Len(spec), NEW k \in 1..Size(spec[i]), ~spec[i].parallel,
           Has(spec, evaluators, C, i, k)
    PROVE  \A l \in 1..k : Has(spec, evaluators, C, i, l)
<1> DEFINE Good == {l \in 1..k : Has(spec, evaluators, C, i, l)}
<1>1. k \in Nat /\ 1 \in Nat /\ k \in 1..k
  BY PhaseHas, SMT
<1>2. k \in Good
  BY <1>1, Zenon
<1>3. ASSUME NEW n \in 1..k, n \in Good, n - 1 \in 1..k PROVE n - 1 \in Good
  <2>1. PICK l \in 1..k : l = n - 1
    BY <1>3, Zenon
  <2>2. n # 1 /\ n \in 1..Size(spec[i]) /\ l \in 1..Size(spec[i])
    <3>1. Size(spec[i]) \in Nat
      BY PhaseHas, Zenon
    <3> QED
      BY <2>1, <3>1, SMT
  <2>3. DependsOn(spec, evaluators, i, n, At(spec, i, l, evaluators))
    BY <2>1, <2>2, Zenon DEF DependsOn
  <2>4. At(spec, i, l, evaluators) \in DepsOf(plan, At(spec, i, n, FALSE))
    BY <2>2, <2>3, Zenon DEF Planned
  <2>5. At(spec, i, n, FALSE) \in C
    BY <1>3, Zenon DEF Has
  <2>6. At(spec, i, l, evaluators) \in C
    BY <2>4, <2>5, Zenon DEF Closed
  <2>7. Has(spec, evaluators, C, i, l)
    BY <2>2, <2>6, AwaitedHas, Zenon
  <2> QED
    BY <2>1, <2>7, Zenon
<1> HIDE DEF Good
<1>4. 1..k \subseteq Good
  BY <1>1, <1>2, <1>3, DownTo, Zenon
<1> QED
  BY <1>4, Zenon DEF Good

LEMMA PhaseBefore ==
    ASSUME NEW spec \in Seq(Phase), NEW evaluators \in BOOLEAN, NEW plan,
           Planned(spec, evaluators, plan), NEW C, Closed(plan, C),
           NEW i \in 1..Len(spec), NEW k \in 1..Size(spec[i]), spec[i].parallel \/ k = 1,
           DepsOf(plan, At(spec, i, k, FALSE)) \subseteq C,
           NEW j \in 1..Len(spec), j = i - 1
    PROVE  Whole(spec, evaluators, C, j)
<1>1. i # 1
  BY SMT
<1>2. ASSUME NEW l \in 1..Size(spec[j]), spec[j].parallel \/ l = Size(spec[j])
      PROVE  Has(spec, evaluators, C, j, l)
  <2>1. DependsOn(spec, evaluators, i, k, At(spec, j, l, evaluators))
    BY <1>1, <1>2, Zenon DEF DependsOn
  <2>2. At(spec, j, l, evaluators) \in C
    BY <2>1, Zenon DEF Planned
  <2> QED
    BY <2>2, AwaitedHas, Zenon
<1>3. CASE spec[j].parallel
  BY <1>2, <1>3, Zenon DEF Whole
<1>4. CASE ~spec[j].parallel
  <2>1. Has(spec, evaluators, C, j, Size(spec[j])) /\ Size(spec[j]) \in 1..Size(spec[j])
    BY <1>2, PhaseHas, Zenon
  <2> QED
    BY <1>4, <2>1, DownThePhase, Zenon DEF Whole
<1> QED
  BY <1>3, <1>4, Zenon

LEMMA AllPhasesBefore ==
    ASSUME NEW spec \in Seq(Phase), NEW evaluators \in BOOLEAN, NEW plan,
           Planned(spec, evaluators, plan), NEW C, Closed(plan, C),
           NEW i \in 1..Len(spec), NEW k \in 1..Size(spec[i]), spec[i].parallel \/ k = 1,
           DepsOf(plan, At(spec, i, k, FALSE)) \subseteq C,
           NEW j \in 1..Len(spec), j < i
    PROVE  Whole(spec, evaluators, C, j)
<1>1. PICK h \in 1..Len(spec) : h = i - 1
  BY SMT
<1> DEFINE Good == {n \in 1..h : Whole(spec, evaluators, C, n)}
<1>2. h \in Nat /\ 1 \in Nat /\ h \in 1..h /\ j \in 1..h
  BY <1>1, SMT
<1>3. h \in Good
  BY <1>1, <1>2, PhaseBefore, Zenon
<1>4. ASSUME NEW n \in 1..h, n \in Good, n - 1 \in 1..h PROVE n - 1 \in Good
  <2>1. PICK m \in 1..h : m = n - 1
    BY <1>4, Zenon
  <2>2. n \in 1..Len(spec) /\ m \in 1..Len(spec)
    BY <1>1, <2>1, SMT
  <2>3. 1 \in 1..Size(spec[n])
    BY <2>2, PhaseHas, Zenon
  <2>4. At(spec, n, 1, FALSE) \in C
    BY <1>4, <2>3, Zenon DEF Whole, Has
  <2>5. DepsOf(plan, At(spec, n, 1, FALSE)) \subseteq C
    BY <2>4, Zenon DEF Closed
  <2>6. Whole(spec, evaluators, C, m)
    BY <2>1, <2>2, <2>3, <2>5, PhaseBefore, Zenon
  <2> QED
    BY <2>1, <2>6, Zenon
<1> HIDE DEF Good
<1>5. 1..h \subseteq Good
  BY <1>2, <1>3, <1>4, DownTo, Zenon
<1> QED
  BY <1>2, <1>5, Zenon DEF Good

\* What contains the dependencies of a task, and is closed, contains all it must wait for.
LEMMA EverythingBefore ==
    ASSUME NEW spec \in Seq(Phase), NEW evaluators \in BOOLEAN, NEW plan,
           Planned(spec, evaluators, plan), NEW C, Closed(plan, C),
           NEW i \in 1..Len(spec), NEW k \in 1..Size(spec[i]),
           DepsOf(plan, At(spec, i, k, FALSE)) \subseteq C
    PROVE  /\ \A j \in 1..Len(spec) : j < i => Whole(spec, evaluators, C, j)
           /\ ~spec[i].parallel =>
                 \A l \in 1..Size(spec[i]) : l < k => Has(spec, evaluators, C, i, l)
<1>1. CASE spec[i].parallel \/ k = 1
  <2>1. \A j \in 1..Len(spec) : j < i => Whole(spec, evaluators, C, j)
    BY <1>1, AllPhasesBefore, Zenon
  <2>2. ASSUME ~spec[i].parallel, NEW l \in 1..Size(spec[i]), l < k PROVE FALSE
    <3>1. k = 1
      BY <1>1, <2>2, Zenon
    <3> QED
      BY <2>2, <3>1, SMT
  <2> QED
    BY <2>1, <2>2, Zenon
<1>2. CASE ~ (spec[i].parallel \/ k = 1)
  <2>1. PICK h \in 1..Size(spec[i]) : h = k - 1
    BY <1>2, PhaseHas, OneBelow, Zenon
  <2>2. DependsOn(spec, evaluators, i, k, At(spec, i, h, evaluators))
    BY <1>2, <2>1, Zenon DEF DependsOn
  <2>3. At(spec, i, h, evaluators) \in C
    BY <2>2, Zenon DEF Planned
  <2>4. Has(spec, evaluators, C, i, h)
    BY <2>3, AwaitedHas, Zenon
  <2>5. \A l \in 1..h : Has(spec, evaluators, C, i, l)
    BY <1>2, <2>4, DownThePhase, Zenon
  <2>6. 1 \in 1..h /\ 1 \in 1..Size(spec[i]) /\ \A l \in 1..Size(spec[i]) : l < k => l \in 1..h
    <3>1. Size(spec[i]) \in Nat
      BY PhaseHas, Zenon
    <3> QED
      BY <2>1, <3>1, SMT
  <2>7. At(spec, i, 1, FALSE) \in C
    BY <2>5, <2>6, Zenon DEF Has
  <2>8. DepsOf(plan, At(spec, i, 1, FALSE)) \subseteq C
    BY <2>7, Zenon DEF Closed
  <2>9. \A j \in 1..Len(spec) : j < i => Whole(spec, evaluators, C, j)
    BY <2>6, <2>8, AllPhasesBefore, Zenon
  <2> QED
    BY <2>5, <2>6, <2>9, Zenon
<1> QED
  BY <1>1, <1>2, Zenon

LEMMA LaterIsIn ==
    ASSUME NEW spec \in Seq(Phase), NEW evaluators \in BOOLEAN, NEW plan,
           Planned(spec, evaluators, plan), NEW C, Closed(plan, C),
           NEW i \in 1..Len(spec), NEW k \in 1..Size(spec[i]), NEW b \in BOOLEAN, b => evaluators,
           DepsOf(plan, At(spec, i, k, b)) \subseteq C,
           NEW j \in 1..Len(spec), NEW l \in 1..Size(spec[j]), NEW c \in BOOLEAN, c => evaluators,
           Later(spec, i, k, b, j, l, c)
    PROVE  At(spec, j, l, c) \in C
<1>1. /\ DepsOf(plan, At(spec, i, k, FALSE)) \subseteq C
      /\ b => At(spec, i, k, FALSE) \in C
  <2>1. CASE b = FALSE
    BY <2>1, Zenon
  <2>2. CASE b = TRUE
    <3>1. DepsOf(plan, At(spec, i, k, TRUE)) = {At(spec, i, k, FALSE)}
      BY <2>2, Zenon DEF Planned
    <3>2. At(spec, i, k, FALSE) \in C
      BY <2>2, <3>1, Zenon
    <3> QED
      BY <3>2, Zenon DEF Closed
  <2> QED
    BY <2>1, <2>2, Zenon
<1>2. Has(spec, evaluators, C, j, l) => At(spec, j, l, c) \in C
  <2>1. CASE c = TRUE
    BY <2>1, Zenon DEF Has
  <2>2. CASE c = FALSE
    BY <2>2, Zenon DEF Has
  <2> QED
    BY <2>1, <2>2, Zenon
<1>3. CASE j < i
  <2>1. Whole(spec, evaluators, C, j)
    BY <1>1, <1>3, EverythingBefore, Zenon
  <2> QED
    BY <1>2, <2>1, Zenon DEF Whole
<1>4. CASE j = i /\ l = k /\ b /\ ~c
  <2>1. c = FALSE
    BY <1>4, Zenon
  <2> QED
    BY <1>1, <1>4, <2>1, Zenon
<1>5. CASE j = i /\ ~spec[i].parallel /\ l < k
  <2>1. Has(spec, evaluators, C, i, l)
    BY <1>1, <1>5, EverythingBefore, Zenon
  <2> QED
    BY <1>2, <1>5, <2>1, Zenon
<1> QED
  BY <1>3, <1>4, <1>5, Zenon DEF Later

----------------------------------------------------------------------------
\* The planner is right.

LEMMA RefusesAmbiguous ==
    ASSUME NEW spec \in Seq(Phase), NEW evaluators \in BOOLEAN, Ambiguous(spec)
    PROVE  ~validateTaskGraph(PlanTasks(spec, evaluators))
BY PlanOf, DistinctByNumber, Zenon DEF validateTaskGraph

LEMMA FollowsClear ==
    ASSUME NEW spec \in Seq(Phase), NEW evaluators \in BOOLEAN, ~Ambiguous(spec)
    PROVE  LET plan == PlanTasks(spec, evaluators)
           IN  /\ validateTaskGraph(plan)
               /\ \A a \in Ids(plan) :
                      Upstream(plan, a) = {b \in Ids(plan) : MustWait(spec, a, b)}
<1> DEFINE plan == PlanTasks(spec, evaluators)
<1>1. plan \in Seq(Task) /\ Distinct(plan) /\ Planned(spec, evaluators, plan)
  BY PlanOf, Zenon
<1> HIDE DEF plan
<1> DEFINE Position(x, i, k, b) ==
               i \in 1..Len(spec) /\ k \in 1..Size(spec[i]) /\ b \in BOOLEAN /\ (b => evaluators)
               /\ x = At(spec, i, k, b)
<1>2. ASSUME NEW x
      PROVE  x \in Ids(plan) <=> \E i, k, b : Position(x, i, k, b)
  <2>1. x \in Ids(plan) <=>
          \E i \in 1..Len(spec) : \E k \in 1..Size(spec[i]) : \E b \in BOOLEAN :
             (b => evaluators) /\ x = At(spec, i, k, b)
    BY <1>1, Zenon DEF Planned
  <2> QED
    BY <2>1, Zenon
<1>3. ASSUME NEW x, NEW i, NEW k, NEW b, Position(x, i, k, b)
      PROVE  i \in Nat /\ k \in Nat
  <2>1. Size(spec[i]) \in Nat
    BY <1>3, PhaseHas, Zenon
  <2> QED
    BY <1>3, <2>1, SMT
<1>4. ASSUME NEW x, NEW i, NEW k, NEW b, Position(x, i, k, b),
             NEW y, NEW j, NEW l, NEW c, Position(y, j, l, c)
      PROVE  MustWait(spec, x, y) <=> Later(spec, i, k, b, j, l, c)
  BY <1>4, WaitsAt, Zenon
<1>5. ASSUME NEW x, NEW i, NEW k, NEW b, Position(x, i, k, b), NEW y \in DepsOf(plan, x)
      PROVE  \E j, l, c : Position(y, j, l, c) /\ Later(spec, i, k, b, j, l, c)
  <2>1. y \in DepsOf(plan, At(spec, i, k, b))
    BY <1>5, Zenon
  <2>2. i \in 1..Len(spec) /\ k \in 1..Size(spec[i]) /\ b \in BOOLEAN /\ (b => evaluators)
    BY <1>5, Zenon
  <2>3. \E j \in 1..Len(spec) : \E l \in 1..Size(spec[j]) : \E c \in BOOLEAN :
           /\ c => evaluators
           /\ y = At(spec, j, l, c)
           /\ Later(spec, i, k, b, j, l, c)
    <3> HIDE DEF Position
    <3>1. Planned(spec, evaluators, plan)
      BY <1>1, Zenon
    <3> QED
      BY <2>1, <2>2, <3>1, DepsAreLater, SMTT(30)
  <2>4. PICK j \in 1..Len(spec) : \E l \in 1..Size(spec[j]) : \E c \in BOOLEAN :
           /\ c => evaluators
           /\ y = At(spec, j, l, c)
           /\ Later(spec, i, k, b, j, l, c)
    BY <2>3, Zenon
  <2>5. PICK l \in 1..Size(spec[j]), c \in BOOLEAN :
           /\ c => evaluators
           /\ y = At(spec, j, l, c)
           /\ Later(spec, i, k, b, j, l, c)
    BY <2>4, Zenon
  <2>6. Position(y, j, l, c)
    BY <2>5, Zenon
  <2> QED
    BY <2>5, <2>6, Zenon
<1> HIDE DEF Position
<1>6. ASSUME NEW x PROVE DepsOf(plan, x) \subseteq Ids(plan)
  <2>1. CASE x \in Ids(plan)
    BY <1>2, <1>5, <2>1, Zenon
  <2>2. CASE x \notin Ids(plan)
    <3>1. DepsOf(plan, x) = {}
      BY <1>1, <2>2, DepsOfTask, Zenon
    <3> QED
      BY <3>1, Zenon
  <2> QED
    BY <2>1, <2>2, Zenon
<1>7. \A n \in 1..Len(plan) : plan[n].deps \subseteq Ids(plan)
  <2>1. ASSUME NEW n \in 1..Len(plan) PROVE plan[n].deps \subseteq Ids(plan)
    <3>1. DepsOf(plan, plan[n].id) = plan[n].deps
      BY <1>1, DepsOfTask, Zenon
    <3> QED
      BY <1>6, <3>1, Zenon
  <2> QED
    BY <2>1, Zenon
<1>8. ASSUME NEW a \in Ids(plan)
      PROVE  Upstream(plan, a) = {x \in Ids(plan) : MustWait(spec, a, x)}
  <2> DEFINE M == {x \in Ids(plan) : MustWait(spec, a, x)}
             U == Upstream(plan, a)
  <2>1. PICK i, k, b : Position(a, i, k, b)
    BY <1>2, Zenon
  <2>2. /\ DepsOf(plan, a) \subseteq U /\ U \subseteq Ids(plan) /\ Closed(plan, U)
        /\ \A C : DepsOf(plan, a) \subseteq C /\ Closed(plan, C) => U \subseteq C
    BY <1>1, <1>7, UpstreamIsLeast, Zenon
  <2>3. DepsOf(plan, a) \subseteq M
    <3>1. ASSUME NEW y \in DepsOf(plan, a) PROVE y \in M
      <4>1. PICK j, l, c : Position(y, j, l, c) /\ Later(spec, i, k, b, j, l, c)
        BY <1>5, <2>1, Zenon
      <4>2. MustWait(spec, a, y)
        BY <1>4, <2>1, <4>1, Zenon
      <4>3. y \in Ids(plan)
        BY <1>2, <4>1, Zenon
      <4> QED
        BY <4>2, <4>3, Zenon
    <3> QED
      BY <3>1, Zenon
  <2>4. Closed(plan, M)
    <3>1. ASSUME NEW x \in M, NEW y \in DepsOf(plan, x) PROVE y \in M
      <4>1. PICK j, l, c : Position(x, j, l, c)
        BY <1>2, Zenon
      <4>2. Later(spec, i, k, b, j, l, c)
        BY <1>4, <2>1, <4>1, Zenon
      <4>3. PICK m, n, d : Position(y, m, n, d) /\ Later(spec, j, l, c, m, n, d)
        BY <1>5, <4>1, Zenon
      <4>4. /\ i \in Nat /\ k \in Nat /\ b \in BOOLEAN /\ j \in Nat /\ l \in Nat /\ c \in BOOLEAN
            /\ m \in Nat /\ n \in Nat /\ d \in BOOLEAN
        BY <1>3, <2>1, <4>1, <4>3, Zenon DEF Position
      <4>5. Later(spec, i, k, b, m, n, d)
        <5>1. Later(spec, j, l, c, m, n, d)
          BY <4>3, Zenon
        <5> QED
          BY <4>2, <4>4, <5>1, LaterTransitive
      <4>6. MustWait(spec, a, y)
        BY <1>4, <2>1, <4>3, <4>5, Zenon
      <4>7. y \in Ids(plan)
        BY <1>2, <4>3, Zenon
      <4> QED
        BY <4>6, <4>7, Zenon
    <3> QED
      BY <3>1, Zenon DEF Closed
  <2>5. U \subseteq M
    BY <2>2, <2>3, <2>4, Zenon
  <2>6. ASSUME NEW x \in M PROVE x \in U
    <3>1. PICK j, l, c : Position(x, j, l, c)
      BY <1>2, Zenon
    <3>2. Later(spec, i, k, b, j, l, c)
      BY <1>4, <2>1, <3>1, Zenon
    <3>3. /\ i \in 1..Len(spec) /\ k \in 1..Size(spec[i]) /\ b \in BOOLEAN /\ (b => evaluators)
          /\ j \in 1..Len(spec) /\ l \in 1..Size(spec[j]) /\ c \in BOOLEAN /\ (c => evaluators)
          /\ a = At(spec, i, k, b) /\ x = At(spec, j, l, c)
      BY <2>1, <3>1, Zenon DEF Position
    <3>4. DepsOf(plan, At(spec, i, k, b)) \subseteq U
      BY <2>2, <3>3, Zenon
    <3>5. At(spec, j, l, c) \in U
      <4>1. Planned(spec, evaluators, plan) /\ Closed(plan, U)
        BY <1>1, <2>2, Zenon
      <4> HIDE DEF U, M
      <4> QED
        BY <3>2, <3>3, <3>4, <4>1, LaterIsIn, SMTT(30)
    <3> QED
      BY <3>3, <3>5, Zenon
  <2> HIDE DEF M, U
  <2>7. U = M
    BY <2>5, <2>6
  <2> QED
    BY <2>7, Zenon DEF U, M
<1>9. ASSUME NEW a \in Ids(plan) PROVE a \notin Upstream(plan, a)
  <2>1. PICK i, k, b : Position(a, i, k, b)
    BY <1>2, Zenon
  <2>2. i \in Nat /\ k \in Nat /\ b \in BOOLEAN
    BY <1>3, <2>1, Zenon DEF Position
  <2>3. ~Later(spec, i, k, b, i, k, b)
    BY <2>2, NeverOneself, Zenon
  <2>4. ~MustWait(spec, a, a)
    BY <1>4, <2>1, <2>3, Zenon
  <2> QED
    BY <1>8, <2>4, Zenon
<1>10. validateTaskGraph(plan)
  <2>1. DOMAIN plan = 1..Len(plan)
    BY <1>1, IdsOfSeq, Zenon
  <2>2. Cardinality(Ids(plan)) = Len(plan)
    BY <1>1, DistinctByNumber, Zenon
  <2> QED
    BY <1>7, <1>9, <2>1, <2>2, Zenon DEF validateTaskGraph
<1> QED
  BY <1>8, <1>10, Zenon DEF plan

LEMMA PlannerFollows ==
    ASSUME NEW spec \in Seq(Phase), NEW evaluators \in BOOLEAN
    PROVE  Follows(spec, evaluators)
<1>1. CASE Ambiguous(spec)
  BY <1>1, RefusesAmbiguous, Zenon DEF Follows
<1>2. CASE ~Ambiguous(spec)
  BY <1>2, FollowsClear, Zenon DEF Follows
<1> QED
  BY <1>1, <1>2, Zenon

\* However long the specs are that it is given, the planner refuses the ambiguous
\* ones, and of the others it makes each task wait for what the phases say, for
\* what they ask to be evaluated first, and for nothing else.
THEOREM PlansAreRight == Spec => []PlansFollowTheSpec
<1>1. PlansFollowTheSpec
  <2>1. ASSUME NEW spec \in Specs, NEW evaluators \in BOOLEAN
        PROVE  Follows(spec, evaluators)
    <3>1. spec \in Seq(Phase)
      BY PlannerAssumption, Zenon
    <3> QED
      BY <3>1, PlannerFollows, Zenon
  <2> QED
    BY <2>1, Zenon DEF PlansFollowTheSpec
<1> QED
  BY <1>1, PTL
============================================================================
