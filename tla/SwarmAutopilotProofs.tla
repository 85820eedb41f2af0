------------------------ MODULE SwarmAutopilotProofs ------------------------
(***************************************************************************)
(* The autopilot's ticks, with the operator's session commands, outages    *)
(* and kills between any two of their steps.  Beside what                  *)
(* SwarmOrchestratorProofs shows of the files, three things hold for every *)
(* task graph, configuration and behaviour of the runtime: between two     *)
(* ticks nothing of one is left over, nothing is done that no session has  *)
(* earned, and what the session records call over is over.                 *)
(*                                                                         *)
(* The invariants build on each other: IInv (the files and the locals),    *)
(* TickInv (the tick), BegunInv (only runs that were started are spoken    *)
(* of), EarnedInv and TruthInv.                                            *)
(***************************************************************************)
EXTENDS SwarmAutopilot, SupervisedProofs, WellFoundedInduction

LEMMA OneAutopilot == OneProcess
BY AutopilotAssumption DEF OneProcess

----------------------------------------------------------------------------
\* Natural numbers, as sets: the theorems of the library take a predicate.

LEMMA NatMin ==
    ASSUME NEW T \in SUBSET Nat, T # {}
    PROVE  \E x \in T : \A y \in T : x <= y
<1> DEFINE R == OpToRel(<, Nat)
<1>1. IsWellFoundedOn(R, Nat)
  BY NatLessThanWellFounded
<1>2. \A x, y \in Nat : <<x, y>> \in R <=> x < y
  BY DEF OpToRel
<1> HIDE DEF R
<1>3. PICK x \in T : \A y \in T : <<y, x>> \notin R
  BY <1>1, WFMin, Zenon
<1>4. \A y \in T : ~(y < x)
  BY <1>2, <1>3, Zenon
<1> QED
  BY <1>4

LEMMA NatInd ==
    ASSUME NEW S, 0 \in S, \A n \in Nat : n \in S => n + 1 \in S
    PROVE  Nat \subseteq S
<1> SUFFICES ASSUME Nat \ S # {}
             PROVE  FALSE
  OBVIOUS
<1>1. PICK m \in Nat \ S : \A y \in Nat \ S : m <= y
  BY NatMin
<1>2. m # 0 /\ m - 1 \in Nat /\ m - 1 \in S
  BY <1>1
<1> QED
  BY <1>1, <1>2

----------------------------------------------------------------------------
\* The decisions of a review.

\* f holds the workflow after each of the first m decisions.
After(f, order, m) ==
    f = [n \in 0..m |-> IF n = 0 THEN wf
                        ELSE ApplyReviewDecision(f[n - 1], order[n], PolicyDecision(order[n]))]

LEMMA AfterExists ==
    ASSUME NEW order, NEW k \in Nat
    PROVE  \E f : After(f, order, k)
<1> DEFINE S == {m \in Nat : \E f : After(f, order, m)}
<1>1. 0 \in S
  <2> DEFINE f == [n \in 0..0 |-> wf]
  <2>1. After(f, order, 0)
    BY DEF After
  <2> QED
    BY <2>1
<1>2. ASSUME NEW m \in Nat, m \in S
      PROVE  m + 1 \in S
  <2>1. PICK f : After(f, order, m)
    BY <1>2
  <2> DEFINE D(v, n) == ApplyReviewDecision(v, order[n], PolicyDecision(order[n]))
             g == [n \in 0..(m + 1) |-> IF n <= m THEN f[n] ELSE D(f[m], n)]
  <2>2. f = [n \in 0..m |-> IF n = 0 THEN wf ELSE D(f[n - 1], n)]
    BY <2>1 DEF After
  <2> HIDE DEF D
  <2>3. ASSUME NEW n \in 0..(m + 1)
        PROVE  g[n] = IF n = 0 THEN wf ELSE D(g[n - 1], n)
    <3>1. CASE n <= m
      <4>1. n \in 0..m /\ (n # 0 => n - 1 \in 0..m)
        BY <3>1
      <4>2. g[n] = f[n] /\ (n # 0 => g[n - 1] = f[n - 1])
        BY <4>1
      <4> QED
        BY <2>2, <4>1, <4>2
    <3>2. CASE ~(n <= m)
      <4>1. n = m + 1 /\ n # 0 /\ n - 1 = m
        BY <3>2
      <4>2. g[n] = D(f[m], n) /\ g[n - 1] = f[m]
        BY <3>2, <4>1
      <4> QED
        BY <4>1, <4>2
    <3> QED
      BY <3>1, <3>2
  <2>4. g = [n \in 0..(m + 1) |-> IF n = 0 THEN wf ELSE D(g[n - 1], n)]
    BY <2>3
  <2>5. After(g, order, m + 1)
    BY <2>4 DEF After, D
  <2> QED
    BY <2>5
<1> HIDE DEF S
<1>3. k \in S
  BY <1>1, <1>2, NatInd
<1> QED
  BY <1>3 DEF S

\* What every decision preserves, the whole review does.
LEMMA DecidedOnKeeps ==
    ASSUME NEW S, NEW order \in Seq(S), NEW Good, wf \in Good,
           \A v \in Good, t \in S : ApplyReviewDecision(v, t, PolicyDecision(t)) \in Good
    PROVE  DecidedOn(order) \in Good
<1> DEFINE k == Len(order)
<1>1. k \in Nat /\ \A n \in 1..k : order[n] \in S
  OBVIOUS
<1>2. \E f : After(f, order, k)
  BY <1>1, AfterExists
<1>3. \E f : After(f, order, k) /\ DecidedOn(order) = f[k]
  BY <1>2 DEF After, DecidedOn
<1>4. PICK f : After(f, order, k) /\ DecidedOn(order) = f[k]
  BY <1>3
<1> DEFINE D(v, n) == ApplyReviewDecision(v, order[n], PolicyDecision(order[n]))
           M == {n \in Nat : n <= k => f[n] \in Good}
<1>5. f = [n \in 0..k |-> IF n = 0 THEN wf ELSE D(f[n - 1], n)]
  BY <1>4 DEF After
<1>6. \A v \in Good, n \in 1..k : D(v, n) \in Good
  BY <1>1
<1> HIDE DEF D, k
<1>7. 0 \in M
  BY <1>1, <1>5
<1>8. ASSUME NEW n \in Nat, n \in M
      PROVE  n + 1 \in M
  <2> SUFFICES ASSUME n + 1 <= k
               PROVE  f[n + 1] \in Good
    OBVIOUS
  <2>1. n <= k /\ n + 1 \in 1..k /\ n + 1 \in 0..k /\ n + 1 # 0 /\ (n + 1) - 1 = n
    BY <1>1
  <2>2. f[n + 1] = D(f[n], n + 1)
    BY <1>5, <2>1
  <2> QED
    BY <1>6, <1>8, <2>1, <2>2
<1> HIDE DEF M
<1>9. k \in M
  BY <1>1, <1>7, <1>8, NatInd
<1> QED
  BY <1>4, <1>9, <1>1 DEF M

\* A review decides on tasks of the queue only.
LEMMA ReviewDecides ==
    ASSUME NEW p, Review(p), IsFiniteSet(wf.reviewQueue)
    PROVE  LET decided == {t \in wf.reviewQueue : PolicyDecision(t) # "escalate"}
           IN  \E order \in Seq(decided) : wf' = DecidedOn(order)
<1> DEFINE decided == {t \in wf.reviewQueue : PolicyDecision(t) # "escalate"}
<1>1. PICK order \in SetToSeqs(decided) : wf' = DecidedOn(order)
  BY DEF Review
<1>2. IsFiniteSet(decided) /\ Cardinality(decided) \in Nat
  BY FS_Subset, FS_CardinalityType
<1> HIDE DEF decided
<1>3. order \in [1..Cardinality(decided) -> decided]
  BY DEF SetToSeqs
<1>4. order \in Seq(decided)
  BY <1>2, <1>3
<1> QED
  BY <1>1, <1>4 DEF decided

----------------------------------------------------------------------------
\* The files and the locals: what SwarmOrchestratorProofs shows of the steps of
\* the operations holds of what the autopilot and the session commands add.

LEMMA QueueIsFinite ==
    ASSUME IInv
    PROVE  IsFiniteSet(wf.reviewQueue)
<1>1. wf.reviewQueue \subseteq Tasks
  BY DEF IInv, Workflow
<1>2. IsFiniteSet(Tasks)
  BY FS_Interval, TaskGraphAssumption DEF Tasks
<1> QED
  BY <1>1, <1>2, FS_Subset

LEMMA ReviewKeeps ==
    ASSUME IInv, NEW p \in Procs, Review(p)
    PROVE  IInv'
<1> DEFINE decided == {t \in wf.reviewQueue : PolicyDecision(t) # "escalate"}
           Good    == {v \in Workflow : WorkflowCoherent(v) /\ Backed(v, Files)}
<1>1. PICK order \in Seq(decided) : wf' = DecidedOn(order)
  BY QueueIsFinite, ReviewDecides
<1>2. wf \in Good
  BY DEF IInv
<1>3. ASSUME NEW v \in Good, NEW t \in decided
      PROVE  ApplyReviewDecision(v, t, PolicyDecision(t)) \in Good
  <2>1. t \in Tasks /\ PolicyDecision(t) \in ReviewDecision
    BY DEF IInv, Workflow, PolicyDecision, ReviewDecision
  <2>2. v \in Workflow /\ WorkflowCoherent(v) /\ Backed(v, Files)
    OBVIOUS
  <2> QED
    BY <2>1, <2>2, ApplyReviewDecisionType, ApplyReviewDecisionCoherent,
       ApplyReviewDecisionBacked
<1> HIDE DEF decided, Good
<1>4. wf' \in Good
  BY <1>1, <1>2, <1>3, DecidedOnKeeps
<1>5. wf' \in Workflow /\ WorkflowCoherent(wf') /\ Backed(wf', Files)
  BY <1>4 DEF Good
<1>6. Files' = Files /\ proc' = proc
  BY DEF Files, Review
<1> QED
  BY <1>5, <1>6 DEF IInv

LEMMA SafeCancelKeeps ==
    ASSUME IInv, NEW p \in Procs, SafeCancel(p)
    PROVE  IInv'
<1>1. PICK rec \in ledger : Become(p, [Idle EXCEPT !.at = "cancel", !.task = rec.task,
                                                  !.rec = rec, !.recovery = TRUE])
  BY DEF SafeCancel
<1> DEFINE l == [Idle EXCEPT !.at = "cancel", !.task = rec.task, !.rec = rec,
                             !.recovery = TRUE]
<1>2. Idle \in Locals /\ LocalsFit(Idle, Files)
  BY IdleFits
<1>3. rec \in RunRecord /\ rec.task \in Tasks /\ Known(rec, Files)
  BY LedgerKnown
<1>4. /\ l \in Locals /\ l.at = "cancel" /\ l.task = rec.task /\ l.rec = rec
      /\ l.snap = Idle.snap /\ l.polls = Idle.polls
  BY <1>2, <1>3 DEF Locals, Step
<1>5. Become(p, l) /\ UNCHANGED <<wf, ledger, manualAt, remote, nextRun>>
  BY <1>1 DEF SafeCancel
<1> HIDE DEF l
<1>6. LocalsFit(l, Files)
  BY <1>2, <1>3, <1>4 DEF LocalsFit
<1> QED
  BY <1>4, <1>5, <1>6, LocalStepKeeps

LEMMA SkipForSessionKeeps ==
    ASSUME IInv, NEW p \in Procs, NEW t \in Tasks, SkipForSession(p, t)
    PROVE  IInv'
<1> DEFINE l == [proc[p] EXCEPT !.todo = @ \ {t}]
<1>1. l \in Locals
  BY DEF IInv, Locals
<1>2. Become(p, AfterRunOnce(l)) /\ UNCHANGED <<wf, ledger, manualAt, remote, nextRun>>
  BY DEF SkipForSession
<1> HIDE DEF l
<1>3. AfterRunOnce(l) \in Locals /\ LocalsFit(AfterRunOnce(l), Files)
  BY <1>1, AfterRunOnceFits
<1> QED
  BY <1>2, <1>3, LocalStepKeeps

\* The ledger answers the poll of a session that was closed and forgotten.
AnswerByLedger(p) ==
    /\ At(p, "observe")
    /\ UsesLedger(proc[p].rec.id)
    /\ Become(p, [proc[p] EXCEPT !.at = "note"])
    /\ UNCHANGED <<wf, ledger, manualAt, remote, nextRun>>

LEMMA AnswerByLedgerDoes ==
    ASSUME IInv, NEW p \in Procs, AnswerByLedger(p)
    PROVE  /\ proc[p].at = "observe" /\ proc'[p].at = "note" /\ Carried(proc[p], proc'[p])
           /\ proc'[p].rec = proc[p].rec /\ proc'[p] \in Locals
           /\ UNCHANGED <<wf, ledger, manualAt, remote, nextRun>>
<1> DEFINE l == [proc[p] EXCEPT !.at = "note"]
<1>1. proc[p] \in Locals
  BY DEF IInv
<1>2. l \in Locals /\ l.at = "note" /\ l.rec = proc[p].rec /\ Carried(proc[p], l)
  BY <1>1 DEF Locals, Step, Carried
<1>3. /\ proc[p].at = "observe" /\ Become(p, l)
      /\ UNCHANGED <<wf, ledger, manualAt, remote, nextRun>>
  BY DEF AnswerByLedger, At
<1> HIDE DEF l
<1> QED
  BY <1>2, <1>3, Becomes

LEMMA AnswerByLedgerKeeps ==
    ASSUME IInv, NEW p \in Procs, AnswerByLedger(p)
    PROVE  IInv'
<1> DEFINE l == proc'[p]
<1>1. /\ proc[p] \in Locals /\ LocalsFit(proc[p], Files) /\ proc[p].at \in RunSteps
      /\ l \in Locals /\ l.at \in RunSteps /\ l.rec = proc[p].rec /\ l.task = proc[p].task
      /\ l.polls = proc[p].polls /\ l.snap = proc[p].snap
  BY AnswerByLedgerDoes DEF IInv, RunSteps, Carried
<1>2. /\ Known(proc[p].rec, Files) /\ WorkflowCoherent(proc[p].snap)
      /\ Backed(proc[p].snap, Files)
  BY <1>1 DEF LocalsFit
<1>3. Become(p, l) /\ UNCHANGED <<wf, ledger, manualAt, remote, nextRun>>
  BY DEF AnswerByLedger, Become, IInv
<1> HIDE DEF l
<1>4. LocalsFit(l, Files)
  BY <1>1, <1>2, ReviseFits
<1> QED
  BY <1>1, <1>3, <1>4, LocalStepKeeps

\* Closing a session leaves it ended, or as it was.
LEMMA CloseRemoteDoes ==
    ASSUME IInv, NEW r \in RunIds, CloseRemote(r)
    PROVE  /\ \E state \in SessionState \ {"running"} :
                 /\ remote' = [remote EXCEPT ![r].state = state]
                 /\ remote[r].state # "running" => state = remote[r].state
           /\ lost' \in {lost, lost \union {r}}
<1>1. remote[r].state \in SessionState
  BY DEF IInv, FilesFit, Files
<1> QED
  BY <1>1 DEF CloseRemote, SessionState

LEMMA ClosingKeeps ==
    ASSUME IInv, NEW r \in RunIds, CloseRemote(r),
           UNCHANGED <<wf, ledger, manualAt, nextRun, proc>>
    PROVE  IInv'
<1>1. PICK state \in SessionState : remote' = [remote EXCEPT ![r].state = state]
  BY CloseRemoteDoes
<1>2. FilesFit(Files') /\ Grow(Files, Files')
  BY <1>1, SessionChangeGrows
<1> HIDE DEF Files
<1>3. Backed(wf', Files')
  BY <1>2, GrowKeepsBacked DEF IInv
<1>4. \A p \in Procs : LocalsFit(proc[p], Files')
  BY <1>2, GrowKeepsLocals DEF IInv
<1> QED
  BY <1>2, <1>3, <1>4 DEF IInv

\* What a poll by the operator comes to.
LEMMA SessionStatusDoes ==
    ASSUME IInv, NEW rec \in ledger, SessionStatus(rec)
    PROVE  \E synced \in RunRecord :
              /\ synced.id = rec.id /\ synced.task = rec.task
              /\ \/ synced.status \in PollOutcome(remote[rec.id].state)
                 \/ (synced = rec \/ synced.status = "failed") /\ rec.id \in lost
              /\ WriteRun(synced) /\ wf' = ApplyRunStatus(wf, rec.task, synced.status)
              /\ sessions' = SessionAfter(synced)
              /\ UNCHANGED <<manualAt, remote, nextRun, proc>>
<1>1. PICK status \in IF rec.id \notin Unreachable THEN PollOutcome(remote[rec.id].state)
                      ELSE IF rec.id \in (lost \ outage) \intersect closed
                      THEN applyArtifactAcceptance(rec.status) ELSE {} :
         LET synced == [rec EXCEPT !.status = status]
         IN  /\ WriteRun(synced)
             /\ wf' = ApplyRunStatus(wf, rec.task, status)
             /\ sessions' = SessionAfter(synced)
  BY DEF SessionStatus
<1> DEFINE synced == [rec EXCEPT !.status = status]
<1>2. /\ WriteRun(synced) /\ wf' = ApplyRunStatus(wf, rec.task, status)
      /\ sessions' = SessionAfter(synced)
  BY <1>1
<1>3. rec \in RunRecord /\ rec.id \in RunIds
  BY LedgerKnown DEF RunRecord
<1>4. remote[rec.id].state \in SessionState
  BY <1>3 DEF IInv, FilesFit, Files
<1>5. \/ status \in PollOutcome(remote[rec.id].state)
      \/ status \in {rec.status, "failed"} /\ rec.id \in lost
  BY <1>1 DEF applyArtifactAcceptance
<1>6. status \in RunStatus
  BY <1>3, <1>4, <1>5, OrchestratorAssumption
     DEF PollOutcome, applyArtifactAcceptance, mapManagerState, SessionState, RunStatus, RunRecord
<1>7. /\ synced \in RunRecord /\ synced.id = rec.id /\ synced.task = rec.task
      /\ synced.status = status /\ (status = rec.status => synced = rec)
  BY <1>3, <1>6 DEF RunRecord
<1>8. UNCHANGED <<manualAt, remote, nextRun, proc>>
  BY DEF SessionStatus
<1> HIDE DEF synced
<1> QED
  BY <1>2, <1>5, <1>7, <1>8

LEMMA SessionStatusKeeps ==
    ASSUME IInv, NEW rec \in ledger, SessionStatus(rec)
    PROVE  IInv'
<1>1. PICK synced \in RunRecord :
         /\ synced.id = rec.id /\ synced.task = rec.task
         /\ WriteRun(synced) /\ wf' = ApplyRunStatus(wf, rec.task, synced.status)
         /\ UNCHANGED <<manualAt, remote, nextRun, proc>>
  BY SessionStatusDoes
<1>2. rec.task \in Tasks /\ Known(rec, Files) /\ synced.status \in RunStatus
  BY LedgerKnown DEF RunRecord
<1>3. Spawned(synced, Files) /\ RecordsIn(Files, rec.task) # {}
  BY <1>1, <1>2, StillKnown DEF Known
<1>4. FilesFit(Files') /\ Grow(Files, Files')
  BY <1>1, <1>3, WriteRunGrows DEF IInv
<1>5. wf' \in Workflow /\ WorkflowCoherent(wf') /\ Backed(wf', Files)
  BY <1>1, <1>2, <1>3, ApplyRunStatusType, ApplyRunStatusCoherent, ApplyRunStatusBacked
     DEF IInv
<1> HIDE DEF Files
<1>6. Backed(wf', Files')
  BY <1>4, <1>5, GrowKeepsBacked
<1>7. \A p \in Procs : LocalsFit(proc[p], Files')
  BY <1>4, GrowKeepsLocals DEF IInv
<1> QED
  BY <1>1, <1>4, <1>5, <1>6, <1>7 DEF IInv

----------------------------------------------------------------------------
\* The state of the tick and of the session records.

Phase == {"idle", "sync", "review", "recover", "dispatch"}

\* Between two ticks nothing is under way.
Resting == unwritten = NoRecord /\ \A p \in Procs : At(p, "idle")

\* Only the recovery phase has a plan.
TickInv ==
    /\ phase \in Phase
    /\ phase = "idle" => Resting
    /\ phase # "recover" => plan = {}
    /\ plan \subseteq Recovery
    /\ sessions \in [RunIds -> RecordState]
    /\ unwritten \in RunRecord \union {NoRecord}
    /\ closed \subseteq RunIds /\ closedSeen \subseteq RunIds
    /\ lost \subseteq RunIds /\ outage \subseteq RunIds
    /\ stuck \subseteq RunIds /\ rested \subseteq RunIds
    /\ disturbances \in 0..MaxDisturbances /\ torn \in BOOLEAN

LEMMA TickAborted ==
    ASSUME TickInv, TickAborts, \A p \in Procs : proc'[p].at = "idle",
           UNCHANGED <<sessions, closed, runtimeVars, clockVars>>,
           disturbances' \in 0..MaxDisturbances, torn' \in BOOLEAN
    PROVE  TickInv'
BY DEF TickInv, TickAborts, Phase, Resting, At, runtimeVars, clockVars

LEMMA DisturbanceCounts ==
    ASSUME TickInv, Disturbance
    PROVE  disturbances' \in 0..MaxDisturbances
BY AutopilotAssumption DEF TickInv, Disturbance

LEMMA AloneAbandons ==
    ASSUME IInv, NEW p \in Procs, RuntimeCallFails(p) \/ Become(p, Idle)
    PROVE  \A q \in Procs : proc'[q].at = "idle"
<1>1. Become(p, Idle)
  BY DEF RuntimeCallFails
<1>2. proc'[p].at = "idle"
  BY <1>1, Becomes, IdleIs
<1> QED
  BY <1>2, OneAutopilot DEF OneProcess

LEMMA AbortsTick ==
    ASSUME IInv, TickInv, NEW p \in Procs,
           CallThrows(p) \/ SpawnThrows(p) \/ SpawnRefused(p) \/ Killed(p)
    PROVE  TickInv'
<1>1. CASE CallThrows(p) \/ SpawnRefused(p)
  <2>1. /\ TickAborts /\ RuntimeCallFails(p)
        /\ UNCHANGED <<sessions, closed, runtimeVars, clockVars, countVars>>
    BY <1>1 DEF CallThrows, SpawnRefused
  <2>2. disturbances' \in 0..MaxDisturbances /\ torn' \in BOOLEAN
    BY <2>1 DEF TickInv, countVars
  <2> QED
    BY <2>1, <2>2, AloneAbandons, TickAborted
<1>2. CASE SpawnThrows(p)
  <2>1. /\ TickAborts /\ RuntimeCallFails(p) /\ Disturbance
        /\ UNCHANGED <<sessions, closed, runtimeVars, clockVars, torn>>
    BY <1>2 DEF SpawnThrows
  <2>2. disturbances' \in 0..MaxDisturbances /\ torn' \in BOOLEAN
    BY <2>1, DisturbanceCounts DEF TickInv
  <2> QED
    BY <2>1, <2>2, AloneAbandons, TickAborted
<1>3. CASE Killed(p)
  <2>1. /\ TickAborts /\ Become(p, Idle) /\ Disturbance /\ torn' = TRUE
        /\ UNCHANGED <<sessions, closed, runtimeVars, clockVars>>
    BY <1>3 DEF Killed
  <2>2. disturbances' \in 0..MaxDisturbances /\ torn' \in BOOLEAN
    BY <2>1, DisturbanceCounts
  <2> QED
    BY <2>1, <2>2, AloneAbandons, TickAborted
<1> QED
  BY <1>1, <1>2, <1>3

LEMMA PhaseTyped ==
    ASSUME IInv, TickInv, NEW p \in Procs,
           \/ TickBegins(p) \/ Review(p) \/ PlanRecovery(p) \/ SafeCancel(p) \/ SafeClose(p)
           \/ Dispatch(p) \/ TickEnds(p) \/ CloseThrows(p)
    PROVE  TickInv'
<1>1. CASE TickBegins(p)
  BY <1>1 DEF TickInv, TickBegins, Phase, runtimeVars, clockVars, countVars
<1>2. CASE Review(p)
  BY <1>2 DEF TickInv, Review, Phase, runtimeVars, clockVars, countVars
<1>3. CASE PlanRecovery(p)
  <2>1. plan' \subseteq Recovery
    <3>1. \A rec \in ledger : rec.id \in RunIds
      BY LedgerKnown DEF RunRecord
    <3> QED
      BY <1>3, <3>1 DEF PlanRecovery, Recovery, TickInv
  <2> QED
    BY <1>3, <2>1 DEF TickInv, PlanRecovery, Phase, runtimeVars, clockVars, countVars
<1>4. CASE SafeCancel(p)
  <2>1. plan' \subseteq plan
    BY <1>4 DEF SafeCancel
  <2> QED
    BY <1>4, <2>1 DEF TickInv, SafeCancel, Phase, runtimeVars, clockVars, countVars
<1>5. CASE SafeClose(p)
  <2>1. PICK action \in plan :
           LET r == action.run
           IN  /\ CloseRemote(r)
               /\ sessions' = [sessions EXCEPT ![r] = "closed"]
               /\ closed' = closed \union {r}
               /\ plan' = plan \ {action}
    BY <1>5 DEF SafeClose
  <2>2. action.run \in RunIds
    BY DEF TickInv, Recovery
  <2>3. lost' \subseteq RunIds
    BY <2>1, <2>2 DEF CloseRemote, TickInv
  <2>4. sessions' \in [RunIds -> RecordState] /\ closed' \subseteq RunIds
    BY <2>1, <2>2 DEF TickInv, RecordState
  <2>5. plan' \subseteq Recovery
    BY <2>1 DEF TickInv
  <2>6. /\ phase = "recover" /\ phase' = phase
        /\ UNCHANGED <<unwritten, closedSeen, outage, stuck, rested, disturbances, torn>>
    BY <1>5 DEF SafeClose, clockVars, countVars
  <2> QED
    BY <2>3, <2>4, <2>5, <2>6 DEF TickInv
<1>6. CASE Dispatch(p)
  <2>1. /\ phase' = "idle" => unwritten' = NoRecord /\ proc' = proc
        /\ phase' \in {"idle", "dispatch"} /\ plan = {} /\ At(p, "idle")
        /\ UNCHANGED <<plan, unwritten, closedSeen, sessions, closed, lost, outage, stuck,
                       rested, disturbances, torn>>
    BY <1>6 DEF Dispatch, Free, vars, runtimeVars, clockVars, countVars
  <2>2. phase' = "idle" => Resting'
    BY <2>1, OneAutopilot DEF OneProcess, Resting, At
  <2> QED
    BY <2>1, <2>2 DEF TickInv, Phase
<1>7. CASE TickEnds(p)
  <2>1. /\ phase' = "idle" /\ phase = "dispatch" /\ Free(p) /\ proc' = proc
        /\ UNCHANGED <<plan, unwritten, closedSeen, sessions, closed, lost, outage, stuck,
                       rested, disturbances, torn>>
    BY <1>7 DEF TickEnds, vars, runtimeVars, clockVars, countVars
  <2>2. Resting'
    BY <2>1, OneAutopilot DEF OneProcess, Resting, Free, At
  <2> QED
    BY <2>1, <2>2 DEF TickInv, Phase
<1>8. CASE CloseThrows(p)
  <2>1. /\ Free(p) /\ TickAborts /\ proc' = proc
        /\ UNCHANGED <<sessions, closed, runtimeVars, clockVars, countVars>>
    BY <1>8 DEF CloseThrows, vars
  <2>2. \A q \in Procs : proc'[q].at = "idle"
    BY <2>1, OneAutopilot DEF OneProcess, Free, At
  <2>3. disturbances' \in 0..MaxDisturbances /\ torn' \in BOOLEAN
    BY <2>1 DEF TickInv, countVars
  <2> QED
    BY <2>1, <2>2, <2>3, TickAborted
<1> QED
  BY <1>1, <1>2, <1>3, <1>4, <1>5, <1>6, <1>7, <1>8

LEMMA SessionAfterType ==
    ASSUME TickInv, NEW rec \in RunRecord
    PROVE  SessionAfter(rec) \in [RunIds -> RecordState]
<1>1. StateFromRunStatus(rec.task, rec.status) \in RecordState
  BY DEF StateFromRunStatus, RunRecord, RunStatus, RecordState
<1> QED
  BY <1>1 DEF SessionAfter, TickInv, RunRecord

\* An operation that is under way has a tick that it belongs to.
LEMMA OperationTyped ==
    ASSUME IInv, TickInv, NEW p \in Procs, OperationStep(p)
    PROVE  TickInv'
<1>1. proc[p].at # "idle"
  BY DEF OperationStep, Dispatching, Recording, Polling, Noting, Settling, Cancelling, Retrying,
         SkipTask, SkipForSession, PickTask, SpawnSession, CommitDispatch, ReloadForQueue,
         EnqueueOverflow, RecordRun, LoadForSync, Observe, NoteSynced, StampRun, WriteHistory,
         Settle, ApplyCancel, CancelSession, LoadForCancel, RereadRun, EvaluateRetry, RearmTask,
         BuryTask, At
<1>2. phase # "idle"
  BY <1>1 DEF TickInv, Resting, At
<1>3. \/ unwritten' = unwritten
      \/ unwritten' = proc[p].rec /\ proc[p].at \in {"record", "settle", "apply"}
  BY DEF OperationStep, Dispatching, Recording, Polling, Noting, Settling, Cancelling, Retrying,
         RecordRun, Settle, ApplyCancel, At
<1>4. unwritten' \in RunRecord \union {NoRecord}
  BY <1>3 DEF TickInv, IInv, Locals
<1>5. /\ closed' \in {closed, closed \ ({proc[p].rec.id} \ closedSeen)}
      /\ closedSeen' \in {closed, closedSeen}
  BY DEF OperationStep, Dispatching, Recording, Polling, Noting, Settling, Cancelling, Retrying,
         WritesOver
<1>6. closed' \subseteq RunIds /\ closedSeen' \subseteq RunIds
  BY <1>5 DEF TickInv
<1>7. UNCHANGED <<phase, plan, sessions, lost, outage, stuck, rested, disturbances, torn>>
  BY DEF OperationStep, runtimeVars, clockVars, countVars
<1> QED
  BY <1>2, <1>4, <1>6, <1>7 DEF TickInv

LEMMA WriteSessionTyped ==
    ASSUME IInv, TickInv, WriteSession
    PROVE  TickInv'
<1>1. unwritten \in RunRecord /\ phase # "idle"
  BY DEF WriteSession, TickInv, Resting
<1>2. sessions' \in [RunIds -> RecordState]
  BY <1>1, SessionAfterType DEF WriteSession
<1> QED
  BY <1>1, <1>2 DEF TickInv, WriteSession, runtimeVars, clockVars, countVars

LEMMA CommandTyped ==
    ASSUME IInv, TickInv, OperatorCommand
    PROVE  TickInv'
<1>1. disturbances' \in 0..MaxDisturbances
  BY DisturbanceCounts DEF OperatorCommand, SessionClose, SessionStatus, SessionCleanup
<1>2. UNCHANGED <<phase, plan, unwritten, closedSeen, proc, outage, stuck, rested>>
  BY DEF OperatorCommand, SessionClose, SessionStatus, SessionCleanup, tickVars, clockVars,
         runtimeVars, vars
<1>3. Resting => Resting'
  BY <1>2 DEF Resting, At
<1>4. ASSUME NEW rec \in ledger, SessionClose(rec)
      PROVE  TickInv'
  <2>1. rec \in RunRecord /\ rec.id \in RunIds
    BY LedgerKnown DEF RunRecord
  <2>2. sessions' \in [RunIds -> RecordState]
    BY <1>4, <2>1, SessionAfterType DEF SessionClose
  <2>3. lost' \subseteq RunIds /\ closed' \subseteq RunIds /\ torn' = torn
    BY <1>4, <2>1 DEF SessionClose, CloseRemote, TickInv
  <2> QED
    BY <1>1, <1>2, <1>3, <2>2, <2>3 DEF TickInv
<1>5. ASSUME NEW rec \in ledger, SessionStatus(rec)
      PROVE  TickInv'
  <2>1. PICK synced \in RunRecord : sessions' = SessionAfter(synced)
    BY <1>5, SessionStatusDoes
  <2>2. sessions' \in [RunIds -> RecordState]
    BY <2>1, SessionAfterType
  <2>3. torn' \in BOOLEAN /\ UNCHANGED <<closed, lost>>
    BY <1>5 DEF SessionStatus, TickInv, runtimeVars
  <2> QED
    BY <1>1, <1>2, <1>3, <2>2, <2>3 DEF TickInv
<1>6. CASE SessionCleanup
  <2>1. sessions' \in [RunIds -> RecordState] /\ UNCHANGED <<closed, lost, torn>>
    BY <1>6 DEF SessionCleanup, TickInv, RecordState, runtimeVars
  <2> QED
    BY <1>1, <1>2, <1>3, <2>1 DEF TickInv
<1> QED
  BY <1>4, <1>5, <1>6 DEF OperatorCommand

LEMMA OutsideTyped ==
    ASSUME IInv, TickInv, NEW r \in RunIds,
           RemoteEnds(r) \/ OutageBegins(r) \/ OutageEnds(r) \/ GrowsStuck(r) \/ GrowsStale(r)
    PROVE  TickInv'
<1>1. UNCHANGED <<phase, plan, unwritten, closedSeen, proc, sessions, closed, lost, torn>>
  BY DEF RemoteEnds, SessionEnds, OutageBegins, OutageEnds, GrowsStuck, GrowsStale, tickVars,
         vars, runtimeVars, countVars
<1>2. Resting => Resting'
  BY <1>1 DEF Resting, At
<1>3. outage' \subseteq RunIds
  BY DEF TickInv, RemoteEnds, OutageBegins, OutageEnds, GrowsStuck, GrowsStale, runtimeVars
<1>4. stuck' \subseteq RunIds /\ rested' \subseteq RunIds
  BY DEF TickInv, RemoteEnds, OutageBegins, OutageEnds, GrowsStuck, GrowsStale, clockVars
<1>5. disturbances' \in 0..MaxDisturbances
  <2>1. CASE OutageBegins(r)
    BY <2>1, DisturbanceCounts DEF OutageBegins
  <2>2. CASE ~OutageBegins(r)
    BY <2>2 DEF TickInv, RemoteEnds, OutageEnds, GrowsStuck, GrowsStale, countVars
  <2> QED
    BY <2>1, <2>2
<1> QED
  BY <1>1, <1>2, <1>3, <1>4, <1>5 DEF TickInv

----------------------------------------------------------------------------
\* Every step of the autopilot, and of what is around it, keeps both invariants.

LEMMA OperationIs ==
    ASSUME NEW p \in Procs, OperationStep(p)
    PROVE  \/ Steps(p)
           \/ \E t \in Tasks : SkipForSession(p, t)
           \/ AnswerByLedger(p)
BY DEF OperationStep, Dispatching, Recording, Polling, Noting, Settling, Cancelling, Retrying,
       Steps, DispatchStep, SyncStep, CancelStep, RetryStep, AnswerByLedger

LEMMA OperationKeeps ==
    ASSUME IInv, NEW p \in Procs, OperationStep(p)
    PROVE  IInv'
BY OperationIs, StepsKeep, SkipForSessionKeeps, AnswerByLedgerKeeps

LEMMA StutterKeeps ==
    ASSUME IInv, UNCHANGED vars
    PROVE  IInv'
BY DEF vars, IInv, Files

LEMMA TickKeeps ==
    ASSUME IInv, TickInv, NEW p \in Procs,
           TickStep(p) \/ SpawnThrows(p) \/ Killed(p)
    PROVE  IInv' /\ TickInv'
<1>1. CASE TickBegins(p) \/ PlanRecovery(p) \/ Dispatch(p) \/ TickEnds(p) \/ CloseThrows(p)
  <2>1. TickInv'
    BY <1>1, PhaseTyped
  <2>2. \/ StartSyncActive(p)
        \/ StartBatch(p, MaxDispatch, "task")
        \/ UNCHANGED vars
    BY <1>1 DEF TickBegins, PlanRecovery, Dispatch, TickEnds, CloseThrows
  <2>3. CASE StartBatch(p, MaxDispatch, "task")
    BY <2>1, <2>3, StartBatchKeeps
  <2> QED
    BY <2>1, <2>2, <2>3, StartSyncKeeps, StutterKeeps
<1>2. CASE Review(p) \/ SafeCancel(p)
  BY <1>2, PhaseTyped, ReviewKeeps, SafeCancelKeeps
<1>3. CASE SafeClose(p)
  <2>1. PICK action \in plan : CloseRemote(action.run)
    BY <1>3 DEF SafeClose
  <2>2. action.run \in RunIds /\ UNCHANGED <<wf, ledger, manualAt, nextRun, proc>>
    BY <1>3 DEF TickInv, Recovery, SafeClose
  <2> QED
    BY <1>3, <2>1, <2>2, PhaseTyped, ClosingKeeps
<1>4. CASE OperationStep(p)
  BY <1>4, OperationTyped, OperationKeeps
<1>5. CASE WriteSession
  BY <1>5, WriteSessionTyped, StutterKeeps DEF WriteSession
<1>6. CASE CallThrows(p) \/ SpawnThrows(p) \/ SpawnRefused(p)
  BY <1>6, AbortsTick, AbandonKeeps DEF CallThrows, SpawnThrows, SpawnRefused
<1>7. CASE Killed(p)
  <2>1. Become(p, Idle) /\ UNCHANGED <<wf, ledger, manualAt, remote, nextRun>>
    BY <1>7 DEF Killed
  <2> QED
    BY <1>7, <2>1, AbortsTick, IdleFits, LocalStepKeeps
<1> QED
  BY <1>1, <1>2, <1>3, <1>4, <1>5, <1>6, <1>7 DEF TickStep

LEMMA CommandKeeps ==
    ASSUME IInv, TickInv, OperatorCommand
    PROVE  IInv' /\ TickInv'
<1>1. ASSUME NEW rec \in ledger, SessionClose(rec)
      PROVE  IInv'
  <2>1. rec.id \in RunIds /\ CloseRemote(rec.id)
        /\ UNCHANGED <<wf, ledger, manualAt, nextRun, proc>>
    BY <1>1, LedgerKnown DEF RunRecord, SessionClose
  <2> QED
    BY <2>1, ClosingKeeps
<1>2. CASE SessionCleanup
  BY <1>2, CommandTyped, StutterKeeps DEF SessionCleanup
<1> QED
  BY <1>1, <1>2, SessionStatusKeeps, CommandTyped DEF OperatorCommand

LEMMA OutsideKeeps ==
    ASSUME IInv, TickInv,
           Time \/ \E r \in RunIds : RemoteEnds(r) \/ OutageBegins(r) \/ OutageEnds(r)
    PROVE  IInv' /\ TickInv'
<1>1. PICK r \in RunIds : \/ RemoteEnds(r) \/ OutageBegins(r) \/ OutageEnds(r)
                          \/ GrowsStuck(r) \/ GrowsStale(r)
  BY DEF Time
<1>2. SessionEnds(r) \/ UNCHANGED vars
  BY <1>1 DEF RemoteEnds, OutageBegins, OutageEnds, GrowsStuck, GrowsStale
<1> QED
  BY <1>1, <1>2, OutsideTyped, SessionEndsKeeps, StutterKeeps

LEMMA AutopilotNextKeeps == IInv /\ TickInv /\ [AutopilotNext]_autopilotVars => IInv' /\ TickInv'
<1> SUFFICES ASSUME IInv, TickInv, [AutopilotNext]_autopilotVars
             PROVE  IInv' /\ TickInv'
  OBVIOUS
<1>1. CASE UNCHANGED autopilotVars
  <2>1. UNCHANGED vars
    BY <1>1 DEF autopilotVars
  <2>2. TickInv'
    BY <1>1 DEF autopilotVars, tickVars, runtimeVars, clockVars, countVars, vars, TickInv,
                Resting, At
  <2> QED
    BY <2>1, <2>2, StutterKeeps
<1>2. CASE AutopilotNext
  BY <1>2, TickKeeps, CommandKeeps, OutsideKeeps, AutopilotAssumption DEF AutopilotNext
<1> QED
  BY <1>1, <1>2

LEMMA AutopilotInitEstablishes == AutopilotInit => IInv /\ TickInv
<1> SUFFICES ASSUME AutopilotInit
             PROVE  IInv /\ TickInv
  OBVIOUS
<1>1. IInv
  BY InitEstablishes DEF AutopilotInit
<1>2. Resting
  BY IdleIs DEF AutopilotInit, Init, Resting, At
<1>3. 0 \in 0..MaxDisturbances
  BY AutopilotAssumption
<1>4. sessions \in [RunIds -> RecordState]
  BY DEF AutopilotInit, RecordState
<1> QED
  BY <1>1, <1>2, <1>3, <1>4 DEF AutopilotInit, TickInv, Phase

LEMMA AutopilotInvariance == AutopilotSpec => [](IInv /\ TickInv)
<1>1. AutopilotInit => IInv /\ TickInv
  BY AutopilotInitEstablishes
<1>2. (IInv /\ TickInv) /\ [AutopilotNext]_autopilotVars => (IInv /\ TickInv)'
  BY AutopilotNextKeeps
<1> QED
  BY <1>1, <1>2, PTL DEF AutopilotSpec

----------------------------------------------------------------------------
\* For every task graph, configuration and behaviour of the runtime:

\* The tick, the session records and the files keep their types, and between
\* two ticks nothing of one is left over: no plan, no operation, no late write.
THEOREM AutopilotTyped == AutopilotSpec => []AutopilotTypeOK
<1>1. IInv /\ TickInv => AutopilotTypeOK
  <2> SUFFICES ASSUME IInv, TickInv
               PROVE  AutopilotTypeOK
    OBVIOUS
  <2>1. TypeOK
    BY DEF IInv, FilesFit, Files, TypeOK
  <2> QED
    BY <2>1 DEF TickInv, Phase, Resting, AutopilotTypeOK
<1> QED
  BY <1>1, AutopilotInvariance, PTL

----------------------------------------------------------------------------
\* Nothing speaks of a run that was never started, and what the runtime has
\* forgotten is not at work.

BegunInv ==
    /\ \A r \in RunIds : remote[r].state # "none" \/ sessions[r] # "none" => r < nextRun
    /\ unwritten # NoRecord => unwritten.id < nextRun
    /\ \A action \in plan : action.run < nextRun
    /\ \A r \in lost : r < nextRun /\ ~Live(r)

LEMMA LedgerBegun ==
    ASSUME IInv, NEW rec \in ledger
    PROVE  rec \in RunRecord /\ rec.id \in RunIds /\ rec.task \in Tasks /\ rec.id < nextRun
<1>1. rec \in RunRecord /\ rec.task \in Tasks /\ Known(rec, Files)
  BY LedgerKnown
<1>2. rec.id < Files.nextRun
  BY <1>1 DEF Known, Spawned
<1> QED
  BY <1>1, <1>2 DEF RunRecord, Files

\* The record that an operation is about to write is of a run that was started.
LEMMA AtHandBegun ==
    ASSUME IInv, NEW p \in Procs,
           \/ proc[p].at = "record" /\ proc[p].runner = "acp"
           \/ proc[p].at \in RunSteps
    PROVE  /\ proc[p].rec \in RunRecord /\ proc[p].rec.id \in RunIds
           /\ proc[p].rec.id < nextRun /\ Spawned(proc[p].rec, Files)
           /\ proc[p].rec.task = proc[p].task /\ proc[p].task \in Tasks
<1>1. LocalsFit(proc[p], Files)
  BY DEF IInv
<1>2. Spawned(proc[p].rec, Files) /\ proc[p].rec.task = proc[p].task
  BY <1>1 DEF LocalsFit, Known
<1>3. Files.nextRun = nextRun
  BY DEF Files
<1> QED
  BY <1>2, <1>3 DEF Spawned, RunRecord

LEMMA SessionAfterBegun ==
    ASSUME TickInv, BegunInv, NEW rec \in RunRecord, rec.id < nextRun
    PROVE  \A r \in RunIds : SessionAfter(rec)[r] # "none" => r < nextRun
BY DEF TickInv, BegunInv, SessionAfter

\* Sessions that were started end, or are forgotten once they have.
LEMMA EndingBegun ==
    ASSUME IInv, BegunInv, NEW r \in RunIds, NEW state \in SessionState \ {"running"},
           remote' = [remote EXCEPT ![r].state = state], r < nextRun,
           lost' \in {lost, lost \union {r}}, nextRun' = nextRun
    PROVE  /\ \A s \in RunIds : remote'[s].state # "none" => s < nextRun'
           /\ lost \subseteq RunIds => \A s \in lost' : s < nextRun' /\ ~Live(s)'
BY DEF BegunInv, Live, IInv, FilesFit, Files

LEMMA SpawnBegun ==
    ASSUME IInv, TickInv, BegunInv, NEW p \in Procs, SpawnSession(p),
           UNCHANGED <<unwritten, plan, sessions, lost>>
    PROVE  BegunInv'
<1>1. /\ nextRun \in RunIds /\ nextRun' = nextRun + 1
      /\ remote' = [remote EXCEPT ![nextRun] = [task |-> proc[p].task, state |-> "running"]]
  BY SpawnSessionDoes
<1>2. /\ remote \in [RunIds -> [task : Tasks \union {0}, state : SessionState]]
      /\ lost \subseteq RunIds
  BY DEF IInv, FilesFit, Files, TickInv
<1>3. nextRun \in Nat /\ RunIds \subseteq Nat
  BY <1>1, OrchestratorAssumption DEF RunIds
<1>4. \A r \in RunIds : r # nextRun => remote'[r] = remote[r]
  BY <1>1, <1>2
<1>5. \A r \in RunIds : r < nextRun => r < nextRun' /\ r # nextRun
  BY <1>1, <1>3
<1>6. nextRun < nextRun'
  BY <1>1, <1>3
<1>7. \A r \in RunIds : remote'[r].state # "none" \/ sessions'[r] # "none" => r < nextRun'
  BY <1>4, <1>5, <1>6 DEF BegunInv
<1>8. \A r \in lost' : r < nextRun' /\ ~Live(r)'
  BY <1>2, <1>4, <1>5 DEF BegunInv, Live
<1>9. unwritten' # NoRecord => unwritten'.id < nextRun'
  <2>1. unwritten # NoRecord => unwritten.id \in RunIds
    BY DEF TickInv, RunRecord
  <2> QED
    BY <2>1, <1>5 DEF BegunInv
<1>10. \A action \in plan' : action.run < nextRun'
  <2>1. \A action \in plan : action.run \in RunIds
    BY DEF TickInv, Recovery
  <2> QED
    BY <2>1, <1>5 DEF BegunInv
<1> QED
  BY <1>7, <1>8, <1>9, <1>10 DEF BegunInv

LEMMA OperationBegun ==
    ASSUME IInv, TickInv, BegunInv, NEW p \in Procs, OperationStep(p)
    PROVE  BegunInv'
<1>1. UNCHANGED <<plan, sessions, lost>>
  BY DEF OperationStep, runtimeVars
<1>2. CASE SpawnSession(p)
  <2>1. unwritten' = unwritten
    BY <1>2 DEF OperationStep, Dispatching, Recording, Polling, Noting, Settling, Cancelling,
                Retrying, RecordRun, Settle, ApplyCancel, SpawnSession, At
  <2> QED
    BY <1>1, <1>2, <2>1, SpawnBegun
<1>3. CASE CancelSession(p)
  <2>1. unwritten' = unwritten
    BY <1>3 DEF OperationStep, Dispatching, Recording, Polling, Noting, Settling, Cancelling,
                Retrying, RecordRun, Settle, ApplyCancel, CancelSession, At
  <2>2. proc[p].at = "cancel" /\ proc[p].at \in RunSteps
    BY <1>3 DEF CancelSession, At, RunSteps
  <2>3. proc[p].rec.id \in RunIds /\ proc[p].rec.id < nextRun
    BY <2>2, AtHandBegun
  <2>4. PICK state \in SessionState \ {"running"} :
           remote' = [remote EXCEPT ![proc[p].rec.id].state = state]
    BY <1>3, CancelSessionDoes
  <2>5. nextRun' = nextRun /\ lost \subseteq RunIds
    BY <1>3 DEF CancelSession, TickInv
  <2> HIDE DEF BegunInv
  <2>6. /\ \A s \in RunIds : remote'[s].state # "none" => s < nextRun'
        /\ \A s \in lost' : s < nextRun' /\ ~Live(s)'
    BY <1>1, <2>3, <2>4, <2>5, EndingBegun
  <2> QED
    BY <1>1, <2>1, <2>5, <2>6 DEF BegunInv
<1>4. CASE ~SpawnSession(p) /\ ~CancelSession(p)
  <2>1. UNCHANGED <<remote, nextRun>>
    BY <1>4 DEF OperationStep, Dispatching, Recording, Polling, Noting, Settling, Cancelling,
         Retrying, SkipTask, SkipForSession, PickTask, CommitDispatch, ReloadForQueue,
         EnqueueOverflow, RecordRun, LoadForSync, Observe, NoteSynced, StampRun, WriteHistory,
         Settle, ApplyCancel, LoadForCancel, RereadRun, EvaluateRetry, RearmTask, BuryTask
  <2>2. \/ unwritten' = unwritten
        \/ /\ unwritten' = proc[p].rec
           /\ \/ proc[p].at = "record" /\ proc[p].runner = "acp"
              \/ proc[p].at \in RunSteps
    BY DEF OperationStep, Dispatching, Recording, Polling, Noting, Settling, Cancelling,
           Retrying, RecordRun, Settle, ApplyCancel, At, RunSteps
  <2>3. unwritten' # NoRecord => unwritten'.id < nextRun
    BY <2>2, AtHandBegun DEF BegunInv
  <2> QED
    BY <1>1, <2>1, <2>3 DEF BegunInv, Live
<1> QED
  BY <1>2, <1>3, <1>4

LEMMA PhaseBegun ==
    ASSUME IInv, TickInv, BegunInv, NEW p \in Procs,
           \/ TickBegins(p) \/ Review(p) \/ PlanRecovery(p) \/ SafeCancel(p) \/ SafeClose(p)
           \/ Dispatch(p) \/ TickEnds(p) \/ CloseThrows(p)
           \/ CallThrows(p) \/ SpawnThrows(p) \/ SpawnRefused(p) \/ Killed(p)
    PROVE  BegunInv'
<1>1. CASE PlanRecovery(p)
  <2>1. \A rec \in ledger : rec.id < nextRun
    BY LedgerBegun
  <2>2. \A r \in rested : sessions[r] = "idle" => r < nextRun
    BY DEF TickInv, BegunInv
  <2>3. \A action \in plan' : action.run < nextRun
    BY <1>1, <2>1, <2>2 DEF PlanRecovery
  <2> QED
    BY <1>1, <2>3 DEF PlanRecovery, BegunInv, vars, runtimeVars, Live
<1>2. CASE SafeClose(p)
  <2>1. PICK action \in plan :
           LET r == action.run
           IN  /\ CloseRemote(r)
               /\ sessions' = [sessions EXCEPT ![r] = "closed"]
               /\ plan' = plan \ {action}
    BY <1>2 DEF SafeClose
  <2>2. action.run \in RunIds /\ action.run < nextRun /\ lost \subseteq RunIds
    BY DEF TickInv, Recovery, BegunInv
  <2>3. nextRun' = nextRun /\ unwritten' = unwritten
    BY <1>2 DEF SafeClose
  <2>4. /\ \A s \in RunIds : remote'[s].state # "none" => s < nextRun'
        /\ \A s \in lost' : s < nextRun' /\ ~Live(s)'
    <3> HIDE DEF BegunInv
    <3>1. PICK state \in SessionState \ {"running"} :
             remote' = [remote EXCEPT ![action.run].state = state]
      BY <2>1, <2>2, CloseRemoteDoes
    <3>2. lost' \in {lost, lost \union {action.run}}
      BY <2>1, <2>2, CloseRemoteDoes
    <3> QED
      BY <2>2, <2>3, <3>1, <3>2, EndingBegun
  <2>5. \A s \in RunIds : sessions'[s] # "none" => s < nextRun'
    BY <2>1, <2>2, <2>3 DEF BegunInv, TickInv
  <2>6. \A a \in plan' : a.run < nextRun'
    BY <2>1, <2>3 DEF BegunInv
  <2> QED
    BY <2>3, <2>4, <2>5, <2>6 DEF BegunInv
<1>3. CASE ~PlanRecovery(p) /\ ~SafeClose(p)
  <2>1. UNCHANGED <<remote, nextRun>>
    BY <1>3 DEF TickBegins, Review, SafeCancel, Dispatch, TickEnds, CloseThrows, CallThrows,
         SpawnThrows, SpawnRefused, Killed, StartSyncActive, StartBatch, RuntimeCallFails, vars
  <2>2. UNCHANGED <<sessions, lost>>
    BY <1>3 DEF TickBegins, Review, SafeCancel, Dispatch, TickEnds, CloseThrows, CallThrows,
         SpawnThrows, SpawnRefused, Killed, runtimeVars
  <2>3. unwritten' \in {unwritten, NoRecord} /\ plan' \subseteq plan
    BY <1>3 DEF TickBegins, Review, SafeCancel, Dispatch, TickEnds, CloseThrows, CallThrows,
         SpawnThrows, SpawnRefused, Killed, TickAborts
  <2> QED
    BY <2>1, <2>2, <2>3 DEF BegunInv, Live
<1> QED
  BY <1>1, <1>2, <1>3

LEMMA CommandBegun ==
    ASSUME IInv, TickInv, BegunInv, OperatorCommand
    PROVE  BegunInv'
<1>1. UNCHANGED <<unwritten, plan, nextRun>>
  BY DEF OperatorCommand, SessionClose, SessionStatus, SessionCleanup, tickVars, vars
<1>2. ASSUME NEW rec \in ledger, SessionClose(rec)
      PROVE  BegunInv'
  <2>1. rec \in RunRecord /\ rec.id \in RunIds /\ rec.id < nextRun /\ lost \subseteq RunIds
    BY LedgerBegun DEF TickInv
  <2>2. CloseRemote(rec.id) /\ sessions' = SessionAfter(rec)
    BY <1>2 DEF SessionClose
  <2>3. /\ \A s \in RunIds : remote'[s].state # "none" => s < nextRun'
        /\ \A s \in lost' : s < nextRun' /\ ~Live(s)'
    <3> HIDE DEF BegunInv
    <3>1. PICK state \in SessionState \ {"running"} :
             remote' = [remote EXCEPT ![rec.id].state = state]
      BY <2>1, <2>2, CloseRemoteDoes
    <3>2. lost' \in {lost, lost \union {rec.id}}
      BY <2>1, <2>2, CloseRemoteDoes
    <3> QED
      BY <1>1, <2>1, <3>1, <3>2, EndingBegun
  <2>4. \A s \in RunIds : sessions'[s] # "none" => s < nextRun'
    BY <1>1, <2>1, <2>2, SessionAfterBegun
  <2> QED
    BY <1>1, <2>3, <2>4 DEF BegunInv
<1>3. ASSUME NEW rec \in ledger, SessionStatus(rec)
      PROVE  BegunInv'
  <2>1. PICK synced \in RunRecord : synced.id = rec.id /\ sessions' = SessionAfter(synced)
    BY <1>3, SessionStatusDoes
  <2>2. rec.id < nextRun
    BY LedgerBegun
  <2>3. \A s \in RunIds : sessions'[s] # "none" => s < nextRun'
    BY <1>1, <2>1, <2>2, SessionAfterBegun
  <2>4. UNCHANGED <<remote, lost>>
    BY <1>3 DEF SessionStatus, runtimeVars
  <2> QED
    BY <1>1, <2>3, <2>4 DEF BegunInv, Live
<1>4. CASE SessionCleanup
  <2>1. \A s \in RunIds : sessions'[s] # "none" => sessions[s] # "none"
    BY <1>4 DEF SessionCleanup
  <2>2. UNCHANGED <<remote, lost>>
    BY <1>4 DEF SessionCleanup, vars, runtimeVars
  <2> QED
    BY <1>1, <2>1, <2>2 DEF BegunInv, Live
<1> QED
  BY <1>2, <1>3, <1>4 DEF OperatorCommand

LEMMA OutsideBegun ==
    ASSUME IInv, TickInv, BegunInv, NEW r \in RunIds,
           RemoteEnds(r) \/ OutageBegins(r) \/ OutageEnds(r) \/ GrowsStuck(r) \/ GrowsStale(r)
    PROVE  BegunInv'
<1>1. UNCHANGED <<unwritten, plan, nextRun, sessions, lost>>
  BY DEF RemoteEnds, SessionEnds, OutageBegins, OutageEnds, GrowsStuck, GrowsStale, tickVars,
         vars, runtimeVars
<1>2. CASE RemoteEnds(r)
  <2>1. /\ \E state \in {"clean", "broken"} : remote' = [remote EXCEPT ![r].state = state]
        /\ remote[r].state = "running"
    BY <1>2 DEF RemoteEnds, SessionEnds
  <2>2. PICK state \in SessionState \ {"running"} : remote' = [remote EXCEPT ![r].state = state]
    BY <2>1 DEF SessionState
  <2>3. r < nextRun /\ lost \subseteq RunIds
    BY <2>1 DEF BegunInv, TickInv
  <2>4. /\ \A s \in RunIds : remote'[s].state # "none" => s < nextRun'
        /\ \A s \in lost' : s < nextRun' /\ ~Live(s)'
    BY <1>1, <2>2, <2>3, EndingBegun
  <2> QED
    BY <1>1, <2>4 DEF BegunInv
<1>3. CASE ~RemoteEnds(r)
  <2>1. remote' = remote
    BY <1>3 DEF OutageBegins, OutageEnds, GrowsStuck, GrowsStale, vars
  <2> QED
    BY <1>1, <2>1 DEF BegunInv, Live
<1> QED
  BY <1>2, <1>3

LEMMA NextBegun ==
    ASSUME IInv, TickInv, BegunInv, [AutopilotNext]_autopilotVars
    PROVE  BegunInv'
<1>1. CASE UNCHANGED autopilotVars
  BY <1>1 DEF autopilotVars, tickVars, runtimeVars, vars, BegunInv, Live
<1>2. CASE WriteSession
  <2>1. unwritten \in RunRecord /\ unwritten.id < nextRun /\ sessions' = SessionAfter(unwritten)
    BY <1>2 DEF WriteSession, TickInv, BegunInv
  <2>2. \A s \in RunIds : sessions'[s] # "none" => s < nextRun
    BY <2>1, SessionAfterBegun
  <2> QED
    BY <1>2, <2>2 DEF WriteSession, vars, runtimeVars, BegunInv, Live
<1>3. CASE AutopilotNext /\ ~WriteSession
  BY <1>3, OperationBegun, PhaseBegun, CommandBegun, OutsideBegun, AutopilotAssumption
     DEF AutopilotNext, TickStep, Time
<1> QED
  BY <1>1, <1>2, <1>3

LEMMA InitBegun == AutopilotInit => BegunInv
BY DEF AutopilotInit, Init, BegunInv, NoSession

----------------------------------------------------------------------------
\* What the steps that the autopilot adds leave its process with.

LEMMA SkipForSessionDoes ==
    ASSUME IInv, NEW p \in Procs, NEW t \in Tasks, SkipForSession(p, t)
    PROVE  /\ proc[p].at = "pick" /\ proc'[p].at \in {"pick", "reload", "idle"}
           /\ proc'[p].polls = {} /\ proc'[p].override \in {proc[p].override, "task"}
           /\ UNCHANGED <<wf, ledger, manualAt, remote, nextRun>>
<1> DEFINE k == [proc[p] EXCEPT !.todo = @ \ {t}]
<1>1. k \in Locals /\ k.override = proc[p].override
  BY DEF IInv, Locals
<1>2. /\ proc[p].at = "pick" /\ Become(p, AfterRunOnce(k))
      /\ UNCHANGED <<wf, ledger, manualAt, remote, nextRun>>
  BY DEF SkipForSession, At
<1> HIDE DEF k
<1>3. proc'[p] = AfterRunOnce(k)
  BY <1>2, Becomes
<1> QED
  BY <1>1, <1>2, <1>3, AfterRunOnceIs

LEMMA SafeCancelDoes ==
    ASSUME IInv, NEW p \in Procs, SafeCancel(p)
    PROVE  /\ proc[p].at = "idle" /\ unwritten = NoRecord
           /\ proc'[p].at = "cancel" /\ proc'[p].rec \in ledger /\ Rested(proc'[p])
           /\ UNCHANGED <<wf, ledger, manualAt, remote, nextRun>>
<1>1. PICK rec \in ledger : Become(p, [Idle EXCEPT !.at = "cancel", !.task = rec.task,
                                                  !.rec = rec, !.recovery = TRUE])
  BY DEF SafeCancel
<1> DEFINE l == [Idle EXCEPT !.at = "cancel", !.task = rec.task, !.rec = rec,
                             !.recovery = TRUE]
<1>2. /\ l.at = "cancel" /\ l.rec = rec /\ l.todo = Idle.todo /\ l.overflow = Idle.overflow
      /\ l.polls = Idle.polls /\ l.override = Idle.override
  BY DEF Idle
<1>3. Become(p, l)
  BY <1>1
<1> HIDE DEF l
<1>4. proc'[p] = l
  BY <1>3, Becomes
<1> QED
  BY <1>2, <1>4, IdleIs DEF SafeCancel, Free, At, Rested

----------------------------------------------------------------------------
\* Nothing is done that was not earned.

\* m stands for the sessions, remote: a session of the task ended without an error.
EarnedIn(t, m) == \E r \in RunIds : m[r].task = t /\ m[r].state = "clean"

Merited(w, m) == \A t \in Tasks : w.status[t] = "done" => EarnedIn(t, m)

\* A record says completed only of a session that ended without an error.
Proven(rec, m) == rec.status = "completed" => m[rec.id].state = "clean"

RecordSteps == ReportSteps \union CancelSteps \union {"record", "retry", "history"}

\* Nor will it be by what the process has read.
Deserves(l, m) ==
    /\ l.at \in SaveSteps => Merited(l.snap, m)
    /\ \A rec \in l.polls : Proven(rec, m)
    /\ l.at \in RecordSteps => Proven(l.rec, m)
    /\ l.override = "task"
    /\ l.at \in LaunchSteps => l.runner = "acp"

EarnedInv ==
    /\ Merited(wf, remote)
    /\ \A rec \in ledger : Proven(rec, remote)
    /\ \A p \in Procs : Deserves(proc[p], remote)

\* The end of a session is final.
Lasting(m, n) == \A r \in RunIds : m[r].state = "clean" => n[r] = m[r]

LEMMA MovesMerited ==
    ASSUME NEW w \in Workflow, NEW v, NEW m, Merited(w, m), NEW t \in Tasks,
           NEW next \in TaskStatus \ {"planned"}, Moves(w, v, t, next),
           next = "done" => EarnedIn(t, m)
    PROVE  Merited(v, m)
<1>1. v.status[t] = next
  BY MovesTo
<1>2. \A u \in Tasks : u # t => \/ v.status[u] = w.status[u]
                                \/ w.status[u] = "planned" /\ v.status[u] = "ready"
  <2>1. \E n \in TaskStatus \ {"planned"} : Moves(w, v, t, n)
    OBVIOUS
  <2> QED
    BY <2>1, MovesLeaveOthers
<1> QED
  BY <1>1, <1>2 DEF Merited

LEMMA ReportMerited ==
    ASSUME NEW w \in Workflow, NEW m, Merited(w, m), NEW t \in Tasks, NEW s \in RunStatus,
           s = "completed" => EarnedIn(t, m)
    PROVE  Merited(ApplyRunStatus(w, t, s), m)
<1>1. CASE s = "completed"
  BY <1>1, ReportMoves, MovesMerited
<1>2. Moves(w, RunActive(w, t), t, "running")
  BY DEF RunActive, Workflow, Moves
<1>3. Moves(w, RunFailed(w, t), t, "review_required")
  BY DEF RunFailed, Workflow, Moves
<1>4. Moves(w, RunCancelled(w, t), t, "blocked")
  BY DEF RunCancelled, Workflow, Moves
<1>5. Merited(RunActive(w, t), m) /\ Merited(RunFailed(w, t), m) /\ Merited(RunCancelled(w, t), m)
  BY <1>2, <1>3, <1>4, MovesMerited DEF TaskStatus
<1> QED
  BY <1>1, <1>5 DEF ApplyRunStatus, RunStatus

LEMMA DispatchMerited ==
    ASSUME NEW w \in Workflow, NEW m, Merited(w, m), NEW t \in Tasks
    PROVE  Merited(Dispatched(w, t, "acp"), m)
<1>1. PICK next \in TaskStatus \ {"planned"} : Moves(w, Dispatched(w, t, "acp"), t, next)
  BY DispatchMoves
<1>2. next = "running"
  BY <1>1, MovesTo, DispatchRuns
<1> QED
  BY <1>1, <1>2, MovesMerited

LEMMA RetryMerited ==
    ASSUME NEW w \in Workflow, NEW m, Merited(w, m), NEW t \in Tasks
    PROVE  Merited(RearmedForRetry(w, t), m) /\ Merited(DeadLettered(w, t), m)
BY RetryMoves, MovesMerited DEF TaskStatus

LEMMA QueueMerited ==
    ASSUME NEW w \in Workflow, NEW m, Merited(w, m), NEW S
    PROVE  Merited(MarkQueued(w, S), m)
BY DEF MarkQueued, Merited, Workflow

LEMMA LastingKeeps ==
    ASSUME NEW m, NEW n, Lasting(m, n)
    PROVE  /\ \A w : Merited(w, m) => Merited(w, n)
           /\ \A rec \in RunRecord : Proven(rec, m) => Proven(rec, n)
BY DEF Lasting, Merited, EarnedIn, Proven, RunRecord

LEMMA DecisionMerited ==
    ASSUME NEW w \in Workflow, NEW m, Merited(w, m), NEW t \in Tasks,
           NEW decision \in ReviewDecision, decision = "approve" => EarnedIn(t, m)
    PROVE  Merited(ApplyReviewDecision(w, t, decision), m)
<1>1. PICK next \in {"done", "ready", "blocked"} :
         /\ Moves(w, ApplyReviewDecision(w, t, decision), t, next)
         /\ next = "done" => decision = "approve"
  BY DecisionMoves
<1> QED
  BY <1>1, MovesMerited DEF TaskStatus

\* There is a newest among the records of a task.
LEMMA LatestExists ==
    ASSUME IInv, NEW t, Records(t) # {}
    PROVE  \E rec \in Records(t) : IsLatest(rec, Records(t))
<1> DEFINE T == {MaxRuns - rec.id : rec \in Records(t)}
<1>1. \A rec \in Records(t) : rec \in ledger /\ rec.id \in Nat /\ MaxRuns - rec.id \in Nat
  BY LedgerKnown, OrchestratorAssumption DEF Records, RunRecord, RunIds
<1>2. T \in SUBSET Nat /\ T # {}
  BY <1>1
<1>3. PICK x \in T : \A y \in T : x <= y
  BY <1>2, NatMin
<1>4. PICK rec \in Records(t) : x = MaxRuns - rec.id
  BY <1>3
<1>5. \A other \in Records(t) : MaxRuns - rec.id <= MaxRuns - other.id
  BY <1>3, <1>4
<1>6. \A other \in Records(t) : other.id <= rec.id
  BY <1>1, <1>5, OrchestratorAssumption
<1> QED
  BY <1>6 DEF IsLatest

\* The policy approves only what its newest run has earned.
LEMMA ApprovalIsEarned ==
    ASSUME IInv, EarnedInv, NEW t \in Tasks, PolicyDecision(t) = "approve"
    PROVE  EarnedIn(t, remote)
<1>1. Records(t) # {}
  BY DEF PolicyDecision
<1>2. PICK rec \in Records(t) : IsLatest(rec, Records(t))
  BY <1>1, LatestExists
<1>3. rec.status = "completed"
  BY <1>1, <1>2 DEF PolicyDecision
<1>4. rec \in ledger /\ rec.task = t
  BY DEF Records
<1>5. Known(rec, Files) /\ rec \in RunRecord
  BY <1>4, LedgerKnown
<1>6. remote[rec.id].task = t /\ rec.id \in RunIds
  BY <1>4, <1>5 DEF Known, Spawned, RunRecord, Files
<1>7. remote[rec.id].state = "clean"
  BY <1>3, <1>4 DEF EarnedInv, Proven
<1> QED
  BY <1>6, <1>7 DEF EarnedIn

LEMMA ReviewMerited ==
    ASSUME IInv, EarnedInv, NEW p \in Procs, Review(p)
    PROVE  Merited(wf', remote)
<1> DEFINE decided == {t \in wf.reviewQueue : PolicyDecision(t) # "escalate"}
           Good    == {v \in Workflow : Merited(v, remote)}
<1>1. PICK order \in Seq(decided) : wf' = DecidedOn(order)
  BY QueueIsFinite, ReviewDecides
<1>2. wf \in Good
  BY DEF IInv, EarnedInv
<1>3. ASSUME NEW v \in Good, NEW t \in decided
      PROVE  ApplyReviewDecision(v, t, PolicyDecision(t)) \in Good
  <2>1. t \in Tasks /\ PolicyDecision(t) \in ReviewDecision
    BY DEF IInv, Workflow, PolicyDecision, ReviewDecision
  <2>2. v \in Workflow /\ Merited(v, remote)
    OBVIOUS
  <2> QED
    BY <2>1, <2>2, ApplyReviewDecisionType, ApprovalIsEarned, DecisionMerited
<1> HIDE DEF decided, Good
<1>4. wf' \in Good
  BY <1>1, <1>2, <1>3, DecidedOnKeeps
<1> QED
  BY <1>4 DEF Good

----------------------------------------------------------------------------
\* No step makes it otherwise.

LEMMA QuietDeserves ==
    ASSUME NEW l, NEW m, l.at \in {"idle", "pick", "reload", "poll", "reread"},
           \A rec \in l.polls : Proven(rec, m), l.override = "task"
    PROVE  Deserves(l, m)
BY DEF Deserves, SaveSteps, LaunchSteps, RecordSteps, ReportSteps, CancelSteps

LEMMA EarnedByOne ==
    ASSUME NEW p \in Procs, Merited(wf', remote'), \A rec \in ledger' : Proven(rec, remote'),
           Deserves(proc'[p], remote')
    PROVE  EarnedInv'
BY OneAutopilot DEF OneProcess, EarnedInv

\* A process that only moves on.
LEMMA LocalEarned ==
    ASSUME NEW p \in Procs, EarnedInv, UNCHANGED <<wf, ledger, remote>>,
           Deserves(proc'[p], remote)
    PROVE  EarnedInv'
BY EarnedByOne DEF EarnedInv

\* A process that saves what it has computed.
LEMMA SaveEarned ==
    ASSUME NEW p \in Procs, EarnedInv, UNCHANGED <<ledger, remote>>, Merited(wf', remote),
           Deserves(proc'[p], remote)
    PROVE  EarnedInv'
BY EarnedByOne DEF EarnedInv

\* A process that writes a record.
LEMMA WriteEarned ==
    ASSUME NEW p \in Procs, EarnedInv, UNCHANGED <<wf, remote>>, NEW rec, WriteRun(rec),
           Proven(rec, remote), Deserves(proc'[p], remote)
    PROVE  EarnedInv'
<1>1. \A r \in ledger' : Proven(r, remote)
  BY DEF WriteRun, EarnedInv
<1> QED
  BY <1>1, EarnedByOne DEF EarnedInv

LEMMA DispatchEarned ==
    ASSUME IInv, TickInv, BegunInv, EarnedInv, NEW p \in Procs, Dispatching(p) \/ Recording(p)
    PROVE  EarnedInv'
<1>1. Deserves(proc[p], remote) /\ Merited(wf, remote) /\ proc[p].override = "task"
  BY DEF EarnedInv, Deserves
<1>2. ASSUME NEW t \in Tasks, SkipTask(p, t) \/ SkipForSession(p, t)
      PROVE  EarnedInv'
  <2>1. /\ proc'[p].at \in {"pick", "reload", "idle"} /\ proc'[p].polls = {}
        /\ proc'[p].override = "task" /\ UNCHANGED <<wf, ledger, remote>>
    BY <1>1, <1>2, SkipTaskDoes, SkipForSessionDoes
  <2> QED
    BY <2>1, QuietDeserves, LocalEarned
<1>3. ASSUME NEW t \in Tasks, PickTask(p, t)
      PROVE  EarnedInv'
  <2>1. /\ proc'[p].runner = RunnerOf(t, proc[p].override)
        /\ proc'[p].at = IF proc'[p].runner = "acp" THEN "spawn" ELSE "record"
        /\ proc'[p].snap = wf /\ proc'[p].polls = proc[p].polls
        /\ proc'[p].override = proc[p].override /\ UNCHANGED <<wf, ledger, remote>>
    BY <1>3, PickTaskDoes
  <2>2. proc'[p].runner = "acp"
    BY <1>1, <2>1, AutopilotAssumption DEF RunnerOf
  <2>3. Deserves(proc'[p], remote)
    BY <1>1, <2>1, <2>2 DEF Deserves, RecordSteps, ReportSteps, CancelSteps
  <2> QED
    BY <2>1, <2>3, LocalEarned
<1>4. CASE SpawnSession(p)
  <2>1. /\ proc[p].at = "spawn" /\ proc'[p].at = "record" /\ Carried(proc[p], proc'[p])
        /\ nextRun \in RunIds /\ proc'[p].rec.status = "accepted"
        /\ remote' = [remote EXCEPT ![nextRun] =
                         [task |-> proc[p].task, state |-> "running"]]
        /\ UNCHANGED <<wf, ledger>>
    BY <1>4, SpawnSessionDoes
  <2>2. remote[nextRun].state = "none"
    BY <2>1, OrchestratorAssumption DEF BegunInv, RunIds
  <2>3. remote \in [RunIds -> [task : Tasks \union {0}, state : SessionState]]
    BY DEF IInv, FilesFit, Files
  <2>4. Lasting(remote, remote')
    BY <2>1, <2>2, <2>3 DEF Lasting
  <2>5. ledger \subseteq RunRecord /\ proc[p].polls \subseteq RunRecord
    BY LedgerKnown DEF IInv, Locals
  <2>6. /\ Merited(wf, remote') /\ Merited(proc[p].snap, remote')
        /\ \A rec \in ledger \union proc[p].polls : Proven(rec, remote')
    BY <1>1, <2>1, <2>4, <2>5, LastingKeeps DEF EarnedInv, Deserves, SaveSteps, LaunchSteps
  <2>7. Deserves(proc'[p], remote')
    BY <1>1, <2>1, <2>6 DEF Deserves, Carried, Proven, LaunchSteps
  <2> QED
    BY <2>1, <2>6, <2>7, EarnedByOne
<1>5. CASE CommitDispatch(p)
  <2>1. /\ proc[p].at = "commit" /\ proc'[p].at \in {"pick", "reload", "idle"}
        /\ wf' = Dispatched(proc[p].snap, proc[p].task, proc[p].runner)
        /\ proc'[p].polls = {} /\ proc'[p].override = "task" /\ UNCHANGED <<ledger, remote>>
    BY <1>1, <1>5, CommitDispatchDoes
  <2>2. proc[p].runner = "acp" /\ Merited(proc[p].snap, remote)
    BY <1>1, <2>1 DEF Deserves, SaveSteps, LaunchSteps
  <2>3. proc[p].snap \in Workflow /\ proc[p].task \in Tasks
    BY <2>1 DEF IInv, Locals, LocalsFit, TaskSteps, Step
  <2>4. Merited(wf', remote)
    BY <2>1, <2>2, <2>3, DispatchMerited
  <2> QED
    BY <2>1, <2>4, QuietDeserves, SaveEarned
<1>6. CASE ReloadForQueue(p)
  <2>1. /\ proc'[p].at = "enqueue" /\ proc'[p].snap = wf /\ proc'[p].polls = proc[p].polls
        /\ proc'[p].override = proc[p].override /\ UNCHANGED <<wf, ledger, remote>>
    BY <1>6, ReloadForQueueDoes
  <2>2. Deserves(proc'[p], remote)
    BY <1>1, <2>1 DEF Deserves, LaunchSteps, RecordSteps, ReportSteps, CancelSteps
  <2> QED
    BY <2>1, <2>2, LocalEarned
<1>7. CASE EnqueueOverflow(p)
  <2>1. /\ proc[p].at = "enqueue" /\ proc'[p].at = "idle" /\ Rested(proc'[p])
        /\ wf' = MarkQueued(proc[p].snap, proc[p].overflow) /\ UNCHANGED <<ledger, remote>>
    BY <1>7, EnqueueOverflowDoes
  <2>2. Merited(proc[p].snap, remote) /\ proc[p].snap \in Workflow
    BY <1>1, <2>1 DEF Deserves, SaveSteps, IInv, Locals
  <2>3. Merited(wf', remote)
    BY <2>1, <2>2, QueueMerited
  <2> QED
    BY <2>1, <2>3, QuietDeserves, SaveEarned DEF Rested
<1>8. CASE RecordRun(p)
  <2>1. /\ proc[p].at = "record" /\ proc'[p].at = "commit" /\ proc'[p].rec = proc[p].rec
        /\ Carried(proc[p], proc'[p]) /\ WriteRun(proc[p].rec) /\ UNCHANGED <<wf, remote>>
    BY <1>8, RecordRunDoes
  <2>2. Proven(proc[p].rec, remote) /\ Deserves(proc'[p], remote)
    BY <1>1, <2>1 DEF Deserves, Carried, SaveSteps, LaunchSteps, RecordSteps, ReportSteps,
                      CancelSteps
  <2> QED
    BY <2>1, <2>2, WriteEarned
<1> QED
  BY <1>2, <1>3, <1>4, <1>5, <1>6, <1>7, <1>8 DEF Dispatching, Recording

\* A poll says completed only if the session ended without an error.
LEMMA PollIsProof ==
    ASSUME ErrorsRecorded = TRUE, NEW state \in SessionState, "completed" \in PollOutcome(state)
    PROVE  state = "clean"
BY DEF PollOutcome, applyArtifactAcceptance, mapManagerState, SessionState

\* A report of the run at hand.
LEMMA SettledMerited ==
    ASSUME IInv, EarnedInv, NEW p \in Procs, proc[p].at \in {"settle", "apply"}
    PROVE  Merited(ApplyRunStatus(proc[p].snap, proc[p].task, proc[p].rec.status), remote)
<1>1. proc[p].at \in RunSteps /\ proc[p].at \in SaveSteps /\ proc[p].at \in RecordSteps
  BY DEF RunSteps, SaveSteps, RecordSteps, ReportSteps, CancelSteps
<1>2. /\ Merited(proc[p].snap, remote) /\ Proven(proc[p].rec, remote)
      /\ proc[p].snap \in Workflow
  BY <1>1 DEF EarnedInv, Deserves, IInv, Locals
<1>3. /\ proc[p].rec \in RunRecord /\ proc[p].rec.id \in RunIds
      /\ Spawned(proc[p].rec, Files) /\ proc[p].rec.task = proc[p].task /\ proc[p].task \in Tasks
  BY <1>1, AtHandBegun
<1>4. remote[proc[p].rec.id].task = proc[p].task
  BY <1>3 DEF Spawned, Files
<1>5. proc[p].rec.status = "completed" => EarnedIn(proc[p].task, remote)
  BY <1>2, <1>3, <1>4 DEF Proven, EarnedIn
<1>6. proc[p].rec.status \in RunStatus
  BY <1>3 DEF RunRecord
<1> QED
  BY <1>2, <1>3, <1>5, <1>6, ReportMerited

LEMMA SyncEarned ==
    ASSUME ErrorsRecorded = TRUE, IInv, EarnedInv, NEW p \in Procs,
           Polling(p) \/ NoteSynced(p) \/ Settle(p)
    PROVE  EarnedInv'
<1>1. Deserves(proc[p], remote) /\ Merited(wf, remote) /\ proc[p].override = "task"
  BY DEF EarnedInv, Deserves
<1>2. CASE LoadForSync(p)
  <2>1. /\ proc[p].at = "poll" /\ proc'[p].at = "observe" /\ proc'[p].rec \in proc[p].polls
        /\ proc'[p].snap = wf /\ proc'[p].polls = proc[p].polls \ {proc'[p].rec}
        /\ proc'[p].override = proc[p].override /\ UNCHANGED <<wf, ledger, remote>>
    BY <1>2, LoadForSyncDoes
  <2>2. Deserves(proc'[p], remote)
    BY <1>1, <2>1 DEF Deserves, LaunchSteps
  <2> QED
    BY <2>1, <2>2, LocalEarned
<1>3. CASE Observe(p)
  <2>1. /\ proc[p].at = "observe" /\ proc'[p].at = "note" /\ Carried(proc[p], proc'[p])
        /\ proc'[p].rec.id = proc[p].rec.id
        /\ proc'[p].rec.status \in PollOutcome(remote[proc[p].rec.id].state)
        /\ UNCHANGED <<wf, ledger, remote>>
    BY <1>3, ObserveDoes
  <2>2. proc[p].rec.id \in RunIds
    BY <2>1, AtHandBegun DEF RunSteps
  <2>3. remote[proc[p].rec.id].state \in SessionState
    BY <2>2 DEF IInv, FilesFit, Files
  <2>4. Proven(proc'[p].rec, remote)
    BY <2>1, <2>3, PollIsProof DEF Proven
  <2>5. Deserves(proc'[p], remote)
    BY <1>1, <2>1, <2>4 DEF Deserves, Carried, SaveSteps, LaunchSteps, ReportSteps
  <2> QED
    BY <2>1, <2>5, LocalEarned
<1>4. CASE AnswerByLedger(p)
  <2>1. /\ proc[p].at = "observe" /\ proc'[p].at = "note" /\ Carried(proc[p], proc'[p])
        /\ proc'[p].rec = proc[p].rec /\ UNCHANGED <<wf, ledger, remote>>
    BY <1>4, AnswerByLedgerDoes
  <2>2. Deserves(proc'[p], remote)
    BY <1>1, <2>1 DEF Deserves, Carried, SaveSteps, LaunchSteps, RecordSteps, ReportSteps,
                      CancelSteps
  <2> QED
    BY <2>1, <2>2, LocalEarned
<1>5. CASE NoteSynced(p)
  <2>1. /\ proc[p].at = "note" /\ proc'[p].at = "settle" /\ Carried(proc[p], proc'[p])
        /\ proc'[p].rec = proc[p].rec /\ WriteRun(proc[p].rec) /\ UNCHANGED <<wf, remote>>
    BY <1>5, NoteSyncedDoes
  <2>2. Proven(proc[p].rec, remote) /\ Deserves(proc'[p], remote)
    BY <1>1, <2>1 DEF Deserves, Carried, SaveSteps, LaunchSteps, RecordSteps, ReportSteps,
                      CancelSteps
  <2> QED
    BY <2>1, <2>2, WriteEarned
<1>6. CASE Settle(p)
  <2>1. /\ proc[p].at = "settle" /\ proc'[p].at \in {"poll", "idle"}
        /\ wf' = ApplyRunStatus(proc[p].snap, proc[p].task, proc[p].rec.status)
        /\ proc'[p].polls = proc[p].polls /\ proc'[p].override = "task"
        /\ UNCHANGED <<ledger, remote>>
    BY <1>6, SettleDoes
  <2>2. Merited(wf', remote)
    BY <2>1, SettledMerited
  <2>3. Deserves(proc'[p], remote)
    BY <1>1, <2>1, QuietDeserves DEF Deserves
  <2> QED
    BY <2>1, <2>2, <2>3, SaveEarned
<1> QED
  BY <1>2, <1>3, <1>4, <1>5, <1>6 DEF Polling, AnswerByLedger

\* A session that is closed ends without an error only if it was at work.
LEMMA ClosingLasts ==
    ASSUME IInv, NEW r \in RunIds, NEW state, remote' = [remote EXCEPT ![r].state = state],
           remote[r].state = "clean" => state = "clean"
    PROVE  Lasting(remote, remote')
BY DEF Lasting, IInv, FilesFit, Files

LEMMA LastingEarned ==
    ASSUME IInv, EarnedInv, Lasting(remote, remote'), UNCHANGED <<wf, ledger>>, NEW p \in Procs,
           \/ proc' = proc
           \/ /\ Carried(proc[p], proc'[p]) /\ proc'[p].rec = proc[p].rec
              /\ proc[p].at = "cancel" /\ proc'[p].at = "stamp"
    PROVE  EarnedInv'
<1>1. Deserves(proc[p], remote)
  BY DEF EarnedInv
<1>2. /\ ledger \subseteq RunRecord /\ proc[p].polls \subseteq RunRecord
      /\ proc[p].rec \in RunRecord \union {NoRecord}
  BY LedgerKnown DEF IInv, Locals
<1>3. /\ Merited(wf, remote') /\ (Merited(proc[p].snap, remote) => Merited(proc[p].snap, remote'))
      /\ \A rec \in ledger \union proc[p].polls : Proven(rec, remote')
      /\ Proven(proc[p].rec, remote) => Proven(proc[p].rec, remote')
  <2>1. Proven(NoRecord, remote')
    BY DEF Proven, NoRecord
  <2> QED
    BY <1>1, <1>2, <2>1, LastingKeeps DEF EarnedInv, Deserves
<1>4. Deserves(proc'[p], remote')
  <2>1. CASE proc' = proc
    BY <1>1, <1>3, <2>1 DEF Deserves
  <2>2. CASE proc' # proc
    BY <1>1, <1>3, <2>2 DEF Deserves, Carried, SaveSteps, LaunchSteps, RecordSteps, ReportSteps,
                            CancelSteps
  <2> QED
    BY <2>1, <2>2
<1> QED
  BY <1>3, <1>4, EarnedByOne

LEMMA CancelEarned ==
    ASSUME IInv, EarnedInv, NEW p \in Procs, CancelStep(p)
    PROVE  EarnedInv'
<1>1. Deserves(proc[p], remote) /\ Merited(wf, remote) /\ proc[p].override = "task"
  BY DEF EarnedInv, Deserves
<1>2. CASE CancelSession(p)
  <2>1. /\ proc[p].at = "cancel" /\ proc'[p].at = "stamp" /\ Carried(proc[p], proc'[p])
        /\ proc'[p].rec = proc[p].rec /\ UNCHANGED <<wf, ledger>>
    BY <1>2, CancelSessionDoes
  <2>2. proc[p].rec.id \in RunIds
    BY <2>1, AtHandBegun DEF RunSteps
  <2>3. \E state : /\ remote' = [remote EXCEPT ![proc[p].rec.id].state = state]
                   /\ remote[proc[p].rec.id].state = "clean" => state = "clean"
    BY <1>2 DEF CancelSession
  <2>4. Lasting(remote, remote')
    BY <2>2, <2>3, ClosingLasts
  <2> QED
    BY <2>1, <2>4, LastingEarned
<1>3. CASE StampRun(p)
  <2>1. /\ proc[p].at = "stamp" /\ proc'[p].at = "load" /\ Carried(proc[p], proc'[p])
        /\ proc'[p].rec.status # "completed"
        /\ WriteRun(proc'[p].rec) /\ UNCHANGED <<wf, remote>>
    BY <1>3, StampRunDoes
  <2>2. Proven(proc'[p].rec, remote) /\ Deserves(proc'[p], remote)
    BY <1>1, <2>1 DEF Deserves, Carried, Proven, SaveSteps, LaunchSteps, RecordSteps,
                      ReportSteps, CancelSteps
  <2> QED
    BY <2>1, <2>2, WriteEarned
<1>4. CASE LoadForCancel(p)
  <2>1. /\ proc[p].at = "load" /\ proc'[p].at = "apply" /\ proc'[p].snap = wf
        /\ proc'[p].rec = proc[p].rec /\ proc'[p].polls = proc[p].polls
        /\ proc'[p].override = proc[p].override /\ UNCHANGED <<wf, ledger, remote>>
    BY <1>4, LoadForCancelDoes
  <2>2. Deserves(proc'[p], remote)
    BY <1>1, <2>1 DEF Deserves, LaunchSteps, RecordSteps, CancelSteps
  <2> QED
    BY <2>1, <2>2, LocalEarned
<1>5. CASE ApplyCancel(p)
  <2>1. /\ proc[p].at = "apply" /\ Rested(proc'[p]) /\ proc'[p].at \in {"idle", "reread"}
        /\ wf' = ApplyRunStatus(proc[p].snap, proc[p].task, proc[p].rec.status)
        /\ UNCHANGED <<ledger, remote>>
    BY <1>5, ApplyCancelDoes
  <2>2. Merited(wf', remote)
    BY <2>1, SettledMerited
  <2> QED
    BY <2>1, <2>2, QuietDeserves, SaveEarned DEF Rested
<1> QED
  BY <1>2, <1>3, <1>4, <1>5 DEF CancelStep

LEMMA RetryEarned ==
    ASSUME IInv, EarnedInv, NEW p \in Procs, RetryStep(p)
    PROVE  EarnedInv'
<1>1. Deserves(proc[p], remote) /\ Merited(wf, remote) /\ proc[p].override = "task"
  BY DEF EarnedInv, Deserves
<1>2. CASE RereadRun(p)
  <2>1. /\ proc[p].at = "reread" /\ proc'[p].at = "retry" /\ Carried(proc[p], proc'[p])
        /\ proc'[p].rec \in ledger /\ UNCHANGED <<wf, ledger, remote>>
    BY <1>2, RereadRunDoes
  <2>2. Deserves(proc'[p], remote)
    BY <1>1, <2>1 DEF Deserves, Carried, EarnedInv, SaveSteps, LaunchSteps, ReportSteps
  <2> QED
    BY <2>1, <2>2, LocalEarned
<1>3. CASE EvaluateRetry(p)
  <2>1. /\ proc[p].at = "retry"
        /\ \/ proc'[p].at = "idle" /\ Rested(proc'[p])
           \/ /\ proc'[p].at \in {"history", "bury"} /\ proc'[p].snap = wf
              /\ proc'[p].polls = proc[p].polls /\ proc'[p].override = proc[p].override
              /\ proc'[p].rec.id = proc[p].rec.id /\ proc'[p].rec.status = proc[p].rec.status
        /\ UNCHANGED <<wf, ledger, remote>>
    BY <1>3, EvaluateRetryDoes
  <2>2. CASE proc'[p].at = "idle" /\ Rested(proc'[p])
    BY <2>1, <2>2, QuietDeserves, LocalEarned DEF Rested
  <2>3. CASE proc'[p].at \in {"history", "bury"}
    <3>1. Deserves(proc'[p], remote)
      BY <1>1, <2>1, <2>3 DEF Deserves, Proven, LaunchSteps, RecordSteps, ReportSteps, CancelSteps
    <3> QED
      BY <2>1, <3>1, LocalEarned
  <2> QED
    BY <2>1, <2>2, <2>3
<1>4. CASE WriteHistory(p)
  <2>1. /\ proc[p].at = "history" /\ proc'[p].at = "rearm" /\ Carried(proc[p], proc'[p])
        /\ WriteRun(proc[p].rec) /\ UNCHANGED <<wf, remote>>
    BY <1>4, WriteHistoryDoes
  <2>2. Proven(proc[p].rec, remote) /\ Deserves(proc'[p], remote)
    BY <1>1, <2>1 DEF Deserves, Carried, SaveSteps, LaunchSteps, RecordSteps, ReportSteps,
                      CancelSteps
  <2> QED
    BY <2>1, <2>2, WriteEarned
<1>5. CASE RearmTask(p) \/ BuryTask(p)
  <2>1. /\ proc[p].at \in {"rearm", "bury"} /\ proc'[p].at \in {"pick", "idle"}
        /\ wf' \in {RearmedForRetry(proc[p].snap, proc[p].task),
                    DeadLettered(proc[p].snap, proc[p].task)}
        /\ proc'[p].polls = {} /\ proc'[p].override = "task" /\ UNCHANGED <<ledger, remote>>
    BY <1>5, RearmTaskDoes, BuryTaskDoes DEF Rested
  <2>2. /\ Merited(proc[p].snap, remote) /\ proc[p].snap \in Workflow /\ proc[p].task \in Tasks
    <3>1. proc[p].at \in SaveSteps /\ proc[p].at \in TaskSteps
      BY <2>1 DEF SaveSteps, TaskSteps, Step
    <3> QED
      BY <1>1, <3>1 DEF Deserves, IInv, Locals, LocalsFit
  <2>3. Merited(wf', remote)
    BY <2>1, <2>2, RetryMerited
  <2> QED
    BY <2>1, <2>3, QuietDeserves, SaveEarned
<1> QED
  BY <1>2, <1>3, <1>4, <1>5 DEF RetryStep

LEMMA IdleEarned ==
    ASSUME IInv, EarnedInv, NEW p \in Procs, Become(p, Idle), UNCHANGED <<wf, ledger, remote>>
    PROVE  EarnedInv'
<1>1. proc'[p].at = "idle" /\ Rested(proc'[p])
  BY Becomes, IdleIs
<1> QED
  BY <1>1, QuietDeserves, LocalEarned DEF Rested

LEMMA SameEarned ==
    ASSUME EarnedInv, UNCHANGED <<wf, ledger, remote, proc>>
    PROVE  EarnedInv'
BY DEF EarnedInv

LEMMA PhaseEarned ==
    ASSUME IInv, TickInv, EarnedInv, NEW p \in Procs,
           \/ TickBegins(p) \/ Review(p) \/ PlanRecovery(p) \/ SafeCancel(p) \/ SafeClose(p)
           \/ Dispatch(p) \/ TickEnds(p) \/ CloseThrows(p)
           \/ CallThrows(p) \/ SpawnThrows(p) \/ SpawnRefused(p) \/ Killed(p)
    PROVE  EarnedInv'
<1>1. CASE StartSyncActive(p)
  <2>1. /\ proc'[p].at = "poll" /\ proc'[p].polls \subseteq ledger /\ proc'[p].override = "task"
        /\ UNCHANGED <<wf, ledger, remote>>
    BY <1>1, StartSyncActiveDoes
  <2>2. \A rec \in proc'[p].polls : Proven(rec, remote)
    BY <2>1 DEF EarnedInv
  <2> QED
    BY <2>1, <2>2, QuietDeserves, LocalEarned
<1>2. CASE StartBatch(p, MaxDispatch, "task")
  <2>1. /\ proc'[p].at \in {"pick", "reload", "idle"} /\ proc'[p].polls = {}
        /\ proc'[p].override = "task" /\ UNCHANGED <<wf, ledger, remote>>
    BY <1>2, StartBatchDoes
  <2> QED
    BY <2>1, QuietDeserves, LocalEarned
<1>3. CASE Review(p)
  <2>1. Merited(wf', remote) /\ UNCHANGED <<ledger, remote, proc>>
    BY <1>3, ReviewMerited DEF Review
  <2> QED
    BY <2>1 DEF EarnedInv
<1>4. CASE SafeCancel(p)
  <2>1. /\ proc'[p].at = "cancel" /\ proc'[p].rec \in ledger /\ Rested(proc'[p])
        /\ UNCHANGED <<wf, ledger, remote>>
    BY <1>4, SafeCancelDoes
  <2>2. Deserves(proc'[p], remote)
    BY <2>1 DEF Deserves, EarnedInv, Rested, SaveSteps, LaunchSteps, ReportSteps
  <2> QED
    BY <2>1, <2>2, LocalEarned
<1>5. CASE SafeClose(p)
  <2>1. PICK action \in plan : CloseRemote(action.run)
    BY <1>5 DEF SafeClose
  <2>2. action.run \in RunIds /\ UNCHANGED <<wf, ledger, proc>>
    BY <1>5 DEF TickInv, Recovery, SafeClose
  <2>3. Lasting(remote, remote')
    BY <2>1, <2>2, ClosingLasts, CloseRemoteDoes, SMTT(30)
  <2> QED
    BY <2>2, <2>3, LastingEarned
<1>6. CASE CallThrows(p) \/ SpawnThrows(p) \/ SpawnRefused(p) \/ Killed(p)
  <2>1. Become(p, Idle) /\ UNCHANGED <<wf, ledger, remote>>
    BY <1>6 DEF CallThrows, SpawnThrows, SpawnRefused, Killed, RuntimeCallFails
  <2> QED
    BY <2>1, IdleEarned
<1>7. CASE UNCHANGED vars
  BY <1>7, SameEarned DEF vars
<1> QED
  BY <1>1, <1>2, <1>3, <1>4, <1>5, <1>6, <1>7
     DEF TickBegins, PlanRecovery, Dispatch, TickEnds, CloseThrows

LEMMA CommandEarned ==
    ASSUME ErrorsRecorded = TRUE, IInv, TickInv, BegunInv, EarnedInv, OperatorCommand
    PROVE  EarnedInv'
<1>1. ASSUME NEW rec \in ledger, SessionClose(rec)
      PROVE  EarnedInv'
  <2>1. rec.id \in RunIds /\ CloseRemote(rec.id) /\ UNCHANGED <<wf, ledger, proc>>
    BY <1>1, LedgerBegun DEF SessionClose
  <2>2. Lasting(remote, remote')
    BY <2>1, ClosingLasts, CloseRemoteDoes, SMTT(30)
  <2>3. PICK p \in Procs : Procs = {p}
    BY AutopilotAssumption
  <2> QED
    BY <2>1, <2>2, <2>3, LastingEarned
<1>2. ASSUME NEW rec \in ledger, SessionStatus(rec)
      PROVE  EarnedInv'
  <2>1. PICK synced \in RunRecord :
           /\ synced.id = rec.id /\ synced.task = rec.task
           /\ \/ synced.status \in PollOutcome(remote[rec.id].state)
              \/ (synced = rec \/ synced.status = "failed") /\ rec.id \in lost
           /\ WriteRun(synced) /\ wf' = ApplyRunStatus(wf, rec.task, synced.status)
           /\ UNCHANGED <<manualAt, remote, nextRun, proc>>
    BY <1>2, SessionStatusDoes
  <2>2. /\ rec \in RunRecord /\ rec.id \in RunIds /\ rec.task \in Tasks
        /\ Spawned(rec, Files)
    BY LedgerBegun, LedgerKnown DEF Known
  <2>3. remote[rec.id].state \in SessionState /\ remote[rec.id].task = rec.task
    BY <2>2 DEF IInv, FilesFit, Files, Spawned
  <2>4. Proven(synced, remote)
    BY <2>1, <2>3, PollIsProof DEF Proven, EarnedInv
  <2>5. Merited(wf', remote)
    <3>1. synced.status = "completed" => EarnedIn(rec.task, remote)
      BY <2>1, <2>2, <2>3, <2>4 DEF Proven, EarnedIn
    <3>2. synced.status \in RunStatus /\ wf \in Workflow /\ Merited(wf, remote)
      BY DEF RunRecord, IInv, EarnedInv
    <3> QED
      BY <2>1, <2>2, <3>1, <3>2, ReportMerited
  <2>6. \A r \in ledger' : Proven(r, remote)
    BY <2>1, <2>4 DEF WriteRun, EarnedInv
  <2> QED
    BY <2>1, <2>5, <2>6 DEF EarnedInv
<1>3. CASE SessionCleanup
  BY <1>3, SameEarned DEF SessionCleanup, vars
<1> QED
  BY <1>1, <1>2, <1>3 DEF OperatorCommand

LEMMA OutsideEarned ==
    ASSUME IInv, EarnedInv, NEW r \in RunIds,
           RemoteEnds(r) \/ OutageBegins(r) \/ OutageEnds(r) \/ GrowsStuck(r) \/ GrowsStale(r)
    PROVE  EarnedInv'
<1>1. CASE RemoteEnds(r)
  <2>1. PICK state : remote' = [remote EXCEPT ![r].state = state]
    BY <1>1 DEF RemoteEnds, SessionEnds
  <2>2. remote[r].state # "clean" /\ UNCHANGED <<wf, ledger, proc>>
    BY <1>1 DEF RemoteEnds, SessionEnds
  <2>3. Lasting(remote, remote')
    BY <2>1, <2>2, ClosingLasts
  <2>4. PICK p \in Procs : Procs = {p}
    BY AutopilotAssumption
  <2> QED
    BY <2>2, <2>3, <2>4, LastingEarned
<1>2. CASE ~RemoteEnds(r)
  BY <1>2, SameEarned DEF OutageBegins, OutageEnds, GrowsStuck, GrowsStale, vars
<1> QED
  BY <1>1, <1>2

LEMMA NextEarned ==
    ASSUME ErrorsRecorded = TRUE, IInv, TickInv, BegunInv, EarnedInv,
           [AutopilotNext]_autopilotVars
    PROVE  EarnedInv'
<1>1. CASE UNCHANGED autopilotVars \/ WriteSession
  BY <1>1, SameEarned DEF autopilotVars, WriteSession, vars
<1>2. ASSUME NEW p \in Procs, OperationStep(p)
      PROVE  EarnedInv'
  BY <1>2, DispatchEarned, SyncEarned, CancelEarned, RetryEarned
     DEF OperationStep, Noting, Settling, Cancelling, Retrying, CancelStep, RetryStep
<1>3. CASE AutopilotNext /\ ~WriteSession
  BY <1>2, <1>3, PhaseEarned, CommandEarned, OutsideEarned, AutopilotAssumption
     DEF AutopilotNext, TickStep, Time
<1> QED
  BY <1>1, <1>3

LEMMA InitEarned == AutopilotInit => EarnedInv
<1> SUFFICES ASSUME AutopilotInit
             PROVE  EarnedInv
  OBVIOUS
<1>1. wf = InitialWorkflow /\ ledger = {} /\ proc = [p \in Procs |-> Idle]
  BY DEF AutopilotInit, Init
<1>2. \A t \in Tasks : InitialWorkflow.status[t] # "done"
  <2> DEFINE planned == [t \in Tasks |-> "planned"]
  <2>1. planned \in [Tasks -> TaskStatus]
    BY DEF TaskStatus
  <2>2. InitialWorkflow.status = UpsertTaskStatuses(planned)
    BY DEF InitialWorkflow
  <2> QED
    BY <2>1, <2>2, UpsertKeeps
<1>3. \A p \in Procs : Deserves(proc[p], remote)
  BY <1>1, IdleIs, QuietDeserves DEF Rested
<1> QED
  BY <1>1, <1>2, <1>3 DEF EarnedInv, Merited

LEMMA EarnedInvariance ==
    ASSUME ErrorsRecorded = TRUE
    PROVE  AutopilotSpec => []EarnedInv
<1>1. AutopilotInit => BegunInv /\ EarnedInv
  BY InitBegun, InitEarned
<1>2. (IInv /\ TickInv) /\ (BegunInv /\ EarnedInv) /\ [AutopilotNext]_autopilotVars
      => (BegunInv /\ EarnedInv)'
  BY NextBegun, NextEarned
<1> QED
  BY <1>1, <1>2, AutopilotInvariance, PTL DEF AutopilotSpec

\* Where the runtime shows the error of a turn, a task is done only if a session
\* of it ended without one: for every task graph, review policy, recovery plan
\* and retry policy, and through every outage, kill and session command.
THEOREM EarnedIsDone ==
    ASSUME ErrorsRecorded = TRUE
    PROVE  AutopilotSpec => []DoneIsEarned
<1>1. EarnedInv => DoneIsEarned
  BY DEF EarnedInv, Merited, EarnedIn, DoneIsEarned
<1> QED
  BY <1>1, EarnedInvariance, PTL

----------------------------------------------------------------------------
\* What a session record says is over, is over.

\* b stands for the ledger, m for the sessions and s for their records.
LetGo(r, s) == s[r] \in {"idle", "closed", "failed"}

Over(rec, m) == ~Active(rec) /\ m[rec.id].state # "running"

Truthful(b, m, s) == \A rec \in b : LetGo(rec.id, s) => Over(rec, m)

\* What the recovery plan has left to close is over.
ClosesOver(todo, b, m, s) ==
    \A action \in todo :
        action.kind = "safe_close" =>
            s[action.run] # "none" /\ \A rec \in b : rec.id = action.run => Over(rec, m)

\* The session record that is built from the record u will not let go of a run at work.
ToBeWritten(u, b, m) ==
    u # NoRecord => \E o \in b : o.id = u.id /\ (~Active(u) => Over(o, m))

\* What the process has read of the runs it polls, stops or tries again is still true.
Holds(l, b, m, s) ==
    /\ l.at \in ReportSteps \union {"poll"} => \A rec \in l.polls : rec \in b /\ Active(rec)
    /\ l.at \in ReportSteps => \A rec \in l.polls : rec.id # l.rec.id
    /\ l.at = "observe" => l.rec \in b /\ Active(l.rec)
    /\ l.at = "note" => \E o \in b : o.id = l.rec.id /\ Active(o)
    /\ l.at \in {"settle", "load", "apply", "retry"} => l.rec \in b
    /\ l.at \in {"note", "settle"} => Active(l.rec) \/ m[l.rec.id].state # "running"
    /\ l.at = "stamp" => m[l.rec.id].state # "running"
    /\ l.at \in {"load", "apply"} => Over(l.rec, m)
    /\ l.at = "history" => ~Active(l.rec) /\ \E o \in b : o.id = l.rec.id
    /\ l.at = "record" /\ l.runner = "acp" =>
          Active(l.rec) /\ s[l.rec.id] = "none" /\ \A o \in b : o.id # l.rec.id

AllTrue ==
    /\ Truthful(ledger, remote, sessions)
    /\ ClosesOver(plan, ledger, remote, sessions)
    /\ ToBeWritten(unwritten, ledger, remote)
    /\ \A p \in Procs : Holds(proc[p], ledger, remote, sessions)

\* The inductive invariant, beside the others.
TruthInv == ~torn => AllTrue

LEMMA TrueByOne ==
    ASSUME NEW p \in Procs, Truthful(ledger', remote', sessions'),
           ClosesOver(plan', ledger', remote', sessions'),
           ToBeWritten(unwritten', ledger', remote'),
           Holds(proc'[p], ledger', remote', sessions')
    PROVE  AllTrue'
BY OneAutopilot DEF OneProcess, AllTrue

\* A process that only moves on, or saves the workflow.
LEMMA MoveTrue ==
    ASSUME AllTrue, NEW p \in Procs, UNCHANGED <<ledger, remote, sessions>>, plan' \subseteq plan,
           ToBeWritten(unwritten', ledger, remote), Holds(proc'[p], ledger, remote, sessions)
    PROVE  AllTrue'
<1>1. ClosesOver(plan', ledger', remote', sessions')
  BY DEF AllTrue, ClosesOver
<1> QED
  BY <1>1, TrueByOne DEF AllTrue

\* A process that holds no run.
LEMMA QuietHolds ==
    ASSUME NEW l, NEW b, NEW m, NEW s, l.at \notin ReportSteps \union CancelSteps,
           l.at = "poll" => \A rec \in l.polls : rec \in b /\ Active(rec),
           l.at \notin {"retry", "history"}, l.at = "record" => l.runner # "acp"
    PROVE  Holds(l, b, m, s)
BY DEF Holds, ReportSteps, CancelSteps

LEMMA QuietTrue ==
    ASSUME AllTrue, NEW p \in Procs, UNCHANGED <<ledger, remote, sessions>>, plan' \subseteq plan,
           unwritten' \in {unwritten, NoRecord}, proc'[p].at \notin ReportSteps \union CancelSteps,
           proc'[p].at \notin {"poll", "retry", "history"},
           proc'[p].at = "record" => proc'[p].runner # "acp"
    PROVE  AllTrue'
<1>1. Holds(proc'[p], ledger, remote, sessions)
  BY QuietHolds
<1>2. ToBeWritten(unwritten', ledger, remote)
  BY DEF AllTrue, ToBeWritten
<1> QED
  BY <1>1, <1>2, MoveTrue

\* The record of a run is written: it says no less than the one it replaces.
SaysNoLess(rec, b, m, s) ==
    \/ \E o \in b : o.id = rec.id /\ (Over(o, m) => Over(rec, m))
    \/ s[rec.id] = "none"
    \/ Over(rec, m)

LEMMA WriteTrue ==
    ASSUME AllTrue, NEW p \in Procs, UNCHANGED <<remote, sessions, plan>>, NEW rec, WriteRun(rec),
           SaysNoLess(rec, ledger, remote, sessions), ToBeWritten(unwritten', ledger', remote),
           Holds(proc'[p], ledger', remote, sessions)
    PROVE  AllTrue'
<1>1. \A r \in ledger' : r \in ledger \/ r = rec
  BY DEF WriteRun
<1>2. Truthful(ledger', remote, sessions)
  BY <1>1 DEF AllTrue, Truthful, SaysNoLess, LetGo
<1>3. ClosesOver(plan, ledger', remote, sessions)
  BY <1>1 DEF AllTrue, ClosesOver, SaysNoLess
<1> QED
  BY <1>2, <1>3, TrueByOne

\* Sessions come to an end.
Ends(m, n) == \A r \in RunIds : n[r].state = "running" => m[r].state = "running"

LEMMA EndsTrue ==
    ASSUME NEW m, NEW n, Ends(m, n), NEW b \in SUBSET RunRecord, NEW s
    PROVE  /\ Truthful(b, m, s) => Truthful(b, n, s)
           /\ \A todo : ClosesOver(todo, b, m, s) => ClosesOver(todo, b, n, s)
           /\ \A u : ToBeWritten(u, b, m) => ToBeWritten(u, b, n)
           /\ \A l : (l.at = "stamp" => l.rec.id \in RunIds) /\ Holds(l, b, m, s)
                     => Holds(l, b, n, s)
<1>1. \A rec \in b : Over(rec, m) => Over(rec, n)
  BY DEF Over, Ends, RunRecord
<1>2. Truthful(b, m, s) => Truthful(b, n, s)
  BY <1>1 DEF Truthful
<1>3. \A todo : ClosesOver(todo, b, m, s) => ClosesOver(todo, b, n, s)
  BY <1>1 DEF ClosesOver
<1>4. \A u : ToBeWritten(u, b, m) => ToBeWritten(u, b, n)
  BY <1>1 DEF ToBeWritten
<1>5. ASSUME NEW l, l.at = "stamp" => l.rec.id \in RunIds, Holds(l, b, m, s)
      PROVE  Holds(l, b, n, s)
  <2>1. /\ l.at \in {"load", "apply"} => l.rec \in b /\ Over(l.rec, n)
        /\ l.at = "settle" => l.rec \in b
    BY <1>1, <1>5 DEF Holds
  <2>2. l.at \in {"note", "settle"} => Active(l.rec) \/ n[l.rec.id].state # "running"
    <3>1. l.at \in {"note", "settle"} => l.rec.id \in RunIds
      BY <1>5 DEF Holds, RunRecord
    <3> QED
      BY <1>5, <3>1 DEF Holds, Ends
  <2>3. l.at = "stamp" => n[l.rec.id].state # "running"
    BY <1>5 DEF Holds, Ends
  <2> QED
    BY <1>5, <2>1, <2>2, <2>3 DEF Holds
<1> QED
  BY <1>2, <1>3, <1>4, <1>5

LEMMA EndingTrue ==
    ASSUME IInv, AllTrue, Ends(remote, remote'), UNCHANGED <<ledger, proc>>
    PROVE  /\ Truthful(ledger, remote', sessions)
           /\ ClosesOver(plan, ledger, remote', sessions)
           /\ ToBeWritten(unwritten, ledger, remote')
           /\ \A p \in Procs : Holds(proc[p], ledger, remote', sessions)
<1>1. ledger \in SUBSET RunRecord
  BY LedgerKnown
<1>2. \A p \in Procs : proc[p].at = "stamp" => proc[p].rec.id \in RunIds
  BY AtHandBegun DEF RunSteps
<1> QED
  BY <1>1, <1>2, EndsTrue DEF AllTrue

\* The record of one session is written: it said s, it says u.
Says(u, s, r, state) == u = [s EXCEPT ![r] = state]

LEMMA SessionTrue ==
    ASSUME NEW b, NEW m, NEW s \in [RunIds -> RecordState], NEW r \in RunIds, NEW state,
           NEW u, Says(u, s, r, state), state # "none",
           state \in {"idle", "closed", "failed"} => \A rec \in b : rec.id = r => Over(rec, m)
    PROVE  /\ Truthful(b, m, s) => Truthful(b, m, u)
           /\ \A todo : todo \subseteq Recovery /\ ClosesOver(todo, b, m, s)
                        => ClosesOver(todo, b, m, u)
           /\ \A l : /\ Holds(l, b, m, s)
                     /\ l.at = "record" /\ l.runner = "acp" => l.rec.id # r
                     => Holds(l, b, m, u)
<1>1. \A q : q # r => u[q] = s[q]
  BY DEF Says
<1>2. u[r] = state
  BY DEF Says
<1>3. Truthful(b, m, s) => Truthful(b, m, u)
  BY <1>1, <1>2 DEF Truthful, LetGo
<1>4. \A todo : todo \subseteq Recovery /\ ClosesOver(todo, b, m, s) => ClosesOver(todo, b, m, u)
  BY <1>1, <1>2 DEF ClosesOver
<1>5. ASSUME NEW l, Holds(l, b, m, s), l.at = "record" /\ l.runner = "acp" => l.rec.id # r
      PROVE  Holds(l, b, m, u)
  BY <1>1, <1>5 DEF Holds
<1> QED
  BY <1>3, <1>4, <1>5

\* A session record that is built from a run lets go of it only if the run is over.
LEMMA BuiltState ==
    ASSUME NEW t, NEW status \in RunStatus
    PROVE  /\ StateFromRunStatus(t, status) # "none"
           /\ StateFromRunStatus(t, status) \in {"idle", "closed", "failed"} =>
                 status \notin {"accepted", "running"}
BY DEF StateFromRunStatus, RunStatus

\* No process is about to write the first record of a run that has one.
LEMMA NotTheFirst ==
    ASSUME AllTrue, NEW p \in Procs, NEW rec \in ledger
    PROVE  proc[p].at = "record" /\ proc[p].runner = "acp" => proc[p].rec.id # rec.id
BY DEF AllTrue, Holds

LEMMA SessionWriteTrue ==
    ASSUME IInv, TickInv, AllTrue, WriteSession
    PROVE  AllTrue'
<1>1. /\ unwritten \in RunRecord /\ unwritten' = NoRecord /\ sessions' = SessionAfter(unwritten)
      /\ UNCHANGED <<ledger, remote, proc, plan>>
  BY DEF WriteSession, TickInv, vars
<1>2. PICK o \in ledger : o.id = unwritten.id /\ (~Active(unwritten) => Over(o, remote))
  BY <1>1 DEF AllTrue, ToBeWritten, WriteSession
<1>3. \A rec \in ledger : rec.id = o.id => rec = o
  BY DEF IInv, FilesFit, Files
<1> DEFINE state == StateFromRunStatus(unwritten.task, unwritten.status)
<1>4. state # "none" /\ (state \in {"idle", "closed", "failed"} => ~Active(unwritten))
  BY <1>1, BuiltState DEF RunRecord, Active
<1>5. Says(sessions', sessions, unwritten.id, state) /\ unwritten.id \in RunIds
  BY <1>1 DEF SessionAfter, RunRecord, Says
<1>6. sessions \in [RunIds -> RecordState] /\ plan \subseteq Recovery
  BY DEF TickInv
<1> HIDE DEF state
<1>7. state \in {"idle", "closed", "failed"} =>
         \A rec \in ledger : rec.id = unwritten.id => Over(rec, remote)
  BY <1>2, <1>3, <1>4
<1>8. \A p \in Procs : proc[p].at = "record" /\ proc[p].runner = "acp"
                       => proc[p].rec.id # unwritten.id
  BY <1>2, NotTheFirst
<1>9. /\ Truthful(ledger, remote, sessions')
      /\ ClosesOver(plan, ledger, remote, sessions')
      /\ \A p \in Procs : Holds(proc[p], ledger, remote, sessions')
  <2>1. /\ Truthful(ledger, remote, sessions) => Truthful(ledger, remote, sessions')
        /\ \A todo : todo \subseteq Recovery /\ ClosesOver(todo, ledger, remote, sessions)
                     => ClosesOver(todo, ledger, remote, sessions')
        /\ \A l : /\ Holds(l, ledger, remote, sessions)
                  /\ l.at = "record" /\ l.runner = "acp" => l.rec.id # unwritten.id
                  => Holds(l, ledger, remote, sessions')
    BY <1>4, <1>5, <1>6, <1>7, SessionTrue
  <2> QED
    BY <1>6, <1>8, <2>1 DEF AllTrue
<1> QED
  BY <1>1, <1>9 DEF AllTrue, ToBeWritten

\* A session is closed, and its record says so or what its run is like.
LEMMA ClosingTrue ==
    ASSUME IInv, TickInv, AllTrue, NEW r \in RunIds, CloseRemote(r), NEW state, state # "none",
           Says(sessions', sessions, r, state),
           state \in {"idle", "closed", "failed"} => \A rec \in ledger : rec.id = r => ~Active(rec),
           \A p \in Procs : proc[p].at = "record" /\ proc[p].runner = "acp" => proc[p].rec.id # r,
           UNCHANGED <<ledger, proc, unwritten>>, plan' \subseteq plan
    PROVE  AllTrue'
<1>1. Ends(remote, remote') /\ remote'[r].state # "running"
  <2>1. PICK state_1 \in SessionState \ {"running"} :
           remote' = [remote EXCEPT ![r].state = state_1]
    BY CloseRemoteDoes
  <2>2. remote \in [RunIds -> [task : Tasks \union {0}, state : SessionState]]
    BY DEF IInv, FilesFit, Files
  <2> QED
    BY <2>1, <2>2 DEF Ends
<1>2. /\ Truthful(ledger, remote', sessions)
      /\ ClosesOver(plan, ledger, remote', sessions)
      /\ ToBeWritten(unwritten, ledger, remote')
      /\ \A p \in Procs : Holds(proc[p], ledger, remote', sessions)
  BY <1>1, EndingTrue
<1>3. sessions \in [RunIds -> RecordState] /\ plan \subseteq Recovery
  BY DEF TickInv
<1>4. state \in {"idle", "closed", "failed"} =>
         \A rec \in ledger : rec.id = r => Over(rec, remote')
  BY <1>1 DEF Over
<1>5. /\ Truthful(ledger, remote', sessions) => Truthful(ledger, remote', sessions')
      /\ \A todo : todo \subseteq Recovery /\ ClosesOver(todo, ledger, remote', sessions)
                   => ClosesOver(todo, ledger, remote', sessions')
      /\ \A l : /\ Holds(l, ledger, remote', sessions)
                /\ l.at = "record" /\ l.runner = "acp" => l.rec.id # r
                => Holds(l, ledger, remote', sessions')
  BY <1>3, <1>4, SessionTrue
<1>6. ClosesOver(plan', ledger, remote', sessions')
  <2>1. ClosesOver(plan, ledger, remote', sessions')
    BY <1>2, <1>3, <1>5
  <2> QED
    BY <2>1 DEF ClosesOver
<1>7. Truthful(ledger, remote', sessions')
      /\ \A p \in Procs : Holds(proc[p], ledger, remote', sessions')
  BY <1>2, <1>5
<1> QED
  BY <1>2, <1>6, <1>7 DEF AllTrue

LEMMA SafeCloseTrue ==
    ASSUME IInv, TickInv, AllTrue, NEW p \in Procs, SafeClose(p)
    PROVE  AllTrue'
<1>1. PICK action \in plan :
         /\ action.kind = "safe_close" /\ CloseRemote(action.run)
         /\ sessions' = [sessions EXCEPT ![action.run] = "closed"]
         /\ plan' = plan \ {action}
  BY DEF SafeClose
<1>2. action.run \in RunIds /\ UNCHANGED <<ledger, proc, unwritten>> /\ proc[p].at = "idle"
  BY DEF TickInv, Recovery, SafeClose, Free, At
<1>3. \A rec \in ledger : rec.id = action.run => ~Active(rec)
  BY <1>1 DEF AllTrue, ClosesOver, Over
<1>4. \A q \in Procs : proc[q].at = "idle"
  BY <1>2, OneAutopilot DEF OneProcess
<1>5. Says(sessions', sessions, action.run, "closed") /\ plan' \subseteq plan
  BY <1>1 DEF Says
<1> QED
  BY <1>1, <1>2, <1>3, <1>4, <1>5, ClosingTrue

LEMMA SessionCloseTrue ==
    ASSUME IInv, TickInv, AllTrue, NEW rec \in ledger, SessionClose(rec)
    PROVE  AllTrue'
<1>1. /\ rec \in RunRecord /\ rec.id \in RunIds /\ CloseRemote(rec.id)
      /\ sessions' = SessionAfter(rec) /\ UNCHANGED <<ledger, proc, unwritten, plan>>
  BY LedgerKnown DEF RunRecord, SessionClose, tickVars
<1> DEFINE state == StateFromRunStatus(rec.task, rec.status)
<1>2. Says(sessions', sessions, rec.id, state)
  BY <1>1 DEF SessionAfter, Says
<1>3. state # "none" /\ (state \in {"idle", "closed", "failed"} => ~Active(rec))
  BY <1>1, BuiltState DEF RunRecord, Active
<1> HIDE DEF state
<1>4. \A r \in ledger : r.id = rec.id => r = rec
  BY DEF IInv, FilesFit, Files
<1>5. \A p \in Procs : proc[p].at = "record" /\ proc[p].runner = "acp"
                       => proc[p].rec.id # rec.id
  BY NotTheFirst
<1> QED
  BY <1>1, <1>2, <1>3, <1>4, <1>5, ClosingTrue

LEMMA SessionCleanupTrue ==
    ASSUME IInv, TickInv, AllTrue, SessionCleanup
    PROVE  AllTrue'
<1>1. /\ sessions' = [r \in RunIds |-> IF r \in stuck /\ sessions[r] = "active" THEN "orphaned"
                                       ELSE sessions[r]]
      /\ UNCHANGED <<ledger, remote, proc, plan, unwritten>>
  BY DEF SessionCleanup, vars, tickVars
<1>2. \A r \in RunIds : /\ LetGo(r, sessions') => LetGo(r, sessions)
                        /\ sessions'[r] = "none" <=> sessions[r] = "none"
  BY <1>1 DEF LetGo
<1>3. \A rec \in ledger : rec.id \in RunIds
  BY LedgerKnown DEF RunRecord
<1>4. \A action \in plan : action.run \in RunIds
  BY DEF TickInv, Recovery
<1>5. \A p \in Procs : proc[p].at = "record" /\ proc[p].runner = "acp" => proc[p].rec.id \in RunIds
  BY AtHandBegun
<1>6. Truthful(ledger, remote, sessions')
  BY <1>2, <1>3 DEF AllTrue, Truthful
<1>7. ClosesOver(plan, ledger, remote, sessions')
  BY <1>2, <1>4 DEF AllTrue, ClosesOver
<1>8. \A p \in Procs : Holds(proc[p], ledger, remote, sessions')
  BY <1>2, <1>5 DEF AllTrue, Holds
<1> QED
  BY <1>1, <1>6, <1>7, <1>8 DEF AllTrue

\* A poll by the operator between two ticks.
LEMMA SessionStatusTrue ==
    ASSUME IInv, TickInv, BegunInv, AllTrue, NEW rec \in ledger, SessionStatus(rec), ~torn'
    PROVE  AllTrue'
<1>1. Resting /\ plan = {}
  BY DEF SessionStatus, TickInv
<1>2. PICK synced \in RunRecord :
         /\ synced.id = rec.id /\ synced.task = rec.task
         /\ \/ synced.status \in PollOutcome(remote[rec.id].state)
            \/ (synced = rec \/ synced.status = "failed") /\ rec.id \in lost
         /\ WriteRun(synced) /\ sessions' = SessionAfter(synced)
         /\ UNCHANGED <<manualAt, remote, nextRun, proc>>
  BY SessionStatusDoes
<1>3. rec.id \in RunIds /\ remote[rec.id].state \in SessionState /\ rec.id < nextRun
  <2>1. rec.id \in RunIds /\ rec.id < nextRun
    BY LedgerBegun
  <2> QED
    BY <2>1 DEF IInv, FilesFit, Files
<1>4. ~Active(synced) => Over(synced, remote)
  <2>1. CASE rec.id \in lost
    BY <1>2, <2>1 DEF BegunInv, Over, Live
  <2>2. CASE synced.status \in PollOutcome(remote[rec.id].state)
    <3>1. remote[rec.id].state = "running" => synced.status = "running"
      BY <2>2 DEF PollOutcome, mapManagerState, applyArtifactAcceptance
    <3> QED
      BY <1>2, <3>1 DEF Over, Active
  <2> QED
    BY <1>2, <2>1, <2>2
<1> DEFINE state == StateFromRunStatus(synced.task, synced.status)
<1>5. sessions' = [sessions EXCEPT ![synced.id] = state]
  BY <1>2 DEF SessionAfter
<1>6. state \in {"idle", "closed", "failed"} => ~Active(synced)
  BY BuiltState DEF RunRecord, Active
<1> HIDE DEF state
<1>7. \A r \in ledger' : (r \in ledger /\ r.id # synced.id) \/ r = synced
  BY <1>2 DEF WriteRun
<1>8. ASSUME NEW r \in ledger', LetGo(r.id, sessions')
      PROVE  Over(r, remote)
  <2>1. CASE r = synced
    <3>1. synced.id \in RunIds /\ sessions \in [RunIds -> RecordState]
      BY DEF RunRecord, TickInv
    <3>2. sessions'[synced.id] = state
      BY <1>5, <3>1
    <3> QED
      BY <1>4, <1>6, <1>8, <2>1, <3>2 DEF LetGo
  <2>2. CASE r \in ledger /\ r.id # synced.id
    <3>1. sessions'[r.id] = sessions[r.id]
      BY <1>5, <2>2
    <3> QED
      BY <1>8, <2>2, <3>1 DEF LetGo, AllTrue, Truthful
  <2> QED
    BY <1>7, <2>1, <2>2
<1>9. Truthful(ledger', remote', sessions')
  BY <1>2, <1>8 DEF Truthful
<1>10. unwritten' = NoRecord /\ plan' = {} /\ \A p \in Procs : proc'[p].at = "idle"
  BY <1>1, <1>2 DEF SessionStatus, tickVars, Resting, At
<1>11. \A p \in Procs : Holds(proc'[p], ledger', remote', sessions')
  BY <1>10, QuietHolds DEF ReportSteps, CancelSteps
<1> QED
  BY <1>9, <1>10, <1>11 DEF AllTrue, ClosesOver, ToBeWritten

LEMMA DispatchTrue ==
    ASSUME IInv, TickInv, BegunInv, AllTrue, NEW p \in Procs, Dispatching(p) \/ Recording(p),
           unwritten = NoRecord, UNCHANGED <<plan, sessions>>
    PROVE  AllTrue'
<1>1. ASSUME proc'[p].at \in {"pick", "reload", "idle", "spawn", "enqueue", "record"},
             proc'[p].at = "record" => proc'[p].runner # "acp",
             UNCHANGED <<ledger, remote, unwritten>>
      PROVE  AllTrue'
  BY <1>1, QuietTrue DEF ReportSteps, CancelSteps
<1>2. Dispatching(p) => unwritten' = unwritten
  BY DEF Dispatching
<1>3. ASSUME NEW t \in Tasks, SkipTask(p, t) \/ SkipForSession(p, t), unwritten' = unwritten
      PROVE  AllTrue'
  BY <1>1, <1>3, SkipTaskDoes, SkipForSessionDoes
<1>4. ASSUME NEW t \in Tasks, PickTask(p, t), unwritten' = unwritten
      PROVE  AllTrue'
  BY <1>1, <1>4, PickTaskDoes
<1>5. CASE SpawnSession(p) /\ unwritten' = unwritten
  <2>1. /\ proc[p].at = "spawn" /\ proc'[p].at = "record"
        /\ nextRun \in RunIds /\ proc'[p].rec.status = "accepted" /\ proc'[p].rec.id = nextRun
        /\ remote' = [remote EXCEPT ![nextRun] =
                         [task |-> proc[p].task, state |-> "running"]]
        /\ ledger' = ledger
    BY <1>5, SpawnSessionDoes
  <2>2. sessions[nextRun] = "none" /\ \A action \in plan : action.run # nextRun
    <3>1. nextRun \in Nat
      BY <2>1, OrchestratorAssumption DEF RunIds
    <3> QED
      BY <2>1, <3>1 DEF BegunInv
  <2>3. \A rec \in ledger : rec.id # nextRun /\ rec.id \in RunIds
    BY LedgerBegun, OrchestratorAssumption DEF RunIds
  <2>4. remote \in [RunIds -> [task : Tasks \union {0}, state : SessionState]]
    BY DEF IInv, FilesFit, Files
  <2>5. \A rec \in ledger : Over(rec, remote) => Over(rec, remote')
    BY <2>1, <2>3, <2>4 DEF Over
  <2>6. Truthful(ledger, remote', sessions) /\ ClosesOver(plan, ledger, remote', sessions)
    BY <2>5 DEF AllTrue, Truthful, ClosesOver
  <2>7. Holds(proc'[p], ledger, remote', sessions)
    BY <2>1, <2>2, <2>3 DEF Holds, Active, ReportSteps
  <2>8. ToBeWritten(unwritten', ledger, remote')
    BY <1>5 DEF ToBeWritten
  <2> QED
    BY <2>1, <2>6, <2>7, <2>8, TrueByOne
<1>6. CASE (CommitDispatch(p) \/ ReloadForQueue(p) \/ EnqueueOverflow(p)) /\ unwritten' = unwritten
  BY <1>1, <1>6, CommitDispatchDoes, ReloadForQueueDoes, EnqueueOverflowDoes
<1>7. CASE Recording(p)
  <2>1. /\ proc[p].at = "record" /\ proc[p].runner = "acp" /\ proc'[p].at = "commit"
        /\ WriteRun(proc[p].rec) /\ remote' = remote
    BY <1>7, RecordRunDoes DEF Recording
  <2>2. Active(proc[p].rec) /\ sessions[proc[p].rec.id] = "none"
    BY <2>1 DEF AllTrue, Holds
  <2>3. unwritten' = proc[p].rec /\ proc[p].rec \in ledger'
    BY <1>7, <2>1 DEF Recording, WriteRun
  <2>4. ToBeWritten(unwritten', ledger', remote)
    BY <2>2, <2>3 DEF ToBeWritten
  <2>5. Holds(proc'[p], ledger', remote, sessions)
    BY <2>1, QuietHolds DEF ReportSteps, CancelSteps
  <2>6. SaysNoLess(proc[p].rec, ledger, remote, sessions)
    BY <2>2 DEF SaysNoLess
  <2> QED
    BY <2>1, <2>4, <2>5, <2>6, WriteTrue
<1> QED
  BY <1>2, <1>3, <1>4, <1>5, <1>6, <1>7 DEF Dispatching

LEMMA SyncTrue ==
    ASSUME IInv, TickInv, AllTrue, NEW p \in Procs,
           \/ Polling(p) /\ unwritten' = unwritten
           \/ NoteSynced(p) /\ unwritten' = unwritten
           \/ Settle(p) /\ unwritten' = proc[p].rec,
           unwritten = NoRecord, UNCHANGED <<plan, sessions>>
    PROVE  AllTrue'
<1>1. Holds(proc[p], ledger, remote, sessions) /\ ToBeWritten(unwritten, ledger, remote)
  BY DEF AllTrue
<1>2. \A a, b \in ledger : a.id = b.id => a = b
  BY DEF IInv, FilesFit, Files
<1>3. CASE LoadForSync(p) /\ unwritten' = unwritten
  <2>1. /\ proc[p].at = "poll" /\ proc'[p].at = "observe" /\ proc'[p].rec \in proc[p].polls
        /\ proc'[p].polls = proc[p].polls \ {proc'[p].rec}
        /\ UNCHANGED <<ledger, remote>>
    BY <1>3, LoadForSyncDoes
  <2>2. Holds(proc'[p], ledger, remote, sessions)
    BY <1>1, <1>2, <2>1 DEF Holds, ReportSteps
  <2> QED
    BY <1>1, <1>3, <2>1, <2>2, MoveTrue
<1>4. CASE Observe(p) /\ unwritten' = unwritten
  <2>1. /\ proc[p].at = "observe" /\ proc'[p].at = "note" /\ Carried(proc[p], proc'[p])
        /\ proc'[p].rec.id = proc[p].rec.id
        /\ proc'[p].rec.status \in PollOutcome(remote[proc[p].rec.id].state)
        /\ UNCHANGED <<ledger, remote>>
    BY <1>4, ObserveDoes
  <2>2. Active(proc'[p].rec) \/ remote[proc'[p].rec.id].state # "running"
    BY <2>1 DEF PollOutcome, mapManagerState, applyArtifactAcceptance, Active
  <2>3. Holds(proc'[p], ledger, remote, sessions)
    BY <1>1, <2>1, <2>2 DEF Holds, Carried, ReportSteps
  <2> QED
    BY <1>1, <1>4, <2>1, <2>3, MoveTrue
<1>5. CASE AnswerByLedger(p) /\ unwritten' = unwritten
  <2>1. /\ proc[p].at = "observe" /\ proc'[p].at = "note" /\ Carried(proc[p], proc'[p])
        /\ proc'[p].rec = proc[p].rec /\ UNCHANGED <<ledger, remote>>
    BY <1>5, AnswerByLedgerDoes
  <2>2. Holds(proc'[p], ledger, remote, sessions)
    BY <1>1, <2>1 DEF Holds, Carried, ReportSteps
  <2> QED
    BY <1>1, <1>5, <2>1, <2>2, MoveTrue
<1>6. CASE NoteSynced(p) /\ unwritten' = unwritten
  <2>1. /\ proc[p].at = "note" /\ proc'[p].at = "settle" /\ Carried(proc[p], proc'[p])
        /\ proc'[p].rec = proc[p].rec /\ WriteRun(proc[p].rec) /\ remote' = remote
    BY <1>6, NoteSyncedDoes
  <2>2. PICK o \in ledger : o.id = proc[p].rec.id /\ Active(o)
    BY <1>1, <2>1 DEF Holds
  <2>3. SaysNoLess(proc[p].rec, ledger, remote, sessions)
    BY <2>2 DEF SaysNoLess, Over
  <2>4. \A rec \in proc[p].polls : rec \in ledger /\ Active(rec) /\ rec.id # proc[p].rec.id
    BY <1>1, <2>1 DEF Holds, ReportSteps
  <2>5. \A r : r \in ledger' <=> r = proc[p].rec \/ (r \in ledger /\ r.id # proc[p].rec.id)
    BY <2>1 DEF WriteRun
  <2>6. Holds(proc'[p], ledger', remote, sessions)
    BY <1>1, <2>1, <2>4, <2>5 DEF Holds, Carried, ReportSteps
  <2>7. ToBeWritten(unwritten', ledger', remote)
    BY <1>6 DEF ToBeWritten
  <2> QED
    BY <2>1, <2>3, <2>6, <2>7, WriteTrue
<1>7. CASE Settle(p) /\ unwritten' = proc[p].rec
  <2>1. /\ proc[p].at = "settle" /\ proc'[p].at \in {"poll", "idle"}
        /\ proc'[p].polls = proc[p].polls /\ UNCHANGED <<ledger, remote>>
    BY <1>7, SettleDoes
  <2>2. ToBeWritten(unwritten', ledger, remote)
    BY <1>1, <1>7, <2>1 DEF Holds, ToBeWritten, Over
  <2>3. Holds(proc'[p], ledger, remote, sessions)
    BY <1>1, <2>1 DEF Holds, ReportSteps
  <2> QED
    BY <2>1, <2>2, <2>3, MoveTrue
<1> QED
  BY <1>3, <1>4, <1>5, <1>6, <1>7 DEF Polling, AnswerByLedger

LEMMA CancelTrue ==
    ASSUME IInv, TickInv, AllTrue, NEW p \in Procs,
           \/ (CancelSession(p) \/ StampRun(p) \/ LoadForCancel(p)) /\ unwritten' = unwritten
           \/ ApplyCancel(p) /\ unwritten' = proc[p].rec,
           unwritten = NoRecord, UNCHANGED <<plan, sessions>>
    PROVE  AllTrue'
<1>1. Holds(proc[p], ledger, remote, sessions) /\ ToBeWritten(unwritten, ledger, remote)
  BY DEF AllTrue
<1>2. CASE CancelSession(p) /\ unwritten' = unwritten
  <2>1. /\ proc[p].at = "cancel" /\ proc'[p].at = "stamp" /\ proc'[p].rec = proc[p].rec
        /\ \E state \in SessionState \ {"running"} :
              remote' = [remote EXCEPT ![proc[p].rec.id].state = state]
        /\ ledger' = ledger
    BY <1>2, CancelSessionDoes
  <2>2. proc[p].rec.id \in RunIds
    BY <2>1, AtHandBegun DEF RunSteps
  <2>3. remote \in [RunIds -> [task : Tasks \union {0}, state : SessionState]]
    BY DEF IInv, FilesFit, Files
  <2>4. Ends(remote, remote') /\ remote'[proc[p].rec.id].state # "running"
    BY <2>1, <2>2, <2>3 DEF Ends
  <2>5. ledger \in SUBSET RunRecord
    BY LedgerKnown
  <2>6. /\ Truthful(ledger, remote', sessions) /\ ClosesOver(plan, ledger, remote', sessions)
        /\ ToBeWritten(unwritten, ledger, remote')
    BY <2>4, <2>5, EndsTrue DEF AllTrue
  <2>7. Holds(proc'[p], ledger, remote', sessions)
    BY <2>1, <2>4 DEF Holds, ReportSteps
  <2> QED
    BY <1>2, <2>1, <2>6, <2>7, TrueByOne
<1>3. CASE StampRun(p) /\ unwritten' = unwritten
  <2>1. /\ proc[p].at = "stamp" /\ proc'[p].at = "load" /\ Carried(proc[p], proc'[p])
        /\ proc'[p].rec.id = proc[p].rec.id
        /\ proc'[p].rec.status \in {"timed_out", "cancelled"}
        /\ WriteRun(proc'[p].rec) /\ remote' = remote
    BY <1>3, StampRunDoes
  <2>2. Over(proc'[p].rec, remote)
    BY <1>1, <2>1 DEF Holds, Over, Active
  <2>4. SaysNoLess(proc'[p].rec, ledger, remote, sessions)
    BY <2>2 DEF SaysNoLess
  <2>5. Holds(proc'[p], ledger', remote, sessions)
    BY <2>1, <2>2 DEF Holds, ReportSteps, WriteRun
  <2>6. ToBeWritten(unwritten', ledger', remote)
    BY <1>3 DEF ToBeWritten
  <2> QED
    BY <2>1, <2>4, <2>5, <2>6, WriteTrue
<1>4. CASE LoadForCancel(p) /\ unwritten' = unwritten
  <2>1. /\ proc[p].at = "load" /\ proc'[p].at = "apply" /\ proc'[p].rec = proc[p].rec
        /\ UNCHANGED <<ledger, remote>>
    BY <1>4, LoadForCancelDoes
  <2>2. Holds(proc'[p], ledger, remote, sessions)
    BY <1>1, <2>1 DEF Holds, ReportSteps
  <2> QED
    BY <1>1, <1>4, <2>1, <2>2, MoveTrue
<1>5. CASE ApplyCancel(p) /\ unwritten' = proc[p].rec
  <2>1. /\ proc[p].at = "apply" /\ proc'[p].at \in {"idle", "reread"}
        /\ UNCHANGED <<ledger, remote>>
    BY <1>5, ApplyCancelDoes
  <2>2. ToBeWritten(unwritten', ledger, remote)
    BY <1>1, <1>5, <2>1 DEF Holds, ToBeWritten
  <2>3. Holds(proc'[p], ledger, remote, sessions)
    BY <2>1, QuietHolds DEF ReportSteps, CancelSteps
  <2> QED
    BY <2>1, <2>2, <2>3, MoveTrue
<1> QED
  BY <1>2, <1>3, <1>4, <1>5

LEMMA RetryTrue ==
    ASSUME IInv, TickInv, AllTrue, NEW p \in Procs, RetryStep(p), unwritten' = unwritten,
           unwritten = NoRecord, UNCHANGED <<plan, sessions>>
    PROVE  AllTrue'
<1>1. Holds(proc[p], ledger, remote, sessions) /\ ToBeWritten(unwritten, ledger, remote)
  BY DEF AllTrue
<1>2. CASE RereadRun(p)
  <2>1. proc'[p].at = "retry" /\ proc'[p].rec \in ledger /\ UNCHANGED <<ledger, remote>>
    BY <1>2, RereadRunDoes
  <2>2. Holds(proc'[p], ledger, remote, sessions)
    BY <2>1 DEF Holds, ReportSteps
  <2> QED
    BY <1>1, <2>1, <2>2, MoveTrue
<1>3. CASE EvaluateRetry(p)
  <2>1. /\ proc[p].at = "retry"
        /\ \/ proc'[p].at = "idle"
           \/ /\ proc'[p].at \in {"history", "bury"} /\ proc'[p].rec.id = proc[p].rec.id
              /\ proc'[p].rec.status = proc[p].rec.status
              /\ proc'[p].at = "history" => Retryable(proc[p].rec.status)
        /\ UNCHANGED <<ledger, remote>>
    BY <1>3, EvaluateRetryDoes
  <2>2. CASE proc'[p].at \in {"idle", "bury"}
    BY <2>1, <2>2, QuietTrue DEF ReportSteps, CancelSteps
  <2>3. CASE proc'[p].at = "history"
    <3>1. ~Active(proc'[p].rec)
      BY <2>1, <2>3, OrchestratorAssumption DEF Retryable, Active
    <3>2. \E o \in ledger : o.id = proc'[p].rec.id
      BY <1>1, <2>1, <2>3 DEF Holds
    <3>3. Holds(proc'[p], ledger, remote, sessions)
      BY <2>3, <3>1, <3>2 DEF Holds, ReportSteps
    <3> QED
      BY <1>1, <2>1, <3>3, MoveTrue
  <2> QED
    BY <2>1, <2>2, <2>3
<1>4. CASE WriteHistory(p)
  <2>1. /\ proc[p].at = "history" /\ proc'[p].at = "rearm" /\ WriteRun(proc[p].rec)
        /\ remote' = remote
    BY <1>4, WriteHistoryDoes
  <2>2. PICK o \in ledger : ~Active(proc[p].rec) /\ o.id = proc[p].rec.id
    BY <1>1, <2>1 DEF Holds
  <2>3. SaysNoLess(proc[p].rec, ledger, remote, sessions)
    BY <2>2 DEF SaysNoLess, Over
  <2>4. Holds(proc'[p], ledger', remote, sessions)
    BY <2>1, QuietHolds DEF ReportSteps, CancelSteps
  <2>5. ToBeWritten(unwritten', ledger', remote)
    BY DEF ToBeWritten
  <2> QED
    BY <2>1, <2>3, <2>4, <2>5, WriteTrue
<1>5. CASE RearmTask(p) \/ BuryTask(p)
  <2>1. proc'[p].at \in {"pick", "idle"} /\ UNCHANGED <<ledger, remote>>
    BY <1>5, RearmTaskDoes, BuryTaskDoes
  <2> QED
    BY <2>1, QuietTrue DEF ReportSteps, CancelSteps
<1> QED
  BY <1>2, <1>3, <1>4, <1>5 DEF RetryStep

LEMMA OperationTrue ==
    ASSUME IInv, TickInv, BegunInv, AllTrue, NEW p \in Procs, OperationStep(p)
    PROVE  AllTrue'
<1>1. unwritten = NoRecord /\ UNCHANGED <<plan, sessions>>
  BY DEF OperationStep
<1>2. CASE Dispatching(p) \/ Recording(p)
  BY <1>1, <1>2, DispatchTrue
<1>3. CASE Polling(p) \/ Noting(p) \/ Settling(p) \/ Cancelling(p) \/ Retrying(p)
  <2>1. \/ Polling(p) /\ unwritten' = unwritten
        \/ NoteSynced(p) /\ unwritten' = unwritten
        \/ Settle(p) /\ unwritten' = proc[p].rec
        \/ (CancelSession(p) \/ StampRun(p) \/ LoadForCancel(p)) /\ unwritten' = unwritten
        \/ ApplyCancel(p) /\ unwritten' = proc[p].rec
        \/ RetryStep(p) /\ unwritten' = unwritten
    BY <1>3 DEF Polling, Noting, Settling, Cancelling, Retrying, RetryStep
  <2> QED
    BY <1>1, <2>1, SyncTrue, CancelTrue, RetryTrue
<1> QED
  BY <1>2, <1>3 DEF OperationStep

LEMMA StillTrue ==
    ASSUME AllTrue, UNCHANGED <<ledger, remote, sessions, proc, unwritten>>, plan' \subseteq plan
    PROVE  AllTrue'
BY DEF AllTrue, ClosesOver

LEMMA PhaseTrue ==
    ASSUME IInv, TickInv, AllTrue, NEW p \in Procs,
           \/ TickBegins(p) \/ Review(p) \/ PlanRecovery(p) \/ SafeCancel(p)
           \/ Dispatch(p) \/ TickEnds(p) \/ CloseThrows(p)
           \/ CallThrows(p) \/ SpawnThrows(p) \/ SpawnRefused(p)
    PROVE  AllTrue'
<1>1. CASE StartSyncActive(p) /\ UNCHANGED <<plan, unwritten, sessions>>
  <2>1. /\ proc'[p].at = "poll" /\ \A rec \in proc'[p].polls : rec \in ledger /\ Active(rec)
        /\ UNCHANGED <<ledger, remote>>
    BY <1>1, StartSyncActiveDoes
  <2>2. Holds(proc'[p], ledger, remote, sessions)
    BY <2>1, QuietHolds DEF ReportSteps, CancelSteps
  <2> QED
    BY <1>1, <2>1, <2>2, MoveTrue DEF AllTrue
<1>2. CASE StartBatch(p, MaxDispatch, "task") /\ UNCHANGED <<plan, unwritten, sessions>>
  <2>1. proc'[p].at \in {"pick", "reload", "idle"} /\ UNCHANGED <<ledger, remote>>
    BY <1>2, StartBatchDoes
  <2> QED
    BY <1>2, <2>1, QuietTrue DEF ReportSteps, CancelSteps
<1>3. CASE PlanRecovery(p)
  <2>1. UNCHANGED <<ledger, remote, sessions, proc, unwritten>>
    BY <1>3 DEF PlanRecovery, vars
  <2>2. \A action \in plan' : action.kind = "safe_close" => sessions[action.run] = "idle"
    BY <1>3 DEF PlanRecovery
  <2>3. ClosesOver(plan', ledger, remote, sessions)
    BY <2>2 DEF ClosesOver, AllTrue, Truthful, LetGo
  <2> QED
    BY <2>1, <2>3 DEF AllTrue
<1>4. CASE SafeCancel(p)
  <2>1. /\ proc'[p].at = "cancel" /\ UNCHANGED <<ledger, remote, sessions, unwritten>>
        /\ plan' \subseteq plan
    BY <1>4, SafeCancelDoes DEF SafeCancel
  <2>2. Holds(proc'[p], ledger, remote, sessions)
    BY <2>1 DEF Holds, ReportSteps
  <2> QED
    BY <2>1, <2>2, MoveTrue DEF AllTrue
<1>5. CASE CallThrows(p) \/ SpawnThrows(p) \/ SpawnRefused(p)
  <2>1. RuntimeCallFails(p) /\ TickAborts /\ sessions' = sessions
    BY <1>5 DEF CallThrows, SpawnThrows, SpawnRefused
  <2>2. proc'[p].at = "idle" /\ UNCHANGED <<ledger, remote>>
    BY <2>1, RuntimeCallFailsDoes
  <2>3. unwritten' = NoRecord /\ plan' = {}
    BY <2>1 DEF TickAborts
  <2> QED
    BY <2>1, <2>2, <2>3, QuietTrue DEF ReportSteps, CancelSteps
<1>6. CASE CloseThrows(p)
  <2>1. UNCHANGED <<ledger, remote, sessions, proc, unwritten>> /\ plan' \subseteq plan
    BY <1>6 DEF CloseThrows, TickAborts, Free, vars
  <2> QED
    BY <2>1, StillTrue
<1>7. CASE UNCHANGED <<ledger, remote, sessions, proc, unwritten, plan>>
  BY <1>7, StillTrue
<1> QED
  BY <1>1, <1>2, <1>3, <1>4, <1>5, <1>6, <1>7 DEF TickBegins, Review, Dispatch, TickEnds, vars

LEMMA OutsideTrue ==
    ASSUME IInv, AllTrue, NEW r \in RunIds,
           RemoteEnds(r) \/ OutageBegins(r) \/ OutageEnds(r) \/ GrowsStuck(r) \/ GrowsStale(r)
    PROVE  AllTrue'
<1>1. UNCHANGED <<ledger, proc, sessions, unwritten, plan>>
  BY DEF RemoteEnds, SessionEnds, OutageBegins, OutageEnds, GrowsStuck, GrowsStale, tickVars, vars
<1>2. CASE RemoteEnds(r)
  <2>1. /\ remote[r].state = "running"
        /\ \E state : remote' = [remote EXCEPT ![r].state = state]
    BY <1>2 DEF RemoteEnds, SessionEnds
  <2>2. remote \in [RunIds -> [task : Tasks \union {0}, state : SessionState]]
    BY DEF IInv, FilesFit, Files
  <2>3. Ends(remote, remote')
    BY <2>1, <2>2 DEF Ends
  <2> QED
    BY <1>1, <2>3, EndingTrue DEF AllTrue
<1>3. CASE ~RemoteEnds(r)
  <2>1. remote' = remote
    BY <1>3 DEF OutageBegins, OutageEnds, GrowsStuck, GrowsStale, vars
  <2> QED
    BY <1>1, <2>1, StillTrue
<1> QED
  BY <1>2, <1>3

\* What has been torn stays so.
LEMMA TornForGood ==
    ASSUME TickInv, [AutopilotNext]_autopilotVars, ~torn'
    PROVE  ~torn /\ \A p \in Procs : ~Killed(p)
<1>1. \A p \in Procs : ~Killed(p)
  BY DEF Killed
<1>2. CASE UNCHANGED autopilotVars
  BY <1>1, <1>2 DEF autopilotVars, countVars
<1>3. CASE OperatorCommand
  <2>1. \A rec : SessionClose(rec) \/ SessionStatus(rec) => (torn => torn')
    BY Zenon DEF SessionClose, SessionStatus
  <2>2. SessionCleanup => (torn => torn')
    BY Zenon DEF SessionCleanup
  <2> QED
    BY <1>1, <1>3, <2>1, <2>2, Zenon DEF OperatorCommand
<1>4. CASE AutopilotNext /\ ~OperatorCommand
  <2>1. torn' = torn
    BY <1>1, <1>4, AutopilotAssumption
       DEF AutopilotNext, TickStep, SpawnThrows, Time, RemoteEnds, OutageBegins, OutageEnds,
           GrowsStuck, GrowsStale, TickBegins, Review, PlanRecovery, SafeCancel, SafeClose,
           Dispatch, TickEnds, OperationStep, WriteSession, CallThrows, CloseThrows,
           SpawnRefused, countVars
  <2> QED
    BY <1>1, <2>1
<1> QED
  BY <1>2, <1>3, <1>4

LEMMA NextTrue ==
    ASSUME IInv, TickInv, BegunInv, TruthInv, [AutopilotNext]_autopilotVars
    PROVE  TruthInv'
<1> SUFFICES ASSUME ~torn'
             PROVE  AllTrue'
  BY DEF TruthInv
<1>1. AllTrue /\ \A p \in Procs : ~Killed(p)
  BY TornForGood DEF TruthInv
<1>2. CASE UNCHANGED autopilotVars
  BY <1>1, <1>2, StillTrue DEF autopilotVars, tickVars, vars
<1>3. CASE OperatorCommand
  BY <1>1, <1>3, SessionCloseTrue, SessionStatusTrue, SessionCleanupTrue DEF OperatorCommand
<1>4. CASE AutopilotNext /\ ~OperatorCommand
  BY <1>1, <1>4, OperationTrue, PhaseTrue, SafeCloseTrue, SessionWriteTrue, OutsideTrue,
     AutopilotAssumption
     DEF AutopilotNext, TickStep, Time
<1> QED
  BY <1>2, <1>3, <1>4

LEMMA InitTrue == AutopilotInit => TruthInv
<1> SUFFICES ASSUME AutopilotInit
             PROVE  AllTrue
  BY DEF TruthInv
<1>1. /\ ledger = {} /\ plan = {} /\ unwritten = NoRecord
      /\ \A p \in Procs : proc[p].at = "idle"
  BY IdleIs DEF AutopilotInit, Init
<1>2. \A p \in Procs : Holds(proc[p], ledger, remote, sessions)
  BY <1>1, QuietHolds DEF ReportSteps, CancelSteps
<1> QED
  BY <1>1, <1>2 DEF AllTrue, Truthful, ClosesOver, ToBeWritten

LEMMA TruthInvariance == AutopilotSpec => []TruthInv
<1>1. AutopilotInit => BegunInv /\ TruthInv
  BY InitBegun, InitTrue
<1>2. (IInv /\ TickInv) /\ (BegunInv /\ TruthInv) /\ [AutopilotNext]_autopilotVars
      => (BegunInv /\ TruthInv)'
  BY NextBegun, NextTrue
<1> QED
  BY <1>1, <1>2, AutopilotInvariance, PTL DEF AutopilotSpec

\* Unless a tick was torn, a session that its record offers for reuse, or calls
\* over, is over and its run with it, whatever a sync, a recovery, a retry and the
\* operator's commands write of it, each from what it read before.
THEOREM RecordsAreTrue == AutopilotSpec => []SessionRecordsAreTrue
<1>1. TruthInv => SessionRecordsAreTrue
  BY DEF TruthInv, AllTrue, Truthful, LetGo, Over, Live, SessionRecordsAreTrue
<1> QED
  BY <1>1, TruthInvariance, PTL

----------------------------------------------------------------------------
\* What holds of the files under every process holds under the autopilot, whose
\* ticks do what the processes of SwarmOrchestrator do and more.

\* No tick, killed or not, and no session command leaves a workflow file that
\* misleads its readers.
THEOREM AutopilotCoherence == AutopilotSpec => []Coherent
<1>1. IInv => Coherent
  BY DEF IInv, Coherent
<1> QED
  BY <1>1, AutopilotInvariance, PTL

\* Behind what the workflow says of runs there are records, although a tick that
\* is killed, or that fails, has written some files and not others.
THEOREM AutopilotRecords == AutopilotSpec => []LedgerBacksWorkflow
<1>1. IInv => LedgerBacksWorkflow
  BY DEF IInv, Backed, RecordsIn, Records, Files, LedgerBacksWorkflow
<1> QED
  BY <1>1, AutopilotInvariance, PTL
=============================================================================
