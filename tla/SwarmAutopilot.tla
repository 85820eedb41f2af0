--------------------------- MODULE SwarmAutopilot ---------------------------
(***************************************************************************)
(* The autopilot at work: AutopilotController.tick                         *)
(* (src/src/autopilot/controller.ts) as a sequence of the operations of    *)
(* SwarmOrchestrator, with what that module leaves out: the review policy, *)
(* the recovery plan, degraded mode, the records of the sessions, a        *)
(* runtime that cannot be asked about a session, and the operator's        *)
(* session commands.                                                       *)
(*                                                                         *)
(* There is one autopilot, it holds its lease and nobody pauses it (see    *)
(* AutopilotLease for that).  A session command is one step, which falls   *)
(* between any two steps of a tick.  All tasks are ACP tasks of one        *)
(* reusable kind and one spec.                                             *)
(***************************************************************************)
EXTENDS SwarmOrchestrator, SequencesExt

CONSTANTS
    SessionPolicy,      \* [Tasks -> the policies]: task.session.policy
    BindingKey,         \* task.session.bindingKey, "none" if it is not set
    ReviewMode,         \* config autopilot.reviewPolicy.mode
    Denied, Allowed,    \* the tasks that match the policy's deny and allow tags
    MaxDispatch,        \* config autopilot.maxDispatchPerTick
    DegradedWindow,     \* config recoveryPolicy.degradedTerminalWindow
    DegradedMinRuns,    \* config recoveryPolicy.degradedMinTerminalRuns
    DegradedPercent,    \* config recoveryPolicy.degradedFailureRate, in percent
    MaxDisturbances     \* bound: kills, calls that throw, sessions that cannot be
                        \* asked, and session commands, together

ASSUME AutopilotAssumption ==
    /\ \E p \in Procs : Procs = {p}
    /\ Autopilots = Procs /\ Operators = {}
    /\ AcpTasks = Tasks
    /\ SessionPolicy \in [Tasks -> {"none", "create_persistent", "reuse_if_available",
                                    "require_existing"}]
    /\ DOMAIN BindingKey = Tasks
    /\ ReviewMode \in {"manual_only", "auto_safe", "auto_allowlist"}
    /\ Denied \subseteq Tasks /\ Allowed \subseteq Tasks
    /\ MaxDispatch \in Nat \ {0}
    /\ DegradedWindow \in Nat \ {0} /\ DegradedMinRuns \in Nat \ {0}
    /\ DegradedPercent \in 0..100
    /\ MaxDisturbances \in Nat

VARIABLES
    phase,      \* where the tick is
    plan,       \* the actions of the recovery plan that are left
    sessions,   \* sessions[r]: the state in the record of the session that run r started
    unwritten,  \* the run whose session record the operation writes next, or NoRecord
    closed,     \* the runs whose record has a "closed" event,
    closedSeen, \* and those whose record had one when the operation loaded it
    lost,       \* outside: closed sessions whose metadata the runtime has dropped
    outage,     \* outside: sessions that every call into the runtime throws for
    stuck,      \* outside: runs that were started more than stuckRunMinutes ago
    rested,     \* outside: runs that ended more than idleSessionMinutes ago
    disturbances,
    torn        \* history: a tick was killed halfway, or wrote the workflow over
                \* what a session command had written meanwhile

tickVars == <<phase, plan, unwritten, closedSeen>>
runtimeVars == <<lost, outage>>
clockVars == <<stuck, rested>>
countVars == <<disturbances, torn>>
autopilotVars == <<vars, tickVars, sessions, closed, runtimeVars, clockVars, countVars>>

RecordState == {"none", "active", "idle", "closed", "failed", "orphaned"}

Recovery == [kind : {"safe_cancel", "safe_close"}, run : RunIds]

AutopilotInit ==
    /\ Init
    /\ phase = "idle" /\ plan = {} /\ unwritten = NoRecord /\ closedSeen = {}
    /\ sessions = [r \in RunIds |-> "none"] /\ closed = {}
    /\ lost = {} /\ outage = {} /\ stuck = {} /\ rested = {}
    /\ disturbances = 0 /\ torn = FALSE

----------------------------------------------------------------------------
\* The records of the sessions.

\* The mode of the session that a run of this task starts.
Persistent(t) == SessionPolicy[t] = "create_persistent"

\* Slip: a run that was only accepted counts as over.
StateFromRunStatusSlip(t, status) ==
    CASE status = "running" -> "active"
      [] status \in {"accepted", "completed"} -> IF Persistent(t) THEN "idle" ELSE "closed"
      [] status \in {"failed", "timed_out"} -> "failed"
      [] status = "cancelled" -> "closed"

\* What a record says after a run: buildSessionRecordFromRun is called without
\* the record there was, so what that one said does not matter.
StateFromRunStatus(t, status) ==
    CASE status \in {"accepted", "running"} -> "active"
      [] status = "completed" -> IF Persistent(t) THEN "idle" ELSE "closed"
      [] status \in {"failed", "timed_out"} -> "failed"
      [] status = "cancelled" -> "closed"

SessionAfter(rec) == [sessions EXCEPT ![rec.id] = StateFromRunStatus(rec.task, rec.status)]

\* A task without a binding key of its own looks for "<spec>:<kind>", which no
\* record holds, because records hold the keys that were set on tasks.
Reusable(t) ==
    {r \in RunIds : /\ sessions[r] \in {"active", "idle"}
                    /\ Persistent(remote[r].task)
                    /\ BindingKey[t] # "none" /\ BindingKey[remote[r].task] = BindingKey[t]}

SessionMissing(t) == SessionPolicy[t] = "require_existing" /\ Reusable(t) = {}

----------------------------------------------------------------------------
\* Calls into the runtime that throw.

Disturbance == disturbances < MaxDisturbances /\ disturbances' = disturbances + 1

Unreachable == lost \union outage

\* syncRunRecord goes on with the record that it has when the session is gone
\* and the record says that somebody closed it.
UsesLedger(r) == r \in lost \ outage /\ r \in closedSeen

\* Slip: the rest of the recovery plan outlives the tick.
TickAbortsSlip ==
    /\ phase' = "idle" /\ unwritten' = NoRecord /\ closedSeen' = {}
    /\ UNCHANGED plan

\* A call throws: it takes the operation and the whole tick with it.
TickAborts ==
    /\ phase' = "idle" /\ plan' = {} /\ unwritten' = NoRecord /\ closedSeen' = {}

CallThrows(p) ==
    /\ proc[p].at \in {"observe", "cancel"}
    /\ proc[p].rec.id \in Unreachable
    /\ proc[p].at = "observe" => ~UsesLedger(proc[p].rec.id)
    /\ RuntimeCallFails(p)
    /\ TickAborts
    /\ UNCHANGED <<sessions, closed, runtimeVars, clockVars, countVars>>

SpawnThrows(p) ==
    /\ At(p, "spawn") /\ Disturbance
    /\ RuntimeCallFails(p)
    /\ TickAborts
    /\ UNCHANGED <<sessions, closed, runtimeVars, clockVars, torn>>

BeyondBound == nextRun > MaxRuns /\ \E p \in Procs : At(p, "spawn")

\* Bound: a runtime that has started MaxRuns sessions starts no more.
SpawnRefused(p) ==
    /\ BeyondBound /\ At(p, "spawn")
    /\ RuntimeCallFails(p)
    /\ TickAborts
    /\ UNCHANGED <<sessions, closed, runtimeVars, clockVars, countVars>>

----------------------------------------------------------------------------
\* A tick: sync, review, recovery, dispatch.

Free(p) == At(p, "idle") /\ unwritten = NoRecord

TickBegins(p) ==
    /\ phase = "idle" /\ Free(p)
    /\ phase' = "sync" /\ closedSeen' = closed
    /\ \/ StartSyncActive(p)
       \/ /\ \A rec \in ledger : Active(rec) => wf.status[rec.task] # "running"
          /\ UNCHANGED vars
    /\ UNCHANGED <<plan, unwritten, sessions, closed, runtimeVars, clockVars, countVars>>

\* Slip: how the latest run ended is not looked at.
PolicyDecisionSlip(t) ==
    IF ReviewMode = "manual_only" \/ Records(t) = {} THEN "escalate"
    ELSE IF t \in Denied \/ (ReviewMode = "auto_allowlist" /\ t \notin Allowed) THEN "escalate"
    ELSE "approve"

\* The decision of the review policy on a task in the queue, by its latest run.
PolicyDecision(t) ==
    IF ReviewMode = "manual_only" \/ Records(t) = {} THEN "escalate"
    ELSE IF \E rec \in Records(t) : IsLatest(rec, Records(t)) /\ rec.status # "completed" THEN "reject"
    ELSE IF t \in Denied \/ (ReviewMode = "auto_allowlist" /\ t \notin Allowed) THEN "escalate"
    ELSE "approve"

\* The workflow once the policy has decided on the tasks of the sequence, in its order.
DecidedOn(order) ==
    LET after[n \in 0..Len(order)] ==
            IF n = 0 THEN wf
            ELSE ApplyReviewDecision(after[n - 1], order[n], PolicyDecision(order[n]))
    IN  after[Len(order)]

\* The whole queue is decided on, and saved once.
Review(p) ==
    LET decided == {t \in wf.reviewQueue : PolicyDecision(t) # "escalate"}
    IN  /\ phase = "sync" /\ Free(p)
        /\ phase' = "review"
        /\ \E order \in SetToSeqs(decided) : wf' = DecidedOn(order)
        /\ UNCHANGED <<ledger, manualAt, remote, nextRun, proc, plan, unwritten, closedSeen, sessions,
                       closed, runtimeVars, clockVars, countVars>>

BeyondBudget(t) == Recoveries(t) >= MaxRecoveries

\* Slip: sessions that are called active are closed for being idle.
PlanRecoverySlip(p) ==
    LET stuckRuns == {rec \in ledger : /\ wf.status[rec.task] = "running"
                                       /\ IsActiveLatestRun(rec, rec.task)
                                       /\ rec.id \in stuck /\ ~BeyondBudget(rec.task)}
        staleSessions == {r \in rested : sessions[r] = "active" /\ Persistent(remote[r].task)}
    IN  /\ phase = "review" /\ Free(p)
        /\ phase' = "recover"
        /\ plan' = {[kind |-> "safe_cancel", run |-> rec.id] : rec \in stuckRuns}
                     \union {[kind |-> "safe_close", run |-> r] : r \in staleSessions}
        /\ UNCHANGED <<vars, unwritten, closedSeen, sessions, closed, runtimeVars, clockVars, countVars>>

\* planAutopilotRecovery: what is only escalated is not in the plan.
PlanRecovery(p) ==
    LET stuckRuns == {rec \in ledger : /\ wf.status[rec.task] = "running"
                                       /\ IsActiveLatestRun(rec, rec.task)
                                       /\ rec.id \in stuck /\ ~BeyondBudget(rec.task)}
        staleSessions == {r \in rested : sessions[r] = "idle" /\ Persistent(remote[r].task)}
    IN  /\ phase = "review" /\ Free(p)
        /\ phase' = "recover"
        /\ plan' = {[kind |-> "safe_cancel", run |-> rec.id] : rec \in stuckRuns}
                     \union {[kind |-> "safe_close", run |-> r] : r \in staleSessions}
        /\ UNCHANGED <<vars, unwritten, closedSeen, sessions, closed, runtimeVars, clockVars, countVars>>

\* Cancels come first, in the order of their tasks.
IsNextAction(action) ==
    /\ action \in plan
    /\ \A other \in plan :
          \/ action.kind = "safe_cancel" /\ other.kind = "safe_close"
          \/ action.kind = other.kind /\ remote[action.run].task <= remote[other.run].task

\* cancelRun, from its load of the run record on; a retry follows.
SafeCancel(p) ==
    /\ phase = "recover" /\ Free(p)
    /\ \E action \in plan, rec \in ledger :
          /\ action.kind = "safe_cancel" /\ IsNextAction(action) /\ rec.id = action.run
          /\ plan' = plan \ {action}
          /\ Become(p, [Idle EXCEPT !.at = "cancel", !.task = rec.task, !.rec = rec, !.recovery = TRUE])
    /\ closedSeen' = closed
    /\ UNCHANGED <<wf, ledger, manualAt, remote, nextRun, phase, unwritten, sessions, closed,
                   runtimeVars, clockVars, countVars>>

\* What closing does outside: a session that runs is stopped, and the runtime may
\* forget about it.
CloseRemote(r) ==
    /\ \E state \in (IF remote[r].state = "running" THEN {"clean", "broken"} ELSE {remote[r].state}) :
          remote' = [remote EXCEPT ![r].state = state]
    /\ lost' \in {lost, lost \union {r}}

\* closeSession: the record of the session says closed, that of the run has the event.
SafeClose(p) ==
    /\ phase = "recover" /\ Free(p)
    /\ \E action \in plan :
          LET r == action.run
          IN  /\ action.kind = "safe_close" /\ IsNextAction(action)
              /\ r \notin Unreachable
              /\ CloseRemote(r)
              /\ sessions' = [sessions EXCEPT ![r] = "closed"]
              /\ closed' = closed \union {r}
              /\ plan' = plan \ {action}
    /\ UNCHANGED <<wf, ledger, manualAt, nextRun, proc, phase, unwritten, closedSeen, outage, clockVars,
                   countVars>>

CloseThrows(p) ==
    /\ phase = "recover" /\ Free(p)
    /\ \E action \in plan :
          action.kind = "safe_close" /\ IsNextAction(action) /\ action.run \in Unreachable
    /\ TickAborts
    /\ UNCHANGED <<vars, sessions, closed, runtimeVars, clockVars, countVars>>

\* The newest runs that have ended, as many as the window holds.
RecentEnded ==
    LET ended == {rec \in ledger : ~Active(rec)}
    IN  {rec \in ended : Cardinality({s \in ended : s.id > rec.id}) < DegradedWindow}

Degraded ==
    LET failed == {rec \in RecentEnded : rec.status # "completed"}
    IN  /\ Cardinality(RecentEnded) >= DegradedMinRuns
        /\ 100 * Cardinality(failed) >= DegradedPercent * Cardinality(RecentEnded)

\* The last phase: a batch, unless degraded mode holds it or there is nothing to do.
Dispatch(p) ==
    /\ phase = "recover" /\ plan = {} /\ Free(p)
    /\ IF Degraded \/ DispatchableTasks(wf.status) = {}
       THEN phase' = "idle" /\ UNCHANGED vars
       ELSE phase' = "dispatch" /\ StartBatch(p, MaxDispatch, "task")
    /\ UNCHANGED <<plan, unwritten, closedSeen, sessions, closed, runtimeVars, clockVars, countVars>>

TickEnds(p) ==
    /\ phase = "dispatch" /\ Free(p)
    /\ phase' = "idle"
    /\ UNCHANGED <<vars, plan, unwritten, closedSeen, sessions, closed, runtimeVars, clockVars, countVars>>

----------------------------------------------------------------------------
\* The steps of the operations, with the session records.

\* A run record is written as it was loaded, but for what the operation changed.
WritesOver(rec) == closed' = closed \ ({rec.id} \ closedSeen)

\* runOnce finds no session for a task that requires one.
SkipForSession(p, t) ==
    /\ At(p, "pick") /\ IsNextInLine(proc[p], t)
    /\ t \in DispatchableTasks(wf.status)
    /\ SessionMissing(t)
    /\ Become(p, AfterRunOnce([proc[p] EXCEPT !.todo = @ \ {t}]))
    /\ UNCHANGED <<wf, ledger, manualAt, remote, nextRun>>

\* A session that is reused leaves no trace: spawnAcpSession starts a new one.
Dispatching(p) ==
    /\ \/ \E t \in Tasks : SkipTask(p, t) \/ SkipForSession(p, t)
       \/ \E t \in Tasks : PickTask(p, t) /\ ~SessionMissing(t)
       \/ SpawnSession(p) \/ CommitDispatch(p) \/ ReloadForQueue(p) \/ EnqueueOverflow(p)
    /\ UNCHANGED <<unwritten, closed, closedSeen>>

Recording(p) ==
    /\ RecordRun(p) /\ unwritten' = proc[p].rec
    /\ UNCHANGED <<closed, closedSeen>>

\* The poll answers, or the ledger answers for a session that was closed.  (A run
\* that is polled is active, and artifact acceptance leaves it as it is.)
Polling(p) ==
    /\ \/ LoadForSync(p)
       \/ Observe(p) /\ proc[p].rec.id \notin Unreachable
       \/ /\ At(p, "observe") /\ UsesLedger(proc[p].rec.id)
          /\ Become(p, [proc[p] EXCEPT !.at = "note"])
          /\ UNCHANGED <<wf, ledger, manualAt, remote, nextRun>>
    /\ UNCHANGED <<unwritten, closed, closedSeen>>

Noting(p) ==
    /\ \/ NoteSynced(p) \/ StampRun(p) \/ WriteHistory(p)
    /\ WritesOver(proc[p].rec)
    /\ UNCHANGED <<unwritten, closedSeen>>

Settling(p) ==
    /\ Settle(p) \/ ApplyCancel(p)
    /\ unwritten' = proc[p].rec
    /\ UNCHANGED <<closed, closedSeen>>

Cancelling(p) ==
    /\ \/ CancelSession(p) /\ proc[p].rec.id \notin Unreachable
       \/ LoadForCancel(p)
    /\ UNCHANGED <<unwritten, closed, closedSeen>>

Retrying(p) ==
    /\ RereadRun(p) \/ EvaluateRetry(p) \/ RearmTask(p) \/ BuryTask(p)
    /\ closedSeen' = IF At(p, "reread") THEN closed ELSE closedSeen
    /\ UNCHANGED <<unwritten, closed>>

OperationStep(p) ==
    /\ unwritten = NoRecord
    /\ \/ Dispatching(p) \/ Recording(p) \/ Polling(p) \/ Noting(p) \/ Settling(p)
       \/ Cancelling(p) \/ Retrying(p)
    /\ UNCHANGED <<phase, plan, sessions, runtimeVars, clockVars, countVars>>

\* The last write of an operation, or the second of a dispatch.
WriteSession ==
    /\ unwritten # NoRecord
    /\ sessions' = SessionAfter(unwritten)
    /\ unwritten' = NoRecord
    /\ UNCHANGED <<vars, phase, plan, closed, closedSeen, runtimeVars, clockVars, countVars>>

TickStep(p) ==
    \/ TickBegins(p) \/ Review(p) \/ PlanRecovery(p) \/ SafeCancel(p) \/ SafeClose(p)
    \/ Dispatch(p) \/ TickEnds(p)
    \/ OperationStep(p) \/ WriteSession
    \/ CallThrows(p) \/ CloseThrows(p) \/ SpawnRefused(p)

----------------------------------------------------------------------------
\* The operator's session commands.

\* swarm session close: the record of the session is built from the run, whose
\* status is what it was.
SessionClose(rec) ==
    /\ Disturbance
    /\ rec.id \notin Unreachable
    /\ CloseRemote(rec.id)
    /\ closed' = closed \union {rec.id}
    /\ sessions' = SessionAfter(rec)
    /\ UNCHANGED <<wf, ledger, manualAt, nextRun, proc, tickVars, outage, clockVars, torn>>

\* swarm session status: the run is synced.  (It may be any run, see SwarmOrchestrator;
\* here it is the latest of its task.)
SessionStatus(rec) ==
    /\ Disturbance
    /\ IsLatest(rec, Records(rec.task))
    /\ \E status \in IF rec.id \notin Unreachable THEN PollOutcome(remote[rec.id].state)
                      ELSE IF rec.id \in (lost \ outage) \intersect closed
                      THEN applyArtifactAcceptance(rec.status) ELSE {} :
          LET synced == [rec EXCEPT !.status = status]
          IN  /\ WriteRun(synced)
              /\ wf' = ApplyRunStatus(wf, rec.task, status)
              /\ sessions' = SessionAfter(synced)
    /\ torn' = (torn \/ phase # "idle")
    /\ UNCHANGED <<manualAt, remote, nextRun, proc, tickVars, closed, runtimeVars, clockVars>>

\* swarm session cleanup: old sessions that are still called active.
SessionCleanup ==
    /\ Disturbance
    /\ \E r \in stuck : sessions[r] = "active"
    /\ sessions' = [r \in RunIds |-> IF r \in stuck /\ sessions[r] = "active" THEN "orphaned"
                                     ELSE sessions[r]]
    /\ UNCHANGED <<vars, tickVars, closed, runtimeVars, clockVars, torn>>

OperatorCommand ==
    \/ \E rec \in ledger : SessionClose(rec) \/ SessionStatus(rec)
    \/ SessionCleanup

----------------------------------------------------------------------------
\* The environment.

RemoteEnds(r) ==
    SessionEnds(r) /\ UNCHANGED <<tickVars, sessions, closed, runtimeVars, clockVars, countVars>>

\* Time passes: a run that has not ended grows old, or a session that has gets stale.
\* A tick measures every age at the moment it began.
GrowsStuck(r) ==
    /\ phase = "idle"
    /\ r \notin stuck /\ \E rec \in ledger : rec.id = r /\ Active(rec)
    /\ stuck' = stuck \union {r}
    /\ UNCHANGED <<vars, tickVars, sessions, closed, runtimeVars, rested, countVars>>

GrowsStale(r) ==
    /\ phase = "idle"
    /\ r \notin rested /\ sessions[r] = "idle"
    /\ rested' = rested \union {r}
    /\ UNCHANGED <<vars, tickVars, sessions, closed, runtimeVars, stuck, countVars>>

\* An outage begins with the call that runs into it, and ends between two ticks.
OutageBegins(r) ==
    /\ Disturbance
    /\ \/ \E p \in Procs : proc[p].at \in {"observe", "cancel"} /\ proc[p].rec.id = r
       \/ [kind |-> "safe_close", run |-> r] \in plan
    /\ outage' = outage \union {r}
    /\ UNCHANGED <<vars, tickVars, sessions, closed, lost, clockVars, torn>>

OutageEnds(r) ==
    /\ phase = "idle" /\ r \in outage
    /\ outage' = outage \ {r}
    /\ UNCHANGED <<vars, tickVars, sessions, closed, lost, clockVars, countVars>>

\* The process is killed and started again.
Killed(p) ==
    /\ phase # "idle" /\ Disturbance
    /\ Become(p, Idle) /\ UNCHANGED <<wf, ledger, manualAt, remote, nextRun>>
    /\ TickAborts
    /\ torn' = TRUE
    /\ UNCHANGED <<sessions, closed, runtimeVars, clockVars>>

Time == \E r \in RunIds : GrowsStuck(r) \/ GrowsStale(r)

AutopilotNext ==
    \/ \E p \in Autopilots : TickStep(p) \/ SpawnThrows(p) \/ Killed(p)
    \/ OperatorCommand \/ Time
    \/ \E r \in RunIds : RemoteEnds(r) \/ OutageBegins(r) \/ OutageEnds(r)

\* The service loop ticks again and again, and time passes.  No session has to end,
\* nobody has to give a command, and an outage need not be over.
AutopilotSpec ==
    /\ AutopilotInit /\ [][AutopilotNext]_autopilotVars
    /\ \A p \in Autopilots : WF_autopilotVars(TickStep(p))
    /\ SF_autopilotVars(Time)

----------------------------------------------------------------------------
\* The shape of the state.
AutopilotTypeOK ==
    /\ TypeOK
    /\ phase \in {"idle", "sync", "review", "recover", "dispatch"}
    /\ phase = "idle" => plan = {} /\ unwritten = NoRecord /\ \A p \in Procs : At(p, "idle")
    /\ plan \subseteq Recovery
    /\ sessions \in [RunIds -> RecordState]
    /\ unwritten \in RunRecord \union {NoRecord}
    /\ closed \subseteq RunIds /\ closedSeen \subseteq RunIds
    /\ lost \subseteq RunIds /\ outage \subseteq RunIds
    /\ stuck \subseteq RunIds /\ rested \subseteq RunIds
    /\ disturbances \in 0..MaxDisturbances /\ torn \in BOOLEAN

\* A task that only the autopilot decided on is done only if a session of it ended
\* without an error: no failed, stopped or forgotten run is approved, through
\* retries, closed sessions and commands in the middle of a tick.
DoneIsEarned ==
    \A t \in Tasks :
        wf.status[t] = "done" => \E r \in RunIds : remote[r].task = t /\ remote[r].state = "clean"

\* A session that its record offers as idle, or calls over, is over, and so is its
\* run: what an operation writes late never lets go of a session at work.  (A killed
\* tick is the exception.)
SessionRecordsAreTrue ==
    (~torn /\ \A p \in Procs : Free(p)) =>
        \A rec \in ledger : sessions[rec.id] \in {"idle", "closed", "failed"} =>
            ~Active(rec) /\ ~Live(rec.id)

Answering == Unreachable = {}

\* A session that has ended is noticed, and its run with it, through recoveries, closes
\* and ticks that fail; as long as every session can be asked, in the end.
EndedUnnoticed(r) == ~torn /\ ~Live(r) /\ \E rec \in ledger : rec.id = r /\ Active(rec)

EndedIsNoticed == <>[]Answering => \A r \in RunIds : []<>~EndedUnnoticed(r)

\* A persistent session that nobody uses is closed in the end, in degraded mode too.
IdleForTooLong(r) == sessions[r] = "idle" /\ r \in rested

IdleIsClosed == <>[]Answering => \A r \in RunIds : []<>~IdleForTooLong(r)

\* What nobody but a person can move: what is done or blocked, or waits for something
\* blocked, and a task that requires a session that is not there.
AtRest(t) ==
    \/ wf.status[t] \in {"planned", "blocked", "done", "dead_letter"}
    \/ wf.status[t] \in {"ready", "queued"} /\ SessionMissing(t)

\* Why an autopilot may come to rest: there is nothing left to move, a person is asked,
\* dispatch is on hold, a session that matters cannot be asked, a run is stuck beyond
\* its budget, or a run was torn from its task.
ReasonToRest ==
    \/ \A t \in Tasks : AtRest(t)
    \/ \E t \in wf.reviewQueue : PolicyDecision(t) = "escalate"
    \/ Degraded
    \/ \E r \in Unreachable : sessions[r] = "idle" \/ \E rec \in ledger : rec.id = r /\ Active(rec)
    \/ \E rec \in ledger : Active(rec) /\ rec.id \in stuck /\ BeyondBudget(rec.task)
    \/ torn

\* The autopilot never stalls for any other reason: no order of ends, failures,
\* outages, recoveries and commands leaves work that it could do undone for ever.
StallsForAReason == []<>BeyondBound \/ <>[]ReasonToRest
=============================================================================
