--------------------------- MODULE AutopilotLease ---------------------------
(***************************************************************************)
(* The lease and the controls of the autopilot, in autopilot-state.json:   *)
(* src/src/autopilot/controller.ts, lease.ts, control.ts, and what the     *)
(* service loop does when a tick of it fails.                              *)
(*                                                                         *)
(* The file is loaded and saved whole, the lease with the operator's wish. *)
(* Every tick and every command keeps a copy between its load and its      *)
(* save.  Time is left out but for one thing: a lease that was granted     *)
(* expires at some moment, which may come while its tick still works,      *)
(* because no tick renews its lease.                                       *)
(***************************************************************************)
EXTENDS Naturals, FiniteSets

CONSTANTS
    Loops,      \* the service loops that run ticks,
    Hands,      \* and the operators who run a tick by hand
    Owners,     \* the owner ids of leases
    Commands,   \* the commands of the operator
    NoOwner,
    MaxPlan,    \* bound: how many recoveries a tick may find to do
    MaxFaults   \* bound: how many ticks fail or are killed

Ticks == Loops \union Hands

ASSUME LeaseAssumption ==
    /\ Loops \intersect Hands = {}
    /\ NoOwner \notin Owners
    /\ Commands \subseteq {"start", "pause", "resume", "stop"}
    /\ MaxPlan \in Nat
    /\ MaxFaults \in Nat

VARIABLES
    state,      \* autopilot-state.json
    expired,    \* the owners whose lease has passed its expiresAt
    tick,       \* tick[p]: the locals of the tick that p runs
    command,    \* the copy of the state that an operator's command is about to save
    faults

vars == <<state, expired, tick, command, faults>>

Desired == {"running", "paused", "stopped"}

AutopilotState == [desired : Desired, runtime : {"idle", "ticking"},
                   lease : Owners \union {NoOwner}]

InitialState == [desired |-> "running", runtime |-> "idle", lease |-> NoOwner]

Phase == {"off",
          "loaded", "yield", "claim",           \* the lease
          "sync", "control", "recover",         \* the work
          "recheck", "dispatch",
          "release", "persist",                 \* the end
          "failed", "absolve"}                  \* recordFailure

Off == [at |-> "off", own |-> NoOwner, copy |-> InitialState, plan |-> 0]

Init ==
    /\ state = InitialState
    /\ expired = {}
    /\ tick = [p \in Ticks |-> Off]
    /\ command = {}
    /\ faults = 0

----------------------------------------------------------------------------

\* Slip: only a pause is heeded.
HoldOnPauseOnly(s) == s.desired = "paused"

Hold(s) == s.desired # "running"

\* Slip: a lease never expires.
LeaseHeldForever(s) == s.lease # NoOwner

LeaseHeld(s) == s.lease # NoOwner /\ s.lease \notin expired

Acquired(s, o) == [s EXCEPT !.runtime = "ticking", !.lease = o]

Released(s, o) == IF s.lease = o THEN [s EXCEPT !.runtime = "idle", !.lease = NoOwner] ELSE s

\* Owner ids are random UUIDs: a new one is nowhere in a file or a copy.
InUse ==
    {state.lease} \union {s.lease : s \in command}
    \union UNION {{tick[p].own, tick[p].copy.lease} : p \in Ticks}

NewOwner == CHOOSE o \in Owners \ InUse : TRUE

\* An expired lease that is nowhere is forgotten.
Forget == expired' = expired \intersect InUse'

At(p, phase) == tick[p].at = phase

Become(p, l) == tick' = [tick EXCEPT ![p] = l]

GoTo(p, phase) == Become(p, [tick[p] EXCEPT !.at = phase])

\* mergeOperatorControlState: the wish is read from the file, the rest kept.
Merged(s) == [s EXCEPT !.desired = state.desired]

----------------------------------------------------------------------------
\* The tick.

Load(p) ==
    /\ At(p, "off")
    /\ Become(p, [Off EXCEPT !.at = "loaded", !.copy = state])
    /\ UNCHANGED <<state, expired, command, faults>>

\* acquireAutopilotLease, on the copy.
Acquire(p) ==
    /\ At(p, "loaded")
    /\ IF LeaseHeld(tick[p].copy)
       THEN GoTo(p, "yield") /\ UNCHANGED expired
       ELSE /\ Owners \ InUse # {}
            /\ Become(p, [tick[p] EXCEPT !.at = "claim", !.own = NewOwner,
                                         !.copy = Acquired(@, NewOwner)])
            /\ expired' = expired \intersect InUse
    /\ UNCHANGED <<state, command, faults>>

\* A tick that does not get the lease saves the state that it loaded.
Yield(p) ==
    /\ At(p, "yield")
    /\ state' = [tick[p].copy EXCEPT !.runtime = "idle"]
    /\ Become(p, Off)
    /\ UNCHANGED <<command, faults>>
    /\ Forget

Claim(p) ==
    /\ At(p, "claim")
    /\ state' = tick[p].copy
    /\ GoTo(p, IF Hold(tick[p].copy) THEN "release" ELSE "sync")
    /\ UNCHANGED <<command, faults>>
    /\ Forget

\* syncActiveRuns and the review policy; n runs are found stuck afterwards.
Sync(p) ==
    /\ At(p, "sync")
    /\ \E n \in 0..MaxPlan : Become(p, [tick[p] EXCEPT !.at = "control", !.plan = n])
    /\ UNCHANGED <<state, expired, command, faults>>

\* Before each recovery; without one to do, or with a hold, the tick goes on.
CheckControl(p) ==
    /\ At(p, "control")
    /\ LET copy == Merged(tick[p].copy)
       IN  Become(p, [tick[p] EXCEPT !.copy = copy,
                        !.at = IF Hold(copy) \/ tick[p].plan = 0 THEN "recheck" ELSE "recover"])
    /\ UNCHANGED <<state, expired, command, faults>>

Recover(p) ==
    /\ At(p, "recover")
    /\ Become(p, [tick[p] EXCEPT !.at = "control", !.plan = @ - 1])
    /\ UNCHANGED <<state, expired, command, faults>>

\* Before the batch, which degraded mode and an empty queue also prevent.
RecheckControl(p) ==
    /\ At(p, "recheck")
    /\ LET copy == Merged(tick[p].copy)
       IN  \E next \in (IF Hold(copy) THEN {"release"} ELSE {"dispatch", "release"}) :
              Become(p, [tick[p] EXCEPT !.at = next, !.copy = copy])
    /\ UNCHANGED <<state, expired, command, faults>>

Dispatch(p) ==
    /\ At(p, "dispatch")
    /\ GoTo(p, "release")
    /\ UNCHANGED <<state, expired, command, faults>>

Release(p) ==
    /\ At(p, "release")
    /\ Become(p, [tick[p] EXCEPT !.at = "persist", !.own = NoOwner,
                    !.copy = Merged(Released(tick[p].copy, tick[p].own))])
    /\ UNCHANGED <<state, command, faults>>
    /\ Forget

\* persistTickState
Persist(p) ==
    /\ At(p, "persist")
    /\ state' = [tick[p].copy EXCEPT !.runtime = "idle"]
    /\ Become(p, Off)
    /\ UNCHANGED <<command, faults>>
    /\ Forget

----------------------------------------------------------------------------
\* Ticks that fail.

\* A call of the tick throws: the lease is released in the copy only.
Fail(p) ==
    /\ p \in Loops
    /\ tick[p].at \notin {"off", "failed", "absolve"}
    /\ faults < MaxFaults
    /\ faults' = faults + 1
    /\ Become(p, [Off EXCEPT !.at = "failed"])
    /\ UNCHANGED <<state, command>>
    /\ Forget

LoadForFailure(p) ==
    /\ At(p, "failed")
    /\ Become(p, [Off EXCEPT !.at = "absolve", !.copy = state])
    /\ UNCHANGED <<state, command, faults>>
    /\ Forget

\* Slip: recordFailure drops the lease but not the state that goes with it.
AbsolveStillTicking(p) ==
    /\ At(p, "absolve")
    /\ state' = [tick[p].copy EXCEPT !.lease = NoOwner]
    /\ Become(p, Off)
    /\ UNCHANGED <<command, faults>>
    /\ Forget

\* recordFailure clears the lease, whoever holds it.
Absolve(p) ==
    /\ At(p, "absolve")
    /\ state' = [tick[p].copy EXCEPT !.runtime = "idle", !.lease = NoOwner]
    /\ Become(p, Off)
    /\ UNCHANGED <<command, faults>>
    /\ Forget

\* The process of a tick is killed, or a tick run by hand throws.
Crash(p) ==
    /\ ~At(p, "off")
    /\ faults < MaxFaults
    /\ faults' = faults + 1
    /\ Become(p, Off)
    /\ UNCHANGED <<state, command>>
    /\ Forget

----------------------------------------------------------------------------
\* The operator and the clock.

\* Slip: the name of the command is stored.
NameOfCommand(cmd) == cmd

\* resolveDesiredState, with the autopilot enabled in the configuration.
DesiredByCommand(cmd) ==
    CASE cmd = "pause" -> "paused"
      [] cmd = "stop"  -> "stopped"
      [] cmd \in {"start", "resume"} -> "running"

\* applyAutopilotControl
LoadForCommand(cmd) ==
    /\ command = {}
    /\ command' = {[state EXCEPT !.desired = DesiredByCommand(cmd)]}
    /\ UNCHANGED <<state, expired, tick, faults>>

SaveCommand ==
    /\ state' \in command
    /\ command' = {}
    /\ UNCHANGED <<tick, faults>>
    /\ Forget

Expire(o) ==
    /\ o \in InUse \ (expired \union {NoOwner})
    /\ expired' = (expired \intersect InUse) \union {o}
    /\ UNCHANGED <<state, tick, command, faults>>

----------------------------------------------------------------------------

TickStep(p) ==
    \/ Load(p) \/ Acquire(p) \/ Yield(p) \/ Claim(p) \/ Sync(p)
    \/ CheckControl(p) \/ Recover(p) \/ RecheckControl(p) \/ Dispatch(p)
    \/ Release(p) \/ Persist(p) \/ LoadForFailure(p) \/ Absolve(p)

Next ==
    \/ \E p \in Ticks : TickStep(p) \/ Fail(p) \/ Crash(p)
    \/ \E cmd \in Commands : LoadForCommand(cmd)
    \/ SaveCommand
    \/ \E o \in Owners : Expire(o)

\* The timers of a loop go on for ever, and time does.
Fairness ==
    /\ \A p \in Loops : WF_vars(TickStep(p))
    /\ \A o \in Owners : WF_vars(Expire(o))

Spec == Init /\ [][Next]_vars

FairSpec == Spec /\ Fairness

----------------------------------------------------------------------------
\* The state file and every copy of it have the shape that the schema demands.
TypeOK ==
    /\ state \in AutopilotState
    /\ expired \subseteq Owners
    /\ tick \in [Ticks -> [at : Phase, own : Owners \union {NoOwner},
                        copy : AutopilotState, plan : 0..MaxPlan]]
    /\ command \subseteq AutopilotState
    /\ faults \in 0..MaxFaults

\* Who reads that the autopilot is ticking can see on whose lease, through all
\* the stale copies that are saved and the leases that are cleared by others.
TickingMeansLeased == state.runtime = "ticking" => state.lease # NoOwner

\* A tick that died, or that never ends, does not lock the others out for ever:
\* no lease stays in the file, though nobody may be left who would release it.
LockoutEnds == \A o \in Owners : state.lease = o ~> state.lease # o

Acting(p) == tick[p].at \in {"recover", "dispatch"}

\* Once the file says paused or stopped, and keeps saying so, the loops stop
\* recovering and dispatching, the ticks that had begun before included.
HoldTakesEffect == <>[](state.desired # "running") => <>[](\A p \in Loops : ~Acting(p))

Working(p) == tick[p].at \in {"sync", "control", "recover", "recheck", "dispatch"}

\* The lease prevents that two ticks work on the project at the same time.
OneActiveTick == \A p, q \in Ticks : Working(p) /\ Working(q) => p = q
=============================================================================
