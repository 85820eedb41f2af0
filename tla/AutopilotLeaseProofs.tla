------------------------ MODULE AutopilotLeaseProofs ------------------------
(***************************************************************************)
(* The autopilot's state file for any number of ticks and commands.        *)
(***************************************************************************)
EXTENDS AutopilotLease, TLAPS

Leased(s) == s.runtime = "ticking" => s.lease # NoOwner

\* The locals of a tick: a recovery is begun only if one is left to do.
Sound(l) == Leased(l.copy) /\ (l.at = "recover" => l.plan # 0)

\* The inductive invariant: what is saved was a copy, so the copies must be as
\* good as the file.
IInv ==
    /\ TypeOK
    /\ Leased(state)
    /\ \A s \in command : Leased(s)
    /\ \A p \in Ticks : Sound(tick[p])

----------------------------------------------------------------------------

LEMMA InitHolds == Init => IInv
  BY LeaseAssumption
  DEF Init, IInv, TypeOK, Sound, Leased, InitialState, AutopilotState, Desired, Off, Phase

\* A new owner is an owner, so never NoOwner.
LEMMA NewOwnerType ==
    ASSUME Owners \ InUse # {}
    PROVE  NewOwner \in Owners /\ NewOwner # NoOwner
  BY LeaseAssumption DEF NewOwner

\* A step of a tick that leaves the file alone and gives the tick new locals.
LEMMA TickKeeps ==
    ASSUME IInv, NEW p \in Ticks, NEW l,
           l \in [at : Phase, own : Owners \union {NoOwner},
                  copy : AutopilotState, plan : 0..MaxPlan],
           Sound(l), Become(p, l),
           state' = state \/ (state' \in AutopilotState /\ Leased(state')),
           expired' \subseteq Owners, command' = command, faults' \in 0..MaxFaults
    PROVE  IInv'
  <1>1. TypeOK'
    BY DEF IInv, TypeOK, Become
  <1>2. Leased(state)'
    BY DEF IInv, Leased
  <1>3. \A s \in command' : Leased(s)
    BY DEF IInv
  <1>4. ASSUME NEW q \in Ticks PROVE Sound(tick'[q])
    BY DEF IInv, TypeOK, Become
  <1> QED
    BY <1>1, <1>2, <1>3, <1>4 DEF IInv, Leased

\* Every step of a tick and every fault.
LEMMA StepKeeps ==
    ASSUME IInv, NEW p \in Ticks, TickStep(p) \/ Fail(p) \/ Crash(p)
    PROVE  IInv'
  <1> DEFINE T == [at : Phase, own : Owners \union {NoOwner},
                   copy : AutopilotState, plan : 0..MaxPlan]
  <1> USE LeaseAssumption
  <1>1. /\ tick[p] \in T /\ Sound(tick[p]) /\ Leased(tick[p].copy)
        /\ state \in AutopilotState /\ Leased(state)
        /\ expired \subseteq Owners /\ faults \in 0..MaxFaults
    BY DEF IInv, TypeOK, Sound
  <1>2. Off \in T /\ Sound(Off)
    BY DEF Off, Sound, InitialState, AutopilotState, Desired, Phase, Leased
  <1>3. CASE Load(p)
    <2> DEFINE l == [Off EXCEPT !.at = "loaded", !.copy = state]
    <2>1. l \in T /\ Sound(l)
      BY <1>1, <1>2 DEF Sound, Off, Phase
    <2> QED
      BY <2>1, <1>1, <1>3, TickKeeps DEF Load
  <1>4. CASE Acquire(p)
    <2>1. CASE LeaseHeld(tick[p].copy)
      <3> DEFINE l == [tick[p] EXCEPT !.at = "yield"]
      <3>1. l \in T /\ Sound(l)
        BY <1>1 DEF Sound, Phase
      <3>2. Become(p, l) /\ UNCHANGED <<state, expired, command, faults>>
        BY <2>1, <1>4 DEF Acquire, GoTo
      <3> QED
        BY <3>1, <3>2, <1>1, TickKeeps
    <2>2. CASE ~LeaseHeld(tick[p].copy)
      <3> DEFINE l == [tick[p] EXCEPT !.at = "claim", !.own = NewOwner,
                                      !.copy = Acquired(@, NewOwner)]
      <3>1. NewOwner \in Owners /\ NewOwner # NoOwner
        BY <2>2, <1>4, NewOwnerType DEF Acquire
      <3>2. Acquired(tick[p].copy, NewOwner) \in AutopilotState
            /\ Leased(Acquired(tick[p].copy, NewOwner))
        BY <3>1, <1>1 DEF Acquired, AutopilotState, Leased
      <3>3. l \in T /\ Sound(l)
        BY <3>1, <3>2, <1>1 DEF Sound, Phase
      <3>4. Become(p, l) /\ UNCHANGED <<state, command, faults>> /\ expired' \subseteq Owners
        BY <2>2, <1>4, <1>1 DEF Acquire
      <3> QED
        BY <3>3, <3>4, <1>1, TickKeeps
    <2> QED
      BY <2>1, <2>2
  <1>5. CASE Yield(p) \/ Persist(p)
    <2>1. /\ state' = [tick[p].copy EXCEPT !.runtime = "idle"]
          /\ Become(p, Off) /\ UNCHANGED <<command, faults>> /\ expired' \subseteq Owners
      BY <1>5, <1>1 DEF Yield, Persist, Forget
    <2>2. state' \in AutopilotState /\ Leased(state')
      BY <2>1, <1>1 DEF AutopilotState, Leased
    <2> QED
      BY <2>1, <2>2, <1>1, <1>2, TickKeeps
  <1>6. CASE Claim(p)
    <2> DEFINE l == [tick[p] EXCEPT !.at = IF Hold(tick[p].copy) THEN "release" ELSE "sync"]
    <2>1. l \in T /\ Sound(l)
      BY <1>1 DEF Sound, Phase
    <2>2. /\ Become(p, l) /\ state' = tick[p].copy
          /\ UNCHANGED <<command, faults>> /\ expired' \subseteq Owners
      BY <1>6, <1>1 DEF Claim, GoTo, Forget
    <2> QED
      BY <2>1, <2>2, <1>1, TickKeeps
  <1>7. CASE Sync(p)
    <2>1. PICK n \in 0..MaxPlan : Become(p, [tick[p] EXCEPT !.at = "control", !.plan = n])
      BY <1>7 DEF Sync
    <2> DEFINE l == [tick[p] EXCEPT !.at = "control", !.plan = n]
    <2>2. l \in T /\ Sound(l)
      BY <1>1 DEF Sound, Phase
    <2> QED
      BY <2>1, <2>2, <1>1, <1>7, TickKeeps DEF Sync
  <1>8. Merged(tick[p].copy) \in AutopilotState /\ Leased(Merged(tick[p].copy))
    BY <1>1 DEF Merged, AutopilotState, Leased
  <1>9. CASE CheckControl(p)
    <2> DEFINE at == IF Hold(Merged(tick[p].copy)) \/ tick[p].plan = 0
                     THEN "recheck" ELSE "recover"
               l  == [tick[p] EXCEPT !.copy = Merged(tick[p].copy), !.at = at]
    <2>1. l \in T /\ Sound(l)
      BY <1>1, <1>8 DEF Sound, Phase
    <2>2. Become(p, l) /\ UNCHANGED <<state, expired, command, faults>>
      BY <1>9 DEF CheckControl
    <2> QED
      BY <2>1, <2>2, <1>1, TickKeeps
  <1>10. CASE Recover(p)
    <2> DEFINE l == [tick[p] EXCEPT !.at = "control", !.plan = @ - 1]
    <2>1. tick[p].plan \in 1..MaxPlan
      BY <1>1, <1>10 DEF Recover, At, Sound
    <2>2. tick[p].plan - 1 \in 0..MaxPlan /\ "control" \in Phase
      BY <2>1 DEF Phase
    <2>3. l \in T
      BY <2>2, <1>1
    <2>4. Sound(l)
      BY <1>1 DEF Sound
    <2> QED
      BY <2>3, <2>4, <1>1, <1>10, TickKeeps DEF Recover
  <1>11. CASE RecheckControl(p)
    <2>1. PICK next \in {"dispatch", "release"} :
             Become(p, [tick[p] EXCEPT !.at = next, !.copy = Merged(tick[p].copy)])
      BY <1>11 DEF RecheckControl
    <2> DEFINE l == [tick[p] EXCEPT !.at = next, !.copy = Merged(tick[p].copy)]
    <2>2. l \in T /\ Sound(l)
      BY <1>1, <1>8 DEF Sound, Phase
    <2> QED
      BY <2>1, <2>2, <1>1, <1>11, TickKeeps DEF RecheckControl
  <1>12. CASE Dispatch(p)
    <2> DEFINE l == [tick[p] EXCEPT !.at = "release"]
    <2>1. l \in T /\ Sound(l)
      BY <1>1 DEF Sound, Phase
    <2> QED
      BY <2>1, <1>1, <1>12, TickKeeps DEF Dispatch, GoTo
  <1>13. CASE Release(p)
    <2> DEFINE s == Released(tick[p].copy, tick[p].own)
               l == [tick[p] EXCEPT !.at = "persist", !.own = NoOwner, !.copy = Merged(s)]
    <2>1. s \in AutopilotState /\ Leased(s)
      BY <1>1 DEF Released, AutopilotState, Leased
    <2>2. Merged(s) \in AutopilotState /\ Leased(Merged(s))
      BY <2>1, <1>1 DEF Merged, AutopilotState, Leased
    <2>3. l \in T /\ Sound(l)
      BY <2>2, <1>1 DEF Sound, Phase
    <2>4. Become(p, l) /\ UNCHANGED <<state, command, faults>> /\ expired' \subseteq Owners
      BY <1>13, <1>1 DEF Release, Forget
    <2> QED
      BY <2>3, <2>4, <1>1, TickKeeps
  <1>14. CASE LoadForFailure(p)
    <2> DEFINE l == [Off EXCEPT !.at = "absolve", !.copy = state]
    <2>1. l \in T /\ Sound(l)
      BY <1>1, <1>2 DEF Sound, Off, Phase
    <2>2. Become(p, l) /\ UNCHANGED <<state, command, faults>> /\ expired' \subseteq Owners
      BY <1>14, <1>1 DEF LoadForFailure, Forget
    <2> QED
      BY <2>1, <2>2, <1>1, TickKeeps
  <1>15. CASE Absolve(p)
    <2>1. /\ state' = [tick[p].copy EXCEPT !.runtime = "idle", !.lease = NoOwner]
          /\ Become(p, Off) /\ UNCHANGED <<command, faults>> /\ expired' \subseteq Owners
      BY <1>15, <1>1 DEF Absolve, Forget
    <2>2. state' \in AutopilotState /\ Leased(state')
      BY <2>1, <1>1 DEF AutopilotState, Leased
    <2> QED
      BY <2>1, <2>2, <1>1, <1>2, TickKeeps
  <1>16. CASE Fail(p) \/ Crash(p)
    <2> DEFINE l == IF Fail(p) THEN [Off EXCEPT !.at = "failed"] ELSE Off
    <2>1. l \in T /\ Sound(l)
      BY <1>2 DEF Sound, Off, Phase
    <2>2. /\ Become(p, l) /\ UNCHANGED <<state, command>>
          /\ faults' \in 0..MaxFaults /\ expired' \subseteq Owners
      BY <1>16, <1>1 DEF Fail, Crash, Forget
    <2> QED
      BY <2>1, <2>2, <1>1, TickKeeps
  <1> QED
    BY <1>3, <1>4, <1>5, <1>6, <1>7, <1>9, <1>10, <1>11, <1>12, <1>13, <1>14, <1>15, <1>16
    DEF TickStep

\* Every step of the operator and of the clock, and stuttering.
LEMMA OtherStepKeeps ==
    ASSUME IInv, \/ \E cmd \in Commands : LoadForCommand(cmd)
                 \/ SaveCommand
                 \/ \E o \in Owners : Expire(o)
                 \/ UNCHANGED vars
    PROVE  IInv'
  <1>1. CASE \E cmd \in Commands : LoadForCommand(cmd)
    <2>1. PICK cmd \in Commands : LoadForCommand(cmd)
      BY <1>1
    <2>2. DesiredByCommand(cmd) \in Desired
      BY LeaseAssumption DEF DesiredByCommand, Desired
    <2> DEFINE s == [state EXCEPT !.desired = DesiredByCommand(cmd)]
    <2>3. s \in AutopilotState /\ Leased(s)
      BY <2>2 DEF IInv, TypeOK, AutopilotState, Leased
    <2>4. command' = {s} /\ UNCHANGED <<state, expired, tick, faults>>
      BY <2>1 DEF LoadForCommand
    <2> QED
      BY <2>3, <2>4 DEF IInv, TypeOK, Leased, Sound
  <1>2. CASE SaveCommand
    BY <1>2 DEF SaveCommand, Forget, IInv, TypeOK, Leased, Sound
  <1>3. CASE \E o \in Owners : Expire(o)
    BY <1>3 DEF Expire, IInv, TypeOK, Leased, Sound
  <1>4. CASE UNCHANGED vars
    BY <1>4 DEF vars, IInv, TypeOK, Leased, Sound
  <1> QED
    BY <1>1, <1>2, <1>3, <1>4

LEMMA Invariance == Spec => []IInv
  <1>1. IInv /\ [Next]_vars => IInv'
    BY StepKeeps, OtherStepKeeps DEF Next
  <1> QED
    BY <1>1, InitHolds, PTL DEF Spec

----------------------------------------------------------------------------

\* The state file and its copies keep the shape that the schema demands.
THEOREM LeaseTyped == Spec => []TypeOK
  <1>1. IInv => TypeOK
    BY DEF IInv
  <1> QED
    BY <1>1, Invariance, PTL

\* However many ticks and commands save their stale copies over each other,
\* a file that says ticking names the owner of a lease.
THEOREM TickingIsLeased == Spec => []TickingMeansLeased
  <1>1. IInv => TickingMeansLeased
    BY DEF IInv, Leased, TickingMeansLeased
  <1> QED
    BY <1>1, Invariance, PTL
=============================================================================
