---------------------------- MODULE StateWatcher ----------------------------
(***************************************************************************)
(* The watcher of the swarm directory (src/autopilot/state-watcher.ts).    *)
(* start() and stop() are asynchronous and may overlap: every await is the *)
(* end of an action here, and what runs after it finds a generation number *)
(* that stop() or a failed start may have moved on.                        *)
(***************************************************************************)
EXTENDS Naturals, FiniteSets

CONSTANTS
    Path,           \* the files below the swarm root
    Kind,           \* [Path -> Kinds \cup {"none"}]: classifyPath, "none" for an ignored file
    Libraries,      \* the values of watcher.library that are tried
    MaxGeneration,  \* bound: the generation counter
    MaxChanges      \* bound: changes of files

Kinds == {"workflow", "autopilot", "progress", "run", "spec", "session"}
Operations == {"create", "update", "delete"}

(* What the backends call a change: parcel's own words, and node's.         *)
RawTypes == Operations \cup {"rename", "change"}

ASSUME WatcherAssumption ==
    /\ Kind \in [Path -> Kinds \cup {"none"}]
    /\ Libraries \subseteq {"auto", "parcel", "node"}
    /\ MaxGeneration \in Nat
    /\ MaxChanges \in Nat

Generations == 1 .. MaxGeneration

(* Where a call of start() is waiting; the last three are its ends.         *)
Awaits == {"ensureDir", "replay", "loadParcel", "subscribe", "nodeDirs", "unsubscribe"}
Settled == {"none", "done", "failed"}

VARIABLES
    library,        \* config.library
    started,        \* this.started
    generation,     \* this.generation
    call,           \* the call of start() that made this generation current
    stopping,       \* where the call of stop() is: "no", "unsubscribe", "snapshot"
    subscriptions,  \* this.subscriptions, each by the generation it was made for
    nodeWatchers,   \* this.nodeWatchers, likewise (the four directories open together)
    parcelActive,   \* this.parcelActive
    buffer,         \* this.buffer: path -> raw type, "none" when absent
    timer,          \* the debounce timer is armed
    reported,       \* the events that the last step emitted
    heardFrom,      \* history: the generations whose callbacks filled the buffer
    osSubscriptions,\* outside: parcel subscriptions that exist
    raw,            \* outside: callbacks that the backends have yet to make
    snapshot,       \* outside: a snapshot file exists
    since,          \* outside: path -> last change since that snapshot
    changes         \* outside: how many changes there were

callVars   == <<library, started, generation, call, stopping>>
heldVars   == <<subscriptions, nodeWatchers, parcelActive, osSubscriptions>>
bufferVars == <<buffer, timer, heardFrom>>
outsideVars == <<raw, snapshot, since, changes>>
vars == <<callVars, heldVars, bufferVars, reported, outsideVars>>

Nothing == [p \in Path |-> "none"]

Init ==
    /\ library \in Libraries
    /\ started = FALSE /\ generation = 0 /\ stopping = "no"
    /\ call = [g \in Generations |-> "none"]
    /\ subscriptions = {} /\ nodeWatchers = {} /\ parcelActive = FALSE /\ osSubscriptions = {}
    /\ buffer = Nothing /\ timer = FALSE /\ heardFrom = {} /\ reported = {}
    /\ raw = {} /\ since = Nothing /\ changes = 0
    /\ snapshot \in BOOLEAN     \* a service that ran before may have left one

(***************************************************************************)
(* Helpers.                                                                *)
(***************************************************************************)
isRuntimeCallbackActive(g) == started /\ generation = g

(* Moves the call of generation g on to its next await, or to its end.      *)
Continue(g, next) == call' = [call EXCEPT ![g] = next]

\* Slip: whether there is anything to flush is asked before the buffer is filled.
pushRawEventsSlip(g, events) ==
    LET kept == {p \in Path : events[p] # "none" /\ Kind[p] # "none"}
    IN  /\ buffer' = [p \in Path |-> IF p \in kept THEN events[p] ELSE buffer[p]]
        /\ timer' = (timer \/ buffer # Nothing)
        /\ heardFrom' = IF kept = {} THEN heardFrom ELSE heardFrom \cup {g}

(* pushRawEvents: events is a function from paths to raw types. The newest  *)
(* type of a path replaces the older one; files nobody reads are dropped.   *)
pushRawEvents(g, events) ==
    LET kept == {p \in Path : events[p] # "none" /\ Kind[p] # "none"}
        merged == [p \in Path |-> IF p \in kept THEN events[p] ELSE buffer[p]]
    IN  /\ buffer' = merged
        /\ timer' = (timer \/ merged # Nothing)
        /\ heardFrom' = IF kept = {} THEN heardFrom ELSE heardFrom \cup {g}

\* Slip: the timer is cancelled and what it was armed for stays behind.
clearPendingSlip == timer' = FALSE /\ UNCHANGED <<buffer, heardFrom>>

clearPending == buffer' = Nothing /\ timer' = FALSE /\ heardFrom' = {}

\* Slip: the words of node's watchers go out as they are.
normalizeOperationSlip(type) == type

normalizeOperation(type) == IF type \in Operations THEN type ELSE "update"

coalesceOperation(paths) ==
    LET operations == {normalizeOperation(buffer[p]) : p \in paths}
    IN  IF Cardinality(operations) = 1 THEN CHOOSE o \in operations : TRUE ELSE "update"

-----------------------------------------------------------------------------
(***************************************************************************)
(* start().                                                                *)
(***************************************************************************)

(* A client waits for stop() before it starts the watcher again; it may     *)
(* stop the watcher while start() is still waiting, and start it again.     *)
Start ==
    /\ ~started /\ stopping = "no"
    /\ generation + 2 <= MaxGeneration
    /\ started' = TRUE
    /\ generation' = generation + 1
    /\ Continue(generation + 1, "ensureDir")
    /\ reported' = {}
    /\ UNCHANGED <<library, stopping, heldVars, bufferVars, outsideVars>>

(* The outer catch: a call that is no longer current keeps its error to     *)
(* itself; the current one rolls the start back and reports it.             *)
StartFails(g) ==
    /\ reported' = {}
    /\ UNCHANGED <<library, stopping, outsideVars>>
    /\ IF generation # g
       THEN /\ Continue(g, "done")
            /\ UNCHANGED <<started, generation, heldVars, bufferVars>>
       ELSE /\ Continue(g, "failed")
            /\ started' = FALSE
            /\ generation' = generation + 1
            /\ clearPending
            /\ osSubscriptions' = osSubscriptions \ subscriptions
            /\ subscriptions' = {} /\ nodeWatchers' = {} /\ parcelActive' = FALSE

EnsuredDir(g) ==
    /\ call[g] = "ensureDir"
    /\ Continue(g, IF ~isRuntimeCallbackActive(g) THEN "done"
                   ELSE IF library = "node" THEN "nodeDirs" ELSE "replay")
    /\ reported' = {}
    /\ UNCHANGED <<library, started, generation, stopping, heldVars, bufferVars, outsideVars>>

EnsureDirFails(g) == call[g] = "ensureDir" /\ StartFails(g)

(* replaySnapshot: a fresh snapshot tells what changed since it was taken.  *)
(* A stale or missing one, or an error, tells nothing.                      *)
ReplayedSnapshot(g) ==
    /\ call[g] = "replay"
    /\ Continue(g, IF isRuntimeCallbackActive(g) THEN "loadParcel" ELSE "done")
    /\ reported' = {}
    /\ \/ snapshot /\ isRuntimeCallbackActive(g) /\ pushRawEvents(g, since)
       \/ UNCHANGED bufferVars
    /\ UNCHANGED <<library, started, generation, stopping, heldVars, outsideVars>>

LoadedParcel(g) ==
    /\ call[g] = "loadParcel"
    /\ Continue(g, IF isRuntimeCallbackActive(g) THEN "subscribe" ELSE "done")
    /\ reported' = {}
    /\ UNCHANGED <<library, started, generation, stopping, heldVars, bufferVars, outsideVars>>

\* Slip: nobody asks whether the watcher was stopped meanwhile.
SubscribedSlip(g) ==
    /\ call[g] = "subscribe"
    /\ osSubscriptions' = osSubscriptions \cup {g}
    /\ subscriptions' = subscriptions \cup {g}
    /\ parcelActive' = TRUE
    /\ Continue(g, "done")
    /\ reported' = {}
    /\ UNCHANGED <<library, started, generation, stopping, nodeWatchers, bufferVars, outsideVars>>

(* The subscription has come up; the watcher may have been stopped since.   *)
Subscribed(g) ==
    /\ call[g] = "subscribe"
    /\ osSubscriptions' = osSubscriptions \cup {g}
    /\ IF isRuntimeCallbackActive(g)
       THEN /\ subscriptions' = subscriptions \cup {g}
            /\ parcelActive' = TRUE
            /\ Continue(g, "done")
       ELSE /\ Continue(g, "unsubscribe")
            /\ UNCHANGED <<subscriptions, parcelActive>>
    /\ reported' = {}
    /\ UNCHANGED <<library, started, generation, stopping, nodeWatchers, bufferVars, outsideVars>>

UnsubscribedStale(g) ==
    /\ call[g] = "unsubscribe"
    /\ osSubscriptions' = osSubscriptions \ {g}
    /\ Continue(g, "done")
    /\ reported' = {}
    /\ UNCHANGED <<library, started, generation, stopping, subscriptions, nodeWatchers, parcelActive,
                   bufferVars, outsideVars>>

(* The inner catch: parcel cannot be loaded or will not subscribe. "auto"   *)
(* falls back to node's watchers, "parcel" gives up.                        *)
ParcelFails(g) ==
    /\ call[g] \in {"loadParcel", "subscribe"}
    /\ IF isRuntimeCallbackActive(g) /\ library = "parcel"
       THEN StartFails(g)
       ELSE /\ Continue(g, IF isRuntimeCallbackActive(g) THEN "nodeDirs" ELSE "done")
            /\ reported' = {}
            /\ UNCHANGED <<library, started, generation, stopping, heldVars, bufferVars, outsideVars>>

StartedNodeWatchers(g) ==
    /\ call[g] = "nodeDirs"
    /\ nodeWatchers' = IF isRuntimeCallbackActive(g) THEN nodeWatchers \cup {g} ELSE nodeWatchers
    /\ Continue(g, "done")
    /\ reported' = {}
    /\ UNCHANGED <<library, started, generation, stopping, subscriptions, parcelActive, osSubscriptions,
                   bufferVars, outsideVars>>

(* A directory cannot be made, or one of the four cannot be watched: those  *)
(* that were opened are closed again before the error goes on.              *)
NodeWatchersFail(g) == call[g] = "nodeDirs" /\ StartFails(g)

-----------------------------------------------------------------------------
(***************************************************************************)
(* stop() and closeRuntimeResources().                                     *)
(***************************************************************************)
Stop ==
    /\ started
    /\ started' = FALSE
    /\ generation' = generation + 1
    /\ clearPending
    /\ stopping' = "unsubscribe"
    /\ reported' = {}
    /\ UNCHANGED <<library, call, heldVars, outsideVars>>

ClosedResources ==
    /\ stopping = "unsubscribe"
    /\ osSubscriptions' = osSubscriptions \ subscriptions
    /\ subscriptions' = {}
    /\ nodeWatchers' = {}
    /\ stopping' = IF parcelActive THEN "snapshot" ELSE "no"
    /\ reported' = {}
    /\ UNCHANGED <<library, started, generation, call, parcelActive, bufferVars, outsideVars>>

WroteSnapshot ==
    /\ stopping = "snapshot"
    /\ stopping' = "no"
    /\ parcelActive' = FALSE
    /\ \/ snapshot' = TRUE /\ since' = Nothing
       \/ UNCHANGED <<snapshot, since>>         \* an error is reported, nothing more
    /\ reported' = {}
    /\ UNCHANGED <<library, started, generation, call, subscriptions, nodeWatchers, osSubscriptions,
                   bufferVars, raw, changes>>

-----------------------------------------------------------------------------
(***************************************************************************)
(* The files, the backends' callbacks and the debounce.                    *)
(***************************************************************************)

(* A file changes: every open subscription will be told, in its own words.  *)
FileChanges(p, op) ==
    /\ changes < MaxChanges
    /\ changes' = changes + 1
    /\ since' = [since EXCEPT ![p] = op]
    /\ LET parcelEvents == {[by |-> g, path |-> p, type |-> op] : g \in osSubscriptions}
           nodeEvents == {[by |-> g, path |-> p, type |-> IF op = "update" THEN "change" ELSE "rename"]
                            : g \in nodeWatchers}
       IN  raw' = {e \in raw : e.path # p} \cup parcelEvents \cup nodeEvents
    /\ reported' = {}
    /\ UNCHANGED <<callVars, heldVars, bufferVars, snapshot>>

(* A callback runs. One that is made for an older generation does nothing.  *)
BackendCallback(e) ==
    /\ e \in raw
    /\ raw' = raw \ {e}
    /\ IF isRuntimeCallbackActive(e.by)
       THEN pushRawEvents(e.by, [p \in Path |-> IF p = e.path THEN e.type ELSE "none"])
       ELSE UNCHANGED bufferVars
    /\ reported' = {}
    /\ UNCHANGED <<callVars, heldVars, snapshot, since, changes>>

\* Slip: the buffer is not emptied.
FlushSlip ==
    /\ timer
    /\ timer' = FALSE
    /\ LET changed(k) == {p \in Path : buffer[p] # "none" /\ Kind[p] = k}
       IN  reported' = {[kind |-> k, op |-> coalesceOperation(changed(k)), paths |-> changed(k)]
                          : k \in {k \in Kinds : changed(k) # {}}}
    /\ UNCHANGED <<buffer, heardFrom, callVars, heldVars, outsideVars>>

(* The debounce timer fires: one event for every kind of file in the buffer *)
(* (a kind has one event, so the order among kinds is left out).            *)
Flush ==
    /\ timer
    /\ timer' = FALSE
    /\ buffer' = Nothing
    /\ heardFrom' = {}
    /\ LET changed(k) == {p \in Path : buffer[p] # "none" /\ Kind[p] = k}
       IN  reported' = {[kind |-> k, op |-> coalesceOperation(changed(k)), paths |-> changed(k)]
                          : k \in {k \in Kinds : changed(k) # {}}}
    /\ UNCHANGED <<callVars, heldVars, outsideVars>>

StartCall(g) ==
    \/ EnsuredDir(g) \/ EnsureDirFails(g) \/ ReplayedSnapshot(g)
    \/ LoadedParcel(g) \/ Subscribed(g) \/ UnsubscribedStale(g) \/ ParcelFails(g)
    \/ StartedNodeWatchers(g) \/ NodeWatchersFail(g)

Next ==
    \/ Start
    \/ \E g \in Generations : StartCall(g)
    \/ Stop \/ ClosedResources \/ WroteSnapshot
    \/ \E p \in Path, op \in {"update", "delete"} : FileChanges(p, op)
    \/ \E e \in raw : BackendCallback(e)
    \/ Flush

(* Node's timers fire and the callbacks of its backends are made.           *)
Fairness ==
    /\ WF_vars(Flush)
    /\ WF_vars(\E e \in raw : BackendCallback(e))

Spec == Init /\ [][Next]_vars /\ Fairness

-----------------------------------------------------------------------------
(***************************************************************************)
(* Properties.                                                             *)
(***************************************************************************)

Events == [kind : Kinds, op : Operations, paths : SUBSET Path]

(* The shape of the state; every event names one of the three operations    *)
(* that the state cache knows (normalizeOperation).                         *)
TypeOK ==
    /\ library \in Libraries
    /\ started \in BOOLEAN /\ generation \in 0 .. MaxGeneration
    /\ call \in [Generations -> Awaits \cup Settled]
    /\ stopping \in {"no", "unsubscribe", "snapshot"}
    /\ subscriptions \subseteq Generations /\ nodeWatchers \subseteq Generations
    /\ osSubscriptions \subseteq Generations /\ parcelActive \in BOOLEAN
    /\ buffer \in [Path -> RawTypes \cup {"none"}] /\ timer \in BOOLEAN
    /\ heardFrom \subseteq Generations
    /\ reported \subseteq Events
    /\ raw \subseteq [by : Generations, path : Path, type : RawTypes]
    /\ snapshot \in BOOLEAN /\ since \in [Path -> RawTypes \cup {"none"}]
    /\ changes \in 0 .. MaxChanges

(* Nothing leaks, however start(), stop() and a backend that fails overlap: *)
(* a subscription that exists is held by the watcher or about to be given   *)
(* up by the start() that asked for it too late, and what the watcher holds *)
(* belongs to the start that is current, or to none while it is stopped.    *)
NoLeak ==
    /\ osSubscriptions \subseteq subscriptions \cup {g \in Generations : call[g] = "unsubscribe"}
    /\ subscriptions \cup nodeWatchers \subseteq
         IF started THEN {generation} ELSE IF stopping = "unsubscribe" THEN {generation - 1} ELSE {}

(* An event is made only of what the callbacks of the current start heard:  *)
(* nothing that a stopped or replaced subscription heard gets out later.    *)
OnlyCurrentReports == [][reported' # {} => started /\ heardFrom = {generation}]_vars

(* A change that the backend of the current start has noticed is reported,  *)
(* unless the watcher is stopped: the debounce and the buffer lose nothing. *)
NoticedIsReported ==
    \A p \in Path :
        (/\ Kind[p] # "none"
         /\ \E e \in raw : e.path = p /\ isRuntimeCallbackActive(e.by))
        ~> (~started \/ \E e \in reported : p \in e.paths)

(* The watcher implements what its listener relies on: the buffer is what   *)
(* is due, and the events of a step are the paths it reports.               *)
Contract ==
    INSTANCE WatcherContract
        WITH Path <- Path, on <- started,
             due <- {p \in Path : buffer[p] # "none"},
             reported <- UNION {e.paths : e \in reported}

ContractSpec == Contract!Spec
=============================================================================
