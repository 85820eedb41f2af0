------------------------- MODULE StateWatcherProofs -------------------------
(***************************************************************************)
(* What the state watcher guarantees, for any files, any number of starts  *)
(* and stops and any number of changes: the types, that no subscription    *)
(* leaks, that only the current start is reported from, and that every     *)
(* step is a step of WatcherContract.                                      *)
(***************************************************************************)
EXTENDS StateWatcher, FiniteSetTheorems, TLAPS

----------------------------------------------------------------------------
\* The inductive invariant.

\* Generations to come, and the current one of a stopped watcher, were never started.
Unused(g) == g > generation \/ (g = generation /\ ~started)

Lives ==
    /\ started => stopping = "no" /\ generation # 0 /\ generation < MaxGeneration
    /\ \A g \in Generations : Unused(g) => call[g] = "none"

\* What is in the buffer was heard by the current start, and will be flushed.
HeardByCurrent ==
    /\ heardFrom \subseteq IF started THEN {generation} ELSE {}
    /\ \A p \in Path : buffer[p] # "none" => Kind[p] # "none" /\ timer /\ heardFrom # {}

IInv == TypeOK /\ Lives /\ NoLeak /\ HeardByCurrent

----------------------------------------------------------------------------
\* The buffer.

\* clearPending leaves an empty buffer that nobody was heard for.
LEMMA Cleared ==
    ASSUME clearPending
    PROVE  /\ buffer' \in [Path -> RawTypes \cup {"none"}] /\ timer' \in BOOLEAN
           /\ heardFrom' = {}
           /\ \A p \in Path : buffer'[p] = "none"
BY DEF clearPending, Nothing

\* Events pushed by the current start keep the buffer what the invariant says of it.
LEMMA Pushed ==
    ASSUME IInv, NEW g \in Generations, isRuntimeCallbackActive(g),
           NEW events \in [Path -> RawTypes \cup {"none"}], pushRawEvents(g, events)
    PROVE  /\ buffer' \in [Path -> RawTypes \cup {"none"}] /\ timer' \in BOOLEAN
           /\ heardFrom' \subseteq {g}
           /\ \A p \in Path : buffer'[p] # "none" =>
                 Kind[p] # "none" /\ timer' /\ heardFrom' # {}
           /\ \A p \in Path : buffer[p] # "none" => buffer'[p] # "none"
<1> DEFINE kept   == {p \in Path : events[p] # "none" /\ Kind[p] # "none"}
           merged == [p \in Path |-> IF p \in kept THEN events[p] ELSE buffer[p]]
<1>1. /\ buffer' = merged
      /\ timer' = (timer \/ merged # Nothing)
      /\ heardFrom' = IF kept = {} THEN heardFrom ELSE heardFrom \cup {g}
  BY DEF pushRawEvents
<1>2. /\ buffer \in [Path -> RawTypes \cup {"none"}] /\ timer \in BOOLEAN
      /\ heardFrom \subseteq {g}
      /\ \A p \in Path : buffer[p] # "none" => Kind[p] # "none" /\ timer /\ heardFrom # {}
  BY DEF IInv, TypeOK, HeardByCurrent, isRuntimeCallbackActive
<1>3. merged \in [Path -> RawTypes \cup {"none"}]
  BY <1>2
<1>4. ASSUME NEW p \in Path, merged[p] # "none"
      PROVE  Kind[p] # "none" /\ timer' /\ heardFrom' # {}
  <2>1. merged # Nothing
    BY <1>4 DEF Nothing
  <2>2. CASE p \in kept
    BY <1>1, <2>1, <2>2
  <2>3. CASE p \notin kept
    BY <1>1, <1>2, <1>4, <2>1, <2>3
  <2> QED
    BY <2>2, <2>3
<1>5. \A p \in Path : buffer[p] # "none" => merged[p] # "none"
  BY <1>2
<1> HIDE DEF merged, kept
<1> QED
  BY <1>1, <1>2, <1>3, <1>4, <1>5

\* What a flush emits is made of events as the listeners know them.
LEMMA EmittedAreEvents ==
    ASSUME TypeOK, NEW paths \in SUBSET Path
    PROVE  coalesceOperation(paths) \in Operations
<1> DEFINE operations == {normalizeOperation(buffer[p]) : p \in paths}
<1>1. operations \subseteq Operations
  BY DEF normalizeOperation, Operations
<1>2. CASE Cardinality(operations) = 1
  <2>1. operations # {}
    BY <1>2, FS_EmptySet
  <2> QED
    BY <1>1, <1>2, <2>1 DEF coalesceOperation
<1>3. CASE Cardinality(operations) # 1
  BY <1>3 DEF coalesceOperation, Operations
<1> QED
  BY <1>2, <1>3
----------------------------------------------------------------------------
\* The steps.

LEMMA InitKeeps == Init => IInv
<1> SUFFICES ASSUME Init PROVE IInv
  OBVIOUS
<1>1. /\ buffer = Nothing /\ since = Nothing /\ library \in Libraries /\ snapshot \in BOOLEAN
      /\ started = FALSE /\ generation = 0 /\ stopping = "no" /\ timer = FALSE
      /\ call = [g \in Generations |-> "none"] /\ changes = 0 /\ parcelActive = FALSE
      /\ subscriptions = {} /\ nodeWatchers = {} /\ osSubscriptions = {}
      /\ heardFrom = {} /\ reported = {} /\ raw = {}
  BY DEF Init
<1>2. Nothing \in [Path -> RawTypes \cup {"none"}] /\ \A p \in Path : Nothing[p] = "none"
  BY DEF Nothing
<1>3. call \in [Generations -> Awaits \cup Settled] /\ \A g \in Generations : call[g] = "none"
  BY <1>1 DEF Settled
<1>4. 0 \in 0 .. MaxGeneration /\ 0 \in 0 .. MaxChanges
  BY WatcherAssumption
<1>5. TypeOK
  BY <1>1, <1>2, <1>3, <1>4 DEF TypeOK
<1>6. Lives /\ NoLeak /\ HeardByCurrent
  BY <1>1, <1>2, <1>3 DEF Lives, NoLeak, HeardByCurrent
<1> QED
  BY <1>5, <1>6 DEF IInv

\* A start that is made current holds nothing yet.
LEMMA StartKeeps ==
    ASSUME IInv, Start
    PROVE  IInv'
<1>1. generation \in 0..MaxGeneration /\ MaxGeneration \in Nat
  BY WatcherAssumption DEF IInv, TypeOK
<1>2. /\ ~started /\ started' = TRUE /\ generation' = generation + 1
      /\ generation + 2 <= MaxGeneration /\ stopping = "no"
      /\ call' = [call EXCEPT ![generation + 1] = "ensureDir"] /\ reported' = {}
      /\ UNCHANGED <<library, stopping, heldVars, bufferVars, outsideVars>>
  BY DEF Start, Continue
<1>3. generation + 1 \in Generations
  BY <1>1, <1>2 DEF Generations
<1>4. TypeOK'
  BY <1>1, <1>2, <1>3
     DEF IInv, TypeOK, Awaits, heldVars, bufferVars, outsideVars, callVars
<1>5. Lives'
  BY <1>1, <1>2, <1>3 DEF IInv, TypeOK, Lives, Unused, Generations
<1>6. NoLeak'
  <2>1. call[generation + 1] = "none"
    BY <1>1, <1>3 DEF IInv, Lives, Unused
  <2> QED
    BY <1>1, <1>2, <1>3, <2>1 DEF IInv, TypeOK, NoLeak, heldVars
<1>7. HeardByCurrent'
  BY <1>2 DEF IInv, HeardByCurrent, bufferVars
<1> QED
  BY <1>4, <1>5, <1>6, <1>7 DEF IInv

\* A call of start() that waits belongs to a start that was made.
LEMMA WaitingIsUsed ==
    ASSUME IInv, NEW g \in Generations, call[g] # "none"
    PROVE  /\ g \in Nat \ {0} /\ g <= generation
           /\ g = generation => started
BY DEF IInv, TypeOK, Lives, Unused, Generations

\* A call that goes on to its next await, or ends, and changes nothing else.
LEMMA ContinueKeeps ==
    ASSUME IInv, NEW g \in Generations, call[g] \notin {"none", "unsubscribe"},
           NEW next \in (Awaits \cup Settled) \ {"unsubscribe"},
           Continue(g, next), reported' = {},
           UNCHANGED <<library, started, generation, stopping, heldVars, outsideVars>>,
           UNCHANGED bufferVars
    PROVE  IInv'
<1>1. call' = [call EXCEPT ![g] = next] /\ call \in [Generations -> Awaits \cup Settled]
  BY DEF IInv, TypeOK, Continue
<1>2. TypeOK'
  BY <1>1 DEF IInv, TypeOK, heldVars, bufferVars, outsideVars
<1>3. Lives'
  BY <1>1, WaitingIsUsed DEF IInv, TypeOK, Lives, Unused, Generations
<1>4. NoLeak'
  BY <1>1 DEF IInv, TypeOK, NoLeak, heldVars
<1>5. HeardByCurrent'
  BY DEF IInv, HeardByCurrent, bufferVars
<1> QED
  BY <1>2, <1>3, <1>4, <1>5 DEF IInv

\* A start that fails gives back all it holds, or holds nothing any more.
LEMMA StartFailsKeeps ==
    ASSUME IInv, NEW g \in Generations, call[g] \notin {"none", "unsubscribe"}, StartFails(g)
    PROVE  IInv'
<1>1. CASE generation # g
  <2>1. /\ Continue(g, "done") /\ reported' = {}
        /\ UNCHANGED <<library, started, generation, stopping, heldVars, outsideVars>>
        /\ UNCHANGED bufferVars
    BY <1>1 DEF StartFails
  <2> QED
    BY <2>1, ContinueKeeps DEF Awaits, Settled
<1>2. CASE generation = g
  <2>1. /\ started /\ started' = FALSE /\ generation' = generation + 1
        /\ call' = [call EXCEPT ![g] = "failed"]
        /\ osSubscriptions' = osSubscriptions \ subscriptions
        /\ subscriptions' = {} /\ nodeWatchers' = {} /\ parcelActive' = FALSE
        /\ clearPending /\ reported' = {}
        /\ UNCHANGED <<library, stopping, outsideVars>>
    BY <1>2, WaitingIsUsed DEF StartFails, Continue
  <2>2. g \in Nat \ {0} /\ generation < MaxGeneration /\ MaxGeneration \in Nat
    BY <1>2, <2>1, WaitingIsUsed, WatcherAssumption DEF IInv, Lives
  <2>3. TypeOK'
    <3>1. generation + 1 \in 0 .. MaxGeneration
      BY <1>2, <2>2
    <3>2. call' \in [Generations -> Awaits \cup Settled]
      BY <2>1 DEF IInv, TypeOK, Settled
    <3>3. /\ buffer' \in [Path -> RawTypes \cup {"none"}] /\ timer' \in BOOLEAN
          /\ heardFrom' = {}
      BY <2>1, Cleared
    <3>4. osSubscriptions' \subseteq Generations
      BY <2>1 DEF IInv, TypeOK
    <3> QED
      BY <2>1, <3>1, <3>2, <3>3, <3>4 DEF IInv, TypeOK, outsideVars
  <2>4. Lives'
    BY <1>2, <2>1, <2>2 DEF IInv, TypeOK, Lives, Unused, Generations
  <2>5. NoLeak'
    BY <1>2, <2>1 DEF IInv, TypeOK, NoLeak
  <2>6. HeardByCurrent'
    BY <2>1, Cleared DEF HeardByCurrent
  <2> QED
    BY <2>3, <2>4, <2>5, <2>6 DEF IInv
<1> QED
  BY <1>1, <1>2

\* What changed since the snapshot goes into the buffer of the current start.
LEMMA ReplayedSnapshotKeeps ==
    ASSUME IInv, NEW g \in Generations, ReplayedSnapshot(g)
    PROVE  IInv'
<1>1. /\ call[g] = "replay" /\ reported' = {}
      /\ UNCHANGED <<library, started, generation, stopping, heldVars, outsideVars>>
  BY DEF ReplayedSnapshot
<1>2. PICK next \in {"loadParcel", "done"} : Continue(g, next)
  BY DEF ReplayedSnapshot
<1>3. next \in (Awaits \cup Settled) \ {"unsubscribe"}
  BY DEF Awaits, Settled
<1>4. CASE UNCHANGED bufferVars
  BY <1>1, <1>2, <1>3, <1>4, ContinueKeeps
<1>5. CASE isRuntimeCallbackActive(g) /\ pushRawEvents(g, since)
  <2>1. since \in [Path -> RawTypes \cup {"none"}]
    BY DEF IInv, TypeOK
  <2>2. /\ buffer' \in [Path -> RawTypes \cup {"none"}] /\ timer' \in BOOLEAN
        /\ heardFrom' \subseteq {g}
        /\ \A p \in Path : buffer'[p] # "none" =>
              Kind[p] # "none" /\ timer' /\ heardFrom' # {}
    BY <1>5, <2>1, Pushed
  <2>3. call' = [call EXCEPT ![g] = next] /\ call \in [Generations -> Awaits \cup Settled]
    BY <1>2 DEF IInv, TypeOK, Continue
  <2>4. TypeOK'
    BY <1>1, <1>3, <2>2, <2>3 DEF IInv, TypeOK, heldVars, outsideVars
  <2>5. Lives'
    BY <1>1, <2>3, WaitingIsUsed DEF IInv, TypeOK, Lives, Unused, Generations
  <2>6. NoLeak'
    BY <1>1, <1>3, <2>3 DEF IInv, TypeOK, NoLeak, heldVars
  <2>7. HeardByCurrent'
    BY <1>1, <1>5, <2>2 DEF HeardByCurrent, isRuntimeCallbackActive
  <2> QED
    BY <2>4, <2>5, <2>6, <2>7 DEF IInv
<1> QED
  BY <1>4, <1>5 DEF ReplayedSnapshot

\* A subscription that comes up is held, or is about to be given up.
LEMMA SubscribedKeeps ==
    ASSUME IInv, NEW g \in Generations, Subscribed(g)
    PROVE  IInv'
<1>1. /\ call[g] = "subscribe" /\ reported' = {}
      /\ osSubscriptions' = osSubscriptions \cup {g}
      /\ UNCHANGED <<library, started, generation, stopping, nodeWatchers, bufferVars, outsideVars>>
  BY DEF Subscribed
<1>2. PICK next \in {"done", "unsubscribe"} :
         /\ call' = [call EXCEPT ![g] = next]
         /\ next = "done" => /\ started /\ generation = g /\ parcelActive' = TRUE
                             /\ subscriptions' = subscriptions \cup {g}
         /\ next = "unsubscribe" => UNCHANGED <<subscriptions, parcelActive>>
  BY DEF Subscribed, Continue, isRuntimeCallbackActive
<1>3. TypeOK'
  BY <1>1, <1>2 DEF IInv, TypeOK, Awaits, Settled, bufferVars, outsideVars
<1>4. Lives'
  BY <1>1, <1>2, WaitingIsUsed DEF IInv, TypeOK, Lives, Unused, Generations
<1>5. NoLeak'
  BY <1>1, <1>2 DEF IInv, TypeOK, NoLeak
<1>6. HeardByCurrent'
  BY <1>1 DEF IInv, HeardByCurrent, bufferVars
<1> QED
  BY <1>3, <1>4, <1>5, <1>6 DEF IInv

\* The late subscription is given up; the watcher does not hold it.
LEMMA UnsubscribedStaleKeeps ==
    ASSUME IInv, NEW g \in Generations, UnsubscribedStale(g)
    PROVE  IInv'
<1>1. /\ call[g] = "unsubscribe" /\ reported' = {} /\ call' = [call EXCEPT ![g] = "done"]
      /\ osSubscriptions' = osSubscriptions \ {g}
      /\ UNCHANGED <<library, started, generation, stopping, subscriptions, nodeWatchers,
                     parcelActive, bufferVars, outsideVars>>
  BY DEF UnsubscribedStale, Continue
<1>2. TypeOK'
  BY <1>1 DEF IInv, TypeOK, Settled, bufferVars, outsideVars
<1>3. Lives'
  BY <1>1, WaitingIsUsed DEF IInv, TypeOK, Lives, Unused, Generations
<1>4. NoLeak'
  BY <1>1 DEF IInv, TypeOK, NoLeak
<1>5. HeardByCurrent'
  BY <1>1 DEF IInv, HeardByCurrent, bufferVars
<1> QED
  BY <1>2, <1>3, <1>4, <1>5 DEF IInv

\* Node's watchers are opened by the current start only.
LEMMA StartedNodeWatchersKeeps ==
    ASSUME IInv, NEW g \in Generations, StartedNodeWatchers(g)
    PROVE  IInv'
<1>1. /\ call[g] = "nodeDirs" /\ reported' = {} /\ call' = [call EXCEPT ![g] = "done"]
      /\ nodeWatchers' = IF started /\ generation = g THEN nodeWatchers \cup {g} ELSE nodeWatchers
      /\ UNCHANGED <<library, started, generation, stopping, subscriptions, parcelActive,
                     osSubscriptions, bufferVars, outsideVars>>
  BY DEF StartedNodeWatchers, Continue, isRuntimeCallbackActive
<1>2. TypeOK'
  BY <1>1 DEF IInv, TypeOK, Settled, bufferVars, outsideVars
<1>3. Lives'
  BY <1>1, WaitingIsUsed DEF IInv, TypeOK, Lives, Unused, Generations
<1>4. NoLeak'
  BY <1>1 DEF IInv, TypeOK, NoLeak
<1>5. HeardByCurrent'
  BY <1>1 DEF IInv, HeardByCurrent, bufferVars
<1> QED
  BY <1>2, <1>3, <1>4, <1>5 DEF IInv

\* Every step of a call of start().
LEMMA StartCallKeeps ==
    ASSUME IInv, NEW g \in Generations, StartCall(g)
    PROVE  IInv'
<1>1. CASE EnsuredDir(g)
  <2>1. PICK next \in {"done", "nodeDirs", "replay"} : Continue(g, next)
    BY <1>1 DEF EnsuredDir
  <2>2. next \in (Awaits \cup Settled) \ {"unsubscribe"}
    BY DEF Awaits, Settled
  <2> QED
    BY <1>1, <2>1, <2>2, ContinueKeeps DEF EnsuredDir
<1>2. CASE EnsureDirFails(g)
  BY <1>2, StartFailsKeeps DEF EnsureDirFails
<1>3. CASE ReplayedSnapshot(g)
  BY <1>3, ReplayedSnapshotKeeps
<1>4. CASE LoadedParcel(g)
  <2>1. PICK next \in {"done", "subscribe"} : Continue(g, next)
    BY <1>4 DEF LoadedParcel
  <2>2. next \in (Awaits \cup Settled) \ {"unsubscribe"}
    BY DEF Awaits, Settled
  <2> QED
    BY <1>4, <2>1, <2>2, ContinueKeeps DEF LoadedParcel
<1>5. CASE Subscribed(g)
  BY <1>5, SubscribedKeeps
<1>6. CASE UnsubscribedStale(g)
  BY <1>6, UnsubscribedStaleKeeps
<1>7. CASE ParcelFails(g)
  <2>1. call[g] \notin {"none", "unsubscribe"}
    BY <1>7 DEF ParcelFails
  <2>2. CASE StartFails(g)
    BY <2>1, <2>2, StartFailsKeeps
  <2>3. CASE ~(isRuntimeCallbackActive(g) /\ library = "parcel")
    <3>1. PICK next \in {"done", "nodeDirs"} : Continue(g, next)
      BY <1>7, <2>3 DEF ParcelFails
    <3>2. next \in (Awaits \cup Settled) \ {"unsubscribe"}
      BY DEF Awaits, Settled
    <3>3. /\ reported' = {}
          /\ UNCHANGED <<library, started, generation, stopping, heldVars, outsideVars>>
          /\ UNCHANGED bufferVars
      BY <1>7, <2>3 DEF ParcelFails
    <3> QED
      BY <2>1, <3>1, <3>2, <3>3, ContinueKeeps
  <2> QED
    BY <1>7, <2>2, <2>3 DEF ParcelFails
<1>8. CASE StartedNodeWatchers(g)
  BY <1>8, StartedNodeWatchersKeeps
<1>9. CASE NodeWatchersFail(g)
  BY <1>9, StartFailsKeeps DEF NodeWatchersFail
<1> QED
  BY <1>1, <1>2, <1>3, <1>4, <1>5, <1>6, <1>7, <1>8, <1>9 DEF StartCall

\* stop() keeps what it holds until it has closed it, and nothing is current then.
LEMMA StopKeeps ==
    ASSUME IInv, Stop
    PROVE  IInv'
<1>1. /\ started /\ started' = FALSE /\ generation' = generation + 1 /\ clearPending
      /\ stopping' = "unsubscribe" /\ reported' = {}
      /\ UNCHANGED <<library, call, heldVars, outsideVars>>
  BY DEF Stop
<1>2. /\ generation \in Nat \ {0} /\ generation < MaxGeneration /\ MaxGeneration \in Nat
  BY <1>1, WatcherAssumption DEF IInv, TypeOK, Lives
<1>3. /\ buffer' \in [Path -> RawTypes \cup {"none"}] /\ timer' \in BOOLEAN /\ heardFrom' = {}
      /\ \A p \in Path : buffer'[p] = "none"
  BY <1>1, Cleared
<1>4. TypeOK'
  <2>1. generation + 1 \in 0 .. MaxGeneration
    BY <1>2
  <2> QED
    BY <1>1, <1>3, <2>1 DEF IInv, TypeOK, heldVars, outsideVars
<1>5. Lives'
  BY <1>1, <1>2 DEF IInv, TypeOK, Lives, Unused, Generations
<1>6. NoLeak'
  BY <1>1, <1>2 DEF IInv, TypeOK, NoLeak, heldVars
<1>7. HeardByCurrent'
  BY <1>1, <1>3 DEF HeardByCurrent
<1> QED
  BY <1>4, <1>5, <1>6, <1>7 DEF IInv

\* What stop() closes is all that was held.
LEMMA ClosingKeeps ==
    ASSUME IInv, ClosedResources \/ WroteSnapshot
    PROVE  IInv'
<1>1. CASE ClosedResources
  <2>1. stopping = "unsubscribe" /\ stopping' \in {"no", "snapshot"} /\ ~started
    BY <1>1 DEF ClosedResources, IInv, Lives
  <2>2. TypeOK'
    BY <1>1, <2>1 DEF ClosedResources, IInv, TypeOK, bufferVars, outsideVars
  <2>3. Lives'
    BY <1>1, <2>1 DEF ClosedResources, IInv, Lives, Unused
  <2>4. NoLeak'
    BY <1>1, <2>1 DEF ClosedResources, IInv, NoLeak
  <2>5. HeardByCurrent'
    BY <1>1 DEF ClosedResources, IInv, HeardByCurrent, bufferVars
  <2> QED
    BY <2>2, <2>3, <2>4, <2>5 DEF IInv
<1>2. CASE WroteSnapshot
  <2>1. stopping = "snapshot" /\ stopping' = "no" /\ ~started
    BY <1>2 DEF WroteSnapshot, IInv, Lives
  <2>2. snapshot' \in BOOLEAN /\ since' \in [Path -> RawTypes \cup {"none"}]
    BY <1>2 DEF WroteSnapshot, IInv, TypeOK, Nothing
  <2>3. TypeOK'
    BY <1>2, <2>1, <2>2 DEF WroteSnapshot, IInv, TypeOK, bufferVars
  <2>4. Lives'
    BY <1>2, <2>1 DEF WroteSnapshot, IInv, Lives, Unused
  <2>5. NoLeak'
    BY <1>2, <2>1 DEF WroteSnapshot, IInv, NoLeak
  <2>6. HeardByCurrent'
    BY <1>2 DEF WroteSnapshot, IInv, HeardByCurrent, bufferVars
  <2> QED
    BY <2>3, <2>4, <2>5, <2>6 DEF IInv
<1> QED
  BY <1>1, <1>2

\* The files and the callbacks.
LEMMA FileChangesKeeps ==
    ASSUME IInv, NEW p \in Path, NEW op \in {"update", "delete"}, FileChanges(p, op)
    PROVE  IInv'
<1>1. /\ UNCHANGED <<callVars, heldVars, bufferVars, snapshot>> /\ reported' = {}
      /\ changes < MaxChanges /\ changes' = changes + 1 /\ since' = [since EXCEPT ![p] = op]
  BY DEF FileChanges
<1>2. changes' \in 0 .. MaxChanges
  BY <1>1, WatcherAssumption DEF IInv, TypeOK
<1>3. since' \in [Path -> RawTypes \cup {"none"}]
  BY <1>1 DEF IInv, TypeOK, RawTypes, Operations
<1>4. raw' \subseteq [by : Generations, path : Path, type : RawTypes]
  BY DEF FileChanges, IInv, TypeOK, RawTypes, Operations
<1>5. TypeOK'
  BY <1>1, <1>2, <1>3, <1>4 DEF IInv, TypeOK, callVars, heldVars, bufferVars
<1>6. Lives' /\ NoLeak' /\ HeardByCurrent'
  BY <1>1 DEF IInv, Lives, NoLeak, HeardByCurrent, Unused, callVars, heldVars, bufferVars
<1> QED
  BY <1>5, <1>6 DEF IInv

LEMMA BackendCallbackKeeps ==
    ASSUME IInv, NEW e \in raw, BackendCallback(e)
    PROVE  IInv'
<1> DEFINE events == [p \in Path |-> IF p = e.path THEN e.type ELSE "none"]
<1>1. /\ UNCHANGED <<callVars, heldVars, snapshot, since, changes>> /\ reported' = {}
      /\ raw' = raw \ {e}
  BY DEF BackendCallback
<1>2. e.by \in Generations /\ e.type \in RawTypes
  BY DEF IInv, TypeOK
<1>3. CASE UNCHANGED bufferVars
  <2>1. TypeOK'
    BY <1>1, <1>3 DEF IInv, TypeOK, callVars, heldVars, bufferVars
  <2>2. Lives' /\ NoLeak' /\ HeardByCurrent'
    BY <1>1, <1>3 DEF IInv, Lives, NoLeak, HeardByCurrent, Unused, callVars, heldVars, bufferVars
  <2> QED
    BY <2>1, <2>2 DEF IInv
<1>4. CASE isRuntimeCallbackActive(e.by) /\ pushRawEvents(e.by, events)
  <2>1. events \in [Path -> RawTypes \cup {"none"}]
    BY <1>2
  <2>2. /\ buffer' \in [Path -> RawTypes \cup {"none"}] /\ timer' \in BOOLEAN
        /\ heardFrom' \subseteq {e.by}
        /\ \A p \in Path : buffer'[p] # "none" =>
              Kind[p] # "none" /\ timer' /\ heardFrom' # {}
    <3> HIDE DEF events
    <3> QED
      BY <1>2, <1>4, <2>1, Pushed
  <2>3. TypeOK'
    BY <1>1, <1>2, <2>2 DEF IInv, TypeOK, callVars, heldVars
  <2>4. Lives' /\ NoLeak'
    BY <1>1 DEF IInv, Lives, NoLeak, Unused, callVars, heldVars
  <2>5. HeardByCurrent'
    BY <1>1, <1>4, <2>2 DEF HeardByCurrent, isRuntimeCallbackActive, callVars
  <2> QED
    BY <2>3, <2>4, <2>5 DEF IInv
<1> QED
  BY <1>3, <1>4 DEF BackendCallback

\* The flush empties the buffer, and what it emits is typed.
LEMMA FlushKeeps ==
    ASSUME IInv, Flush
    PROVE  IInv'
<1>1. /\ timer' = FALSE /\ buffer' = Nothing /\ heardFrom' = {}
      /\ UNCHANGED <<callVars, heldVars, outsideVars>>
  BY DEF Flush
<1> DEFINE changed(k) == {p \in Path : buffer[p] # "none" /\ Kind[p] = k}
<1>2. reported' = {[kind |-> k, op |-> coalesceOperation(changed(k)), paths |-> changed(k)]
                     : k \in {k \in Kinds : changed(k) # {}}}
  BY DEF Flush
<1>3. \A k \in Kinds :
         coalesceOperation(changed(k)) \in Operations /\ changed(k) \in SUBSET Path
  BY EmittedAreEvents DEF IInv
<1>4. reported' \subseteq Events
  <2> HIDE DEF changed
  <2>1. \A e \in reported' : \E k \in Kinds :
          e = [kind |-> k, op |-> coalesceOperation(changed(k)), paths |-> changed(k)]
    BY <1>2
  <2> QED
    BY <1>3, <2>1 DEF Events
<1>5. /\ buffer' \in [Path -> RawTypes \cup {"none"}]
      /\ \A p \in Path : buffer'[p] = "none"
  BY <1>1 DEF Nothing
<1>6. TypeOK'
  BY <1>1, <1>4, <1>5 DEF IInv, TypeOK, callVars, heldVars, outsideVars
<1>7. Lives' /\ NoLeak' /\ HeardByCurrent'
  BY <1>1, <1>5 DEF IInv, Lives, NoLeak, HeardByCurrent, Unused, callVars, heldVars
<1> QED
  BY <1>6, <1>7 DEF IInv

----------------------------------------------------------------------------
\* The theorems.

LEMMA NextKeeps == IInv /\ [Next]_vars => IInv'
<1> SUFFICES ASSUME IInv, [Next]_vars PROVE IInv'
  OBVIOUS
<1>1. CASE Start
  BY <1>1, StartKeeps
<1>2. ASSUME NEW g \in Generations, StartCall(g) PROVE IInv'
  BY <1>2, StartCallKeeps
<1>3. CASE Stop
  BY <1>3, StopKeeps
<1>4. CASE ClosedResources \/ WroteSnapshot
  BY <1>4, ClosingKeeps
<1>5. ASSUME NEW p \in Path, NEW op \in {"update", "delete"}, FileChanges(p, op) PROVE IInv'
  BY <1>5, FileChangesKeeps
<1>6. ASSUME NEW e \in raw, BackendCallback(e) PROVE IInv'
  BY <1>6, BackendCallbackKeeps
<1>7. CASE Flush
  BY <1>7, FlushKeeps
<1>8. CASE UNCHANGED vars
  BY <1>8 DEF IInv, TypeOK, Lives, NoLeak, HeardByCurrent, Unused, vars, callVars, heldVars,
              bufferVars, outsideVars
<1> QED
  BY <1>1, <1>2, <1>3, <1>4, <1>5, <1>6, <1>7, <1>8 DEF Next

LEMMA IInvHolds == Spec => []IInv
BY InitKeeps, NextKeeps, PTL DEF Spec

(* The state keeps its shape, and every event names an operation the cache  *)
(* knows, whichever backend noticed the change (normalizeOperation).        *)
THEOREM WatcherTyped == Spec => []TypeOK
<1>1. IInv => TypeOK
  BY DEF IInv
<1> QED
  BY <1>1, IInvHolds, PTL

(* However start(), stop() and a failing backend overlap, no subscription   *)
(* exists that nobody holds and nobody is about to give up.                 *)
THEOREM NoSubscriptionLeaks == Spec => []NoLeak
<1>1. IInv => NoLeak
  BY DEF IInv
<1> QED
  BY <1>1, IInvHolds, PTL

\* Only the flush reports, and only what is in the buffer.
LEMMA FlushReports ==
    ASSUME IInv, Flush
    PROVE  UNION {e.paths : e \in reported'} = {p \in Path : buffer[p] # "none"}
<1> DEFINE changed(k) == {p \in Path : buffer[p] # "none" /\ Kind[p] = k}
           event(k) == [kind |-> k, op |-> coalesceOperation(changed(k)), paths |-> changed(k)]
<1>1. reported' = {event(k) : k \in {k \in Kinds : changed(k) # {}}}
  BY DEF Flush
<1>2. \A k : event(k).paths = changed(k)
  OBVIOUS
<1>3. \A p \in Path : buffer[p] # "none" => Kind[p] \in Kinds
  BY WatcherAssumption DEF IInv, HeardByCurrent
<1>4. ASSUME NEW p \in Path, buffer[p] # "none"
      PROVE  \E e \in reported' : p \in e.paths
  <2>1. Kind[p] \in Kinds /\ p \in changed(Kind[p])
    BY <1>3, <1>4
  <2>2. event(Kind[p]) \in reported'
    <3> HIDE DEF event
    <3> QED
      BY <1>1, <2>1
  <2> QED
    BY <1>2, <2>1, <2>2
<1>5. ASSUME NEW e \in reported', NEW p \in e.paths
      PROVE  p \in Path /\ buffer[p] # "none"
  <2>1. PICK k \in Kinds : e = event(k)
    <3> HIDE DEF event
    <3> QED
      BY <1>1
  <2> QED
    BY <1>2, <1>5, <2>1
<1> QED
  BY <1>4, <1>5

LEMMA OthersAreSilent ==
    ASSUME Next, ~Flush
    PROVE  reported' = {}
BY DEF Next, StartCall, Start, EnsuredDir, EnsureDirFails, ReplayedSnapshot, LoadedParcel,
   Subscribed, UnsubscribedStale, ParcelFails, StartedNodeWatchers, NodeWatchersFail,
   StartFails, Stop, ClosedResources, WroteSnapshot, FileChanges, BackendCallback

(* An event is made only of what the callbacks of the current start heard:  *)
(* after stop(), or a restart, nothing that was heard before gets out.      *)
THEOREM ReportsAreCurrent == Spec => OnlyCurrentReports
<1>1. ASSUME IInv, Next, reported' # {}
      PROVE  started /\ heardFrom = {generation}
  <2>1. Flush
    BY <1>1, OthersAreSilent
  <2>2. PICK k \in Kinds : {p \in Path : buffer[p] # "none" /\ Kind[p] = k} # {}
    BY <1>1, <2>1 DEF Flush
  <2>3. heardFrom # {}
    BY <1>1, <2>2 DEF IInv, HeardByCurrent
  <2> QED
    BY <1>1, <2>3 DEF IInv, HeardByCurrent
<1>2. IInv /\ [Next]_vars => [reported' # {} => started /\ heardFrom = {generation}]_vars
  BY <1>1
<1> QED
  BY <1>2, IInvHolds, PTL DEF Spec, OnlyCurrentReports

----------------------------------------------------------------------------
\* The refinement of WatcherContract.

Due == {p \in Path : buffer[p] # "none"}

\* A step that leaves the switch and the buffer alone and emits nothing.
LEMMA Unnoticed ==
    ASSUME reported' = {}, UNCHANGED <<started, buffer>>
    PROVE  Contract!Silence
BY DEF Contract!Silence

\* A step that switches the watcher off empties the buffer.
LEMMA SwitchesOff ==
    ASSUME started, started' = FALSE, clearPending, reported' = {}
    PROVE  Contract!SwitchOff
<1>1. Due' = {}
  BY Cleared DEF Due
<1> QED
  BY <1>1 DEF Contract!SwitchOff, Due

\* Callbacks of the current start add to what is due, and take nothing away.
LEMMA Hears ==
    ASSUME IInv, NEW g \in Generations, isRuntimeCallbackActive(g),
           NEW events \in [Path -> RawTypes \cup {"none"}], pushRawEvents(g, events),
           reported' = {}, started' = started
    PROVE  \E heard \in SUBSET Path : Contract!Hear(heard)
<1>1. \A p \in Path : buffer[p] # "none" => buffer'[p] # "none"
  BY Pushed
<1>2. Due' = Due \cup Due' /\ Due' \in SUBSET Path
  BY <1>1 DEF Due
<1>3. PICK heard \in SUBSET Path : heard = Due'
  BY <1>2
<1>4. Contract!Hear(heard)
  BY <1>2, <1>3 DEF Contract!Hear, Due, isRuntimeCallbackActive
<1> QED
  BY <1>4

LEMMA StartFailsIsUnnoticedOrOff ==
    ASSUME IInv, NEW g \in Generations, call[g] # "none", StartFails(g)
    PROVE  Contract!Next
<1>1. CASE generation # g
  BY <1>1, Unnoticed DEF StartFails, bufferVars, Contract!Next
<1>2. CASE generation = g
  BY <1>2, WaitingIsUsed, SwitchesOff DEF StartFails, Contract!Next
<1> QED
  BY <1>1, <1>2

LEMMA StartCallImplements ==
    ASSUME IInv, NEW g \in Generations, StartCall(g)
    PROVE  Contract!Next
<1>1. CASE EnsureDirFails(g) \/ NodeWatchersFail(g)
  BY <1>1, StartFailsIsUnnoticedOrOff DEF EnsureDirFails, NodeWatchersFail
<1>2. CASE ParcelFails(g)
  <2>1. CASE StartFails(g)
    BY <1>2, <2>1, StartFailsIsUnnoticedOrOff DEF ParcelFails
  <2>2. CASE ~StartFails(g)
    BY <1>2, <2>2, Unnoticed DEF ParcelFails, bufferVars, Contract!Next
  <2> QED
    BY <2>1, <2>2
<1>3. CASE ReplayedSnapshot(g)
  <2>1. CASE isRuntimeCallbackActive(g) /\ pushRawEvents(g, since)
    BY <1>3, <2>1, Hears DEF ReplayedSnapshot, IInv, TypeOK, Contract!Next
  <2>2. CASE UNCHANGED bufferVars
    BY <1>3, <2>2, Unnoticed DEF ReplayedSnapshot, bufferVars, Contract!Next
  <2> QED
    BY <1>3, <2>1, <2>2 DEF ReplayedSnapshot
<1>4. CASE EnsuredDir(g) \/ LoadedParcel(g) \/ Subscribed(g) \/ UnsubscribedStale(g)
             \/ StartedNodeWatchers(g)
  BY <1>4, Unnoticed DEF EnsuredDir, LoadedParcel, Subscribed, UnsubscribedStale,
     StartedNodeWatchers, bufferVars, Contract!Next
<1> QED
  BY <1>1, <1>2, <1>3, <1>4 DEF StartCall

LEMMA BackendCallbackImplements ==
    ASSUME IInv, NEW e \in raw, BackendCallback(e)
    PROVE  Contract!Next
<1> DEFINE events == [p \in Path |-> IF p = e.path THEN e.type ELSE "none"]
<1>1. e.by \in Generations /\ events \in [Path -> RawTypes \cup {"none"}]
  BY DEF IInv, TypeOK
<1>2. reported' = {} /\ started' = started
  BY DEF BackendCallback, callVars
<1>3. CASE isRuntimeCallbackActive(e.by) /\ pushRawEvents(e.by, events)
  <2> HIDE DEF events
  <2> QED
    BY <1>1, <1>2, <1>3, Hears DEF Contract!Next
<1>4. CASE UNCHANGED bufferVars
  BY <1>2, <1>4, Unnoticed DEF bufferVars, Contract!Next
<1> QED
  BY <1>3, <1>4 DEF BackendCallback

LEMMA FlushImplements ==
    ASSUME IInv, Flush
    PROVE  Contract!Next
<1>1. started' = started /\ buffer' = Nothing
  BY DEF Flush, callVars
<1>2. Due' = {}
  BY <1>1 DEF Due, Nothing
<1>3. UNION {e.paths : e \in reported'} = Due
  BY FlushReports DEF Due
<1>4. CASE Due # {}
  BY <1>1, <1>2, <1>3, <1>4 DEF Contract!Report, Contract!Next, Due
<1>5. CASE Due = {}
  BY <1>1, <1>2, <1>3, <1>5 DEF Contract!Silence, Contract!Next, Due
<1> QED
  BY <1>4, <1>5

LEMMA NextImplements == IInv /\ [Next]_vars => [Contract!Next]_(Contract!vars)
<1> SUFFICES ASSUME IInv, [Next]_vars PROVE Contract!Next \/ UNCHANGED Contract!vars
  OBVIOUS
<1>1. CASE Start
  <2>1. Due = {}
    BY <1>1 DEF Start, IInv, HeardByCurrent, Due
  <2> QED
    BY <1>1, <2>1 DEF Start, bufferVars, Due, Contract!SwitchOn, Contract!Next
<1>2. ASSUME NEW g \in Generations, StartCall(g) PROVE Contract!Next
  BY <1>2, StartCallImplements
<1>3. CASE Stop
  BY <1>3, SwitchesOff DEF Stop, Contract!Next
<1>4. CASE ClosedResources \/ WroteSnapshot
  BY <1>4, Unnoticed DEF ClosedResources, WroteSnapshot, bufferVars, Contract!Next
<1>5. ASSUME NEW p \in Path, NEW op \in {"update", "delete"}, FileChanges(p, op)
      PROVE  Contract!Next
  BY <1>5, Unnoticed DEF FileChanges, callVars, bufferVars, Contract!Next
<1>6. ASSUME NEW e \in raw, BackendCallback(e) PROVE Contract!Next
  BY <1>6, BackendCallbackImplements
<1>7. CASE Flush
  BY <1>7, FlushImplements
<1>8. CASE UNCHANGED vars
  BY <1>8 DEF vars, callVars, bufferVars, Contract!vars
<1> QED
  BY <1>1, <1>2, <1>3, <1>4, <1>5, <1>6, <1>7, <1>8 DEF Next

(* Every behaviour of the watcher is one that WatcherContract allows, as    *)
(* far as safety goes: it reports exactly what it heard since it was last   *)
(* started, and only while it is started.                                   *)
THEOREM KeepsItsContract == Spec => Contract!Init /\ [][Contract!Next]_(Contract!vars)
<1>1. Init => Contract!Init
  BY DEF Init, Nothing, Contract!Init
<1> QED
  BY <1>1, IInvHolds, NextImplements, PTL DEF Spec
=============================================================================
