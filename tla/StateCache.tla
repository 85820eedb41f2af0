------------------------------ MODULE StateCache ------------------------------
(***************************************************************************)
(* The cache through which the service reads the state files               *)
(* (src/state/state-cache.ts) and the files behind it. Every change of the *)
(* cache goes through one queue of operations; a load waits for the        *)
(* operations that were queued when it was called. The content of a file   *)
(* is the number of the write that produced it.                            *)
(*                                                                         *)
(* Nothing in the program deletes a state file, so the branches for delete *)
(* events are left out.                                                    *)
(***************************************************************************)
EXTENDS Naturals, FiniteSets, Sequences, SequencesExt

CONSTANTS
    File,           \* the state files: the workflow, the runs, the specs, the progress
    MaxWrites       \* bound: writes of state files

ASSUME CacheAssumption == MaxWrites \in Nat /\ IsFiniteSet(File) /\ File # {}

Unread == MaxWrites + 1     \* not the number of any write

VARIABLES
    disk,           \* file -> the write its content comes from
    writes,         \* how many writes there were
    cache,          \* file -> the content the cache holds
    warm,           \* file -> what start(), while it runs, has read of it
    queue,          \* this.queue: the operations that have not ended
    refreshed,      \* what the refresh at the head of the queue has read of its file
    stale           \* history: files whose newest content nothing will announce

fileVars == <<disk, writes>>
cacheVars == <<cache, warm, queue, refreshed>>

Operation == [op : {"refresh"}, file : File] \cup [op : {"note"}, file : File, version : 0 .. MaxWrites]

CacheInit ==
    /\ disk = [f \in File |-> 0] /\ writes = 0
    /\ cache = [f \in File |-> Unread] /\ warm = [f \in File |-> Unread]
    /\ queue = <<>> /\ refreshed = Unread
    /\ stale = {}

Started == \A f \in File : cache[f] # Unread

(* writeJsonFileAtomic: the rename puts the new content in place at once.   *)
writeJsonFileAtomic(f) ==
    /\ writes < MaxWrites
    /\ writes' = writes + 1
    /\ disk' = [disk EXCEPT ![f] = writes + 1]

-----------------------------------------------------------------------------
(* start(): each file is read when its turn comes, and the cache is filled  *)
(* when all have been read.                                                 *)
WarmRead(f) ==
    /\ ~Started /\ warm[f] = Unread
    /\ warm' = [warm EXCEPT ![f] = disk[f]]
    /\ UNCHANGED <<cache, queue, refreshed>>

CacheStarted ==
    /\ \A f \in File : warm[f] # Unread
    /\ cache' = warm
    /\ warm' = [f \in File |-> Unread]
    /\ UNCHANGED <<queue, refreshed>>

\* Slip: a change is taken to be covered by the operations that are queued already.
applyChangesSlip(files) ==
    \E order \in SetToSeqs(files) :
        queue' = IF queue # <<>> THEN queue
                 ELSE [i \in 1 .. Len(order) |-> [op |-> "refresh", file |-> order[i]]]

(* applyChange: a refresh is queued when the event is emitted; the events   *)
(* of one flush come in any order.                                          *)
applyChanges(files) ==
    \E order \in SetToSeqs(files) :
        queue' = queue \o [i \in 1 .. Len(order) |-> [op |-> "refresh", file |-> order[i]]]

\* Slip: the refresh reads through the cache that it is to refresh.
RefreshReadSlip ==
    /\ queue # <<>> /\ Head(queue).op = "refresh" /\ refreshed = Unread
    /\ refreshed' = cache[Head(queue).file]
    /\ UNCHANGED <<cache, warm, queue>>

(* refresh(), in two halves: the file is read, and later what was read is   *)
(* put in the cache.                                                        *)
RefreshRead ==
    /\ queue # <<>> /\ Head(queue).op = "refresh" /\ refreshed = Unread
    /\ refreshed' = disk[Head(queue).file]
    /\ UNCHANGED <<cache, warm, queue>>

RefreshStored ==
    /\ queue # <<>> /\ Head(queue).op = "refresh" /\ refreshed # Unread
    /\ cache' = [cache EXCEPT ![Head(queue).file] = refreshed]
    /\ queue' = Tail(queue)
    /\ refreshed' = Unread
    /\ UNCHANGED <<warm, stale>>

(* Behind the head of the queue there is another refresh of the file.       *)
RefreshQueued(f) == \E i \in 2 .. Len(queue) : queue[i].op = "refresh" /\ queue[i].file = f

(* The read fails: the error is logged and the cache stays as it was, as it *)
(* will until something else is heard of the file.                          *)
RefreshFails ==
    /\ queue # <<>> /\ Head(queue).op = "refresh" /\ refreshed = Unread
    /\ queue' = Tail(queue)
    /\ stale' = IF RefreshQueued(Head(queue).file) THEN stale ELSE stale \cup {Head(queue).file}
    /\ UNCHANGED <<cache, warm, refreshed>>

(* onWorkflowWritten and its kin: what the process has written itself takes *)
(* its turn behind the refreshes that were queued before.                   *)
onWritten(f, version) ==
    queue' = Append(queue, [op |-> "note", file |-> f, version |-> version])

NoteApplied ==
    /\ queue # <<>> /\ Head(queue).op = "note"
    /\ cache' = [cache EXCEPT ![Head(queue).file] = Head(queue).version]
    /\ queue' = Tail(queue)
    /\ stale' = IF Head(queue).version = disk[Head(queue).file] THEN stale \ {Head(queue).file} ELSE stale
    /\ UNCHANGED <<warm, refreshed>>

(* loadWorkflow and its kin, once the operations they awaited have ended.   *)
load(f) == cache[f]

-----------------------------------------------------------------------------
CacheTypeOK ==
    /\ disk \in [File -> 0 .. MaxWrites] /\ writes \in 0 .. MaxWrites
    /\ cache \in [File -> 0 .. Unread] /\ warm \in [File -> 0 .. Unread]
    /\ queue \in Seq(Operation)
    /\ refreshed \in 0 .. Unread
    /\ stale \subseteq File
=============================================================================
