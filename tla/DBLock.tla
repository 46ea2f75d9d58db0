------------------------------- MODULE DBLock -------------------------------
(***************************************************************************)
(* dblock, the sync.RWMutex of pushDatabaseOpts (db/pushdb.go): one in     *)
(* each uniqush process, so that it excludes only workers, the request     *)
(* goroutines, of the same process.                                        *)
(***************************************************************************)

CONSTANTS
    Procs,      \* uniqush processes sharing the redis server
    Workers,    \* request goroutines
    ProcOf,     \* the process each worker runs in
    Nobody      \* the holder of a free lock

VARIABLES
    writer,     \* who holds dblock.Lock in each process
    readers     \* who holds dblock.RLock in each process

locks == <<writer, readers>>

LockInit ==
    /\ writer = [p \in Procs |-> Nobody]
    /\ readers = [p \in Procs |-> {}]

LockFree(w) == writer[ProcOf[w]] = Nobody /\ readers[ProcOf[w]] = {}

Lock(w) ==
    /\ LockFree(w)
    /\ writer' = [writer EXCEPT ![ProcOf[w]] = w]
    /\ UNCHANGED readers

RLock(w) ==
    /\ writer[ProcOf[w]] = Nobody
    /\ readers' = [readers EXCEPT ![ProcOf[w]] = @ \cup {w}]
    /\ UNCHANGED writer

Unlock(w) ==
    /\ writer' = [writer EXCEPT ![ProcOf[w]] = Nobody]
    /\ UNCHANGED readers

(* Defect: the read lock is kept through the cleanup. *)
RUnlockForgotten(w) == UNCHANGED locks

RUnlock(w) ==
    /\ readers' = [readers EXCEPT ![ProcOf[w]] = @ \ {w}]
    /\ UNCHANGED writer

(* Whatever w holds is given back: a deferred unlock, or the process is gone. *)
ReleaseAll(w) ==
    /\ writer' = [p \in Procs |-> IF writer[p] = w THEN Nobody ELSE writer[p]]
    /\ readers' = [p \in Procs |-> readers[p] \ {w}]

=============================================================================
