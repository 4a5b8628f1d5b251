---------------------------- MODULE SyncMapStore ----------------------------
(***************************************************************************)
(* SyncMapStore (internal/store/store.go): the same interface as           *)
(* RedisTransactionStore over Go maps in memory, which the tests run the   *)
(* handlers on.  The map holds pointers: Load hands out the record that    *)
(* Update later changes in place, under a mutex that only Update takes.    *)
(* Each action is one access to shared memory.  Nothing orders the two     *)
(* assignments of an update for a reader without the mutex, so they become *)
(* visible in either order.                                                *)
(***************************************************************************)
EXTENDS Transactions

CONSTANTS
    Updaters,  \* goroutines that call Update
    Readers,   \* goroutines that Load a record and look at it
    Free,      \* a mutex nobody holds
    NoCall,    \* no Update in progress
    NoRecord   \* a nil pointer

ASSUME SyncMapAssumption ==
    /\ Free \notin Updaters
    /\ NoRecord \notin Posts

VARIABLES
    data,    \* data[t]: the record under t; a record is named by its POST
    status,  \* status[p], response[p]: the two fields of record p
    response,
    mutex,   \* mutex[t]: who holds the mutex of t
    pc,      \* pc[u]: where the Update of u is
    arg,     \* arg[u]: its arguments
    ptr,     \* ptr[u]: the record it loaded
    undone,  \* undone[u]: the assignments of updateFn still to come
    look,    \* look[r]: how far reader r is
    seen     \* seen[r]: the record, status and response it has read

recordVars == <<data, status, response>>
updateVars == <<mutex, pc, arg, ptr, undone>>
readVars == <<look, seen>>
vars == <<recordVars, updateVars, readVars>>

\* The record of p as a value.
RecordOf(p) == [post |-> p, status |-> status[p], data |-> response[p]]

NothingSeen == [ptr |-> NoRecord, status |-> "PENDING", response |-> NoData]

Init ==
    /\ data = [t \in TrxIDs |-> NoRecord]
    /\ status = [p \in Posts |-> "PENDING"]
    /\ response = [p \in Posts |-> NoData]
    /\ mutex = [t \in TrxIDs |-> Free]
    /\ pc = [u \in Updaters |-> "idle"]
    /\ arg = [u \in Updaters |-> NoCall]
    /\ ptr = [u \in Updaters |-> NoRecord]
    /\ undone = [u \in Updaters |-> {}]
    /\ look = [r \in Readers |-> "load"]
    /\ seen = [r \in Readers |-> NothingSeen]

-----------------------------------------------------------------------------
\* Store of the record of p, which is fresh: nobody holds it.  No mutex is
\* taken, so it may come between two steps of an Update of the same key.
Store(p) ==
    /\ \A t \in TrxIDs : data[t] # p
    /\ \A u \in Updaters : ptr[u] # p
    /\ \A r \in Readers : seen[r].ptr # p
    /\ status[p] = "PENDING"
    /\ data' = [data EXCEPT ![TrxOf[p]] = p]
    /\ UNCHANGED <<status, response, updateVars, readVars>>

Goto(u, l) == pc' = [pc EXCEPT ![u] = l]

\* Update(t, f) is called.
Begin(u, t, f) ==
    /\ pc[u] = "idle"
    /\ Goto(u, "lock")
    /\ arg' = [arg EXCEPT ![u] = [trx |-> t, fn |-> f]]
    /\ UNCHANGED <<recordVars, mutex, ptr, undone, readVars>>

\* Mutant: each Update locks a mutex of its own.
LockPrivate(u) ==
    /\ pc[u] = "lock"
    /\ Goto(u, "load")
    /\ UNCHANGED <<recordVars, mutex, arg, ptr, undone, readVars>>

\* The mutex of the key: LoadOrStore gives every Update the same one.
Lock(u) ==
    /\ pc[u] = "lock"
    /\ mutex[arg[u].trx] = Free
    /\ mutex' = [mutex EXCEPT ![arg[u].trx] = u]
    /\ Goto(u, "load")
    /\ UNCHANGED <<recordVars, arg, ptr, undone, readVars>>

\* The fields that updateFn assigns.
Assignments(f) == IF f = Timeout THEN {"status"} ELSE {"status", "response"}

\* Mutant: the error is returned without unlocking.
LoadRecordKeepsLock(u) ==
    LET p == data[arg[u].trx] IN
    /\ pc[u] = "load"
    /\ IF p = NoRecord
       THEN /\ Goto(u, "idle")
            /\ arg' = [arg EXCEPT ![u] = NoCall]
            /\ UNCHANGED <<ptr, undone>>
       ELSE /\ ptr' = [ptr EXCEPT ![u] = p]
            /\ undone' = [undone EXCEPT ![u] = Assignments(arg[u].fn)]
            /\ Goto(u, "apply")
            /\ UNCHANGED arg
    /\ UNCHANGED <<recordVars, mutex, readVars>>

\* Load the pointer; without a record the Update ends with an error.
LoadRecord(u) ==
    LET p == data[arg[u].trx] IN
    /\ pc[u] = "load"
    /\ IF p = NoRecord
       THEN Goto(u, "unlock") /\ UNCHANGED <<ptr, undone>>
       ELSE /\ ptr' = [ptr EXCEPT ![u] = p]
            /\ undone' = [undone EXCEPT ![u] = Assignments(arg[u].fn)]
            /\ Goto(u, "apply")
    /\ UNCHANGED <<recordVars, mutex, arg, readVars>>

\* Mutant: updateFn leaves the status of a decided record alone.
AssignIfPending(u, field) ==
    LET new == Apply(RecordOf(ptr[u]), arg[u].fn) IN
    /\ pc[u] = "apply"
    /\ field \in undone[u]
    /\ IF field = "response"
       THEN response' = [response EXCEPT ![ptr[u]] = new.data] /\ UNCHANGED status
       ELSE /\ status' = [status EXCEPT ![ptr[u]] =
                             IF @ = "PENDING" THEN new.status ELSE @]
            /\ UNCHANGED response
    /\ undone' = [undone EXCEPT ![u] = @ \ {field}]
    /\ IF undone[u] = {field} THEN Goto(u, "store") ELSE UNCHANGED pc
    /\ UNCHANGED <<data, mutex, arg, ptr, readVars>>

\* updateFn assigns one field of the shared record.
Assign(u, field) ==
    LET new == Apply(RecordOf(ptr[u]), arg[u].fn) IN
    /\ pc[u] = "apply"
    /\ field \in undone[u]
    /\ IF field = "status"
       THEN status' = [status EXCEPT ![ptr[u]] = new.status] /\ UNCHANGED response
       ELSE response' = [response EXCEPT ![ptr[u]] = new.data] /\ UNCHANGED status
    /\ undone' = [undone EXCEPT ![u] = @ \ {field}]
    /\ IF undone[u] = {field} THEN Goto(u, "store") ELSE UNCHANGED pc
    /\ UNCHANGED <<data, mutex, arg, ptr, readVars>>

\* The pointer goes back into the map.
StoreBack(u) ==
    /\ pc[u] = "store"
    /\ data' = [data EXCEPT ![arg[u].trx] = ptr[u]]
    /\ Goto(u, "unlock")
    /\ UNCHANGED <<status, response, mutex, arg, ptr, undone, readVars>>

\* Deferred Unlock and return.
Unlock(u) ==
    /\ pc[u] = "unlock"
    /\ mutex' = [mutex EXCEPT ![arg[u].trx] = Free]
    /\ Goto(u, "idle")
    /\ arg' = [arg EXCEPT ![u] = NoCall]
    /\ ptr' = [ptr EXCEPT ![u] = NoRecord]
    /\ UNCHANGED <<recordVars, undone, readVars>>

-----------------------------------------------------------------------------
\* A poll of HandleTransaction: Load, then the status, then the response.

LookAt(r, l) == look' = [look EXCEPT ![r] = l]

ReadPointer(r, t) ==
    /\ look[r] = "load"
    /\ data[t] # NoRecord
    /\ seen' = [seen EXCEPT ![r] = [NothingSeen EXCEPT !.ptr = data[t]]]
    /\ LookAt(r, "status")
    /\ UNCHANGED <<recordVars, updateVars>>

\* A PENDING record is left for the next poll.
ReadStatus(r) ==
    LET s == status[seen[r].ptr] IN
    /\ look[r] = "status"
    /\ seen' = [seen EXCEPT ![r].status = s]
    /\ LookAt(r, IF s = "PENDING" THEN "load" ELSE "response")
    /\ UNCHANGED <<recordVars, updateVars>>

ReadResponse(r) ==
    /\ look[r] = "response"
    /\ seen' = [seen EXCEPT ![r].response = response[seen[r].ptr]]
    /\ LookAt(r, "done")
    /\ UNCHANGED <<recordVars, updateVars>>

-----------------------------------------------------------------------------
UpdateStep(u) ==
    \/ Lock(u) \/ LoadRecord(u) \/ StoreBack(u) \/ Unlock(u)
    \/ \E field \in {"status", "response"} : Assign(u, field)

Next ==
    \/ \E p \in Posts : Store(p)
    \/ \E u \in Updaters : \/ UpdateStep(u)
                           \/ \E t \in TrxIDs, f \in Updates : Begin(u, t, f)
    \/ \E r \in Readers : \/ \E t \in TrxIDs : ReadPointer(r, t)
                          \/ ReadStatus(r)
                          \/ ReadResponse(r)

Spec == Init /\ [][Next]_vars

\* A blocked Lock is served in the end: sync.Mutex does not starve.
FairSpec ==
    Spec /\ \A u \in Updaters : WF_vars(UpdateStep(u)) /\ SF_vars(Lock(u))

-----------------------------------------------------------------------------
(***************************************************************************)
(* Properties.                                                             *)
(***************************************************************************)

\* Updates of one record never mix: while nobody holds the mutex of its
\* key, a record's status is the one its response spells.
UpdatesDoNotMix ==
    \A p \in Posts :
        mutex[TrxOf[p]] = Free =>
            Consistent(RecordOf(p))

\* A mutex is locked only while its owner is inside an Update of that key:
\* no way out of Update, the error included, takes the lock along, which
\* would block every later Update of the transaction for good.
NoMutexLeaks ==
    \A t \in TrxIDs :
        mutex[t] # Free =>
            /\ pc[mutex[t]] \in {"load", "apply", "store", "unlock"}
            /\ arg[mutex[t]].trx = t

\* Every Update returns: no mutex is left locked, whichever way it ends.
UpdateReturns ==
    \A u \in Updaters : pc[u] = "lock" ~> pc[u] = "idle"

-----------------------------------------------------------------------------
\* To its callers the store is the atomic one: an Update takes effect at the
\* first assignment of updateFn.  Whoever looks under the mutex cannot tell
\* the difference, and who looks without it is ReadersSeeWholeRecords' case.
Begun(u) == pc[u] = "apply" /\ undone[u] # Assignments(arg[u].fn)

Stored(t) ==
    IF data[t] = NoRecord THEN NoTx
    ELSE IF mutex[t] # Free /\ Begun(mutex[t])
    THEN Apply(RecordOf(data[t]), arg[mutex[t]].fn)
    ELSE RecordOf(data[t])

CallOf(u) ==
    IF pc[u] = "idle" THEN "idle"
    ELSE IF pc[u] \in {"lock", "load"} \/ (pc[u] = "apply" /\ ~Begun(u))
    THEN "pending"
    ELSE IF ptr[u] = NoRecord THEN "error" ELSE "ok"

Atomic == INSTANCE AtomicStore WITH
    Clients <- Updaters,
    db <- [t \in TrxIDs |-> Stored(t)],
    call <- [u \in Updaters |-> CallOf(u)]

\* Every Update is one indivisible step on the record, and one that returns
\* nil took place.  This needs unique trx_ids: otherwise StoreBack puts the
\* record it loaded over one that Store put there meanwhile, and that
\* transaction is gone.
ImplementsAtomicStore == Atomic!Spec

-----------------------------------------------------------------------------
\* internal/store/store.go:18: "thread-safe operations", so who reads an
\* outcome finds the response that goes with it.
ReadersSeeWholeRecords ==
    \A r \in Readers :
        look[r] = "done" /\ seen[r].status \in {"SUCCESS", "FAILED"} =>
            seen[r].response # NoData
=============================================================================
