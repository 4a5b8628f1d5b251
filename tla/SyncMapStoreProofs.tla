------------------------- MODULE SyncMapStoreProofs -------------------------
(***************************************************************************)
(* Proofs about SyncMapStore, for any keys, records, updates and numbers   *)
(* of goroutines.                                                          *)
(***************************************************************************)
EXTENDS SyncMapStore, TLAPS

Call == [trx : TrxIDs, fn : Updates]
Fields == {"status", "response"}
Locked == {"load", "apply", "store", "unlock"}

TypeInv ==
    /\ data \in [TrxIDs -> Posts \union {NoRecord}]
    /\ status \in [Posts -> TransactionStatus]
    /\ response \in [Posts -> EDCResponse \union {NoData}]
    /\ mutex \in [TrxIDs -> Updaters \union {Free}]
    /\ pc \in [Updaters -> {"idle", "lock"} \union Locked]
    /\ arg \in [Updaters -> Call \union {NoCall}]
    /\ ptr \in [Updaters -> Posts \union {NoRecord}]
    /\ undone \in [Updaters -> SUBSET Fields]

\* A record lies under its own key.
KeyInv == \A t \in TrxIDs : data[t] # NoRecord => TrxOf[data[t]] = t

\* Whoever is past Lock holds the mutex of its key.
LockInv ==
    \A u \in Updaters :
        /\ pc[u] # "idle" => arg[u] \in Call
        /\ pc[u] \in Locked => mutex[arg[u].trx] = u

\* An update function runs on a record of the key it holds; one that has
\* assigned one field of an answer left that field as the answer spells it.
ApplyInv ==
    \A u \in Updaters :
        /\ pc[u] \in {"apply", "store"} =>
              ptr[u] \in Posts /\ TrxOf[ptr[u]] = arg[u].trx
        /\ pc[u] = "apply" /\ arg[u].fn = Timeout => undone[u] = {"status"}
        /\ pc[u] = "apply" /\ arg[u].fn # Timeout =>
              /\ undone[u] = {"status"} => response[ptr[u]] = arg[u].fn
              /\ undone[u] = {"response"} => status[ptr[u]] = StatusFor(arg[u].fn)

Applying(p) == \E u \in Updaters : pc[u] = "apply" /\ ptr[u] = p

\* Only an update function in progress leaves a record mixed.
MixInv == \A p \in Posts : ~Applying(p) => Consistent(RecordOf(p))

IInv == TypeInv /\ KeyInv /\ LockInv /\ ApplyInv /\ MixInv

-----------------------------------------------------------------------------
\* No two update functions run on one record.
LEMMA OneApplies ==
    ASSUME LockInv, ApplyInv, NEW u \in Updaters, NEW v \in Updaters,
           pc[u] = "apply", pc[v] = "apply", ptr[u] = ptr[v]
    PROVE  u = v
  <1>1. mutex[arg[u].trx] = u /\ mutex[arg[v].trx] = v
    BY DEF LockInv, Locked
  <1>2. arg[u].trx = arg[v].trx
    BY DEF ApplyInv
  <1> QED
    BY <1>1, <1>2

LEMMA AnswersSpellOutcomes ==
    ASSUME NEW f \in Updates
    PROVE  f # Timeout => f \in EDCResponse /\ f # NoData
                          /\ StatusFor(f) \in {"SUCCESS", "FAILED"}
  BY SentinelAssumption DEF Updates, StatusFor

LEMMA InitInv == Init => IInv
  <1> SUFFICES ASSUME Init PROVE IInv
    OBVIOUS
  <1>1. TypeInv
    BY DEF Init, TypeInv, TransactionStatus, Fields
  <1>2. KeyInv /\ LockInv /\ ApplyInv
    BY DEF Init, KeyInv, LockInv, ApplyInv, Locked
  <1>3. ASSUME NEW p \in Posts PROVE Consistent(RecordOf(p))
    BY DEF Init, RecordOf, Consistent
  <1> QED
    BY <1>1, <1>2, <1>3 DEF IInv, MixInv

\* Whatever leaves the records, and the updates that run on them, alone.
LEMMA MixKept ==
    ASSUME MixInv, UNCHANGED <<status, response>>,
           \A p \in Posts : Applying(p) => Applying(p)'
    PROVE  MixInv'
  BY DEF MixInv, RecordOf

LEMMA AssignInv ==
    ASSUME IInv, NEW u \in Updaters, NEW field \in Fields, Assign(u, field)
    PROVE  IInv'
  <1> DEFINE p == ptr[u]
             f == arg[u].fn
  <1>1. /\ pc[u] = "apply" /\ field \in undone[u]
        /\ UNCHANGED <<data, mutex, arg, ptr, readVars>>
        /\ undone' = [undone EXCEPT ![u] = undone[u] \ {field}]
        /\ pc' = IF undone[u] = {field} THEN [pc EXCEPT ![u] = "store"] ELSE pc
    BY DEF Assign, Goto
  <1>2. p \in Posts /\ TrxOf[p] = arg[u].trx /\ f \in Updates
        /\ arg[u] \in Call
    BY <1>1 DEF IInv, ApplyInv, LockInv, Call
  <1>3. /\ field = "status" =>
              /\ status' = [status EXCEPT ![p] = IF f = Timeout THEN "TIMEOUT"
                                                 ELSE StatusFor(f)]
              /\ response' = response
        /\ field = "response" =>
              /\ response' = [response EXCEPT ![p] = IF f = Timeout THEN response[p]
                                                     ELSE f]
              /\ status' = status
    BY DEF Assign, Apply, Fields, RecordOf
  <1>4. f # Timeout => /\ f \in EDCResponse /\ f # NoData
                       /\ StatusFor(f) \in {"SUCCESS", "FAILED"}
    BY <1>2, AnswersSpellOutcomes
  <1> HIDE DEF p, f
  <1>5. TypeInv'
    <2>1. status' \in [Posts -> TransactionStatus]
      BY <1>2, <1>3, <1>4 DEF IInv, TypeInv, TransactionStatus, Fields
    <2>2. response' \in [Posts -> EDCResponse \union {NoData}]
      BY <1>2, <1>3, <1>4 DEF IInv, TypeInv, Fields
    <2>3. /\ pc' \in [Updaters -> {"idle", "lock"} \union Locked]
          /\ undone' \in [Updaters -> SUBSET Fields]
      BY <1>1 DEF IInv, TypeInv, Locked
    <2> QED
      BY <1>1, <2>1, <2>2, <2>3 DEF IInv, TypeInv
  <1>6. KeyInv' /\ LockInv'
    BY <1>1 DEF IInv, TypeInv, KeyInv, LockInv, Locked
  <1>7. undone[u] \in SUBSET Fields
    BY DEF IInv, TypeInv
  <1>8. ApplyInv'
    <2> SUFFICES ASSUME NEW v \in Updaters
                 PROVE  /\ pc'[v] \in {"apply", "store"} =>
                              ptr[v] \in Posts /\ TrxOf[ptr[v]] = arg[v].trx
                        /\ pc'[v] = "apply" /\ arg[v].fn = Timeout =>
                              undone'[v] = {"status"}
                        /\ pc'[v] = "apply" /\ arg[v].fn # Timeout =>
                              /\ undone'[v] = {"status"} =>
                                    response'[ptr[v]] = arg[v].fn
                              /\ undone'[v] = {"response"} =>
                                    status'[ptr[v]] = StatusFor(arg[v].fn)
      BY <1>1 DEF ApplyInv
    <2>1. CASE v # u
      <3>1. pc'[v] = pc[v] /\ undone'[v] = undone[v]
        BY <1>1, <2>1 DEF IInv, TypeInv
      <3>2. pc[v] = "apply" => ptr[v] # p
        BY <1>1, <2>1, OneApplies DEF IInv, p
      <3>3. pc[v] = "apply" => status'[ptr[v]] = status[ptr[v]]
                               /\ response'[ptr[v]] = response[ptr[v]]
        BY <1>3, <3>2 DEF IInv, TypeInv, Fields, ApplyInv
      <3> QED
        BY <3>1, <3>3 DEF IInv, ApplyInv
    <2>2. CASE v = u
      <3>1. ptr[v] = p /\ arg[v].fn = f
        BY <2>2 DEF p, f
      <3>2. undone'[v] = undone[u] \ {field}
        BY <1>1, <2>2 DEF IInv, TypeInv
      <3>3. pc'[v] = "apply" => undone[u] # {field}
        BY <1>1, <2>2 DEF IInv, TypeInv
      <3>4. pc'[v] = "apply" => f # Timeout
        BY <1>1, <3>3, <2>2 DEF IInv, ApplyInv, f
      <3>5. f # Timeout => /\ field = "status" => status'[p] = StatusFor(f)
                           /\ field = "response" => response'[p] = f
        BY <1>2, <1>3 DEF IInv, TypeInv
      <3>6. /\ undone'[v] = {"status"} => field = "response"
            /\ undone'[v] = {"response"} => field = "status"
        BY <1>7, <3>2 DEF Fields
      <3> QED
        BY <1>2, <2>2, <3>1, <3>4, <3>5, <3>6
    <2> QED
      BY <2>1, <2>2
  <1>9. MixInv'
    <2> SUFFICES ASSUME NEW q \in Posts, ~Applying(q)'
                 PROVE  Consistent([post |-> q, status |-> status'[q],
                                    data |-> response'[q]])
      BY DEF MixInv, RecordOf
    <2>1. CASE q # p
      <3>1. status'[q] = status[q] /\ response'[q] = response[q]
        BY <1>3, <2>1 DEF IInv, TypeInv, Fields
      <3>2. ~Applying(q)
        <4>1. ASSUME NEW v \in Updaters, pc[v] = "apply", ptr[v] = q PROVE FALSE
          <5>1. v # u
            BY <2>1, <4>1 DEF p
          <5>2. pc'[v] = "apply" /\ ptr'[v] = q
            BY <1>1, <4>1, <5>1 DEF IInv, TypeInv
          <5> QED
            BY <5>2 DEF Applying
        <4> QED
          BY <4>1 DEF Applying
      <3> QED
        BY <3>1, <3>2 DEF IInv, MixInv, RecordOf
    <2>2. CASE q = p
      <3>1. undone[u] = {field}
        BY <1>1, <2>2 DEF Applying, p
      <3>2. CASE f = Timeout
        <4>1. field = "status"
          BY <1>1, <3>1, <3>2 DEF IInv, ApplyInv, f
        <4>2. status'[q] = "TIMEOUT"
          BY <1>2, <1>3, <2>2, <3>2, <4>1 DEF IInv, TypeInv
        <4> QED
          BY <4>2 DEF Consistent
      <3>3. CASE f # Timeout
        <4>1. status'[q] = StatusFor(f) /\ response'[q] = f
          <5>1. CASE field = "status"
            BY <1>1, <1>2, <1>3, <2>2, <3>1, <3>3, <5>1
               DEF IInv, TypeInv, ApplyInv, p, f
          <5>2. CASE field = "response"
            BY <1>1, <1>2, <1>3, <2>2, <3>1, <3>3, <5>2
               DEF IInv, TypeInv, ApplyInv, p, f
          <5> QED
            BY <5>1, <5>2 DEF Fields
        <4> QED
          BY <1>4, <3>3, <4>1 DEF Consistent
      <3> QED
        BY <3>2, <3>3
    <2> QED
      BY <2>1, <2>2
  <1> QED
    BY <1>5, <1>6, <1>8, <1>9 DEF IInv

LEMMA InvStep == IInv /\ [Next]_vars => IInv'
  <1> SUFFICES ASSUME IInv, [Next]_vars PROVE IInv'
    OBVIOUS
  <1> USE DEF recordVars, updateVars
  <1>0. TypeInv /\ KeyInv /\ LockInv /\ ApplyInv /\ MixInv
    BY DEF IInv
  <1>1. ASSUME NEW p \in Posts, Store(p) PROVE IInv'
    <2>1. /\ data' = [data EXCEPT ![TrxOf[p]] = p]
          /\ UNCHANGED <<status, response, updateVars>>
      BY <1>1 DEF Store
    <2>2. TypeInv' /\ KeyInv'
      BY <1>0, <2>1, TrxOfAssumption DEF TypeInv, KeyInv
    <2> QED
      BY <1>0, <2>1, <2>2, MixKept DEF IInv, LockInv, ApplyInv, Applying
  <1>2. ASSUME NEW u \in Updaters, NEW t \in TrxIDs, NEW f \in Updates, Begin(u, t, f)
        PROVE  IInv'
    <2>1. [trx |-> t, fn |-> f] \in Call
      BY DEF Call
    <2>2. TypeInv' /\ KeyInv' /\ LockInv'
      BY <1>0, <1>2, <2>1 DEF Begin, Goto, TypeInv, KeyInv, LockInv, Locked
    <2>3. ApplyInv'
      BY <1>0, <1>2 DEF Begin, Goto, TypeInv, ApplyInv
    <2>4. \A p \in Posts : Applying(p) => Applying(p)'
      BY <1>0, <1>2 DEF Begin, Goto, TypeInv, Applying
    <2> QED
      BY <1>0, <1>2, <2>2, <2>3, <2>4, MixKept DEF Begin, IInv
  <1>3. ASSUME NEW u \in Updaters, Lock(u) PROVE IInv'
    <2>1. arg[u] \in Call /\ arg[u].trx \in TrxIDs
      BY <1>0, <1>3 DEF Lock, LockInv, Call
    <2>2. TypeInv' /\ KeyInv'
      BY <1>0, <1>3, <2>1 DEF Lock, Goto, TypeInv, KeyInv, Locked
    <2>3. LockInv'
      <3>1. ASSUME NEW v \in Updaters, v # u, pc[v] \in Locked
            PROVE  arg[v].trx # arg[u].trx
        BY <1>0, <1>3, <3>1, SyncMapAssumption DEF Lock, LockInv
      <3> QED
        BY <1>0, <1>3, <2>1, <3>1 DEF Lock, Goto, TypeInv, LockInv, Locked
    <2>4. ApplyInv'
      BY <1>0, <1>3 DEF Lock, Goto, TypeInv, ApplyInv
    <2>5. \A p \in Posts : Applying(p) => Applying(p)'
      BY <1>0, <1>3 DEF Lock, Goto, TypeInv, Applying
    <2> QED
      BY <1>0, <1>3, <2>2, <2>3, <2>4, <2>5, MixKept DEF Lock, IInv
  <1>4. ASSUME NEW u \in Updaters, LoadRecord(u) PROVE IInv'
    <2>1. /\ pc[u] = "load"
          /\ UNCHANGED <<recordVars, mutex, arg, readVars>>
          /\ arg[u] \in Call /\ arg[u].trx \in TrxIDs
      BY <1>0, <1>4 DEF LoadRecord, LockInv, Call
    <2>2. \A p \in Posts : Applying(p) => Applying(p)'
      BY <1>0, <1>4 DEF LoadRecord, Goto, TypeInv, Applying
    <2>3. CASE data[arg[u].trx] = NoRecord
      <3>1. pc' = [pc EXCEPT ![u] = "unlock"] /\ UNCHANGED <<ptr, undone>>
        BY <1>4, <2>3 DEF LoadRecord, Goto
      <3>2. TypeInv' /\ KeyInv' /\ LockInv'
        BY <1>0, <2>1, <3>1 DEF TypeInv, KeyInv, LockInv, Locked
      <3>3. ApplyInv'
        BY <1>0, <2>1, <3>1 DEF TypeInv, ApplyInv
      <3> QED
        BY <1>0, <2>1, <2>2, <3>2, <3>3, MixKept DEF IInv
    <2>4. CASE data[arg[u].trx] # NoRecord
      <3> DEFINE p == data[arg[u].trx]
                 new == Assignments(arg[u].fn)
      <3>1. /\ pc' = [pc EXCEPT ![u] = "apply"]
            /\ ptr' = [ptr EXCEPT ![u] = p]
            /\ undone' = [undone EXCEPT ![u] = new]
        BY <1>4, <2>4 DEF LoadRecord, Goto
      <3>2. p \in Posts /\ TrxOf[p] = arg[u].trx
        BY <1>0, <2>1, <2>4 DEF TypeInv, KeyInv
      <3>3. /\ new \in SUBSET Fields
            /\ arg[u].fn = Timeout => new = {"status"}
            /\ arg[u].fn # Timeout => new # {"status"} /\ new # {"response"}
        BY DEF Fields, Assignments
      <3> HIDE DEF p, new
      <3>4. TypeInv' /\ KeyInv'
        BY <1>0, <2>1, <3>1, <3>2, <3>3 DEF TypeInv, KeyInv, Locked
      <3>5. LockInv'
        BY <1>0, <2>1, <3>1 DEF TypeInv, LockInv, Locked
      <3>6. ApplyInv'
        BY <1>0, <2>1, <3>1, <3>2, <3>3 DEF TypeInv, ApplyInv
      <3> QED
        BY <1>0, <2>1, <2>2, <3>4, <3>5, <3>6, MixKept DEF IInv
    <2> QED
      BY <2>3, <2>4
  <1>5. ASSUME NEW u \in Updaters, StoreBack(u) PROVE IInv'
    <2>1. /\ ptr[u] \in Posts /\ TrxOf[ptr[u]] = arg[u].trx
          /\ arg[u].trx \in TrxIDs
      BY <1>0, <1>5 DEF StoreBack, ApplyInv, LockInv, Call
    <2>2. TypeInv' /\ KeyInv'
      BY <1>0, <1>5, <2>1 DEF StoreBack, Goto, TypeInv, KeyInv, Locked
    <2>3. LockInv' /\ ApplyInv'
      BY <1>0, <1>5 DEF StoreBack, Goto, TypeInv, LockInv, ApplyInv, Locked
    <2>4. \A p \in Posts : Applying(p) => Applying(p)'
      BY <1>0, <1>5 DEF StoreBack, Goto, TypeInv, Applying
    <2> QED
      BY <1>0, <1>5, <2>2, <2>3, <2>4, MixKept DEF StoreBack, IInv
  <1>6. ASSUME NEW u \in Updaters, Unlock(u) PROVE IInv'
    <2>1. arg[u].trx \in TrxIDs /\ mutex[arg[u].trx] = u
      BY <1>0, <1>6 DEF Unlock, LockInv, Call, Locked
    <2>2. TypeInv' /\ KeyInv'
      BY <1>0, <1>6 DEF Unlock, Goto, TypeInv, KeyInv, Locked
    <2>3. LockInv'
      <3>1. ASSUME NEW v \in Updaters, v # u, pc[v] \in Locked
            PROVE  arg[v].trx # arg[u].trx
        BY <1>0, <2>1, <3>1 DEF LockInv
      <3> QED
        BY <1>0, <1>6, <3>1 DEF Unlock, Goto, TypeInv, LockInv, Locked
    <2>4. ApplyInv'
      BY <1>0, <1>6 DEF Unlock, Goto, TypeInv, ApplyInv
    <2>5. \A p \in Posts : Applying(p) => Applying(p)'
      BY <1>0, <1>6 DEF Unlock, Goto, TypeInv, Applying
    <2> QED
      BY <1>0, <1>6, <2>2, <2>3, <2>4, <2>5, MixKept DEF Unlock, IInv
  <1>7. ASSUME UNCHANGED <<recordVars, updateVars>> PROVE IInv'
    BY <1>0, <1>7, MixKept
       DEF IInv, TypeInv, KeyInv, LockInv, ApplyInv, Applying
  <1>8. ASSUME NEW r \in Readers,
               \/ \E t \in TrxIDs : ReadPointer(r, t)
               \/ ReadStatus(r)
               \/ ReadResponse(r)
        PROVE  IInv'
    BY <1>7, <1>8 DEF ReadPointer, ReadStatus, ReadResponse
  <1>9. CASE UNCHANGED vars
    BY <1>7, <1>9 DEF vars
  <1> QED
    BY <1>1, <1>2, <1>3, <1>4, <1>5, <1>6, <1>8, <1>9, AssignInv
       DEF Next, UpdateStep, Fields

\* However many Updates of one record run at once, and whatever Store puts
\* in the map meanwhile, their assignments never mix: once the mutex is free
\* again the status is the one the response spells.
THEOREM NoMixing == Spec => []UpdatesDoNotMix
  <1>1. IInv => UpdatesDoNotMix
    <2> SUFFICES ASSUME IInv, NEW p \in Posts, mutex[TrxOf[p]] = Free
                 PROVE  Consistent(RecordOf(p))
      BY DEF UpdatesDoNotMix, RecordOf
    <2>1. ASSUME NEW u \in Updaters, pc[u] = "apply", ptr[u] = p PROVE FALSE
      <3>1. mutex[arg[u].trx] = u /\ arg[u].trx = TrxOf[p]
        BY <2>1 DEF IInv, LockInv, ApplyInv, Locked
      <3> QED
        BY <3>1, SyncMapAssumption
    <2> QED
      BY <2>1 DEF IInv, MixInv, Applying
  <1> QED
    BY <1>1, InitInv, InvStep, PTL DEF Spec

-----------------------------------------------------------------------------
\* Only an Update past Load has a record, and it has all or some of its
\* assignments still to make.
PtrInv ==
    \A u \in Updaters :
        /\ pc[u] \in {"idle", "lock", "load"} => ptr[u] = NoRecord
        /\ pc[u] = "apply" => undone[u] \subseteq Assignments(arg[u].fn)

OwnerInv == NoMutexLeaks /\ PtrInv

LEMMA OwnerInit == Init => OwnerInv
  BY DEF Init, OwnerInv, NoMutexLeaks, PtrInv

LEMMA OwnerStep == IInv /\ OwnerInv /\ [Next]_vars => OwnerInv'
  <1> SUFFICES ASSUME IInv, OwnerInv, [Next]_vars PROVE OwnerInv'
    OBVIOUS
  <1> USE DEF recordVars, updateVars
  <1>0. TypeInv /\ LockInv /\ NoMutexLeaks /\ PtrInv
    BY DEF IInv, OwnerInv
  <1>1. ASSUME NEW p \in Posts, Store(p) PROVE OwnerInv'
    BY <1>0, <1>1 DEF Store, OwnerInv, NoMutexLeaks, PtrInv
  <1>2. ASSUME NEW u \in Updaters, NEW t \in TrxIDs, NEW f \in Updates, Begin(u, t, f)
        PROVE  OwnerInv'
    <2>1. NoMutexLeaks'
      BY <1>0, <1>2 DEF Begin, Goto, TypeInv, NoMutexLeaks
    <2>2. PtrInv'
      BY <1>0, <1>2 DEF Begin, Goto, TypeInv, PtrInv
    <2> QED
      BY <2>1, <2>2 DEF OwnerInv
  <1>3. ASSUME NEW u \in Updaters, Lock(u) PROVE OwnerInv'
    <2>1. NoMutexLeaks'
      BY <1>0, <1>3 DEF Lock, Goto, TypeInv, NoMutexLeaks
    <2>2. PtrInv'
      BY <1>0, <1>3 DEF Lock, Goto, TypeInv, PtrInv
    <2> QED
      BY <2>1, <2>2 DEF OwnerInv
  <1>4. ASSUME NEW u \in Updaters, LoadRecord(u) PROVE OwnerInv'
    <2>1. NoMutexLeaks'
      BY <1>0, <1>4 DEF LoadRecord, Goto, TypeInv, NoMutexLeaks
    <2>2. PtrInv'
      BY <1>0, <1>4 DEF LoadRecord, Goto, TypeInv, PtrInv
    <2> QED
      BY <2>1, <2>2 DEF OwnerInv
  <1>5. ASSUME NEW u \in Updaters, NEW field \in Fields, Assign(u, field)
        PROVE  OwnerInv'
    <2>1. NoMutexLeaks'
      BY <1>0, <1>5 DEF Assign, Goto, TypeInv, NoMutexLeaks
    <2>2. PtrInv'
      BY <1>0, <1>5 DEF Assign, Goto, TypeInv, PtrInv
    <2> QED
      BY <2>1, <2>2 DEF OwnerInv
  <1>6. ASSUME NEW u \in Updaters, StoreBack(u) PROVE OwnerInv'
    <2>1. NoMutexLeaks'
      BY <1>0, <1>6 DEF StoreBack, Goto, TypeInv, NoMutexLeaks
    <2>2. PtrInv'
      BY <1>0, <1>6 DEF StoreBack, Goto, TypeInv, PtrInv
    <2> QED
      BY <2>1, <2>2 DEF OwnerInv
  <1>7. ASSUME NEW u \in Updaters, Unlock(u) PROVE OwnerInv'
    <2>1. mutex[arg[u].trx] = u /\ arg[u].trx \in TrxIDs
      BY <1>0, <1>7 DEF Unlock, LockInv, Locked, Call
    <2>2. NoMutexLeaks'
      <3> SUFFICES ASSUME NEW t \in TrxIDs, mutex'[t] # Free
                   PROVE  /\ pc'[mutex'[t]] \in {"load", "apply", "store", "unlock"}
                          /\ arg'[mutex'[t]].trx = t
        BY DEF NoMutexLeaks
      <3>1. t # arg[u].trx /\ mutex'[t] = mutex[t]
        BY <1>0, <1>7, <2>1 DEF Unlock, TypeInv
      <3>2. mutex[t] # u
        BY <1>0, <3>1, <1>7 DEF Unlock, NoMutexLeaks
      <3> QED
        BY <1>0, <1>7, <3>1, <3>2 DEF Unlock, Goto, TypeInv, NoMutexLeaks
    <2>3. PtrInv'
      BY <1>0, <1>7 DEF Unlock, Goto, TypeInv, PtrInv
    <2> QED
      BY <2>2, <2>3 DEF OwnerInv
  <1>8. CASE UNCHANGED <<recordVars, updateVars>>
    BY <1>0, <1>8 DEF OwnerInv, NoMutexLeaks, PtrInv
  <1>9. ASSUME NEW r \in Readers,
               \/ \E t \in TrxIDs : ReadPointer(r, t)
               \/ ReadStatus(r)
               \/ ReadResponse(r)
        PROVE  UNCHANGED <<recordVars, updateVars>>
    BY <1>9 DEF ReadPointer, ReadStatus, ReadResponse
  <1> QED
    BY <1>1, <1>2, <1>3, <1>4, <1>5, <1>6, <1>7, <1>8, <1>9
       DEF Next, UpdateStep, Fields, vars

\* No way out of Update leaves the mutex of its key locked, for any number
\* of keys and goroutines.
THEOREM MutexesAreReleased == Spec => []NoMutexLeaks
  BY InitInv, InvStep, OwnerInit, OwnerStep, PTL DEF Spec, OwnerInv

-----------------------------------------------------------------------------
(***************************************************************************)
(* The refinement of AtomicStore, for trx_ids that are not shared.         *)
(***************************************************************************)

\* Nobody replaces a record that an Update works on, and a record that is
\* not in the map yet is as its POST made it.
UniqueInv ==
    /\ \A u \in Updaters :
          pc[u] \in {"apply", "store"} => data[arg[u].trx] = ptr[u]
    /\ \A p \in Posts :
          data[TrxOf[p]] # p => status[p] = "PENDING" /\ response[p] = NoData

LEMMA UniqueInit == Init => UniqueInv
  BY DEF Init, UniqueInv

LEMMA UniqueStep ==
    UniqueTrxIDs /\ IInv /\ UniqueInv /\ [Next]_vars => UniqueInv'
  <1> SUFFICES ASSUME UniqueTrxIDs, IInv, UniqueInv, [Next]_vars PROVE UniqueInv'
    OBVIOUS
  <1> USE DEF recordVars, updateVars
  <1>0. TypeInv /\ KeyInv /\ LockInv /\ ApplyInv
    BY DEF IInv
  <1>1. ASSUME NEW p \in Posts, Store(p) PROVE UniqueInv'
    <2>1. /\ \A u \in Updaters : ptr[u] # p
          /\ data' = [data EXCEPT ![TrxOf[p]] = p]
          /\ UNCHANGED <<status, response, pc, arg, ptr>>
          /\ TrxOf[p] \in TrxIDs
      BY <1>1, TrxOfAssumption DEF Store
    <2>2. ASSUME NEW u \in Updaters, pc[u] \in {"apply", "store"}
          PROVE  arg[u].trx # TrxOf[p]
      BY <1>0, <2>1, <2>2 DEF ApplyInv, UniqueTrxIDs
    <2>3. ASSUME NEW u \in Updaters, pc'[u] \in {"apply", "store"}
          PROVE  data'[arg'[u].trx] = ptr'[u]
      BY <1>0, <2>1, <2>2, <2>3 DEF UniqueInv, TypeInv, LockInv, Call
    <2>4. ASSUME NEW q \in Posts, data'[TrxOf[q]] # q
          PROVE  status'[q] = "PENDING" /\ response'[q] = NoData
      BY <1>0, <2>1, <2>4, TrxOfAssumption DEF UniqueInv, UniqueTrxIDs, TypeInv
    <2> QED
      BY <2>3, <2>4 DEF UniqueInv
  <1>2. ASSUME NEW u \in Updaters, NEW t \in TrxIDs, NEW f \in Updates, Begin(u, t, f)
        PROVE  UniqueInv'
    BY <1>0, <1>2 DEF Begin, Goto, TypeInv, UniqueInv
  <1>3. ASSUME NEW u \in Updaters, Lock(u) PROVE UniqueInv'
    BY <1>0, <1>3 DEF Lock, Goto, TypeInv, UniqueInv
  <1>4. ASSUME NEW u \in Updaters, LoadRecord(u) PROVE UniqueInv'
    BY <1>0, <1>4 DEF LoadRecord, Goto, TypeInv, UniqueInv
  <1>5. ASSUME NEW u \in Updaters, NEW field \in Fields, Assign(u, field)
        PROVE  UniqueInv'
    <2>1. /\ pc[u] = "apply" /\ ptr[u] \in Posts
          /\ data[TrxOf[ptr[u]]] = ptr[u]
      BY <1>0, <1>5 DEF Assign, ApplyInv, UniqueInv
    <2>2. /\ UNCHANGED <<data, arg, ptr>>
          /\ \A v \in Updaters : pc'[v] \in {"apply", "store"} =>
                                   pc[v] \in {"apply", "store"}
      BY <1>0, <1>5, <2>1 DEF Assign, Goto, TypeInv
    <2>3. \A q \in Posts : q # ptr[u] => status'[q] = status[q]
                                      /\ response'[q] = response[q]
      BY <1>0, <1>5 DEF Assign, TypeInv
    <2> QED
      BY <2>1, <2>2, <2>3 DEF UniqueInv
  <1>6. ASSUME NEW u \in Updaters, StoreBack(u) PROVE UniqueInv'
    <2>1. /\ pc[u] = "store" /\ data[arg[u].trx] = ptr[u] /\ arg[u].trx \in TrxIDs
      BY <1>0, <1>6 DEF StoreBack, UniqueInv, LockInv, Call
    <2>2. data' = data /\ UNCHANGED <<status, response, arg, ptr>>
      BY <1>0, <1>6, <2>1 DEF StoreBack, TypeInv
    <2>3. \A v \in Updaters : pc'[v] \in {"apply", "store"} =>
                               pc[v] \in {"apply", "store"}
      BY <1>0, <1>6 DEF StoreBack, Goto, TypeInv
    <2> QED
      BY <2>2, <2>3 DEF UniqueInv
  <1>7. ASSUME NEW u \in Updaters, Unlock(u) PROVE UniqueInv'
    BY <1>0, <1>7 DEF Unlock, Goto, TypeInv, UniqueInv
  <1>8. CASE UNCHANGED <<recordVars, updateVars>>
    BY <1>8 DEF UniqueInv
  <1>9. ASSUME NEW r \in Readers,
               \/ \E t \in TrxIDs : ReadPointer(r, t)
               \/ ReadStatus(r)
               \/ ReadResponse(r)
        PROVE  UNCHANGED <<recordVars, updateVars>>
    BY <1>9 DEF ReadPointer, ReadStatus, ReadResponse
  <1> QED
    BY <1>1, <1>2, <1>3, <1>4, <1>5, <1>6, <1>7, <1>8, <1>9
       DEF Next, UpdateStep, Fields, vars

-----------------------------------------------------------------------------
\* The two sides of the mapping use one set of data.
LEMMA SameData ==
    /\ \A p : Atomic!NewTransaction(p) = NewTransaction(p)
    /\ \A tx, f : Atomic!Apply(tx, f) = Apply(tx, f)
    /\ Atomic!Updates = Updates
  BY DEF Atomic!NewTransaction, NewTransaction, Atomic!Apply, Apply,
         Atomic!StatusFor, StatusFor, Atomic!SuccessWords, SuccessWords,
         Atomic!Updates, Updates, Atomic!EDCResponse, EDCResponse

\* No step but an assignment shows in the stored records, as long as the
\* mutex only changes hands between updates that have not begun.
LEMMA StoredKept ==
    ASSUME NEW t \in TrxIDs, mutex[t] = Free \/ mutex[t] \in Updaters,
           mutex'[t] = Free \/ mutex'[t] \in Updaters,
           UNCHANGED <<data, status, response>>,
           \A v \in Updaters : /\ Begun(v)' <=> Begun(v)
                               /\ Begun(v) => arg'[v] = arg[v],
           \/ mutex'[t] = mutex[t]
           \/ mutex[t] = Free /\ ~Begun(mutex'[t])
           \/ mutex'[t] = Free /\ ~Begun(mutex[t])
    PROVE  Stored(t)' = Stored(t)
  <1>1. \A p : RecordOf(p)' = RecordOf(p)
    BY DEF RecordOf
  <1>2. (mutex[t] # Free /\ Begun(mutex[t]))' <=>
           (mutex[t] # Free /\ Begun(mutex[t]))
    BY DEF Begun
  <1>3. mutex[t] # Free /\ Begun(mutex[t]) =>
           arg'[mutex'[t]] = arg[mutex[t]]
    BY <1>2
  <1> QED
    BY <1>1, <1>2, <1>3 DEF Stored

\* An update function writes what it returns, whatever the rest of the
\* record holds by then.
LEMMA AnswersOverwrite ==
    ASSUME NEW p, NEW f, f # Timeout
    PROVE  Apply(RecordOf(p), f) = [post |-> p, status |-> StatusFor(f), data |-> f]
  BY DEF Apply, RecordOf

Stores == [t \in TrxIDs |-> Stored(t)]
Calls == [u \in Updaters |-> CallOf(u)]

\* The assignments of an Update are, all together, the application of its
\* function to the stored record, at the first of them.
LEMMA AssignRefines ==
    ASSUME UniqueTrxIDs, IInv, OwnerInv, UniqueInv,
           NEW u \in Updaters, NEW field \in Fields, Assign(u, field)
    PROVE  Atomic!Applied(u, "ok") \/ UNCHANGED <<Stores, Calls, arg>>
  <1> DEFINE p == ptr[u]
             f == arg[u].fn
             t == arg[u].trx
  <1>0. TypeInv /\ KeyInv /\ LockInv /\ ApplyInv /\ NoMutexLeaks /\ PtrInv
    BY DEF IInv, OwnerInv
  <1>1. /\ pc[u] = "apply" /\ field \in undone[u]
        /\ UNCHANGED <<data, mutex, arg, ptr>>
        /\ undone' = [undone EXCEPT ![u] = undone[u] \ {field}]
        /\ pc' = IF undone[u] = {field} THEN [pc EXCEPT ![u] = "store"] ELSE pc
        /\ field = "status" =>
              /\ status' = [status EXCEPT ![p] = Apply(RecordOf(p), f).status]
              /\ response' = response
        /\ field = "response" =>
              /\ response' = [response EXCEPT ![p] = Apply(RecordOf(p), f).data]
              /\ status' = status
    BY DEF Assign, Goto, Fields
  <1>2. /\ p \in Posts /\ t \in TrxIDs /\ f \in Updates /\ arg[u] \in Call
        /\ TrxOf[p] = t /\ data[t] = p /\ mutex[t] = u
        /\ undone[u] \in SUBSET Fields /\ undone[u] \subseteq Assignments(f)
    BY <1>0, <1>1 DEF ApplyInv, LockInv, Call, UniqueInv, Locked, TypeInv, PtrInv
  <1>3. p # NoRecord /\ u # Free
    BY <1>2, SyncMapAssumption
  <1>4. f # Timeout => /\ undone[u] = {"status"} => response[p] = f
                       /\ undone[u] = {"response"} => status[p] = StatusFor(f)
    BY <1>0, <1>1 DEF ApplyInv
  <1>5. f = Timeout => undone[u] = {"status"} /\ field = "status"
    BY <1>0, <1>1 DEF ApplyInv
  <1> HIDE DEF p, f, t
  <1>6. Begun(u)' <=> undone[u] # {field}
    <2>1. undone'[u] = undone[u] \ {field}
      BY <1>0, <1>1 DEF TypeInv
    <2>2. undone'[u] # Assignments(f)
      BY <1>1, <1>2, <2>1
    <2>3. pc'[u] = "apply" <=> undone[u] # {field}
      BY <1>0, <1>1 DEF TypeInv
    <2> QED
      BY <1>1, <2>2, <2>3 DEF Begun, f
  <1>7. ASSUME NEW q \in Posts, q # p
        PROVE  status'[q] = status[q] /\ response'[q] = response[q]
    BY <1>0, <1>1, <1>7 DEF Fields, TypeInv
  <1>8. ASSUME NEW s \in TrxIDs, s # t PROVE Stored(s)' = Stored(s)
    <2>1. data[s] # p
      BY <1>0, <1>2, <1>3, <1>8 DEF KeyInv
    <2>2. data[s] # NoRecord => RecordOf(data[s])' = RecordOf(data[s])
      BY <1>0, <1>1, <1>7, <2>1 DEF RecordOf, TypeInv
    <2>3. mutex[s] # Free => mutex[s] # u /\ mutex[s] \in Updaters
      BY <1>0, <1>8 DEF NoMutexLeaks, TypeInv, t
    <2>4. ASSUME NEW v \in Updaters, v # u PROVE Begun(v)' <=> Begun(v)
      BY <1>0, <1>1, <2>4 DEF Begun, TypeInv
    <2>5. mutex[s] # Free => (Begun(mutex[s])' <=> Begun(mutex[s]))
      BY <1>1, <2>3, <2>4 DEF Begun
    <2> QED
      BY <1>1, <2>2, <2>3, <2>5 DEF Stored
  <1>9. Stored(t) = IF Begun(u) THEN Apply(RecordOf(p), f) ELSE RecordOf(p)
    BY <1>2, <1>3 DEF Stored, f
  <1>10. Stored(t)' = IF Begun(u)' THEN Apply(RecordOf(p)', f) ELSE RecordOf(p)'
    BY <1>1, <1>2, <1>3 DEF Stored, f, t, p
  <1>11. Stored(t)' = Apply(RecordOf(p), f)
    <2>1. CASE f = Timeout
      <3>1. ~Begun(u)'
        BY <1>5, <1>6, <2>1
      <3>2. RecordOf(p)' = [RecordOf(p) EXCEPT !.status = "TIMEOUT"]
        <4>1. status'[p] = "TIMEOUT" /\ response'[p] = response[p]
          BY <1>0, <1>1, <1>2, <1>5, <2>1 DEF TypeInv, Apply, RecordOf
        <4> QED
          BY <1>1, <4>1 DEF RecordOf, p
      <3> QED
        BY <1>10, <2>1, <3>1, <3>2 DEF Apply
    <2>2. CASE f # Timeout
      <3>1. Apply(RecordOf(p), f) = [post |-> p, status |-> StatusFor(f), data |-> f]
        BY <2>2, AnswersOverwrite
      <3>2. Apply(RecordOf(p)', f) = [post |-> p, status |-> StatusFor(f), data |-> f]
        BY <1>1, <2>2 DEF Apply, RecordOf, p
      <3>3. ASSUME undone[u] = {field}
            PROVE  status'[p] = StatusFor(f) /\ response'[p] = f
        <4>1. CASE field = "status"
          BY <1>0, <1>1, <1>2, <1>4, <2>2, <3>1, <3>3, <4>1 DEF TypeInv
        <4>2. CASE field = "response"
          BY <1>0, <1>1, <1>2, <1>4, <2>2, <3>1, <3>3, <4>2 DEF TypeInv
        <4> QED
          BY <4>1, <4>2 DEF Fields
      <3> QED
        BY <1>1, <1>6, <1>10, <3>1, <3>2, <3>3 DEF RecordOf, p
    <2> QED
      BY <2>1, <2>2
  <1>12. CallOf(u) = IF Begun(u) THEN "ok" ELSE "pending"
    BY <1>1, <1>3 DEF CallOf, Begun, p
  <1>13. CallOf(u)' = "ok"
    <2>1. pc'[u] = IF undone[u] = {field} THEN "store" ELSE "apply"
      BY <1>0, <1>1 DEF TypeInv
    <2> QED
      BY <1>1, <1>3, <1>6, <2>1 DEF CallOf, p
  <1>14. ASSUME NEW v \in Updaters, v # u PROVE CallOf(v)' = CallOf(v)
    BY <1>0, <1>1, <1>14 DEF CallOf, Begun, TypeInv
  <1>15. CASE Begun(u)
    <2>1. Stores' = Stores
      <3>1. \A s \in TrxIDs : Stored(s)' = Stored(s)
        BY <1>1, <1>8, <1>9, <1>11, <1>15 DEF t
      <3> QED
        BY <3>1 DEF Stores
    <2>2. Calls' = Calls
      BY <1>12, <1>13, <1>14, <1>15 DEF Calls
    <2> QED
      BY <1>1, <2>1, <2>2
  <1>16. CASE ~Begun(u)
    <2>1. Stores[t] = RecordOf(p) /\ Stores[t] # NoTx
      <3>1. RecordOf(p) \in Transaction
        BY <1>0, <1>2 DEF RecordOf, Transaction, TypeInv
      <3> QED
        BY <1>2, <1>9, <1>16, <3>1, SentinelAssumption DEF Stores
    <2>2. Stores' = [Stores EXCEPT ![t] = Apply(Stores[t], f)]
      <3>1. \A s \in TrxIDs :
                Stored(s)' = IF s = t THEN Apply(Stores[t], f) ELSE Stored(s)
        BY <1>1, <1>8, <1>11, <2>1 DEF t
      <3> QED
        BY <3>1 DEF Stores
    <2>3. Calls[u] = "pending" /\ Calls' = [Calls EXCEPT ![u] = "ok"]
      BY <1>12, <1>13, <1>14, <1>16 DEF Calls
    <2> QED
      BY <1>1, <2>1, <2>2, <2>3, SameData DEF Atomic!Applied, Stores, Calls, f, t
  <1> QED
    BY <1>15, <1>16

LEMMA MapRefinementInit == Init => Atomic!Init
  BY DEF Init, Atomic!Init, Stored, CallOf

LEMMA MapRefinementStep ==
    UniqueTrxIDs /\ IInv /\ OwnerInv /\ UniqueInv /\ [Next]_vars
        => [Atomic!Next]_(Atomic!vars)
  <1> SUFFICES ASSUME UniqueTrxIDs, IInv, OwnerInv, UniqueInv, [Next]_vars
               PROVE  Atomic!Next \/ UNCHANGED <<Stores, Calls, arg>>
    BY DEF Atomic!vars, Stores, Calls
  <1> USE DEF recordVars, updateVars
  <1>0. TypeInv /\ KeyInv /\ LockInv /\ ApplyInv /\ NoMutexLeaks /\ PtrInv
    BY DEF IInv, OwnerInv
  <1>a. \A t \in TrxIDs : mutex[t] = Free \/ mutex[t] \in Updaters
    BY <1>0 DEF TypeInv
  <1>b. \A t \in TrxIDs : mutex'[t] = Free \/ mutex'[t] \in Updaters
    BY InvStep DEF IInv, TypeInv
  <1>c. \A u \in Updaters : pc[u] = "apply" => ptr[u] # NoRecord
    BY <1>0, SyncMapAssumption DEF ApplyInv
  <1>1. ASSUME NEW p \in Posts, Store(p) PROVE Atomic!Next
    <2> DEFINE t == TrxOf[p]
    <2>1. /\ t \in TrxIDs /\ data[t] # p
          /\ \A u \in Updaters : ptr[u] # p
          /\ data' = [data EXCEPT ![t] = p]
          /\ UNCHANGED <<status, response, mutex, pc, arg, ptr, undone>>
      BY <1>1, TrxOfAssumption DEF Store
    <2> HIDE DEF t
    <2>2. Calls' = Calls
      BY <2>1 DEF Calls, CallOf, Begun
    <2>3. ASSUME NEW s \in TrxIDs, s # t PROVE Stored(s)' = Stored(s)
      BY <1>0, <2>1, <2>3 DEF Stored, RecordOf, Begun, TypeInv
    <2>4. Stored(t)' = NewTransaction(p)
      <3>1. ~(mutex[t] # Free /\ Begun(mutex[t]))
        <4> SUFFICES ASSUME mutex[t] # Free, Begun(mutex[t]) PROVE FALSE
          OBVIOUS
        <4> DEFINE u == mutex[t]
        <4>1. u \in Updaters /\ pc[u] = "apply" /\ arg[u].trx = t
          BY <1>0, <2>1 DEF NoMutexLeaks, Begun, TypeInv
        <4>2. ptr[u] \in Posts /\ TrxOf[ptr[u]] = t
          BY <1>0, <4>1 DEF ApplyInv
        <4> QED
          BY <2>1, <4>1, <4>2 DEF UniqueTrxIDs, t
      <3>2. status[p] = "PENDING" /\ response[p] = NoData
        BY <2>1 DEF UniqueInv, t
      <3>3. data'[t] = p /\ p # NoRecord
        BY <1>0, <2>1, SyncMapAssumption DEF TypeInv
      <3>4. Stored(t)' = RecordOf(p)
        BY <2>1, <3>1, <3>3 DEF Stored, RecordOf, Begun, t
      <3> QED
        BY <3>2, <3>4 DEF RecordOf, NewTransaction
    <2>5. Stores' = [Stores EXCEPT ![t] = NewTransaction(p)]
      <3>1. \A s \in TrxIDs :
                Stored(s)' = IF s = t THEN NewTransaction(p) ELSE Stored(s)
        BY <2>3, <2>4 DEF t
      <3> QED
        BY <3>1 DEF Stores
    <2>6. Atomic!Store(p)
      BY <2>1, <2>2, <2>5, SameData DEF Atomic!Store, Stores, Calls, t
    <2> QED
      BY <2>6 DEF Atomic!Next
  <1>2. ASSUME NEW u \in Updaters, NEW t \in TrxIDs, NEW f \in Updates, Begin(u, t, f)
        PROVE  Atomic!Next
    <2>1. ASSUME NEW v \in Updaters
          PROVE  /\ Begun(v)' <=> Begun(v)
                 /\ Begun(v) => arg'[v] = arg[v]
      <3>1. /\ pc[u] = "idle" /\ pc' = [pc EXCEPT ![u] = "lock"]
            /\ undone' = undone
            /\ arg' = [arg EXCEPT ![u] = [trx |-> t, fn |-> f]]
        BY <1>2 DEF Begin, Goto
      <3>2. CASE v = u
        BY <1>0, <3>1, <3>2 DEF Begun, TypeInv
      <3>3. CASE v # u
        BY <1>0, <3>1, <3>3 DEF Begun, TypeInv
      <3> QED
        BY <3>2, <3>3
    <2>2. Stores' = Stores
      <3>1. ASSUME NEW s \in TrxIDs PROVE Stored(s)' = Stored(s)
        <4>1. UNCHANGED <<data, status, response>>
          BY <1>2 DEF Begin
        <4>2. \/ mutex'[s] = mutex[s]
              \/ mutex[s] = Free /\ ~Begun(mutex'[s])
              \/ mutex'[s] = Free /\ ~Begun(mutex[s])
          BY <1>2 DEF Begin
        <4> QED
          BY <1>a, <1>b, <2>1, <4>1, <4>2, StoredKept
      <3> QED
        BY <3>1 DEF Stores
    <2>3. Calls[u] = "idle" /\ Calls' = [Calls EXCEPT ![u] = "pending"]
      <3>1. \A v \in Updaters : v # u => CallOf(v)' = CallOf(v)
        BY <1>0, <1>2 DEF Begin, Goto, CallOf, Begun, TypeInv
      <3>2. CallOf(u) = "idle" /\ CallOf(u)' = "pending"
        BY <1>0, <1>2 DEF Begin, Goto, CallOf, Begun, TypeInv
      <3> QED
        BY <3>1, <3>2 DEF Calls
    <2>4. Atomic!Begin(u, t, f)
      BY <1>2, <2>2, <2>3 DEF Begin, Atomic!Begin, Stores, Calls
    <2> QED
      BY <2>4, SameData DEF Atomic!Next
  <1>3. ASSUME NEW u \in Updaters, Lock(u) PROVE UNCHANGED <<Stores, Calls, arg>>
    <2>1. ASSUME NEW v \in Updaters
          PROVE  /\ Begun(v)' <=> Begun(v)
                 /\ Begun(v) => arg'[v] = arg[v]
      BY <1>0, <1>3 DEF Lock, Goto, Begun, TypeInv
    <2>2. \A t \in TrxIDs : \/ mutex'[t] = mutex[t]
                            \/ mutex[t] = Free /\ ~Begun(mutex'[t])
      BY <1>0, <1>3 DEF Lock, Begun, TypeInv
    <2>3. Stores' = Stores
      <3>1. ASSUME NEW s \in TrxIDs PROVE Stored(s)' = Stored(s)
        <4>1. UNCHANGED <<data, status, response>>
          BY <1>3 DEF Lock
        <4>2. \/ mutex'[s] = mutex[s]
              \/ mutex[s] = Free /\ ~Begun(mutex'[s])
              \/ mutex'[s] = Free /\ ~Begun(mutex[s])
          BY <2>2
        <4> QED
          BY <1>a, <1>b, <2>1, <4>1, <4>2, StoredKept
      <3> QED
        BY <3>1 DEF Stores
    <2>4. Calls' = Calls
      BY <1>0, <1>3 DEF Lock, Goto, Calls, CallOf, Begun, TypeInv
    <2> QED
      BY <1>3, <2>3, <2>4 DEF Lock
  <1>4. ASSUME NEW u \in Updaters, LoadRecord(u)
        PROVE  Atomic!Next \/ UNCHANGED <<Stores, Calls, arg>>
    <2>1. pc[u] = "load" /\ ptr[u] = NoRecord /\ arg' = arg
      BY <1>0, <1>4 DEF LoadRecord, PtrInv
    <2>2. \A v \in Updaters : Begun(v)' <=> Begun(v)
      BY <1>0, <1>4, <2>1 DEF LoadRecord, Goto, Begun, TypeInv
    <2>3. Stores' = Stores
      BY <1>a, <1>b, <1>4, <2>1, <2>2, StoredKept DEF LoadRecord, Stores
    <2>4. \A v \in Updaters : v # u => CallOf(v)' = CallOf(v)
      BY <1>0, <1>4 DEF LoadRecord, Goto, CallOf, Begun, TypeInv
    <2>5. CallOf(u) = "pending"
      BY <2>1 DEF CallOf
    <2>6. CASE data[arg[u].trx] = NoRecord
      <3>1. CallOf(u)' = "error"
        BY <1>0, <1>4, <2>1, <2>6 DEF LoadRecord, Goto, CallOf, TypeInv
      <3>2. Calls[u] = "pending" /\ Calls' = [Calls EXCEPT ![u] = "error"]
        BY <2>4, <2>5, <3>1 DEF Calls
      <3>3. Atomic!Failed(u)
        BY <2>1, <2>3, <3>2 DEF Atomic!Failed, Stores, Calls
      <3> QED
        BY <3>3 DEF Atomic!Next
    <2>7. CASE data[arg[u].trx] # NoRecord
      <3>1. CallOf(u)' = "pending"
        BY <1>0, <1>4, <2>1, <2>7 DEF LoadRecord, Goto, CallOf, Begun, TypeInv
      <3>2. Calls' = Calls
        BY <2>4, <2>5, <3>1 DEF Calls
      <3> QED
        BY <2>1, <2>3, <3>2
    <2> QED
      BY <2>6, <2>7
  <1>5. ASSUME NEW u \in Updaters, StoreBack(u) PROVE UNCHANGED <<Stores, Calls, arg>>
    <2>1. pc[u] = "store" /\ data[arg[u].trx] = ptr[u] /\ arg[u].trx \in TrxIDs
      BY <1>0, <1>5 DEF StoreBack, UniqueInv, LockInv, Call
    <2>2. UNCHANGED <<data, status, response, mutex, arg>>
      BY <1>0, <1>5, <2>1 DEF StoreBack, TypeInv
    <2>3. \A v \in Updaters : Begun(v)' <=> Begun(v)
      BY <1>0, <1>5 DEF StoreBack, Goto, Begun, TypeInv
    <2>4. Stores' = Stores
      BY <1>a, <1>b, <2>2, <2>3, StoredKept DEF Stores
    <2>5. Calls' = Calls
      BY <1>0, <1>5 DEF StoreBack, Goto, Calls, CallOf, Begun, TypeInv
    <2> QED
      BY <2>2, <2>4, <2>5
  <1>6. ASSUME NEW u \in Updaters, Unlock(u) PROVE Atomic!Next
    <2>1. ASSUME NEW v \in Updaters
          PROVE  /\ Begun(v)' <=> Begun(v)
                 /\ Begun(v) => arg'[v] = arg[v]
      <3>1. /\ pc[u] = "unlock" /\ pc' = [pc EXCEPT ![u] = "idle"]
            /\ undone' = undone
            /\ arg' = [arg EXCEPT ![u] = NoCall]
        BY <1>6 DEF Unlock, Goto
      <3>2. CASE v = u
        BY <1>0, <3>1, <3>2 DEF Begun, TypeInv
      <3>3. CASE v # u
        BY <1>0, <3>1, <3>3 DEF Begun, TypeInv
      <3> QED
        BY <3>2, <3>3
    <2>2. \A t \in TrxIDs : \/ mutex'[t] = mutex[t]
                            \/ mutex'[t] = Free /\ ~Begun(mutex[t])
      BY <1>0, <1>6 DEF Unlock, Begun, TypeInv, LockInv, Locked
    <2>3. Stores' = Stores
      <3>1. ASSUME NEW s \in TrxIDs PROVE Stored(s)' = Stored(s)
        <4>1. UNCHANGED <<data, status, response>>
          BY <1>6 DEF Unlock
        <4>2. \/ mutex'[s] = mutex[s]
              \/ mutex[s] = Free /\ ~Begun(mutex'[s])
              \/ mutex'[s] = Free /\ ~Begun(mutex[s])
          BY <2>2
        <4> QED
          BY <1>a, <1>b, <2>1, <4>1, <4>2, StoredKept
      <3> QED
        BY <3>1 DEF Stores
    <2>4. \A v \in Updaters : v # u => CallOf(v)' = CallOf(v)
      BY <1>0, <1>6 DEF Unlock, Goto, CallOf, Begun, TypeInv
    <2>5. CallOf(u) \in {"ok", "error"} /\ CallOf(u)' = "idle"
      BY <1>0, <1>6 DEF Unlock, Goto, CallOf, TypeInv
    <2>6. Calls[u] \in {"ok", "error"} /\ Calls' = [Calls EXCEPT ![u] = "idle"]
      BY <2>4, <2>5 DEF Calls
    <2>7. Atomic!Return(u)
      BY <1>6, <2>3, <2>6 DEF Unlock, Atomic!Return, Stores, Calls
    <2> QED
      BY <2>7 DEF Atomic!Next
  <1>7. ASSUME NEW u \in Updaters, NEW field \in Fields, Assign(u, field)
        PROVE  Atomic!Next \/ UNCHANGED <<Stores, Calls, arg>>
    BY <1>7, AssignRefines DEF Atomic!Next
  <1>8. CASE UNCHANGED <<recordVars, updateVars>>
    BY <1>8 DEF Stores, Stored, RecordOf, Calls, CallOf, Begun
  <1>9. ASSUME NEW r \in Readers,
               \/ \E t \in TrxIDs : ReadPointer(r, t)
               \/ ReadStatus(r)
               \/ ReadResponse(r)
        PROVE  UNCHANGED <<recordVars, updateVars>>
    BY <1>9 DEF ReadPointer, ReadStatus, ReadResponse
  <1> QED
    BY <1>1, <1>2, <1>3, <1>4, <1>5, <1>6, <1>7, <1>8, <1>9
       DEF Next, UpdateStep, Fields, vars

\* The in-memory store keeps the promise of the TransactionStore interface
\* too, for any number of goroutines: the mutex makes the assignments of an
\* update function one indivisible update.  The hypothesis is needed: with a
\* shared trx_id Store may come between Load and the write back.
THEOREM MapRefinement == UniqueTrxIDs /\ Spec => ImplementsAtomicStore
  <1> SUFFICES ASSUME UniqueTrxIDs PROVE Spec => ImplementsAtomicStore
    OBVIOUS
  <1> QED
    BY InitInv, InvStep, OwnerInit, OwnerStep, UniqueInit, UniqueStep,
       MapRefinementInit, MapRefinementStep, PTL
       DEF Spec, ImplementsAtomicStore, Atomic!Spec
=============================================================================
