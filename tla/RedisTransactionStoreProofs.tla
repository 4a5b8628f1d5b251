--------------------- MODULE RedisTransactionStoreProofs ---------------------
(***************************************************************************)
(* Proofs about RedisTransactionStore, for any number of clients, keys and *)
(* requests and any MaxRetries > 0.                                        *)
(***************************************************************************)
EXTENDS RedisTransactionStore, TLAPS

-----------------------------------------------------------------------------
\* Lemmas about the operators.

\* A new record is a transaction, and a consistent one.
LEMMA NewTransactionType ==
    ASSUME NEW p \in Posts
    PROVE  /\ NewTransaction(p) \in Transaction
           /\ Consistent(NewTransaction(p))
BY DEF NewTransaction, Transaction, TransactionStatus, Consistent

\* Applying an update to a transaction gives a transaction of the same
\* request.
LEMMA ApplyType ==
    ASSUME NEW tx \in Transaction, NEW u \in Updates
    PROVE  /\ Apply(tx, u) \in Transaction
           /\ Apply(tx, u).post = tx.post
<1>1. CASE u = Timeout
    BY <1>1 DEF Apply, Transaction, TransactionStatus
<1>2. CASE u # Timeout
    BY <1>2 DEF Apply, Transaction, TransactionStatus, Updates, StatusFor
<1> QED BY <1>1, <1>2

\* No update makes a consistent record inconsistent, and none takes its
\* answer away.
LEMMA ApplyConsistent ==
    ASSUME NEW tx \in Transaction, NEW u \in Updates
    PROVE  /\ Consistent(tx) => Consistent(Apply(tx, u))
           /\ tx.data # NoData => Apply(tx, u).data # NoData
<1>1. CASE u = Timeout
    BY <1>1 DEF Apply, Transaction, TransactionStatus, Consistent
<1>2. CASE u # Timeout
    <2>1. u \in EDCResponse /\ u # NoData
        BY <1>2, SentinelAssumption DEF Updates
    <2>2. Apply(tx, u).data = u /\ Apply(tx, u).status = StatusFor(u)
        BY <1>2 DEF Apply, Transaction
    <2> QED BY <2>1, <2>2 DEF Consistent, StatusFor
<1> QED BY <1>1, <1>2

\* Signal and Count keep the types of watch and rivals.
LEMMA SignalType ==
    ASSUME NEW t, watch \in [Clients -> {"off", "clean", "dirty"}]
    PROVE  /\ Signal(t) \in [Clients -> {"off", "clean", "dirty"}]
           /\ \A c \in Clients : Signal(t)[c] = "off" <=> watch[c] = "off"
           /\ \A c \in Clients : Signal(t)[c] = "clean" <=>
                 watch[c] = "clean" /\ arg[c].trx # t
BY DEF Signal

LEMMA CountType ==
    ASSUME NEW t, rivals \in [Clients -> 0 .. MaxRivals]
    PROVE  /\ Count(t) \in [Clients -> 0 .. MaxRivals]
           /\ \A c \in Clients : Count(t)[c] >= rivals[c]
BY RivalsAssumption DEF Count

-----------------------------------------------------------------------------
(***************************************************************************)
(* The shape of an Update: it has arguments from call to return, watches   *)
(* its key between WATCH and EXEC, holds a record between GET and EXEC,    *)
(* and has attempts left while it runs.                                    *)
(***************************************************************************)
CallShape ==
    \A c \in Clients :
        /\ phase[c] # "idle" => arg[c] \in Calls
        /\ phase[c] \in {"get", "exec"} <=> watch[c] # "off"
        /\ phase[c] = "exec" => snap[c] \in Transaction
        /\ phase[c] \in InCall => tries[c] < MaxRetries
        /\ phase[c] = "idle" => tries[c] = 0

TypeInv == StoreTypeOK /\ CallShape

LEMMA TypeInit == StoreInit => TypeInv
BY RetriesAssumption, RivalsAssumption
   DEF StoreInit, TypeInv, StoreTypeOK, CallShape, InCall, Ended

LEMMA TypeStep == TypeInv /\ [StoreNext]_storeVars => TypeInv'
<1> SUFFICES ASSUME TypeInv, [StoreNext]_storeVars
             PROVE  TypeInv'
    OBVIOUS
<1> USE RetriesAssumption, RivalsAssumption
<1>1. ASSUME NEW p \in Posts, Store(p) PROVE TypeInv'
    BY <1>1, NewTransactionType, SignalType, CountType, TrxOfAssumption
       DEF Store, TypeInv, StoreTypeOK, CallShape
<1>2. ASSUME NEW c \in Clients, NEW t \in TrxIDs, NEW u \in Updates,
             Begin(c, t, u)
      PROVE  TypeInv'
    <2>1. [trx |-> t, fn |-> u] \in Calls
        BY DEF Calls
    <2> QED BY <1>2, <2>1 DEF Begin, TypeInv, StoreTypeOK, CallShape, InCall, Ended
<1>3. ASSUME NEW c \in Clients, Watch(c) PROVE TypeInv'
    BY <1>3 DEF Watch, TypeInv, StoreTypeOK, CallShape, InCall, Ended
<1>4. ASSUME NEW c \in Clients, GetNil(c) PROVE TypeInv'
    BY <1>4 DEF GetNil, End, TypeInv, StoreTypeOK, CallShape, InCall, Ended
<1>5. ASSUME NEW c \in Clients, Get(c) PROVE TypeInv'
    <2>1. arg[c].trx \in TrxIDs
        BY <1>5 DEF Get, TypeInv, CallShape, Calls
    <2>2. db[arg[c].trx] \in Transaction
        BY <1>5, <2>1 DEF Get, TypeInv, StoreTypeOK
    <2> QED BY <1>5, <2>2 DEF Get, TypeInv, StoreTypeOK, CallShape, InCall, Ended
<1>6. ASSUME NEW c \in Clients, NEW how \in {"ok", "error"},
             Commit(c), phase' = [phase EXCEPT ![c] = how]
      PROVE  TypeInv'
    <2> DEFINE t == arg[c].trx
    <2>1. t \in TrxIDs /\ arg[c].fn \in Updates /\ snap[c] \in Transaction
        BY <1>6 DEF Commit, TypeInv, CallShape, Calls
    <2>2. Apply(snap[c], arg[c].fn) \in Transaction
        BY <2>1, ApplyType
    <2>3. db' \in [TrxIDs -> Transaction \union {NoTx}]
        BY <1>6, <2>1, <2>2 DEF Commit, TypeInv, StoreTypeOK
    <2>4. /\ watch' \in [Clients -> {"off", "clean", "dirty"}]
          /\ \A d \in Clients \ {c} : watch'[d] = "off" <=> watch[d] = "off"
          /\ watch'[c] = "off"
        BY <1>6, SignalType DEF Commit, TypeInv, StoreTypeOK
    <2>5. rivals' \in [Clients -> 0 .. MaxRivals]
        BY <1>6, CountType DEF Commit, TypeInv, StoreTypeOK
    <2> QED BY <1>6, <2>1, <2>3, <2>4, <2>5
            DEF Commit, TypeInv, StoreTypeOK, CallShape, InCall, Ended
<1>7. ASSUME NEW c \in Clients, Conflict(c) PROVE TypeInv'
    BY <1>7 DEF Conflict, End, TypeInv, StoreTypeOK, CallShape, InCall, Ended
<1>8. ASSUME NEW c \in Clients, Fault(c) PROVE TypeInv'
    BY <1>8 DEF Fault, End, TypeInv, StoreTypeOK, CallShape, InCall, Ended
<1>9. ASSUME NEW c \in Clients, Return(c) PROVE TypeInv'
    BY <1>9 DEF Return, TypeInv, StoreTypeOK, CallShape, InCall, Ended
<1>10. ASSUME NEW t \in TrxIDs, Expire(t) PROVE TypeInv'
    BY <1>10, SignalType, CountType DEF Expire, TypeInv, StoreTypeOK, CallShape
<1>11. ASSUME NEW t \in TrxIDs, Touch(t) PROVE TypeInv'
    BY <1>11, SignalType, CountType DEF Touch, TypeInv, StoreTypeOK, CallShape
<1>12. CASE UNCHANGED storeVars
    BY <1>12 DEF storeVars, TypeInv, StoreTypeOK, CallShape
<1> QED
    BY <1>1, <1>2, <1>3, <1>4, <1>5, <1>6, <1>7, <1>8, <1>9, <1>10, <1>11,
       <1>12 DEF StoreNext, UpdateStep, Exec, FaultAfterExec

\* Types and shape hold in every reachable state.
LEMMA TypeInvHolds == StoreSpec => []TypeInv
BY TypeInit, TypeStep, PTL DEF StoreSpec

\* Every variable keeps its type: in particular no Update counts beyond
\* MaxRetries attempts.
THEOREM TypeCorrect == StoreSpec => []StoreTypeOK
<1>1. TypeInv => StoreTypeOK
    BY DEF TypeInv
<1> QED BY <1>1, TypeInvHolds, PTL

-----------------------------------------------------------------------------
(***************************************************************************)
(* No lost update.  CleanMeansFresh is not inductive alone: that a         *)
(* connection with a snapshot is registered for its key comes from         *)
(* CallShape, and that a write to the key marks it from Signal.            *)
(***************************************************************************)
LEMMA FreshStep ==
    TypeInv /\ CleanMeansFresh /\ [StoreNext]_storeVars => CleanMeansFresh'
<1> SUFFICES ASSUME TypeInv, CleanMeansFresh, [StoreNext]_storeVars,
                    NEW d \in Clients,
                    phase'[d] = "exec", watch'[d] # "dirty"
             PROVE  snap'[d] = db'[arg'[d].trx]
    BY DEF CleanMeansFresh
<1> USE DEF CleanMeansFresh, TypeInv, StoreTypeOK
<1>a. watch[d] \in {"off", "clean", "dirty"}
    OBVIOUS
<1>1. ASSUME NEW p \in Posts, Store(p) PROVE snap'[d] = db'[arg'[d].trx]
    <2>1. watch[d] = "clean" /\ arg[d].trx # TrxOf[p]
        BY <1>1, <1>a DEF Store, Signal, CallShape
    <2> QED BY <1>1, <2>1 DEF Store
<1>2. ASSUME NEW c \in Clients, NEW t \in TrxIDs, NEW u \in Updates,
             Begin(c, t, u)
      PROVE  snap'[d] = db'[arg'[d].trx]
    BY <1>2 DEF Begin
<1>3. ASSUME NEW c \in Clients, Watch(c) PROVE snap'[d] = db'[arg'[d].trx]
    BY <1>3 DEF Watch
<1>4. ASSUME NEW c \in Clients, GetNil(c) PROVE snap'[d] = db'[arg'[d].trx]
    BY <1>4 DEF GetNil, End
<1>5. ASSUME NEW c \in Clients, Get(c) PROVE snap'[d] = db'[arg'[d].trx]
    BY <1>5 DEF Get
<1>6. ASSUME NEW c \in Clients, NEW how \in {"ok", "error"},
             Commit(c), phase' = [phase EXCEPT ![c] = how]
      PROVE  snap'[d] = db'[arg'[d].trx]
    <2>1. d # c
        BY <1>6
    <2>2. watch[d] = "clean" /\ arg[d].trx # arg[c].trx
        BY <1>6, <2>1, <1>a DEF Commit, Signal, CallShape
    <2> QED BY <1>6, <2>1, <2>2 DEF Commit
<1>7. ASSUME NEW c \in Clients, Conflict(c) PROVE snap'[d] = db'[arg'[d].trx]
    BY <1>7 DEF Conflict, End
<1>8. ASSUME NEW c \in Clients, Fault(c) PROVE snap'[d] = db'[arg'[d].trx]
    BY <1>8 DEF Fault, End
<1>9. ASSUME NEW c \in Clients, Return(c) PROVE snap'[d] = db'[arg'[d].trx]
    BY <1>9 DEF Return
<1>10. ASSUME NEW t \in TrxIDs, Expire(t) PROVE snap'[d] = db'[arg'[d].trx]
    <2>1. watch[d] = "clean" /\ arg[d].trx # t
        BY <1>10, <1>a DEF Expire, Signal, CallShape
    <2> QED BY <1>10, <2>1 DEF Expire
<1>11. ASSUME NEW t \in TrxIDs, Touch(t) PROVE snap'[d] = db'[arg'[d].trx]
    <2>1. watch[d] # "dirty"
        BY <1>11, <1>a DEF Touch, Signal
    <2> QED BY <1>11, <2>1 DEF Touch
<1>12. CASE UNCHANGED storeVars
    BY <1>12 DEF storeVars
<1> QED
    BY <1>1, <1>2, <1>3, <1>4, <1>5, <1>6, <1>7, <1>8, <1>9, <1>10, <1>11,
       <1>12 DEF StoreNext, UpdateStep, Exec, FaultAfterExec

\* The record an Update writes back is computed from the record the key
\* holds at that moment: Update loses no write of Store, of another Update,
\* of an expiry or of an EXPIRE.
THEOREM NoLostUpdate == StoreSpec => []CleanMeansFresh
<1>1. StoreInit => CleanMeansFresh
    BY DEF StoreInit, CleanMeansFresh
<1> QED BY <1>1, FreshStep, TypeInvHolds, PTL DEF StoreSpec

-----------------------------------------------------------------------------
(***************************************************************************)
(* The retry budget.  Each failed attempt, and a dirty connection that is  *)
(* about to fail, stands for a rival write of its own.                     *)
(***************************************************************************)
Spent(c) == tries[c] + IF watch[c] = "dirty" THEN 1 ELSE 0

BudgetInv ==
    \A c \in Clients :
        /\ phase[c] \in InCall => Spent(c) <= rivals[c]
        /\ phase[c] = "exhausted" => rivals[c] >= MaxRetries

\* A write to a key counts at least as much as it makes dirty.
LEMMA WriteCounts ==
    ASSUME TypeInv, NEW t, NEW d \in Clients, phase[d] \in InCall,
           Spent(d) <= rivals[d]
    PROVE  tries[d] + (IF Signal(t)[d] = "dirty" THEN 1 ELSE 0) <= Count(t)[d]
<1> USE RetriesAssumption, RivalsAssumption DEF TypeInv, StoreTypeOK
<1>1. tries[d] \in Nat /\ rivals[d] \in Nat /\ tries[d] < MaxRetries
    BY DEF CallShape
<1>2. CASE watch[d] = "clean" /\ arg[d].trx = t
    <2>1. Signal(t)[d] = "dirty" /\ tries[d] <= rivals[d]
        BY <1>1, <1>2 DEF Signal, Spent
    <2>2. CASE rivals[d] < MaxRivals
        <3>1. Count(t)[d] = rivals[d] + 1
            BY <1>2, <2>2 DEF Count
        <3> QED BY <1>1, <2>1, <3>1
    <2>3. CASE ~(rivals[d] < MaxRivals)
        <3>1. Count(t)[d] = rivals[d]
            BY <2>3 DEF Count
        <3> QED BY <1>1, <2>1, <2>3, <3>1
    <2> QED BY <2>2, <2>3
<1>3. CASE ~(watch[d] = "clean" /\ arg[d].trx = t)
    <2>1. Signal(t)[d] = watch[d]
        BY <1>3 DEF Signal
    <2>2. Count(t)[d] >= rivals[d] /\ Count(t)[d] \in Nat
        BY CountType
    <2> QED BY <1>1, <2>1, <2>2 DEF Spent
<1> QED BY <1>2, <1>3

LEMMA BudgetStep == TypeInv /\ BudgetInv /\ [StoreNext]_storeVars => BudgetInv'
<1> SUFFICES ASSUME TypeInv, BudgetInv, [StoreNext]_storeVars,
                    NEW d \in Clients
             PROVE  /\ phase'[d] \in InCall => Spent(d)' <= rivals'[d]
                    /\ phase'[d] = "exhausted" => rivals'[d] >= MaxRetries
    BY DEF BudgetInv
<1> DEFINE Goal == /\ phase'[d] \in InCall => Spent(d)' <= rivals'[d]
                   /\ phase'[d] = "exhausted" => rivals'[d] >= MaxRetries
<1> USE RetriesAssumption, RivalsAssumption DEF TypeInv, StoreTypeOK
<1>a. tries[d] \in Nat /\ rivals[d] \in Nat
    OBVIOUS
<1>b. ASSUME NEW t, watch'[d] = Signal(t)[d], rivals'[d] = Count(t)[d],
             phase'[d] = phase[d], tries'[d] = tries[d]
      PROVE  Goal
    <2>1. ASSUME phase[d] \in InCall PROVE Spent(d)' <= rivals'[d]
        <3>1. Spent(d) <= rivals[d]
            BY <2>1 DEF BudgetInv
        <3>2. Spent(d)' = tries[d] + IF Signal(t)[d] = "dirty" THEN 1 ELSE 0
            BY <1>b DEF Spent
        <3> QED BY <1>b, <2>1, <3>1, <3>2, WriteCounts
    <2>2. ASSUME phase[d] = "exhausted" PROVE rivals'[d] >= MaxRetries
        BY <1>b, <2>2, <1>a, CountType DEF BudgetInv
    <2> QED BY <1>b, <2>1, <2>2
<1>c. ASSUME UNCHANGED <<phase[d], watch[d], tries[d], rivals[d]>>
      PROVE  Goal
    BY <1>c DEF BudgetInv, Spent
<1>1. ASSUME NEW p \in Posts, Store(p) PROVE Goal
    BY <1>1, <1>b DEF Store
<1>2. ASSUME NEW c \in Clients, NEW t \in TrxIDs, NEW u \in Updates,
             Begin(c, t, u)
      PROVE  Goal
    <2>1. CASE c = d
        BY <1>2, <2>1, <1>a DEF Begin, CallShape, Spent, InCall
    <2>2. CASE c # d
        BY <1>2, <2>2, <1>c DEF Begin
    <2> QED BY <2>1, <2>2
<1>3. ASSUME NEW c \in Clients, Watch(c) PROVE Goal
    <2>1. CASE c = d
        BY <1>3, <2>1, <1>a DEF Watch, CallShape, BudgetInv, Spent, InCall
    <2>2. CASE c # d
        BY <1>3, <2>2, <1>c DEF Watch
    <2> QED BY <2>1, <2>2
<1>4. ASSUME NEW c \in Clients, NEW how \in {"error"}, End(c, how),
             UNCHANGED <<tries, rivals>>
      PROVE  Goal
    <2>1. CASE c = d
        BY <1>4, <2>1 DEF End, InCall
    <2>2. CASE c # d
        BY <1>4, <2>2, <1>c DEF End
    <2> QED BY <2>1, <2>2
<1>5. ASSUME NEW c \in Clients, Get(c) PROVE Goal
    <2>1. CASE c = d
        BY <1>5, <2>1 DEF Get, BudgetInv, Spent, InCall
    <2>2. CASE c # d
        BY <1>5, <2>2, <1>c DEF Get
    <2> QED BY <2>1, <2>2
<1>6. ASSUME NEW c \in Clients, NEW how \in {"ok", "error"},
             Commit(c), phase' = [phase EXCEPT ![c] = how]
      PROVE  Goal
    <2>1. CASE c = d
        BY <1>6, <2>1 DEF InCall
    <2>2. CASE c # d
        BY <1>6, <2>2, <1>b DEF Commit
    <2> QED BY <2>1, <2>2
<1>7. ASSUME NEW c \in Clients, Conflict(c) PROVE Goal
    <2>1. CASE c = d
        <3>1. Spent(d) = tries[d] + 1 /\ Spent(d) <= rivals[d]
            BY <1>7, <2>1 DEF Conflict, BudgetInv, Spent, InCall
        <3>2. tries'[d] = tries[d] + 1 /\ rivals'[d] = rivals[d]
              /\ watch'[d] = "off"
              /\ phase'[d] = IF tries[d] + 1 < MaxRetries THEN "watch"
                                                         ELSE "exhausted"
            BY <1>7, <2>1 DEF Conflict, End
        <3>3. Spent(d)' = tries[d] + 1
            BY <3>2, <1>a DEF Spent
        <3> QED BY <3>1, <3>2, <3>3, <1>a
    <2>2. CASE c # d
        BY <1>7, <2>2, <1>c DEF Conflict, End
    <2> QED BY <2>1, <2>2
<1>9. ASSUME NEW c \in Clients, Return(c) PROVE Goal
    <2>1. CASE c = d
        BY <1>9, <2>1 DEF Return, InCall
    <2>2. CASE c # d
        BY <1>9, <2>2, <1>c DEF Return
    <2> QED BY <2>1, <2>2
<1>10. ASSUME NEW t \in TrxIDs, Expire(t) PROVE Goal
    BY <1>10, <1>b DEF Expire
<1>11. ASSUME NEW t \in TrxIDs, Touch(t) PROVE Goal
    BY <1>11, <1>b DEF Touch
<1>12. CASE UNCHANGED storeVars
    BY <1>12, <1>c DEF storeVars
<1> QED
    BY <1>1, <1>2, <1>3, <1>4, <1>5, <1>6, <1>7, <1>9, <1>10, <1>11, <1>12
       DEF StoreNext, UpdateStep, Exec, FaultAfterExec, GetNil, Fault

\* Update reports "failed to update transaction after 3 retries" only when
\* MaxRetries writes of others hit its key between its call and its end.
THEOREM RetriesAreSpent == StoreSpec => []RetryBudget
<1>1. StoreInit => BudgetInv
    BY DEF StoreInit, BudgetInv, InCall
<1>2. BudgetInv => RetryBudget
    BY DEF BudgetInv, RetryBudget
<1> QED BY <1>1, <1>2, BudgetStep, TypeInvHolds, PTL DEF StoreSpec

-----------------------------------------------------------------------------
(***************************************************************************)
(* Progress.  What liveness of Update needs besides fairness: a number     *)
(* that its own commands lower and that nothing raises.                    *)
(***************************************************************************)

\* Within a call there is at least one command left, as the attempt it is in
\* is not the one after the last.
LEMMA CommandsLeft ==
    ASSUME TypeInv, NEW c \in Clients, phase[c] \in InCall
    PROVE  StepsLeft(c) \in Nat /\ StepsLeft(c) >= 1
<1>1. tries[c] \in Nat /\ tries[c] < MaxRetries
    BY RetriesAssumption DEF TypeInv, StoreTypeOK, CallShape
<1> QED BY <1>1, RetriesAssumption DEF StepsLeft, InCall

\* A call that has ended sends no commands.
LEMMA EndsCommands ==
    ASSUME TypeInv, NEW c \in Clients, phase[c] \in InCall, phase'[c] \notin InCall
    PROVE  StepsLeft(c)' \in 0 .. StepsLeft(c) - 1
<1>1. StepsLeft(c)' = 0
    BY DEF StepsLeft, InCall
<1> QED BY <1>1, CommandsLeft

\* What UpdateAdvances says of one step.
Advances ==
    \A c \in Clients :
        phase[c] \in InCall =>
            \/ StepsLeft(c)' \in 0 .. StepsLeft(c) - 1
            \/ UNCHANGED <<phase[c], tries[c]>>

LEMMA AdvanceStep == TypeInv /\ [StoreNext]_storeVars => Advances
<1> SUFFICES ASSUME TypeInv, [StoreNext]_storeVars,
                    NEW d \in Clients, phase[d] \in InCall
             PROVE  \/ StepsLeft(d)' \in 0 .. StepsLeft(d) - 1
                    \/ UNCHANGED <<phase[d], tries[d]>>
    BY DEF Advances
<1> DEFINE Goal == \/ StepsLeft(d)' \in 0 .. StepsLeft(d) - 1
                   \/ UNCHANGED <<phase[d], tries[d]>>
<1> SUFFICES Goal
    OBVIOUS
<1>0. /\ phase \in [Clients -> {"idle"} \union InCall \union Ended]
      /\ tries \in [Clients -> 0 .. MaxRetries]
      /\ tries[d] \in Nat /\ tries[d] < MaxRetries
      /\ MaxRetries \in Nat
    BY RetriesAssumption DEF TypeInv, StoreTypeOK, CallShape
<1>1. ASSUME NEW p \in Posts, Store(p) PROVE Goal
    BY <1>1 DEF Store
<1>2. ASSUME NEW c \in Clients, NEW t \in TrxIDs, NEW u \in Updates,
             Begin(c, t, u)
      PROVE  Goal
    BY <1>0, <1>2 DEF Begin, InCall
<1>3. ASSUME NEW c \in Clients, Watch(c) PROVE Goal
    BY <1>0, <1>3 DEF Watch, StepsLeft
<1>4. ASSUME NEW c \in Clients, Get(c) PROVE Goal
    BY <1>0, <1>4 DEF Get, StepsLeft
<1>5. ASSUME NEW c \in Clients, NEW how \in {"ok", "error", "exhausted"},
             phase' = [phase EXCEPT ![c] = how], tries' = tries
      PROVE  Goal
    <2>1. CASE c = d
        BY <1>0, <1>5, <2>1, EndsCommands DEF InCall
    <2>2. CASE c # d
        BY <1>0, <1>5, <2>2
    <2> QED BY <2>1, <2>2
<1>6. ASSUME NEW c \in Clients, Conflict(c) PROVE Goal
    <2>1. CASE c = d /\ tries[c] + 1 < MaxRetries
        <3>1. phase[d] = "exec" /\ phase'[d] = "watch" /\ tries'[d] = tries[d] + 1
            BY <1>0, <1>6, <2>1 DEF Conflict, End
        <3> QED BY <1>0, <2>1, <3>1 DEF StepsLeft
    <2>2. CASE c = d /\ ~(tries[c] + 1 < MaxRetries)
        <3>1. phase'[d] = "exhausted"
            BY <1>0, <1>6, <2>2 DEF Conflict, End
        <3> QED BY <3>1, EndsCommands DEF InCall
    <2>3. CASE c # d
        BY <1>0, <1>6, <2>3 DEF Conflict, End
    <2> QED BY <2>1, <2>2, <2>3
<1>7. ASSUME NEW c \in Clients, Return(c) PROVE Goal
    BY <1>0, <1>7 DEF Return, InCall, Ended
<1>8. ASSUME NEW t \in TrxIDs, Expire(t) \/ Touch(t) PROVE Goal
    BY <1>8 DEF Expire, Touch
<1>9. CASE UNCHANGED storeVars
    BY <1>9 DEF storeVars
<1>10. ASSUME NEW c \in Clients, GetNil(c) \/ Fault(c) \/ Exec(c) \/ FaultAfterExec(c)
       PROVE  Goal
    BY <1>5, <1>10 DEF GetNil, Fault, Exec, FaultAfterExec, Commit, End
<1> QED
    BY <1>1, <1>2, <1>3, <1>4, <1>6, <1>7, <1>8, <1>9, <1>10
       DEF StoreNext, UpdateStep

\* An Update sends at most three commands for each of its attempts, whatever
\* other clients do to its key.
THEOREM CallsAdvance == StoreSpec => UpdateAdvances
BY AdvanceStep, TypeInvHolds, PTL DEF StoreSpec, UpdateAdvances, Advances

-----------------------------------------------------------------------------
(***************************************************************************)
(* Records stay consistent and keep their answers, because what an EXEC    *)
(* writes is an update of the record the key holds.                        *)
(***************************************************************************)

\* The record before and after a successful EXEC.
LEMMA CommitUpdates ==
    ASSUME TypeInv, CleanMeansFresh, NEW c \in Clients, Commit(c)
    PROVE  LET t == arg[c].trx IN
           /\ t \in TrxIDs
           /\ arg[c].fn \in Updates
           /\ db[t] \in Transaction
           /\ db[t] # NoTx
           /\ db' = [db EXCEPT ![t] = Apply(db[t], arg[c].fn)]
           /\ Apply(db[t], arg[c].fn) # NoTx
<1>1. snap[c] \in Transaction /\ arg[c] \in Calls
    BY DEF Commit, TypeInv, CallShape
<1>2. snap[c] = db[arg[c].trx]
    BY DEF Commit, CleanMeansFresh
<1>3. Apply(snap[c], arg[c].fn) \in Transaction
    BY <1>1, ApplyType DEF Calls
<1> QED BY <1>1, <1>2, <1>3, SentinelAssumption DEF Calls, Commit

\* How the store can change: by a new record, an expiry or a commit.
LEMMA StoreChanges ==
    ASSUME [StoreNext]_storeVars
    PROVE  \/ \E p \in Posts : Store(p)
           \/ \E c \in Clients : Commit(c)
           \/ \E t \in TrxIDs : Expire(t)
           \/ UNCHANGED db
BY DEF StoreNext, storeVars, Begin, UpdateStep, Watch, GetNil, End, Get, Exec,
       Conflict, Fault, FaultAfterExec, Return, Touch

LEMMA StatusStep ==
    TypeInv /\ CleanMeansFresh /\ StatusMatchesData /\ [StoreNext]_storeVars
        => StatusMatchesData'
<1> SUFFICES ASSUME TypeInv, CleanMeansFresh, StatusMatchesData,
                    [StoreNext]_storeVars,
                    NEW k \in TrxIDs, db'[k] # NoTx
             PROVE  Consistent(db'[k])
    BY DEF StatusMatchesData, Consistent, StatusFor
<1>0. db \in [TrxIDs -> Transaction \union {NoTx}] /\ (db[k] # NoTx => Consistent(db[k]))
    BY DEF TypeInv, StoreTypeOK, StatusMatchesData
<1>1. ASSUME NEW p \in Posts, Store(p) PROVE Consistent(db'[k])
    <2>1. TrxOf[p] \in TrxIDs
        BY TrxOfAssumption
    <2>2. CASE k = TrxOf[p]
        <3>1. db'[k] = NewTransaction(p)
            BY <1>0, <1>1, <2>1, <2>2 DEF Store
        <3> QED BY <3>1, NewTransactionType
    <2>3. CASE k # TrxOf[p]
        <3>1. db'[k] = db[k]
            BY <1>0, <1>1, <2>1, <2>3 DEF Store
        <3> QED BY <1>0, <3>1
    <2> QED BY <2>2, <2>3
<1>2. ASSUME NEW c \in Clients, Commit(c) PROVE Consistent(db'[k])
    <2> DEFINE t == arg[c].trx
    <2>1. /\ t \in TrxIDs /\ arg[c].fn \in Updates /\ db[t] \in Transaction
          /\ db[t] # NoTx
          /\ db' = [db EXCEPT ![t] = Apply(db[t], arg[c].fn)]
        BY <1>2, CommitUpdates
    <2>2. CASE k = t
        <3>1. db'[k] = Apply(db[t], arg[c].fn)
            BY <1>0, <2>1, <2>2
        <3>2. Consistent(db[t])
            BY <1>0, <2>1, <2>2
        <3> QED BY <2>1, <3>1, <3>2, ApplyConsistent
    <2>3. CASE k # t
        <3>1. db'[k] = db[k]
            BY <1>0, <2>1, <2>3
        <3> QED BY <1>0, <3>1
    <2> QED BY <2>2, <2>3
<1>3. ASSUME NEW t \in TrxIDs, Expire(t) PROVE Consistent(db'[k])
    <2>1. k # t /\ db'[k] = db[k]
        BY <1>0, <1>3 DEF Expire
    <2> QED BY <1>0, <2>1
<1>4. CASE UNCHANGED db
    BY <1>0, <1>4
<1> QED BY <1>1, <1>2, <1>3, <1>4, StoreChanges

\* No interleaving of timeouts, answers and new requests leaves a record
\* whose status and answer disagree.
THEOREM StatusIsSound == StoreSpec => []StatusMatchesData
<1>1. StoreInit => StatusMatchesData
    BY DEF StoreInit, StatusMatchesData
<1> QED BY <1>1, StatusStep, TypeInvHolds, NoLostUpdate, PTL DEF StoreSpec

\* What AnswersKept says of one step.
Keeps ==
    \A t \in TrxIDs :
        (db[t] # NoTx /\ db[t].data # NoData) =>
            \/ db'[t] = NoTx
            \/ \E p \in Posts : db'[t] = NewTransaction(p)
            \/ db'[t].data # NoData /\ db'[t].post = db[t].post

LEMMA KeepsStep ==
    TypeInv /\ CleanMeansFresh /\ [StoreNext]_storeVars => [Keeps]_storeVars
<1> SUFFICES ASSUME TypeInv, CleanMeansFresh, [StoreNext]_storeVars,
                    NEW k \in TrxIDs, db[k] # NoTx, db[k].data # NoData
             PROVE  \/ db'[k] = NoTx
                    \/ \E p \in Posts : db'[k] = NewTransaction(p)
                    \/ db'[k].data # NoData /\ db'[k].post = db[k].post
    BY DEF Keeps
<1>0. db \in [TrxIDs -> Transaction \union {NoTx}]
    BY DEF TypeInv, StoreTypeOK
<1>1. ASSUME NEW p \in Posts, Store(p)
      PROVE  db'[k] = NewTransaction(p) \/ db'[k] = db[k]
    BY <1>0, <1>1, TrxOfAssumption DEF Store
<1>2. ASSUME NEW c \in Clients, Commit(c)
      PROVE  db'[k].data # NoData /\ db'[k].post = db[k].post
    <2>1. /\ arg[c].trx \in TrxIDs /\ arg[c].fn \in Updates
          /\ db' = [db EXCEPT ![arg[c].trx] =
                       Apply(db[arg[c].trx], arg[c].fn)]
        BY <1>2, CommitUpdates
    <2>2. db[k] \in Transaction
        BY <1>0
    <2>3. db'[k] = db[k] \/ db'[k] = Apply(db[k], arg[c].fn)
        BY <1>0, <2>1
    <2>4. /\ Apply(db[k], arg[c].fn).data # NoData
          /\ Apply(db[k], arg[c].fn).post = db[k].post
        BY <2>1, <2>2, ApplyType, ApplyConsistent
    <2> QED BY <2>3, <2>4
<1>3. ASSUME NEW t \in TrxIDs, Expire(t)
      PROVE  db'[k] = NoTx \/ db'[k] = db[k]
    BY <1>0, <1>3 DEF Expire
<1> QED BY <1>1, <1>2, <1>3, StoreChanges

\* Once stored, an answer leaves the record only by an expiry or by a new
\* request with its trx_id; no timeout removes it.
THEOREM AnswersSurvive == StoreSpec => AnswersKept
BY KeepsStep, TypeInvHolds, NoLostUpdate, PTL
   DEF StoreSpec, AnswersKept, Keeps

-----------------------------------------------------------------------------
(***************************************************************************)
(* Refinement.  Every step of the WATCH/GET/EXEC protocol is a step of     *)
(* AtomicStore or leaves its variables alone: WATCH, GET, a retried        *)
(* conflict and EXPIRE stutter, EXEC is the indivisible Update.            *)
(***************************************************************************)
Call == [c \in Clients |->
            CASE phase[c] \in InCall -> "pending"
              [] phase[c] = "exhausted" -> "error"
              [] OTHER -> phase[c]]

\* How the abstract call of c follows its phase.
LEMMA CallValue ==
    ASSUME NEW c \in Clients
    PROVE  /\ phase[c] \in InCall => Call[c] = "pending"
           /\ phase[c] = "exhausted" => Call[c] = "error"
           /\ phase[c] \in {"idle", "ok", "error"} => Call[c] = phase[c]
BY DEF Call, InCall

\* A step that changes no phase but that of c changes no other call.
LEMMA CallStep ==
    ASSUME NEW c \in Clients, NEW l, TypeInv, phase' = [phase EXCEPT ![c] = l],
           NEW v,
           v = CASE l \in InCall -> "pending"
                 [] l = "exhausted" -> "error"
                 [] OTHER -> l
    PROVE  Call' = [Call EXCEPT ![c] = v]
<1>1. phase \in [Clients -> {"idle"} \union InCall \union Ended]
    BY DEF TypeInv, StoreTypeOK
<1>2. ASSUME NEW d \in Clients PROVE Call'[d] = [Call EXCEPT ![c] = v][d]
    <2>1. CASE d = c
        <3>1. phase'[d] = l
            BY <1>1, <2>1
        <3> QED BY <2>1, <3>1 DEF Call
    <2>2. CASE d # c
        <3>1. phase'[d] = phase[d]
            BY <1>1, <2>2
        <3> QED BY <2>2, <3>1 DEF Call
    <2> QED BY <2>1, <2>2
<1> QED BY <1>2 DEF Call

\* AtomicStore reads the data of Transactions as this module does.
LEMMA SameData ==
    /\ \A p : Atomic!NewTransaction(p) = NewTransaction(p)
    /\ \A tx, u : Atomic!Apply(tx, u) = Apply(tx, u)
    /\ Atomic!Updates = Updates
BY DEF Atomic!NewTransaction, NewTransaction, Atomic!Apply, Apply,
       Atomic!StatusFor, StatusFor, Atomic!SuccessWords, SuccessWords,
       Atomic!Updates, Updates, Atomic!EDCResponse, EDCResponse

LEMMA RefinementInit == StoreInit => Atomic!Init
BY DEF StoreInit, Atomic!Init, InCall

LEMMA RefinementStep ==
    TypeInv /\ CleanMeansFresh /\ [StoreNext]_storeVars
        => [Atomic!Next]_(Atomic!vars)
<1> SUFFICES ASSUME TypeInv, CleanMeansFresh, [StoreNext]_storeVars
             PROVE  Atomic!Next \/ UNCHANGED <<db, Call, arg>>
    BY DEF Atomic!vars, Call
<1>0. \A c \in Clients : phase[c] \in {"idle"} \union InCall \union Ended
    BY DEF TypeInv, StoreTypeOK
<1>1. ASSUME NEW p \in Posts, Store(p) PROVE Atomic!Next
    <2>1. UNCHANGED <<Call, arg>>
        BY <1>1 DEF Store, Call
    <2>2. Atomic!Store(p)
        BY <1>1, <2>1, SameData DEF Store, Atomic!Store, Call
    <2> QED BY <2>2 DEF Atomic!Next
<1>2. ASSUME NEW c \in Clients, NEW t \in TrxIDs, NEW u \in Updates,
             Begin(c, t, u)
      PROVE  Atomic!Next
    <2>1. Call[c] = "idle" /\ Call' = [Call EXCEPT ![c] = "pending"]
        BY <1>2, CallValue, CallStep DEF Begin, InCall
    <2>2. Atomic!Begin(c, t, u)
        BY <1>2, <2>1 DEF Begin, Atomic!Begin, Call
    <2> QED BY <2>2, SameData DEF Atomic!Next
<1>3. ASSUME NEW c \in Clients, Watch(c) PROVE UNCHANGED <<db, Call, arg>>
    <2>1. Call[c] = "pending" /\ Call' = [Call EXCEPT ![c] = "pending"]
        BY <1>3, CallValue, CallStep DEF Watch, InCall
    <2> QED BY <1>3, <2>1 DEF Watch, Call
<1>4. ASSUME NEW c \in Clients, phase[c] \in InCall,
             phase' = [phase EXCEPT ![c] = "error"], UNCHANGED <<db, arg>>
      PROVE  Atomic!Next
    <2>1. Call[c] = "pending" /\ Call' = [Call EXCEPT ![c] = "error"]
        BY <1>4, CallValue, CallStep DEF InCall
    <2>2. Atomic!Failed(c)
        BY <1>4, <2>1 DEF Atomic!Failed, Call
    <2> QED BY <2>2 DEF Atomic!Next
<1>5. ASSUME NEW c \in Clients, Get(c) PROVE UNCHANGED <<db, Call, arg>>
    <2>1. Call[c] = "pending" /\ Call' = [Call EXCEPT ![c] = "pending"]
        BY <1>5, CallValue, CallStep DEF Get, InCall
    <2> QED BY <1>5, <2>1 DEF Get, Call
<1>6. ASSUME NEW c \in Clients, NEW how \in {"ok", "error"},
             Commit(c), phase' = [phase EXCEPT ![c] = how]
      PROVE  Atomic!Next
    <2>1. Call[c] = "pending" /\ Call' = [Call EXCEPT ![c] = how]
        BY <1>6, CallValue, CallStep DEF Commit, InCall
    <2>2. /\ db[arg[c].trx] # NoTx
          /\ db' = [db EXCEPT ![arg[c].trx] = Apply(db[arg[c].trx], arg[c].fn)]
        BY <1>6, CommitUpdates
    <2>3. Atomic!Applied(c, how)
        BY <1>6, <2>1, <2>2, SameData DEF Commit, Atomic!Applied, Call
    <2> QED BY <2>3 DEF Atomic!Next
<1>7. ASSUME NEW c \in Clients, Conflict(c)
      PROVE  Atomic!Next \/ UNCHANGED <<db, Call, arg>>
    <2>1. Call[c] = "pending" /\ phase[c] \in InCall
        BY <1>7, CallValue DEF Conflict, InCall
    <2>2. CASE tries[c] + 1 < MaxRetries
        <3>1. Call' = [Call EXCEPT ![c] = "pending"]
            BY <1>7, <2>2, CallStep DEF Conflict, End, InCall
        <3> QED BY <1>7, <2>1, <3>1 DEF Conflict, Call
    <2>3. CASE ~(tries[c] + 1 < MaxRetries)
        <3>1. Call' = [Call EXCEPT ![c] = "error"]
            BY <1>7, <2>3, CallStep DEF Conflict, End, InCall
        <3>2. Atomic!Failed(c)
            BY <1>7, <2>1, <3>1 DEF Conflict, Atomic!Failed, Call
        <3> QED BY <3>2 DEF Atomic!Next
    <2> QED BY <2>2, <2>3
<1>8. ASSUME NEW c \in Clients, Return(c) PROVE Atomic!Next
    <2>1. Call[c] \in {"ok", "error"} /\ Call' = [Call EXCEPT ![c] = "idle"]
        BY <1>8, CallValue, CallStep DEF Return, Ended, InCall
    <2>2. Atomic!Return(c)
        BY <1>8, <2>1 DEF Return, Atomic!Return, Call
    <2> QED BY <2>2 DEF Atomic!Next
<1>9. ASSUME NEW t \in TrxIDs, Expire(t) PROVE Atomic!Next
    <2>1. UNCHANGED Call
        BY <1>9 DEF Expire, Call
    <2>2. Atomic!Expire(t)
        BY <1>9, <2>1 DEF Expire, Atomic!Expire, Call
    <2> QED BY <2>2 DEF Atomic!Next
<1>10. ASSUME NEW t \in TrxIDs, Touch(t) PROVE UNCHANGED <<db, Call, arg>>
    BY <1>10 DEF Touch, Call
<1>11. CASE UNCHANGED storeVars
    BY <1>11 DEF storeVars, Call
<1>12. ASSUME NEW c \in Clients, GetNil(c) \/ Fault(c) PROVE Atomic!Next
    BY <1>12, <1>4 DEF GetNil, Fault, End, InCall
<1> QED
    BY <1>1, <1>2, <1>3, <1>5, <1>6, <1>7, <1>8, <1>9, <1>10, <1>11, <1>12
       DEF StoreNext, UpdateStep, Exec, FaultAfterExec

\* RedisTransactionStore keeps the promise of the TransactionStore
\* interface: its Update behaves like one indivisible update of the record.
THEOREM Refinement == StoreSpec => ImplementsAtomicStore
BY RefinementInit, RefinementStep, TypeInvHolds, NoLostUpdate, PTL
   DEF StoreSpec, ImplementsAtomicStore, Atomic!Spec
=============================================================================
