----------------------- MODULE RedisTransactionStore -----------------------
(***************************************************************************)
(* RedisTransactionStore (internal/store/redis_transaction_store.go): one  *)
(* Redis key per trx_id, written blindly by Store and by optimistic        *)
(* locking in Update.  Every action is one command as Redis executes it,   *)
(* so that other clients' commands fall between the WATCH, the GET and     *)
(* the MULTI/EXEC of an Update.                                            *)
(*                                                                         *)
(* Redis keeps no version of a key: WATCH registers the connection, and a  *)
(* later write, EXPIRE or expiry of the key marks it dirty; EXEC of a      *)
(* dirty connection fails (redis.TxFailedErr).                             *)
(***************************************************************************)
EXTENDS Transactions, Naturals

CONSTANTS
    Clients,     \* the goroutines that call Update
    MaxRetries,  \* attempts of one Update (3 in the code)
    MaxRivals,   \* where the count of other clients' writes saturates
    NoCall       \* no Update in progress

ASSUME RetriesAssumption == MaxRetries \in Nat \ {0}
ASSUME RivalsAssumption == MaxRivals \in Nat /\ MaxRivals >= MaxRetries

Calls == [trx : TrxIDs, fn : Updates]
ASSUME NoCallAssumption == NoCall \notin Calls

VARIABLES
    db,      \* db[t]: the record under key transaction:t, or NoTx
    phase,   \* phase[c]: where c's Update is, or how it ended
    arg,     \* arg[c]: the arguments of that Update
    tries,   \* tries[c]: its failed attempts
    watch,   \* watch[c]: c's connection in Redis
    snap,    \* snap[c]: the record its last GET returned
    rivals   \* rivals[c]: history, writes of others to its key so far

storeVars == <<db, phase, arg, tries, watch, snap, rivals>>

InCall == {"watch", "get", "exec"}
Ended == {"ok", "error", "exhausted"}

StoreTypeOK ==
    /\ db \in [TrxIDs -> Transaction \union {NoTx}]
    /\ phase \in [Clients -> {"idle"} \union InCall \union Ended]
    /\ arg \in [Clients -> Calls \union {NoCall}]
    /\ tries \in [Clients -> 0 .. MaxRetries]
    /\ watch \in [Clients -> {"off", "clean", "dirty"}]
    /\ snap \in [Clients -> Transaction \union {NoTx}]
    /\ rivals \in [Clients -> 0 .. MaxRivals]

StoreInit ==
    /\ db = [t \in TrxIDs |-> NoTx]
    /\ phase = [c \in Clients |-> "idle"]
    /\ arg = [c \in Clients |-> NoCall]
    /\ tries = [c \in Clients |-> 0]
    /\ watch = [c \in Clients |-> "off"]
    /\ snap = [c \in Clients |-> NoTx]
    /\ rivals = [c \in Clients |-> 0]

-----------------------------------------------------------------------------
\* watch after a write to key t: every connection watching t is dirty.
Signal(t) ==
    [c \in Clients |-> IF watch[c] = "clean" /\ arg[c].trx = t
                       THEN "dirty" ELSE watch[c]]

\* rivals after a write to key t.
Count(t) ==
    [c \in Clients |-> IF /\ phase[c] \in InCall
                          /\ arg[c].trx = t
                          /\ rivals[c] < MaxRivals
                       THEN rivals[c] + 1 ELSE rivals[c]]

\* Store: SET of a new record, whatever the key held.
Store(p) ==
    /\ db' = [db EXCEPT ![TrxOf[p]] = NewTransaction(p)]
    /\ watch' = Signal(TrxOf[p])
    /\ rivals' = Count(TrxOf[p])
    /\ UNCHANGED <<phase, arg, tries, snap>>

\* Update(t, u) is called.
Begin(c, t, u) ==
    /\ phase[c] = "idle"
    /\ phase' = [phase EXCEPT ![c] = "watch"]
    /\ arg' = [arg EXCEPT ![c] = [trx |-> t, fn |-> u]]
    /\ UNCHANGED <<db, tries, watch, snap, rivals>>

\* Mutant: the key is missing from the arguments of client.Watch.
WatchNothing(c) ==
    /\ phase[c] = "watch"
    /\ phase' = [phase EXCEPT ![c] = "get"]
    /\ UNCHANGED <<db, arg, tries, watch, snap, rivals>>

\* WATCH key.
Watch(c) ==
    /\ phase[c] = "watch"
    /\ watch' = [watch EXCEPT ![c] = "clean"]
    /\ phase' = [phase EXCEPT ![c] = "get"]
    /\ UNCHANGED <<db, arg, tries, snap, rivals>>

\* The function passed to client.Watch returns: its record goes out of
\* scope and the connection sends UNWATCH.
End(c, how) ==
    /\ phase' = [phase EXCEPT ![c] = how]
    /\ watch' = [watch EXCEPT ![c] = "off"]
    /\ snap' = [snap EXCEPT ![c] = NoTx]

\* GET key finds nothing: "transaction not found", which is not retried.
GetNil(c) ==
    /\ phase[c] = "get"
    /\ db[arg[c].trx] = NoTx
    /\ End(c, "error")
    /\ UNCHANGED <<db, arg, tries, rivals>>

\* GET key returns the record that updateFn is applied to.
Get(c) ==
    /\ phase[c] = "get"
    /\ db[arg[c].trx] # NoTx
    /\ snap' = [snap EXCEPT ![c] = db[arg[c].trx]]
    /\ phase' = [phase EXCEPT ![c] = "exec"]
    /\ UNCHANGED <<db, arg, tries, watch, rivals>>

\* The writes of a successful EXEC: SET key of the updated snapshot.
Commit(c) ==
    LET t == arg[c].trx IN
    /\ phase[c] = "exec"
    /\ watch[c] # "dirty"
    /\ db' = [db EXCEPT ![t] = Apply(snap[c], arg[c].fn)]
    /\ watch' = [Signal(t) EXCEPT ![c] = "off"]
    /\ snap' = [snap EXCEPT ![c] = NoTx]
    /\ rivals' = [Count(t) EXCEPT ![c] = rivals[c]]
    /\ UNCHANGED <<arg, tries>>

\* Mutant: SET outside MULTI/EXEC, which no dirty flag stops.
ExecBlindly(c) ==
    LET t == arg[c].trx IN
    /\ phase[c] = "exec"
    /\ db' = [db EXCEPT ![t] = Apply(snap[c], arg[c].fn)]
    /\ watch' = [Signal(t) EXCEPT ![c] = "off"]
    /\ rivals' = [Count(t) EXCEPT ![c] = rivals[c]]
    /\ phase' = [phase EXCEPT ![c] = "ok"]
    /\ snap' = [snap EXCEPT ![c] = NoTx]
    /\ UNCHANGED <<arg, tries>>

\* MULTI, SET, EXEC succeeds and Update returns nil.
Exec(c) ==
    /\ Commit(c)
    /\ phase' = [phase EXCEPT ![c] = "ok"]

\* Mutant: the loop bound is one attempt short.
ConflictShort(c) ==
    /\ phase[c] = "exec"
    /\ watch[c] = "dirty"
    /\ tries' = [tries EXCEPT ![c] = @ + 1]
    /\ End(c, IF tries[c] + 2 < MaxRetries THEN "watch" ELSE "exhausted")
    /\ UNCHANGED <<db, arg, rivals>>

\* Mutant: the attempt counter is not advanced on a conflict.
ConflictForever(c) ==
    /\ phase[c] = "exec"
    /\ watch[c] = "dirty"
    /\ End(c, IF tries[c] + 1 < MaxRetries THEN "watch" ELSE "exhausted")
    /\ UNCHANGED <<db, arg, tries, rivals>>

\* Mutant: the loop makes attempts beyond the bound.
ConflictRunsOn(c) ==
    /\ phase[c] = "exec"
    /\ watch[c] = "dirty"
    /\ tries' = [tries EXCEPT ![c] = @ + 1]
    /\ End(c, IF tries[c] <= MaxRetries THEN "watch" ELSE "exhausted")
    /\ UNCHANGED <<db, arg, rivals>>

\* Mutant: TxFailedErr is returned like any other error.
ConflictNotRetried(c) ==
    /\ phase[c] = "exec"
    /\ watch[c] = "dirty"
    /\ End(c, "error")
    /\ UNCHANGED <<db, arg, tries, rivals>>

\* EXEC fails on a dirty connection: the next attempt starts over with
\* WATCH, and the last one gives up with an error of its own.
Conflict(c) ==
    /\ phase[c] = "exec"
    /\ watch[c] = "dirty"
    /\ tries' = [tries EXCEPT ![c] = @ + 1]
    /\ End(c, IF tries[c] + 1 < MaxRetries THEN "watch" ELSE "exhausted")
    /\ UNCHANGED <<db, arg, rivals>>

\* Any command fails without effect: the error is returned, not retried.
Fault(c) ==
    /\ phase[c] \in InCall
    /\ End(c, "error")
    /\ UNCHANGED <<db, arg, tries, rivals>>

\* Mutant: the lost reply of EXEC counts as a conflict and is retried.
FaultAfterExecRetried(c) ==
    /\ Commit(c)
    /\ phase' = [phase EXCEPT ![c] =
          IF tries[c] + 1 < MaxRetries THEN "watch" ELSE "exhausted"]

\* EXEC takes effect and its reply is lost: Update returns an error.
FaultAfterExec(c) ==
    /\ Commit(c)
    /\ phase' = [phase EXCEPT ![c] = "error"]

\* The caller has the result.
Return(c) ==
    /\ phase[c] \in Ended
    /\ phase' = [phase EXCEPT ![c] = "idle"]
    /\ arg' = [arg EXCEPT ![c] = NoCall]
    /\ tries' = [tries EXCEPT ![c] = 0]
    /\ rivals' = [rivals EXCEPT ![c] = 0]
    /\ UNCHANGED <<db, watch, snap>>

\* The key's time to live runs out.
Expire(t) ==
    /\ db[t] # NoTx
    /\ db' = [db EXCEPT ![t] = NoTx]
    /\ watch' = Signal(t)
    /\ rivals' = Count(t)
    /\ UNCHANGED <<phase, arg, tries, snap>>

\* EXPIRE by the administrator: the record stays, its watchers are dirty.
Touch(t) ==
    /\ db[t] # NoTx
    /\ watch' = Signal(t)
    /\ rivals' = Count(t)
    /\ UNCHANGED <<db, phase, arg, tries, snap>>

-----------------------------------------------------------------------------
\* The steps an Update takes by itself.
UpdateStep(c) == Watch(c) \/ GetNil(c) \/ Get(c) \/ Exec(c) \/ Conflict(c)

StoreNext ==
    \/ \E p \in Posts : Store(p)
    \/ \E c \in Clients, t \in TrxIDs, u \in Updates : Begin(c, t, u)
    \/ \E c \in Clients : \/ UpdateStep(c)
                          \/ Fault(c)
                          \/ FaultAfterExec(c)
                          \/ Return(c)
    \/ \E t \in TrxIDs : Expire(t) \/ Touch(t)

StoreSpec == StoreInit /\ [][StoreNext]_storeVars

\* go-redis bounds every command by its dial, read and write time-outs.
FairStoreSpec == StoreSpec /\ \A c \in Clients : WF_storeVars(UpdateStep(c))

-----------------------------------------------------------------------------
(***************************************************************************)
(* Properties.                                                             *)
(***************************************************************************)

\* A connection that EXEC will not reject holds the record the key holds
\* now, so the SET of Update loses no other client's write.
CleanMeansFresh ==
    \A c \in Clients :
        phase[c] = "exec" /\ watch[c] # "dirty" => snap[c] = db[arg[c].trx]

\* Update gives up with "failed to update transaction after 3 retries" only
\* when others wrote its key at least MaxRetries times meanwhile.
RetryBudget ==
    \A c \in Clients : phase[c] = "exhausted" => rivals[c] >= MaxRetries

\* Whatever the order of timeouts, answers and new POSTs, no record says
\* SUCCESS or FAILED without the answer that says so, nor keeps an answer
\* while it is PENDING.
StatusMatchesData ==
    \A t \in TrxIDs : db[t] # NoTx => Consistent(db[t])

\* A stored answer leaves a record only with the record itself: by expiry,
\* or by a new POST that starts over.  No update drops it.
AnswersKept ==
    [][\A t \in TrxIDs :
          (db[t] # NoTx /\ db[t].data # NoData) =>
              \/ db'[t] = NoTx
              \/ \E p \in Posts : db'[t] = NewTransaction(p)
              \/ db'[t].data # NoData /\ db'[t].post = db[t].post]_storeVars

\* The commands an Update may still send: three for each attempt left, less
\* those of this attempt that have been answered.
StepsLeft(c) ==
    CASE phase[c] = "watch" -> 3 * (MaxRetries - tries[c])
      [] phase[c] = "get"   -> 3 * (MaxRetries - tries[c]) - 1
      [] phase[c] = "exec"  -> 3 * (MaxRetries - tries[c]) - 2
      [] OTHER -> 0

\* Every command brings its Update nearer to its end, and no write, expiry
\* or failure of others takes it further away: contention costs attempts,
\* of which there are finitely many.
UpdateAdvances ==
    [][\A c \in Clients :
          phase[c] \in InCall =>
              \/ StepsLeft(c)' \in 0 .. StepsLeft(c) - 1
              \/ UNCHANGED <<phase[c], tries[c]>>]_storeVars

\* Every Update returns, however often others write the key.
UpdateTerminates ==
    \A c \in Clients : phase[c] \in InCall ~> phase[c] \in Ended

-----------------------------------------------------------------------------
\* Update over WATCH, GET and MULTI/EXEC implements the indivisible Update:
\* it takes effect at its EXEC, and gives up as one more kind of error.
Atomic == INSTANCE AtomicStore WITH
    call <- [c \in Clients |->
                CASE phase[c] \in InCall -> "pending"
                  [] phase[c] = "exhausted" -> "error"
                  [] OTHER -> phase[c]]

ImplementsAtomicStore == Atomic!Spec
=============================================================================
