---------------------------- MODULE AtomicStore ----------------------------
(***************************************************************************)
(* What TransactionStore (internal/store/store.go, the interface) promises *)
(* its callers: Update applies its function to the record in one           *)
(* indivisible step, at some moment between call and return, or not at     *)
(* all.  An Update that returns nil was applied; one that returns an error *)
(* may have been, because the reply of the last command can get lost.      *)
(* A crash of the callers takes no record and no finished update back.     *)
(***************************************************************************)
EXTENDS Transactions

CONSTANTS Clients, NoCall

VARIABLES
    db,    \* db[t]: the record of t, or NoTx
    call,  \* call[c]: "idle", "pending", "ok" or "error"
    arg    \* arg[c]: the arguments of c's Update

vars == <<db, call, arg>>

Init ==
    /\ db = [t \in TrxIDs |-> NoTx]
    /\ call = [c \in Clients |-> "idle"]
    /\ arg = [c \in Clients |-> NoCall]

Store(p) ==
    /\ db' = [db EXCEPT ![TrxOf[p]] = NewTransaction(p)]
    /\ UNCHANGED <<call, arg>>

Begin(c, t, u) ==
    /\ call[c] = "idle"
    /\ call' = [call EXCEPT ![c] = "pending"]
    /\ arg' = [arg EXCEPT ![c] = [trx |-> t, fn |-> u]]
    /\ UNCHANGED db

Applied(c, how) ==
    LET t == arg[c].trx IN
    /\ call[c] = "pending"
    /\ db[t] # NoTx
    /\ db' = [db EXCEPT ![t] = Apply(db[t], arg[c].fn)]
    /\ call' = [call EXCEPT ![c] = how]
    /\ UNCHANGED arg

Failed(c) ==
    /\ call[c] = "pending"
    /\ call' = [call EXCEPT ![c] = "error"]
    /\ UNCHANGED <<db, arg>>

Return(c) ==
    /\ call[c] \in {"ok", "error"}
    /\ call' = [call EXCEPT ![c] = "idle"]
    /\ arg' = [arg EXCEPT ![c] = NoCall]
    /\ UNCHANGED db

Expire(t) ==
    /\ db[t] # NoTx
    /\ db' = [db EXCEPT ![t] = NoTx]
    /\ UNCHANGED <<call, arg>>

\* The callers die with the process they run in: what they wrote stays, and
\* a call they were in took place before or never will.
Crash ==
    /\ call' = [c \in Clients |-> "idle"]
    /\ arg' = [c \in Clients |-> NoCall]
    /\ UNCHANGED db

Next ==
    \/ \E p \in Posts : Store(p)
    \/ \E c \in Clients, t \in TrxIDs, u \in Updates : Begin(c, t, u)
    \/ \E c \in Clients : \/ \E how \in {"ok", "error"} : Applied(c, how)
                          \/ Failed(c)
                          \/ Return(c)
    \/ \E t \in TrxIDs : Expire(t)

Spec == Init /\ [][Next]_vars

\* The store of a process that may crash and start again.
CrashSpec == Init /\ [][Next \/ Crash]_vars
=============================================================================
