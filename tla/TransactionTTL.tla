--------------------------- MODULE TransactionTTL ---------------------------
(***************************************************************************)
(* How long transaction records live: the time to live that Store and      *)
(* Update give their key (internal/store/redis_transaction_store.go) and   *)
(* the administrator's requests to read and extend it                      *)
(* (internal/handlers/admin.go), three Redis commands each with time       *)
(* passing in between.  The integers keep the width they have in Go: a     *)
(* number of seconds is multiplied into a signed 64-bit count of           *)
(* nanoseconds.                                                            *)
(***************************************************************************)
EXTENDS GoDuration

CONSTANTS
    TrxIDs,       \* transaction identifiers
    DefaultTTL,   \* 24 h, the ttl of NewRedisTransactionStore
    Durations,    \* values of duration_seconds
    Admins,       \* calls of POST /api/v1/admin/transaction/{trx_id}/extend-ttl
    NoTrx,        \* a call that has not begun
    MaxWrites     \* bound: calls of Store and Update that take effect

ASSUME TTLAssumption ==
    /\ DefaultTTL \in Nat \ {0}
    /\ Durations \subseteq -HalfWord .. HalfWord - 1
    /\ MaxWrites \in Nat
    /\ NoTrx \notin TrxIDs

\* What Redis answers to TTL for a missing key and for one without expiry.
Missing == -2
Eternal == -1

VARIABLES
    ttl,      \* ttl[t]: seconds left, Missing or Eternal
    writes,   \* how many Stores and Updates took effect
    age,      \* age[t]: history, seconds since the last one (saturates)
    touched,  \* touched[t]: history, EXPIRE ran since the last one
    at,       \* at[a]: the next command of request a
    trx,      \* trx[a], duration[a]: its arguments
    duration,
    code,     \* code[a], newTTL[a]: its response
    newTTL

keyVars == <<ttl, writes, age, touched>>
adminVars == <<at, trx, duration, code, newTTL>>
vars == <<keyVars, adminVars>>

-----------------------------------------------------------------------------
\* Mutant: the count of nanoseconds is sent as seconds.
ExpireNanos(d) == Nanos(d)

\* time.Duration(d) * time.Second, then the whole seconds of it that go-redis
\* sends with EXPIRE: rounded towards zero, but at least 1 if positive.
ExpireSeconds(d) ==
    LET nanos == Nanos(d) IN
    CASE nanos > 0 /\ nanos < PerSecond -> 1
      [] nanos >= PerSecond -> nanos \div PerSecond
      [] OTHER -> -((-nanos) \div PerSecond)

\* The longest life a key can get.
LongestLife == IF MostSeconds > DefaultTTL THEN MostSeconds ELSE DefaultTTL

TypeOK ==
    /\ ttl \in [TrxIDs -> {Missing, Eternal} \union 1 .. LongestLife]
    /\ writes \in 0 .. MaxWrites
    /\ age \in [TrxIDs -> 0 .. DefaultTTL]
    /\ touched \in [TrxIDs -> BOOLEAN]
    /\ at \in [Admins -> {"new", "exists", "expire", "ttl", "done"}]
    /\ trx \in [Admins -> TrxIDs \union {NoTrx}]
    /\ duration \in [Admins -> Durations \union {0}]
    /\ code \in [Admins -> {"none", "200", "400", "404", "500"}]
    /\ newTTL \in [Admins -> 0 .. LongestLife]

Init ==
    /\ ttl = [t \in TrxIDs |-> Missing]
    /\ writes = 0
    /\ age = [t \in TrxIDs |-> DefaultTTL]
    /\ touched = [t \in TrxIDs |-> FALSE]
    /\ at = [a \in Admins |-> "new"]
    /\ trx = [a \in Admins |-> NoTrx]
    /\ duration = [a \in Admins |-> 0]
    /\ code = [a \in Admins |-> "none"]
    /\ newTTL = [a \in Admins |-> 0]

-----------------------------------------------------------------------------
\* The store.  SET with an expiry replaces whatever expiry the key had.
SetWithTTL(t, life) ==
    /\ writes < MaxWrites
    /\ writes' = writes + 1
    /\ ttl' = [ttl EXCEPT ![t] = life]
    /\ age' = [age EXCEPT ![t] = 0]
    /\ touched' = [touched EXCEPT ![t] = FALSE]
    /\ UNCHANGED adminVars

\* Store of a new transaction.
Store(t) == SetWithTTL(t, DefaultTTL)

\* Mutant: the rewritten record keeps the time its predecessor had left.
UpdateKeepingTTL(t) ==
    /\ ttl[t] # Missing
    /\ SetWithTTL(t, ttl[t])

\* Mutant: the rewritten record has no expiry.
UpdateForever(t) ==
    /\ ttl[t] # Missing
    /\ SetWithTTL(t, Eternal)

\* Update of an existing one: it starts its life anew, extended or not.
Update(t) ==
    /\ ttl[t] # Missing
    /\ SetWithTTL(t, DefaultTTL)

\* A second passes.
Tick ==
    /\ ttl' = [t \in TrxIDs |-> IF ttl[t] > 1 THEN ttl[t] - 1
                                ELSE IF ttl[t] = 1 THEN Missing
                                ELSE ttl[t]]
    /\ age' = [t \in TrxIDs |-> IF age[t] < DefaultTTL THEN age[t] + 1
                                ELSE age[t]]
    /\ UNCHANGED <<writes, touched, adminVars>>

-----------------------------------------------------------------------------
\* The administrator's requests.

\* GetTransactionTTL: TTL, and -2 is a 404.
GetTransactionTTL(t) ==
    IF ttl[t] = Missing THEN [code |-> "404", seconds |-> 0, expires |-> FALSE]
    ELSE [code |-> "200",
          seconds |-> IF ttl[t] = Eternal THEN 0 ELSE ttl[t],
          expires |-> ttl[t] > 0]

Answer(a, c) ==
    /\ at' = [at EXCEPT ![a] = "done"]
    /\ code' = [code EXCEPT ![a] = c]

\* ExtendTransactionTTL: a duration that is not positive is a 400.
ExtendBegin(a, t, d) ==
    /\ at[a] = "new"
    /\ trx' = [trx EXCEPT ![a] = t]
    /\ duration' = [duration EXCEPT ![a] = d]
    /\ IF d <= 0 THEN Answer(a, "400")
                 ELSE at' = [at EXCEPT ![a] = "exists"] /\ UNCHANGED code
    /\ UNCHANGED <<keyVars, newTTL>>

\* EXISTS: no such key is a 404.
ExtendExists(a) ==
    /\ at[a] = "exists"
    /\ IF ttl[trx[a]] = Missing
       THEN Answer(a, "404")
       ELSE at' = [at EXCEPT ![a] = "expire"] /\ UNCHANGED code
    /\ UNCHANGED <<keyVars, trx, duration, newTTL>>

\* EXPIRE sets the expiry of a key that is still there, and deletes the key
\* if the number is not positive.
Expire(t, seconds) ==
    /\ ttl' = [ttl EXCEPT ![t] = IF ttl[t] # Missing /\ seconds > 0
                                 THEN seconds ELSE Missing]
    /\ touched' = [touched EXCEPT ![t] = TRUE]
    /\ UNCHANGED <<writes, age>>

\* EXPIRE; that nothing was there is not looked at.
ExtendExpire(a) ==
    /\ at[a] = "expire"
    /\ Expire(trx[a], ExpireSeconds(duration[a]))
    /\ at' = [at EXCEPT ![a] = "ttl"]
    /\ UNCHANGED <<trx, duration, code, newTTL>>

\* TTL: a 200 with the time left, whatever it is; the -1 ns and -2 ns of
\* go-redis are 0 seconds.
ExtendReport(a) ==
    LET left == ttl[trx[a]] IN
    /\ at[a] = "ttl"
    /\ Answer(a, "200")
    /\ newTTL' = [newTTL EXCEPT ![a] = IF left < 0 THEN 0 ELSE left]
    /\ UNCHANGED <<keyVars, trx, duration>>

\* One of the three commands fails: a 500.  An EXPIRE may have taken effect.
ExtendFails(a) ==
    /\ at[a] \in {"exists", "expire", "ttl"}
    /\ \/ UNCHANGED keyVars
       \/ at[a] = "expire" /\ Expire(trx[a], ExpireSeconds(duration[a]))
    /\ Answer(a, "500")
    /\ UNCHANGED <<trx, duration, newTTL>>

ExtendStep(a) ==
    ExtendExists(a) \/ ExtendExpire(a) \/ ExtendReport(a) \/ ExtendFails(a)

Next ==
    \/ \E t \in TrxIDs : Store(t) \/ Update(t)
    \/ Tick
    \/ \E a \in Admins : \/ \E t \in TrxIDs, d \in Durations : ExtendBegin(a, t, d)
                         \/ ExtendStep(a)

Spec == Init /\ [][Next]_vars

\* Time passes.
FairSpec == Spec /\ WF_vars(Tick)

-----------------------------------------------------------------------------
(***************************************************************************)
(* Properties.                                                             *)
(***************************************************************************)

\* An answer can be polled for a full DefaultTTL after it was stored, unless
\* the administrator changed the expiry: the Update that stores it renews
\* the life that the POST began.
RecordStaysADay ==
    \A t \in TrxIDs :
        ~touched[t] /\ age[t] < DefaultTTL => ttl[t] = DefaultTTL - age[t]

\* Every record the administrator sees disappears at last: no sequence of
\* updates and extensions leaves one behind without an expiry.
RecordsExpire ==
    \A t \in TrxIDs : GetTransactionTTL(t).code = "200"
                        ~> GetTransactionTTL(t).code = "404"

\* Up to the largest number of seconds whose nanoseconds fit, EXPIRE gives a
\* record that is still there exactly the time that was asked for.
ExtensionIsExact ==
    [][\A a \in Admins :
          (/\ at[a] = "expire"
           /\ at'[a] = "ttl"
           /\ ttl[trx[a]] # Missing
           /\ duration[a] <= MostSeconds) =>
              ttl'[trx[a]] = duration[a]]_vars

-----------------------------------------------------------------------------
\* internal/handlers/admin.go:229-230: ExtendTransactionTTL "extends the TTL
\* for a transaction by the specified duration".
ExtensionExtends ==
    [][\A a \in Admins :
          at[a] = "expire" /\ at'[a] = "ttl" => ttl'[trx[a]] >= ttl[trx[a]]]_vars
=============================================================================
