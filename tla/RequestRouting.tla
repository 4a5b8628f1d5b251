--------------------------- MODULE RequestRouting ---------------------------
(***************************************************************************)
(* The Redis keys administrators control and what requests read of them:   *)
(* the terminal of each merchant and terminal id (MID/TID) pair            *)
(* (internal/mapper/redis_mapper.go, internal/handlers/admin.go) and the   *)
(* transaction hold (internal/handlers/hold.go).  Creating, deleting and   *)
(* holding are one command each; a migration is a GET and a SET for every  *)
(* configured pair, with anything in between.                              *)
(***************************************************************************)
EXTENDS Naturals, FiniteSets

CONSTANTS
    Pairs,       \* well-formed "mid:tid" keys
    Malformed,   \* keys of MIDTID_MAPPINGS that are not "mid:tid"
    Serials,     \* terminals
    NoSerial,    \* no mapping (redis.Nil)
    Config,      \* MIDTID_MAPPINGS: a function from some keys to terminals
    Migrations,  \* calls of POST /api/v1/admin/migrate
    Requests,    \* calls of POST /api/v1/transaction
    PairOf,      \* the pair each request names
    NoPair,      \* a migration between two keys
    MaxFaults    \* bound: failures of a Redis command

ASSUME RoutingAssumption ==
    /\ Pairs \intersect Malformed = {}
    /\ IsFiniteSet(Pairs \union Malformed)
    /\ DOMAIN Config \subseteq Pairs \union Malformed
    /\ \A k \in DOMAIN Config : Config[k] \in Serials
    /\ PairOf \in [Requests -> Pairs]
    /\ NoSerial \notin Serials
    /\ NoPair \notin Pairs
    /\ MaxFaults \in Nat

VARIABLES
    mapping,    \* mapping[k]: the value of mapping:mid:{mid}:tid:{tid}
    hold,       \* qa:transaction_hold is "true"
    faults,     \* how many commands failed
    state,      \* state[m]: where migration m is
    force,      \* force[m]: its force flag
    todo,       \* todo[m]: the keys its loop has not reached
    at,         \* at[m]: the pair its SET is due for
    succeeded,  \* succeeded[m], failed[m]: its counts
    failed,
    before,     \* before[m]: history, the mappings when m began
    edited,     \* edited[m]: history, the pairs others wrote since then
    step,       \* step[r]: where request r is
    serial,     \* serial[r]: the terminal it looked up
    heldThrough, \* heldThrough[r]: history, the hold was on since r arrived
    assigned    \* assigned[r]: history, what the pair of r was mapped to from
                \* its arrival to its lookup

mapVars == <<mapping, assigned, hold, faults>>
migrationVars == <<state, force, todo, at, succeeded, failed, before, edited>>
requestVars == <<step, serial, heldThrough>>
vars == <<mapVars, migrationVars, requestVars>>

Mappings == [Pairs -> Serials \union {NoSerial}]

TypeOK ==
    /\ mapping \in Mappings
    /\ hold \in BOOLEAN
    /\ faults \in 0 .. MaxFaults
    /\ state \in [Migrations -> {"new", "loop", "done"}]
    /\ force \in [Migrations -> BOOLEAN]
    /\ todo \in [Migrations -> SUBSET DOMAIN Config]
    /\ at \in [Migrations -> Pairs \union {NoPair}]
    /\ succeeded \in [Migrations -> Nat]
    /\ failed \in [Migrations -> Nat]
    /\ before \in [Migrations -> Mappings]
    /\ edited \in [Migrations -> SUBSET Pairs]
    /\ step \in [Requests -> {"new", "lookup", "hold", "publish", "published",
                              "held", "refused"}]
    /\ serial \in [Requests -> Serials \union {NoSerial}]
    /\ heldThrough \in [Requests -> BOOLEAN]
    /\ assigned \in [Requests -> SUBSET (Serials \union {NoSerial})]

Init ==
    /\ mapping = [k \in Pairs |-> NoSerial]
    /\ hold = FALSE
    /\ faults = 0
    /\ state = [m \in Migrations |-> "new"]
    /\ force = [m \in Migrations |-> FALSE]
    /\ todo = [m \in Migrations |-> {}]
    /\ at = [m \in Migrations |-> NoPair]
    /\ succeeded = [m \in Migrations |-> 0]
    /\ failed = [m \in Migrations |-> 0]
    /\ before = [m \in Migrations |-> mapping]
    /\ edited = [m \in Migrations |-> {}]
    /\ step = [r \in Requests |-> "new"]
    /\ serial = [r \in Requests |-> NoSerial]
    /\ heldThrough = [r \in Requests |-> FALSE]
    /\ assigned = [r \in Requests |-> {}]

-----------------------------------------------------------------------------
\* One more Redis command fails.
Failure ==
    /\ faults < MaxFaults
    /\ faults' = faults + 1

\* Every migration that began, but those in mine, sees k written by another.
Edit(k, mine) ==
    edited' = [m \in Migrations |-> IF state[m] # "new" /\ m \notin mine
                                    THEN edited[m] \union {k} ELSE edited[m]]

\* The key of pair k is written; s is NoSerial for a DEL.
Write(k, s) ==
    /\ mapping' = [mapping EXCEPT ![k] = s]
    /\ assigned' = [r \in Requests |->
          IF step[r] = "lookup" /\ PairOf[r] = k THEN assigned[r] \union {s}
                                                ELSE assigned[r]]

\* Administrators.

\* CreateOrUpdateMapping: a SET without time to live.  (A command of these
\* three that fails has this effect or none.)
SetMapping(k, s) ==
    /\ Write(k, s)
    /\ Edit(k, {})
    /\ UNCHANGED <<hold, faults, state, force, todo, at, succeeded, failed,
                   before, requestVars>>

\* DeleteMapping: a DEL, which succeeds whether or not the key exists.
DeleteMapping(k) ==
    /\ Write(k, NoSerial)
    /\ Edit(k, {})
    /\ UNCHANGED <<hold, faults, state, force, todo, at, succeeded, failed,
                   before, requestVars>>

\* SetHold switches the hold.
SetHold(on) ==
    /\ hold' = on
    /\ heldThrough' = [r \in Requests |-> heldThrough[r] /\ on]
    /\ UNCHANGED <<mapping, assigned, faults, migrationVars, step, serial>>

\* MigrateMapping reads its force flag and starts on the configured keys.
MigrateBegin(m, f) ==
    /\ state[m] = "new"
    /\ state' = [state EXCEPT ![m] = "loop"]
    /\ force' = [force EXCEPT ![m] = f]
    /\ todo' = [todo EXCEPT ![m] = DOMAIN Config]
    /\ before' = [before EXCEPT ![m] = mapping]
    /\ UNCHANGED <<mapVars, at, succeeded, failed, edited, requestVars>>

\* The loop takes the next key, in the random order of a Go map.
NextKey(m, k) ==
    /\ state[m] = "loop"
    /\ at[m] = NoPair
    /\ k \in todo[m]
    /\ todo' = [todo EXCEPT ![m] = @ \ {k}]

\* Mutant: a key that is not "mid:tid" is not told apart.
MigrateMalformedTaken(m, k) ==
    /\ NextKey(m, k)
    /\ k \in Malformed
    /\ at' = [at EXCEPT ![m] = k]
    /\ UNCHANGED <<mapVars, state, force, succeeded, failed, before, edited,
                   requestVars>>

\* A key that is not "mid:tid" is an error.
MigrateMalformed(m, k) ==
    /\ NextKey(m, k)
    /\ k \in Malformed
    /\ failed' = [failed EXCEPT ![m] = @ + 1]
    /\ UNCHANGED <<mapVars, state, force, at, succeeded, before, edited,
                   requestVars>>

\* Without force, a key whose GET returns a mapping is skipped.
MigrateSkip(m, k) ==
    /\ NextKey(m, k)
    /\ k \in Pairs
    /\ ~force[m]
    /\ mapping[k] # NoSerial
    /\ UNCHANGED <<mapVars, state, force, at, succeeded, failed, before,
                   edited, requestVars>>

\* Mutant: the condition on force is the wrong way round.
MigrateCheckAlways(m, k) ==
    /\ NextKey(m, k)
    /\ k \in Pairs
    /\ at' = [at EXCEPT ![m] = k]
    /\ UNCHANGED <<mapVars, state, force, succeeded, failed, before, edited,
                   requestVars>>

\* With force, or when the GET finds nothing or fails, a SET is due.
MigrateCheck(m, k) ==
    /\ NextKey(m, k)
    /\ k \in Pairs
    /\ \/ (force[m] \/ mapping[k] = NoSerial) /\ UNCHANGED faults
       \/ ~force[m] /\ Failure
    /\ at' = [at EXCEPT ![m] = k]
    /\ UNCHANGED <<mapping, assigned, hold, state, force, succeeded, failed,
                   before, edited, requestVars>>

\* SetMapping of the configured terminal.
MigrateSet(m) ==
    /\ at[m] # NoPair
    /\ Write(at[m], Config[at[m]])
    /\ succeeded' = [succeeded EXCEPT ![m] = @ + 1]
    /\ at' = [at EXCEPT ![m] = NoPair]
    /\ Edit(at[m], {m})
    /\ UNCHANGED <<hold, faults, state, force, todo, failed, before,
                   requestVars>>

\* Mutant: an error of SetMapping is not counted.
MigrateSetFailsSilently(m) ==
    /\ at[m] # NoPair
    /\ Failure
    /\ at' = [at EXCEPT ![m] = NoPair]
    /\ UNCHANGED <<mapping, assigned, hold, state, force, todo, succeeded,
                   failed, before, edited, requestVars>>

\* SetMapping fails, before or after its SET took effect: an error, and on
\* to the next key.
MigrateSetFails(m) ==
    /\ at[m] # NoPair
    /\ Failure
    /\ \/ Write(at[m], Config[at[m]]) /\ Edit(at[m], {m})
       \/ UNCHANGED <<mapping, assigned, edited>>
    /\ failed' = [failed EXCEPT ![m] = @ + 1]
    /\ at' = [at EXCEPT ![m] = NoPair]
    /\ UNCHANGED <<hold, state, force, todo, succeeded, before, requestVars>>

\* The response with the counts is written.
MigrateEnd(m) ==
    /\ state[m] = "loop"
    /\ at[m] = NoPair
    /\ todo[m] = {}
    /\ state' = [state EXCEPT ![m] = "done"]
    /\ UNCHANGED <<mapVars, force, todo, at, succeeded, failed, before,
                   edited, requestVars>>

-----------------------------------------------------------------------------
\* Requests, as far as they read these keys.

Arrive(r) ==
    /\ step[r] = "new"
    /\ step' = [step EXCEPT ![r] = "lookup"]
    /\ heldThrough' = [heldThrough EXCEPT ![r] = hold]
    /\ assigned' = [assigned EXCEPT ![r] = {mapping[PairOf[r]]}]
    /\ UNCHANGED <<mapping, hold, faults, migrationVars, serial>>

\* Mutant: the terminal comes from MIDTID_MAPPINGS, not from Redis.
LookupConfigured(r) ==
    /\ step[r] = "lookup"
    /\ PairOf[r] \in DOMAIN Config
    /\ serial' = [serial EXCEPT ![r] = Config[PairOf[r]]]
    /\ step' = [step EXCEPT ![r] = "hold"]
    /\ UNCHANGED <<mapVars, migrationVars, heldThrough>>

\* GetSerialNumber: one GET.
Lookup(r) ==
    /\ step[r] = "lookup"
    /\ mapping[PairOf[r]] # NoSerial
    /\ serial' = [serial EXCEPT ![r] = mapping[PairOf[r]]]
    /\ step' = [step EXCEPT ![r] = "hold"]
    /\ UNCHANGED <<mapVars, migrationVars, heldThrough>>

\* No mapping, or a Redis error: both are a 404.
LookupFails(r) ==
    /\ step[r] = "lookup"
    /\ \/ mapping[PairOf[r]] = NoSerial /\ UNCHANGED faults
       \/ Failure
    /\ step' = [step EXCEPT ![r] = "refused"]
    /\ UNCHANGED <<mapping, assigned, hold, migrationVars, serial, heldThrough>>

\* Mutant: the flag is compared with a value SetHold never writes.
CheckHoldNever(r) ==
    /\ step[r] = "hold"
    /\ step' = [step EXCEPT ![r] = "publish"]
    /\ UNCHANGED <<mapVars, migrationVars, serial, heldThrough>>

\* IsHoldEnabled: one GET.
CheckHold(r) ==
    /\ step[r] = "hold"
    /\ step' = [step EXCEPT ![r] = IF hold THEN "held" ELSE "publish"]
    /\ UNCHANGED <<mapVars, migrationVars, serial, heldThrough>>

\* The GET fails: not held.
CheckHoldFails(r) ==
    /\ step[r] = "hold"
    /\ Failure
    /\ step' = [step EXCEPT ![r] = "publish"]
    /\ UNCHANGED <<mapping, assigned, hold, migrationVars, serial, heldThrough>>

\* The payment message goes to the terminal that was looked up.
Publish(r) ==
    /\ step[r] = "publish"
    /\ step' = [step EXCEPT ![r] = "published"]
    /\ UNCHANGED <<mapVars, migrationVars, serial, heldThrough>>

-----------------------------------------------------------------------------
MigrateStep(m) ==
    \/ \E k \in DOMAIN Config : \/ MigrateMalformed(m, k)
                                \/ MigrateSkip(m, k)
                                \/ MigrateCheck(m, k)
    \/ MigrateSet(m) \/ MigrateSetFails(m) \/ MigrateEnd(m)

RequestStep(r) ==
    Lookup(r) \/ LookupFails(r) \/ CheckHold(r) \/ CheckHoldFails(r) \/ Publish(r)

Next ==
    \/ \E k \in Pairs : DeleteMapping(k) \/ \E s \in Serials : SetMapping(k, s)
    \/ \E on \in BOOLEAN : SetHold(on)
    \/ \E m \in Migrations : \/ \E f \in BOOLEAN : MigrateBegin(m, f)
                             \/ MigrateStep(m)
    \/ \E r \in Requests : Arrive(r) \/ RequestStep(r)

Spec == Init /\ [][Next]_vars

-----------------------------------------------------------------------------
(***************************************************************************)
(* Properties.                                                             *)
(***************************************************************************)

\* A migration without force leaves alone every mapping that was there when
\* it began and that nobody else wrote since, as long as Redis answers;
\* other migrations count as somebody else.
UnforcedMigrationKeeps ==
    faults = 0 =>
        \A m \in Migrations :
            state[m] # "new" /\ ~force[m] =>
                \A k \in Pairs \ edited[m] :
                    before[m][k] # NoSerial => mapping[k] = before[m][k]

\* A migration that reports no error but those of the malformed keys left
\* every configured pair that nobody else wrote meanwhile with a terminal,
\* with force its configured one.
MigrationReportIsHonest ==
    \A m \in Migrations :
        state[m] = "done" /\ failed[m] <= Cardinality(DOMAIN Config \ Pairs) =>
            \A k \in (DOMAIN Config \intersect Pairs) \ edited[m] :
                /\ mapping[k] # NoSerial
                /\ force[m] => mapping[k] = Config[k]

\* A request that arrives while the hold is on is not forwarded before the
\* hold is switched off, as long as Redis answers.
HoldStopsRequests ==
    faults = 0 =>
        \A r \in Requests :
            heldThrough[r] => step[r] \notin {"publish", "published"}

\* A payment goes to a terminal its pair had at some moment between the
\* request's arrival and its lookup, however often administrators and
\* migrations write the pair meanwhile; and only a request whose pair had
\* none at such a moment is refused, as long as Redis answers.
RoutedAsAssigned ==
    \A r \in Requests :
        /\ step[r] \in {"hold", "held", "publish", "published"} =>
              serial[r] \in assigned[r] \ {NoSerial}
        /\ step[r] = "refused" /\ faults = 0 => NoSerial \in assigned[r]

-----------------------------------------------------------------------------
\* internal/handlers/admin.go:146-150: without force an existing mapping is
\* skipped, also one that appears between the GET and the SET.
MigrationSkipsExisting ==
    [][\A m \in Migrations :
          (at[m] # NoPair /\ ~force[m] /\ at'[m] = NoPair) =>
              \/ mapping' = mapping
              \/ mapping[at[m]] = NoSerial]_vars
=============================================================================
