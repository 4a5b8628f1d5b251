# POSeLink payment middleware: TLA+ models and proofs

The middleware takes a payment request from a point of sale over HTTP, looks up
the card terminal (EDC) it belongs to, publishes a payment message to that
terminal through Ably, waits up to 60 s for the terminal's answer, and returns
the answer to the point of sale. All state that matters is in Redis. This
directory models that state and every step that changes it, checks the models
with TLC on small instances, and proves every safety property of theirs with TLAPS
for instances of any size.

## The system

| Component | State | Operations | Source |
|---|---|---|---|
| Transaction records | status, answer, request of each `trx_id` | the two update functions (answer, timeout) | `internal/models`, closures in `internal/handlers` |
| `RedisTransactionStore` | one Redis key per `trx_id`, 24 h to live | `Store` (blind SET), `Load` (GET), `Update` (WATCH, GET, MULTI/SET/EXEC, up to 3 attempts) | `internal/store/redis_transaction_store.go` |
| Payment handler | one goroutine per POST: where it is, its context | look up, store PENDING, check hold, publish, poll every 500 ms, time out | `internal/handlers/transaction.go` |
| Answer callback | the answer it handles | load, update with the answer, log | `internal/handlers/edc_response.go` |
| Ably client | payment messages and answers in flight | publish with 3 retries, subscribe, decrypt | `internal/ably/publisher.go` |
| MID/TID mapping | one key per pair, no expiry | get, set, delete, migrate from the configuration | `internal/mapper`, `internal/handlers/admin.go` |
| Transaction hold | one key | set, read (a failed read is "off") | `internal/handlers/hold.go` |
| TTL administration | expiry of transaction keys | read, extend (EXISTS, EXPIRE, TTL) | `internal/handlers/admin.go` |
| `SyncMapStore` | records in memory, a mutex per key | the same interface as the Redis store | `internal/store/store.go` |
| Process | the statement main is at, its open connections, the deadlines of requests | start (connect, subscribe, serve), signal, shutdown within 30 s, deferred closes | `main.go`, `internal/store/redis_client.go` |
| Encryption | none | AES-128-ECB with PKCS5 padding | `internal/crypto/aes.go` |
| Configuration | `TIMEOUT_DURATION` and other variables, read once | load | `internal/config` |
| Health, CORS, panic recovery, in-memory mapper | none that changes | | `internal/handlers`, `internal/mapper/mapper.go` |

How they interact: a handler and the callback never call each other. The handler
writes a PENDING record, publishes, and polls the record; the callback rewrites
the record when an answer arrives; the handler's own deadline rewrites it to
TIMEOUT. The administrator's EXPIRE and Redis's expiry touch the same key. So
everything hinges on one key with several unsynchronised writers:

    POST ──Store──▶  transaction:{trx_id}  ◀──Update── answer callback ◀── Ably ◀── EDC
      └──Load (poll), Update (timeout)──▶ ▲
                                          └── EXPIRE (administrator), expiry

What is hard about it: the race of deadline and answer; two requests with one
`trx_id`; the optimistic locking of `Update` and its bounded retries; publishes
whose acknowledgement is lost (the terminal is asked twice); answers that are
late, repeated or never come; commands that fail before or after they took
effect; a crash or forced shutdown in the middle of a wait; the check-then-set
of the migration; the server's own write deadline and the limit of its shutdown, both
of which a payment may outlast; and integers that wrap. `PROJECT.json` lists each of these at
its line under "hazards", with the properties that cover it, or a note that says why none does.

What makes each part correct: the store must lose no update and end every call;
a record's status must always agree with its answer; a client must get only its
own answer, must get exactly one response, and what it was told must stay true;
after a 408 the record must not be PENDING; a migration without force must keep
what is there; a hold must hold; a record must live its full period and then go; what runs must
find its connections open; a response must be written before the server's own
deadline; and every answer a terminal can encrypt must be readable.

## Modules

| Component | Specification | Abstract specification | Instance | Proofs |
|---|---|---|---|---|
| records and answers | `Transactions` | | | |
| Redis store | `RedisTransactionStore` | `AtomicStore` | `MCRedisTransactionStore` | `RedisTransactionStoreProofs` |
| handlers, callback, Ably | `PaymentMiddleware` | `PaymentLifecycle` | `MCPaymentMiddleware` | `PaymentMiddlewareProofs`, `PaymentLifecycleProofs` |
| mapping and hold | `RequestRouting` | | `MCRequestRouting` | `RequestRoutingProofs` |
| expiry | `TransactionTTL`, `GoDuration` | | `MCTransactionTTL` | `TransactionTTLProofs` |
| in-memory store | `SyncMapStore` | `AtomicStore` | `MCSyncMapStore` | `SyncMapStoreProofs` |
| process, time of requests | `ServerProcess`, `GoDuration` | | `MCServerProcess` | `ServerProcessProofs` |
| encryption | `AnswerCipher` | | | in the module |

**`Transactions`** is the data: POSTs (`Posts`, each carrying the `trx_id`
`TrxOf[p]`), answers (`EDCResponse`: which POST's message is answered, and the
status word), records, `StatusFor` (which words mean success) and `Apply` (both
update functions). A timeout changes the status only, an answer changes status
and data, and neither looks at the status it replaces; that is how the code is.

**`RedisTransactionStore`** EXTENDS it. `db` is Redis; `phase`, `arg`, `tries`,
`watch` and `snap` are what an `Update` of one goroutine has on its stack and on
its connection. One action is one Redis command: `Watch`, `Get`/`GetNil`, `Exec`
(MULTI, SET and EXEC travel together), `Conflict` (EXEC refused:
`redis.TxFailedErr`), `Fault` (a command fails without effect) and
`FaultAfterExec` (EXEC took effect, its reply was lost). `Store` is a SET,
`Touch` an EXPIRE, `Expire` an expiry. `Signal` is Redis's rule that any write of
a watched key marks the watching connection dirty. `rivals` is a history
variable: writes by others to the key during the call.

**`AtomicStore`** is what the `TransactionStore` interface promises: `Update` is
one indivisible application of its function, or an error. Its instance `Atomic`
in `RedisTransactionStore` maps a call that is anywhere inside the loop to
"pending", and a call that ran out of retries to an error. `Crash` ends the calls and
undoes nothing; `CrashSpec` is the store of a process that may crash, which is what the
whole middleware is shown to have (`StoreIsAtomic`).

**`PaymentMiddleware`** EXTENDS the store: the goroutines that call `Update` are
the handlers (`Posts`) and the callback's goroutines (`Workers`). `pc[p]` names
the next command of a handler:

| Code | Actions |
|---|---|
| request arrives, 400 | `Receive` |
| `GetSerialNumber`, 404 | `Lookup` (the mapping itself is in `RequestRouting`) |
| `store.Store`, 500 | `StoreTransaction`, `StoreFails` |
| `IsHoldEnabled` | `CheckHold` |
| `PublishPaymentRequest`, 503 | `Publish`, `PublishFails` |
| a tick of the polling loop | `Poll`, `PollFails` |
| the context ends | `Deadline` (only once the wait began), `Disconnect` (any time) |
| `ctx.Done` branch, 408 | `TimeoutBegin`, steps of `Update`, `TimeoutReply` |
| `GET .../status/{trx_id}` | the operator `StatusResponse` |
| Ably delivers, or the answer is unreadable | `Deliver`, `Discard` |
| `HandleEDCResponse` | `CallbackLoad`, steps of `Update`, `CallbackReturn`; `CallbackDrops` |
| the process | `Crash`, `Restart` |
| environment | `EdcAnswer`, `ChangeTTL` |

`select` picks among ready branches at random, so once the context has ended a
handler may still poll first; both orders are in the model. A lost
acknowledgement is the disjunct of `PublishFails` that delivers. The status
endpoint and `GetTransactionTTL`, which only read, are operators on the state.

**`PaymentLifecycle`** is what the middleware promises to clients and terminals about
one payment, without store, goroutine, retry or time-out: a request is new, checking,
pending or ended; only a pending one makes the terminal ask for a payment; a refusal
(400, 404, "not stored") means that the terminal never hears of it; a 200 carries an
answer a terminal gave for that trx_id. Its instance `Lifecycle` in `PaymentMiddleware`
maps `pc` to the stage ("lookup" and "store" are checking; "hold", "publish", "poll" and
"timeout" pending), the messages at the terminal to `asked` and the answers to `given`. Two consequences are stated there for
clients: who is refused is not charged (`RefusalIsClean`, which `PaymentMiddleware` takes
over as `NoPaymentAfterRefusal`), and no request is answered twice (`ResponseIsFinal`,
`OneResponse`).

**`RequestRouting`** has the two keys an administrator controls. A migration is
`MigrateBegin`, then for each configured key, in any order, `MigrateMalformed`,
`MigrateSkip` or `MigrateCheck` followed by `MigrateSet`/`MigrateSetFails`, then
`MigrateEnd`. Requests appear only as far as they read these keys. `before`,
`edited`, `heldThrough` and `assigned` are history; `Write` is a SET or DEL of a mapping,
which `assigned` records for the requests that are about to look that pair up.

**`GoDuration`** is `time.Duration`: `Wrap` is a signed word, `Nanos` the product
`time.Duration(n) * time.Second` in it.

**`TransactionTTL`** EXTENDS it and models expiry in seconds. `ExpireSeconds` is what
go-redis sends of a duration. `GetTransactionTTL` and `ExtendTransactionTTL` are its requests,
the latter in three commands.

**`SyncMapStore`** is the in-memory store at the grain of memory accesses. The
two assignments of an update function are unordered for a reader without the
mutex (a data race), so either may become visible first. It implements `AtomicStore` too
(its instance `Atomic`): an `Update` takes effect at the first assignment of its function,
and until the last one the record counts as what it is going to be (`Stored`). That
needs `UniqueTrxIDs`: with a `trx_id` that is used again, a Store between `LoadRecord` and
`StoreBack` is undone by the pointer that goes back into the map. TLC finds that behaviour
when two POSTs share a `trx_id`; Redis's store has no such case, for EXEC would be refused.

**`ServerProcess`** is the process around the handlers. `main` names the next statement
of the main goroutine:

| Code | Actions |
|---|---|
| `config.LoadConfig` | `LoadConfig`, `LoadConfigFails` |
| `NewRedisClient` | `Connect`, `PingFails` (and its pause), `GiveUp` |
| `NewAblyClient`, `SubscribeToResponses` | `InitAbly`, `Subscribe`, `AblyFails` |
| `go ListenAndServe` | `Listen`, `ServeFails` (at any time from then on) |
| `signal.Notify`, a signal | `Notify`; `SignalKills` before it, `Shutdown` after it |
| `server.Shutdown` returns | `Drained`, `DrainExpires` |
| deferred calls, return of main | `CloseAbly`, `CloseRedis`, `Exit` |
| a request in the server | `Dial`, `Accept`, `Prepared`, `Published`, `PublishFails`, `Decided`, `TimedOut`, `TimeoutDone`, `Respond` |
| a connection that Shutdown takes for idle | `SlipIn` |
| the end of `r.Context()` | `Cancel` |

Time passes by `Tick`, and never past something that is due: `left` is what a request's
command, attempt or wait may still take, `age` counts from the write deadline's start, and
`slow` is the part of it spent outside the wait. One unit is 15 s, the smallest difference between
the periods of main.go (60, 15 and 30 s), so that the write deadline is five units and
`Grace` two. The pauses between the first pings are counted in seconds, as no request runs
then. `TIMEOUT_DURATION` is a number or no number, and goes through the conversions of
config.go, transaction.go and main.go (`Nanos`, `Patience`, `WriteTimeout`).

Two things happen in net/http without a line of src/, and the code depends on both:

- The handler's context is derived from `r.Context()` (transaction.go:104), which net/http
  cancels when it notices that the client's connection has ended. `Cancel` may happen at any
  moment of a wait (a cancellation before the wait counts from its first moment, as nobody
  looks at the context earlier), and `TimedOut` is then due at once, or the poll decides first.
- `server.Shutdown` closes the listener and the connections that have no request, but leaves
  those alone that were accepted less than 5 s ago (`HeaderGrace`): their first request is
  served and waited for (`Accept` in "drain"). A connection counts as idle until its header
  has been read and the connection been marked active, so one that Shutdown closes in between
  has a handler all the same, which Shutdown does not wait for: `SlipIn`, which clears
  `seen`. `Watched` is who is in the server and waited for.

After a forced shutdown the deferred closes run under handlers that still wait: their next
poll fails and they answer "transaction not found" (`Decided`), or `Exit` cuts them.

**`AnswerCipher`** defines PKCS5 padding, its removal and ECB mode as functions on byte
sequences, with AES as an arbitrary pair of inverse functions on blocks, and proves what is
needed of them. There is nothing to run: the code has no state.

The `...Proofs` modules hold the theorems.

Operators whose comment begins with "Mutant" are deliberately broken variants of
the definition that follows them. No specification uses them: they exist to show
that each property is violated when the code has that bug (see `PROJECT.json`,
"mutants").

## Runs

| Run | Instance | What it shows |
|---|---|---|
| `store` | 2 goroutines, 1 key, 1 POST, 2 answers, 3 attempts, writes unbounded | No lost update (`CleanMeansFresh`), retries are spent only on foreign writes (`RetryBudget`), status and answer agree (`StatusMatchesData`), answers are kept (`AnswersKept`), each command brings its `Update` nearer to its end (`UpdateAdvances`), refinement of `AtomicStore`, every `Update` ends |
| `shared_trx_id` | 2 POSTs with one `trx_id`, no failures, 2 EXPIREs or expiries | After a 408 the record is not PENDING (`TimeoutIsRecorded`) |
| `own_trx_ids` | 2 POSTs with their own, 1 failure, 1 repeated answer, 1 crash | Answers go to their request (`AnswerIsAuthentic`), no response without data (`NoEmptyResult`), no timeout after a 200 (`ReportedOutcomeStays`), no payment after a refusal (`NoPaymentAfterRefusal`), refinement of `PaymentLifecycle`, and of `AtomicStore` with crashes (`StoreIsAtomic`) |
| `one_request` | 1 POST, 1 publish retry, 2 failures, 1 EXPIRE or expiry, 1 repeated answer, 1 crash, fairness | The answer finds its record (`AnswerFindsTransaction`), contention does not lose it (`AnswerOutlastsContention`), the request ends (`EveryRequestEnds`), the answer is recorded (`AnswerIsRecorded`) |
| `routing` | 1 pair, 2 terminals, 1 malformed key, 2 concurrent migrations (symmetric), 1 request, 1 failure, edits unbounded | `UnforcedMigrationKeeps`, `MigrationReportIsHonest`, `HoldStopsRequests`, `RoutedAsAssigned` (a payment goes to a terminal its pair had while the request looked) |
| `ttl` | 1 record, 2 administrators, 2 writes, 5-bit words, 3 ns per second | `RecordStaysADay`, `ExtensionIsExact`, `RecordsExpire` |
| `sync_map` | 1 record, 2 updating goroutines, 1 reader, 2 answers | `UpdatesDoNotMix`, no mutex stays locked (`NoMutexLeaks`), refinement of `AtomicStore`, every `Update` returns (`UpdateReturns`) |
| `process` | 2 requests, 6 texts of `TIMEOUT_DURATION`, 5-bit words, an outage of 15 or 16 s, 1 publish retry, fairness | What runs finds its connections (`RequestsFindConnections`), a shutdown it gets to begin cuts none of those it knows of that is younger than 30 s less the 5 s for first headers, and a graceful one cuts none (`OnlyOldRequestsAreCut`; a kill before `signal.Notify` and a fatal error of the listener cut whatever runs), responses are written in time (`PunctualResponsesArrive`), no wait is longer than configured, nor shorter unless the request's context was cancelled (`WaitsAsConfigured`), 15 s without Redis are survived (`StartSurvivesOutage`), start and stop end (`StartAndStopEnd`) |

Four more runs show where code and documentation disagree; each must end in a
violation:

| Run | Claim | What happens |
|---|---|---|
| `available_answer` | README.md:89, the status response has the EDC response if available | The answer is stored just before the deadline; the timeout overwrites SUCCESS by TIMEOUT, and the status endpoint hides the stored answer |
| `migration_skips` | admin.go:146-150, an existing mapping is skipped | A mapping created between the GET and the SET is overwritten |
| `extension_extends` | admin.go:230, the TTL is extended by the duration | EXPIRE sets the time left, so it may shorten it |
| `whole_records` | store.go:18, thread-safe operations | A poll sees the new status and the old response |

### Bounds, and why they are enough

- `MaxRetries` is 3, the value in the code. `MaxRivals` only saturates the history
  count, at that value.
- Two goroutines per key suffice for lost updates and conflicts; since EXPIREs,
  expiries and new POSTs are unbounded in `store`, a single `Update` meets any
  number of rivals there. Clients of one key are symmetric.
- `PublishRetries` is 1 or 0 instead of 3: every retry behaves alike, and 1 has
  a first, a repeated and a last attempt. `MaxFaults` is above it, so that a
  publish can run out of retries.
- `MaxTouches`, `MaxResends` and `MaxCrashes` bound the environment; each is
  large enough for the case that its property is about (two EXPIREs leave an
  `Update` one attempt; a repeated answer meets a decided record).
- `routing` has one pair and a malformed key: pairs are independent of each other, and what
  is hard, two migrations and an editor between a GET and its SET, happens on one.
- `process` has two requests, so that one can drain while another ends; Shutdown and every
  property look at each request by itself. A request has 1 retry, and with it up to four
  steps outside the wait, each of up to one unit; that is enough to reach and to miss the
  buffer of one unit. The six texts are no value (which leaves the default), no number, zero,
  3, with which only the sum with the buffer overflows, 6, which wraps to a negative number
  that the buffer makes positive again, and 13, which wraps to less than a unit. The default
  is 2 units instead of the real 4, which keeps the run short; 3 is the wait that is longer
  than `Grace`. `HeaderGrace` is 1, the 5 s rounded up to a unit. The outages lie on both sides
  of the 15 s that are survived.
- The words of `TransactionTTL` and `ServerProcess` are short so that a sum that overflows is within
  reach: durations to 5 and to 3 fit, others wrap, some to a negative number.
- The counts in the guards (`faults`, `touches`, `resends`, `crashes`, `writes`)
  appear in hypotheses of properties only where the code itself gives no
  guarantee: `TimeoutIsRecorded` needs commands that succeed and fewer EXPIREs
  than attempts, `UnforcedMigrationKeeps`, `HoldStopsRequests` and the second part of
  `RoutedAsAssigned` need commands that succeed since a failed read counts as "no mapping"
  and as "no hold".

`CHECK_DEADLOCK FALSE` is set for `PaymentMiddleware`, whose requests are finitely many
(when all are answered nothing happens), and for `ServerProcess`, which ends.

### Fairness

`FairStoreSpec` and `FairSpec` assume weak fairness of the steps a goroutine takes
by itself: Go schedules every goroutine that can run, go-redis bounds every
command by time-outs, so each command ends in some way. A handler's deadline
passes. `SyncMapStore` adds strong fairness of `Lock`, because a `sync.Mutex` in
its starvation mode serves waiters in order. `TransactionTTL` assumes that time
passes. `FairSpec` of `ServerProcess` assumes weak fairness of main's statements, of each
request's own steps and of `Tick`: pings, publishes and commands end by their time-outs.
Nothing is assumed there of signals and of the listener, and nothing anywhere of clients,
terminals, Ably or administrators:
`EveryRequestEnds` holds although no answer need ever arrive.

## Proofs

All theorems hold for every value of the constants that the named assumptions of the
modules allow: any sets of POSTs, keys, goroutines, migrations and requests, any width
of a word and any limits. The assumptions are that `TrxOf` and `PairOf` are functions,
that the sentinels (`NoTx`, `NoData`, `Timeout`, `NoCall`, `NoJob`, `NoPair`, `NoSerial`,
`NoTrx`, `NoRecord`, `Free`) are not ordinary values, that `MaxRivals >= MaxRetries > 0`,
that the callback's goroutines are finitely many, and, for `ServerProcess`, that the default
time-out with its buffer fits the word (`ProcessAssumption`).

`RedisTransactionStoreProofs`:

- `TypeCorrect`. The inductive invariant is `TypeInv`: `StoreTypeOK` with
  `CallShape`, which says what a call has in each phase (arguments while it
  runs, a watched key from WATCH to EXEC, a record from GET to EXEC, attempts
  left). Without it `tries` could be counted beyond its type.
- `NoLostUpdate` (`CleanMeansFresh`). Inductive over `TypeInv`: every action that
  changes a key dirties every connection that watches it.
- `RetriesAreSpent` (`RetryBudget`). The invariant is `BudgetInv`: attempts used,
  plus one if the connection is dirty, are at most the foreign writes so far. A
  conflict turns the "plus one" into an attempt.
- `StatusIsSound` (`StatusMatchesData`) and `AnswersSurvive` (`AnswersKept`). A
  committed write is `Apply` of the current record, by `NoLostUpdate`, and `Apply`
  preserves consistency and data (lemma `ApplyConsistent`).
- `Refinement` (`ImplementsAtomicStore`). Each command maps to a step of
  `AtomicStore` or to a stutter; EXEC is the point where `Update` takes effect, and
  again `NoLostUpdate` says that the snapshot it writes back is the record.
- `CallsAdvance` (`UpdateAdvances`). `StepsLeft` counts the commands an `Update` can still
  send, three for each attempt left. By `AdvanceStep` each step of the store lowers the
  number of the call it belongs to, or ends it, and leaves those of all others alone. It is
  the half of termination that does not need fairness: a goroutine that is scheduled
  returns from `Update` after at most `3 * MaxRetries` commands.

`PaymentMiddlewareProofs` proves, for any numbers of requests, callbacks, retries,
failures, duplicates and crashes, under `ClientsAssumption` (a goroutine that calls
`Update` is a handler or a callback, not both), `NoJobAssumption`,
`BoundsAssumption` and the assumptions above:

- `MiddlewareTypes` (`TypeOK`). It rests on `BaseInv`: the types together with the
  store's own invariants. Lemma `StoreSteps` says why those carry over: every step
  of the middleware is a step of the store or leaves it alone, except a crash, which
  ends all calls at once and keeps the records (`StoreReset`). So `CleanMeansFresh`
  and `StatusMatchesData` hold of the whole middleware, crashes included.
- `StoreStaysAtomic` (`StoreIsAtomic`), by the same argument: a step of the store maps to one
  of `AtomicStore`, a crash to its `Crash`. `NoStaleWrites`, `OutcomesSpellAnswers`,
  `StoredAnswersStay`, `UpdatesAdvance` and `GivingUpIsEarned` carry the other properties of
  the store over to the middleware; after a crash there is no call left that they speak of.
- `AuthenticAnswers` (`AnswerIsAuthentic`). `AuthInv` follows an answer from the inbox
  to a callback, to a call of `Update`, to a record and to a response: at each place
  it is one a terminal gave, and from the call on its trx_id is the key's. `Commit`
  writes only `Apply` of the record the key holds (lemma `CommitUpdates`), so a
  timeout cannot move an answer to another key.
- `RecordComesFirst` (`AnswerFindsTransaction`). `FindInv` adds the handlers between
  Store and the end: an answer comes from a message, a message from a handler in
  "publish", and that handler comes from Store; without an expiry nothing removes a
  record (`RecordsStay`).
- `NoEmptyResults` (`NoEmptyResult`). `PollInv` says that a timeout inside `Update` is
  that of the handler waiting for it, and so, when trx_ids are not shared, that a
  record in TIMEOUT belongs to a handler that has stopped polling.
- `ReportedOutcomes` (`ReportedOutcomeStays`). `ReportInv` adds that a request with its
  200 is over; by `OwnRecordMoves` only the request itself can put its record back
  to PENDING or TIMEOUT, and only before it is over.
- `TimeoutsRecorded` (`TimeoutIsRecorded`). As long as the record is PENDING and the one
  that request stored, no answer, timeout or other POST has written it, so only EXPIREs
  can have cost the `Update` to TIMEOUT an attempt. `RecordInv` says that: no 408 yet, and
  an `Update` that is still in its loop with no more attempts lost than there were EXPIREs.
  Lemma `SpentMoves` says what each step costs a call.
- `AnswersOutlastContention` (`AnswerOutlastsContention`). With unshared trx_ids and one
  callback goroutine only the handler's timeout and EXPIREs compete with it. `ContendInv`
  adds up: attempts lost by the callback are at most the EXPIREs, and one more once that
  handler's timeout had its effect (`Late`); a handler times out only once.

The step lemmas `HandlerMoves`, `CallMoves`, `RecordMoves` and `MessageMoves` say once
what a step of `Next` does to one handler, one call, Redis and one request's
messages; the invariants are proved from them, not from `Next`.

`PaymentLifecycleProofs` proves `LifecycleRefinement` (`ImplementsPaymentLifecycle`): every
step of the middleware is a step of the abstract payment or a stutter. It needs `AuthInv`,
since a 200 must report an answer that was given for that trx_id. What the abstract payment
promises is then proved of it and carried over: `RefusedAreNotCharged`
(`NoPaymentAfterRefusal`) and `ResponsesAreFinal` (`OneResponse`). The invariant is
`CleanInv`: there is no response before the end, and the terminal has no trace of a request
that was refused or is not pending yet.

`RequestRoutingProofs`, under `RoutingAssumption`:

- `RoutingTypes` (`TypeOK`), with `AtInv`: a SET is only due for a well-formed configured
  pair.
- `UnforcedKeeps` (`UnforcedMigrationKeeps`). `KeepInv` adds that no SET of an unforced
  migration is due for a pair it found and nobody else wrote.
- `HonestReport` (`MigrationReportIsHonest`). `ReportInv` says of every migration in
  progress that it has counted an error for each malformed key it passed, and that, as long
  as it has counted no other, each well-formed pair is still to do, due for its SET, edited
  by somebody else, or as the report will claim.
- `HoldStops` (`HoldStopsRequests`). `HoldInv` follows a request that the hold was on for
  since it arrived.
- `PaymentsAreRouted` (`RoutedAsAssigned`). `RouteInv` adds that, while a request looks its
  terminal up, what the pair is mapped to at that moment has been recorded for it.

`TransactionTTLProofs`, under `TTLAssumption` and `DurationAssumption`: `TTLTypes`
(`TypeOK`, with `RequestInv`: past its first check a request has a key and a positive
duration), `StaysADay` (`RecordStaysADay`) and `ExactExtension` (`ExtensionIsExact`). The
arithmetic is in lemmas on `Wrap` and on division, for a word of any width.

`SyncMapStoreProofs`, under `SyncMapAssumption`: `NoMixing` (`UpdatesDoNotMix`). The
invariant is `KeyInv` (a record lies under its own key), `LockInv` (who is past Lock holds
the mutex), `ApplyInv` (what a half-done update function has assigned so far) and `MixInv`
(only an update function in progress leaves a record mixed). Two more theorems rest on it:

- `MutexesAreReleased` (`NoMutexLeaks`). `OwnerInv` says that a mutex is held only by an
  `Update` of its key between Lock and Unlock, and `PtrInv` what such an `Update` has loaded.
- `MapRefinement` (`ImplementsAtomicStore`), for unique trx_ids. `UniqueInv` says that nobody
  replaces the record an `Update` works on. `AssignRefines` is the step that counts: after
  the first assignment the record is worth what it will be (`AnswersOverwrite`: an answer
  determines both fields, whatever they were), and the second one changes nothing any more.

`ServerProcessProofs`, under `ProcessAssumption` and `DurationAssumption`:

- `ProcessTypes` (`TypeOK`).
- `ConnectionsOutlastRequests` (`RequestsFindConnections`). `ConnInv` is what is open at
  each statement of main.
- `OldRequestsCut` (`OnlyOldRequestsAreCut`). `CutInv`: who is watched during a Shutdown is
  at most `HeaderGrace` younger than the Shutdown, for no other header is read any more, and
  what slips in is not watched.
- `StartSurvives` (`StartSurvivesOutage`). `SleepInv` ties the pauses to the failed pings.
- `WaitsWhatIsConfigured` (`WaitsAsConfigured`) and `PunctualArrive`
  (`PunctualResponsesArrive`). `PaceInv` says of every request that its age is the time
  outside the wait plus what it has waited of `Patience`, all of it when the wait was ended
  by the time-out and not by a cancelled context. Where the number of nanoseconds
  fits, `Patience` is that number; where the sum with the buffer does not, `Wrap` makes it
  negative and there is no write deadline.

`AnswerCipher`: `DecryptUndoesEncrypt`, for messages of every length; and
`UnpaddableIsPadded`, which says what `pkcs5Unpad` accepts: the padding of what it returns,
or a last byte 0, which no padding has and after which the data come back as they were.

Only model-checked, being out of the prover's reach: liveness (`UpdateTerminates`,
`EveryRequestEnds`, `AnswerIsRecorded`, `RecordsExpire`, `UpdateReturns`,
`StartAndStopEnd`); what is proved of the first is `UpdateAdvances`, of `UpdateReturns` that
the mutex waited for is not abandoned (`NoMutexLeaks`). `OneResponse` is only proved, as a
consequence of a refinement that is checked. `AnswerCipher` is only proved: its operators range over byte strings of
16 and more, too many to enumerate.

## What the code does that its comments do not say

Apart from the four runs above: redis_client.go:29 lists five pauses between the attempts
to connect (1, 2, 4, 8, 16 s, 31 s together). The loop pauses only between attempts, so the
fifth never happens and a Redis that stays away for more than 15 s ends the process:
`StartSurvivesOutage` states the 15 s. A shutdown waits 30 s and a payment 60 s, so that a
payment in progress may be cut (`OnlyOldRequestsAreCut` says which); a client that leaves has
its payment timed out at once (`WaitsAsConfigured` excepts it); and closing Redis under
a handler that still polls makes it report "transaction not found".

## Not modelled

Time stamps, amounts and card data (no branch reads them); JSON encoding and logging; the
notification channel (`json:"-"`, hence nil in every record read from Redis); the AES
library, base64 and the derivation of the key; the variables of the configuration other
than `TIMEOUT_DURATION`, which `LoadConfigFails` may refuse and nothing else reads but
as addresses, names and the configured pairs (`Config`, in `RequestRouting`); pool sizes;
the health check, CORS headers and panic recovery, which hold no state; the in-memory
mapper, which is immutable; `example_usage.go`, which is a comment; the length of
back-offs other than that of the first connection, and of polling intervals; a publish that
Ably accepts only after the handler has given it up with a 503 (in the model a message
reaches the terminal while its attempt runs, also when the acknowledgement is lost);
callbacks that are still running when the connections are closed. `Lookup` and
`CheckHold` in `PaymentMiddleware` choose freely between the outcomes that
`RequestRouting` explains, and its `Crash` and `Restart` stand for the ends and starts
that `ServerProcess` takes apart.

## Plan

Built in this order: the store and its abstract specification (everything else
rests on it), the payment path, the proofs about both, the routing keys, expiry,
the in-memory store; then the process with its times, the life of a payment, the
cipher, and the proofs of every invariant that the runs check; then the refinement by the
in-memory store, the atomicity of the store under crashes, and the progress of `Update`.
What could still follow: one specification that composes `PaymentMiddleware` with
`ServerProcess`, so that a forced shutdown closes the store under an `Update`.
