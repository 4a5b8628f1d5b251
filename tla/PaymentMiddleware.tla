------------------------- MODULE PaymentMiddleware -------------------------
(***************************************************************************)
(* The payment path: the HTTP handler of POST /api/v1/transaction, one     *)
(* goroutine per request (internal/handlers/transaction.go), the callback  *)
(* for terminals' answers (internal/handlers/edc_response.go, called by    *)
(* internal/ably/publisher.go), and the Redis store between them.          *)
(*                                                                         *)
(* Handlers and callbacks never talk to each other: the handler polls the  *)
(* record that the callback updates.  Each action is one Redis command or  *)
(* one publish attempt together with the handler code up to the next one.  *)
(* Terminals, clients and Ably are the environment: payment messages may   *)
(* be duplicated, answers arrive in any order, twice, or never.            *)
(***************************************************************************)
EXTENDS RedisTransactionStore, FiniteSets

CONSTANTS
    Workers,         \* goroutines that run the answer callback
    NoJob,           \* the callback is not running
    PublishRetries,  \* retries after a failed publish (3 in the code)
    MaxFaults,       \* bound: failures of a Redis command or a publish
    MaxTouches,      \* bound: EXPIREs by the administrator and expiries
    MaxResends,      \* bound: answers Ably delivers once more
    MaxCrashes       \* bound: crashes of the middleware

ASSUME ClientsAssumption ==
    /\ Clients = Posts \union Workers
    /\ Posts \intersect Workers = {}
    /\ IsFiniteSet(Workers)
ASSUME NoJobAssumption == NoJob \notin EDCResponse
ASSUME BoundsAssumption ==
    {PublishRetries, MaxFaults, MaxTouches, MaxResends, MaxCrashes} \subseteq Nat

VARIABLES
    pc,       \* pc[p]: the next command of the handler of p
    attempt,  \* attempt[p]: failed publishes of p
    expired,  \* expired[p]: the context of p is done
    reply,    \* reply[p]: what the client got
    copies,   \* copies[p]: payment messages of p that reached the terminal
    inbox,    \* answers on their way to the middleware
    answers,  \* history: every answer terminals gave
    job,      \* job[w]: the answer callback w is handling
    alive,    \* the middleware is running
    faults, touches, resends, crashes  \* how much of each bound is used

handlerVars == <<pc, attempt, expired, reply>>
channelVars == <<copies, inbox, answers, job>>
boundVars == <<alive, faults, touches, resends, crashes>>
vars == <<storeVars, handlerVars, channelVars, boundVars>>

\* Handlers between two commands; "timeout" is inside Update.
Waiting == {"lookup", "store", "hold", "publish", "poll", "timeout"}

\* HTTP statuses, the three uses of 500 kept apart; "lost" is a connection
\* that broke without a response.
Codes == {"none", "200", "400", "404", "408", "500 not stored",
          "500 not found", "500 no data", "503", "lost"}

TypeOK ==
    /\ StoreTypeOK
    /\ pc \in [Posts -> {"new", "done"} \union Waiting]
    /\ attempt \in [Posts -> 0 .. PublishRetries]
    /\ expired \in [Posts -> BOOLEAN]
    /\ reply \in [Posts -> [code : Codes, data : EDCResponse \union {NoData}]]
    /\ copies \in [Posts -> Nat]
    /\ inbox \subseteq EDCResponse
    /\ answers \subseteq EDCResponse
    /\ job \in [Workers -> EDCResponse \union {NoJob}]
    /\ alive \in BOOLEAN
    /\ faults \in 0 .. MaxFaults
    /\ touches \in 0 .. MaxTouches
    /\ resends \in 0 .. MaxResends
    /\ crashes \in 0 .. MaxCrashes

NoReply == [code |-> "none", data |-> NoData]

Init ==
    /\ StoreInit
    /\ pc = [p \in Posts |-> "new"]
    /\ attempt = [p \in Posts |-> 0]
    /\ expired = [p \in Posts |-> FALSE]
    /\ reply = [p \in Posts |-> NoReply]
    /\ copies = [p \in Posts |-> 0]
    /\ inbox = {}
    /\ answers = {}
    /\ job = [w \in Workers |-> NoJob]
    /\ alive = TRUE
    /\ faults = 0
    /\ touches = 0
    /\ resends = 0
    /\ crashes = 0

-----------------------------------------------------------------------------
\* Steps of the handler of p.

Goto(p, l) == pc' = [pc EXCEPT ![p] = l]

\* writeJSONResponse or writeErrorResponse, then return.
Respond(p, code, data) ==
    /\ reply' = [reply EXCEPT ![p] = [code |-> code, data |-> data]]
    /\ Goto(p, "done")
    /\ attempt' = [attempt EXCEPT ![p] = 0]
    /\ expired' = [expired EXCEPT ![p] = FALSE]

\* One more command failed.
Failure ==
    /\ faults < MaxFaults
    /\ faults' = faults + 1
    /\ UNCHANGED <<alive, touches, resends, crashes>>

\* The request arrives; malformed JSON or a blank trx_id is a 400.
Receive(p) ==
    /\ alive
    /\ pc[p] = "new"
    /\ \/ Goto(p, "lookup") /\ UNCHANGED <<attempt, expired, reply>>
       \/ Respond(p, "400", NoData)
    /\ UNCHANGED <<storeVars, channelVars, boundVars>>

\* GetSerialNumber knows the merchant and terminal, or not; any error of
\* the mapper, a Redis failure included, is a 404 too.
Lookup(p) ==
    /\ pc[p] = "lookup"
    /\ \/ Goto(p, "store") /\ UNCHANGED <<attempt, expired, reply>>
       \/ Respond(p, "404", NoData)
    /\ UNCHANGED <<storeVars, channelVars, boundVars>>

\* The PENDING record is stored over whatever the key held.
StoreTransaction(p) ==
    /\ pc[p] = "store"
    /\ Store(p)
    /\ Goto(p, "hold")
    /\ UNCHANGED <<attempt, expired, reply, channelVars, boundVars>>

\* Mutant: the error of Store is only logged.
StoreFailsLogged(p) ==
    /\ pc[p] = "store"
    /\ Failure
    /\ Store(p) \/ UNCHANGED storeVars
    /\ Goto(p, "hold")
    /\ UNCHANGED <<attempt, expired, reply, channelVars>>

\* Mutant: the return after the 500 is missing.
StoreFailsGoesOn(p) ==
    /\ pc[p] = "store"
    /\ Failure
    /\ Store(p) \/ UNCHANGED storeVars
    /\ Goto(p, "hold")
    /\ reply' = [reply EXCEPT ![p] = [code |-> "500 not stored", data |-> NoData]]
    /\ UNCHANGED <<attempt, expired, channelVars>>

\* Store fails, before or after its SET took effect: a 500.
StoreFails(p) ==
    /\ pc[p] = "store"
    /\ Failure
    /\ Store(p) \/ UNCHANGED storeVars
    /\ Respond(p, "500 not stored", NoData)
    /\ UNCHANGED channelVars

\* IsHoldEnabled: a held transaction is not published but waited for all
\* the same.  A failed read counts as not held.
CheckHold(p) ==
    /\ pc[p] = "hold"
    /\ Goto(p, "poll") \/ Goto(p, "publish")
    /\ UNCHANGED <<storeVars, attempt, expired, reply, channelVars, boundVars>>

\* A payment message of p reaches the terminal's channel.
Delivered(p) ==
    /\ copies' = [copies EXCEPT ![p] = @ + 1]
    /\ UNCHANGED <<inbox, answers, job>>

\* Ably accepts the payment message: the wait begins.
Publish(p) ==
    /\ pc[p] = "publish"
    /\ Delivered(p)
    /\ Goto(p, "poll")
    /\ UNCHANGED <<storeVars, attempt, expired, reply, boundVars>>

\* Mutant: the loop makes one attempt too many.
PublishFailsOnceMore(p) ==
    /\ pc[p] = "publish"
    /\ Failure
    /\ Delivered(p) \/ UNCHANGED channelVars
    /\ IF attempt[p] <= PublishRetries
       THEN /\ attempt' = [attempt EXCEPT ![p] = @ + 1]
            /\ UNCHANGED <<pc, expired, reply>>
       ELSE Respond(p, "503", NoData)
    /\ UNCHANGED storeVars

\* Mutant: after the 503 the loop is not left.
PublishFailsGoesOn(p) ==
    /\ pc[p] = "publish"
    /\ Failure
    /\ Delivered(p) \/ UNCHANGED channelVars
    /\ IF attempt[p] < PublishRetries
       THEN attempt' = [attempt EXCEPT ![p] = @ + 1] /\ UNCHANGED reply
       ELSE /\ reply' = [reply EXCEPT ![p] = [code |-> "503", data |-> NoData]]
            /\ UNCHANGED attempt
    /\ UNCHANGED <<storeVars, pc, expired>>

\* An attempt to publish fails, or its acknowledgement is lost; after the
\* last retry the request ends with a 503 and the record stays PENDING.
PublishFails(p) ==
    /\ pc[p] = "publish"
    /\ Failure
    /\ Delivered(p) \/ UNCHANGED channelVars
    /\ IF attempt[p] < PublishRetries
       THEN /\ attempt' = [attempt EXCEPT ![p] = @ + 1]
            /\ UNCHANGED <<pc, expired, reply>>
       ELSE Respond(p, "503", NoData)
    /\ UNCHANGED storeVars

\* Mutant: the loop is not left after the response.
PollGoesOn(p) ==
    LET tx == db[TrxOf[p]] IN
    /\ pc[p] = "poll"
    /\ tx # NoTx
    /\ tx.status # "PENDING"
    /\ reply[p].code = "none"
    /\ reply' = [reply EXCEPT ![p] =
          IF tx.data # NoData THEN [code |-> "200", data |-> tx.data]
                              ELSE [code |-> "500 no data", data |-> NoData]]
    /\ UNCHANGED <<storeVars, pc, attempt, expired, channelVars, boundVars>>

\* The poll at a tick finds the record decided: p gets its answer, and if
\* another request for the trx_id timed the record out, a 500.  A poll that
\* finds it PENDING changes nothing.
Poll(p) ==
    LET tx == db[TrxOf[p]] IN
    /\ pc[p] = "poll"
    /\ tx # NoTx
    /\ tx.status # "PENDING"
    /\ IF tx.data # NoData THEN Respond(p, "200", tx.data)
                           ELSE Respond(p, "500 no data", NoData)
    /\ UNCHANGED <<storeVars, channelVars, boundVars>>

\* Load returns false: the record is gone, or Redis failed.
PollFails(p) ==
    /\ pc[p] = "poll"
    /\ \/ db[TrxOf[p]] = NoTx /\ UNCHANGED boundVars
       \/ Failure
    /\ Respond(p, "500 not found", NoData)
    /\ UNCHANGED <<storeVars, channelVars>>

\* The wait of p is over: the deadline passes, which only counts from the
\* first poll on ...
Deadline(p) ==
    /\ pc[p] = "poll"
    /\ ~expired[p]
    /\ expired' = [expired EXCEPT ![p] = TRUE]
    /\ UNCHANGED <<storeVars, pc, attempt, reply, channelVars, boundVars>>

\* ... or the client disconnects, which ends the request's context.
Disconnect(p) ==
    /\ pc[p] \in Waiting
    /\ ~expired[p]
    /\ expired' = [expired EXCEPT ![p] = TRUE]
    /\ UNCHANGED <<storeVars, pc, attempt, reply, channelVars, boundVars>>

\* select takes the ctx.Done branch, whether or not a tick is due as well,
\* and calls Update without another look at the record.
TimeoutBegin(p) ==
    /\ pc[p] = "poll"
    /\ expired[p]
    /\ Begin(p, TrxOf[p], Timeout)
    /\ Goto(p, "timeout")
    /\ UNCHANGED <<attempt, expired, reply, channelVars, boundVars>>

\* Mutant: an error of Update leaves without a response.
TimeoutReplyIfOk(p) ==
    /\ pc[p] = "timeout"
    /\ phase[p] = "ok"
    /\ Return(p)
    /\ Respond(p, "408", NoData)
    /\ UNCHANGED <<channelVars, boundVars>>

\* Whatever Update returned, the client gets a 408.
TimeoutReply(p) ==
    /\ pc[p] = "timeout"
    /\ Return(p)
    /\ Respond(p, "408", NoData)
    /\ UNCHANGED <<channelVars, boundVars>>

\* What GET /api/v1/transaction/status/{trx_id} answers: the answer is
\* shown only with an outcome.
StatusResponse(t) ==
    IF db[t] = NoTx
    THEN [code |-> "404", status |-> "none", data |-> NoData]
    ELSE [code |-> "200", status |-> db[t].status,
          data |-> IF db[t].status \in {"SUCCESS", "FAILED"}
                   THEN db[t].data ELSE NoData]

-----------------------------------------------------------------------------
\* Steps of the answer callback, HandleEDCResponse.

\* Ably hands an answer to the callback, and may do so again later.
Deliver(w, m) ==
    /\ job[w] = NoJob
    /\ m \in inbox
    /\ job' = [job EXCEPT ![w] = m]
    /\ \/ /\ inbox' = inbox \ {m}
          /\ UNCHANGED boundVars
       \/ /\ resends < MaxResends
          /\ resends' = resends + 1
          /\ UNCHANGED <<inbox, alive, faults, touches, crashes>>
    /\ UNCHANGED <<storeVars, handlerVars, copies, answers>>

\* An answer that cannot be decrypted or parsed, or has no trx_id, is
\* dropped with a log line.
Discard(m) ==
    /\ m \in inbox
    /\ inbox' = inbox \ {m}
    /\ UNCHANGED <<storeVars, handlerVars, copies, answers, job, boundVars>>

\* Mutant: the answer goes to any waiting transaction, not to its trx_id.
CallbackLoadAny(w) ==
    /\ job[w] # NoJob
    /\ \E t \in TrxIDs : /\ db[t] # NoTx
                         /\ db[t].status = "PENDING"
                         /\ Begin(w, t, job[w])
    /\ UNCHANGED <<handlerVars, channelVars, boundVars>>

\* Load finds a record, whatever its status, and Update is called.
CallbackLoad(w) ==
    /\ job[w] # NoJob
    /\ db[TrxIDOf(job[w])] # NoTx
    /\ Begin(w, TrxIDOf(job[w]), job[w])
    /\ UNCHANGED <<handlerVars, channelVars, boundVars>>

\* Load returns false, for want of a record or of Redis: the answer is
\* dropped.
CallbackDrops(w) ==
    /\ job[w] # NoJob
    /\ phase[w] = "idle"
    /\ \/ db[TrxIDOf(job[w])] = NoTx /\ UNCHANGED boundVars
       \/ Failure
    /\ job' = [job EXCEPT ![w] = NoJob]
    /\ UNCHANGED <<storeVars, handlerVars, copies, inbox, answers>>

\* Update returned; an error is logged and the answer dropped.  NotifyChan
\* is nil, so nobody is notified.
CallbackReturn(w) ==
    /\ job[w] # NoJob
    /\ Return(w)
    /\ job' = [job EXCEPT ![w] = NoJob]
    /\ UNCHANGED <<handlerVars, copies, inbox, answers, boundVars>>

-----------------------------------------------------------------------------
\* Steps inside Update, of handlers and callbacks alike.

Step(c) ==
    /\ UpdateStep(c)
    /\ UNCHANGED <<handlerVars, channelVars, boundVars>>

StepFails(c) ==
    /\ Fault(c) \/ FaultAfterExec(c)
    /\ Failure
    /\ UNCHANGED <<handlerVars, channelVars>>

-----------------------------------------------------------------------------
\* The environment.

\* The terminal answers one of the messages it got.  An answer published
\* while the middleware is down finds no subscriber.
EdcAnswer(p, s) ==
    LET m == [from |-> p, status |-> s] IN
    /\ copies[p] > 0
    /\ copies' = [copies EXCEPT ![p] = @ - 1]
    /\ answers' = answers \union {m}
    /\ inbox' = IF alive THEN inbox \union {m} ELSE inbox
    /\ UNCHANGED <<storeVars, handlerVars, job, boundVars>>

\* The administrator sets a new time to live, or one runs out.
ChangeTTL(t) ==
    /\ touches < MaxTouches
    /\ touches' = touches + 1
    /\ Touch(t) \/ Expire(t)
    /\ UNCHANGED <<handlerVars, channelVars, alive, faults, resends, crashes>>

\* The process dies: Redis keeps its keys, everything in memory is gone,
\* clients see their connections break.
Crash ==
    /\ alive
    /\ crashes < MaxCrashes
    /\ alive' = FALSE
    /\ crashes' = crashes + 1
    /\ pc' = [p \in Posts |-> IF pc[p] \in Waiting THEN "done" ELSE pc[p]]
    /\ attempt' = [p \in Posts |-> 0]
    /\ expired' = [p \in Posts |-> FALSE]
    /\ reply' = [p \in Posts |-> IF pc[p] \in Waiting
                                 THEN [code |-> "lost", data |-> NoData]
                                 ELSE reply[p]]
    /\ inbox' = {}
    /\ job' = [w \in Workers |-> NoJob]
    /\ phase' = [c \in Clients |-> "idle"]
    /\ arg' = [c \in Clients |-> NoCall]
    /\ tries' = [c \in Clients |-> 0]
    /\ watch' = [c \in Clients |-> "off"]
    /\ snap' = [c \in Clients |-> NoTx]
    /\ rivals' = [c \in Clients |-> 0]
    /\ UNCHANGED <<db, copies, answers, faults, touches, resends>>

\* It starts again; SubscribeToResponses runs before the HTTP server does.
Restart ==
    /\ ~alive
    /\ alive' = TRUE
    /\ UNCHANGED <<storeVars, handlerVars, channelVars, faults, touches,
                   resends, crashes>>

-----------------------------------------------------------------------------
\* What a handler does by itself once its request has arrived.
HandlerStep(p) ==
    \/ Lookup(p) \/ StoreTransaction(p) \/ CheckHold(p) \/ Publish(p)
    \/ Poll(p) \/ PollFails(p) \/ TimeoutBegin(p) \/ TimeoutReply(p)

CallbackStep(w) == CallbackLoad(w) \/ CallbackDrops(w) \/ CallbackReturn(w)

Next ==
    \/ \E p \in Posts : \/ Receive(p)
                        \/ HandlerStep(p)
                        \/ StoreFails(p)
                        \/ PublishFails(p)
                        \/ Deadline(p)
                        \/ Disconnect(p)
                        \/ \E s \in EDCStatuses : EdcAnswer(p, s)
    \/ \E w \in Workers : \/ \E m \in EDCResponse : Deliver(w, m)
                          \/ CallbackStep(w)
    \/ \E c \in Clients : Step(c) \/ StepFails(c)
    \/ \E m \in EDCResponse : Discard(m)
    \/ \E t \in TrxIDs : ChangeTTL(t)
    \/ Crash
    \/ Restart

Spec == Init /\ [][Next]_vars

(***************************************************************************)
(* Go schedules every goroutine that can run, each command and publish     *)
(* attempt ends (client time-outs), and the deadline of a wait passes.     *)
(* Nothing is assumed of clients, terminals or Ably's deliveries.          *)
(***************************************************************************)
FairSpec ==
    /\ Spec
    /\ \A p \in Posts : WF_vars(HandlerStep(p)) /\ WF_vars(Deadline(p))
    /\ \A w \in Workers : WF_vars(CallbackStep(w))
    /\ \A c \in Clients : WF_vars(Step(c))

-----------------------------------------------------------------------------
(***************************************************************************)
(* Properties.                                                             *)
(***************************************************************************)

\* A record or a response carries only an answer that a terminal gave, and
\* gave for that trx_id.
AnswerIsAuthentic ==
    /\ \A t \in TrxIDs : db[t] # NoTx /\ db[t].data # NoData =>
          db[t].data \in answers /\ TrxIDOf(db[t].data) = t
    /\ \A p \in Posts : reply[p].code = "200" =>
          reply[p].data \in answers /\ TrxIDOf(reply[p].data) = TrxOf[p]

\* The record is stored before its payment message goes out, so no answer
\* arrives ahead of the record it belongs to, unless the record expired.
AnswerFindsTransaction ==
    touches = 0 =>
        \A p \in Posts :
            (copies[p] > 0 \/ \E m \in inbox : m.from = p) =>
                db[TrxOf[p]] # NoTx

\* Poll's "no response data available" needs another request that timed
\* out the same trx_id: a handler never sees its own timeout.
NoEmptyResult ==
    UniqueTrxIDs => \A p \in Posts : reply[p].code # "500 no data"

\* An outcome that was reported to the client stays an outcome: no timeout
\* comes after the 200.
ReportedOutcomeStays ==
    UniqueTrxIDs /\ touches = 0 =>
        \A p \in Posts : reply[p].code = "200" =>
            db[TrxOf[p]].status \in {"SUCCESS", "FAILED"}

\* After a 408 the record of that request is not PENDING any more, however
\* the Update of the timeout collided with answers and duplicates, as long
\* as no command failed and fewer than MaxRetries EXPIREs intervened.
TimeoutIsRecorded ==
    faults = 0 /\ touches < MaxRetries =>
        \A p \in Posts : reply[p].code = "408" =>
            LET tx == db[TrxOf[p]] IN
            tx # NoTx /\ tx.post = p => tx.status # "PENDING"

\* One callback goroutine never loses an answer to contention: the only
\* rivals of its Update are one timeout and the administrator.
AnswerOutlastsContention ==
    UniqueTrxIDs /\ Cardinality(Workers) = 1 /\ touches + 1 < MaxRetries =>
        \A w \in Workers : phase[w] # "exhausted"

\* Every request that arrives is answered, or its connection breaks.
EveryRequestEnds ==
    \A p \in Posts : pc[p] \in Waiting ~> pc[p] = "done"

\* An answer taken up by the callback while its record exists ends up in
\* the record, unless the record expires, a command fails or the middleware
\* crashes meanwhile.
AnswerIsRecorded ==
    \A w \in Workers, m \in EDCResponse :
        (job[w] = m /\ db[TrxIDOf(m)] # NoTx /\ faults = 0) ~>
            \/ db[TrxIDOf(m)] = NoTx
            \/ db[TrxIDOf(m)].data = m
            \/ faults > 0
            \/ ~alive

-----------------------------------------------------------------------------
\* The handlers, the callback and the store together implement the life of
\* a payment as clients and terminals see it.
StageOf(l) ==
    CASE l = "new" -> "new"
      [] l \in {"lookup", "store"} -> "checking"
      [] l \in {"hold", "publish", "poll", "timeout"} -> "pending"
      [] l = "done" -> "ended"

Stage == [p \in Posts |-> StageOf(pc[p])]

Lifecycle == INSTANCE PaymentLifecycle WITH
    stage <- Stage, asked <- copies, given <- answers

ImplementsPaymentLifecycle == Lifecycle!Spec

\* Who is answered 400, 404 or "not stored" is not charged: that payment is
\* never published, be it by a retry or after a Store whose reply got lost.
NoPaymentAfterRefusal == Lifecycle!RefusalIsClean

\* A handler answers its request once.
OneResponse == Lifecycle!ResponseIsFinal

\* Under handlers, callbacks and crashes the store still is the atomic one:
\* no update is half done or done twice, whichever command fails or gets no
\* reply, and a crash undoes nothing.
StoreIsAtomic == Atomic!CrashSpec

-----------------------------------------------------------------------------
(***************************************************************************)
(* What the repository's documents say and the code does not do.           *)
(***************************************************************************)

\* README.md:89: the status response has the EDC response if available.
AvailableAnswerIsShown ==
    \A t \in TrxIDs :
        (db[t] # NoTx /\ db[t].data # NoData) =>
            StatusResponse(t).data = db[t].data
=============================================================================
