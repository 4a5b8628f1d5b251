---------------------------- MODULE ServerProcess ----------------------------
(***************************************************************************)
(* The process around the handlers (main.go): the configuration, the first *)
(* connection to Redis, the subscription to answers, the HTTP server with  *)
(* its write deadline, and the shutdown on a signal; and the time a        *)
(* payment request takes in all this (internal/handlers/transaction.go,    *)
(* internal/ably/publisher.go).                                            *)
(*                                                                         *)
(* One unit of time stands for 15 s, the smallest difference between the   *)
(* periods of main.go; PerSecond is the nanoseconds of a unit.  Pauses     *)
(* between the first pings are counted apart, in seconds, since no request *)
(* runs then.                                                              *)
(***************************************************************************)
EXTENDS GoDuration, Sequences

CONSTANTS
    Requests,        \* calls of POST /api/v1/transaction
    Texts,           \* TIMEOUT_DURATION: numbers and the next two
    Unset,           \* an empty text
    Garbage,         \* not a number
    DefaultTimeout,  \* 60 s
    Buffer,          \* what WriteTimeout adds to the time-out (15 s)
    Grace,           \* how long Shutdown waits (30 s)
    HeaderGrace,     \* how long Shutdown leaves a new connection alone for
                     \* its first header (5 s, in net/http)
    StepLimit,       \* the longest command or publish attempt (time-outs of
                     \* go-redis and of the Ably client)
    PublishRetries,  \* retries after a failed publish (3)
    Outages          \* for how many seconds Redis may be away at the start

ASSUME ProcessAssumption ==
    /\ Texts \ {Unset, Garbage} \subseteq Int
    /\ {DefaultTimeout, Buffer, Grace, StepLimit} \subseteq Nat \ {0}
    /\ (DefaultTimeout + Buffer) * PerSecond < HalfWord
    /\ {PublishRetries, HeaderGrace} \subseteq Nat
    /\ Outages \subseteq Nat

VARIABLES
    main,     \* the next statement of the main goroutine
    how,      \* how the process ends
    open,     \* what is open: "redis", the subscription to "answers", "http"
    text,     \* the text of TIMEOUT_DURATION
    timeout,  \* cfg.TimeoutDuration, in nanoseconds
    outage,   \* Redis answers once the pauses add up to this
    pings,    \* failed attempts to connect
    slept,    \* the pauses between them
    waited,   \* how long Shutdown has waited
    req       \* req[r]: stage, time left in it, age, time outside the wait;
              \* live: its context has not been cancelled; seen: Shutdown
              \* knows of it

startVars == <<text, timeout, outage, pings, slept>>
vars == <<main, how, open, startVars, waited, req>>

Active == {"prepare", "publish", "wait", "timeout", "respond"}
Stages == Active \union {"new", "connected", "sent", "lost", "cut"}

\* Clients with a request in the server, and those Shutdown waits for.
InServer == {r \in Requests : req[r].stage \in Active}
Watched == {r \in InServer : req[r].seen}

TypeOK ==
    /\ main \in {"config", "redis", "ably", "subscribe", "serve", "ready",
                 "drain", "close ably", "close redis", "exit", "exited"}
    /\ how \in {"none", "fatal", "no redis", "killed", "graceful", "forced"}
    /\ open \subseteq {"redis", "answers", "http"}
    /\ text \in Texts
    /\ timeout \in Int
    /\ outage \in Outages
    /\ pings \in 0 .. 5
    /\ slept \in Nat
    /\ waited \in 0 .. Grace
    /\ req \in [Requests -> [stage : Stages, left : Nat, tries : 0 .. PublishRetries,
                             age : Nat, slow : Nat, live : BOOLEAN, seen : BOOLEAN]]

\* A request that is not there yet.
Unborn == [stage |-> "new", left |-> 0, tries |-> 0, age |-> 0, slow |-> 0,
           live |-> TRUE, seen |-> TRUE]

Init ==
    /\ main = "config"
    /\ how = "none"
    /\ open = {}
    /\ text \in Texts
    /\ timeout = Nanos(DefaultTimeout)
    /\ outage \in Outages
    /\ pings = 0
    /\ slept = 0
    /\ waited = 0
    /\ req = [r \in Requests |-> Unborn]

-----------------------------------------------------------------------------
\* The main goroutine.

\* The process ends: its connections close, and requests in it are cut.
Die(why) ==
    /\ main' = "exited"
    /\ how' = why
    /\ open' = {}
    /\ req' = [r \in Requests |->
                  IF r \notin InServer THEN req[r]
                  ELSE [req[r] EXCEPT !.stage = "cut", !.left = 0, !.tries = 0]]

Then(next) == main' = next /\ UNCHANGED how

\* Mutant: the number is taken for nanoseconds.
LoadConfigNanos ==
    /\ main = "config"
    /\ text # Garbage
    /\ text # Unset => text > 0
    /\ timeout' = IF text = Unset THEN timeout ELSE Wrap(text)
    /\ Then("redis")
    /\ UNCHANGED <<open, text, outage, pings, slept, waited, req>>

\* LoadConfig: without TIMEOUT_DURATION the default stays, and a positive
\* number of seconds replaces it.
LoadConfig ==
    /\ main = "config"
    /\ text # Garbage
    /\ text # Unset => text > 0
    /\ timeout' = IF text = Unset THEN timeout ELSE Nanos(text)
    /\ Then("redis")
    /\ UNCHANGED <<open, text, outage, pings, slept, waited, req>>

\* It, or one of the other variables, is refused.
LoadConfigFails ==
    /\ main = "config"
    /\ Die("fatal")
    /\ UNCHANGED <<startVars, waited>>

\* NewRedisClient: a PING is answered once Redis is there.
Connect ==
    /\ main = "redis"
    /\ slept >= outage
    /\ open' = open \union {"redis"}
    /\ Then("ably")
    /\ UNCHANGED <<startVars, waited, req>>

Backoff == <<1, 2, 4, 8, 16>>

\* Mutant: a PING has no time-out and hangs while Redis is away.
PingHangs ==
    /\ main = "redis"
    /\ slept < outage
    /\ UNCHANGED vars

\* A PING fails, with a pause before the next ...
PingFails ==
    /\ main = "redis"
    /\ slept < outage
    /\ pings < 4
    /\ pings' = pings + 1
    /\ slept' = slept + Backoff[pings + 1]
    /\ UNCHANGED <<main, how, open, text, timeout, outage, waited, req>>

\* Mutant: the loop makes one attempt too few.
GiveUpEarly ==
    /\ main = "redis"
    /\ slept < outage
    /\ pings >= 3
    /\ pings' = pings + 1
    /\ Die("no redis")
    /\ UNCHANGED <<text, timeout, outage, slept, waited>>

\* ... and the fifth ends the process without another pause.
GiveUp ==
    /\ main = "redis"
    /\ slept < outage
    /\ pings = 4
    /\ pings' = pings + 1
    /\ Die("no redis")
    /\ UNCHANGED <<text, timeout, outage, slept, waited>>

\* NewAblyClient; the handlers and the routes are made, too.
InitAbly ==
    /\ main = "ably"
    /\ Then("subscribe")
    /\ UNCHANGED <<open, startVars, waited, req>>

\* Mutant: main goes on while the subscription is under way.
SubscribeLater ==
    /\ main = "subscribe"
    /\ Then("serve")
    /\ UNCHANGED <<open, startVars, waited, req>>

\* SubscribeToResponses returns once the channel is attached.
Subscribe ==
    /\ main = "subscribe"
    /\ open' = open \union {"answers"}
    /\ Then("serve")
    /\ UNCHANGED <<startVars, waited, req>>

\* An error of either is fatal.
AblyFails ==
    /\ main \in {"ably", "subscribe"}
    /\ Die("fatal")
    /\ UNCHANGED <<startVars, waited>>

\* From "serve" on ListenAndServe runs in a goroutine of its own: it listens,
\* unless Shutdown came first ...
Listen ==
    /\ main \in {"serve", "ready"}
    /\ open' = open \union {"http"}
    /\ UNCHANGED <<main, how, startVars, waited, req>>

\* ... or fails, then or later, and ends the process with what runs in it.
ServeFails ==
    /\ main \in {"serve", "ready"}
    /\ Die("fatal")
    /\ UNCHANGED <<startVars, waited>>

\* signal.Notify: from here on main waits for a signal.
Notify ==
    /\ main = "serve"
    /\ Then("ready")
    /\ UNCHANGED <<open, startVars, waited, req>>

\* SIGINT or SIGTERM kills a process that has not got that far.
SignalKills ==
    /\ main \in {"config", "redis", "ably", "subscribe", "serve"}
    /\ Die("killed")
    /\ UNCHANGED <<startVars, waited>>

\* After that it begins the Shutdown of the server, which closes the
\* listener; further signals are not looked at.
Shutdown ==
    /\ main = "ready"
    /\ open' = open \ {"http"}
    /\ Then("drain")
    /\ UNCHANGED <<startVars, waited, req>>

\* Shutdown returns when every request it knows of is answered ...
Drained ==
    /\ main = "drain"
    /\ Watched = {}
    /\ main' = "close ably"
    /\ how' = "graceful"
    /\ UNCHANGED <<open, startVars, waited, req>>

\* Mutant: the context of Shutdown is cancelled at once, not on return.
DrainCancelled ==
    /\ main = "drain"
    /\ main' = "close ably"
    /\ how' = "forced"
    /\ UNCHANGED <<open, startVars, waited, req>>

\* ... or when its time is over.
DrainExpires ==
    /\ main = "drain"
    /\ waited = Grace
    /\ main' = "close ably"
    /\ how' = "forced"
    /\ UNCHANGED <<open, startVars, waited, req>>

\* main returns and runs its deferred calls, the last one first.
CloseAbly ==
    /\ main = "close ably"
    /\ open' = open \ {"answers"}
    /\ Then("close redis")
    /\ UNCHANGED <<startVars, waited, req>>

CloseRedis ==
    /\ main = "close redis"
    /\ open' = open \ {"redis"}
    /\ Then("exit")
    /\ UNCHANGED <<startVars, waited, req>>

Exit ==
    /\ main = "exit"
    /\ Die(how)
    /\ UNCHANGED <<startVars, waited>>

-----------------------------------------------------------------------------
\* Requests.

Enter(r, stage, limit) ==
    /\ req' = [req EXCEPT ![r] =
                  [@ EXCEPT !.stage = stage, !.left = limit, !.tries = 0]]
    /\ UNCHANGED <<main, how, open, startVars, waited>>

\* The server has a connection of the client: a new one, or one kept alive.
Dial(r) ==
    /\ "http" \in open
    /\ req[r].stage = "new"
    /\ Enter(r, "connected", 0)

\* A header is read; the write deadline counts from here.  Shutdown closes the
\* listener, but leaves connections alone that are newer than HeaderGrace.
Accept(r) ==
    /\ req[r].stage = "connected"
    /\ \/ main \in {"serve", "ready"}
       \/ main = "drain" /\ waited <= HeaderGrace
    /\ Enter(r, "prepare", StepLimit)

\* Shutdown closes the other connections without a request, also one whose
\* header has just been read: its handler runs all the same, and nobody waits
\* for it.
SlipIn(r) ==
    /\ req[r].stage = "connected"
    /\ main \in {"drain", "close ably", "close redis", "exit"}
    /\ req' = [req EXCEPT ![r] = [@ EXCEPT !.stage = "prepare", !.left = StepLimit,
                                           !.seen = FALSE]]
    /\ UNCHANGED <<main, how, open, startVars, waited>>

\* net/http cancels the context, as a rule because the client's connection
\* has ended.  The handler looks at it in its wait only, so what happens
\* before counts from the first moment of the wait.
Cancel(r) ==
    /\ req[r].stage = "wait"
    /\ req[r].live
    /\ req' = [req EXCEPT ![r] = [@ EXCEPT !.live = FALSE]]
    /\ UNCHANGED <<main, how, open, startVars, waited>>

\* A time limit is over, or a cancelled context ends the wait.
Due(r) ==
    \/ req[r].left = 0
    \/ req[r].stage = "wait" /\ ~req[r].live

\* How long the handler waits: NewTransactionHandler replaces a time-out that
\* is not positive.
Patience ==
    LET wait == IF timeout <= 0 THEN Nanos(DefaultTimeout) ELSE timeout IN
    (wait + PerSecond - 1) \div PerSecond

\* Lookup, Store and hold are done: publish, or wait if held, or an error.
Prepared(r) ==
    /\ req[r].stage = "prepare"
    /\ \/ Enter(r, "publish", StepLimit)
       \/ Enter(r, "wait", Patience)
       \/ Enter(r, "respond", StepLimit)

\* PublishPaymentRequest: an attempt succeeds ...
Published(r) ==
    /\ req[r].stage = "publish"
    /\ Enter(r, "wait", Patience)

\* ... or fails: another one, after the last a 503.
PublishFails(r) ==
    /\ req[r].stage = "publish"
    /\ IF req[r].tries = PublishRetries
       THEN Enter(r, "respond", StepLimit)
       ELSE /\ req' = [req EXCEPT ![r] = [req[r] EXCEPT !.tries = @ + 1,
                                                        !.left = StepLimit]]
            /\ UNCHANGED <<main, how, open, startVars, waited>>

\* A poll finds an answer, or fails: after a forced shutdown Redis is closed
\* under the handlers.
Decided(r) ==
    /\ req[r].stage = "wait"
    /\ Enter(r, "respond", StepLimit)

\* The context has ended, by the time-out or with the request's context that
\* it derives from; the record is set to TIMEOUT.
TimedOut(r) ==
    /\ req[r].stage = "wait"
    /\ Due(r)
    /\ Enter(r, "timeout", StepLimit)

TimeoutDone(r) ==
    /\ req[r].stage = "timeout"
    /\ Enter(r, "respond", StepLimit)

\* Mutant: the buffer is forgotten.
WriteTimeoutBare == timeout

\* The server's WriteTimeout; zero or less is none.
WriteTimeout == Wrap(timeout + Nanos(Buffer))

\* The response is written, after which the request's times are forgotten, or
\* lost after the connection's write deadline.
Respond(r) ==
    /\ req[r].stage = "respond"
    /\ IF WriteTimeout > 0 /\ req[r].age * PerSecond >= WriteTimeout
       THEN Enter(r, "lost", 0)
       ELSE /\ req' = [req EXCEPT ![r] = [Unborn EXCEPT !.stage = "sent"]]
            /\ UNCHANGED <<main, how, open, startVars, waited>>

\* Mutant: the context of Shutdown has no time-out.
TickOn ==
    /\ main \in {"serve", "ready", "drain"}
    /\ InServer # {}
    /\ \A r \in InServer : ~Due(r)
    /\ req' = [r \in Requests |->
          IF r \notin InServer THEN req[r]
          ELSE [req[r] EXCEPT !.left = @ - 1, !.age = @ + 1,
                   !.slow = IF req[r].stage = "wait" THEN @ ELSE @ + 1]]
    /\ waited' = IF main = "drain" THEN waited + 1 ELSE waited
    /\ UNCHANGED <<main, how, open, startVars>>

\* A unit of time passes for the requests and for Shutdown; not while
\* something is due, and not while main returns.
Tick ==
    /\ main \in {"serve", "ready", "drain"}
    /\ InServer # {}
    /\ \A r \in InServer : ~Due(r)
    /\ waited < Grace
    /\ req' = [r \in Requests |->
          IF r \notin InServer THEN req[r]
          ELSE [req[r] EXCEPT !.left = @ - 1, !.age = @ + 1,
                   !.slow = IF req[r].stage = "wait" THEN @ ELSE @ + 1]]
    /\ waited' = IF main = "drain" THEN waited + 1 ELSE waited
    /\ UNCHANGED <<main, how, open, startVars>>

-----------------------------------------------------------------------------
MainStep ==
    \/ LoadConfig \/ LoadConfigFails \/ Connect \/ PingFails \/ GiveUp
    \/ InitAbly \/ Subscribe \/ AblyFails \/ Notify
    \/ Drained \/ DrainExpires \/ CloseAbly \/ CloseRedis \/ Exit

\* What comes from outside.
ClientStep(r) ==
    Dial(r) \/ Accept(r) \/ SlipIn(r) \/ Cancel(r) \/ Decided(r)

RequestStep(r) ==
    \/ Prepared(r) \/ Published(r) \/ PublishFails(r)
    \/ TimedOut(r) \/ TimeoutDone(r) \/ Respond(r)

Next ==
    \/ MainStep
    \/ Listen \/ ServeFails
    \/ SignalKills \/ Shutdown
    \/ \E r \in Requests : ClientStep(r) \/ RequestStep(r)
    \/ Tick

Spec == Init /\ [][Next]_vars

(***************************************************************************)
(* Pings, publishes and Redis commands end by their time-outs, goroutines  *)
(* that can run do, and time passes.  Nothing is assumed of signals,       *)
(* clients and answers.                                                    *)
(***************************************************************************)
FairSpec ==
    /\ Spec
    /\ WF_vars(MainStep) /\ WF_vars(Tick)
    /\ \A r \in Requests : WF_vars(RequestStep(r))

-----------------------------------------------------------------------------
(***************************************************************************)
(* Properties.                                                             *)
(***************************************************************************)

\* What runs finds its connections open: an answer that is delivered finds
\* Redis, and a request finds Redis and somebody listening for its answer,
\* from before the first request until after the last that Shutdown knows of,
\* unless the shutdown is forced: the order of main's statements and of its
\* deferred calls.
RequestsFindConnections ==
    /\ "answers" \in open => "redis" \in open
    /\ Watched # {} /\ how # "forced" => {"redis", "answers"} \subseteq open

\* Shutdown begins with Grace ahead, and no request enters the server later
\* than HeaderGrace after that.  So a shutdown that began after signal.Notify
\* cuts no request younger than the difference, and none at all if it is
\* graceful, but for those that slipped in while their connection was closed.
OnlyOldRequestsAreCut ==
    \A r \in Requests :
        req[r].stage = "cut" /\ req[r].seen =>
            /\ how # "graceful"
            /\ how = "forced" => req[r].age + HeaderGrace >= Grace

\* The configured time-out as a number, and whether its nanoseconds fit.
Seconds == IF text = Unset THEN DefaultTimeout ELSE text
Fits == Seconds <= MostSeconds

\* As long as everything but the wait takes less than the buffer, the 200 or
\* 408 is written before the deadline, at every time-out whose nanoseconds fit; the sum
\* with the buffer may overflow.
PunctualResponsesArrive ==
    \A r \in Requests :
        req[r].stage = "lost" /\ Fits => req[r].slow >= Buffer

\* At a time-out that fits, no request waits for more seconds than
\* TIMEOUT_DURATION says, and none is timed out after fewer unless its context
\* was cancelled before, through all conversions.
WaitsAsConfigured ==
    \A r \in Requests :
        req[r].stage \in {"wait", "timeout"} /\ Fits =>
            /\ req[r].age - req[r].slow <= Seconds
            /\ req[r].stage = "timeout" /\ req[r].live =>
                  req[r].age - req[r].slow = Seconds

\* A Redis that is back within the pauses that are really made, 15 s and not
\* the 31 s of the comment, does not keep the process from starting.
StartSurvivesOutage == how = "no redis" => outage > 15

\* The start comes to an end, and so does a shutdown.
StartAndStopEnd ==
    /\ main = "config" ~> main \in {"ready", "exited"}
    /\ main = "drain" ~> main = "exited"
=============================================================================
