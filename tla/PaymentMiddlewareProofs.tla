----------------------- MODULE PaymentMiddlewareProofs -----------------------
(***************************************************************************)
(* Proofs about PaymentMiddleware, for any numbers of requests, trx_ids,   *)
(* callback goroutines, retries, failures, duplicates and crashes.         *)
(***************************************************************************)
EXTENDS PaymentMiddleware, RedisTransactionStoreProofs, FiniteSetTheorems

-----------------------------------------------------------------------------
(***************************************************************************)
(* Types.                                                                  *)
(***************************************************************************)

\* The conjuncts of TypeOK that are not about the store.
HandlerTypeOK ==
    /\ pc \in [Posts -> {"new", "done"} \union Waiting]
    /\ attempt \in [Posts -> 0 .. PublishRetries]
    /\ expired \in [Posts -> BOOLEAN]
    /\ reply \in [Posts -> [code : Codes, data : EDCResponse \union {NoData}]]

ChannelTypeOK ==
    /\ copies \in [Posts -> Nat]
    /\ inbox \subseteq EDCResponse
    /\ answers \subseteq EDCResponse
    /\ job \in [Workers -> EDCResponse \union {NoJob}]

BoundTypeOK ==
    /\ alive \in BOOLEAN
    /\ faults \in 0 .. MaxFaults
    /\ touches \in 0 .. MaxTouches
    /\ resends \in 0 .. MaxResends
    /\ crashes \in 0 .. MaxCrashes

LEMMA HandlerTypeStep ==
    StoreTypeOK /\ HandlerTypeOK /\ [Next]_vars => HandlerTypeOK'
<1> SUFFICES ASSUME StoreTypeOK, HandlerTypeOK, [Next]_vars
             PROVE  HandlerTypeOK'
    OBVIOUS
<1> USE BoundsAssumption DEF HandlerTypeOK
<1>0. \A p \in Posts, code \in Codes, data \in EDCResponse \union {NoData} :
         Respond(p, code, data) => HandlerTypeOK'
    BY DEF Respond, Goto
<1>1. \A p \in Posts : db[TrxOf[p]] # NoTx =>
         db[TrxOf[p]].data \in EDCResponse \union {NoData}
    BY TrxOfAssumption DEF StoreTypeOK, Transaction
<1>2. ASSUME NEW p \in Posts, Receive(p) PROVE HandlerTypeOK'
    BY <1>2, <1>0 DEF Receive, Goto, Waiting, Codes
<1>3. ASSUME NEW p \in Posts, HandlerStep(p) PROVE HandlerTypeOK'
    <2>1. CASE Lookup(p)
        BY <2>1, <1>0 DEF Lookup, Goto, Waiting, Codes
    <2>2. CASE StoreTransaction(p)
        BY <2>2 DEF StoreTransaction, Goto, Waiting
    <2>3. CASE CheckHold(p)
        BY <2>3 DEF CheckHold, Goto, Waiting
    <2>4. CASE Publish(p)
        BY <2>4 DEF Publish, Goto, Waiting
    <2>5. CASE Poll(p)
        BY <2>5, <1>0, <1>1 DEF Poll, Codes
    <2>6. CASE PollFails(p)
        BY <2>6, <1>0 DEF PollFails, Codes
    <2>7. CASE TimeoutBegin(p)
        BY <2>7 DEF TimeoutBegin, Goto, Waiting
    <2>8. CASE TimeoutReply(p)
        BY <2>8, <1>0 DEF TimeoutReply, Codes
    <2> QED BY <1>3, <2>1, <2>2, <2>3, <2>4, <2>5, <2>6, <2>7, <2>8
            DEF HandlerStep
<1>4. ASSUME NEW p \in Posts, StoreFails(p) PROVE HandlerTypeOK'
    BY <1>4, <1>0 DEF StoreFails, Codes
<1>5. ASSUME NEW p \in Posts, PublishFails(p) PROVE HandlerTypeOK'
    <2>1. CASE attempt[p] < PublishRetries
        BY <1>5, <2>1 DEF PublishFails
    <2>2. CASE ~(attempt[p] < PublishRetries)
        BY <1>5, <2>2, <1>0 DEF PublishFails, Codes
    <2> QED BY <2>1, <2>2
<1>6. ASSUME NEW p \in Posts, Deadline(p) \/ Disconnect(p) PROVE HandlerTypeOK'
    BY <1>6 DEF Deadline, Disconnect
<1>7. CASE Crash
    <2>1. pc' \in [Posts -> {"new", "done"} \union Waiting]
        BY <1>7 DEF Crash
    <2>2. /\ attempt' \in [Posts -> 0 .. PublishRetries]
          /\ expired' \in [Posts -> BOOLEAN]
        BY <1>7 DEF Crash
    <2>3. reply' \in [Posts -> [code : Codes, data : EDCResponse \union {NoData}]]
        BY <1>7 DEF Crash, Codes
    <2> QED BY <2>1, <2>2, <2>3
<1>8. CASE UNCHANGED handlerVars
    BY <1>8 DEF handlerVars
<1> QED
    BY <1>2, <1>3, <1>4, <1>5, <1>6, <1>7, <1>8
       DEF Next, vars, EdcAnswer, Deliver, CallbackStep, CallbackLoad,
           CallbackDrops, CallbackReturn, Step, StepFails, Discard, ChangeTTL,
           Restart

LEMMA ChannelTypeStep ==
    HandlerTypeOK /\ ChannelTypeOK /\ [Next]_vars => ChannelTypeOK'
<1> SUFFICES ASSUME HandlerTypeOK, ChannelTypeOK, [Next]_vars
             PROVE  ChannelTypeOK'
    OBVIOUS
<1> USE DEF ChannelTypeOK
<1>1. ASSUME NEW p \in Posts, Delivered(p) PROVE ChannelTypeOK'
    BY <1>1 DEF Delivered
<1>2. ASSUME NEW p \in Posts, NEW s \in EDCStatuses, EdcAnswer(p, s)
      PROVE  ChannelTypeOK'
    BY <1>2 DEF EdcAnswer, EDCResponse
<1>3. ASSUME NEW w \in Workers, NEW m \in EDCResponse, Deliver(w, m)
      PROVE  ChannelTypeOK'
    BY <1>3 DEF Deliver
<1>4. ASSUME NEW w \in Workers, CallbackDrops(w) \/ CallbackReturn(w)
      PROVE  ChannelTypeOK'
    BY <1>4 DEF CallbackDrops, CallbackReturn
<1>5. ASSUME NEW m \in EDCResponse, Discard(m) PROVE ChannelTypeOK'
    BY <1>5 DEF Discard
<1>6. CASE Crash
    BY <1>6 DEF Crash
<1>7. CASE UNCHANGED channelVars
    BY <1>7 DEF channelVars
<1> QED
    BY <1>1, <1>2, <1>3, <1>4, <1>5, <1>6, <1>7
       DEF Next, vars, Receive, HandlerStep, Lookup, StoreTransaction, CheckHold,
           Publish, Poll, PollFails, TimeoutBegin, TimeoutReply, StoreFails,
           PublishFails, Deadline, Disconnect, CallbackStep, CallbackLoad, Step,
           StepFails, ChangeTTL, Restart, channelVars

LEMMA BoundTypeStep == BoundTypeOK /\ [Next]_vars => BoundTypeOK'
<1> SUFFICES ASSUME BoundTypeOK, [Next]_vars
             PROVE  BoundTypeOK'
    OBVIOUS
<1> USE BoundsAssumption DEF BoundTypeOK
<1>1. CASE UNCHANGED boundVars
    BY <1>1 DEF boundVars
<1>2. CASE Failure
    BY <1>2 DEF Failure
<1>3. ASSUME NEW w \in Workers, NEW m \in EDCResponse, Deliver(w, m)
      PROVE  BoundTypeOK'
    BY <1>3 DEF Deliver, boundVars
<1>4. ASSUME NEW t \in TrxIDs, ChangeTTL(t) PROVE BoundTypeOK'
    BY <1>4 DEF ChangeTTL
<1>5. CASE Crash \/ Restart
    <2>1. alive' \in BOOLEAN
        BY <1>5 DEF Crash, Restart
    <2>2. /\ crashes' \in 0 .. MaxCrashes
          /\ UNCHANGED <<faults, touches, resends>>
        BY <1>5 DEF Crash, Restart
    <2> QED BY <2>1, <2>2
<1> QED
    BY <1>1, <1>2, <1>3, <1>4, <1>5
       DEF Next, vars, Receive, HandlerStep, Lookup, StoreTransaction, CheckHold,
           Publish, Poll, PollFails, TimeoutBegin, TimeoutReply, StoreFails,
           PublishFails, Deadline, Disconnect, EdcAnswer, CallbackStep,
           CallbackLoad, CallbackDrops, CallbackReturn, Step, StepFails, Discard

-----------------------------------------------------------------------------
(***************************************************************************)
(* The store inside the middleware.  Every step is one of the store's or   *)
(* leaves it alone, but for the crash, which ends all calls at once.       *)
(***************************************************************************)

\* What a crash does to the store: the calls are gone, the records stay.
StoreReset ==
    /\ phase' = [c \in Clients |-> "idle"]
    /\ arg' = [c \in Clients |-> NoCall]
    /\ tries' = [c \in Clients |-> 0]
    /\ watch' = [c \in Clients |-> "off"]
    /\ snap' = [c \in Clients |-> NoTx]
    /\ rivals' = [c \in Clients |-> 0]
    /\ UNCHANGED db

LEMMA StoreSteps ==
    ChannelTypeOK /\ [Next]_vars => [StoreNext]_storeVars \/ StoreReset
<1> SUFFICES ASSUME ChannelTypeOK, [Next]_vars
             PROVE  StoreNext \/ UNCHANGED storeVars \/ StoreReset
    OBVIOUS
<1>1. ASSUME NEW p \in Posts, HandlerStep(p)
      PROVE  StoreNext \/ UNCHANGED storeVars
    <2>1. p \in Clients /\ TrxOf[p] \in TrxIDs /\ Timeout \in Updates
        BY ClientsAssumption, TrxOfAssumption DEF Updates
    <2>2. CASE Store(p) \/ Begin(p, TrxOf[p], Timeout) \/ Return(p)
        BY <2>1, <2>2 DEF StoreNext
    <2> QED
        BY <1>1, <2>2 DEF HandlerStep, Lookup, StoreTransaction, CheckHold,
            Publish, Poll, PollFails, TimeoutBegin, TimeoutReply
<1>2. ASSUME NEW p \in Posts, StoreFails(p)
      PROVE  StoreNext \/ UNCHANGED storeVars
    BY <1>2 DEF StoreFails, StoreNext
<1>3. ASSUME NEW w \in Workers, CallbackStep(w)
      PROVE  StoreNext \/ UNCHANGED storeVars
    <2>1. w \in Clients
        BY ClientsAssumption
    <2>2. CASE CallbackLoad(w)
        <3>1. job[w] \in EDCResponse
            BY <2>2 DEF CallbackLoad, ChannelTypeOK
        <3>2. TrxIDOf(job[w]) \in TrxIDs /\ job[w] \in Updates
            BY <3>1, TrxOfAssumption DEF TrxIDOf, EDCResponse, Updates
        <3> QED BY <2>1, <2>2, <3>2 DEF CallbackLoad, StoreNext
    <2>3. CASE CallbackDrops(w)
        BY <2>3 DEF CallbackDrops
    <2>4. CASE CallbackReturn(w)
        BY <2>1, <2>4 DEF CallbackReturn, StoreNext
    <2> QED BY <1>3, <2>2, <2>3, <2>4 DEF CallbackStep
<1>4. ASSUME NEW c \in Clients, Step(c) \/ StepFails(c)
      PROVE  StoreNext
    BY <1>4 DEF Step, StepFails, StoreNext
<1>5. ASSUME NEW t \in TrxIDs, ChangeTTL(t)
      PROVE  StoreNext
    BY <1>5 DEF ChangeTTL, StoreNext
<1>6. CASE Crash
    BY <1>6 DEF Crash, StoreReset
<1>7. CASE UNCHANGED storeVars
    BY <1>7
<1> QED
    BY <1>1, <1>2, <1>3, <1>4, <1>5, <1>6, <1>7
       DEF Next, vars, Receive, PublishFails, Deadline, Disconnect, EdcAnswer,
           Deliver, Discard, Restart

\* The store's invariants hold with crashes, too.
StoreInv == TypeInv /\ CleanMeansFresh /\ StatusMatchesData

LEMMA StoreInvStep == StoreInv /\ ChannelTypeOK /\ [Next]_vars => StoreInv'
<1> SUFFICES ASSUME StoreInv, ChannelTypeOK, [Next]_vars
             PROVE  StoreInv'
    OBVIOUS
<1>1. CASE [StoreNext]_storeVars
    BY <1>1, TypeStep, FreshStep, StatusStep DEF StoreInv
<1>2. CASE StoreReset
    <2> USE <1>2, RetriesAssumption, RivalsAssumption DEF StoreReset
    <2>1. StoreTypeOK'
        BY DEF StoreInv, TypeInv, StoreTypeOK
    <2>2. CallShape'
        BY DEF CallShape, InCall
    <2>3. CleanMeansFresh'
        BY DEF CleanMeansFresh
    <2>4. StatusMatchesData'
        BY DEF StoreInv, StatusMatchesData
    <2> QED BY <2>1, <2>2, <2>3, <2>4 DEF StoreInv, TypeInv
<1> QED BY <1>1, <1>2, StoreSteps

\* Everything above, as one invariant of the middleware.
BaseInv == StoreInv /\ HandlerTypeOK /\ ChannelTypeOK /\ BoundTypeOK

LEMMA BaseInit == Init => BaseInv
<1> SUFFICES ASSUME Init PROVE BaseInv
    OBVIOUS
<1>1. StoreInv
    BY TypeInit DEF Init, StoreInit, StoreInv, CleanMeansFresh, StatusMatchesData
<1>2. HandlerTypeOK
    BY BoundsAssumption DEF Init, HandlerTypeOK, NoReply, Codes
<1>3. ChannelTypeOK
    BY DEF Init, ChannelTypeOK
<1>4. BoundTypeOK
    BY BoundsAssumption DEF Init, BoundTypeOK
<1> QED BY <1>1, <1>2, <1>3, <1>4 DEF BaseInv

LEMMA BaseStep == BaseInv /\ [Next]_vars => BaseInv'
BY HandlerTypeStep, ChannelTypeStep, BoundTypeStep, StoreInvStep
   DEF BaseInv, StoreInv, TypeInv

LEMMA BaseHolds == Spec => []BaseInv
BY BaseInit, BaseStep, PTL DEF Spec

\* Every variable of the middleware keeps its type: handlers publish at most
\* PublishRetries + 1 times, and every response is one of the codes.
THEOREM MiddlewareTypes == Spec => []TypeOK
<1>1. BaseInv => TypeOK
    BY DEF BaseInv, StoreInv, TypeInv, TypeOK, HandlerTypeOK, ChannelTypeOK,
           BoundTypeOK
<1> QED BY <1>1, BaseHolds, PTL

-----------------------------------------------------------------------------
(***************************************************************************)
(* What the store promises, it promises here too: under handlers and       *)
(* callbacks, failing commands and crashes.                                *)
(***************************************************************************)

\* A crash ends every abstract call and leaves the abstract records alone.
LEMMA ResetIsCrash == StoreReset => Atomic!Crash
BY DEF StoreReset, Atomic!Crash, InCall

LEMMA AtomicStep ==
    BaseInv /\ [Next]_vars => [Atomic!Next \/ Atomic!Crash]_(Atomic!vars)
<1>1. ASSUME BaseInv, [Next]_vars, [StoreNext]_storeVars
      PROVE  [Atomic!Next \/ Atomic!Crash]_(Atomic!vars)
    BY <1>1, RefinementStep DEF BaseInv, StoreInv
<1>2. ASSUME BaseInv, [Next]_vars, StoreReset
      PROVE  [Atomic!Next \/ Atomic!Crash]_(Atomic!vars)
    BY <1>2, ResetIsCrash
<1> QED BY <1>1, <1>2, StoreSteps DEF BaseInv

\* However handlers and callbacks share the store, and whenever the process
\* dies, every Update is one indivisible step on the record or none.
THEOREM StoreStaysAtomic == Spec => StoreIsAtomic
<1>1. Init => Atomic!Init
    BY RefinementInit DEF Init
<1> QED BY <1>1, AtomicStep, BaseHolds, PTL
        DEF Spec, StoreIsAtomic, Atomic!CrashSpec

\* Whatever requests, answers, time-outs, failures and crashes meet in a
\* record: its status is the one its answer spells.
THEOREM OutcomesSpellAnswers == Spec => []StatusMatchesData
<1>1. BaseInv => StatusMatchesData
    BY DEF BaseInv, StoreInv
<1> QED BY <1>1, BaseHolds, PTL

\* No crash in the middle of an Update leaves a connection behind that
\* could write an outdated record after the restart.
THEOREM NoStaleWrites == Spec => []CleanMeansFresh
<1>1. BaseInv => CleanMeansFresh
    BY DEF BaseInv, StoreInv
<1> QED BY <1>1, BaseHolds, PTL

\* An answer that is stored leaves its record by an expiry or a new POST
\* only, not by a timeout, a second answer or a crash.
THEOREM StoredAnswersStay == Spec => AnswersKept
<1>1. BaseInv /\ [Next]_vars => [Keeps]_storeVars
    <2>1. ASSUME BaseInv, [Next]_vars, [StoreNext]_storeVars PROVE [Keeps]_storeVars
        BY <2>1, KeepsStep DEF BaseInv, StoreInv
    <2>2. ASSUME BaseInv, [Next]_vars, StoreReset PROVE [Keeps]_storeVars
        <3>1. db' = db
            BY <2>2 DEF StoreReset
        <3> QED BY <3>1 DEF Keeps
    <2> QED BY <2>1, <2>2, StoreSteps DEF BaseInv
<1> QED BY <1>1, BaseHolds, PTL DEF Spec, AnswersKept, Keeps

\* An Update of a handler or a callback comes nearer to its end with every
\* command, and a crash ends it.
THEOREM UpdatesAdvance == Spec => UpdateAdvances
<1>1. BaseInv /\ [Next]_vars => Advances
    <2>1. ASSUME BaseInv, [Next]_vars, [StoreNext]_storeVars PROVE Advances
        BY <2>1, AdvanceStep DEF BaseInv, StoreInv
    <2>2. ASSUME BaseInv, [Next]_vars, StoreReset PROVE Advances
        <3>1. TypeInv /\ \A c \in Clients : phase'[c] \notin InCall
            BY <2>2 DEF BaseInv, StoreInv, StoreReset, InCall
        <3> QED BY <3>1, EndsCommands DEF Advances
    <2> QED BY <2>1, <2>2, StoreSteps DEF BaseInv
<1> QED BY <1>1, BaseHolds, PTL DEF Spec, UpdateAdvances, Advances

\* A handler or callback whose Update gives up was beaten MaxRetries times.
THEOREM GivingUpIsEarned == Spec => []RetryBudget
<1>1. Init => BudgetInv
    BY DEF Init, StoreInit, BudgetInv, InCall
<1>2. BaseInv /\ BudgetInv /\ [Next]_vars => BudgetInv'
    <2>1. ASSUME BaseInv, BudgetInv, [Next]_vars, [StoreNext]_storeVars PROVE BudgetInv'
        BY <2>1, BudgetStep DEF BaseInv, StoreInv
    <2>2. ASSUME BudgetInv, StoreReset PROVE BudgetInv'
        BY <2>2 DEF StoreReset, BudgetInv, InCall
    <2> QED BY <2>1, <2>2, StoreSteps DEF BaseInv
<1>3. BudgetInv => RetryBudget
    BY DEF BudgetInv, RetryBudget
<1> QED BY <1>1, <1>2, <1>3, BaseHolds, PTL DEF Spec

-----------------------------------------------------------------------------
(***************************************************************************)
(* What a step does to one handler, to one call of Update, and to Redis.   *)
(***************************************************************************)

\* A handler stays, advances, answers from the record, or ends otherwise.
Advance == {<<"new", "lookup">>, <<"lookup", "store">>, <<"hold", "publish">>,
            <<"hold", "poll">>, <<"publish", "poll">>}

LEMMA HandlerMoves ==
    ASSUME HandlerTypeOK, [Next]_vars, NEW p \in Posts
    PROVE  \/ pc'[p] = pc[p] /\ reply'[p] = reply[p]
           \/ <<pc[p], pc'[p]>> \in Advance /\ reply'[p] = reply[p]
           \/ StoreTransaction(p) /\ pc'[p] = "hold" /\ reply'[p] = reply[p]
           \/ TimeoutBegin(p) /\ pc'[p] = "timeout" /\ reply'[p] = reply[p]
           \/ Poll(p)
           \/ /\ pc[p] # "done"
              /\ pc'[p] = "done"
              /\ reply'[p].code \notin {"200", "500 no data"}
<1> DEFINE Goal ==
      \/ pc'[p] = pc[p] /\ reply'[p] = reply[p]
      \/ <<pc[p], pc'[p]>> \in Advance /\ reply'[p] = reply[p]
      \/ StoreTransaction(p) /\ pc'[p] = "hold" /\ reply'[p] = reply[p]
      \/ TimeoutBegin(p) /\ pc'[p] = "timeout" /\ reply'[p] = reply[p]
      \/ Poll(p)
      \/ /\ pc[p] # "done"
         /\ pc'[p] = "done"
         /\ reply'[p].code \notin {"200", "500 no data"}
<1> SUFFICES Goal
    OBVIOUS
<1> USE DEF HandlerTypeOK
<1>0. \A q \in Posts, code \in Codes, data \in EDCResponse \union {NoData} :
         Respond(q, code, data) =>
            /\ q # p => pc'[p] = pc[p] /\ reply'[p] = reply[p]
            /\ q = p => pc'[p] = "done" /\ reply'[p].code = code
    BY DEF Respond, Goto
<1>1. ASSUME NEW q \in Posts, Receive(q) PROVE Goal
    BY <1>1, <1>0 DEF Receive, Goto, Advance, Codes
<1>2. ASSUME NEW q \in Posts, Lookup(q) PROVE Goal
    BY <1>2, <1>0 DEF Lookup, Goto, Advance, Codes
<1>3. ASSUME NEW q \in Posts, StoreTransaction(q) PROVE Goal
    BY <1>3 DEF StoreTransaction, Goto
<1>4. ASSUME NEW q \in Posts, StoreFails(q) PROVE Goal
    BY <1>4, <1>0 DEF StoreFails, Codes
<1>5. ASSUME NEW q \in Posts, CheckHold(q) \/ Publish(q) PROVE Goal
    BY <1>5 DEF CheckHold, Publish, Goto, Advance
<1>6. ASSUME NEW q \in Posts, PublishFails(q) PROVE Goal
    <2>1. CASE attempt[q] < PublishRetries
        BY <1>6, <2>1 DEF PublishFails
    <2>2. CASE ~(attempt[q] < PublishRetries)
        BY <1>6, <2>2, <1>0 DEF PublishFails, Codes
    <2> QED BY <2>1, <2>2
<1>7. ASSUME NEW q \in Posts, Poll(q) PROVE Goal
    <2>1. CASE q = p
        BY <1>7, <2>1
    <2>2. CASE q # p
        BY <1>7, <2>2 DEF Poll, Respond, Goto
    <2> QED BY <2>1, <2>2
<1>8. ASSUME NEW q \in Posts, PollFails(q) PROVE Goal
    BY <1>8, <1>0 DEF PollFails, Codes
<1>9. ASSUME NEW q \in Posts, TimeoutBegin(q) PROVE Goal
    BY <1>9 DEF TimeoutBegin, Goto
<1>10. ASSUME NEW q \in Posts, TimeoutReply(q) PROVE Goal
    BY <1>10, <1>0 DEF TimeoutReply, Codes
<1>11. CASE Crash
    BY <1>11 DEF Crash, Waiting
<1>12. CASE UNCHANGED <<pc, reply>>
    BY <1>12
<1> QED
    BY <1>1, <1>2, <1>3, <1>4, <1>5, <1>6, <1>7, <1>8, <1>9, <1>10, <1>11, <1>12
       DEF Next, vars, handlerVars, HandlerStep, Deadline, Disconnect, EdcAnswer,
           Deliver, CallbackStep, CallbackLoad, CallbackDrops, CallbackReturn,
           Step, StepFails, Discard, ChangeTTL, Restart

\* A call of Update is new, from a timeout or an answer; or it goes on, and
\* then a handler that waits for it stays; or there is none.
LEMMA CallMoves ==
    ASSUME BaseInv, [Next]_vars, NEW c \in Clients
    PROVE  \/ phase'[c] = "idle"
           \/ c \in Posts /\ TimeoutBegin(c)
           \/ c \in Workers /\ CallbackLoad(c)
           \/ /\ phase[c] # "idle"
              /\ arg'[c] = arg[c]
              /\ c \in Posts /\ pc[c] = "timeout" => pc'[c] = "timeout"
<1> DEFINE Goal ==
      \/ phase'[c] = "idle"
      \/ c \in Posts /\ TimeoutBegin(c)
      \/ c \in Workers /\ CallbackLoad(c)
      \/ /\ phase[c] # "idle"
         /\ arg'[c] = arg[c]
         /\ c \in Posts /\ pc[c] = "timeout" => pc'[c] = "timeout"
<1> SUFFICES ASSUME phase'[c] # "idle" PROVE Goal
    OBVIOUS
<1> USE ClientsAssumption
    DEF BaseInv, StoreInv, TypeInv, StoreTypeOK, HandlerTypeOK
<1>1. CASE UNCHANGED <<phase, arg, pc>>
    BY <1>1
<1>2. ASSUME NEW q \in Posts, Receive(q) \/ Lookup(q) \/ StoreTransaction(q)
                 \/ CheckHold(q) \/ Publish(q) \/ Poll(q) \/ PollFails(q)
                 \/ StoreFails(q) \/ PublishFails(q)
      PROVE  Goal
    BY <1>2 DEF Receive, Lookup, StoreTransaction, CheckHold, Publish, Poll,
        PollFails, StoreFails, PublishFails, Respond, Goto, Store, storeVars
<1>3. ASSUME NEW q \in Posts, TimeoutBegin(q) PROVE Goal
    BY <1>3 DEF TimeoutBegin, Begin, Goto
<1>4. ASSUME NEW q \in Posts, TimeoutReply(q) PROVE Goal
    BY <1>4 DEF TimeoutReply, Return, Respond, Goto
<1>5. ASSUME NEW w \in Workers, CallbackLoad(w) PROVE Goal
    BY <1>5 DEF CallbackLoad, Begin, handlerVars
<1>6. ASSUME NEW w \in Workers, CallbackReturn(w) PROVE Goal
    BY <1>6 DEF CallbackReturn, Return, handlerVars
<1>7. ASSUME NEW d \in Clients, Step(d) \/ StepFails(d) PROVE Goal
    <2>1. UNCHANGED <<arg, pc>>
        BY <1>7 DEF Step, StepFails, UpdateStep, Watch, GetNil, Get, Exec,
            Conflict, Fault, FaultAfterExec, Commit, handlerVars
    <2>2. phase[d] # "idle" /\ \E l : phase' = [phase EXCEPT ![d] = l]
        BY <1>7 DEF Step, StepFails, UpdateStep, Watch, GetNil, Get, Exec, End,
            Conflict, Fault, FaultAfterExec, Commit, InCall
    <2> QED BY <2>1, <2>2
<1>8. CASE Crash
    BY <1>8 DEF Crash
<1> QED
    BY <1>1, <1>2, <1>3, <1>4, <1>5, <1>6, <1>7, <1>8
       DEF Next, vars, handlerVars, storeVars, HandlerStep, Deadline, Disconnect,
           EdcAnswer, Deliver, CallbackStep, CallbackDrops, Discard, ChangeTTL,
           Touch, Expire, Restart

\* Redis changes by a POST, by an EXEC, or by an expiry.
LEMMA RecordMoves ==
    ASSUME [Next]_vars
    PROVE  \/ \E p \in Posts : pc[p] = "store" /\ Store(p)
           \/ \E c \in Clients : /\ Commit(c)
                                 /\ UNCHANGED <<handlerVars, channelVars, touches>>
           \/ (\E t \in TrxIDs : Expire(t)) /\ touches' = touches + 1
           \/ UNCHANGED db
<1> DEFINE Goal ==
      \/ \E p \in Posts : pc[p] = "store" /\ Store(p)
      \/ \E c \in Clients : /\ Commit(c)
                            /\ UNCHANGED <<handlerVars, channelVars, touches>>
      \/ (\E t \in TrxIDs : Expire(t)) /\ touches' = touches + 1
      \/ UNCHANGED db
<1> SUFFICES Goal
    OBVIOUS
<1>1. ASSUME NEW p \in Posts, StoreTransaction(p) \/ StoreFails(p) PROVE Goal
    BY <1>1 DEF StoreTransaction, StoreFails, storeVars
<1>2. ASSUME NEW c \in Clients, Step(c) \/ StepFails(c) PROVE Goal
    <2>1. UNCHANGED <<handlerVars, channelVars, touches>>
        BY <1>2 DEF Step, StepFails, Failure, boundVars
    <2>2. Commit(c) \/ UNCHANGED db
        BY <1>2 DEF Step, StepFails, UpdateStep, Watch, GetNil, Get, Exec,
            Conflict, Fault, FaultAfterExec
    <2> QED BY <2>1, <2>2
<1>3. ASSUME NEW t \in TrxIDs, ChangeTTL(t) PROVE Goal
    BY <1>3 DEF ChangeTTL, Touch
<1>4. CASE UNCHANGED db
    BY <1>4
<1> QED
    BY <1>1, <1>2, <1>3, <1>4
       DEF Next, vars, storeVars, HandlerStep, CallbackStep, Receive, Lookup,
           CheckHold, Publish, PublishFails, Poll, PollFails, Deadline,
           Disconnect, TimeoutBegin, TimeoutReply, Begin, Return, EdcAnswer,
           Deliver, CallbackLoad, CallbackDrops, CallbackReturn, Discard, Crash,
           Restart

-----------------------------------------------------------------------------
(***************************************************************************)
(* Answers are authentic.  On its way from the terminal an answer is in    *)
(* the inbox, then in a callback, then in a call of Update, and only then  *)
(* in a record and in a response; the invariant follows it.                *)
(***************************************************************************)

AuthInv ==
    /\ inbox \subseteq answers
    /\ \A w \in Workers : job[w] # NoJob => job[w] \in answers
    /\ \A c \in Clients : phase[c] # "idle" /\ arg[c].fn # Timeout =>
          arg[c].fn \in answers /\ TrxIDOf(arg[c].fn) = arg[c].trx
    /\ AnswerIsAuthentic

LEMMA AnswersGrow == [Next]_vars => answers \subseteq answers'
BY DEF Next, vars, channelVars, HandlerStep, CallbackStep, Receive, Lookup,
       StoreTransaction, StoreFails, CheckHold, Publish, PublishFails, Delivered,
       Poll, PollFails, Deadline, Disconnect, TimeoutBegin, TimeoutReply,
       EdcAnswer, Deliver, CallbackLoad, CallbackDrops, CallbackReturn, Step,
       StepFails, Discard, ChangeTTL, Crash, Restart

LEMMA QueueAuthStep ==
    ASSUME ChannelTypeOK, AuthInv, [Next]_vars
    PROVE  /\ inbox' \subseteq answers'
           /\ \A w \in Workers : job'[w] # NoJob => job'[w] \in answers'
<1> USE DEF ChannelTypeOK, AuthInv
<1> DEFINE Goal == /\ inbox' \subseteq answers'
                   /\ \A w \in Workers : job'[w] # NoJob => job'[w] \in answers'
<1> SUFFICES Goal
    OBVIOUS
<1>1. CASE UNCHANGED <<inbox, answers, job>>
    BY <1>1
<1>2. ASSUME NEW p \in Posts, NEW s \in EDCStatuses, EdcAnswer(p, s) PROVE Goal
    BY <1>2 DEF EdcAnswer
<1>3. ASSUME NEW w \in Workers, NEW m \in EDCResponse, Deliver(w, m) PROVE Goal
    BY <1>3 DEF Deliver
<1>4. ASSUME NEW w \in Workers, CallbackDrops(w) \/ CallbackReturn(w) PROVE Goal
    BY <1>4 DEF CallbackDrops, CallbackReturn
<1>5. ASSUME NEW m \in EDCResponse, Discard(m) PROVE Goal
    BY <1>5 DEF Discard
<1>6. CASE Crash
    BY <1>6 DEF Crash
<1> QED
    BY <1>1, <1>2, <1>3, <1>4, <1>5, <1>6
       DEF Next, vars, channelVars, HandlerStep, CallbackStep, Receive, Lookup,
           StoreTransaction, StoreFails, CheckHold, Publish, PublishFails,
           Delivered, Poll, PollFails, Deadline, Disconnect, TimeoutBegin,
           TimeoutReply, CallbackLoad, Step, StepFails, ChangeTTL, Restart

LEMMA CallAuthStep ==
    ASSUME BaseInv, AuthInv, [Next]_vars, NEW c \in Clients,
           phase'[c] # "idle", arg'[c].fn # Timeout
    PROVE  arg'[c].fn \in answers' /\ TrxIDOf(arg'[c].fn) = arg'[c].trx
<1> USE DEF BaseInv, StoreInv, TypeInv, StoreTypeOK, ChannelTypeOK
<1>1. CASE c \in Posts /\ TimeoutBegin(c)
    <2>1. arg'[c].fn = Timeout
        BY <1>1 DEF TimeoutBegin, Begin
    <2> QED BY <2>1
<1>2. CASE c \in Workers /\ CallbackLoad(c)
    <2>1. arg'[c].fn = job[c] /\ arg'[c].trx = TrxIDOf(job[c])
        BY <1>2 DEF CallbackLoad, Begin
    <2>2. job[c] \in answers
        BY <1>2 DEF CallbackLoad, AuthInv
    <2> QED BY <2>1, <2>2, AnswersGrow
<1>3. CASE phase[c] # "idle" /\ arg'[c] = arg[c]
    BY <1>3, AnswersGrow DEF AuthInv
<1> QED BY <1>1, <1>2, <1>3, CallMoves

\* A commit updates the record of its own key.
LEMMA CommitWrites ==
    ASSUME TypeInv, CleanMeansFresh, NEW c \in Clients, Commit(c),
           NEW t \in TrxIDs, db'[t] # db[t]
    PROVE  /\ t = arg[c].trx
           /\ db[t] \in Transaction /\ db[t] # NoTx
           /\ db'[t] = Apply(db[t], arg[c].fn)
           /\ phase[c] # "idle"
<1> DEFINE k == arg[c].trx
<1>1. /\ k \in TrxIDs /\ db[k] \in Transaction /\ db[k] # NoTx
      /\ db' = [db EXCEPT ![k] = Apply(db[k], arg[c].fn)]
    BY CommitUpdates
<1>2. DOMAIN db = TrxIDs
    BY DEF TypeInv, StoreTypeOK
<1>3. phase[c] # "idle"
    BY DEF Commit
<1> HIDE DEF k
<1>4. t = k
    BY <1>1, <1>2
<1> QED BY <1>1, <1>2, <1>3, <1>4 DEF k

LEMMA RecordAuthStep ==
    ASSUME BaseInv, AuthInv, [Next]_vars, NEW t \in TrxIDs,
           db'[t] # NoTx, db'[t].data # NoData
    PROVE  db'[t].data \in answers' /\ TrxIDOf(db'[t].data) = t
<1> USE DEF BaseInv, StoreInv, TypeInv, StoreTypeOK
<1>0. CASE db'[t] = db[t]
    BY <1>0, AnswersGrow DEF AuthInv, AnswerIsAuthentic
<1>1. ASSUME NEW p \in Posts, Store(p), db'[t] # db[t] PROVE FALSE
    <2>1. db'[t] = NewTransaction(p)
        BY <1>1 DEF Store
    <2> QED BY <2>1 DEF NewTransaction
<1>2. ASSUME NEW c \in Clients, Commit(c), db'[t] # db[t]
      PROVE  db'[t].data \in answers' /\ TrxIDOf(db'[t].data) = t
    <2> HIDE DEF TypeInv, StoreTypeOK
    <2>1. /\ t = arg[c].trx
          /\ db[t] \in Transaction /\ db[t] # NoTx
          /\ db'[t] = Apply(db[t], arg[c].fn)
          /\ phase[c] # "idle"
        BY <1>2, CommitWrites
    <2>2. CASE arg[c].fn = Timeout
        <3>1. db'[t].data = db[t].data
            BY <2>1, <2>2 DEF Apply, Transaction
        <3> QED BY <3>1, <2>1, AnswersGrow DEF AuthInv, AnswerIsAuthentic
    <2>3. CASE arg[c].fn # Timeout
        <3>1. db'[t].data = arg[c].fn
            BY <2>1, <2>3 DEF Apply, Transaction
        <3> QED BY <3>1, <2>1, <2>3, AnswersGrow DEF AuthInv
    <2> QED BY <2>2, <2>3
<1>3. ASSUME NEW k \in TrxIDs, Expire(k), db'[t] # db[t] PROVE FALSE
    BY <1>3 DEF Expire
<1> QED BY <1>0, <1>1, <1>2, <1>3, RecordMoves

LEMMA ReplyAuthStep ==
    ASSUME BaseInv, AuthInv, [Next]_vars, NEW p \in Posts,
           reply'[p].code = "200"
    PROVE  reply'[p].data \in answers' /\ TrxIDOf(reply'[p].data) = TrxOf[p]
<1> USE DEF BaseInv, HandlerTypeOK
<1>1. CASE reply'[p] = reply[p]
    BY <1>1, AnswersGrow DEF AuthInv, AnswerIsAuthentic
<1>2. CASE Poll(p)
    <2>0. CASE db[TrxOf[p]].data = NoData
        <3>1. Respond(p, "500 no data", NoData)
            BY <1>2, <2>0 DEF Poll
        <3> QED BY <3>1 DEF Respond
    <2>1. CASE db[TrxOf[p]].data # NoData
        <3>1. db[TrxOf[p]] # NoTx /\ reply'[p].data = db[TrxOf[p]].data
            BY <1>2, <2>1 DEF Poll, Respond
        <3>2. TrxOf[p] \in TrxIDs
            BY TrxOfAssumption
        <3> QED BY <3>1, <3>2, <2>1, AnswersGrow DEF AuthInv, AnswerIsAuthentic
    <2> QED BY <2>0, <2>1
<1> QED BY <1>1, <1>2, HandlerMoves

LEMMA AuthStep == BaseInv /\ AuthInv /\ [Next]_vars => AuthInv'
<1> SUFFICES ASSUME BaseInv, AuthInv, [Next]_vars
             PROVE  AuthInv'
    OBVIOUS
<1>1. ChannelTypeOK
    BY DEF BaseInv
<1> QED
    BY <1>1, QueueAuthStep, CallAuthStep, RecordAuthStep, ReplyAuthStep
       DEF AuthInv, AnswerIsAuthentic

\* Whatever is duplicated, resent, reordered or lost in a crash, a record
\* and a 200 carry only an answer that a terminal gave for that trx_id.
THEOREM AuthenticAnswers == Spec => []AnswerIsAuthentic
<1>1. Init => AuthInv
    BY DEF Init, StoreInit, NoReply, AuthInv, AnswerIsAuthentic
<1>2. AuthInv => AnswerIsAuthentic
    BY DEF AuthInv
<1> QED BY <1>1, <1>2, BaseHolds, AuthStep, PTL DEF Spec

-----------------------------------------------------------------------------
(***************************************************************************)
(* The record is there before the answer.  Without expiries it is there    *)
(* from the moment it is stored on, so the invariant follows the request   *)
(* from its Store to the payment message and back to the answer.           *)
(***************************************************************************)

Stored == {"hold", "publish", "poll", "timeout"}

FindInv ==
    touches = 0 =>
        \A p \in Posts :
            (\/ pc[p] \in Stored
             \/ copies[p] > 0
             \/ \E m \in inbox : m.from = p) => db[TrxOf[p]] # NoTx

LEMMA TouchesGrow == BoundTypeOK /\ [Next]_vars /\ touches' = 0 => touches = 0
<1> SUFFICES ASSUME BoundTypeOK, [Next]_vars
             PROVE  touches' = touches \/ touches' = touches + 1
    BY DEF BoundTypeOK
<1>1. CASE UNCHANGED boundVars
    BY <1>1 DEF boundVars
<1>2. CASE Failure
    BY <1>2 DEF Failure
<1>3. ASSUME NEW w \in Workers, NEW m \in EDCResponse, Deliver(w, m)
      PROVE  touches' = touches
    BY <1>3 DEF Deliver, boundVars
<1>4. ASSUME NEW t \in TrxIDs, ChangeTTL(t) PROVE touches' = touches + 1
    BY <1>4 DEF ChangeTTL
<1>5. CASE Crash \/ Restart
    BY <1>5 DEF Crash, Restart
<1> QED
    BY <1>1, <1>2, <1>3, <1>4, <1>5
       DEF Next, vars, Receive, HandlerStep, Lookup, StoreTransaction, CheckHold,
           Publish, Poll, PollFails, TimeoutBegin, TimeoutReply, StoreFails,
           PublishFails, Deadline, Disconnect, EdcAnswer, CallbackStep,
           CallbackLoad, CallbackDrops, CallbackReturn, Step, StepFails, Discard

LEMMA RecordsStay ==
    ASSUME BaseInv, [Next]_vars, touches' = 0,
           NEW t \in TrxIDs, db[t] # NoTx
    PROVE  db'[t] # NoTx
<1> USE DEF BaseInv, StoreInv, TypeInv, StoreTypeOK
<1>1. ASSUME NEW p \in Posts, Store(p) PROVE db'[t] # NoTx
    <2>1. NewTransaction(p) # NoTx
        BY NewTransactionType, SentinelAssumption
    <2> QED BY <1>1, <2>1 DEF Store
<1>2. ASSUME NEW c \in Clients, Commit(c) PROVE db'[t] # NoTx
    BY <1>2, CommitUpdates
<1>3. CASE touches' = touches + 1
    BY <1>3 DEF BoundTypeOK
<1> QED BY <1>1, <1>2, <1>3, RecordMoves

\* A payment message comes from a publish, an answer from such a message.
LEMMA MessageMoves ==
    ASSUME ChannelTypeOK, [Next]_vars, NEW p \in Posts
    PROVE  /\ copies'[p] > 0 => copies[p] > 0 \/ pc[p] = "publish"
           /\ \A m \in inbox' : m.from = p => m \in inbox \/ copies[p] > 0
<1> USE DEF ChannelTypeOK
<1> DEFINE Goal ==
      /\ copies'[p] > 0 => copies[p] > 0 \/ pc[p] = "publish"
      /\ \A m \in inbox' : m.from = p => m \in inbox \/ copies[p] > 0
<1> SUFFICES Goal
    OBVIOUS
<1>1. CASE UNCHANGED <<copies, inbox>>
    BY <1>1
<1>2. ASSUME NEW q \in Posts, pc[q] = "publish", Delivered(q) PROVE Goal
    BY <1>2 DEF Delivered
<1>3. ASSUME NEW q \in Posts, NEW s \in EDCStatuses, EdcAnswer(q, s) PROVE Goal
    BY <1>3 DEF EdcAnswer
<1>4. ASSUME NEW w \in Workers, NEW m \in EDCResponse, Deliver(w, m) PROVE Goal
    BY <1>4 DEF Deliver
<1>5. ASSUME NEW m \in EDCResponse, Discard(m) PROVE Goal
    BY <1>5 DEF Discard
<1>6. CASE Crash
    BY <1>6 DEF Crash
<1> QED
    BY <1>1, <1>2, <1>3, <1>4, <1>5, <1>6
       DEF Next, vars, channelVars, HandlerStep, CallbackStep, Receive, Lookup,
           StoreTransaction, StoreFails, CheckHold, Publish, PublishFails, Poll,
           PollFails, Deadline, Disconnect, TimeoutBegin, TimeoutReply,
           CallbackLoad, CallbackDrops, CallbackReturn, Step, StepFails,
           ChangeTTL, Restart

LEMMA FindStep == BaseInv /\ FindInv /\ [Next]_vars => FindInv'
<1> SUFFICES ASSUME BaseInv, FindInv, [Next]_vars, touches' = 0,
                    NEW p \in Posts,
                    \/ pc'[p] \in Stored
                    \/ copies'[p] > 0
                    \/ \E m \in inbox' : m.from = p
             PROVE  db'[TrxOf[p]] # NoTx
    BY DEF FindInv
<1>1. TrxOf[p] \in TrxIDs
    BY TrxOfAssumption
<1>2. CASE db[TrxOf[p]] # NoTx
    BY <1>1, <1>2, RecordsStay
<1>3. CASE db[TrxOf[p]] = NoTx
    <2>1. touches = 0
        BY TouchesGrow DEF BaseInv
    <2>2. /\ pc[p] \notin Stored
          /\ ~(copies[p] > 0)
          /\ \A m \in inbox : m.from # p
        BY <1>3, <2>1 DEF FindInv
    <2>3. ~(copies'[p] > 0) /\ \A m \in inbox' : m.from # p
        BY <2>2, MessageMoves DEF BaseInv, Stored
    <2>4. pc'[p] \in Stored
        BY <2>3
    <2>5. StoreTransaction(p)
        BY <2>2, <2>4, HandlerMoves
           DEF BaseInv, Stored, Advance, Poll, TimeoutBegin, Respond, Goto,
               HandlerTypeOK
    <2>6. NewTransaction(p) # NoTx
        BY NewTransactionType, SentinelAssumption
    <2> QED BY <1>1, <2>5, <2>6
            DEF StoreTransaction, Store, BaseInv, StoreInv, TypeInv, StoreTypeOK
<1> QED BY <1>2, <1>3

\* The payment message goes out after the record is stored, so that an
\* answer finds its record however fast the terminal is.
THEOREM RecordComesFirst == Spec => []AnswerFindsTransaction
<1>1. Init => FindInv
    BY DEF Init, FindInv, Stored
<1>2. FindInv => AnswerFindsTransaction
    BY DEF FindInv, AnswerFindsTransaction
<1> QED BY <1>1, <1>2, BaseHolds, FindStep, PTL DEF Spec

-----------------------------------------------------------------------------
(***************************************************************************)
(* What a client is told when no two requests share a trx_id.  Only the    *)
(* handler itself can then time its record out, and it has stopped polling *)
(* when it does: so a poll never meets TIMEOUT, and no timeout comes after *)
(* an outcome was reported.                                                *)
(***************************************************************************)

\* A timeout in Update is that of the handler that waits for it ...
TimeoutOwner ==
    \A c \in Clients : phase[c] # "idle" /\ arg[c].fn = Timeout =>
        c \in Posts /\ arg[c].trx = TrxOf[c] /\ pc[c] = "timeout"

\* ... and so a TIMEOUT in the record is its own, and it polls no more.
OwnTimeout ==
    UniqueTrxIDs => \A p \in Posts :
        db[TrxOf[p]] # NoTx /\ db[TrxOf[p]].status = "TIMEOUT" =>
            pc[p] \in {"timeout", "done"}

PollInv == TimeoutOwner /\ OwnTimeout /\ NoEmptyResult

LEMMA OwnerStep ==
    ASSUME BaseInv, TimeoutOwner, [Next]_vars
    PROVE  TimeoutOwner'
<1> SUFFICES ASSUME NEW c \in Clients, phase'[c] # "idle", arg'[c].fn = Timeout
             PROVE  c \in Posts /\ arg'[c].trx = TrxOf[c] /\ pc'[c] = "timeout"
    BY DEF TimeoutOwner
<1> USE DEF BaseInv, StoreInv, TypeInv, StoreTypeOK, HandlerTypeOK, ChannelTypeOK
<1>1. CASE c \in Posts /\ TimeoutBegin(c)
    BY <1>1 DEF TimeoutBegin, Begin, Goto
<1>2. CASE c \in Workers /\ CallbackLoad(c)
    <2>1. arg'[c].fn = job[c] /\ job[c] \in EDCResponse
        BY <1>2 DEF CallbackLoad, Begin
    <2> QED BY <2>1, SentinelAssumption
<1>3. CASE /\ phase[c] # "idle"
           /\ arg'[c] = arg[c]
           /\ c \in Posts /\ pc[c] = "timeout" => pc'[c] = "timeout"
    BY <1>3 DEF TimeoutOwner
<1> QED BY <1>1, <1>2, <1>3, CallMoves

\* How the record of p changes when only p has its trx_id.
LEMMA OwnRecordMoves ==
    ASSUME BaseInv, TimeoutOwner, UniqueTrxIDs, [Next]_vars, NEW p \in Posts,
           db'[TrxOf[p]] # NoTx
    PROVE  \/ db'[TrxOf[p]] = db[TrxOf[p]]
           \/ pc[p] = "store" /\ db'[TrxOf[p]].status = "PENDING"
           \/ pc[p] = "timeout" /\ UNCHANGED <<pc, reply>>
           \/ db'[TrxOf[p]].status \in {"SUCCESS", "FAILED"}
<1> USE DEF BaseInv, StoreInv, TypeInv, StoreTypeOK
<1>0. TrxOf[p] \in TrxIDs
    BY TrxOfAssumption
<1>1. ASSUME NEW q \in Posts, pc[q] = "store", Store(q),
             db'[TrxOf[p]] # db[TrxOf[p]]
      PROVE  pc[p] = "store" /\ db'[TrxOf[p]].status = "PENDING"
    <2>1. TrxOf[p] = TrxOf[q] /\ db'[TrxOf[p]] = NewTransaction(q)
        BY <1>0, <1>1 DEF Store
    <2>2. p = q
        BY <2>1 DEF UniqueTrxIDs
    <2> QED BY <1>1, <2>1, <2>2 DEF NewTransaction
<1>2. ASSUME NEW c \in Clients, Commit(c), UNCHANGED handlerVars,
             db'[TrxOf[p]] # db[TrxOf[p]]
      PROVE  \/ pc[p] = "timeout" /\ UNCHANGED <<pc, reply>>
             \/ db'[TrxOf[p]].status \in {"SUCCESS", "FAILED"}
    <2> HIDE DEF TypeInv, StoreTypeOK
    <2>1. /\ TrxOf[p] = arg[c].trx
          /\ db[TrxOf[p]] \in Transaction
          /\ db'[TrxOf[p]] = Apply(db[TrxOf[p]], arg[c].fn)
          /\ phase[c] # "idle"
        BY <1>0, <1>2, CommitWrites
    <2>2. CASE arg[c].fn = Timeout
        <3>1. c \in Posts /\ TrxOf[c] = TrxOf[p] /\ pc[c] = "timeout"
            BY <2>1, <2>2 DEF TimeoutOwner
        <3>2. c = p
            BY <3>1 DEF UniqueTrxIDs
        <3> QED BY <3>1, <3>2, <1>2 DEF handlerVars
    <2>3. CASE arg[c].fn # Timeout
        BY <2>1, <2>3 DEF Apply, Transaction, StatusFor
    <2> QED BY <2>2, <2>3
<1>3. ASSUME NEW t \in TrxIDs, Expire(t)
      PROVE  db'[TrxOf[p]] = db[TrxOf[p]]
    BY <1>0, <1>3 DEF Expire
<1> QED BY <1>1, <1>2, <1>3, RecordMoves

LEMMA OwnTimeoutStep ==
    ASSUME BaseInv, TimeoutOwner, OwnTimeout, [Next]_vars
    PROVE  OwnTimeout'
<1> SUFFICES ASSUME UniqueTrxIDs, NEW p \in Posts, db'[TrxOf[p]] # NoTx,
                    db'[TrxOf[p]].status = "TIMEOUT"
             PROVE  pc'[p] \in {"timeout", "done"}
    BY DEF OwnTimeout, UniqueTrxIDs
<1>1. CASE db'[TrxOf[p]] = db[TrxOf[p]]
    <2>1. pc[p] \in {"timeout", "done"}
        BY <1>1 DEF OwnTimeout
    <2> QED BY <2>1, HandlerMoves
            DEF BaseInv, Advance, StoreTransaction, TimeoutBegin, Poll
<1>2. CASE pc[p] = "timeout" /\ UNCHANGED <<pc, reply>>
    BY <1>2
<1> QED BY <1>1, <1>2, OwnRecordMoves

\* A poll that finds a decided record: what it answers and what is stored.
LEMMA PollReads ==
    ASSUME BaseInv, OwnTimeout, UniqueTrxIDs, NEW p \in Posts, Poll(p)
    PROVE  /\ db[TrxOf[p]] # NoTx
           /\ db[TrxOf[p]].status \in {"SUCCESS", "FAILED"}
           /\ Respond(p, "200", db[TrxOf[p]].data)
<1>1. TrxOf[p] \in TrxIDs
    BY TrxOfAssumption
<1>2. /\ db[TrxOf[p]] # NoTx
      /\ db[TrxOf[p]].status # "PENDING"
      /\ pc[p] = "poll"
    BY DEF Poll
<1>3. db[TrxOf[p]].status # "TIMEOUT"
    BY <1>2 DEF OwnTimeout
<1>4. db[TrxOf[p]].status \in {"SUCCESS", "FAILED"}
    BY <1>1, <1>2, <1>3
       DEF BaseInv, StoreInv, TypeInv, StoreTypeOK, Transaction, TransactionStatus
<1>5. db[TrxOf[p]].data # NoData
    BY <1>1, <1>2, <1>4 DEF BaseInv, StoreInv, StatusMatchesData, Consistent
<1>6. Respond(p, "200", db[TrxOf[p]].data)
    BY <1>5 DEF Poll
<1> QED BY <1>2, <1>4, <1>6

LEMMA PollStep == BaseInv /\ PollInv /\ [Next]_vars => PollInv'
<1> SUFFICES ASSUME BaseInv, TimeoutOwner, OwnTimeout, NoEmptyResult, [Next]_vars
             PROVE  NoEmptyResult'
    BY OwnerStep, OwnTimeoutStep DEF PollInv
<1> SUFFICES ASSUME UniqueTrxIDs, NEW p \in Posts
             PROVE  reply'[p].code # "500 no data"
    BY DEF NoEmptyResult, UniqueTrxIDs
<1>1. CASE reply'[p] = reply[p]
    BY <1>1 DEF NoEmptyResult
<1>2. CASE Poll(p)
    <2>1. Respond(p, "200", db[TrxOf[p]].data)
        BY <1>2, PollReads
    <2> QED BY <2>1 DEF Respond, BaseInv, HandlerTypeOK
<1> QED BY <1>1, <1>2, HandlerMoves DEF BaseInv

LEMMA PollHolds == Spec => []PollInv
<1>1. Init => PollInv
    <2> SUFFICES ASSUME Init PROVE PollInv
        OBVIOUS
    <2>1. TimeoutOwner
        BY DEF Init, StoreInit, TimeoutOwner
    <2>2. OwnTimeout
        BY TrxOfAssumption DEF Init, StoreInit, OwnTimeout
    <2>3. NoEmptyResult
        BY DEF Init, NoReply, NoEmptyResult
    <2> QED BY <2>1, <2>2, <2>3 DEF PollInv
<1> QED BY <1>1, BaseHolds, PollStep, PTL DEF Spec

\* With a trx_id of its own, a request never ends with "no response data
\* available".
THEOREM NoEmptyResults == Spec => []NoEmptyResult
<1>1. PollInv => NoEmptyResult
    BY DEF PollInv
<1> QED BY <1>1, PollHolds, PTL

-----------------------------------------------------------------------------
\* A request that got its 200 is over, and its record holds an outcome.
ReportInv ==
    UniqueTrxIDs /\ touches = 0 =>
        \A p \in Posts : reply[p].code = "200" =>
            /\ pc[p] = "done"
            /\ db[TrxOf[p]] # NoTx
            /\ db[TrxOf[p]].status \in {"SUCCESS", "FAILED"}

LEMMA ReportStep == BaseInv /\ PollInv /\ ReportInv /\ [Next]_vars => ReportInv'
<1> SUFFICES ASSUME BaseInv, TimeoutOwner, OwnTimeout, ReportInv, [Next]_vars,
                    UniqueTrxIDs, touches' = 0,
                    NEW p \in Posts, reply'[p].code = "200"
             PROVE  /\ pc'[p] = "done"
                    /\ db'[TrxOf[p]] # NoTx
                    /\ db'[TrxOf[p]].status \in {"SUCCESS", "FAILED"}
    BY DEF ReportInv, PollInv, UniqueTrxIDs
<1>0. TrxOf[p] \in TrxIDs /\ touches = 0
    BY TrxOfAssumption, TouchesGrow DEF BaseInv
<1>1. CASE reply'[p] = reply[p]
    <2>1. /\ pc[p] = "done"
          /\ db[TrxOf[p]] # NoTx
          /\ db[TrxOf[p]].status \in {"SUCCESS", "FAILED"}
        BY <1>0, <1>1 DEF ReportInv
    <2>2. pc'[p] = "done"
        BY <2>1, HandlerMoves
           DEF BaseInv, Advance, StoreTransaction, TimeoutBegin, Poll
    <2>3. db'[TrxOf[p]] # NoTx
        BY <1>0, <2>1, RecordsStay
    <2> QED BY <2>1, <2>2, <2>3, OwnRecordMoves
<1>2. CASE Poll(p)
    <2>1. pc'[p] = "done"
        BY <1>2, PollReads DEF Respond, Goto, BaseInv, HandlerTypeOK
    <2>2. UNCHANGED db
        BY <1>2 DEF Poll, storeVars
    <2> QED BY <1>2, <2>1, <2>2, PollReads
<1> QED BY <1>1, <1>2, HandlerMoves DEF BaseInv

\* With a trx_id of its own and no expiry, a request that reported an outcome
\* leaves an outcome in the record: no timeout comes after the 200.
THEOREM ReportedOutcomes == Spec => []ReportedOutcomeStays
<1>1. Init => ReportInv
    BY DEF Init, NoReply, ReportInv
<1>2. ReportInv => ReportedOutcomeStays
    BY DEF ReportInv, ReportedOutcomeStays
<1> QED BY <1>1, <1>2, BaseHolds, PollHolds, ReportStep, PTL DEF Spec

-----------------------------------------------------------------------------
(***************************************************************************)
(* Contention.  A call of Update spends an attempt for a write of its key  *)
(* by others, and never without one; so it is enough to bound the writes   *)
(* that can fall into one call.                                            *)
(***************************************************************************)

LEMMA BoundMoves ==
    ASSUME BoundTypeOK, [Next]_vars
    PROVE  /\ touches \in Nat /\ faults \in Nat
           /\ touches' = touches \/ touches' = touches + 1
           /\ faults' = faults \/ faults' = faults + 1
<1>0. touches \in Nat /\ faults \in Nat
    BY DEF BoundTypeOK
<1>1. CASE UNCHANGED boundVars
    BY <1>0, <1>1 DEF boundVars
<1>2. CASE Failure
    BY <1>0, <1>2 DEF Failure
<1>3. ASSUME NEW w \in Workers, NEW m \in EDCResponse, Deliver(w, m)
      PROVE  touches' = touches /\ faults' = faults
    BY <1>3 DEF Deliver, boundVars
<1>4. ASSUME NEW t \in TrxIDs, ChangeTTL(t)
      PROVE  touches' = touches + 1 /\ faults' = faults
    BY <1>4 DEF ChangeTTL
<1>5. ASSUME Crash \/ Restart PROVE touches' = touches /\ faults' = faults
    BY <1>5 DEF Crash, Restart
<1> QED
    BY <1>0, <1>1, <1>2, <1>3, <1>4, <1>5
       DEF Next, vars, Receive, HandlerStep, Lookup, StoreTransaction, CheckHold,
           Publish, Poll, PollFails, TimeoutBegin, TimeoutReply, StoreFails,
           PublishFails, Deadline, Disconnect, EdcAnswer, CallbackStep,
           CallbackLoad, CallbackDrops, CallbackReturn, Step, StepFails, Discard

\* A write to key t by anyone but the call of c.
RivalWrite(c, t) ==
    \/ \E q \in Posts : pc[q] = "store" /\ Store(q) /\ t = TrxOf[q]
    \/ \E d \in Clients \ {c} : /\ Commit(d)
                                /\ t = arg[d].trx
                                /\ phase'[d] \in Ended
                                /\ UNCHANGED <<handlerVars, channelVars, touches>>
    \/ touches' = touches + 1 /\ UNCHANGED <<handlerVars, channelVars>>

\* The call is none of the step's business, but a rival may make it dirty.
Undisturbed(c) ==
    /\ phase'[c] = phase[c] /\ tries'[c] = tries[c] /\ arg'[c] = arg[c]
    /\ \/ watch'[c] = watch[c]
       \/ \E t \in TrxIDs : watch'[c] = Signal(t)[c] /\ RivalWrite(c, t)

OwnCommand(c) ==
    \/ Watch(c) \/ GetNil(c) \/ Get(c) \/ Conflict(c) \/ Exec(c) \/ FaultAfterExec(c)
    \/ Fault(c) /\ faults' = faults + 1

LEMMA CallProgress ==
    ASSUME BaseInv, [Next]_vars, NEW c \in Clients, phase[c] \in InCall
    PROVE  \/ Crash
           \/ OwnCommand(c) /\ UNCHANGED <<handlerVars, channelVars, touches>>
           \/ Undisturbed(c)
<1> DEFINE Goal == \/ Crash
                   \/ OwnCommand(c) /\ UNCHANGED <<handlerVars, channelVars, touches>>
                   \/ Undisturbed(c)
<1> SUFFICES Goal
    OBVIOUS
<1> USE DEF BaseInv, StoreInv, TypeInv, StoreTypeOK
<1>0. phase[c] # "idle" /\ phase[c] \notin Ended
    BY DEF InCall, Ended
<1>1. CASE UNCHANGED storeVars
    BY <1>1 DEF storeVars, Undisturbed
<1>2. ASSUME NEW q \in Posts, pc[q] = "store", Store(q) PROVE Goal
    <2>1. TrxOf[q] \in TrxIDs
        BY TrxOfAssumption
    <2>2. RivalWrite(c, TrxOf[q]) /\ watch'[c] = Signal(TrxOf[q])[c]
        BY <1>2 DEF Store, RivalWrite
    <2> QED BY <1>2, <2>1, <2>2 DEF Store, Undisturbed
<1>3. ASSUME NEW d \in Clients, NEW t, NEW u, Begin(d, t, u) PROVE Goal
    <2>1. d # c
        BY <1>0, <1>3 DEF Begin
    <2> QED BY <1>3, <2>1 DEF Begin, Undisturbed
<1>4. ASSUME NEW d \in Clients, Return(d) PROVE Goal
    <2>1. d # c
        BY <1>0, <1>4 DEF Return
    <2> QED BY <1>4, <2>1 DEF Return, Undisturbed
<1>5. ASSUME NEW d \in Clients, Step(d) \/ StepFails(d) PROVE Goal
    <2>1. /\ OwnCommand(d)
          /\ UNCHANGED <<handlerVars, channelVars, touches>>
        BY <1>5 DEF Step, StepFails, UpdateStep, Failure, OwnCommand, boundVars
    <2>2. CASE d = c
        BY <2>1, <2>2
    <2>3. CASE d # c
        <3>1. CASE Exec(d) \/ FaultAfterExec(d)
            <4>1. Commit(d) /\ phase'[d] \in Ended
                BY <3>1 DEF Exec, FaultAfterExec, Ended
            <4>2. arg[d].trx \in TrxIDs
                BY <4>1 DEF Commit, CallShape, Calls
            <4>3. watch'[c] = Signal(arg[d].trx)[c]
                BY <2>3, <4>1 DEF Commit, Signal
            <4>4. RivalWrite(c, arg[d].trx)
                BY <2>1, <2>3, <4>1 DEF RivalWrite
            <4>5. phase'[c] = phase[c] /\ tries'[c] = tries[c] /\ arg'[c] = arg[c]
                BY <2>3, <3>1 DEF Exec, FaultAfterExec, Commit
            <4> QED BY <4>2, <4>3, <4>4, <4>5 DEF Undisturbed
        <3>2. CASE Watch(d) \/ GetNil(d) \/ Get(d) \/ Conflict(d) \/ Fault(d)
            BY <2>3, <3>2 DEF Watch, GetNil, Get, Conflict, Fault, End, Undisturbed
        <3> QED BY <2>1, <3>1, <3>2 DEF OwnCommand
    <2> QED BY <2>2, <2>3
<1>6. ASSUME NEW t \in TrxIDs, ChangeTTL(t) PROVE Goal
    <2>1. touches' = touches + 1 /\ UNCHANGED <<handlerVars, channelVars>>
        BY <1>6 DEF ChangeTTL
    <2>2. /\ watch'[c] = Signal(t)[c]
          /\ phase' = phase /\ tries' = tries /\ arg' = arg
        BY <1>6 DEF ChangeTTL, Touch, Expire
    <2> QED BY <2>1, <2>2 DEF Undisturbed, RivalWrite
<1>7. ASSUME NEW q \in Posts,
             \/ StoreTransaction(q) \/ StoreFails(q) \/ TimeoutBegin(q)
             \/ TimeoutReply(q)
      PROVE  Goal
    <2>1. q \in Clients
        BY ClientsAssumption
    <2> QED BY <1>1, <1>2, <1>3, <1>4, <1>7, <2>1
            DEF StoreTransaction, StoreFails, TimeoutBegin, TimeoutReply
<1>8. ASSUME NEW w \in Workers, CallbackLoad(w) \/ CallbackReturn(w) PROVE Goal
    <2>1. w \in Clients
        BY ClientsAssumption
    <2> QED BY <1>3, <1>4, <1>8, <2>1 DEF CallbackLoad, CallbackReturn
<1> QED
    BY <1>1, <1>5, <1>6, <1>7, <1>8
       DEF Next, vars, HandlerStep, CallbackStep, Receive, Lookup, CheckHold,
           Publish, PublishFails, Poll, PollFails, Deadline, Disconnect,
           EdcAnswer, Deliver, CallbackDrops, Discard, Restart

\* What a rival's write and the call's own commands cost.
LEMMA SpentMoves ==
    ASSUME TypeInv, NEW c \in Clients, phase[c] \in InCall
    PROVE  /\ Spent(c) \in Nat
           /\ Undisturbed(c) => Spent(c)' <= Spent(c) + 1
           /\ Undisturbed(c) /\ watch'[c] = watch[c] => Spent(c)' = Spent(c)
           /\ Watch(c) \/ Get(c) => phase'[c] \in InCall /\ Spent(c)' <= Spent(c)
           /\ Conflict(c) => /\ Spent(c)' = Spent(c)
                             /\ Spent(c) < MaxRetries => phase'[c] = "watch"
                             /\ phase'[c] \in {"watch", "exhausted"}
                             /\ phase'[c] = "exhausted" => Spent(c) >= MaxRetries
<1> USE DEF TypeInv, StoreTypeOK
<1>1. tries[c] \in Nat /\ MaxRetries \in Nat
    BY RetriesAssumption
<1>2. Spent(c) \in Nat
    BY <1>1 DEF Spent
<1>3. Undisturbed(c) => Spent(c)' <= Spent(c) + 1
    BY <1>1 DEF Spent, Undisturbed
<1>4. Undisturbed(c) /\ watch'[c] = watch[c] => Spent(c)' = Spent(c)
    BY <1>1 DEF Spent, Undisturbed
<1>5. Watch(c) => phase'[c] \in InCall /\ Spent(c)' <= Spent(c)
    BY <1>1 DEF Watch, Spent, InCall
<1>6. Get(c) => phase'[c] \in InCall /\ Spent(c)' <= Spent(c)
    BY <1>1 DEF Get, Spent, InCall
<1>7. ASSUME Conflict(c)
      PROVE  /\ Spent(c) = tries[c] + 1
             /\ Spent(c)' = tries[c] + 1
             /\ phase'[c] = IF tries[c] + 1 < MaxRetries THEN "watch" ELSE "exhausted"
    BY <1>1, <1>7 DEF Conflict, End, Spent
<1> QED BY <1>1, <1>2, <1>3, <1>4, <1>5, <1>6, <1>7

-----------------------------------------------------------------------------
(***************************************************************************)
(* A timeout is recorded.  While the record of p is PENDING, nobody but    *)
(* the administrator has written its key since the POST of p: so the       *)
(* Update of its timeout has spent an attempt for EXPIREs at most.         *)
(***************************************************************************)

\* The record under p's trx_id is the one p waits on.
Mine(p) ==
    /\ db[TrxOf[p]] # NoTx
    /\ db[TrxOf[p]].post = p
    /\ db[TrxOf[p]].status = "PENDING"

\* A handler's call of Update is its timeout.
HandlerCalls ==
    \A p \in Posts : phase[p] # "idle" =>
        arg[p].fn = Timeout /\ arg[p].trx = TrxOf[p] /\ pc[p] = "timeout"

\* Who has a response is done.
RepliesLast == \A p \in Posts : pc[p] # "done" => reply[p].code = "none"

RecordInv ==
    faults = 0 /\ touches < MaxRetries =>
        \A p \in Posts : Mine(p) =>
            /\ reply[p].code # "408"
            /\ pc[p] = "timeout" => phase[p] \in InCall /\ Spent(p) <= touches

LEMMA HandlerCallsStep ==
    BaseInv /\ HandlerCalls /\ [Next]_vars => HandlerCalls'
<1> SUFFICES ASSUME BaseInv, HandlerCalls, [Next]_vars,
                    NEW p \in Posts, phase'[p] # "idle"
             PROVE  arg'[p].fn = Timeout /\ arg'[p].trx = TrxOf[p] /\ pc'[p] = "timeout"
    BY DEF HandlerCalls
<1> USE ClientsAssumption
    DEF BaseInv, StoreInv, TypeInv, StoreTypeOK, HandlerTypeOK
<1>1. CASE TimeoutBegin(p)
    BY <1>1 DEF TimeoutBegin, Begin, Goto
<1>2. CASE /\ phase[p] # "idle"
           /\ arg'[p] = arg[p]
           /\ pc[p] = "timeout" => pc'[p] = "timeout"
    BY <1>2 DEF HandlerCalls
<1> QED BY <1>1, <1>2, CallMoves

LEMMA RepliesLastStep ==
    HandlerTypeOK /\ RepliesLast /\ [Next]_vars => RepliesLast'
<1> SUFFICES ASSUME HandlerTypeOK, RepliesLast, [Next]_vars,
                    NEW p \in Posts, pc'[p] # "done"
             PROVE  reply'[p].code = "none"
    BY DEF RepliesLast
<1>1. CASE Poll(p)
    BY <1>1 DEF Poll, Respond, Goto, HandlerTypeOK
<1>2. CASE reply'[p] = reply[p] /\ pc[p] # "done"
    BY <1>2 DEF RepliesLast
<1> QED
    BY <1>1, <1>2, HandlerMoves DEF Advance, StoreTransaction, TimeoutBegin

\* A 408 is the return of a timeout's Update.
LEMMA TimeoutReplies ==
    ASSUME HandlerTypeOK, [Next]_vars, NEW p \in Posts, reply'[p].code = "408"
    PROVE  reply'[p] = reply[p] \/ (pc[p] = "timeout" /\ phase[p] \in Ended)
<1> DEFINE Goal == \/ reply'[p] = reply[p]
                   \/ pc[p] = "timeout" /\ phase[p] \in Ended
<1> SUFFICES Goal
    OBVIOUS
<1> USE DEF HandlerTypeOK
<1>1. ASSUME NEW q \in Posts, NEW code \in Codes, NEW data, Respond(q, code, data),
             code # "408"
      PROVE  Goal
    BY <1>1 DEF Respond
<1>2. ASSUME NEW q \in Posts, Receive(q) \/ Lookup(q) \/ StoreFails(q) \/ PollFails(q)
      PROVE  Goal
    BY <1>1, <1>2 DEF Receive, Lookup, StoreFails, PollFails, Codes
<1>3. ASSUME NEW q \in Posts, PublishFails(q) PROVE Goal
    <2>1. CASE attempt[q] < PublishRetries
        BY <1>3, <2>1 DEF PublishFails
    <2>2. CASE ~(attempt[q] < PublishRetries)
        BY <1>1, <1>3, <2>2 DEF PublishFails, Codes
    <2> QED BY <2>1, <2>2
<1>4. ASSUME NEW q \in Posts, Poll(q) PROVE Goal
    BY <1>1, <1>4 DEF Poll, Codes
<1>5. ASSUME NEW q \in Posts, TimeoutReply(q) PROVE Goal
    BY <1>5 DEF TimeoutReply, Return, Respond
<1>6. ASSUME Crash PROVE Goal
    <2>1. reply'[p] = IF pc[p] \in Waiting
                      THEN [code |-> "lost", data |-> NoData] ELSE reply[p]
        BY <1>6 DEF Crash
    <2> QED BY <2>1
<1>7. CASE UNCHANGED reply
    BY <1>7
<1> QED
    BY <1>2, <1>3, <1>4, <1>5, <1>6, <1>7
       DEF Next, vars, handlerVars, HandlerStep, CallbackStep, StoreTransaction,
           CheckHold, Publish, Deadline, Disconnect, TimeoutBegin, EdcAnswer,
           Deliver, CallbackLoad, CallbackDrops, CallbackReturn, Step, StepFails,
           Discard, ChangeTTL, Restart

\* Where a record that p waits on comes from.
LEMMA MineMoves ==
    ASSUME BaseInv, [Next]_vars, NEW p \in Posts, Mine(p)'
    PROVE  \/ Mine(p) /\ db'[TrxOf[p]] = db[TrxOf[p]]
           \/ pc[p] = "store"
<1> USE DEF BaseInv, StoreInv, TypeInv, StoreTypeOK
<1>0. TrxOf[p] \in TrxIDs
    BY TrxOfAssumption
<1>1. CASE db'[TrxOf[p]] = db[TrxOf[p]]
    BY <1>1 DEF Mine
<1>2. ASSUME NEW q \in Posts, pc[q] = "store", Store(q),
             db'[TrxOf[p]] # db[TrxOf[p]]
      PROVE  pc[p] = "store"
    <2>1. db'[TrxOf[p]] = NewTransaction(q)
        BY <1>0, <1>2 DEF Store
    <2>2. q = p
        BY <2>1 DEF NewTransaction, Mine
    <2> QED BY <1>2, <2>2
<1>3. ASSUME NEW c \in Clients, Commit(c), db'[TrxOf[p]] # db[TrxOf[p]] PROVE FALSE
    <2> HIDE DEF TypeInv, StoreTypeOK
    <2>1. /\ db[TrxOf[p]] \in Transaction
          /\ db'[TrxOf[p]] = Apply(db[TrxOf[p]], arg[c].fn)
        BY <1>0, <1>3, CommitWrites
    <2>2. db'[TrxOf[p]].status # "PENDING"
        BY <2>1 DEF Apply, Transaction, StatusFor
    <2> QED BY <2>2 DEF Mine
<1>4. ASSUME NEW t \in TrxIDs, Expire(t), db'[TrxOf[p]] # db[TrxOf[p]] PROVE FALSE
    BY <1>0, <1>4 DEF Expire, Mine
<1> QED BY <1>1, <1>2, <1>3, <1>4, RecordMoves

\* The call of a timeout whose record stays PENDING goes on; only an EXPIRE
\* costs it an attempt.
LEMMA MyCallGoesOn ==
    ASSUME BaseInv, HandlerCalls, [Next]_vars, faults = 0, faults' = 0,
           NEW p \in Posts, Mine(p), db'[TrxOf[p]] = db[TrxOf[p]],
           pc[p] = "timeout", pc'[p] = "timeout",
           phase[p] \in InCall, Spent(p) <= touches, touches < MaxRetries
    PROVE  phase'[p] \in InCall /\ Spent(p)' <= touches'
<1> USE DEF BaseInv, StoreInv
<1>0. /\ p \in Clients /\ TrxOf[p] \in TrxIDs
      /\ phase[p] # "idle"
      /\ arg[p].trx = TrxOf[p] /\ arg[p].fn = Timeout
    BY ClientsAssumption, TrxOfAssumption DEF HandlerCalls, InCall
<1>1. /\ touches \in Nat /\ MaxRetries \in Nat
      /\ touches' = touches \/ touches' = touches + 1
    BY BoundMoves, RetriesAssumption
<1>2. Spent(p) \in Nat
    BY <1>0, SpentMoves
<1>3. Spent(p)' \in Nat
    <2>1. tries'[p] \in Nat
        BY <1>0, BaseStep DEF TypeInv, StoreTypeOK
    <2> QED BY <2>1 DEF Spent
<1>4. CASE Crash
    BY <1>4 DEF Crash, Waiting
<1>5. ASSUME OwnCommand(p), UNCHANGED touches
      PROVE  phase'[p] \in InCall /\ Spent(p)' <= touches'
    <2>1. CASE Watch(p) \/ Get(p)
        BY <1>0, <1>1, <1>2, <1>3, <1>5, <2>1, SpentMoves
    <2>2. CASE Conflict(p)
        <3>1. Spent(p) < MaxRetries
            BY <1>1, <1>2
        <3>2. phase'[p] = "watch" /\ Spent(p)' = Spent(p)
            BY <1>0, <2>2, <3>1, SpentMoves
        <3> QED BY <1>5, <3>2 DEF InCall
    <2>3. CASE GetNil(p)
        BY <1>0, <2>3 DEF GetNil, Mine
    <2>4. CASE Commit(p)
        <3>1. db'[TrxOf[p]] = Apply(db[TrxOf[p]], Timeout)
              /\ db[TrxOf[p]] \in Transaction
            BY <1>0, <2>4, CommitUpdates DEF TypeInv, StoreTypeOK
        <3>2. db'[TrxOf[p]].status = "TIMEOUT"
            BY <3>1 DEF Apply, Transaction
        <3> QED BY <3>2 DEF Mine
    <2>5. CASE faults' = faults + 1
        BY <2>5
    <2> QED
        BY <1>5, <2>1, <2>2, <2>3, <2>4, <2>5 DEF OwnCommand, Exec, FaultAfterExec
<1>6. ASSUME Undisturbed(p) PROVE phase'[p] \in InCall /\ Spent(p)' <= touches'
    <2>1. phase'[p] = phase[p]
        BY <1>6 DEF Undisturbed
    <2>2. CASE watch'[p] = watch[p]
        <3>1. Spent(p)' = Spent(p)
            BY <1>0, <1>6, <2>2, SpentMoves
        <3> QED BY <1>1, <1>2, <2>1, <3>1
    <2>3. CASE touches' = touches + 1
        <3>1. Spent(p)' <= Spent(p) + 1
            BY <1>0, <1>6, SpentMoves
        <3> QED BY <1>1, <1>2, <1>3, <2>1, <2>3, <3>1
    <2>4. ASSUME NEW t \in TrxIDs, watch'[p] = Signal(t)[p], RivalWrite(p, t),
                 watch'[p] # watch[p]
          PROVE  touches' = touches + 1
        <3>1. t = TrxOf[p]
            BY <1>0, <2>4 DEF Signal
        <3>2. ASSUME NEW q \in Posts, pc[q] = "store", Store(q), t = TrxOf[q]
              PROVE  FALSE
            <4>1. db'[TrxOf[p]] = NewTransaction(q)
                BY <1>0, <3>1, <3>2 DEF Store, TypeInv, StoreTypeOK
            <4>2. q = p
                BY <4>1 DEF NewTransaction, Mine
            <4> QED BY <3>2, <4>2
        <3>3. ASSUME NEW d \in Clients, Commit(d), t = arg[d].trx PROVE FALSE
            <4>1. db'[TrxOf[p]] = Apply(db[TrxOf[p]], arg[d].fn)
                  /\ db[TrxOf[p]] \in Transaction
                BY <1>0, <3>1, <3>3, CommitUpdates DEF TypeInv, StoreTypeOK
            <4>2. db'[TrxOf[p]].status # "PENDING"
                BY <4>1 DEF Apply, Transaction, StatusFor
            <4> QED BY <4>2 DEF Mine
        <3> QED BY <2>4, <3>2, <3>3 DEF RivalWrite
    <2> QED BY <1>6, <2>2, <2>3, <2>4 DEF Undisturbed
<1> QED BY <1>0, <1>4, <1>5, <1>6, CallProgress

LEMMA RecordStep ==
    BaseInv /\ HandlerCalls /\ RepliesLast /\ RecordInv /\ [Next]_vars => RecordInv'
<1> SUFFICES ASSUME BaseInv, HandlerCalls, RepliesLast, RecordInv, [Next]_vars,
                    faults' = 0, touches' < MaxRetries, NEW p \in Posts, Mine(p)'
             PROVE  /\ reply'[p].code # "408"
                    /\ pc'[p] = "timeout" =>
                          phase'[p] \in InCall /\ Spent(p)' <= touches'
    BY DEF RecordInv
<1>0. faults = 0 /\ touches < MaxRetries
      /\ touches \in Nat /\ touches' \in Nat
    BY BoundMoves, RetriesAssumption DEF BaseInv
<1>1. CASE pc[p] = "store"
    <2>1. reply[p].code = "none"
        BY <1>1 DEF RepliesLast
    <2>2. reply'[p].code # "408"
        BY <1>1, <2>1, TimeoutReplies DEF BaseInv
    <2>3. pc'[p] # "timeout"
        BY <1>1, HandlerMoves
           DEF BaseInv, Advance, TimeoutBegin, Poll
    <2> QED BY <2>2, <2>3
<1>2. CASE Mine(p) /\ db'[TrxOf[p]] = db[TrxOf[p]]
    <2>1. /\ reply[p].code # "408"
          /\ pc[p] = "timeout" => phase[p] \in InCall /\ Spent(p) <= touches
        BY <1>0, <1>2 DEF RecordInv
    <2>2. reply'[p].code # "408"
        BY <2>1, TimeoutReplies DEF BaseInv, InCall, Ended
    <2>3. CASE TimeoutBegin(p)
        <3>1. p \in Clients
            BY ClientsAssumption
        <3>2. tries[p] = 0 /\ watch[p] = "off" /\ phase'[p] = "watch"
              /\ tries' = tries /\ watch' = watch
            BY <2>3, <3>1
               DEF TimeoutBegin, Begin, BaseInv, StoreInv, TypeInv, StoreTypeOK, CallShape
        <3>3. Spent(p)' = 0
            BY <3>2 DEF Spent
        <3> QED BY <1>0, <2>2, <3>2, <3>3 DEF InCall
    <2>4. CASE pc[p] = "timeout" /\ pc'[p] = "timeout"
        BY <1>0, <1>2, <2>1, <2>2, <2>4, MyCallGoesOn
    <2>5. pc'[p] = "timeout" => pc[p] = "timeout" \/ TimeoutBegin(p)
        BY HandlerMoves
           DEF BaseInv, Advance, Poll, Respond, Goto, HandlerTypeOK
    <2> QED BY <2>2, <2>3, <2>4, <2>5
<1> QED BY <1>1, <1>2, MineMoves

LEMMA CallsHold == Spec => [](HandlerCalls /\ RepliesLast)
<1>1. Init => HandlerCalls /\ RepliesLast
    BY ClientsAssumption DEF Init, StoreInit, HandlerCalls, RepliesLast, NoReply
<1>2. BaseInv => HandlerTypeOK
    BY DEF BaseInv
<1> QED BY <1>1, <1>2, BaseHolds, HandlerCallsStep, RepliesLastStep, PTL DEF Spec

\* For any number of requests with the same trx_id, answers and duplicates:
\* while no command fails and fewer than MaxRetries EXPIREs intervene, a 408
\* leaves no PENDING record of that request behind.
THEOREM TimeoutsRecorded == Spec => []TimeoutIsRecorded
<1>1. Init => RecordInv
    BY DEF Init, NoReply, RecordInv
<1>2. RecordInv => TimeoutIsRecorded
    BY DEF RecordInv, TimeoutIsRecorded, Mine
<1> QED BY <1>1, <1>2, BaseHolds, CallsHold, RecordStep, PTL DEF Spec

-----------------------------------------------------------------------------
(***************************************************************************)
(* An answer outlasts contention.  The POST of an answer that is under way *)
(* has stored its record long ago, and its handler runs one timeout: so    *)
(* one callback meets that timeout and the administrator, and nobody else. *)
(***************************************************************************)

Early == {"new", "lookup", "store"}

\* An answer comes from a handler that has published.
AskedInv ==
    \A p \in Posts :
        (\/ copies[p] > 0
         \/ \E m \in inbox : m.from = p
         \/ \E w \in Workers : job[w] # NoJob /\ job[w].from = p) => pc[p] \notin Early

\* A callback's call of Update is for the answer it handles.
CallbackCalls ==
    \A w \in Workers : phase[w] # "idle" =>
        job[w] # NoJob /\ arg[w] = [trx |-> TrxIDOf(job[w]), fn |-> job[w]]

\* The timeout of p, if there was one, has had its effect.
Late(p) == pc[p] = "done" \/ (pc[p] = "timeout" /\ phase[p] \in Ended)

OneWorker == \A v, w \in Workers : v = w

ContendInv ==
    UniqueTrxIDs /\ OneWorker =>
        \A w \in Workers :
            /\ phase[w] \in InCall =>
                  Spent(w) <= touches + IF Late(job[w].from) THEN 1 ELSE 0
            /\ phase[w] = "exhausted" => MaxRetries <= touches + 1

LEMMA JobMoves ==
    ASSUME ChannelTypeOK, [Next]_vars, NEW w \in Workers, job'[w] # NoJob
    PROVE  /\ job'[w] \in EDCResponse
           /\ job'[w] = job[w] \/ (job[w] = NoJob /\ job'[w] \in inbox)
<1> DEFINE Goal == /\ job'[w] \in EDCResponse
                   /\ job'[w] = job[w] \/ (job[w] = NoJob /\ job'[w] \in inbox)
<1> SUFFICES Goal
    OBVIOUS
<1> USE DEF ChannelTypeOK
<1>1. CASE UNCHANGED job
    BY <1>1
<1>2. ASSUME NEW v \in Workers, NEW m \in EDCResponse, Deliver(v, m) PROVE Goal
    BY <1>2 DEF Deliver
<1>3. ASSUME NEW v \in Workers, CallbackDrops(v) \/ CallbackReturn(v) PROVE Goal
    BY <1>3 DEF CallbackDrops, CallbackReturn
<1>4. CASE Crash
    BY <1>4 DEF Crash
<1> QED
    BY <1>1, <1>2, <1>3, <1>4
       DEF Next, vars, channelVars, HandlerStep, CallbackStep, Receive, Lookup,
           StoreTransaction, StoreFails, CheckHold, Publish, PublishFails,
           Delivered, Poll, PollFails, Deadline, Disconnect, TimeoutBegin,
           TimeoutReply, CallbackLoad, Step, StepFails, EdcAnswer, Discard,
           ChangeTTL, Restart

LEMMA AskedStep == BaseInv /\ AskedInv /\ [Next]_vars => AskedInv'
<1> SUFFICES ASSUME BaseInv, AskedInv, [Next]_vars, NEW p \in Posts,
                    \/ copies'[p] > 0
                    \/ \E m \in inbox' : m.from = p
                    \/ \E w \in Workers : job'[w] # NoJob /\ job'[w].from = p
             PROVE  pc'[p] \notin Early
    BY DEF AskedInv
<1> USE DEF BaseInv
<1>1. pc[p] \notin Early
    <2>1. CASE copies'[p] > 0
        BY <2>1, MessageMoves DEF AskedInv, Early
    <2>2. ASSUME NEW m \in inbox', m.from = p PROVE pc[p] \notin Early
        BY <2>2, MessageMoves DEF AskedInv
    <2>3. ASSUME NEW w \in Workers, job'[w] # NoJob, job'[w].from = p
          PROVE  pc[p] \notin Early
        BY <2>3, JobMoves DEF AskedInv
    <2> QED BY <2>1, <2>2, <2>3
<1> QED
    BY <1>1, HandlerMoves
       DEF Early, Advance, StoreTransaction, TimeoutBegin, Poll, Respond, Goto,
           HandlerTypeOK

LEMMA CallbackCallsStep ==
    BaseInv /\ CallbackCalls /\ [Next]_vars => CallbackCalls'
<1> SUFFICES ASSUME BaseInv, CallbackCalls, [Next]_vars, NEW w \in Workers,
                    phase'[w] # "idle"
             PROVE  job'[w] # NoJob /\ arg'[w] = [trx |-> TrxIDOf(job'[w]), fn |-> job'[w]]
    BY DEF CallbackCalls
<1> USE ClientsAssumption
    DEF BaseInv, StoreInv, TypeInv, StoreTypeOK, ChannelTypeOK
<1>1. CASE CallbackLoad(w)
    BY <1>1 DEF CallbackLoad, Begin, channelVars
<1>2. CASE phase[w] # "idle" /\ arg'[w] = arg[w]
    <2>1. job[w] # NoJob
        BY <1>2 DEF CallbackCalls
    <2> DEFINE Goal == job'[w] = job[w]
    <2>2. Goal
        <3>1. CASE UNCHANGED job
            BY <3>1
        <3>2. ASSUME NEW v \in Workers, NEW m \in EDCResponse, Deliver(v, m) PROVE Goal
            BY <2>1, <3>2 DEF Deliver
        <3>3. ASSUME NEW v \in Workers, CallbackDrops(v) PROVE Goal
            BY <1>2, <3>3 DEF CallbackDrops
        <3>4. ASSUME NEW v \in Workers, CallbackReturn(v) PROVE Goal
            BY <3>4 DEF CallbackReturn, Return
        <3>5. CASE Crash
            BY <3>5 DEF Crash
        <3> HIDE DEF Goal
        <3> QED
            BY <3>1, <3>2, <3>3, <3>4, <3>5
               DEF Next, vars, channelVars, HandlerStep, CallbackStep, Receive,
                   Lookup, StoreTransaction, StoreFails, CheckHold, Publish,
                   PublishFails, Delivered, Poll, PollFails, Deadline, Disconnect,
                   TimeoutBegin, TimeoutReply, CallbackLoad, Step, StepFails,
                   EdcAnswer, Discard, ChangeTTL, Restart
    <2> QED BY <1>2, <2>1, <2>2 DEF CallbackCalls
<1> QED BY <1>1, <1>2, CallMoves

\* A call that has ended stays as it ended until it returns.
LEMMA EndedMoves ==
    ASSUME BaseInv, [Next]_vars, NEW c \in Clients, phase[c] \in Ended
    PROVE  \/ phase'[c] = phase[c]
           \/ phase'[c] = "idle" /\ (c \in Posts /\ pc[c] = "timeout" => pc'[c] = "done")
<1> DEFINE Goal ==
      \/ phase'[c] = phase[c]
      \/ phase'[c] = "idle" /\ (c \in Posts /\ pc[c] = "timeout" => pc'[c] = "done")
<1> SUFFICES Goal
    OBVIOUS
<1> USE ClientsAssumption
    DEF BaseInv, StoreInv, TypeInv, StoreTypeOK, HandlerTypeOK
<1>1. CASE UNCHANGED phase
    BY <1>1
<1>2. ASSUME NEW q \in Posts, TimeoutBegin(q) PROVE Goal
    BY <1>2 DEF TimeoutBegin, Begin, Ended
<1>3. ASSUME NEW q \in Posts, TimeoutReply(q) PROVE Goal
    BY <1>3 DEF TimeoutReply, Return, Respond, Goto
<1>4. ASSUME NEW w \in Workers, CallbackLoad(w) PROVE Goal
    BY <1>4 DEF CallbackLoad, Begin, Ended
<1>5. ASSUME NEW w \in Workers, CallbackReturn(w) PROVE Goal
    BY <1>5 DEF CallbackReturn, Return
<1>6. ASSUME NEW d \in Clients, Step(d) \/ StepFails(d) PROVE Goal
    <2>1. phase[d] \in InCall /\ \E l : phase' = [phase EXCEPT ![d] = l]
        BY <1>6 DEF Step, StepFails, UpdateStep, Watch, GetNil, Get, Exec, End,
            Conflict, Fault, FaultAfterExec, Commit, InCall
    <2>2. d # c
        BY <2>1 DEF InCall, Ended
    <2> QED BY <2>1, <2>2
<1>7. CASE Crash
    BY <1>7 DEF Crash, Waiting
<1> HIDE DEF Goal
<1> QED
    BY <1>1, <1>2, <1>3, <1>4, <1>5, <1>6, <1>7
       DEF Next, vars, storeVars, HandlerStep, CallbackStep, Receive, Lookup,
           StoreTransaction, StoreFails, Store, CheckHold, Publish, PublishFails,
           Poll, PollFails, Deadline, Disconnect, EdcAnswer, Deliver,
           CallbackDrops, Discard, ChangeTTL, Touch, Expire, Restart

LEMMA LateStays ==
    ASSUME BaseInv, [Next]_vars, NEW p \in Posts, Late(p)
    PROVE  Late(p)'
<1>1. CASE pc[p] = "done"
    BY <1>1, HandlerMoves
       DEF BaseInv, Advance, StoreTransaction, TimeoutBegin, Poll, Late
<1>2. CASE pc[p] = "timeout" /\ phase[p] \in Ended
    <2>1. pc'[p] \in {"timeout", "done"}
        BY <1>2, HandlerMoves
           DEF BaseInv, Advance, StoreTransaction, TimeoutBegin, Poll
    <2>2. p \in Clients
        BY ClientsAssumption
    <2> QED BY <1>2, <2>1, <2>2, EndedMoves DEF Late
<1> QED BY <1>1, <1>2 DEF Late

LEMMA AboveZero ==
    ASSUME NEW n \in Nat
    PROVE  0 <= n /\ 0 <= n + 1 /\ n + 0 = n
  OBVIOUS

LEMMA StillAtMost ==
    ASSUME NEW a \in Nat, NEW b \in Nat, b = a \/ b = a + 1, NEW n \in Nat
    PROVE  /\ a <= b
           /\ n <= a + 1 => n <= b + 1
  OBVIOUS

\* Who else can write the key of the only callback's call.
LEMMA RivalsOfAnAnswer ==
    ASSUME BaseInv, HandlerCalls, AskedInv, CallbackCalls, UniqueTrxIDs,
           NEW w \in Workers, \A v \in Workers : v = w, phase[w] # "idle",
           NEW p \in Posts, p = job[w].from, RivalWrite(w, arg[w].trx)
    PROVE  touches' = touches + 1 \/ (~Late(p) /\ Late(p)' /\ touches' = touches)
<1>1. job[w] # NoJob /\ arg[w].trx = TrxOf[p]
    <2>1. job[w] # NoJob /\ arg[w] = [trx |-> TrxIDOf(job[w]), fn |-> job[w]]
        BY DEF CallbackCalls
    <2> QED BY <2>1 DEF TrxIDOf
<1>2. pc[p] \notin Early
    BY <1>1 DEF AskedInv
<1>3. ASSUME NEW q \in Posts, pc[q] = "store", arg[w].trx = TrxOf[q] PROVE FALSE
    BY <1>1, <1>2, <1>3 DEF UniqueTrxIDs, Early
<1>4. ASSUME NEW d \in Clients \ {w}, Commit(d), arg[w].trx = arg[d].trx,
             phase'[d] \in Ended, UNCHANGED handlerVars
      PROVE  ~Late(p) /\ Late(p)'
    <2>1. d \in Posts /\ phase[d] = "exec"
        BY <1>4, ClientsAssumption DEF Commit
    <2>2. arg[d].trx = TrxOf[d] /\ pc[d] = "timeout"
        BY <2>1 DEF HandlerCalls
    <2>3. d = p
        BY <1>1, <1>4, <2>1, <2>2 DEF UniqueTrxIDs
    <2>4. pc'[p] = "timeout" /\ phase'[p] \in Ended
        BY <1>4, <2>2, <2>3 DEF handlerVars
    <2> QED BY <2>1, <2>2, <2>3, <2>4 DEF Late, Ended
<1> QED BY <1>3, <1>4 DEF RivalWrite

\* The callback's call stays within the EXPIREs and the one timeout.
LEMMA AnswerGoesOn ==
    ASSUME BaseInv, HandlerCalls, AskedInv, CallbackCalls, UniqueTrxIDs,
           [Next]_vars, NEW w \in Workers, \A v \in Workers : v = w,
           phase[w] \in InCall, NEW p \in Posts, p = job[w].from,
           Spent(w) <= touches + IF Late(p) THEN 1 ELSE 0
    PROVE  /\ phase'[w] \in InCall =>
                 Spent(w)' <= touches' + IF Late(p)' THEN 1 ELSE 0
           /\ phase'[w] = "exhausted" => MaxRetries <= touches' + 1
<1> DEFINE Goal ==
      /\ phase'[w] \in InCall => Spent(w)' <= touches' + IF Late(p)' THEN 1 ELSE 0
      /\ phase'[w] = "exhausted" => MaxRetries <= touches' + 1
<1> SUFFICES Goal
    OBVIOUS
<1>0. w \in Clients /\ phase[w] # "idle" /\ TypeInv
    BY ClientsAssumption DEF InCall, BaseInv, StoreInv
<1>1. /\ touches \in Nat /\ touches' \in Nat /\ MaxRetries \in Nat
      /\ touches' = touches \/ touches' = touches + 1
    BY BoundMoves, RetriesAssumption DEF BaseInv
<1>2. Spent(w) \in Nat /\ Spent(w)' \in Nat
    <2>1. TypeInv'
        BY BaseStep DEF BaseInv, StoreInv
    <2>2. tries[w] \in Nat /\ tries'[w] \in Nat
        BY <1>0, <2>1 DEF TypeInv, StoreTypeOK
    <2> QED BY <2>2 DEF Spent
<1>3. Late(p) => Late(p)'
    BY LateStays
<1>4. ASSUME Spent(w)' <= Spent(w), phase'[w] # "exhausted" PROVE Goal
    <2>1. Spent(w)' <= touches' + IF Late(p)' THEN 1 ELSE 0
        BY <1>1, <1>2, <1>3, <1>4
    <2> QED BY <1>4, <2>1
<1>5. CASE Crash
    BY <1>0, <1>5 DEF Crash, InCall
<1>6. CASE OwnCommand(w)
    <2>1. CASE Watch(w) \/ Get(w)
        BY <1>0, <1>4, <2>1, SpentMoves DEF InCall
    <2>2. CASE Conflict(w)
        <3>1. /\ Spent(w)' = Spent(w)
              /\ phase'[w] = "exhausted" => Spent(w) >= MaxRetries
            BY <1>0, <2>2, SpentMoves
        <3>2. Spent(w) <= touches + 1
            BY <1>1, <1>2
        <3>3. phase'[w] = "exhausted" => MaxRetries <= touches' + 1
            <4>1. Spent(w) >= MaxRetries => MaxRetries <= touches + 1
                BY <1>1, <1>2, <3>2
            <4>2. MaxRetries <= touches + 1 => MaxRetries <= touches' + 1
                BY <1>1, StillAtMost
            <4> QED BY <3>1, <4>1, <4>2
        <3>4. Spent(w)' <= touches' + IF Late(p)' THEN 1 ELSE 0
            BY <1>1, <1>2, <1>3, <3>1
        <3> QED BY <3>3, <3>4
    <2>3. CASE GetNil(w) \/ Exec(w) \/ FaultAfterExec(w) \/ Fault(w)
        <3>1. phase'[w] \in {"error", "ok"}
            BY <1>0, <2>3
               DEF GetNil, Exec, FaultAfterExec, Fault, End, TypeInv, StoreTypeOK
        <3> QED BY <3>1 DEF InCall
    <2> QED BY <1>6, <2>1, <2>2, <2>3 DEF OwnCommand
<1>7. CASE Undisturbed(w)
    <2>0. phase'[w] # "exhausted"
        BY <1>7 DEF Undisturbed, InCall
    <2>1. CASE watch'[w] = watch[w]
        <3>1. Spent(w)' = Spent(w)
            BY <1>0, <1>7, <2>1, SpentMoves
        <3> QED BY <1>2, <1>4, <2>0, <3>1
    <2>2. CASE watch'[w] # watch[w]
        <3>1. RivalWrite(w, arg[w].trx)
            BY <1>7, <2>2, <1>0 DEF Undisturbed, Signal
        <3>2. touches' = touches + 1 \/ (~Late(p) /\ Late(p)' /\ touches' = touches)
            BY <1>0, <3>1, RivalsOfAnAnswer
        <3>3. Spent(w)' <= Spent(w) + 1
            BY <1>0, <1>7, SpentMoves
        <3>4. Spent(w)' <= touches' + IF Late(p)' THEN 1 ELSE 0
            BY <1>1, <1>2, <1>3, <3>2, <3>3
        <3> QED BY <2>0, <3>4
    <2> QED BY <2>1, <2>2
<1> QED BY <1>0, <1>5, <1>6, <1>7, CallProgress

LEMMA ContendStep ==
    /\ BaseInv /\ HandlerCalls /\ AskedInv /\ CallbackCalls /\ ContendInv
    /\ [Next]_vars
    => ContendInv'
<1> SUFFICES ASSUME BaseInv, HandlerCalls, AskedInv, CallbackCalls, ContendInv,
                    [Next]_vars, UniqueTrxIDs, OneWorker,
                    NEW w \in Workers
             PROVE  /\ phase'[w] \in InCall =>
                          Spent(w)' <= touches' + IF Late(job[w].from)' THEN 1 ELSE 0
                    /\ phase'[w] = "exhausted" => MaxRetries <= touches' + 1
    BY DEF ContendInv, UniqueTrxIDs, OneWorker
<1> DEFINE Goal == /\ phase'[w] \in InCall =>
                         Spent(w)' <= touches' + IF Late(job[w].from)' THEN 1 ELSE 0
                   /\ phase'[w] = "exhausted" => MaxRetries <= touches' + 1
<1> SUFFICES Goal
    OBVIOUS
<1>0. \A v \in Workers : v = w
    BY DEF OneWorker
<1>1. w \in Clients /\ w \notin Posts /\ TypeInv
    BY ClientsAssumption DEF BaseInv, StoreInv
<1>2. /\ touches \in Nat /\ touches' \in Nat /\ MaxRetries \in Nat
      /\ touches' = touches \/ touches' = touches + 1
    BY BoundMoves, RetriesAssumption DEF BaseInv
<1>3. CASE CallbackLoad(w)
    <2>1. /\ phase'[w] = "watch" /\ tries'[w] = tries[w] /\ watch'[w] = watch[w]
          /\ phase[w] = "idle"
        BY <1>1, <1>3 DEF CallbackLoad, Begin, TypeInv, StoreTypeOK
    <2>2. tries[w] = 0 /\ watch[w] # "dirty"
        BY <1>1, <2>1 DEF TypeInv, CallShape
    <2>3. Spent(w)' = 0
        BY <2>1, <2>2 DEF Spent
    <2>4. 0 <= touches' /\ 0 <= touches' + 1 /\ touches' + 0 = touches'
        BY <1>2, AboveZero
    <2>5. CASE Late(job[w].from)'
        BY <2>1, <2>3, <2>4, <2>5
    <2>6. CASE ~Late(job[w].from)'
        BY <2>1, <2>3, <2>4, <2>6
    <2> QED BY <2>5, <2>6
<1>4. CASE phase[w] \in Ended
    <2>1. phase'[w] = phase[w] \/ phase'[w] = "idle"
        BY <1>1, <1>4, EndedMoves
    <2>2. phase[w] = "exhausted" => MaxRetries <= touches + 1
        BY DEF ContendInv
    <2>3. MaxRetries <= touches + 1 => MaxRetries <= touches' + 1
        BY <1>2, StillAtMost
    <2> QED BY <1>4, <2>1, <2>2, <2>3 DEF InCall, Ended
<1>5. CASE phase[w] \in InCall
    <2>1. job[w] # NoJob /\ phase[w] # "idle"
        BY <1>5 DEF CallbackCalls, InCall
    <2>2. PICK p \in Posts : p = job[w].from
        BY <2>1 DEF BaseInv, ChannelTypeOK, EDCResponse
    <2>3. Spent(w) <= touches + IF Late(p) THEN 1 ELSE 0
        BY <1>5, <2>2 DEF ContendInv
    <2>4. /\ phase'[w] \in InCall =>
                Spent(w)' <= touches' + IF Late(p)' THEN 1 ELSE 0
          /\ phase'[w] = "exhausted" => MaxRetries <= touches' + 1
        BY <1>0, <1>5, <2>2, <2>3, AnswerGoesOn
    <2>5. ASSUME phase'[w] \in InCall PROVE job'[w] = job[w]
        <3>1. CallbackCalls'
            BY CallbackCallsStep
        <3>2. arg'[w] = arg[w]
            BY <1>1, <2>5, <2>1, CallMoves DEF InCall, CallbackLoad, Begin
        <3>3. phase'[w] # "idle"
            BY <2>5 DEF InCall
        <3>4. arg[w] = [trx |-> TrxIDOf(job[w]), fn |-> job[w]]
            BY <2>1 DEF CallbackCalls
        <3>5. arg'[w] = [trx |-> TrxIDOf(job'[w]), fn |-> job'[w]]
            BY <3>1, <3>3 DEF CallbackCalls, TrxIDOf
        <3> QED BY <3>2, <3>4, <3>5
    <2>6. phase'[w] \in InCall => job'[w].from = p
        BY <2>2, <2>5
    <2> QED BY <2>4, <2>6 DEF Late
<1>6. phase[w] = "idle" \/ phase[w] \in Ended \/ phase[w] \in InCall
    BY <1>1 DEF TypeInv, StoreTypeOK
<1>7. CASE phase[w] = "idle"
    <2>1. phase'[w] = "idle" \/ CallbackLoad(w)
        BY <1>1, <1>7, CallMoves
    <2> QED BY <1>3, <2>1 DEF InCall
<1> QED BY <1>4, <1>5, <1>6, <1>7

\* For any number of requests with trx_ids of their own, failures, crashes
\* and duplicates: one callback goroutine never gives up an answer because of
\* contention.
THEOREM AnswersOutlastContention == Spec => []AnswerOutlastsContention
<1>1. Init => AskedInv /\ CallbackCalls /\ ContendInv
    <2> SUFFICES ASSUME Init PROVE AskedInv /\ CallbackCalls /\ ContendInv
        OBVIOUS
    <2>1. AskedInv
        BY DEF Init, AskedInv
    <2>2. \A w \in Workers : phase[w] = "idle"
        BY ClientsAssumption DEF Init, StoreInit
    <2> QED BY <2>1, <2>2 DEF CallbackCalls, ContendInv, InCall
<1>2. BaseInv /\ ContendInv => AnswerOutlastsContention
    <2> SUFFICES ASSUME BaseInv, ContendInv, UniqueTrxIDs, Cardinality(Workers) = 1,
                        touches + 1 < MaxRetries,
                        NEW w \in Workers, phase[w] = "exhausted"
                 PROVE  FALSE
        BY DEF AnswerOutlastsContention
    <2>0. OneWorker
        BY ClientsAssumption, FS_Singleton DEF OneWorker
    <2>1. MaxRetries <= touches + 1
        BY <2>0 DEF ContendInv
    <2>2. touches \in Nat /\ MaxRetries \in Nat
        BY RetriesAssumption DEF BaseInv, BoundTypeOK
    <2> QED BY <2>1, <2>2
<1> QED
    BY <1>1, <1>2, BaseHolds, CallsHold, AskedStep, CallbackCallsStep, ContendStep,
       PTL DEF Spec
=============================================================================
