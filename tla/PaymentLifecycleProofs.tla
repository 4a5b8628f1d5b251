----------------------- MODULE PaymentLifecycleProofs -----------------------
(***************************************************************************)
(* The middleware implements PaymentLifecycle, for any numbers of          *)
(* requests, trx_ids, callback goroutines, retries, failures, duplicates,  *)
(* expiries and crashes.                                                   *)
(***************************************************************************)
EXTENDS PaymentMiddlewareProofs

LEMMA Stages ==
    /\ StageOf("new") = "new" /\ StageOf("done") = "ended"
    /\ StageOf("lookup") = "checking" /\ StageOf("store") = "checking"
    /\ StageOf("hold") = "pending" /\ StageOf("publish") = "pending"
    /\ StageOf("poll") = "pending" /\ StageOf("timeout") = "pending"
  BY DEF StageOf

\* Where a handler goes, its request goes.
LEMMA GotoMoves ==
    ASSUME HandlerTypeOK, NEW p \in Posts, NEW l, Goto(p, l)
    PROVE  Lifecycle!Move(p, StageOf(pc[p]), StageOf(l))
  <1>1. pc \in [Posts -> {"new", "done"} \union Waiting]
    BY DEF HandlerTypeOK
  <1>2. \A q \in Posts : pc'[q] = IF q = p THEN l ELSE pc[q]
    BY <1>1 DEF Goto
  <1>3. Stage[p] = StageOf(pc[p])
    BY DEF Stage
  <1>4. Stage' = [q \in Posts |-> StageOf(pc'[q])]
    BY DEF Stage
  <1>5. Stage' = [Stage EXCEPT ![p] = StageOf(l)]
    BY <1>2, <1>4 DEF Stage
  <1> QED
    BY <1>3, <1>5 DEF Lifecycle!Move

\* A response ends it.
LEMMA RespondEnds ==
    ASSUME HandlerTypeOK, NEW p \in Posts, NEW code, NEW data,
           Respond(p, code, data)
    PROVE  Lifecycle!End(p, StageOf(pc[p]), code, data)
  <1>1. Lifecycle!Move(p, StageOf(pc[p]), "ended")
    BY GotoMoves, Stages DEF Respond
  <1> QED
    BY <1>1 DEF Respond, Lifecycle!End

LEMMA StaysTheSame ==
    ASSUME UNCHANGED <<pc, reply, copies, answers>>
    PROVE  UNCHANGED Lifecycle!vars
  BY DEF Lifecycle!vars, Stage

LEMMA LifecycleStep ==
    BaseInv /\ AuthInv /\ [Next]_vars => [Lifecycle!Next]_(Lifecycle!vars)
  <1> SUFFICES ASSUME BaseInv, AuthInv, [Next]_vars
               PROVE  Lifecycle!Next \/ UNCHANGED Lifecycle!vars
    OBVIOUS
  <1>0. HandlerTypeOK /\ ChannelTypeOK
    BY DEF BaseInv
  <1>1. ASSUME NEW p \in Posts, Receive(p) PROVE Lifecycle!Next
    <2>1. pc[p] = "new" /\ UNCHANGED <<copies, answers>>
      BY <1>1 DEF Receive, channelVars
    <2>2. CASE Goto(p, "lookup") /\ UNCHANGED reply
      BY <1>0, <2>1, <2>2, GotoMoves, Stages DEF Lifecycle!Next, Lifecycle!Advance
    <2>3. CASE Respond(p, "400", NoData)
      BY <1>0, <2>1, <2>3, RespondEnds, Stages DEF Lifecycle!Next, Lifecycle!Refuse
    <2> QED
      BY <1>1, <2>2, <2>3 DEF Receive
  <1>2. ASSUME NEW p \in Posts, Lookup(p)
        PROVE  Lifecycle!Next \/ UNCHANGED Lifecycle!vars
    <2>1. pc[p] = "lookup" /\ UNCHANGED <<copies, answers>>
      BY <1>2 DEF Lookup, channelVars
    <2>2. CASE Goto(p, "store") /\ UNCHANGED reply
      <3>1. Lifecycle!Move(p, "checking", "checking")
        BY <1>0, <2>1, <2>2, GotoMoves, Stages
      <3>2. Stage' = Stage
        BY <3>1 DEF Lifecycle!Move, Stage
      <3> QED
        BY <2>1, <2>2, <3>2 DEF Lifecycle!vars
    <2>3. CASE Respond(p, "404", NoData)
      BY <1>0, <2>1, <2>3, RespondEnds, Stages DEF Lifecycle!Next, Lifecycle!Refuse
    <2> QED
      BY <1>2, <2>2, <2>3 DEF Lookup
  <1>3. ASSUME NEW p \in Posts, StoreTransaction(p) PROVE Lifecycle!Next
    <2>1. /\ pc[p] = "store" /\ Goto(p, "hold")
          /\ UNCHANGED <<reply, copies, answers>>
      BY <1>3 DEF StoreTransaction, channelVars
    <2> QED
      BY <1>0, <2>1, GotoMoves, Stages DEF Lifecycle!Next, Lifecycle!Advance
  <1>4. ASSUME NEW p \in Posts, StoreFails(p) PROVE Lifecycle!Next
    <2>1. /\ pc[p] = "store" /\ Respond(p, "500 not stored", NoData)
          /\ UNCHANGED <<copies, answers>>
      BY <1>4 DEF StoreFails, channelVars
    <2> QED
      BY <1>0, <2>1, RespondEnds, Stages DEF Lifecycle!Next, Lifecycle!Refuse
  <1>5. ASSUME NEW p \in Posts, NEW l \in {"publish", "poll", "timeout"},
               StageOf(pc[p]) = "pending", Goto(p, l)
        PROVE  Stage' = Stage
    <2>1. Lifecycle!Move(p, "pending", "pending")
      BY <1>0, <1>5, GotoMoves, Stages
    <2> QED
      BY <2>1 DEF Lifecycle!Move, Stage
  <1>6. ASSUME NEW p \in Posts, CheckHold(p) \/ TimeoutBegin(p)
        PROVE  UNCHANGED Lifecycle!vars
    <2>1. /\ pc[p] \in {"hold", "poll"}
          /\ \E l \in {"publish", "poll", "timeout"} : Goto(p, l)
          /\ UNCHANGED <<reply, copies, answers>>
      BY <1>6 DEF CheckHold, TimeoutBegin, channelVars
    <2> QED
      BY <1>5, <2>1, Stages DEF Lifecycle!vars
  <1>7. ASSUME NEW p \in Posts, Publish(p) PROVE Lifecycle!Next
    <2>1. /\ pc[p] = "publish" /\ Goto(p, "poll") /\ Delivered(p)
          /\ UNCHANGED reply
      BY <1>7 DEF Publish
    <2>2. Stage' = Stage
      BY <1>5, <2>1, Stages
    <2>3. Stage[p] = "pending"
      BY <2>1, Stages DEF Stage
    <2> QED
      BY <2>1, <2>2, <2>3
         DEF Lifecycle!Next, Lifecycle!AskTerminal, Lifecycle!Ask, Delivered
  <1>8. ASSUME NEW p \in Posts, PublishFails(p)
        PROVE  Lifecycle!Next \/ UNCHANGED Lifecycle!vars
    <2>1. /\ pc[p] = "publish" /\ UNCHANGED answers
          /\ Lifecycle!Ask(p) \/ UNCHANGED copies
      BY <1>8 DEF PublishFails, Delivered, channelVars, Lifecycle!Ask
    <2>2. CASE UNCHANGED <<pc, reply>>
      <3>1. Stage' = Stage /\ Stage[p] = "pending"
        BY <2>1, <2>2, Stages DEF Stage
      <3> QED
        BY <2>1, <2>2, <3>1 DEF Lifecycle!Next, Lifecycle!AskTerminal, Lifecycle!vars
    <2>3. CASE Respond(p, "503", NoData)
      BY <1>0, <2>1, <2>3, RespondEnds, Stages
         DEF Lifecycle!Next, Lifecycle!Unreachable
    <2> QED
      BY <1>8, <2>2, <2>3 DEF PublishFails
  <1>9. ASSUME NEW p \in Posts, Poll(p) PROVE Lifecycle!Next
    <2>1. /\ pc[p] = "poll" /\ db[TrxOf[p]] # NoTx
          /\ UNCHANGED <<copies, answers>>
      BY <1>9 DEF Poll, channelVars
    <2>2. CASE db[TrxOf[p]].data = NoData
      <3>1. Respond(p, "500 no data", NoData)
        BY <1>9, <2>2 DEF Poll
      <3> QED
        BY <1>0, <2>1, <3>1, RespondEnds, Stages
           DEF Lifecycle!Next, Lifecycle!EndWithout
    <2>3. CASE db[TrxOf[p]].data # NoData
      <3>1. Respond(p, "200", db[TrxOf[p]].data)
        BY <1>9, <2>3 DEF Poll
      <3>2. db[TrxOf[p]].data \in answers /\ TrxIDOf(db[TrxOf[p]].data) = TrxOf[p]
        BY <2>1, <2>3, TrxOfAssumption DEF AuthInv, AnswerIsAuthentic
      <3>3. Lifecycle!End(p, "pending", "200", db[TrxOf[p]].data)
        BY <1>0, <2>1, <3>1, RespondEnds, Stages
      <3>4. Lifecycle!Report(p)
        BY <2>1, <3>2, <3>3 DEF Lifecycle!Report, TrxIDOf, Lifecycle!TrxIDOf
      <3> QED
        BY <3>4 DEF Lifecycle!Next
    <2> QED
      BY <2>2, <2>3
  <1>10. ASSUME NEW p \in Posts, PollFails(p) \/ TimeoutReply(p)
         PROVE  Lifecycle!Next
    <2>1. /\ pc[p] \in {"poll", "timeout"}
          /\ \E code \in {"408", "500 not found"} : Respond(p, code, NoData)
          /\ UNCHANGED <<copies, answers>>
      BY <1>10 DEF PollFails, TimeoutReply, channelVars
    <2> QED
      BY <1>0, <2>1, RespondEnds, Stages DEF Lifecycle!Next, Lifecycle!EndWithout
  <1>11. ASSUME NEW p \in Posts, NEW s \in EDCStatuses, EdcAnswer(p, s)
         PROVE  Lifecycle!Next
    <2>1. UNCHANGED <<Stage, reply>>
      BY <1>11 DEF EdcAnswer, handlerVars, Stage
    <2> QED
      BY <1>11, <2>1 DEF EdcAnswer, Lifecycle!Next, Lifecycle!Answer
  <1>12. CASE Crash
    <2>1. \A l \in {"new", "done"} \union Waiting :
             StageOf(l) \in {"checking", "pending"} <=> l \in Waiting
      BY Stages DEF Waiting
    <2>2. \A p \in Posts : Stage[p] \in {"checking", "pending"} <=> pc[p] \in Waiting
      BY <1>0, <2>1 DEF Stage, HandlerTypeOK
    <2>3. Stage' = [p \in Posts |-> IF Stage[p] \in {"checking", "pending"}
                                    THEN "ended" ELSE Stage[p]]
      BY <1>12, <2>2, Stages DEF Crash, Stage
    <2>4. reply' = [p \in Posts |-> IF Stage[p] \in {"checking", "pending"}
                                    THEN [code |-> "lost", data |-> NoData]
                                    ELSE reply[p]]
      BY <1>12, <2>2 DEF Crash
    <2> QED
      BY <1>12, <2>3, <2>4 DEF Crash, Lifecycle!Next, Lifecycle!BreakOff
  <1>13. CASE UNCHANGED <<pc, reply, copies, answers>>
    BY <1>13, StaysTheSame
  <1> QED
    BY <1>1, <1>2, <1>3, <1>4, <1>6, <1>7, <1>8, <1>9, <1>10, <1>11, <1>12, <1>13
       DEF Next, vars, handlerVars, channelVars, HandlerStep, Deadline, Disconnect,
           Deliver, CallbackStep, CallbackLoad, CallbackDrops, CallbackReturn,
           Step, StepFails, Discard, ChangeTTL, Restart

\* Polling, optimistic locking, retries and crashes stay hidden: the steps of
\* the middleware are steps of the life of a payment, or not seen at all.  So
\* no terminal is asked for a request that was refused or has ended, and no
\* response claims an answer that was not given.
THEOREM LifecycleRefinement == Spec => ImplementsPaymentLifecycle
  <1>1. Init => Lifecycle!Init
    BY Stages DEF Init, NoReply, Stage, Lifecycle!Init
  <1>2. Init => AuthInv
    BY DEF Init, StoreInit, NoReply, AuthInv, AnswerIsAuthentic
  <1> QED
    BY <1>1, <1>2, BaseHolds, AuthStep, LifecycleStep, PTL
       DEF Spec, Lifecycle!Spec, ImplementsPaymentLifecycle

-----------------------------------------------------------------------------
(***************************************************************************)
(* What follows for a client.  The invariant is one of the abstract        *)
(* payment, in terms of its stages; the refinement carries it over.        *)
(***************************************************************************)

\* The types the argument rests on.
LifecycleTypes ==
    /\ reply \in [Posts -> [code : Codes, data : EDCResponse \union {NoData}]]
    /\ copies \in [Posts -> Nat]
    /\ Stage \in [Posts -> {"new", "checking", "pending", "ended"}]

LEMMA BaseTypes == BaseInv => LifecycleTypes
  <1> SUFFICES ASSUME BaseInv PROVE LifecycleTypes
    OBVIOUS
  <1>1. HandlerTypeOK /\ ChannelTypeOK
    BY DEF BaseInv
  <1>2. \A l \in {"new", "done"} \union Waiting :
           StageOf(l) \in {"new", "checking", "pending", "ended"}
    BY Stages DEF Waiting
  <1> QED
    BY <1>1, <1>2 DEF HandlerTypeOK, ChannelTypeOK, Stage, LifecycleTypes

LEMMA RefusalCodes == Lifecycle!Refusals = {"400", "404", "500 not stored"}
  BY DEF Lifecycle!Refusals

\* There is no response before the end, and a request that was refused, or
\* is not pending yet, has left no trace at the terminal.
CleanInv ==
    \A p \in Posts :
        /\ Stage[p] # "ended" => reply[p].code = "none"
        /\ Stage[p] \in {"new", "checking"} \/ reply[p].code \in Lifecycle!Refusals =>
              copies[p] = 0 /\ \A m \in answers : m.from # p

\* An end gives the request its response and leaves the others alone.
LEMMA EndMoves ==
    ASSUME LifecycleTypes, NEW q \in Posts, NEW from, NEW code, NEW data,
           Lifecycle!End(q, from, code, data), NEW p \in Posts
    PROVE  /\ p = q => Stage[p] = from /\ Stage'[p] = "ended" /\ reply'[p].code = code
           /\ p # q => Stage'[p] = Stage[p] /\ reply'[p] = reply[p]
  <1>1. /\ Stage[q] = from /\ Stage' = [Stage EXCEPT ![q] = "ended"]
        /\ reply' = [reply EXCEPT ![q] = [code |-> code, data |-> data]]
    BY DEF Lifecycle!End, Lifecycle!Move
  <1> QED
    BY <1>1 DEF LifecycleTypes

LEMMA CleanStep ==
    LifecycleTypes /\ CleanInv /\ [Lifecycle!Next]_(Lifecycle!vars) => CleanInv'
  <1> DEFINE Clean(p) ==
        /\ Stage[p] # "ended" => reply[p].code = "none"
        /\ Stage[p] \in {"new", "checking"} \/ reply[p].code \in Lifecycle!Refusals =>
              copies[p] = 0 /\ \A m \in answers : m.from # p
  <1> SUFFICES ASSUME LifecycleTypes, Lifecycle!Next \/ UNCHANGED Lifecycle!vars,
                      NEW p \in Posts, Clean(p)
               PROVE  Clean(p)'
    BY DEF CleanInv
  <1>1. ASSUME NEW q \in Posts, Lifecycle!Advance(q) PROVE Clean(p)'
    <2>1. /\ UNCHANGED <<reply, copies, answers>>
          /\ \/ Lifecycle!Move(q, "new", "checking")
             \/ Lifecycle!Move(q, "checking", "pending")
      BY <1>1 DEF Lifecycle!Advance
    <2>2. /\ Stage'[p] # "ended" => Stage[p] # "ended"
          /\ Stage'[p] \in {"new", "checking"} => Stage[p] \in {"new", "checking"}
      BY <2>1 DEF Lifecycle!Move, LifecycleTypes
    <2> QED
      BY <2>1, <2>2
  <1>2. ASSUME NEW q \in Posts, NEW from, NEW code, NEW data,
               Lifecycle!End(q, from, code, data), UNCHANGED <<copies, answers>>,
               code \in Lifecycle!Refusals => from \in {"new", "checking"}
        PROVE  Clean(p)'
    <2>1. CASE p = q
      <3>1. Stage[p] = from /\ Stage'[p] = "ended" /\ reply'[p].code = code
        BY <1>2, <2>1, EndMoves
      <3> QED
        BY <1>2, <3>1
    <2>2. CASE p # q
      <3>1. Stage'[p] = Stage[p] /\ reply'[p] = reply[p]
        BY <1>2, <2>2, EndMoves
      <3> QED
        BY <1>2, <3>1
    <2> QED
      BY <2>1, <2>2
  <1>3. ASSUME NEW q \in Posts, Stage[q] = "pending", Lifecycle!Ask(q),
               UNCHANGED <<Stage, reply, answers>>
        PROVE  Clean(p)'
    <2>1. p # q => copies'[p] = copies[p]
      BY <1>3 DEF Lifecycle!Ask, LifecycleTypes
    <2>2. CASE p = q
      BY <1>3, <2>2, RefusalCodes
    <2>3. CASE p # q
      BY <1>3, <2>1, <2>3
    <2> QED
      BY <2>2, <2>3
  <1>4. ASSUME NEW q \in Posts, NEW s \in EDCStatuses, Lifecycle!Answer(q, s)
        PROVE  Clean(p)'
    <2>1. /\ copies[q] > 0 /\ Stage' = Stage /\ reply' = reply
          /\ copies' = [copies EXCEPT ![q] = @ - 1]
          /\ answers' = answers \union {[from |-> q, status |-> s]}
      BY <1>4 DEF Lifecycle!Answer
    <2>2. CASE p = q
      <3>1. copies[p] # 0
        BY <2>1, <2>2 DEF LifecycleTypes
      <3> QED
        BY <2>1, <3>1
    <2>3. CASE p # q
      <3>1. copies'[p] = copies[p]
        BY <2>1, <2>3 DEF LifecycleTypes
      <3> QED
        BY <2>1, <2>3, <3>1
    <2> QED
      BY <2>2, <2>3
  <1>5. ASSUME NEW q \in Posts, Lifecycle!Unreachable(q) PROVE Clean(p)'
    <2>1. /\ Lifecycle!End(q, "pending", "503", NoData) /\ UNCHANGED answers
          /\ Lifecycle!Ask(q) \/ UNCHANGED copies
      BY <1>5 DEF Lifecycle!Unreachable
    <2>2. p # q => copies'[p] = copies[p]
      BY <2>1 DEF Lifecycle!Ask, LifecycleTypes
    <2>3. CASE p = q
      <3>1. Stage'[p] = "ended" /\ reply'[p].code = "503"
        BY <2>1, <2>3, EndMoves
      <3> QED
        BY <3>1, RefusalCodes
    <2>4. CASE p # q
      <3>1. Stage'[p] = Stage[p] /\ reply'[p] = reply[p]
        BY <2>1, <2>4, EndMoves
      <3> QED
        BY <2>1, <2>2, <2>4, <3>1
    <2> QED
      BY <2>3, <2>4
  <1>6. CASE Lifecycle!BreakOff
    <2>1. /\ Stage'[p] = IF Stage[p] \in {"checking", "pending"} THEN "ended" ELSE Stage[p]
          /\ reply'[p] = IF Stage[p] \in {"checking", "pending"}
                         THEN [code |-> "lost", data |-> NoData] ELSE reply[p]
          /\ UNCHANGED <<copies, answers>>
      BY <1>6 DEF Lifecycle!BreakOff, LifecycleTypes
    <2>2. CASE Stage[p] \in {"checking", "pending"}
      <3>1. Stage'[p] = "ended" /\ reply'[p].code = "lost"
        BY <2>1, <2>2
      <3> QED
        BY <3>1, RefusalCodes
    <2>3. CASE Stage[p] \notin {"checking", "pending"}
      BY <2>1, <2>3
    <2> QED
      BY <2>2, <2>3
  <1>7. CASE UNCHANGED Lifecycle!vars
    BY <1>7 DEF Lifecycle!vars
  <1>8. ASSUME NEW q \in Posts,
               Lifecycle!Refuse(q) \/ Lifecycle!Report(q) \/ Lifecycle!EndWithout(q)
        PROVE  Clean(p)'
    BY <1>2, <1>8, RefusalCodes DEF Lifecycle!Refuse, Lifecycle!Report, Lifecycle!EndWithout
  <1>9. ASSUME NEW q \in Posts, Lifecycle!AskTerminal(q) PROVE Clean(p)'
    BY <1>3, <1>9 DEF Lifecycle!AskTerminal
  <1> QED
    BY <1>1, <1>4, <1>5, <1>6, <1>7, <1>8, <1>9 DEF Lifecycle!Next

LEMMA CleanHolds == Spec => [](LifecycleTypes /\ CleanInv)
  <1>1. Init => CleanInv
    <2> SUFFICES ASSUME Init, NEW p \in Posts
                 PROVE  /\ reply[p].code = "none"
                        /\ copies[p] = 0 /\ \A m \in answers : m.from # p
      BY DEF CleanInv
    <2> QED
      BY DEF Init, NoReply
  <1>2. Init => AuthInv
    BY DEF Init, StoreInit, NoReply, AuthInv, AnswerIsAuthentic
  <1> QED
    BY <1>1, <1>2, BaseHolds, BaseTypes, AuthStep, LifecycleStep, CleanStep, PTL DEF Spec

\* A client that was told 400, 404 or "not stored" can pay otherwise: the
\* terminal never was, and never will be, asked for this payment, whatever
\* was retried, lost or crashed.
THEOREM RefusedAreNotCharged == Spec => []NoPaymentAfterRefusal
  <1>1. CleanInv => NoPaymentAfterRefusal
    BY DEF CleanInv, NoPaymentAfterRefusal, Lifecycle!RefusalIsClean
  <1> QED
    BY <1>1, CleanHolds, PTL

\* Through retries, time-outs and crashes, a handler answers its request once.
THEOREM ResponsesAreFinal == Spec => OneResponse
  <1> DEFINE Final == \A p \in Posts : reply[p].code # "none" => reply'[p] = reply[p]
  <1>1. LifecycleTypes /\ CleanInv /\ [Lifecycle!Next]_(Lifecycle!vars) => Final
    <2> SUFFICES ASSUME LifecycleTypes, CleanInv,
                        Lifecycle!Next \/ UNCHANGED Lifecycle!vars,
                        NEW p \in Posts, reply[p].code # "none"
                 PROVE  reply'[p] = reply[p]
      OBVIOUS
    <2>1. Stage[p] = "ended"
      BY DEF CleanInv
    <2>2. ASSUME NEW q \in Posts, NEW code, NEW data,
                 NEW from \in {"new", "checking", "pending"},
                 Lifecycle!End(q, from, code, data)
          PROVE  reply'[p] = reply[p]
      BY <2>1, <2>2, EndMoves
    <2>3. CASE Lifecycle!BreakOff
      BY <2>1, <2>3 DEF Lifecycle!BreakOff
    <2>4. CASE UNCHANGED reply
      BY <2>4
    <2> QED
      BY <2>2, <2>3, <2>4
         DEF Lifecycle!Next, Lifecycle!vars, Lifecycle!Advance, Lifecycle!Refuse,
             Lifecycle!AskTerminal, Lifecycle!Report, Lifecycle!EndWithout,
             Lifecycle!Unreachable, Lifecycle!Answer
  <1>2. Init => AuthInv
    BY DEF Init, StoreInit, NoReply, AuthInv, AnswerIsAuthentic
  <1>3. BaseInv /\ AuthInv /\ LifecycleTypes /\ CleanInv /\ [Next]_vars
            => [Final]_(Lifecycle!vars)
    BY <1>1, LifecycleStep
  <1> QED
    BY <1>2, <1>3, BaseHolds, AuthStep, CleanHolds, PTL
       DEF Spec, OneResponse, Lifecycle!ResponseIsFinal
=============================================================================
