------------------------ MODULE ServerProcessProofs ------------------------
(***************************************************************************)
(* Proofs about ServerProcess, for any requests, periods, outages and      *)
(* width of the words.                                                     *)
(***************************************************************************)
EXTENDS ServerProcess, TLAPS

-----------------------------------------------------------------------------
(***************************************************************************)
(* Durations.                                                              *)
(***************************************************************************)

LEMMA SmallRemainder ==
    ASSUME NEW a \in Int, NEW b \in Nat \ {0}
    PROVE  /\ a % b \in 0 .. b - 1
           /\ 0 <= a /\ a < b => a % b = a
           /\ b <= a /\ a < 2 * b => a % b = a - b
  OBVIOUS

LEMMA RoundUp ==
    ASSUME NEW n \in Nat, NEW b \in Nat \ {0}
    PROVE  (n * b + b - 1) \div b = n
  OBVIOUS

LEMMA PositiveQuotient ==
    ASSUME NEW n \in Nat, NEW b \in Nat \ {0}
    PROVE  n \div b \in Nat
  OBVIOUS

LEMMA QuotientTimes ==
    ASSUME NEW n \in Nat \ {0}, NEW h \in Nat \ {0}, NEW b \in Nat \ {0},
           n <= (h - 1) \div b
    PROVE  n * b \in Nat \ {0} /\ n * b < h
  <1>1. ((h - 1) \div b) * b <= h - 1
    OBVIOUS
  <1>2. n * b <= ((h - 1) \div b) * b
    OBVIOUS
  <1> QED
    BY <1>1, <1>2

LEMMA CancelFactor ==
    ASSUME NEW a \in Nat, NEW c \in Nat, NEW b \in Nat \ {0}, a * b >= c * b
    PROVE  a >= c
  OBVIOUS

\* What fits is itself, and what is less than a word too large is negative.
LEMMA WrapFacts ==
    ASSUME NEW x \in Int
    PROVE  /\ Wrap(x) \in Int
           /\ 0 <= x /\ x < HalfWord => Wrap(x) = x
           /\ HalfWord <= x /\ x < 2 * HalfWord => Wrap(x) < 0
  <1>1. HalfWord \in Nat \ {0}
    BY DurationAssumption
  <1>2. x + HalfWord \in Int /\ 2 * HalfWord \in Nat \ {0}
    BY <1>1
  <1> QED
    BY <1>1, <1>2, SmallRemainder DEF Wrap

-----------------------------------------------------------------------------
(***************************************************************************)
(* Types.                                                                  *)
(***************************************************************************)

Request == [stage : Stages, left : Nat, tries : 0 .. PublishRetries,
            age : Nat, slow : Nat, live : BOOLEAN, seen : BOOLEAN]

LEMMA InitTypes == Init => TypeOK
  <1> SUFFICES ASSUME Init PROVE TypeOK
    OBVIOUS
  <1>1. timeout \in Int
    BY ProcessAssumption, DurationAssumption, WrapFacts DEF Init, Nanos
  <1>2. req \in [Requests -> Request]
    BY ProcessAssumption DEF Init, Unborn, Request, Stages
  <1> QED
    BY <1>1, <1>2, ProcessAssumption DEF Init, TypeOK, Request

LEMMA PatienceType == timeout \in Int => Patience \in Nat \ {0}
  <1> SUFFICES ASSUME timeout \in Int PROVE Patience \in Nat \ {0}
    OBVIOUS
  <1> DEFINE wait == IF timeout <= 0 THEN Nanos(DefaultTimeout) ELSE timeout
  <1>1. DefaultTimeout * PerSecond \in Nat \ {0}
        /\ DefaultTimeout * PerSecond < HalfWord
    <2>1. /\ DefaultTimeout \in Nat \ {0} /\ Buffer \in Nat \ {0}
          /\ PerSecond \in Nat \ {0} /\ HalfWord \in Nat
          /\ (DefaultTimeout + Buffer) * PerSecond < HalfWord
      BY ProcessAssumption, DurationAssumption
    <2>2. (DefaultTimeout + Buffer) * PerSecond
            = DefaultTimeout * PerSecond + Buffer * PerSecond
      BY <2>1
    <2>3. DefaultTimeout * PerSecond \in Nat \ {0} /\ Buffer * PerSecond \in Nat
      BY <2>1
    <2> QED
      BY <2>1, <2>2, <2>3
  <1>2. wait \in Nat \ {0}
    BY <1>1, WrapFacts DEF Nanos
  <1> HIDE DEF wait
  <1>3. PerSecond \in Nat \ {0}
    BY DurationAssumption
  <1>4. (wait + PerSecond - 1) \div PerSecond \in Nat \ {0}
    BY <1>2, <1>3
  <1> QED
    BY <1>4 DEF Patience, wait

LEMMA NoTries == 0 \in 0 .. PublishRetries
  BY ProcessAssumption

LEMMA EnterTypes ==
    ASSUME TypeOK, NEW r \in Requests, NEW s \in Stages, NEW l \in Nat,
           Enter(r, s, l)
    PROVE  TypeOK'
  <1>1. req' \in [Requests -> Request]
    <2>1. req \in [Requests -> Request]
      BY DEF TypeOK, Request
    <2>2. [req[r] EXCEPT !.stage = s, !.left = l, !.tries = 0] \in Request
      BY <2>1, NoTries DEF Request
    <2> QED
      BY <2>1, <2>2 DEF Enter
  <1> QED
    BY <1>1 DEF TypeOK, Enter, startVars, Request

LEMMA DeathTypes ==
    ASSUME TypeOK, NEW why \in {"fatal", "no redis", "killed", "graceful", "forced", "none"},
           Die(why)
    PROVE  /\ main' = "exited" /\ how' = why /\ open' = {}
           /\ req' \in [Requests -> Request]
  <1> DEFINE Cut(q) == [q EXCEPT !.stage = "cut", !.left = 0, !.tries = 0]
  <1>1. \A q \in Request : Cut(q) \in Request
    BY NoTries DEF Request, Stages
  <1>2. req \in [Requests -> Request]
    BY DEF TypeOK, Request
  <1>3. req' = [r \in Requests |-> IF r \notin InServer THEN req[r] ELSE Cut(req[r])]
    BY DEF Die
  <1> HIDE DEF Cut
  <1> QED
    BY <1>1, <1>2, <1>3 DEF Die

LEMMA StepTypes == TypeOK /\ [Next]_vars => TypeOK'
  <1> SUFFICES ASSUME TypeOK, [Next]_vars PROVE TypeOK'
    OBVIOUS
  <1> USE DEF Then
  <1>0. /\ pings \in 0 .. 5
        /\ slept \in Nat
        /\ waited \in 0 .. Grace
        /\ Grace \in Nat /\ StepLimit \in Nat /\ PublishRetries \in Nat
        /\ req \in [Requests -> Request]
    BY ProcessAssumption DEF TypeOK, Request
  <1>1. CASE LoadConfig
    <2>1. timeout' \in Int
      <3>1. text # Unset => text \in Int
        <4>1. text \in Texts /\ text # Garbage
          BY <1>1 DEF LoadConfig, TypeOK
        <4>2. Texts \ {Unset, Garbage} \subseteq Int
          BY ProcessAssumption
        <4> QED
          BY <4>1, <4>2
      <3>2. text # Unset => text * PerSecond \in Int
        BY <3>1, DurationAssumption
      <3> QED
        BY <1>1, <3>2, WrapFacts DEF LoadConfig, TypeOK, Nanos
    <2> QED
      BY <1>1, <2>1 DEF LoadConfig, TypeOK
  <1>2. CASE LoadConfigFails \/ AblyFails \/ ServeFails \/ SignalKills \/ Exit
    BY <1>2, DeathTypes DEF LoadConfigFails, AblyFails, ServeFails, SignalKills,
       Exit, TypeOK, startVars, Request
  <1>3. CASE Connect \/ InitAbly \/ Subscribe \/ Listen \/ Notify
    BY <1>3 DEF Connect, InitAbly, Subscribe, Listen, Notify, TypeOK, startVars
  <1>4. CASE Shutdown \/ Drained \/ DrainExpires \/ CloseAbly \/ CloseRedis
    BY <1>4 DEF Shutdown, Drained, DrainExpires, CloseAbly, CloseRedis, TypeOK,
       startVars
  <1>5. CASE PingFails
    <2>1. pings \in 0 .. 3
      <3>1. pings < 4
        BY <1>5 DEF PingFails
      <3> QED
        BY <1>0, <3>1
    <2>2. Backoff[pings + 1] \in Nat
      BY <2>1 DEF Backoff
    <2>3. pings' = pings + 1 /\ slept' = slept + Backoff[pings + 1]
      BY <1>5 DEF PingFails
    <2>4. pings' \in 0 .. 5 /\ slept' \in Nat
      BY <1>0, <2>1, <2>2, <2>3
    <2> QED
      BY <1>5, <2>4 DEF PingFails, TypeOK
  <1>6. CASE GiveUp
    <2>1. pings' \in 0 .. 5
      <3>1. pings = 4 /\ pings' = pings + 1
        BY <1>6 DEF GiveUp
      <3> QED
        BY <3>1
    <2>2. Die("no redis")
      BY <1>6 DEF GiveUp
    <2> QED
      BY <1>6, <2>1, <2>2, DeathTypes DEF GiveUp, TypeOK, Request
  <1>7. ASSUME NEW r \in Requests,
               ClientStep(r) \/ RequestStep(r)
        PROVE  TypeOK'
    <2>1. StepLimit \in Nat /\ Patience \in Nat
      BY ProcessAssumption, PatienceType DEF TypeOK
    <2>2. CASE Dial(r) \/ Accept(r) \/ Decided(r) \/ TimedOut(r) \/ TimeoutDone(r)
      BY <2>1, <2>2, EnterTypes DEF Dial, Accept, Decided, TimedOut, TimeoutDone,
         Stages, Active
    <2>3. CASE Prepared(r) \/ Published(r)
      BY <2>1, <2>3, EnterTypes DEF Prepared, Published, Stages, Active
    <2>4. CASE PublishFails(r)
      <3>1. CASE req[r].tries = PublishRetries
        BY <2>1, <2>4, <3>1, EnterTypes DEF PublishFails, Stages, Active
      <3>2. CASE req[r].tries # PublishRetries
        <4>1. req' \in [Requests -> Request]
          <5>1. req[r].tries + 1 \in 0 .. PublishRetries
            BY <1>0, <3>2 DEF Request
          <5> DEFINE next == [req[r] EXCEPT !.tries = @ + 1, !.left = StepLimit]
          <5>2. next \in Request
            BY <1>0, <5>1 DEF Request
          <5>3. req' = [req EXCEPT ![r] = next]
            BY <2>4, <3>2 DEF PublishFails
          <5> HIDE DEF next
          <5> QED
            BY <1>0, <5>2, <5>3
        <4> QED
          BY <2>4, <3>2, <4>1 DEF PublishFails, TypeOK, startVars, Request
      <3> QED
        BY <3>1, <3>2
    <2>5. ASSUME NEW next \in Request, req' = [req EXCEPT ![r] = next],
                 UNCHANGED <<main, how, open, startVars, waited>>
          PROVE  TypeOK'
      <3>1. req' \in [Requests -> Request]
        BY <1>0, <2>5
      <3> QED
        BY <2>5, <3>1 DEF TypeOK, startVars, Request
    <2>6. CASE SlipIn(r)
      <3> DEFINE next == [req[r] EXCEPT !.stage = "prepare", !.left = StepLimit,
                                        !.seen = FALSE]
      <3>1. next \in Request
        BY <1>0, <2>1 DEF Request, Stages, Active
      <3>2. req' = [req EXCEPT ![r] = next]
        BY <2>6 DEF SlipIn
      <3> HIDE DEF next
      <3> QED
        BY <2>5, <2>6, <3>1, <3>2 DEF SlipIn
    <2>7. CASE Cancel(r)
      <3> DEFINE next == [req[r] EXCEPT !.live = FALSE]
      <3>1. next \in Request
        BY <1>0 DEF Request
      <3>2. req' = [req EXCEPT ![r] = next]
        BY <2>7 DEF Cancel
      <3> HIDE DEF next
      <3> QED
        BY <2>5, <2>7, <3>1, <3>2 DEF Cancel
    <2>8. CASE Respond(r)
      <3>1. CASE WriteTimeout > 0 /\ req[r].age * PerSecond >= WriteTimeout
        BY <2>8, <3>1, EnterTypes DEF Respond, Stages
      <3>2. CASE ~(WriteTimeout > 0 /\ req[r].age * PerSecond >= WriteTimeout)
        <4> DEFINE next == [Unborn EXCEPT !.stage = "sent"]
        <4>2. next \in Request
          BY NoTries DEF Unborn, Request, Stages
        <4>3. req' = [req EXCEPT ![r] = next]
          BY <2>8, <3>2 DEF Respond
        <4> HIDE DEF next
        <4> QED
          BY <2>5, <2>8, <3>2, <4>2, <4>3 DEF Respond
      <3> QED
        BY <3>1, <3>2
    <2> QED
      BY <1>7, <2>2, <2>3, <2>4, <2>6, <2>7, <2>8 DEF RequestStep, ClientStep
  <1>8. CASE Tick
    <2>1. waited' \in 0 .. Grace
      <3>1. waited < Grace /\ waited' = IF main = "drain" THEN waited + 1 ELSE waited
        BY <1>8 DEF Tick
      <3> QED
        BY <1>0, <3>1
    <2>2. req' \in [Requests -> Request]
      <3>1. ASSUME NEW r \in Requests PROVE req'[r] \in Request
        <4>1. req[r] \in Request
          BY <1>0
        <4>2. r \in InServer => req[r].left > 0
          <5>1. r \in InServer => ~Due(r)
            BY <1>8 DEF Tick
          <5> QED
            BY <4>1, <5>1 DEF Due, Request
        <4>3. r \in InServer =>
                [req[r] EXCEPT !.left = @ - 1, !.age = @ + 1,
                    !.slow = IF req[r].stage = "wait" THEN @ ELSE @ + 1] \in Request
          <5>1. /\ r \in InServer => req[r].left - 1 \in Nat
                /\ req[r].age + 1 \in Nat
                /\ (IF req[r].stage = "wait" THEN req[r].slow
                                              ELSE req[r].slow + 1) \in Nat
            BY <4>1, <4>2 DEF Request
          <5> QED
            BY <4>1, <5>1 DEF Request
        <4> QED
          BY <1>8, <4>1, <4>3 DEF Tick
      <3> QED
        BY <1>8, <3>1 DEF Tick
    <2> QED
      BY <1>8, <2>1, <2>2 DEF Tick, TypeOK, startVars, Request
  <1>9. CASE UNCHANGED vars
    BY <1>9 DEF vars, startVars, TypeOK
  <1> QED
    BY <1>1, <1>2, <1>3, <1>4, <1>5, <1>6, <1>7, <1>8, <1>9 DEF Next, MainStep

\* Every variable keeps its type; in particular Shutdown never waits longer
\* than its Grace and no publish is tried more often than PublishRetries says.
THEOREM ProcessTypes == Spec => []TypeOK
  <1> QED
    BY InitTypes, StepTypes, PTL DEF Spec

-----------------------------------------------------------------------------
(***************************************************************************)
(* What a step does to the requests.                                       *)
(***************************************************************************)

\* A step of a request changes its stage and nothing else that is counted.
RequestMove(r) ==
    /\ UNCHANGED <<main, how, open, text, timeout, outage, pings, slept, waited>>
    /\ \A q \in Requests : q # r => req'[q] = req[q]
    /\ req'[r].stage \in Stages \ {"cut", "new"}
    /\ req'[r].stage # "sent" => req'[r].age = req[r].age /\ req'[r].slow = req[r].slow
    /\ \/ /\ req[r].stage \in Active
          /\ req'[r].stage \in Active /\ req'[r].seen => req[r].seen
       \/ /\ req[r].stage = "connected" /\ req'[r].stage = "prepare"
          /\ \/ main \in {"serve", "ready"}
             \/ main = "drain" /\ waited <= HeaderGrace
             \/ ~req'[r].seen
       \/ "http" \in open /\ req[r].stage = "new" /\ req'[r].stage = "connected"
    /\ req'[r].stage = "connected" => req[r].stage = "new"
    /\ req'[r].stage = "prepare" => req[r].stage = "connected"
    /\ req'[r].stage = "publish" => req[r].stage \in {"prepare", "publish"}
    /\ req'[r].stage = "wait" =>
          \/ /\ req[r].stage \in {"prepare", "publish"} /\ req'[r].left = Patience
          \/ /\ req[r].stage = "wait" /\ req'[r].left = req[r].left
    /\ req'[r].stage = "timeout" =>
          /\ req[r].stage = "wait" /\ Due(r) /\ (req'[r].live <=> req[r].live)
    /\ req'[r].stage = "respond" =>
          req[r].stage \in {"prepare", "publish", "wait", "timeout"}
    /\ req'[r].stage = "lost" =>
          /\ req[r].stage = "respond"
          /\ WriteTimeout > 0 /\ req[r].age * PerSecond >= WriteTimeout

LEMMA SetMoves ==
    ASSUME TypeOK, NEW r \in Requests, NEW next, req' = [req EXCEPT ![r] = next]
    PROVE  /\ \A q \in Requests : q # r => req'[q] = req[q]
           /\ req'[r] = next
           /\ req[r] \in Request
  BY DEF TypeOK, Request

LEMMA EnterMoves ==
    ASSUME TypeOK, NEW r \in Requests, NEW s, NEW l, Enter(r, s, l)
    PROVE  /\ UNCHANGED <<main, how, open, text, timeout, outage, pings, slept, waited>>
           /\ \A q \in Requests : q # r => req'[q] = req[q]
           /\ req'[r].age = req[r].age /\ req'[r].slow = req[r].slow
           /\ req'[r].live = req[r].live /\ req'[r].seen = req[r].seen
           /\ req'[r].stage = s /\ req'[r].left = l
  <1> DEFINE next == [req[r] EXCEPT !.stage = s, !.left = l, !.tries = 0]
  <1>1. req' = [req EXCEPT ![r] = next]
    BY DEF Enter
  <1> HIDE DEF next
  <1>2. /\ \A q \in Requests : q # r => req'[q] = req[q]
        /\ req'[r] = next /\ req[r] \in Request
    BY <1>1, SetMoves
  <1>3. /\ next.age = req[r].age /\ next.slow = req[r].slow
        /\ next.live = req[r].live /\ next.seen = req[r].seen
        /\ next.stage = s /\ next.left = l
    BY <1>2 DEF Request, next
  <1> QED
    BY <1>2, <1>3 DEF Enter, startVars

LEMMA RequestMoves ==
    ASSUME TypeOK, NEW r \in Requests, ClientStep(r) \/ RequestStep(r)
    PROVE  RequestMove(r)
  <1> USE DEF Stages, Active
  <1>1. CASE Dial(r)
    BY <1>1, EnterMoves DEF Dial, RequestMove
  <1>2. CASE Accept(r)
    BY <1>2, EnterMoves DEF Accept, RequestMove
  <1>3. CASE SlipIn(r)
    <2> DEFINE next == [req[r] EXCEPT !.stage = "prepare", !.left = StepLimit,
                                      !.seen = FALSE]
    <2>1. req' = [req EXCEPT ![r] = next]
      BY <1>3 DEF SlipIn
    <2> HIDE DEF next
    <2>2. /\ \A q \in Requests : q # r => req'[q] = req[q]
          /\ req'[r] = next /\ req[r] \in Request
      BY <2>1, SetMoves
    <2>3. /\ next.age = req[r].age /\ next.slow = req[r].slow
          /\ next.stage = "prepare" /\ next.seen = FALSE
      BY <2>2 DEF Request, next
    <2> QED
      BY <1>3, <2>2, <2>3 DEF SlipIn, RequestMove, startVars
  <1>4. CASE Cancel(r)
    <2> DEFINE next == [req[r] EXCEPT !.live = FALSE]
    <2>1. req' = [req EXCEPT ![r] = next]
      BY <1>4 DEF Cancel
    <2> HIDE DEF next
    <2>2. /\ \A q \in Requests : q # r => req'[q] = req[q]
          /\ req'[r] = next /\ req[r] \in Request
      BY <2>1, SetMoves
    <2>3. /\ next.age = req[r].age /\ next.slow = req[r].slow
          /\ next.stage = req[r].stage /\ next.seen = req[r].seen
          /\ next.left = req[r].left
      BY <2>2 DEF Request, next
    <2> QED
      BY <1>4, <2>2, <2>3 DEF Cancel, RequestMove, startVars
  <1>5. CASE Decided(r)
    BY <1>5, EnterMoves DEF Decided, RequestMove
  <1>6. CASE Prepared(r)
    BY <1>6, EnterMoves DEF Prepared, RequestMove
  <1>7. CASE Published(r)
    BY <1>7, EnterMoves DEF Published, RequestMove
  <1>8. CASE PublishFails(r)
    <2>1. CASE req[r].tries = PublishRetries
      BY <1>8, <2>1, EnterMoves DEF PublishFails, RequestMove
    <2>2. CASE req[r].tries # PublishRetries
      <3> DEFINE next == [req[r] EXCEPT !.tries = @ + 1, !.left = StepLimit]
      <3>1. req' = [req EXCEPT ![r] = next]
        BY <1>8, <2>2 DEF PublishFails
      <3> HIDE DEF next
      <3>2. /\ \A q \in Requests : q # r => req'[q] = req[q]
            /\ req'[r] = next /\ req[r] \in Request
        BY <3>1, SetMoves
      <3>3. /\ next.age = req[r].age /\ next.slow = req[r].slow
            /\ next.stage = req[r].stage /\ next.seen = req[r].seen
        BY <3>2 DEF Request, next
      <3> QED
        BY <1>8, <2>2, <3>2, <3>3 DEF PublishFails, RequestMove, startVars
    <2> QED
      BY <2>1, <2>2
  <1>9. CASE TimedOut(r)
    BY <1>9, EnterMoves DEF TimedOut, RequestMove
  <1>10. CASE TimeoutDone(r)
    BY <1>10, EnterMoves DEF TimeoutDone, RequestMove
  <1>11. CASE Respond(r)
    <2>1. CASE WriteTimeout > 0 /\ req[r].age * PerSecond >= WriteTimeout
      BY <1>11, <2>1, EnterMoves DEF Respond, RequestMove
    <2>2. CASE ~(WriteTimeout > 0 /\ req[r].age * PerSecond >= WriteTimeout)
      <3> DEFINE next == [Unborn EXCEPT !.stage = "sent"]
      <3>1. req' = [req EXCEPT ![r] = next] /\ next.stage = "sent"
        BY <1>11, <2>2 DEF Respond, Unborn
      <3> HIDE DEF next
      <3>2. /\ \A q \in Requests : q # r => req'[q] = req[q]
            /\ req'[r].stage = "sent"
        BY <3>1, SetMoves
      <3> QED
        BY <1>11, <2>2, <3>2 DEF Respond, RequestMove, startVars
    <2> QED
      BY <2>1, <2>2
  <1> QED
    BY <1>1, <1>2, <1>3, <1>4, <1>5, <1>6, <1>7, <1>8, <1>9, <1>10, <1>11
       DEF RequestStep, ClientStep

\* The end of the process cuts what is in the server and ages nobody.
LEMMA DeathMoves ==
    ASSUME TypeOK, NEW why, Die(why)
    PROVE  /\ main' = "exited" /\ how' = why /\ open' = {}
           /\ InServer' = {}
           /\ \A r \in Requests :
                 /\ req'[r].age = req[r].age /\ req'[r].slow = req[r].slow
                 /\ req'[r].seen = req[r].seen
                 /\ req'[r].stage = IF r \in InServer THEN "cut" ELSE req[r].stage
  <1>1. req \in [Requests -> Request]
    BY DEF TypeOK, Request
  <1>2. \A r \in Requests :
           req'[r] = IF r \notin InServer THEN req[r]
                     ELSE [req[r] EXCEPT !.stage = "cut", !.left = 0, !.tries = 0]
    BY DEF Die
  <1>3. \A r \in Requests :
           /\ req'[r].age = req[r].age /\ req'[r].slow = req[r].slow
           /\ req'[r].seen = req[r].seen
           /\ req'[r].stage = IF r \in InServer THEN "cut" ELSE req[r].stage
    <2> TAKE r \in Requests
    <2>1. req[r] \in Request
      BY <1>1
    <2>2. r \notin InServer => req'[r] = req[r]
      BY <1>2
    <2>3. r \in InServer =>
             req'[r] = [req[r] EXCEPT !.stage = "cut", !.left = 0, !.tries = 0]
      BY <1>2
    <2> QED
      BY <2>1, <2>2, <2>3 DEF Request
  <1>4. InServer' = {}
    BY <1>3 DEF InServer, Active
  <1> QED
    BY <1>3, <1>4 DEF Die

\* Time ages every request in the server, and counts apart what is not its
\* wait.
LEMMA TickMoves ==
    ASSUME TypeOK, Tick
    PROVE  /\ InServer' = InServer /\ Watched' = Watched
           /\ \A r \in Requests :
                 /\ req'[r].stage = req[r].stage
                 /\ req'[r].live = req[r].live /\ req'[r].seen = req[r].seen
           /\ \A r \in Requests \ InServer : req'[r] = req[r]
           /\ \A r \in InServer :
                 /\ req'[r].left = req[r].left - 1
                 /\ req'[r].age = req[r].age + 1
                 /\ req'[r].slow = IF req[r].stage = "wait" THEN req[r].slow
                                                            ELSE req[r].slow + 1
  <1>1. req \in [Requests -> Request]
    BY DEF TypeOK, Request
  <1>2. \A r \in Requests :
           req'[r] = IF r \notin InServer THEN req[r]
                     ELSE [req[r] EXCEPT !.left = @ - 1, !.age = @ + 1,
                              !.slow = IF req[r].stage = "wait" THEN @ ELSE @ + 1]
    BY DEF Tick
  <1>3. \A r \in InServer :
           /\ req'[r].left = req[r].left - 1
           /\ req'[r].age = req[r].age + 1
           /\ req'[r].slow = IF req[r].stage = "wait" THEN req[r].slow
                                                      ELSE req[r].slow + 1
           /\ req'[r].stage = req[r].stage
           /\ req'[r].live = req[r].live /\ req'[r].seen = req[r].seen
    <2> TAKE r \in InServer
    <2>1. r \in Requests /\ req[r] \in Request
      BY <1>1 DEF InServer
    <2>2. req'[r] = [req[r] EXCEPT !.left = @ - 1, !.age = @ + 1,
                        !.slow = IF req[r].stage = "wait" THEN @ ELSE @ + 1]
      BY <1>2, <2>1
    <2> QED
      BY <2>1, <2>2 DEF Request
  <1>4. \A r \in Requests \ InServer : req'[r] = req[r]
    BY <1>2
  <1>5. \A r \in Requests :
           /\ req'[r].stage = req[r].stage
           /\ req'[r].live = req[r].live /\ req'[r].seen = req[r].seen
    BY <1>3, <1>4
  <1>6. InServer' = InServer
    BY <1>5 DEF InServer
  <1> QED
    BY <1>3, <1>4, <1>5, <1>6 DEF InServer, Watched

-----------------------------------------------------------------------------
(***************************************************************************)
(* Connections.                                                            *)
(***************************************************************************)

\* What is open at each statement of main, and who is in the server.
ConnInv ==
    /\ main \in {"config", "redis"} => open = {}
    /\ main \in {"ably", "subscribe"} => open = {"redis"}
    /\ main \in {"serve", "ready", "drain", "close ably"} =>
          {"redis", "answers"} \subseteq open
    /\ main = "close redis" => open \subseteq {"redis"}
    /\ main \in {"exit", "exited"} => open = {}
    /\ "http" \in open => main \in {"serve", "ready"}
    /\ Watched # {} => main \in {"serve", "ready", "drain"} \/ how = "forced"
    /\ how = "none" \/ main \in {"close ably", "close redis", "exit", "exited"}

LEMMA ConnStep == TypeOK /\ ConnInv /\ [Next]_vars => ConnInv'
  <1> SUFFICES ASSUME TypeOK, ConnInv, [Next]_vars PROVE ConnInv'
    OBVIOUS
  <1> USE DEF ConnInv, Then
  <1>0. main \in {"config", "redis", "ably", "subscribe", "serve", "ready",
                  "drain", "close ably", "close redis", "exit", "exited"}
        /\ open \subseteq {"redis", "answers", "http"}
    BY DEF TypeOK
  <1>1. CASE \E why : Die(why)
    BY <1>1, DeathMoves DEF Watched
  <1>2. CASE LoadConfig \/ Connect \/ PingFails \/ InitAbly \/ Subscribe \/ Notify
    BY <1>0, <1>2 DEF LoadConfig, Connect, PingFails, InitAbly, Subscribe, Notify,
       InServer, Watched
  <1>3. CASE Listen \/ Shutdown
    BY <1>0, <1>3 DEF Listen, Shutdown, InServer, Watched
  <1>4. CASE Drained \/ DrainExpires \/ CloseAbly \/ CloseRedis
    BY <1>0, <1>4 DEF Drained, DrainExpires, CloseAbly, CloseRedis, InServer,
       Watched
  <1>5. ASSUME NEW r \in Requests, RequestMove(r)
        PROVE  ConnInv'
    <2>1. Watched' # {} =>
              Watched # {} \/ main \in {"serve", "ready", "drain"}
      BY <1>5 DEF RequestMove, InServer, Watched, Active
    <2> QED
      BY <1>5, <2>1 DEF RequestMove
  <1>6. CASE Tick
    BY <1>6, TickMoves DEF Tick
  <1>7. CASE UNCHANGED vars
    BY <1>7 DEF vars, InServer, Watched
  <1> QED
    BY <1>1, <1>2, <1>3, <1>4, <1>5, <1>6, <1>7, RequestMoves
       DEF Next, MainStep, LoadConfigFails, GiveUp, AblyFails, ServeFails,
           SignalKills, Exit

\* Requests and answers find their connections open, whatever fails at the
\* start and whenever a signal comes; only a forced shutdown takes them away.
THEOREM ConnectionsOutlastRequests == Spec => []RequestsFindConnections
  <1>1. Init => ConnInv
    BY DEF Init, Unborn, ConnInv, InServer, Watched, Active
  <1>2. TypeOK /\ ConnInv => RequestsFindConnections
    BY DEF TypeOK, ConnInv, RequestsFindConnections
  <1> QED
    BY <1>1, <1>2, ConnStep, ProcessTypes, PTL DEF Spec

-----------------------------------------------------------------------------
(***************************************************************************)
(* Shutdown.                                                               *)
(***************************************************************************)

\* Who is watched during Shutdown came at most HeaderGrace after it began.
CutInv ==
    /\ main \in {"config", "redis", "ably", "subscribe", "serve", "ready"} =>
          waited = 0
    /\ main = "drain" => \A r \in Watched : req[r].age + HeaderGrace >= waited
    /\ how = "forced" => \A r \in Watched : req[r].age + HeaderGrace >= Grace
    /\ how = "graceful" => Watched = {}
    /\ \A r \in Requests : req[r].stage = "cut" => main = "exited"
    /\ OnlyOldRequestsAreCut

LEMMA CutStep == TypeOK /\ ConnInv /\ CutInv /\ [Next]_vars => CutInv'
  <1> SUFFICES ASSUME TypeOK, ConnInv, CutInv, [Next]_vars PROVE CutInv'
    OBVIOUS
  <1> USE DEF CutInv, OnlyOldRequestsAreCut, Then
  <1>0. /\ main \in {"config", "redis", "ably", "subscribe", "serve", "ready",
                     "drain", "close ably", "close redis", "exit", "exited"}
        /\ waited \in 0 .. Grace /\ Grace \in Nat /\ HeaderGrace \in Nat
        /\ \A r \in Requests : req[r].age \in Nat
    BY ProcessAssumption DEF TypeOK
  <1>1. ASSUME NEW why, Die(why), main # "exited",
               why \in {"graceful", "forced"} => why = how
        PROVE  CutInv'
    BY <1>0, <1>1, DeathMoves DEF InServer, Watched
  <1>2. CASE LoadConfig \/ Connect \/ PingFails \/ InitAbly \/ Subscribe \/ Notify
             \/ Listen
    BY <1>0, <1>2 DEF LoadConfig, Connect, PingFails, InitAbly, Subscribe, Notify,
       Listen, InServer, Watched, ConnInv
  <1>3. CASE Shutdown
    BY <1>0, <1>3 DEF Shutdown, InServer, Watched, ConnInv
  <1>4. CASE Drained \/ DrainExpires \/ CloseAbly \/ CloseRedis
    BY <1>0, <1>4 DEF Drained, DrainExpires, CloseAbly, CloseRedis, InServer,
       Watched, ConnInv
  <1>5. ASSUME NEW r \in Requests, RequestMove(r)
        PROVE  CutInv'
    <2>1. \A q \in Watched' :
             /\ q \in Requests /\ req'[q].age = req[q].age
             /\ \/ q \in Watched
                \/ main \in {"serve", "ready"}
                \/ main = "drain" /\ waited <= HeaderGrace
      BY <1>5 DEF RequestMove, InServer, Watched, Active
    <2>2. \A q \in Requests : req'[q].stage = "cut" =>
             q # r /\ req'[q] = req[q]
      BY <1>5 DEF RequestMove
    <2>3. main \in {"serve", "ready", "drain"} => how = "none"
      BY DEF ConnInv
    <2>4. UNCHANGED <<main, how, waited>>
      BY <1>5 DEF RequestMove
    <2>5. how = "graceful" => Watched' = {}
      BY <2>1, <2>3
    <2>6. main = "drain" => \A q \in Watched' : req'[q].age + HeaderGrace >= waited
      BY <1>0, <2>1
    <2> QED
      BY <2>1, <2>2, <2>3, <2>4, <2>5, <2>6
  <1>6. CASE Tick
    <2>1. main' = main /\ how' = how /\ main \in {"serve", "ready", "drain"}
          /\ waited' = IF main = "drain" THEN waited + 1 ELSE waited
      BY <1>6 DEF Tick
    <2>2. how = "none"
      BY <2>1 DEF ConnInv
    <2>3. /\ Watched' = Watched
          /\ \A r \in Watched : r \in Requests /\ req'[r].age = req[r].age + 1
          /\ \A r \in Requests : req[r].stage = "cut" => req'[r] = req[r]
          /\ \A r \in Requests : req'[r].stage = req[r].stage
      BY <1>6, TickMoves DEF InServer, Watched, Active
    <2>4. main = "drain" => \A r \in Watched : req'[r].age + HeaderGrace >= waited'
      BY <1>0, <2>1, <2>3
    <2> QED
      BY <2>1, <2>2, <2>3, <2>4
  <1>7. CASE UNCHANGED vars
    BY <1>7 DEF vars, startVars, InServer, Watched
  <1>8. CASE Exit
    BY <1>1, <1>8 DEF Exit
  <1>9. CASE LoadConfigFails \/ GiveUp \/ AblyFails \/ ServeFails \/ SignalKills
    BY <1>1, <1>9 DEF LoadConfigFails, GiveUp, AblyFails, ServeFails, SignalKills
  <1> QED
    BY <1>2, <1>3, <1>4, <1>5, <1>6, <1>7, <1>8, <1>9, RequestMoves
       DEF Next, MainStep

\* A shutdown cuts no request that it watches and that is younger than Grace
\* less HeaderGrace, whatever the paces of the requests, the time-out they
\* wait for and the connections that are open when it begins.
THEOREM OldRequestsCut == Spec => []OnlyOldRequestsAreCut
  <1>1. Init => ConnInv /\ CutInv
    BY DEF Init, Unborn, ConnInv, CutInv, OnlyOldRequestsAreCut, InServer, Watched,
       Active
  <1>2. CutInv => OnlyOldRequestsAreCut
    BY DEF CutInv
  <1> QED
    BY <1>1, <1>2, ConnStep, CutStep, ProcessTypes, PTL DEF Spec

-----------------------------------------------------------------------------
(***************************************************************************)
(* The first connection.                                                   *)
(***************************************************************************)

\* The pauses that go with each number of failed attempts.
Pauses == [p \in 0 .. 4 |-> CASE p = 0 -> 0 [] p = 1 -> 1 [] p = 2 -> 3
                              [] p = 3 -> 7 [] p = 4 -> 15]

LEMMA OnePause ==
    ASSUME NEW p \in 0 .. 4, p < 4
    PROVE  p + 1 \in 0 .. 4 /\ Pauses[p] + Backoff[p + 1] = Pauses[p + 1]
  BY DEF Pauses, Backoff

LEMMA AllPauses == Pauses[0] = 0 /\ Pauses[4] = 15
  BY DEF Pauses

SleepInv ==
    /\ main \in {"config", "redis"} => pings \in 0 .. 4 /\ slept = Pauses[pings]
    /\ main = "config" => pings = 0
    /\ main # "exited" => how # "no redis"
    /\ StartSurvivesOutage

LEMMA SleepStep == TypeOK /\ SleepInv /\ [Next]_vars => SleepInv'
  <1> SUFFICES ASSUME TypeOK, SleepInv, [Next]_vars PROVE SleepInv'
    OBVIOUS
  <1> USE DEF SleepInv, StartSurvivesOutage, Then
  <1>0. outage \in Nat
    BY ProcessAssumption DEF TypeOK
  <1>1. CASE LoadConfig \/ Connect \/ InitAbly \/ Subscribe \/ Notify \/ Listen
             \/ Shutdown \/ Drained \/ DrainExpires \/ CloseAbly \/ CloseRedis
    BY <1>1 DEF LoadConfig, Connect, InitAbly, Subscribe, Notify, Listen, Shutdown,
       Drained, DrainExpires, CloseAbly, CloseRedis, startVars
  <1>2. CASE PingFails
    <2>1. /\ pings' = pings + 1 /\ slept' = slept + Backoff[pings + 1]
          /\ pings < 4 /\ main = "redis" /\ UNCHANGED <<main, how, outage>>
      BY <1>2 DEF PingFails
    <2>2. pings \in 0 .. 4 /\ slept = Pauses[pings]
      BY <2>1
    <2>3. pings' \in 0 .. 4 /\ slept' = Pauses[pings']
      BY <2>1, <2>2, OnePause
    <2> QED
      BY <2>1, <2>3
  <1>3. CASE GiveUp
    <2>1. slept < outage /\ pings = 4 /\ main = "redis" /\ outage' = outage
          /\ main' = "exited"
      BY <1>3 DEF GiveUp, Die
    <2>2. slept = Pauses[pings]
      BY <2>1
    <2>3. slept = 15
      BY <2>1, <2>2, AllPauses
    <2>4. outage' > 15
      BY <2>1, <2>3, <1>0
    <2> QED
      BY <2>1, <2>4
  <1>4. CASE LoadConfigFails \/ AblyFails \/ ServeFails \/ SignalKills \/ Exit
    BY <1>4 DEF LoadConfigFails, AblyFails, ServeFails, SignalKills, Exit, Die,
       startVars
  <1>5. ASSUME NEW r \in Requests, RequestMove(r)
        PROVE  SleepInv'
    BY <1>5 DEF RequestMove
  <1>6. CASE Tick \/ UNCHANGED vars
    BY <1>6 DEF Tick, vars, startVars
  <1> QED
    BY <1>1, <1>2, <1>3, <1>4, <1>5, <1>6, RequestMoves DEF Next, MainStep

\* The start only gives up on a Redis that was away for more than 15 s.
THEOREM StartSurvives == Spec => []StartSurvivesOutage
  <1>1. Init => SleepInv
    <2>1. ASSUME Init PROVE pings \in 0 .. 4 /\ slept = Pauses[pings]
      BY <2>1, AllPauses DEF Init
    <2> QED
      BY <2>1 DEF Init, SleepInv, StartSurvivesOutage
  <1>2. SleepInv => StartSurvivesOutage
    BY DEF SleepInv
  <1> QED
    BY <1>1, <1>2, SleepStep, ProcessTypes, PTL DEF Spec

-----------------------------------------------------------------------------
(***************************************************************************)
(* Waiting and answering in time.                                          *)
(***************************************************************************)

\* main has the configured time-out in hand.
Tuned == Seconds \in Nat \ {0} /\ timeout = Nanos(Seconds)

\* Where the time of a request has gone: the wait is never longer than
\* Patience, and all else is counted as slow.
Paced(r) ==
    /\ req[r].stage \in {"new", "connected", "prepare", "publish"} =>
          req[r].age = req[r].slow
    /\ req[r].stage = "wait" => req[r].age + req[r].left = req[r].slow + Patience
    /\ req[r].stage = "timeout" =>
          /\ req[r].age <= req[r].slow + Patience
          /\ req[r].live => req[r].age = req[r].slow + Patience
    /\ req[r].stage = "respond" => req[r].age <= req[r].slow + Patience
    /\ req[r].stage = "lost" =>
          /\ req[r].age <= req[r].slow + Patience
          /\ WriteTimeout > 0 /\ req[r].age * PerSecond >= WriteTimeout

AllNew == \A r \in Requests : req[r].stage = "new"

PaceInv ==
    /\ main = "config" => AllNew /\ timeout = Nanos(DefaultTimeout)
    /\ Tuned \/ (AllNew /\ main \in {"config", "exited"})
    /\ \A r \in Requests : Paced(r)

LEMMA Shift ==
    ASSUME NEW a \in Nat, NEW l \in Nat
    PROVE  (a + 1) + (l - 1) = a + l
  OBVIOUS

LEMMA SamePeriods ==
    ASSUME UNCHANGED <<text, timeout>>
    PROVE  /\ (Tuned' <=> Tuned) /\ Patience' = Patience
           /\ WriteTimeout' = WriteTimeout
  BY DEF Tuned, Seconds, Patience, WriteTimeout

LEMMA PaceStep == TypeOK /\ ConnInv /\ PaceInv /\ [Next]_vars => PaceInv'
  <1> SUFFICES ASSUME TypeOK, ConnInv, PaceInv, [Next]_vars PROVE PaceInv'
    OBVIOUS
  <1>0. /\ main = "config" => AllNew /\ timeout = Nanos(DefaultTimeout)
        /\ Tuned \/ (AllNew /\ main \in {"config", "exited"})
        /\ \A r \in Requests : Paced(r)
    BY DEF PaceInv
  <1>1. ASSUME NEW why, Die(why), UNCHANGED <<text, timeout>>
        PROVE  PaceInv'
    <2>1. main' = "exited"
      BY <1>1, DeathMoves
    <2>2. AllNew => AllNew'
      BY <1>1, DeathMoves DEF AllNew, InServer, Active
    <2>3. \A r \in Requests : Paced(r)'
      <3> TAKE r \in Requests
      <3>1. /\ req'[r].age = req[r].age /\ req'[r].slow = req[r].slow
            /\ \/ req'[r].stage = "cut"
               \/ r \notin InServer /\ req'[r].stage = req[r].stage
        <4>1. /\ req'[r].age = req[r].age /\ req'[r].slow = req[r].slow
              /\ req'[r].stage = IF r \in InServer THEN "cut" ELSE req[r].stage
          BY <1>1, DeathMoves
        <4> QED
          BY <4>1
      <3>2. Patience' = Patience /\ WriteTimeout' = WriteTimeout
        BY <1>1, SamePeriods
      <3>3. CASE req'[r].stage = "cut"
        BY <3>3 DEF Paced
      <3>4. CASE r \notin InServer /\ req'[r].stage = req[r].stage
        <4>1. Paced(r) /\ req[r].stage \notin {"wait", "timeout"}
          BY <1>0, <3>4 DEF InServer, Active
        <4> QED
          BY <3>1, <3>2, <3>4, <4>1 DEF Paced
      <3> QED
        BY <3>1, <3>3, <3>4
    <2> QED
      BY <1>0, <1>1, <2>1, <2>2, <2>3, SamePeriods DEF PaceInv
  <1>2. CASE LoadConfig
    <2>1. /\ main = "config" /\ main' = "redis" /\ req' = req /\ text' = text
          /\ text # Garbage /\ (text # Unset => text > 0)
          /\ timeout' = IF text = Unset THEN timeout ELSE Nanos(text)
      BY <1>2 DEF LoadConfig, Then
    <2>2. AllNew /\ timeout = Nanos(DefaultTimeout)
      BY <1>0, <2>1
    <2>3. timeout' = Nanos(Seconds) /\ Seconds' = Seconds
      BY <2>1, <2>2 DEF Seconds
    <2>4. Seconds \in Nat \ {0}
      <3>1. text # Unset => text \in Int
        BY <2>1, ProcessAssumption DEF TypeOK
      <3>2. text # Unset => text \in Nat \ {0}
        BY <2>1, <3>1
      <3> QED
        BY <3>2, ProcessAssumption DEF Seconds
    <2>5. Tuned'
      BY <2>3, <2>4 DEF Tuned
    <2>6. \A r \in Requests : Paced(r)'
      BY <1>0, <2>1, <2>2 DEF AllNew, Paced
    <2> QED
      <3>1. main' # "config"
        BY <2>1
      <3> QED
        BY <2>5, <2>6, <3>1 DEF PaceInv
  <1>3. ASSUME UNCHANGED <<text, timeout, req>>, main # "config" /\ main # "exited",
               main' # "config"
        PROVE  PaceInv'
    <2>1. \A r \in Requests : Paced(r)'
      BY <1>0, <1>3, SamePeriods DEF Paced
    <2> QED
      BY <1>0, <1>3, <2>1, SamePeriods DEF PaceInv
  <1>4. CASE Connect \/ PingFails \/ InitAbly \/ Subscribe \/ Notify \/ Listen
             \/ Shutdown \/ Drained \/ DrainExpires \/ CloseAbly \/ CloseRedis
    BY <1>3, <1>4 DEF Connect, PingFails, InitAbly, Subscribe, Notify, Listen,
       Shutdown, Drained, DrainExpires, CloseAbly, CloseRedis, Then, startVars
  <1>5. ASSUME NEW r \in Requests, RequestMove(r)
        PROVE  PaceInv'
    <2>1. UNCHANGED <<main, text, timeout>>
      BY <1>5 DEF RequestMove
    <2>2. Tuned /\ main # "config"
      <3>1. req[r].stage \in Active \union {"connected"} \/ "http" \in open
        BY <1>5 DEF RequestMove
      <3>2. AllNew => req[r].stage \notin Active \union {"connected"}
        BY DEF AllNew, Active
      <3>3. main \in {"config", "exited"} => "http" \notin open
        BY DEF ConnInv
      <3> QED
        BY <1>0, <3>1, <3>2, <3>3
    <2>3. Paced(r)'
      <3>1. /\ req[r].age \in Nat /\ req[r].slow \in Nat /\ req[r].left \in Nat
            /\ Patience \in Nat
        BY PatienceType DEF TypeOK
      <3>0. CASE req'[r].stage = "sent"
        BY <3>0 DEF Paced
      <3> SUFFICES ASSUME req'[r].stage # "sent" PROVE Paced(r)'
        BY <3>0
      <3>2. Paced(r) /\ req'[r].age = req[r].age /\ req'[r].slow = req[r].slow
        BY <1>0, <1>5 DEF RequestMove
      <3>3. Patience' = Patience /\ WriteTimeout' = WriteTimeout
        BY <2>1, SamePeriods
      <3>4. req'[r].stage # "new"
        BY <1>5 DEF RequestMove
      <3>5. CASE req'[r].stage \in {"connected", "prepare", "publish"}
        <4>1. req[r].stage \in {"new", "connected", "prepare", "publish"}
          BY <1>5, <3>5 DEF RequestMove, Active
        <4> QED
          BY <3>2, <3>5, <4>1 DEF Paced
      <3>6. CASE req'[r].stage = "wait"
        <4>1. \/ req[r].stage \in {"prepare", "publish"} /\ req'[r].left = Patience
              \/ req[r].stage = "wait" /\ req'[r].left = req[r].left
          BY <1>5, <3>6 DEF RequestMove
        <4>2. \/ req[r].age = req[r].slow /\ req'[r].left = Patience
              \/ /\ req[r].age + req[r].left = req[r].slow + Patience
                 /\ req'[r].left = req[r].left
          BY <3>2, <4>1 DEF Paced
        <4>3. req'[r].age + req'[r].left = req'[r].slow + Patience
          BY <3>1, <3>2, <4>2
        <4> QED
          BY <3>3, <3>6, <4>3 DEF Paced
      <3>7. CASE req'[r].stage = "timeout"
        <4>1. /\ req[r].stage = "wait"
              /\ req[r].left = 0 \/ ~req[r].live
              /\ req'[r].live <=> req[r].live
          BY <1>5, <3>7 DEF RequestMove, Due
        <4>2. req[r].age + req[r].left = req[r].slow + Patience
          BY <3>2, <4>1 DEF Paced
        <4>3. /\ req'[r].age <= req'[r].slow + Patience
              /\ req[r].left = 0 => req'[r].age = req'[r].slow + Patience
          BY <3>1, <3>2, <4>2
        <4> QED
          BY <3>3, <3>7, <4>1, <4>3 DEF Paced
      <3>8. CASE req'[r].stage = "respond"
        <4>1. req[r].stage \in {"prepare", "publish", "wait", "timeout"}
          BY <1>5, <3>8 DEF RequestMove
        <4>2. \/ req[r].age = req[r].slow
              \/ req[r].age + req[r].left = req[r].slow + Patience
              \/ req[r].age <= req[r].slow + Patience
          BY <3>2, <4>1 DEF Paced
        <4>3. req'[r].age <= req'[r].slow + Patience
          BY <3>1, <3>2, <4>2
        <4> QED
          BY <3>3, <3>8, <4>3 DEF Paced
      <3>9. CASE req'[r].stage = "lost"
        <4>1. /\ req[r].stage = "respond"
              /\ WriteTimeout > 0 /\ req[r].age * PerSecond >= WriteTimeout
          BY <1>5, <3>9 DEF RequestMove
        <4>2. req[r].age <= req[r].slow + Patience
          BY <3>2, <4>1 DEF Paced
        <4> QED
          BY <3>2, <3>3, <3>9, <4>1, <4>2 DEF Paced
      <3> QED
        BY <3>4, <3>5, <3>6, <3>7, <3>8, <3>9 DEF Paced
    <2>4. \A q \in Requests : q # r => Paced(q)'
      BY <1>0, <1>5, <2>1, SamePeriods DEF RequestMove, Paced
    <2> QED
      BY <2>1, <2>2, <2>3, <2>4, SamePeriods DEF PaceInv
  <1>6. CASE Tick
    <2>1. UNCHANGED <<main, text, timeout>> /\ main \in {"serve", "ready", "drain"}
      BY <1>6 DEF Tick, startVars
    <2>2. ASSUME NEW r \in Requests PROVE Paced(r)'
      <3>1. /\ req[r].age \in Nat /\ req[r].slow \in Nat /\ req[r].left \in Nat
            /\ Patience \in Nat /\ Patience' = Patience /\ WriteTimeout' = WriteTimeout
        BY <2>1, PatienceType, SamePeriods DEF TypeOK
      <3>2. /\ Paced(r) /\ req'[r].stage = req[r].stage
            /\ req'[r].live = req[r].live
        BY <1>0, <1>6, TickMoves
      <3>3. CASE r \notin InServer
        <4>1. req'[r] = req[r]
          BY <1>6, <3>3, TickMoves
        <4> QED
          BY <3>1, <3>2, <4>1 DEF Paced
      <3>4. CASE r \in InServer /\ req[r].stage = "wait"
        <4>1. /\ req'[r].left = req[r].left - 1 /\ req'[r].age = req[r].age + 1
              /\ req'[r].slow = req[r].slow
          BY <1>6, <3>4, TickMoves
        <4>2. req[r].age + req[r].left = req[r].slow + Patience
          BY <3>2, <3>4 DEF Paced
        <4>3. req'[r].age + req'[r].left = req'[r].slow + Patience
          BY <3>1, <4>1, <4>2, Shift
        <4> QED
          BY <3>1, <3>2, <3>4, <4>3 DEF Paced
      <3>5. CASE r \in InServer /\ req[r].stage # "wait"
        <4>1. req'[r].age = req[r].age + 1 /\ req'[r].slow = req[r].slow + 1
          BY <1>6, <3>5, TickMoves
        <4>2. req[r].stage # "lost" /\ req[r].stage # "wait"
          BY <3>5 DEF InServer, Active
        <4>3. req[r].age = req[r].slow => req'[r].age = req'[r].slow
          BY <3>1, <4>1
        <4>4. req[r].age = req[r].slow + Patience =>
                  req'[r].age = req'[r].slow + Patience
          BY <3>1, <4>1
        <4>5. req[r].age <= req[r].slow + Patience =>
                  req'[r].age <= req'[r].slow + Patience
          BY <3>1, <4>1
        <4> QED
          BY <3>1, <3>2, <4>2, <4>3, <4>4, <4>5 DEF Paced
      <3> QED
        BY <3>3, <3>4, <3>5
    <2> QED
      BY <1>0, <2>1, <2>2, SamePeriods DEF PaceInv
  <1>7. CASE UNCHANGED vars
    <2>1. UNCHANGED <<main, text, timeout, req>>
      BY <1>7 DEF vars, startVars
    <2> QED
      BY <1>0, <2>1, SamePeriods DEF PaceInv, Paced, AllNew
  <1>8. CASE LoadConfigFails \/ AblyFails \/ ServeFails \/ SignalKills \/ Exit
             \/ GiveUp
    BY <1>1, <1>8 DEF LoadConfigFails, AblyFails, ServeFails, SignalKills, Exit,
       GiveUp, startVars
  <1> QED
    BY <1>2, <1>4, <1>5, <1>6, <1>7, <1>8, RequestMoves DEF Next, MainStep

\* A time-out that fits is what the handler waits, and with the buffer it is
\* the write deadline, or there is no write deadline.
LEMMA PeriodsThatFit ==
    ASSUME TypeOK, Tuned, Fits
    PROVE  /\ Patience = Seconds
           /\ WriteTimeout > 0 => WriteTimeout = (Seconds + Buffer) * PerSecond
  <1>1. /\ PerSecond \in Nat \ {0} /\ HalfWord \in Nat \ {0}
        /\ Seconds \in Nat \ {0} /\ timeout = Nanos(Seconds)
        /\ Buffer \in Nat \ {0} /\ DefaultTimeout \in Nat \ {0}
        /\ (DefaultTimeout + Buffer) * PerSecond < HalfWord
    BY ProcessAssumption, DurationAssumption DEF Tuned
  <1>2. Seconds * PerSecond \in Nat \ {0} /\ Seconds * PerSecond < HalfWord
    <2>1. Seconds <= (HalfWord - 1) \div PerSecond
      BY DEF Fits, MostSeconds
    <2> QED
      BY <1>1, <2>1, QuotientTimes
  <1>3. timeout = Seconds * PerSecond
    BY <1>1, <1>2, WrapFacts DEF Nanos
  <1>4. Patience = Seconds
    <2>1. ~(timeout <= 0)
      BY <1>2, <1>3
    <2>2. Patience = (Seconds * PerSecond + PerSecond - 1) \div PerSecond
      BY <1>3, <2>1 DEF Patience
    <2> QED
      BY <1>1, <2>2, RoundUp
  <1>5. Buffer * PerSecond \in Nat /\ Buffer * PerSecond < HalfWord
    <2>1. (DefaultTimeout + Buffer) * PerSecond
            = DefaultTimeout * PerSecond + Buffer * PerSecond
      BY <1>1
    <2>2. DefaultTimeout * PerSecond \in Nat /\ Buffer * PerSecond \in Nat
      BY <1>1
    <2> QED
      BY <1>1, <2>1, <2>2
  <1>6. Nanos(Buffer) = Buffer * PerSecond
    BY <1>5, WrapFacts DEF Nanos
  <1>7. WriteTimeout = Wrap(Seconds * PerSecond + Buffer * PerSecond)
    BY <1>3, <1>6 DEF WriteTimeout
  <1>8. WriteTimeout > 0 => WriteTimeout = Seconds * PerSecond + Buffer * PerSecond
    <2> DEFINE sum == Seconds * PerSecond + Buffer * PerSecond
    <2>1. sum \in Nat /\ sum < 2 * HalfWord
      BY <1>1, <1>2, <1>5
    <2> HIDE DEF sum
    <2>2. /\ sum < HalfWord => Wrap(sum) = sum
          /\ HalfWord <= sum => Wrap(sum) < 0
          /\ Wrap(sum) \in Int
      BY <2>1, WrapFacts
    <2>3. Wrap(sum) > 0 => Wrap(sum) = sum
      BY <1>1, <2>1, <2>2
    <2> QED
      BY <1>7, <2>3 DEF sum
  <1>9. (Seconds + Buffer) * PerSecond = Seconds * PerSecond + Buffer * PerSecond
    BY <1>1
  <1> QED
    BY <1>4, <1>8, <1>9

LEMMA PaceProperties ==
    TypeOK /\ PaceInv => WaitsAsConfigured /\ PunctualResponsesArrive
  <1> SUFFICES ASSUME TypeOK, PaceInv, Fits, NEW r \in Requests,
                      req[r].stage \in {"wait", "timeout", "lost"}
               PROVE  /\ req[r].stage \in {"wait", "timeout"} =>
                            req[r].age - req[r].slow <= Seconds
                      /\ req[r].stage = "timeout" /\ req[r].live =>
                            req[r].age - req[r].slow = Seconds
                      /\ req[r].stage = "lost" => req[r].slow >= Buffer
    BY DEF WaitsAsConfigured, PunctualResponsesArrive
  <1>1. /\ req[r].age \in Nat /\ req[r].slow \in Nat /\ req[r].left \in Nat
        /\ PerSecond \in Nat \ {0} /\ Buffer \in Nat
    BY ProcessAssumption, DurationAssumption DEF TypeOK
  <1>2. Tuned /\ Paced(r)
    BY DEF PaceInv, AllNew
  <1>3. /\ Patience = Seconds /\ Seconds \in Nat
        /\ WriteTimeout > 0 => WriteTimeout = (Seconds + Buffer) * PerSecond
    BY <1>2, PeriodsThatFit DEF Tuned
  <1>4. ASSUME req[r].stage \in {"wait", "timeout"}
        PROVE  /\ req[r].age - req[r].slow <= Seconds
               /\ req[r].stage = "timeout" /\ req[r].live =>
                     req[r].age - req[r].slow = Seconds
    <2>1. \/ req[r].stage = "wait" /\ req[r].age + req[r].left = req[r].slow + Seconds
          \/ /\ req[r].age <= req[r].slow + Seconds
             /\ req[r].live => req[r].age = req[r].slow + Seconds
      BY <1>2, <1>3, <1>4 DEF Paced
    <2>2. req[r].age - req[r].slow <= Seconds
      BY <1>1, <1>3, <2>1
    <2>3. req[r].age = req[r].slow + Seconds => req[r].age - req[r].slow = Seconds
      BY <1>1, <1>3
    <2> QED
      BY <2>1, <2>2, <2>3
  <1>5. ASSUME req[r].stage = "lost" PROVE req[r].slow >= Buffer
    <2>1. /\ req[r].age <= req[r].slow + Seconds
          /\ req[r].age * PerSecond >= (Seconds + Buffer) * PerSecond
      BY <1>2, <1>3, <1>5 DEF Paced
    <2>2. req[r].age >= Seconds + Buffer
      BY <1>1, <1>3, <2>1, CancelFactor
    <2> QED
      BY <1>1, <1>3, <2>1, <2>2
  <1> QED
    BY <1>4, <1>5

\* Whatever TIMEOUT_DURATION says, if its nanoseconds fit: a request never
\* waits longer, and is timed out earlier only when its context was cancelled.
THEOREM WaitsWhatIsConfigured == Spec => []WaitsAsConfigured
  <1>1. Init => ConnInv /\ PaceInv
    BY DEF Init, Unborn, ConnInv, InServer, Watched, Active, PaceInv, AllNew, Paced
  <1> QED
    BY <1>1, PaceProperties, ConnStep, PaceStep, ProcessTypes, PTL DEF Spec

\* A response is only lost to the write deadline when something other than
\* the wait took the buffer.
THEOREM PunctualArrive == Spec => []PunctualResponsesArrive
  <1>1. Init => ConnInv /\ PaceInv
    BY DEF Init, Unborn, ConnInv, InServer, Watched, Active, PaceInv, AllNew, Paced
  <1> QED
    BY <1>1, PaceProperties, ConnStep, PaceStep, ProcessTypes, PTL DEF Spec
=============================================================================
