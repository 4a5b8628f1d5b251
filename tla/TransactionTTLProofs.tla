------------------------ MODULE TransactionTTLProofs ------------------------
(***************************************************************************)
(* Proofs about TransactionTTL, for any durations, times to live and width *)
(* of the words.                                                           *)
(***************************************************************************)
EXTENDS TransactionTTL, TLAPS

-----------------------------------------------------------------------------
(***************************************************************************)
(* What EXPIRE is sent.                                                    *)
(***************************************************************************)

LEMMA RemainderRange ==
    ASSUME NEW a \in Int, NEW b \in Nat \ {0}
    PROVE  /\ a % b \in 0 .. b - 1
           /\ 0 <= a /\ a < b => a % b = a
  OBVIOUS

LEMMA WrapRange ==
    ASSUME NEW x \in Int
    PROVE  /\ Wrap(x) \in -HalfWord .. HalfWord - 1
           /\ 0 <= x /\ x < HalfWord => Wrap(x) = x
  <1>1. HalfWord \in Nat \ {0}
    BY DurationAssumption
  <1>2. x + HalfWord \in Int /\ 2 * HalfWord \in Nat \ {0}
    BY <1>1
  <1>3. (x + HalfWord) % (2 * HalfWord) \in 0 .. 2 * HalfWord - 1
    BY <1>2, RemainderRange
  <1>4. ASSUME 0 <= x, x < HalfWord
        PROVE  (x + HalfWord) % (2 * HalfWord) = x + HalfWord
    <2>1. 0 <= x + HalfWord /\ x + HalfWord < 2 * HalfWord
      BY <1>1, <1>4
    <2> QED
      BY <1>2, <2>1, RemainderRange
  <1> QED
    BY <1>1, <1>3, <1>4 DEF Wrap

LEMMA Quotient ==
    ASSUME NEW a \in Int, NEW c \in Int, NEW b \in Nat \ {0}, a <= c
    PROVE  /\ a \div b \in Int
           /\ a \div b <= c \div b
           /\ a >= 0 => a \div b >= 0
           /\ a >= b => a \div b >= 1
  OBVIOUS

LEMMA Exact ==
    ASSUME NEW n \in Nat \ {0}, NEW b \in Nat \ {0}
    PROVE  (n * b) \div b = n /\ n * b >= b
  OBVIOUS

LEMMA Fits ==
    ASSUME NEW n \in Nat \ {0}, NEW h \in Nat \ {0}, NEW b \in Nat \ {0},
           n <= (h - 1) \div b
    PROVE  n * b \in Nat \ {0} /\ n * b < h
  <1>1. ((h - 1) \div b) * b <= h - 1
    OBVIOUS
  <1>2. n * b <= ((h - 1) \div b) * b
    OBVIOUS
  <1> QED
    BY <1>1, <1>2

LEMMA LongestFacts ==
    /\ LongestLife \in Nat
    /\ MostSeconds <= LongestLife
    /\ DefaultTTL \in 1 .. LongestLife
    /\ 1 \in 1 .. LongestLife
  <1>1. HalfWord \in Nat \ {0} /\ PerSecond \in Nat \ {0}
    BY DurationAssumption
  <1>2. DefaultTTL \in Nat \ {0}
    BY TTLAssumption
  <1>3. MostSeconds \in Int
    BY <1>1, Quotient DEF MostSeconds
  <1> QED
    BY <1>2, <1>3 DEF LongestLife

\* Whatever wraps, no key gets more than the longest life.
LEMMA ExpireBounded ==
    ASSUME NEW d \in Int
    PROVE  /\ ExpireSeconds(d) \in Int
           /\ ExpireSeconds(d) > 0 => ExpireSeconds(d) \in 1 .. LongestLife
  <1> DEFINE nanos == Nanos(d)
  <1>1. HalfWord \in Nat \ {0} /\ PerSecond \in Nat \ {0}
    BY DurationAssumption
  <1>2. nanos \in -HalfWord .. HalfWord - 1
    BY <1>1, WrapRange DEF Nanos
  <1> HIDE DEF nanos
  <1>3. CASE nanos > 0 /\ nanos < PerSecond
    <2>1. ExpireSeconds(d) = 1
      BY <1>1, <1>2, <1>3 DEF ExpireSeconds, nanos
    <2> QED
      BY <2>1, LongestFacts
  <1>4. CASE nanos >= PerSecond
    <2>1. ExpireSeconds(d) = nanos \div PerSecond
      BY <1>1, <1>2, <1>4 DEF ExpireSeconds, nanos
    <2>2. nanos <= HalfWord - 1
      BY <1>1, <1>2
    <2>3. /\ nanos \div PerSecond \in Int
          /\ nanos \div PerSecond <= MostSeconds
          /\ nanos \div PerSecond >= 1
      BY <1>1, <1>2, <1>4, <2>2, Quotient DEF MostSeconds
    <2>4. MostSeconds \in Int
      BY <1>1, Quotient DEF MostSeconds
    <2> QED
      BY <2>1, <2>3, <2>4, LongestFacts
  <1>5. CASE nanos <= 0
    <2>1. ExpireSeconds(d) = -((-nanos) \div PerSecond)
      BY <1>1, <1>2, <1>5 DEF ExpireSeconds, nanos
    <2>2. (-nanos) \div PerSecond \in Int /\ (-nanos) \div PerSecond >= 0
      BY <1>1, <1>2, <1>5, Quotient
    <2> QED
      BY <2>1, <2>2
  <1> QED
    BY <1>1, <1>2, <1>3, <1>4, <1>5

\* What fits arrives unchanged.
LEMMA ExpireExact ==
    ASSUME NEW d \in Nat \ {0}, d <= MostSeconds
    PROVE  ExpireSeconds(d) = d
  <1>1. HalfWord \in Nat \ {0} /\ PerSecond \in Nat \ {0}
    BY DurationAssumption
  <1>2. d * PerSecond \in Nat \ {0} /\ d * PerSecond < HalfWord
    BY <1>1, Fits DEF MostSeconds
  <1>3. Nanos(d) = d * PerSecond
    BY <1>2, WrapRange DEF Nanos
  <1>4. d * PerSecond >= PerSecond /\ (d * PerSecond) \div PerSecond = d
    BY <1>1, Exact
  <1> QED
    BY <1>1, <1>2, <1>3, <1>4 DEF ExpireSeconds

-----------------------------------------------------------------------------
(***************************************************************************)
(* Types.                                                                  *)
(***************************************************************************)

\* Past its first check, a request has a key and a positive duration.
RequestInv ==
    \A a \in Admins :
        at[a] \in {"exists", "expire", "ttl"} =>
            trx[a] \in TrxIDs /\ duration[a] > 0

TypeInv == TypeOK /\ RequestInv

LEMMA DurationType == TypeOK => \A a \in Admins : duration[a] \in Int
  <1>1. Durations \union {0} \subseteq Int
    BY TTLAssumption, DurationAssumption
  <1> QED
    BY <1>1 DEF TypeOK

LEMMA InitTypes == Init => TypeInv
  <1>1. 0 \in 0 .. MaxWrites /\ 0 \in 0 .. LongestLife
        /\ DefaultTTL \in 0 .. DefaultTTL
    BY TTLAssumption, LongestFacts
  <1> QED
    BY <1>1 DEF Init, TypeInv, TypeOK, RequestInv

LEMMA LifeTypes ==
    ASSUME TypeOK, NEW t \in TrxIDs, SetWithTTL(t, DefaultTTL)
    PROVE  TypeOK' /\ UNCHANGED adminVars
  <1>1. DefaultTTL \in 1 .. LongestLife
    BY LongestFacts
  <1>2. ttl' \in [TrxIDs -> {Missing, Eternal} \union 1 .. LongestLife]
    BY <1>1 DEF SetWithTTL, TypeOK
  <1>3. writes' \in 0 .. MaxWrites
    BY TTLAssumption DEF SetWithTTL, TypeOK
  <1>4. 0 \in 0 .. DefaultTTL
    BY TTLAssumption
  <1>5. age' \in [TrxIDs -> 0 .. DefaultTTL] /\ touched' \in [TrxIDs -> BOOLEAN]
    BY <1>4 DEF SetWithTTL, TypeOK
  <1> QED
    BY <1>2, <1>3, <1>5 DEF SetWithTTL, TypeOK, adminVars

LEMMA ExpireTypes ==
    ASSUME TypeOK, NEW t \in TrxIDs, NEW d \in Int, Expire(t, ExpireSeconds(d))
    PROVE  /\ ttl' \in [TrxIDs -> {Missing, Eternal} \union 1 .. LongestLife]
           /\ touched' \in [TrxIDs -> BOOLEAN]
           /\ UNCHANGED <<writes, age>>
  <1> DEFINE new == IF ttl[t] # Missing /\ ExpireSeconds(d) > 0
                    THEN ExpireSeconds(d) ELSE Missing
  <1>1. new \in {Missing, Eternal} \union 1 .. LongestLife
    BY ExpireBounded
  <1> HIDE DEF new
  <1>2. ttl' = [ttl EXCEPT ![t] = new]
    BY DEF Expire, new
  <1> QED
    BY <1>1, <1>2 DEF Expire, TypeOK

LEMMA TickTypes == TypeOK /\ Tick => TypeOK'
  <1> SUFFICES ASSUME TypeOK, Tick PROVE TypeOK'
    OBVIOUS
  <1>1. ASSUME NEW t \in TrxIDs
        PROVE  ttl'[t] \in {Missing, Eternal} \union 1 .. LongestLife
    BY <1>1, LongestFacts DEF Tick, TypeOK, Missing, Eternal
  <1>2. ASSUME NEW t \in TrxIDs PROVE age'[t] \in 0 .. DefaultTTL
    BY <1>2, TTLAssumption DEF Tick, TypeOK
  <1>3. ttl' \in [TrxIDs -> {Missing, Eternal} \union 1 .. LongestLife]
    BY <1>1 DEF Tick
  <1>4. age' \in [TrxIDs -> 0 .. DefaultTTL]
    BY <1>2 DEF Tick
  <1> QED
    BY <1>3, <1>4 DEF Tick, TypeOK, adminVars

LEMMA TypeStep == TypeInv /\ [Next]_vars => TypeInv'
  <1> SUFFICES ASSUME TypeOK, RequestInv, [Next]_vars PROVE TypeOK' /\ RequestInv'
    BY DEF TypeInv
  <1> USE DEF keyVars, adminVars
  <1>1. ASSUME NEW t \in TrxIDs, Store(t) \/ Update(t) PROVE TypeOK' /\ RequestInv'
    <2>1. SetWithTTL(t, DefaultTTL)
      BY <1>1 DEF Store, Update
    <2> QED
      BY <2>1, LifeTypes DEF RequestInv
  <1>2. CASE Tick
    BY <1>2, TickTypes DEF Tick, RequestInv
  <1>3. ASSUME NEW a \in Admins, NEW t \in TrxIDs, NEW d \in Durations,
               ExtendBegin(a, t, d)
        PROVE  TypeOK' /\ RequestInv'
    <2>1. d \in Int
      BY TTLAssumption, DurationAssumption
    <2>2. /\ trx' = [trx EXCEPT ![a] = t]
          /\ duration' = [duration EXCEPT ![a] = d]
          /\ UNCHANGED <<keyVars, newTTL>>
      BY <1>3 DEF ExtendBegin
    <2>3. CASE d <= 0
      <3>1. /\ at' = [at EXCEPT ![a] = "done"]
            /\ code' = [code EXCEPT ![a] = "400"]
        BY <1>3, <2>3 DEF ExtendBegin, Answer
      <3> QED
        BY <2>2, <3>1 DEF TypeOK, RequestInv
    <2>4. CASE d > 0
      <3>1. at' = [at EXCEPT ![a] = "exists"] /\ UNCHANGED code
        BY <1>3, <2>1, <2>4 DEF ExtendBegin
      <3>2. TypeOK'
        BY <2>2, <3>1 DEF TypeOK
      <3>3. RequestInv'
        BY <2>2, <2>4, <3>1 DEF TypeOK, RequestInv
      <3> QED
        BY <3>2, <3>3
    <2> QED
      BY <2>1, <2>3, <2>4
  <1>4. ASSUME NEW a \in Admins, ExtendExists(a) PROVE TypeOK' /\ RequestInv'
    BY <1>4 DEF ExtendExists, Answer, TypeOK, RequestInv
  <1>5. ASSUME NEW a \in Admins, at[a] = "expire",
               Expire(trx[a], ExpireSeconds(duration[a])),
               UNCHANGED <<trx, duration, newTTL>>
        PROVE  /\ ttl' \in [TrxIDs -> {Missing, Eternal} \union 1 .. LongestLife]
               /\ touched' \in [TrxIDs -> BOOLEAN]
               /\ UNCHANGED <<writes, age>>
    <2>1. trx[a] \in TrxIDs
      BY <1>5 DEF RequestInv
    <2>2. duration[a] \in Int
      BY DurationType
    <2> QED
      BY <1>5, <2>1, <2>2, ExpireTypes
  <1>6. ASSUME NEW a \in Admins, ExtendExpire(a) PROVE TypeOK' /\ RequestInv'
    BY <1>5, <1>6 DEF ExtendExpire, TypeOK, RequestInv
  <1>7. ASSUME NEW a \in Admins, ExtendReport(a) PROVE TypeOK' /\ RequestInv'
    <2>1. trx[a] \in TrxIDs
      BY <1>7 DEF ExtendReport, RequestInv
    <2>2. ttl[trx[a]] \in {Missing, Eternal} \union 1 .. LongestLife
      BY <2>1 DEF TypeOK
    <2> DEFINE left == IF ttl[trx[a]] < 0 THEN 0 ELSE ttl[trx[a]]
    <2>3. left \in 0 .. LongestLife
      BY <2>2, LongestFacts DEF Missing, Eternal
    <2> HIDE DEF left
    <2>4. newTTL' = [newTTL EXCEPT ![a] = left]
      BY <1>7 DEF ExtendReport, left
    <2> QED
      BY <1>7, <2>3, <2>4 DEF ExtendReport, Answer, TypeOK, RequestInv
  <1>8. ASSUME NEW a \in Admins, ExtendFails(a) PROVE TypeOK' /\ RequestInv'
    <2>1. /\ ttl' \in [TrxIDs -> {Missing, Eternal} \union 1 .. LongestLife]
          /\ touched' \in [TrxIDs -> BOOLEAN]
          /\ UNCHANGED <<writes, age>>
      BY <1>5, <1>8 DEF ExtendFails, TypeOK
    <2> QED
      BY <1>8, <2>1 DEF ExtendFails, Answer, TypeOK, RequestInv
  <1>9. CASE UNCHANGED vars
    BY <1>9 DEF vars, TypeOK, RequestInv
  <1> QED
    BY <1>1, <1>2, <1>3, <1>4, <1>6, <1>7, <1>8, <1>9 DEF Next, ExtendStep

LEMMA TypesAlways == Spec => []TypeInv
  BY InitTypes, TypeStep, PTL DEF Spec

\* Whatever durations wrap to, no key gets a life longer than a Duration or
\* the default holds, and every response reports such a life.
THEOREM TTLTypes == Spec => []TypeOK
  <1>1. TypeInv => TypeOK
    BY DEF TypeInv
  <1> QED
    BY <1>1, TypesAlways, PTL

-----------------------------------------------------------------------------
(***************************************************************************)
(* How long a record lives.                                                *)
(***************************************************************************)

LEMMA LifeStep ==
    TypeInv /\ RecordStaysADay /\ [Next]_vars => RecordStaysADay'
  <1> SUFFICES ASSUME TypeOK, RequestInv, RecordStaysADay, [Next]_vars
               PROVE  RecordStaysADay'
    BY DEF TypeInv
  <1> USE DEF keyVars, adminVars
  <1>1. ASSUME NEW t \in TrxIDs, Store(t) \/ Update(t) PROVE RecordStaysADay'
    <2>1. SetWithTTL(t, DefaultTTL)
      BY <1>1 DEF Store, Update
    <2>2. ttl'[t] = DefaultTTL /\ age'[t] = 0 /\ DefaultTTL \in Nat
      BY <2>1, TTLAssumption DEF SetWithTTL, TypeOK
    <2>3. \A o \in TrxIDs \ {t} : ttl'[o] = ttl[o] /\ age'[o] = age[o]
                                  /\ touched'[o] = touched[o]
      BY <2>1 DEF SetWithTTL, TypeOK
    <2> QED
      BY <2>2, <2>3 DEF RecordStaysADay
  <1>2. CASE Tick
    <2> SUFFICES ASSUME NEW t \in TrxIDs, ~touched'[t], age'[t] < DefaultTTL
                 PROVE  ttl'[t] = DefaultTTL - age'[t]
      BY DEF RecordStaysADay
    <2>1. DefaultTTL \in Nat \ {0} /\ age[t] \in 0 .. DefaultTTL
      BY TTLAssumption DEF TypeOK
    <2>2. age[t] < DefaultTTL /\ age'[t] = age[t] + 1
      BY <1>2, <2>1 DEF Tick
    <2>3. ttl[t] = DefaultTTL - age[t]
      BY <1>2, <2>2 DEF Tick, RecordStaysADay
    <2>4. ttl'[t] = ttl[t] - 1
      BY <1>2, <2>1, <2>2, <2>3 DEF Tick
    <2> QED
      BY <2>1, <2>2, <2>3, <2>4
  <1>3. ASSUME NEW t \in TrxIDs, NEW s, Expire(t, s) PROVE RecordStaysADay'
    <2>1. touched'[t] /\ \A o \in TrxIDs \ {t} :
              ttl'[o] = ttl[o] /\ age'[o] = age[o] /\ touched'[o] = touched[o]
      BY <1>3 DEF Expire, TypeOK
    <2> QED
      BY <2>1 DEF RecordStaysADay
  <1>4. ASSUME NEW a \in Admins, at[a] = "expire" PROVE trx[a] \in TrxIDs
    BY <1>4 DEF RequestInv
  <1>5. ASSUME UNCHANGED keyVars PROVE RecordStaysADay'
    BY <1>5 DEF RecordStaysADay
  <1>6. ASSUME NEW a \in Admins, ExtendStep(a) PROVE RecordStaysADay'
    BY <1>3, <1>4, <1>5, <1>6
       DEF ExtendStep, ExtendExists, ExtendExpire, ExtendReport, ExtendFails
  <1>7. ASSUME NEW a \in Admins, NEW t \in TrxIDs, NEW d \in Durations,
               ExtendBegin(a, t, d)
        PROVE  RecordStaysADay'
    BY <1>5, <1>7 DEF ExtendBegin
  <1>8. CASE UNCHANGED vars
    BY <1>5, <1>8 DEF vars
  <1> QED
    BY <1>1, <1>2, <1>6, <1>7, <1>8 DEF Next

\* A record nobody's EXPIRE touched lives for a full DefaultTTL after the
\* Store or Update that wrote it last, however the two interleave.
THEOREM StaysADay == Spec => []RecordStaysADay
  <1>1. Init => RecordStaysADay
    BY TTLAssumption DEF Init, RecordStaysADay
  <1> QED
    BY <1>1, LifeStep, TypesAlways, PTL DEF Spec

-----------------------------------------------------------------------------
(***************************************************************************)
(* What an extension does.                                                 *)
(***************************************************************************)

ExactStep ==
    \A a \in Admins :
        (/\ at[a] = "expire"
         /\ at'[a] = "ttl"
         /\ ttl[trx[a]] # Missing
         /\ duration[a] <= MostSeconds) =>
            ttl'[trx[a]] = duration[a]

LEMMA OneExtension == TypeInv /\ [Next]_vars => ExactStep
  <1> SUFFICES ASSUME TypeOK, RequestInv, [Next]_vars, NEW a \in Admins,
                      at[a] = "expire", at'[a] = "ttl", ttl[trx[a]] # Missing,
                      duration[a] <= MostSeconds
               PROVE  ttl'[trx[a]] = duration[a]
    BY DEF TypeInv, ExactStep
  <1>1. ExtendExpire(a)
    BY DEF TypeOK, Next, vars, keyVars, adminVars, Store, Update, SetWithTTL, Tick,
           ExtendBegin, ExtendStep, ExtendExists, ExtendExpire, ExtendReport,
           ExtendFails, Answer
  <1>2. trx[a] \in TrxIDs /\ duration[a] > 0
    BY DEF RequestInv
  <1>3. duration[a] \in Nat \ {0}
    BY <1>2, DurationType
  <1>4. ExpireSeconds(duration[a]) = duration[a]
    BY <1>3, ExpireExact
  <1> QED
    BY <1>1, <1>2, <1>3, <1>4 DEF ExtendExpire, Expire, TypeOK

\* At every width of the words, an extension whose nanoseconds fit gives a
\* record that is still there exactly the seconds that were asked for.
THEOREM ExactExtension == Spec => ExtensionIsExact
  <1>1. TypeInv /\ [Next]_vars => [ExactStep]_vars
    BY OneExtension
  <1> QED
    BY <1>1, TypesAlways, PTL DEF Spec, ExtensionIsExact, ExactStep
=============================================================================
