------------------------ MODULE RequestRoutingProofs ------------------------
(***************************************************************************)
(* Proofs about RequestRouting, for any pairs, terminals, configurations,  *)
(* numbers of concurrent migrations and requests, and failures.            *)
(***************************************************************************)
EXTENDS RequestRouting, FiniteSetTheorems, TLAPS

-----------------------------------------------------------------------------
(***************************************************************************)
(* Types.                                                                  *)
(***************************************************************************)

Wellformed == DOMAIN Config \intersect Pairs
Bad == DOMAIN Config \ Pairs

\* A SET is only due for a configured pair, and only while a migration runs.
AtInv ==
    \A m \in Migrations :
        /\ at[m] \in Wellformed \union {NoPair}
        /\ state[m] = "new" => at[m] = NoPair

TypeInv == TypeOK /\ AtInv

LEMMA EditTypes ==
    ASSUME TypeOK, NEW k \in Pairs, NEW mine, Edit(k, mine)
    PROVE  edited' \in [Migrations -> SUBSET Pairs]
  BY DEF TypeOK, Edit

LEMMA WriteTypes ==
    ASSUME TypeOK, NEW k \in Pairs, NEW s \in Serials \union {NoSerial}, Write(k, s)
    PROVE  /\ mapping' \in Mappings
           /\ assigned' \in [Requests -> SUBSET (Serials \union {NoSerial})]
  BY DEF TypeOK, Mappings, Write

LEMMA FailureTypes ==
    ASSUME TypeOK, Failure
    PROVE  faults' \in 0 .. MaxFaults /\ faults' # 0
  BY RoutingAssumption DEF TypeOK, Failure

LEMMA InitTypes == Init => TypeInv
  <1> SUFFICES ASSUME Init PROVE TypeInv
    OBVIOUS
  <1>1. mapping \in Mappings
    BY DEF Init, Mappings
  <1>2. TypeOK
    <2>1. before = [m \in Migrations |-> mapping] /\ 0 \in 0 .. MaxFaults
      BY RoutingAssumption DEF Init
    <2>2. before \in [Migrations -> Mappings]
      BY <1>1, <2>1
    <2> QED
      BY <1>1, <2>1, <2>2 DEF Init, TypeOK
  <1>3. AtInv
    BY DEF Init, AtInv
  <1> QED
    BY <1>2, <1>3 DEF TypeInv

LEMMA TypeStep == TypeInv /\ [Next]_vars => TypeInv'
  <1> SUFFICES ASSUME TypeOK, AtInv, [Next]_vars PROVE TypeOK' /\ AtInv'
    BY DEF TypeInv
  <1> USE DEF mapVars, migrationVars, requestVars
  <1>1. ASSUME NEW k \in Pairs, NEW s \in Serials \union {NoSerial},
               Write(k, s), Edit(k, {}),
               UNCHANGED <<hold, faults, state, force, todo, at, succeeded, failed,
                           before, requestVars>>
        PROVE  TypeOK' /\ AtInv'
    <2>1. /\ mapping' \in Mappings
          /\ assigned' \in [Requests -> SUBSET (Serials \union {NoSerial})]
      BY <1>1, WriteTypes
    <2>2. edited' \in [Migrations -> SUBSET Pairs]
      BY <1>1, EditTypes
    <2> QED
      BY <1>1, <2>1, <2>2 DEF TypeOK, AtInv
  <1>2. ASSUME NEW on \in BOOLEAN, SetHold(on) PROVE TypeOK' /\ AtInv'
    <2>1. heldThrough' \in [Requests -> BOOLEAN] /\ hold' \in BOOLEAN
      BY <1>2 DEF SetHold, TypeOK
    <2> QED
      BY <1>2, <2>1 DEF SetHold, TypeOK, AtInv
  <1>3. ASSUME NEW m \in Migrations, NEW f \in BOOLEAN, MigrateBegin(m, f)
        PROVE  TypeOK' /\ AtInv'
    <2>1. /\ state' \in [Migrations -> {"new", "loop", "done"}]
          /\ force' \in [Migrations -> BOOLEAN]
          /\ todo' \in [Migrations -> SUBSET DOMAIN Config]
          /\ before' \in [Migrations -> Mappings]
      BY <1>3 DEF MigrateBegin, TypeOK
    <2>2. AtInv'
      BY <1>3 DEF MigrateBegin, AtInv, TypeOK
    <2> QED
      BY <1>3, <2>1, <2>2 DEF MigrateBegin, TypeOK
  <1>4. ASSUME NEW m \in Migrations, NEW k \in DOMAIN Config, NextKey(m, k)
        PROVE  todo' \in [Migrations -> SUBSET DOMAIN Config]
    BY <1>4 DEF NextKey, TypeOK
  <1>5. ASSUME NEW m \in Migrations, NEW k \in DOMAIN Config, MigrateMalformed(m, k)
        PROVE  TypeOK' /\ AtInv'
    <2>1. failed' \in [Migrations -> Nat]
      BY <1>5 DEF MigrateMalformed, TypeOK
    <2> QED
      BY <1>4, <1>5, <2>1 DEF MigrateMalformed, TypeOK, AtInv
  <1>6. ASSUME NEW m \in Migrations, NEW k \in DOMAIN Config, MigrateSkip(m, k)
        PROVE  TypeOK' /\ AtInv'
    BY <1>4, <1>6 DEF MigrateSkip, TypeOK, AtInv
  <1>7. ASSUME NEW m \in Migrations, NEW k \in DOMAIN Config, MigrateCheck(m, k)
        PROVE  TypeOK' /\ AtInv'
    <2>1. k \in Wellformed /\ state[m] = "loop"
      BY <1>7 DEF MigrateCheck, NextKey, Wellformed
    <2>2. at' = [at EXCEPT ![m] = k] /\ state' = state
      BY <1>7 DEF MigrateCheck
    <2>3. at' \in [Migrations -> Pairs \union {NoPair}] /\ AtInv'
      BY <2>1, <2>2 DEF TypeOK, AtInv, Wellformed
    <2>4. faults' \in 0 .. MaxFaults
      BY <1>7, FailureTypes DEF MigrateCheck, TypeOK
    <2> QED
      BY <1>4, <1>7, <2>3, <2>4 DEF MigrateCheck, TypeOK
  <1>8. ASSUME NEW m \in Migrations, at[m] # NoPair
        PROVE  at[m] \in Wellformed /\ at[m] \in Pairs /\ Config[at[m]] \in Serials
    <2>1. at[m] \in Wellformed
      BY <1>8 DEF AtInv
    <2> QED
      BY <2>1, RoutingAssumption DEF Wellformed
  <1>9. ASSUME NEW m \in Migrations, at' = [at EXCEPT ![m] = NoPair],
               UNCHANGED state
        PROVE  at' \in [Migrations -> Pairs \union {NoPair}] /\ AtInv'
    BY <1>9 DEF TypeOK, AtInv
  <1>10. ASSUME NEW m \in Migrations, MigrateSet(m) PROVE TypeOK' /\ AtInv'
    <2>1. /\ mapping' \in Mappings
          /\ assigned' \in [Requests -> SUBSET (Serials \union {NoSerial})]
      BY <1>8, <1>10, WriteTypes DEF MigrateSet
    <2>2. edited' \in [Migrations -> SUBSET Pairs]
      BY <1>8, <1>10, EditTypes DEF MigrateSet
    <2>3. succeeded' \in [Migrations -> Nat]
      BY <1>10 DEF MigrateSet, TypeOK
    <2>4. at' \in [Migrations -> Pairs \union {NoPair}] /\ AtInv'
      BY <1>9, <1>10 DEF MigrateSet
    <2> QED
      BY <1>10, <2>1, <2>2, <2>3, <2>4 DEF MigrateSet, TypeOK
  <1>11. ASSUME NEW m \in Migrations, MigrateSetFails(m) PROVE TypeOK' /\ AtInv'
    <2>1. /\ mapping' \in Mappings
          /\ assigned' \in [Requests -> SUBSET (Serials \union {NoSerial})]
      BY <1>8, <1>11, WriteTypes DEF MigrateSetFails, TypeOK
    <2>2. edited' \in [Migrations -> SUBSET Pairs]
      BY <1>8, <1>11, EditTypes DEF MigrateSetFails, TypeOK
    <2>3. failed' \in [Migrations -> Nat]
      BY <1>11 DEF MigrateSetFails, TypeOK
    <2>4. at' \in [Migrations -> Pairs \union {NoPair}] /\ AtInv'
      BY <1>9, <1>11 DEF MigrateSetFails
    <2>5. faults' \in 0 .. MaxFaults
      BY <1>11, FailureTypes DEF MigrateSetFails
    <2> QED
      BY <1>11, <2>1, <2>2, <2>3, <2>4, <2>5 DEF MigrateSetFails, TypeOK
  <1>12. ASSUME NEW m \in Migrations, MigrateEnd(m) PROVE TypeOK' /\ AtInv'
    <2>1. state' \in [Migrations -> {"new", "loop", "done"}]
      BY <1>12 DEF MigrateEnd, TypeOK
    <2>2. AtInv'
      BY <1>12 DEF MigrateEnd, AtInv, TypeOK
    <2> QED
      BY <1>12, <2>1, <2>2 DEF MigrateEnd, TypeOK
  <1>13. ASSUME NEW r \in Requests, Arrive(r) \/ RequestStep(r)
         PROVE  TypeOK' /\ AtInv'
    <2>1. UNCHANGED <<mapping, hold, migrationVars>>
      BY <1>13 DEF Arrive, RequestStep, Lookup, LookupFails, CheckHold,
         CheckHoldFails, Publish
    <2>2. faults' \in 0 .. MaxFaults
      BY <1>13, FailureTypes DEF Arrive, RequestStep, Lookup, LookupFails, CheckHold,
         CheckHoldFails, Publish, TypeOK
    <2>3. step' \in [Requests -> {"new", "lookup", "hold", "publish", "published",
                                  "held", "refused"}]
      BY <1>13 DEF Arrive, RequestStep, Lookup, LookupFails, CheckHold,
         CheckHoldFails, Publish, TypeOK
    <2>4. heldThrough' \in [Requests -> BOOLEAN]
      BY <1>13 DEF Arrive, RequestStep, Lookup, LookupFails, CheckHold,
         CheckHoldFails, Publish, TypeOK
    <2>5. /\ serial' \in [Requests -> Serials \union {NoSerial}]
          /\ assigned' \in [Requests -> SUBSET (Serials \union {NoSerial})]
      <3>1. mapping[PairOf[r]] \in Serials \union {NoSerial}
        BY RoutingAssumption DEF TypeOK, Mappings
      <3> QED
        BY <1>13, <3>1 DEF Arrive, RequestStep, Lookup, LookupFails, CheckHold,
           CheckHoldFails, Publish, TypeOK
    <2> QED
      BY <2>1, <2>2, <2>3, <2>4, <2>5 DEF TypeOK, AtInv
  <1>14. CASE UNCHANGED vars
    BY <1>14 DEF vars, TypeOK, AtInv
  <1> QED
    BY <1>1, <1>2, <1>3, <1>5, <1>6, <1>7, <1>10, <1>11, <1>12, <1>13, <1>14
       DEF Next, MigrateStep, DeleteMapping, SetMapping

LEMMA TypesHold == Spec => []TypeInv
  BY InitTypes, TypeStep, PTL DEF Spec

\* Every variable keeps its type: no malformed key ever gets a mapping.
THEOREM RoutingTypes == Spec => []TypeOK
  <1>1. TypeInv => TypeOK
    BY DEF TypeInv
  <1> QED
    BY <1>1, TypesHold, PTL

-----------------------------------------------------------------------------
(***************************************************************************)
(* What a step does to the mappings and to one migration.                  *)
(***************************************************************************)

\* k is written by somebody whom migration m counts as another.
Foreign(m, k) == k \in edited'[m] \/ state[m] = "new"

LEMMA Faults == TypeOK /\ [Next]_vars => faults' = faults \/ faults' # 0
  BY FailureTypes
     DEF Next, vars, mapVars, SetMapping, DeleteMapping, SetHold, MigrateBegin,
         MigrateStep, MigrateMalformed, MigrateSkip, MigrateCheck, MigrateSet,
         MigrateSetFails, MigrateEnd, Arrive, RequestStep, Lookup, LookupFails,
         CheckHold, CheckHoldFails, Publish

\* A mapping is written by the migration itself, where its SET was due, or
\* foreign.
LEMMA MappingMoves ==
    ASSUME TypeInv, [Next]_vars, NEW m \in Migrations, NEW k \in Pairs
    PROVE  /\ edited[m] \subseteq edited'[m]
           /\ \/ mapping'[k] = mapping[k]
              \/ Foreign(m, k)
              \/ /\ at[m] = k /\ at'[m] = NoPair
                 /\ mapping'[k] = Config[k]
  <1> DEFINE Goal == /\ edited[m] \subseteq edited'[m]
                     /\ \/ mapping'[k] = mapping[k]
                        \/ Foreign(m, k)
                        \/ /\ at[m] = k /\ at'[m] = NoPair
                           /\ mapping'[k] = Config[k]
  <1> SUFFICES Goal
    OBVIOUS
  <1>0. /\ mapping \in [Pairs -> Serials \union {NoSerial}]
        /\ edited \in [Migrations -> SUBSET Pairs]
        /\ at \in [Migrations -> Pairs \union {NoPair}]
    BY DEF TypeInv, TypeOK, Mappings
  <1>1. ASSUME NEW j, NEW mine, Edit(j, mine)
        PROVE  /\ edited[m] \subseteq edited'[m]
               /\ m \notin mine => Foreign(m, j)
    BY <1>0, <1>1 DEF Edit, Foreign
  <1>2. ASSUME NEW j \in Pairs, NEW s, Write(j, s), Edit(j, {})
        PROVE  Goal
    BY <1>0, <1>1, <1>2 DEF Write
  <1>3. ASSUME NEW n \in Migrations, Write(at[n], Config[at[n]]),
               Edit(at[n], {n}), at' = [at EXCEPT ![n] = NoPair]
        PROVE  Goal
    <2>1. CASE n = m
      BY <1>0, <1>1, <1>3, <2>1 DEF Write
    <2>2. CASE n # m
      BY <1>0, <1>1, <1>3, <2>2 DEF Write
    <2> QED
      BY <2>1, <2>2
  <1>4. CASE UNCHANGED <<mapping, edited>>
    BY <1>4
  <1> QED
    BY <1>2, <1>3, <1>4
       DEF Next, vars, mapVars, migrationVars, SetMapping, DeleteMapping, SetHold,
           MigrateBegin, MigrateStep, MigrateMalformed, MigrateSkip, MigrateCheck,
           MigrateSet, MigrateSetFails, MigrateEnd, Arrive, RequestStep, Lookup,
           LookupFails, CheckHold, CheckHoldFails, Publish

\* Migration m begins, takes one of its steps, or stays where it is.
LEMMA MigrationMoves ==
    ASSUME TypeInv, [Next]_vars, NEW m \in Migrations
    PROVE  \/ \E f \in BOOLEAN : MigrateBegin(m, f)
           \/ /\ state[m] = "new" <=> state'[m] = "new"
              /\ force'[m] = force[m] /\ before'[m] = before[m]
              /\ \/ MigrateStep(m)
                 \/ UNCHANGED <<state[m], todo[m], at[m], failed[m]>>
  <1> DEFINE Goal ==
        \/ \E f \in BOOLEAN : MigrateBegin(m, f)
        \/ /\ state[m] = "new" <=> state'[m] = "new"
           /\ force'[m] = force[m] /\ before'[m] = before[m]
           /\ \/ MigrateStep(m)
              \/ UNCHANGED <<state[m], todo[m], at[m], failed[m]>>
  <1> SUFFICES Goal
    OBVIOUS
  <1> USE DEF TypeInv, TypeOK
  <1>1. ASSUME NEW n \in Migrations, NEW f \in BOOLEAN, MigrateBegin(n, f)
        PROVE  Goal
    BY <1>1 DEF MigrateBegin
  <1>2. ASSUME NEW n \in Migrations, NEW k \in DOMAIN Config,
               MigrateMalformed(n, k) \/ MigrateSkip(n, k) \/ MigrateCheck(n, k)
        PROVE  Goal
    <2>1. CASE n = m
      BY <1>2, <2>1 DEF MigrateStep, MigrateMalformed, MigrateSkip, MigrateCheck
    <2>2. CASE n # m
      BY <1>2, <2>2 DEF MigrateMalformed, MigrateSkip, MigrateCheck, NextKey
    <2> QED
      BY <2>1, <2>2
  <1>3. ASSUME NEW n \in Migrations,
               MigrateSet(n) \/ MigrateSetFails(n) \/ MigrateEnd(n)
        PROVE  Goal
    <2>1. CASE n = m
      BY <1>3, <2>1 DEF MigrateStep, MigrateSet, MigrateSetFails, MigrateEnd
    <2>2. CASE n # m
      BY <1>3, <2>2 DEF MigrateSet, MigrateSetFails, MigrateEnd
    <2> QED
      BY <2>1, <2>2
  <1>4. CASE UNCHANGED <<state, force, todo, at, failed, before>>
    BY <1>4
  <1> QED
    BY <1>1, <1>2, <1>3, <1>4
       DEF Next, vars, migrationVars, SetMapping, DeleteMapping, SetHold,
           MigrateStep, Arrive, RequestStep, Lookup, LookupFails, CheckHold,
           CheckHoldFails, Publish

-----------------------------------------------------------------------------
(***************************************************************************)
(* A migration without force.                                              *)
(***************************************************************************)

\* What it found and nobody else wrote is still there, and no SET is due.
KeepInv ==
    faults = 0 =>
        \A m \in Migrations :
            state[m] # "new" /\ ~force[m] =>
                \A k \in Pairs \ edited[m] :
                    before[m][k] # NoSerial =>
                        mapping[k] = before[m][k] /\ at[m] # k

LEMMA KeepStep == TypeInv /\ KeepInv /\ [Next]_vars => KeepInv'
  <1> SUFFICES ASSUME TypeInv, KeepInv, [Next]_vars, faults' = 0,
                      NEW m \in Migrations, state'[m] # "new", ~force'[m],
                      NEW k \in Pairs \ edited'[m], before'[m][k] # NoSerial
               PROVE  mapping'[k] = before'[m][k] /\ at'[m] # k
    BY DEF KeepInv
  <1>1. faults = 0
    BY Faults DEF TypeInv
  <1>2. ASSUME NEW f \in BOOLEAN, MigrateBegin(m, f)
        PROVE  mapping'[k] = before'[m][k] /\ at'[m] # k
    <2>1. before'[m] = mapping /\ mapping' = mapping /\ at'[m] = at[m]
      BY <1>2 DEF MigrateBegin, mapVars, TypeInv, TypeOK
    <2>2. at[m] = NoPair
      BY <1>2 DEF MigrateBegin, TypeInv, AtInv
    <2> QED
      BY <2>1, <2>2, RoutingAssumption
  <1>3. ASSUME state[m] # "new", force'[m] = force[m], before'[m] = before[m],
               MigrateStep(m) \/ UNCHANGED <<state[m], todo[m], at[m], failed[m]>>
        PROVE  mapping'[k] = before'[m][k] /\ at'[m] # k
    <2>1. edited[m] \subseteq edited'[m]
      BY MappingMoves
    <2>2. mapping[k] = before[m][k] /\ at[m] # k
      BY <1>1, <1>3, <2>1 DEF KeepInv
    <2>3. mapping'[k] = mapping[k]
      BY <1>3, <2>2, MappingMoves DEF Foreign
    <2>4. CASE \E j \in DOMAIN Config : MigrateCheck(m, j)
      <3>1. PICK j \in DOMAIN Config : MigrateCheck(m, j)
        BY <2>4
      <3>2. mapping[j] = NoSerial /\ at'[m] = j
        BY <1>1, <1>3, <3>1 DEF MigrateCheck, Failure, TypeInv, TypeOK
      <3> QED
        BY <1>3, <2>2, <2>3, <3>2
    <2>5. CASE ~ \E j \in DOMAIN Config : MigrateCheck(m, j)
      <3>1. at'[m] \in {at[m], NoPair}
        BY <1>3, <2>5 DEF MigrateStep, MigrateMalformed, MigrateSkip, MigrateSet,
           MigrateSetFails, MigrateEnd, TypeInv, TypeOK
      <3> QED
        BY <1>3, <2>2, <2>3, <3>1, RoutingAssumption
    <2> QED
      BY <2>4, <2>5
  <1> QED
    BY <1>2, <1>3, MigrationMoves

\* While Redis answers, a migration without force leaves what it found, with
\* administrators and any number of other migrations at work.
THEOREM UnforcedKeeps == Spec => []UnforcedMigrationKeeps
  <1>1. Init => KeepInv
    BY DEF Init, KeepInv
  <1>2. KeepInv => UnforcedMigrationKeeps
    BY DEF KeepInv, UnforcedMigrationKeeps
  <1> QED
    BY <1>1, <1>2, TypesHold, KeepStep, PTL DEF Spec

-----------------------------------------------------------------------------
(***************************************************************************)
(* The report.  The count of errors is at least that of the malformed keys *)
(* the loop has passed; it is more as soon as one SET has failed.          *)
(***************************************************************************)

Passed(m) == Cardinality(Bad \ todo[m])

\* k is as the report will claim.
Migrated(m, k) ==
    /\ mapping[k] # NoSerial
    /\ force[m] => mapping[k] = Config[k]

ReportInv ==
    \A m \in Migrations :
        /\ state[m] = "new" => failed[m] = 0
        /\ state[m] # "new" => failed[m] >= Passed(m)
        /\ state[m] = "done" => todo[m] = {} /\ at[m] = NoPair
        /\ state[m] # "new" /\ failed[m] <= Passed(m) =>
              \A k \in Wellformed :
                  k \in edited[m] \/ k \in todo[m] \/ k = at[m] \/ Migrated(m, k)

LEMMA BadFinite == \A S : IsFiniteSet(Bad \ S) /\ Cardinality(Bad \ S) \in Nat
  <1> TAKE S
  <1>1. Bad \ S \subseteq Pairs \union Malformed
    BY RoutingAssumption DEF Bad
  <1>2. IsFiniteSet(Bad \ S)
    BY <1>1, FS_Subset, RoutingAssumption
  <1> QED
    BY <1>2, FS_CardinalityType

\* The loop passes a key.
LEMMA PassKey ==
    ASSUME TypeInv, NEW m \in Migrations, NEW k \in DOMAIN Config, NextKey(m, k)
    PROVE  /\ todo'[m] = todo[m] \ {k} /\ k \in todo[m]
           /\ k \in Bad => Passed(m)' = Passed(m) + 1
           /\ k \notin Bad => Passed(m)' = Passed(m)
  <1>1. todo'[m] = todo[m] \ {k} /\ k \in todo[m]
    BY DEF NextKey, TypeInv, TypeOK
  <1>2. ASSUME k \in Bad PROVE Passed(m)' = Passed(m) + 1
    <2>1. Bad \ todo'[m] = (Bad \ todo[m]) \union {k} /\ k \notin Bad \ todo[m]
      BY <1>1, <1>2
    <2>2. Cardinality((Bad \ todo[m]) \union {k}) = Cardinality(Bad \ todo[m]) + 1
      BY <2>1, BadFinite, FS_AddElement
    <2> QED
      BY <2>1, <2>2 DEF Passed, Bad
  <1>3. ASSUME k \notin Bad PROVE Passed(m)' = Passed(m)
    <2>1. Bad \ todo'[m] = Bad \ todo[m]
      BY <1>1, <1>3
    <2> QED
      BY <2>1 DEF Passed, Bad
  <1> QED
    BY <1>1, <1>2, <1>3

\* What is migrated stays so, unless somebody else writes it.
LEMMA MigratedStays ==
    ASSUME TypeInv, [Next]_vars, NEW m \in Migrations, NEW k \in Wellformed,
           state[m] # "new", force'[m] = force[m],
           k \in edited[m] \/ Migrated(m, k)
    PROVE  k \in edited'[m] \/ Migrated(m, k)'
  <1>1. k \in Pairs /\ Config[k] # NoSerial
    BY RoutingAssumption DEF Wellformed
  <1>2. CASE k \in edited[m]
    BY <1>1, <1>2, MappingMoves
  <1>3. CASE Migrated(m, k)
    BY <1>1, <1>3, MappingMoves DEF Foreign, Migrated
  <1> QED
    BY <1>2, <1>3

LEMMA ReportStep == TypeInv /\ ReportInv /\ [Next]_vars => ReportInv'
  <1> DEFINE Report(m) ==
        /\ state[m] = "new" => failed[m] = 0
        /\ state[m] # "new" => failed[m] >= Passed(m)
        /\ state[m] = "done" => todo[m] = {} /\ at[m] = NoPair
        /\ state[m] # "new" /\ failed[m] <= Passed(m) =>
              \A k \in Wellformed :
                  k \in edited[m] \/ k \in todo[m] \/ k = at[m] \/ Migrated(m, k)
  <1> SUFFICES ASSUME TypeInv, [Next]_vars, NEW m \in Migrations, Report(m)
               PROVE  Report(m)'
    BY DEF ReportInv
  <1>0. /\ failed[m] \in Nat /\ Passed(m) \in Nat /\ Passed(m)' \in Nat
        /\ DOMAIN Config = Wellformed \union Bad /\ Wellformed \intersect Bad = {}
        /\ Wellformed \subseteq Pairs
    BY BadFinite DEF TypeInv, TypeOK, Passed, Wellformed, Bad
  <1>1. ASSUME NEW f \in BOOLEAN, MigrateBegin(m, f) PROVE Report(m)'
    <2>1. /\ state[m] = "new" /\ state'[m] = "loop" /\ todo'[m] = DOMAIN Config
          /\ failed' = failed
      BY <1>1 DEF MigrateBegin, TypeInv, TypeOK
    <2>2. failed'[m] = 0
      BY <2>1
    <2>3. Passed(m)' = 0
      <3>1. Bad \ todo'[m] = {}
        BY <2>1 DEF Bad
      <3> QED
        BY <3>1, FS_EmptySet DEF Passed, Bad
    <2> QED
      BY <1>0, <2>1, <2>2, <2>3
  <1>2. ASSUME state[m] = "new" <=> state'[m] = "new", force'[m] = force[m],
               UNCHANGED <<state[m], todo[m], at[m], failed[m]>>
        PROVE  Report(m)'
    <2>1. Passed(m)' = Passed(m)
      BY <1>2 DEF Passed, Bad
    <2>2. state[m] # "new" => \A k \in Wellformed :
             k \in edited[m] \/ Migrated(m, k) => k \in edited'[m] \/ Migrated(m, k)'
      BY <1>2, MigratedStays
    <2> QED
      BY <1>2, <2>1, <2>2
  <1>3. ASSUME state[m] = "new" <=> state'[m] = "new", force'[m] = force[m],
               MigrateStep(m)
        PROVE  Report(m)'
    <2>1. state[m] # "new" /\ state'[m] # "new"
      BY <1>3 DEF MigrateStep, MigrateMalformed, MigrateSkip, MigrateCheck, NextKey,
         MigrateSet, MigrateSetFails, MigrateEnd, TypeInv, AtInv
    <2>2. /\ failed[m] >= Passed(m)
          /\ failed[m] <= Passed(m) => \A k \in Wellformed :
                k \in edited[m] \/ k \in todo[m] \/ k = at[m] \/ Migrated(m, k)
      BY <2>1
    <2>3. \A k \in Wellformed :
             k \in edited[m] \/ Migrated(m, k) => k \in edited'[m] \/ Migrated(m, k)'
      BY <1>3, <2>1, MigratedStays
    <2>4. ASSUME NEW j \in DOMAIN Config, MigrateMalformed(m, j) PROVE Report(m)'
      <3>1. /\ NextKey(m, j) /\ j \in Bad /\ failed'[m] = failed[m] + 1
            /\ at' = at /\ state' = state
        BY <2>4, RoutingAssumption DEF MigrateMalformed, Bad, TypeInv, TypeOK
      <3>2. todo'[m] = todo[m] \ {j} /\ Passed(m)' = Passed(m) + 1
        BY <3>1, PassKey
      <3>3. state[m] = "loop"
        BY <3>1 DEF NextKey
      <3>4. failed'[m] >= Passed(m)'
        BY <1>0, <2>2, <3>1, <3>2
      <3>5. failed'[m] <= Passed(m)' => failed[m] <= Passed(m)
        BY <1>0, <3>1, <3>2
      <3> QED
        BY <1>0, <2>2, <2>3, <3>1, <3>2, <3>3, <3>4, <3>5
    <2>5. ASSUME NEW j \in DOMAIN Config, MigrateSkip(m, j) \/ MigrateCheck(m, j)
          PROVE  Report(m)'
      <3>1. /\ NextKey(m, j) /\ j \notin Bad /\ j \in Wellformed
            /\ failed' = failed /\ state' = state
            /\ at'[m] = j \/ (at' = at /\ Migrated(m, j))
        BY <2>5 DEF MigrateSkip, MigrateCheck, Bad, Wellformed, Migrated, TypeInv, TypeOK
      <3>2. todo'[m] = todo[m] \ {j} /\ Passed(m)' = Passed(m)
        BY <3>1, PassKey
      <3>3. state[m] = "loop" /\ at[m] = NoPair
        BY <3>1 DEF NextKey
      <3>4. \A k \in Wellformed : k # NoPair
        BY RoutingAssumption DEF Wellformed
      <3> QED
        BY <2>2, <2>3, <3>1, <3>2, <3>3, <3>4
    <2>6. CASE MigrateSet(m)
      <3>1. /\ failed' = failed /\ state' = state /\ todo' = todo
            /\ at[m] # NoPair
            /\ mapping' = [mapping EXCEPT ![at[m]] = Config[at[m]]]
        BY <2>6 DEF MigrateSet, Write
      <3>2. at[m] \in Wellformed /\ Config[at[m]] # NoSerial /\ at[m] \in Pairs
        BY <3>1, RoutingAssumption DEF TypeInv, AtInv, Wellformed
      <3>3. mapping'[at[m]] = Config[at[m]]
        BY <3>1, <3>2 DEF TypeInv, TypeOK, Mappings
      <3>4. \A k : k = at[m] => Migrated(m, k)'
        BY <3>2, <3>3 DEF Migrated
      <3>5. Passed(m)' = Passed(m)
        BY <3>1 DEF Passed, Bad
      <3>6. state[m] # "done"
        BY <3>1
      <3> QED
        BY <2>1, <2>2, <2>3, <3>1, <3>4, <3>5, <3>6
    <2>7. CASE MigrateSetFails(m)
      <3>1. /\ failed'[m] = failed[m] + 1 /\ state' = state /\ todo' = todo
            /\ at[m] # NoPair
        BY <2>7 DEF MigrateSetFails, TypeInv, TypeOK
      <3>2. Passed(m)' = Passed(m)
        BY <3>1 DEF Passed, Bad
      <3>3. state[m] # "done"
        BY <3>1
      <3>4. failed'[m] >= Passed(m)' /\ ~(failed'[m] <= Passed(m)')
        BY <1>0, <2>2, <3>1, <3>2
      <3> QED
        BY <2>1, <3>1, <3>3, <3>4
    <2>8. CASE MigrateEnd(m)
      <3>1. /\ failed' = failed /\ todo' = todo /\ at' = at
            /\ todo[m] = {} /\ at[m] = NoPair
        BY <2>8 DEF MigrateEnd
      <3>2. Passed(m)' = Passed(m)
        BY <3>1 DEF Passed, Bad
      <3> QED
        BY <2>1, <2>2, <2>3, <3>1, <3>2
    <2> QED
      BY <1>3, <2>4, <2>5, <2>6, <2>7, <2>8 DEF MigrateStep
  <1> QED
    BY <1>1, <1>2, <1>3, MigrationMoves

\* A migration that reports no error but those of the malformed keys has left
\* every configured pair with a terminal, whatever else was written and
\* however the SETs failed.
THEOREM HonestReport == Spec => []MigrationReportIsHonest
  <1>1. Init => ReportInv
    BY DEF Init, ReportInv
  <1>2. ReportInv => MigrationReportIsHonest
    <2> SUFFICES ASSUME ReportInv, NEW m \in Migrations, state[m] = "done",
                        failed[m] <= Cardinality(Bad),
                        NEW k \in Wellformed, k \notin edited[m]
                 PROVE  Migrated(m, k)
      BY DEF MigrationReportIsHonest, Bad, Wellformed, Migrated
    <2>1. todo[m] = {} /\ at[m] = NoPair
      BY DEF ReportInv
    <2>2. Passed(m) = Cardinality(Bad)
      <3>1. Bad \ todo[m] = Bad
        BY <2>1
      <3> QED
        BY <3>1 DEF Passed
    <2>3. k # NoPair
      BY RoutingAssumption DEF Wellformed
    <2> QED
      BY <2>1, <2>2, <2>3 DEF ReportInv
  <1> QED
    BY <1>1, <1>2, TypesHold, ReportStep, PTL DEF Spec

-----------------------------------------------------------------------------
(***************************************************************************)
(* The hold.                                                               *)
(***************************************************************************)

HoldInv ==
    /\ \A r \in Requests : heldThrough[r] => hold
    /\ HoldStopsRequests

LEMMA HoldStep == TypeInv /\ HoldInv /\ [Next]_vars => HoldInv'
  <1> SUFFICES ASSUME TypeInv, HoldInv, [Next]_vars PROVE HoldInv'
    OBVIOUS
  <1> USE DEF HoldInv, HoldStopsRequests, TypeInv, TypeOK, mapVars, requestVars
  <1>1. ASSUME NEW on \in BOOLEAN, SetHold(on) PROVE HoldInv'
    BY <1>1 DEF SetHold
  <1>2. ASSUME NEW r \in Requests, Arrive(r) \/ RequestStep(r) PROVE HoldInv'
    <2>1. CASE Arrive(r)
      BY <2>1 DEF Arrive
    <2>2. CASE Lookup(r)
      BY <2>2 DEF Lookup
    <2>3. CASE LookupFails(r)
      BY <2>3, Faults DEF LookupFails
    <2>4. CASE CheckHold(r)
      BY <2>4 DEF CheckHold
    <2>5. CASE CheckHoldFails(r)
      BY <2>5, FailureTypes DEF CheckHoldFails
    <2>6. CASE Publish(r)
      BY <2>6 DEF Publish
    <2> QED
      BY <1>2, <2>1, <2>2, <2>3, <2>4, <2>5, <2>6 DEF RequestStep
  <1>3. CASE UNCHANGED <<hold, step, heldThrough>>
    BY <1>3, Faults
  <1> QED
    BY <1>1, <1>2, <1>3
       DEF Next, vars, SetMapping, DeleteMapping, MigrateBegin, MigrateStep,
           MigrateMalformed, MigrateSkip, MigrateCheck, MigrateSet,
           MigrateSetFails, MigrateEnd

\* While Redis answers, a request that arrived under the hold is not forwarded
\* before the hold is off.
THEOREM HoldStops == Spec => []HoldStopsRequests
  <1>1. Init => HoldInv
    BY DEF Init, HoldInv, HoldStopsRequests
  <1>2. HoldInv => HoldStopsRequests
    BY DEF HoldInv
  <1> QED
    BY <1>1, <1>2, TypesHold, HoldStep, PTL DEF Spec

-----------------------------------------------------------------------------
(***************************************************************************)
(* The terminal of a payment.                                              *)
(***************************************************************************)

\* While a request looks up its terminal, what its pair is mapped to has been
\* recorded for it, by its arrival or by the last write of the pair.
RouteInv ==
    /\ RoutedAsAssigned
    /\ \A r \in Requests : step[r] = "lookup" => mapping[PairOf[r]] \in assigned[r]

\* A write of a pair is recorded for the requests that look the pair up, and
\* for no other.
LEMMA WriteRecorded ==
    ASSUME TypeOK, RouteInv, NEW k \in Pairs, NEW s, Write(k, s),
           UNCHANGED <<step, serial>>, faults' = 0 => faults = 0
    PROVE  RouteInv'
  <1>1. ASSUME NEW r \in Requests
        PROVE  /\ assigned[r] \subseteq assigned'[r]
               /\ step[r] = "lookup" => mapping'[PairOf[r]] \in assigned'[r]
    <2>1. mapping' = [mapping EXCEPT ![k] = s] /\ PairOf[r] \in DOMAIN mapping
      BY RoutingAssumption DEF Write, TypeOK, Mappings
    <2>2. CASE PairOf[r] = k /\ step[r] = "lookup"
      BY <2>1, <2>2 DEF Write
    <2>3. CASE ~ (PairOf[r] = k /\ step[r] = "lookup")
      BY <2>1, <2>3 DEF Write, RouteInv
    <2> QED
      BY <2>2, <2>3
  <1> QED
    BY <1>1 DEF RouteInv, RoutedAsAssigned

LEMMA RouteStep == TypeInv /\ RouteInv /\ [Next]_vars => RouteInv'
  <1> SUFFICES ASSUME TypeInv, RouteInv, [Next]_vars PROVE RouteInv'
    OBVIOUS
  <1>0. TypeOK /\ (faults' = 0 => faults = 0)
    BY Faults DEF TypeInv
  <1>1. ASSUME NEW k \in Pairs, DeleteMapping(k) \/ \E s \in Serials : SetMapping(k, s)
        PROVE  RouteInv'
    BY <1>0, <1>1, WriteRecorded DEF DeleteMapping, SetMapping, requestVars
  <1>2. ASSUME NEW m \in Migrations, MigrateSet(m) \/ MigrateSetFails(m)
        PROVE  RouteInv'
    <2>1. at[m] \in Pairs /\ UNCHANGED <<step, serial>>
      BY <1>2 DEF MigrateSet, MigrateSetFails, TypeInv, AtInv, Wellformed, requestVars
    <2>2. Write(at[m], Config[at[m]]) \/ UNCHANGED <<mapping, assigned>>
      BY <1>2 DEF MigrateSet, MigrateSetFails
    <2>3. CASE UNCHANGED <<mapping, assigned>>
      BY <1>0, <2>1, <2>3 DEF RouteInv, RoutedAsAssigned
    <2> QED
      BY <1>0, <2>1, <2>2, <2>3, WriteRecorded
  <1>3. ASSUME NEW q \in Requests, Arrive(q) PROVE RouteInv'
    <2>1. /\ step' = [step EXCEPT ![q] = "lookup"] /\ step[q] = "new"
          /\ assigned' = [assigned EXCEPT ![q] = {mapping[PairOf[q]]}]
          /\ UNCHANGED <<mapping, faults, serial>>
      BY <1>3 DEF Arrive
    <2> QED
      BY <1>0, <2>1 DEF RouteInv, RoutedAsAssigned, TypeOK
  <1>4. ASSUME NEW q \in Requests, Lookup(q) PROVE RouteInv'
    <2>1. /\ step' = [step EXCEPT ![q] = "hold"] /\ step[q] = "lookup"
          /\ serial' = [serial EXCEPT ![q] = mapping[PairOf[q]]]
          /\ mapping[PairOf[q]] # NoSerial
          /\ UNCHANGED <<mapping, assigned, faults>>
      BY <1>4 DEF Lookup, mapVars
    <2>2. mapping[PairOf[q]] \in assigned[q]
      BY <2>1 DEF RouteInv
    <2> QED
      BY <1>0, <2>1, <2>2 DEF RouteInv, RoutedAsAssigned, TypeOK
  <1>5. ASSUME NEW q \in Requests, LookupFails(q) PROVE RouteInv'
    <2>1. /\ step' = [step EXCEPT ![q] = "refused"] /\ step[q] = "lookup"
          /\ UNCHANGED <<mapping, assigned, serial>>
      BY <1>5 DEF LookupFails
    <2>2. faults' = 0 => NoSerial \in assigned[q]
      BY <1>0, <1>5, <2>1, FailureTypes DEF LookupFails, RouteInv
    <2> QED
      BY <1>0, <2>1, <2>2 DEF RouteInv, RoutedAsAssigned, TypeOK
  <1>6. ASSUME NEW q \in Requests, CheckHold(q) \/ CheckHoldFails(q) \/ Publish(q)
        PROVE  RouteInv'
    <2>1. /\ UNCHANGED <<mapping, assigned, serial>>
          /\ step[q] \in {"hold", "publish"}
          /\ \E s \in {"held", "publish", "published"} : step' = [step EXCEPT ![q] = s]
      BY <1>6 DEF CheckHold, CheckHoldFails, Publish, mapVars
    <2> QED
      BY <1>0, <2>1 DEF RouteInv, RoutedAsAssigned, TypeOK
  <1>7. CASE UNCHANGED <<mapping, assigned, step, serial>>
    BY <1>0, <1>7 DEF RouteInv, RoutedAsAssigned
  <1> QED
    BY <1>1, <1>2, <1>3, <1>4, <1>5, <1>6, <1>7
       DEF Next, vars, mapVars, requestVars, SetHold, MigrateBegin, MigrateStep,
           MigrateMalformed, MigrateSkip, MigrateCheck, MigrateEnd, RequestStep

\* However administrators and migrations rewrite its pair, a payment goes to a
\* terminal the pair had between the request's arrival and its lookup, and a
\* request refused while Redis answers had none at such a moment.
THEOREM PaymentsAreRouted == Spec => []RoutedAsAssigned
  <1>1. Init => RouteInv
    BY DEF Init, RouteInv, RoutedAsAssigned
  <1>2. RouteInv => RoutedAsAssigned
    BY DEF RouteInv
  <1> QED
    BY <1>1, <1>2, TypesHold, RouteStep, PTL DEF Spec
=============================================================================
