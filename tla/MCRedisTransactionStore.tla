---------------------- MODULE MCRedisTransactionStore ----------------------
(***************************************************************************)
(* RedisTransactionStore on a small instance: two clients and a POST that  *)
(* fight over one key, any number of times.                                *)
(***************************************************************************)
EXTENDS RedisTransactionStore

MCTrxOf == [p \in Posts |-> CHOOSE t \in TrxIDs : TRUE]
=============================================================================
