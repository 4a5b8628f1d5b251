--------------------------- MODULE MCSyncMapStore ---------------------------
(***************************************************************************)
(* SyncMapStore on a small instance: one key, one record, two updates, one *)
(* reader.                                                                 *)
(***************************************************************************)
EXTENDS SyncMapStore

OneTrxID == [p \in Posts |-> CHOOSE t \in TrxIDs : TRUE]
=============================================================================
