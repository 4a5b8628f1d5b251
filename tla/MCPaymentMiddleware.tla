------------------------ MODULE MCPaymentMiddleware ------------------------
(***************************************************************************)
(* PaymentMiddleware on small instances: all requests carry one trx_id, or *)
(* each its own.                                                           *)
(***************************************************************************)
EXTENDS PaymentMiddleware, TLC

MCClients == Posts \union Workers
SharedTrxID == [p \in Posts |-> CHOOSE t \in TrxIDs : TRUE]
OwnTrxIDs == CHOOSE f \in [Posts -> TrxIDs] :
                \A p, q \in Posts : f[p] = f[q] => p = q
MCSymmetry == Permutations(Posts)
=============================================================================
