---------------------------- MODULE Transactions ----------------------------
(***************************************************************************)
(* The data of the middleware: transactions, the answers EDC terminals     *)
(* give, and the two functions the code passes to TransactionStore.Update. *)
(* (internal/models, and the closures of internal/handlers.)               *)
(*                                                                         *)
(* A POST stands for one call of POST /api/v1/transaction; TrxOf gives the *)
(* trx_id the client put in it, which two POSTs may share.  A transaction  *)
(* record remembers the POST that created it (RequestData), its status and *)
(* the answer (ResponseData).  Time stamps, amounts and card data are left *)
(* out: no branch of the code reads them.  NotifyChan is left out because  *)
(* it is not serialised (`json:"-"`) and is nil in every record read back  *)
(* from Redis.                                                             *)
(***************************************************************************)
CONSTANTS
    Posts,        \* the POST requests clients may send
    TrxIDs,       \* the transaction identifiers they may carry
    TrxOf,        \* the trx_id of each POST
    EDCStatuses,  \* the words terminals put in the status field
    NoTx,         \* no record under this key (redis.Nil)
    NoData,       \* ResponseData is nil
    Timeout       \* the update of a handler whose wait ran out

ASSUME TrxOfAssumption == TrxOf \in [Posts -> TrxIDs]

\* No two requests share a trx_id: what README.md asks of clients
\* ("unique_transaction_id").
UniqueTrxIDs == \A p, q \in Posts : TrxOf[p] = TrxOf[q] => p = q

(***************************************************************************)
(* An answer of a terminal: the POST whose payment message it answers      *)
(* (terminals echo that message's trx_id) and its status word.             *)
(***************************************************************************)
EDCResponse == [from : Posts, status : EDCStatuses]
TrxIDOf(resp) == TrxOf[resp.from]

TransactionStatus == {"PENDING", "SUCCESS", "FAILED", "TIMEOUT"}
Transaction == [post : Posts,
                status : TransactionStatus,
                data : EDCResponse \union {NoData}]

\* Every update function that reaches the store.
Updates == EDCResponse \union {Timeout}

ASSUME SentinelAssumption ==
    /\ NoTx \notin Transaction
    /\ NoData \notin EDCResponse
    /\ Timeout \notin EDCResponse

-----------------------------------------------------------------------------
\* The record a POST creates.
NewTransaction(p) == [post |-> p, status |-> "PENDING", data |-> NoData]

\* How a terminal's status word is read.
SuccessWords == {"success", "SUCCESS", "paid"}
StatusFor(resp) == IF resp.status \in SuccessWords THEN "SUCCESS" ELSE "FAILED"

\* Mutant: only the status is stored, the answer itself is forgotten.
ApplyStatusOnly(tx, u) ==
    IF u = Timeout THEN [tx EXCEPT !.status = "TIMEOUT"]
                   ELSE [tx EXCEPT !.status = StatusFor(u)]

\* Mutant: a timeout also clears the answer.
ApplyTimeoutClears(tx, u) ==
    IF u = Timeout THEN [tx EXCEPT !.status = "TIMEOUT", !.data = NoData]
                   ELSE [tx EXCEPT !.status = StatusFor(u), !.data = u]

\* The record after update function u: a timeout sets the status whatever
\* it was, an answer sets status and data whatever they were.
Apply(tx, u) ==
    IF u = Timeout THEN [tx EXCEPT !.status = "TIMEOUT"]
                   ELSE [tx EXCEPT !.status = StatusFor(u), !.data = u]

\* Whether a record's status and data agree: a record without an answer is
\* waiting or timed out, and an outcome is the one its answer spells.
Consistent(tx) ==
    /\ tx.status = "PENDING" => tx.data = NoData
    /\ tx.status \in {"SUCCESS", "FAILED"} =>
          /\ tx.data # NoData
          /\ tx.status = StatusFor(tx.data)
=============================================================================
