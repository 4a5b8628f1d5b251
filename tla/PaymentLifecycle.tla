-------------------------- MODULE PaymentLifecycle --------------------------
(***************************************************************************)
(* What the middleware promises to clients and terminals: a request is     *)
(* first checked and then pending; only a pending one makes the terminal   *)
(* ask for a payment; it ends once, and its response says no more than     *)
(* what happened.  A 400, 404 or "not stored" means that the terminal was  *)
(* and will be left alone; a 200 carries an answer a terminal gave for     *)
(* that trx_id.  A 503 or a 408 leaves both open.                          *)
(*                                                                         *)
(* No store, goroutine, retry or time-out is visible here.                 *)
(***************************************************************************)
EXTENDS Transactions, Integers

VARIABLES
    stage,   \* stage[p]: "new", "checking", "pending" or "ended"
    reply,   \* reply[p]: the response
    asked,   \* asked[p]: messages at the terminal, not answered yet
    given    \* the answers terminals gave

vars == <<stage, reply, asked, given>>

Init ==
    /\ stage = [p \in Posts |-> "new"]
    /\ reply = [p \in Posts |-> [code |-> "none", data |-> NoData]]
    /\ asked = [p \in Posts |-> 0]
    /\ given = {}

Move(p, from, to) ==
    /\ stage[p] = from
    /\ stage' = [stage EXCEPT ![p] = to]

\* The request gets further.
Advance(p) ==
    /\ Move(p, "new", "checking") \/ Move(p, "checking", "pending")
    /\ UNCHANGED <<reply, asked, given>>

End(p, from, code, data) ==
    /\ Move(p, from, "ended")
    /\ reply' = [reply EXCEPT ![p] = [code |-> code, data |-> data]]

\* It ends and the terminal knows nothing of it.
Refuse(p) ==
    /\ \/ End(p, "new", "400", NoData)
       \/ \E code \in {"404", "500 not stored"} : End(p, "checking", code, NoData)
    /\ UNCHANGED <<asked, given>>

Ask(p) == asked' = [asked EXCEPT ![p] = @ + 1]

\* The terminal gets the payment message, maybe not for the first time.
AskTerminal(p) ==
    /\ stage[p] = "pending"
    /\ Ask(p)
    /\ UNCHANGED <<stage, reply, given>>

\* It gives one answer to each.
Answer(p, s) ==
    /\ asked[p] > 0
    /\ asked' = [asked EXCEPT ![p] = @ - 1]
    /\ given' = given \union {[from |-> p, status |-> s]}
    /\ UNCHANGED <<stage, reply>>

\* The client is told the answer ...
Report(p) ==
    /\ \E m \in given : TrxIDOf(m) = TrxOf[p] /\ End(p, "pending", "200", m)
    /\ UNCHANGED <<asked, given>>

\* ... or that there is none, so far ...
EndWithout(p) ==
    /\ \E code \in {"408", "500 not found", "500 no data"} :
          End(p, "pending", code, NoData)
    /\ UNCHANGED <<asked, given>>

\* ... or that the terminal cannot be reached, which may be wrong.
Unreachable(p) ==
    /\ End(p, "pending", "503", NoData)
    /\ Ask(p) \/ UNCHANGED asked
    /\ UNCHANGED given

\* The middleware crashes under all its requests.
BreakOff ==
    LET open == {p \in Posts : stage[p] \in {"checking", "pending"}} IN
    /\ stage' = [p \in Posts |-> IF p \in open THEN "ended" ELSE stage[p]]
    /\ reply' = [p \in Posts |-> IF p \in open
                                 THEN [code |-> "lost", data |-> NoData]
                                 ELSE reply[p]]
    /\ UNCHANGED <<asked, given>>

Next ==
    \/ \E p \in Posts : \/ Advance(p) \/ Refuse(p) \/ AskTerminal(p)
                        \/ Report(p) \/ EndWithout(p) \/ Unreachable(p)
                        \/ \E s \in EDCStatuses : Answer(p, s)
    \/ BreakOff

Spec == Init /\ [][Next]_vars

-----------------------------------------------------------------------------
(***************************************************************************)
(* What follows for a client.                                              *)
(***************************************************************************)

\* The responses that promise that no payment takes place.
Refusals == {"400", "404", "500 not stored"}

\* Who is refused is not charged: no message for that payment is at the
\* terminal, and none ever was, for the terminal gave no answer to one.
RefusalIsClean ==
    \A p \in Posts :
        reply[p].code \in Refusals =>
            asked[p] = 0 /\ \A m \in given : m.from # p

\* A request gets one response at most: whichever of its many ways out a
\* handler takes, it takes no second one.
ResponseIsFinal ==
    [][\A p \in Posts : reply[p].code # "none" => reply'[p] = reply[p]]_vars
=============================================================================
