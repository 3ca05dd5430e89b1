-------------------------- MODULE WithdrawalLedger --------------------------
(***************************************************************************)
(* What the service promises about withdrawals, without messages, blocks,   *)
(* clocks or failures: a request is queued, sent, perhaps queued again, and *)
(* paid at most once; only a paid request is reported as processed.         *)
(***************************************************************************)
CONSTANTS Requests, Msgs

VARIABLES
    status,   \* of every request
    payers,   \* the messages that have paid a request
    reported  \* the requests reported as processed

ledger == <<status, payers, reported>>

LedgerInit ==
    /\ status = [q \in Requests |-> "absent"]
    /\ payers = [q \in Requests |-> {}]
    /\ reported = {}

\* the requests of Q move from one status to another
Move(Q, from, to) ==
    /\ \A q \in Q : status[q] = from
    /\ status' = [q \in Requests |-> IF q \in Q THEN to ELSE status[q]]

Order(q) == Move({q}, "absent", "queued") /\ UNCHANGED <<payers, reported>>

Dispatch(Q) == Move(Q, "queued", "sent") /\ UNCHANGED <<payers, reported>>

\* each request of Q is paid, by one message and for the first time
Pay(Q) ==
    /\ Move(Q, "sent", "paid")
    /\ \A q \in Q : payers[q] = {}
    /\ \E by \in [Q -> Msgs] :
          payers' = [q \in Requests |-> IF q \in Q THEN {by[q]} ELSE payers[q]]
    /\ UNCHANGED reported

\* payments that were not made are queued again, those that were are reported
Settle(Q, R) ==
    /\ Move(Q, "sent", "queued")
    /\ \A q \in R : status[q] = "paid"
    /\ reported' = reported \cup R
    /\ UNCHANGED payers

LedgerNext ==
    \/ \E q \in Requests : Order(q)
    \/ \E Q \in SUBSET Requests : Dispatch(Q) \/ Pay(Q)
    \/ \E Q, R \in SUBSET Requests : Settle(Q, R)

LedgerSpec == LedgerInit /\ [][LedgerNext]_ledger
=============================================================================
