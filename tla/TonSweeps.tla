----------------------------- MODULE TonSweeps -----------------------------
(***************************************************************************)
(* How the TONs of one deposit wallet reach the hot wallet: external        *)
(* incomes, the internal TON withdrawals processor, the external message    *)
(* that empties and destroys the account, and its rows in                   *)
(* internal_withdrawals, over the blocks of BlockFeed.                      *)
(*                                                                         *)
(* Three clocks meet here: the service's (expired_at), the validators'      *)
(* (gen_utime against the TTL of the message) and logical time (an income   *)
(* carries the lt at which its message was created, which may be long       *)
(* before it is delivered).  A swept account is destroyed, its seqno starts *)
(* over, and the message in the mempool is valid again for the next income. *)
(*                                                                         *)
(* A block holds at most one transaction of the deposit wallet.  Every      *)
(* income is one unit of TON; fees are left out.                            *)
(***************************************************************************)
EXTENDS BlockFeed, FiniteSetsExt

CONSTANTS
    ExternalMessageLifetime,  \* config.ExternalMessageLifetime
    MinimalWithdrawal,        \* config.Config.Ton.Withdrawal, the cutoff
    SendDelay,                \* longest time between the row's expired_at and
                              \* the TTL that wallet.Send gives the message
    MaxIncomes, MaxMemos      \* bounds

ASSUME SweepAssumption ==
    /\ ExternalMessageLifetime \in Nat
    /\ MinimalWithdrawal \in Nat
    /\ SendDelay \in Nat
    /\ MaxIncomes \in Nat /\ MaxMemos \in Nat

Memos == 1..MaxMemos

VARIABLES
    lt,         \* logical time of the chain
    travelling, \* incomes, by lt, that are sent and not yet delivered
    txs,        \* txs[b]: the transaction of the deposit wallet in block b
    balance,    \* of the deposit account
    mempool,    \* memos whose message the network has
    ttl,        \* ttl[memo] of that message
    incomes,    \* payments.external_incomes, by lt
    rows,       \* memos that have a row of internal_withdrawals
    since,      \* since_lt
    finish,     \* finish_lt, 0 for NULL; sending_lt is set with it
    amount,     \* amount
    failed,     \* failed, as a set of memos
    expiredAt,  \* expired_at
    pc,         \* where the internal TON withdrawals processor stands
    task,       \* task.Lt
    savedAt,    \* the clock reading of the row it has inserted
    expPc       \* where the expiration processor stands

chainVars == <<lt, travelling, txs, balance>>
msgVars   == <<mempool, ttl>>
rowVars   == <<incomes, rows, since, finish, amount, failed, expiredAt>>
procVars  == <<pc, task, savedAt>>
vars      == <<feedVars, chainVars, msgVars, rowVars, procVars, expPc>>

Idle == [kind |-> "none", lt |-> 0, memo |-> 0, amount |-> 0]

Init ==
    /\ FeedInit
    /\ lt = 0 /\ travelling = {} /\ txs = <<Idle>> /\ balance = 0
    /\ mempool = {} /\ ttl = [m \in Memos |-> 0]
    /\ incomes = {} /\ rows = {}
    /\ since = [m \in Memos |-> 0] /\ finish = [m \in Memos |-> 0]
    /\ amount = [m \in Memos |-> 0] /\ failed = {}
    /\ expiredAt = [m \in Memos |-> 0]
    /\ pc = "sync" /\ task = 0 /\ savedAt = 0 /\ expPc = "sync"

----------------------------------------------------------------------------
(* The chain                                                               *)

SentIncomes == travelling \cup {txs[b].lt : b \in {c \in 1..Tip : txs[c].kind = "income"}}

\* a payer's contract creates the message that will be an external income
SendIncome ==
    /\ Cardinality(SentIncomes) < MaxIncomes
    /\ lt' = lt + 1
    /\ travelling' = travelling \cup {lt'}
    /\ UNCHANGED <<feedVars, txs, balance, msgVars, rowVars, procVars, expPc>>

EmptyBlock(utime) ==
    /\ ProduceBlock(utime)
    /\ txs' = Append(txs, Idle)
    /\ UNCHANGED <<lt, travelling, balance, msgVars, rowVars, procVars, expPc>>

DeliverIncome(utime, income) ==
    /\ ProduceBlock(utime)
    /\ txs' = Append(txs, [kind |-> "income", lt |-> income, memo |-> 0, amount |-> 1])
    /\ travelling' = travelling \ {income}
    /\ balance' = balance + 1
    /\ UNCHANGED <<lt, msgVars, rowVars, procVars, expPc>>

\* a message of the deposit wallet is executed while it is valid and there is
\* something to send; mode 128 + 32 takes everything and destroys the account
Sweep(utime, memo) ==
    /\ ProduceBlock(utime)
    /\ utime <= ttl[memo]
    /\ balance > 0
    /\ lt' = lt + 1
    /\ txs' = Append(txs, [kind |-> "sweep", lt |-> lt', memo |-> memo, amount |-> balance])
    /\ balance' = 0
    /\ UNCHANGED <<travelling, msgVars, rowVars, procVars, expPc>>

----------------------------------------------------------------------------
(* The internal TON withdrawals processor                                  *)

IntWaitSync ==
    /\ pc = "sync"
    /\ Synced
    /\ pc' = "query"
    /\ UNCHANGED <<feedVars, chainVars, msgVars, rowVars, task, savedAt, expPc>>

\* Wrong on purpose: without "failed = false".
LatestRowsOfAll == {m \in rows : since[m] = Max({since[n] : n \in rows})}

\* the rows the incomes are joined with: those with the greatest since_lt that
\* a row has that has not failed
LatestRows ==
    {m \in rows : /\ rows \ failed # {}
                  /\ since[m] = Max({since[n] : n \in rows \ failed})}

\* Wrong on purpose: without "finish_lt IS NOT NULL".
UnsweptIncomesOfOpenRows ==
    {income \in incomes :
        LatestRows = {} \/ \E m \in LatestRows : income > finish[m]}

\* the incomes for which the query finds work
UnsweptIncomes ==
    {income \in incomes :
        \/ LatestRows = {}
        \/ \E m \in LatestRows : finish[m] # 0 /\ income > finish[m]}

GetTonInternalWithdrawalTasks ==
    /\ pc = "query"
    /\ IF UnsweptIncomes = {}
         THEN pc' = "sync" /\ UNCHANGED task
         ELSE pc' = "balance" /\ task' = Max(UnsweptIncomes)
    /\ UNCHANGED <<feedVars, chainVars, msgVars, rowVars, savedAt, expPc>>

\* withdrawTONsFromDeposit asks the node for the balance; nothing happens
\* unless it exceeds the cutoff
GetAccountCurrentState ==
    /\ pc = "balance"
    /\ IF balance > MinimalWithdrawal
         THEN pc' = "save" /\ UNCHANGED task
         ELSE pc' = "sync" /\ task' = 0
    /\ UNCHANGED <<feedVars, chainVars, msgVars, rowVars, savedAt, expPc>>

SaveInternalWithdrawalTask(memo) ==
    /\ pc = "save"
    /\ memo \notin rows /\ \A m \in Memos : m < memo => m \in rows
    /\ rows' = rows \cup {memo}
    /\ since' = [since EXCEPT ![memo] = task]
    /\ expiredAt' = [expiredAt EXCEPT ![memo] = now + ExternalMessageLifetime]
    /\ pc' = "send"
    /\ savedAt' = now
    /\ UNCHANGED <<feedVars, chainVars, msgVars, incomes, finish, amount, failed, task, expPc>>

\* the node or the insert fails: the error is logged
SkipTask ==
    /\ pc \in {"balance", "save"}
    /\ pc' = "sync"
    /\ task' = 0
    /\ UNCHANGED <<feedVars, chainVars, msgVars, rowVars, savedAt, expPc>>

\* WithdrawTON for the row just saved; an error is only logged
WithdrawTON(sent) ==
    /\ pc = "send"
    /\ LET memo == Max(rows)
       IN /\ ttl' = [ttl EXCEPT ![memo] = now + ExternalMessageLifetime]
          /\ mempool' = IF sent THEN mempool \cup {memo} ELSE mempool
    /\ pc' = "sync"
    /\ task' = 0 /\ savedAt' = 0
    /\ UNCHANGED <<feedVars, chainVars, rowVars, expPc>>

----------------------------------------------------------------------------
(* Expiration, time, scanner, restart                                      *)

ExpWaitSync ==
    /\ expPc = "sync"
    /\ Synced
    /\ expPc' = "expire"
    /\ UNCHANGED <<feedVars, chainVars, msgVars, rowVars, procVars>>

\* Wrong on purpose: without the allowed lag.
ExpiredAtOnce == {m \in rows \ failed : finish[m] = 0 /\ expiredAt[m] < now}

\* UPDATE internal_withdrawals SET failed = true WHERE expired_at < now - lag
\* AND sending_lt IS NULL AND failed = false
Expired ==
    {m \in rows \ failed :
        finish[m] = 0 /\ expiredAt[m] < now - AllowableBlockchainLagging}

SetExpired ==
    /\ expPc = "expire"
    /\ failed' = failed \cup Expired
    /\ expPc' = "sync"
    /\ UNCHANGED <<feedVars, chainVars, msgVars, incomes, rows, since, finish, amount,
                   expiredAt, procVars>>

\* SetExpired returns an error: startExpirationProcessor logs it and goes on
SetExpiredError ==
    /\ expPc = "expire"
    /\ Fault("db")
    /\ expPc' = "sync"
    /\ UNCHANGED <<now, genUtime, blockData, lastKnown, target, current, scanning,
                   chainVars, msgVars, rowVars, procVars>>

TimePasses ==
    /\ Tick
    /\ pc = "send" => now < savedAt + SendDelay
    /\ UNCHANGED <<chainVars, msgVars, rowVars, procVars, expPc>>

\* what a transaction of the deposit wallet is to the scanner: an external in
\* message is a sweep to the hot wallet, an internal one of a payer an income
IsSweep(tx)  == tx.kind = "sweep"
IsIncome(tx) == tx.kind = "income"

\* ApplySendingConfirmations and UpdateInternalWithdrawal stop the whole
\* transaction at a row that has failed
Commits == NotSavedYet /\ ~ (IsSweep(txs[scanning]) /\ txs[scanning].memo \in failed)

SaveExternalIncome(tx) ==
    /\ incomes' = incomes \cup {tx.lt}
    /\ UNCHANGED <<finish, amount>>

\* Wrong on purpose: amount is overwritten.
UpdateInternalWithdrawalOverwrites(tx) ==
    /\ finish' = [finish EXCEPT ![tx.memo] = tx.lt]
    /\ amount' = [amount EXCEPT ![tx.memo] = tx.amount]
    /\ UNCHANGED incomes

UpdateInternalWithdrawal(tx) ==
    /\ finish' = [finish EXCEPT ![tx.memo] = tx.lt]
    /\ amount' = [amount EXCEPT ![tx.memo] = @ + tx.amount]
    /\ UNCHANGED incomes

\* the event a transaction becomes, applied to the tables
ProcessTonDepositWalletTX(tx) ==
    \/ IsIncome(tx) /\ SaveExternalIncome(tx)
    \/ IsSweep(tx) /\ UpdateInternalWithdrawal(tx)
    \/ tx = Idle /\ UNCHANGED <<incomes, finish, amount>>

SaveParsedBlockData ==
    /\ ScanDone(Commits)
    /\ IF Commits
         THEN ProcessTonDepositWalletTX(txs[scanning])
         ELSE UNCHANGED <<incomes, finish, amount>>
    /\ UNCHANGED <<faults, chainVars, msgVars, rows, since, failed, expiredAt, procVars, expPc>>

Feed ==
    /\ TrackerPoll \/ TrackerSend \/ TrackerFetchError \/ ScanError
    /\ UNCHANGED <<chainVars, msgVars, rowVars, procVars, expPc>>

Crash ==
    /\ Restart
    /\ pc' = "sync" /\ task' = 0 /\ savedAt' = 0 /\ expPc' = "sync"
    /\ UNCHANGED <<chainVars, msgVars, rowVars>>

Next ==
    \/ SendIncome
    \/ \E utime \in 0..now :
          \/ EmptyBlock(utime)
          \/ \E income \in travelling : DeliverIncome(utime, income)
          \/ \E memo \in mempool : Sweep(utime, memo)
    \/ IntWaitSync \/ GetTonInternalWithdrawalTasks \/ GetAccountCurrentState
    \/ \E memo \in Memos : SaveInternalWithdrawalTask(memo)
    \/ SkipTask
    \/ \E sent \in BOOLEAN : WithdrawTON(sent)
    \/ ExpWaitSync \/ SetExpired \/ SetExpiredError
    \/ TimePasses
    \/ SaveParsedBlockData \/ Feed \/ Crash

Spec == Init /\ [][Next]_vars

\* in sync, and no gap is old, with d to spare
SyncedWithin(d) == now - genUtime[GetLastSavedBlock] + d <= AllowableBlockchainLagging

GapsWithin(d) ==
    \A b \in 1..GetLastSavedBlock :
        b \in blockData \/ now - genUtime[b] + d <= AllowableBlockchainLagging

\* What expiration relies on and the code does not enforce.  A message lives up
\* to SendDelay longer than its row says, so the allowed lag must not be used
\* up to that: neither by a gap in block_data, nor by the last saved block from
\* the return of waitSync to the clock reading of SetExpired.
KeepsSync == expPc' = "expire" /\ Synced => SyncedWithin(SendDelay)'

\* the runs of the service in which both hold
TimelySpec == Init /\ [][Next /\ GapsWithin(SendDelay)' /\ KeepsSync]_vars

----------------------------------------------------------------------------
(* Properties                                                              *)

\* Type invariant.
TypeOK ==
    /\ FeedTypeOK
    /\ lt \in Nat /\ travelling \subseteq 1..lt /\ balance \in Nat
    /\ DOMAIN txs = 1..Tip
    /\ \A b \in 1..Tip : txs[b].memo \in {0} \cup rows /\ txs[b].lt \in 0..lt
    /\ mempool \subseteq rows /\ failed \subseteq rows /\ rows \subseteq Memos
    /\ incomes \subseteq 1..lt
    /\ pc \in {"sync", "query", "balance", "save", "send"} /\ task \in 0..lt
    /\ pc \in {"balance", "save"} => task # 0
    /\ expPc \in {"sync", "expire"}

Sweeps(memo, B) == {b \in B : txs[b].kind = "sweep" /\ txs[b].memo = memo}

\* One sweep of a deposit at a time: of its rows at most one is neither failed
\* nor finished, although the query looks only at the greatest since_lt.
OneOpenSweep ==
    \A m, n \in rows \ failed : finish[m] = 0 /\ finish[n] = 0 => m = n

\* No row is failed whose message the chain has executed, in a saved block or
\* not.  UpdateInternalWithdrawal asserts it ("invalid behavior of the
\* expiration processor") and rolls back the whole block, with all its incomes.
NoExpiredSweep == \A m \in failed : Sweeps(m, 1..Tip) = {}

\* amount is the total of all executions of the message that lie in saved
\* blocks, however often it was executed and in whatever order blocks came.
AmountIsSwept ==
    \A m \in rows :
        amount[m] = SumFunction([b \in Sweeps(m, blockData) |-> txs[b].amount])

\* the incomes of saved blocks that no sweep has followed on the chain
Unmoved == {b \in blockData : txs[b].kind = "income" /\ \A c \in b..Tip : txs[c].kind # "sweep"}

\* No income is forgotten by the query, however many rows have failed, expired
\* or been executed twice before: what lies on the account, and was created
\* after the sweeps before it, is found again as soon as no row is open.
IncomesAreFound ==
    \A b \in Unmoved :
        /\ \A m \in rows \ failed : finish[m] # 0
        /\ \A c \in 1..b : txs[c].kind = "sweep" => txs[c].lt < txs[b].lt
        => txs[b].lt \in UnsweptIncomes

\* "lt > finish_lt condition because all TONs withdraws": an income that the
\* query leaves out for good, one not later than finish_lt, has left the account.
AllTonsWithdrawn ==
    \A b \in Unmoved, m \in rows : finish[m] # 0 => txs[b].lt > finish[m]

\* "For withdrawal in DB we save total amount and last LT for memo": finish_lt
\* is the lt of the last of the saved executions of the message.
LastLtIsSaved ==
    \A m \in rows : \A b \in Sweeps(m, blockData) : txs[b].lt <= finish[m]
============================================================================
