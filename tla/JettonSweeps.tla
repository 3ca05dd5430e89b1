---------------------------- MODULE JettonSweeps ----------------------------
(***************************************************************************)
(* How the Jettons of one deposit reach the hot wallet: the transactions of *)
(* its Jetton wallet, what the scanner makes of them (incomes with and      *)
(* without a notification, the latter found by comparing two balances), and *)
(* the sweep that the hot wallet sends through the proxy contract.          *)
(*                                                                         *)
(* A sweep leaves two traces.  The hot wallet's transaction confirms the    *)
(* sending (sending_lt); the transfer at the Jetton wallet, in the same or  *)
(* a later block, finishes it (finish_lt).  BlockFeed may deliver the two   *)
(* blocks in either order.                                                  *)
(*                                                                         *)
(* Every income is one Jetton.  sending_lt and finish_lt are the sets of    *)
(* memos that have one: the query of this processor only asks for NULL.     *)
(* The message's TTL is the expired_at of its row.                          *)
(***************************************************************************)
EXTENDS BlockFeed, FiniteSetsExt, SequencesExt

CONSTANTS
    ExternalMessageLifetime,  \* config.ExternalMessageLifetime
    WithdrawalCutoff,         \* config.Jetton.WithdrawalCutoff
    TransferFailures,         \* how a transfer may fail: bounced, aborted
    Deployed,                 \* is the Jetton wallet initialised at the start
    MaxTxs,                   \* transactions of the Jetton wallet in a block
    MaxIncomes, MaxMemos      \* bounds

ASSUME JettonAssumption ==
    /\ ExternalMessageLifetime \in Nat
    /\ WithdrawalCutoff \in Nat
    /\ TransferFailures \subseteq {"bounced", "aborted"}
    /\ Deployed \in BOOLEAN
    /\ MaxTxs \in Nat /\ MaxIncomes \in Nat /\ MaxMemos \in Nat

Memos == 1..MaxMemos

VARIABLES
    lt,         \* logical time of the Jetton wallet
    chain,      \* chain[b]: what block b holds: sends, the memos that the hot
                \* wallet sends to the proxy; txs of the Jetton wallet in their
                \* order; its balance after the block
    flying,     \* memos on their way from the hot wallet to the Jetton wallet
    mempool,    \* memos whose message the network has
    worth,      \* worth[memo]: the amount the transfer names
    incomes,    \* payments.external_incomes of the deposit
    rows,       \* memos that have a row of internal_withdrawals
    since,      \* since_lt
    sending,    \* memos with a sending_lt
    finished,   \* memos with a finish_lt
    amount,     \* amount
    failed,     \* memos of failed rows
    expiredAt,  \* expired_at
    pc,         \* where the withdrawals processor stands
    task,       \* task.Lt
    expPc       \* where the expiration processor stands

chainVars == <<lt, chain, flying, mempool>>
rowVars   == <<worth, incomes, rows, since, sending, finished, amount, failed, expiredAt>>
procVars  == <<pc, task>>
vars      == <<feedVars, chainVars, rowVars, procVars, expPc>>

\* the balance of an account that get_wallet_data cannot be run on
NotInitialized == -1

Init ==
    /\ FeedInit
    /\ lt = 0
    /\ chain = <<[sends |-> {}, txs |-> <<>>,
                  balance |-> IF Deployed THEN 0 ELSE NotInitialized]>>
    /\ flying = {} /\ mempool = {}
    /\ worth = [m \in Memos |-> 0]
    /\ incomes = {} /\ rows = {}
    /\ since = [m \in Memos |-> 0] /\ sending = {} /\ finished = {}
    /\ amount = [m \in Memos |-> 0] /\ failed = {}
    /\ expiredAt = [m \in Memos |-> 0]
    /\ pc = "sync" /\ task = 0 /\ expPc = "sync"

----------------------------------------------------------------------------
(* The chain                                                               *)

Balance == chain[Tip].balance

Income   == {"notified", "silent"}                \* Jettons come in
Transfer == {"transfer", "bounced", "aborted"}    \* a transfer message does

\* what a transaction does to the balance
Effect(tx) == CASE tx.kind \in Income -> tx.amount
                [] tx.kind = "transfer" -> - tx.amount
                [] OTHER -> 0

\* the sum of what transactions, or rows of external_incomes, say
EffectOf(txs) == SumFunction([tx \in txs |-> Effect(tx)])
AmountOf(S)   == SumFunction([x \in S |-> x.amount])

IncomesIn(txs) == {tx \in ToSet(txs) : tx.kind \in Income}

\* the incomes of a set of blocks
Received(B) == UNION {IncomesIn(chain[b].txs) : b \in B}

\* a transfer needs its amount on the wallet; it may also fail for other reasons
Possible(kind, memo) ==
    IF kind = "transfer" THEN worth[memo] <= Balance
    ELSE kind \in TransferFailures \/ worth[memo] > Balance

\* the transactions a block may hold, as <<kind, memo>>
Events(memos) ==
    {<<kind, 0>> : kind \in Income}
        \cup {e \in Transfer \X memos : Possible(e[1], e[2])}

Tx(event, n) == [kind |-> event[1], memo |-> event[2], lt |-> lt + 2 * n,
                 amount |-> IF event[2] = 0 THEN 1 ELSE worth[event[2]]]

\* A block.  The hot wallet executes a message once, within its TTL; the
\* messages to proxy and Jetton wallet may all fit into the same block.
Block(utime, sends, events) ==
    LET txs == [n \in DOMAIN events |-> Tx(events[n], n)]
        done == {events[n][2] : n \in DOMAIN events}
    IN /\ ProduceBlock(utime)
       /\ \A m \in sends : utime <= expiredAt[m]
       /\ \A i, j \in DOMAIN events :
              events[i][2] = events[j][2] => i = j \/ events[i][2] = 0
       /\ Cardinality(Received(1..Tip) \cup IncomesIn(txs)) <= MaxIncomes
       /\ lt' = lt + 2 * Len(events)
       /\ chain' = Append(chain,
             [sends |-> sends, txs |-> txs,
              balance |-> IF events = <<>> THEN Balance
                          ELSE Max({0, Balance}) + EffectOf(ToSet(txs))])
       /\ mempool' = mempool \ sends
       /\ flying' = (flying \cup sends) \ done
       /\ UNCHANGED <<rowVars, procVars, expPc>>

----------------------------------------------------------------------------
(* The internal Jetton withdrawals of the withdrawals processor            *)

ExtWaitSync ==
    /\ pc = "sync"
    /\ Synced
    /\ pc' = "query"
    /\ UNCHANGED <<feedVars, chainVars, rowVars, task, expPc>>

\* the rows the incomes are joined with
LatestRows ==
    {m \in rows : /\ rows \ failed # {}
                  /\ since[m] = Max({since[n] : n \in rows \ failed})}

\* Wrong on purpose: without "finish_lt IS NOT NULL".
UnsweptOfOpenRows ==
    {i \in incomes : LatestRows = {} \/ \E m \in LatestRows : i.lt > since[m]}

\* Wrong on purpose: the condition of the TON query, later than the transfer.
UnsweptAsTon ==
    {i \in incomes :
        \/ LatestRows = {}
        \/ \E m \in LatestRows \cap finished :
              \A b \in 1..Tip, n \in 1..MaxTxs :
                  n \in DOMAIN chain[b].txs /\ chain[b].txs[n].memo = m
                      => i.lt > chain[b].txs[n].lt}

\* the incomes for which the query finds work: "lt > since_lt"
Unswept ==
    {i \in incomes :
        LatestRows = {} \/ \E m \in LatestRows : m \in finished /\ i.lt > since[m]}

GetJettonInternalWithdrawalTasks ==
    /\ pc = "query"
    /\ IF Unswept = {}
         THEN pc' = "sync" /\ UNCHANGED task
         ELSE pc' = "build" /\ task' = Max({i.lt : i \in Unswept})
    /\ UNCHANGED <<feedVars, chainVars, rowVars, expPc>>

\* buildJettonInternalWithdrawalMessage takes the whole balance of the moment if
\* it exceeds the cutoff; SaveInternalWithdrawalTask inserts the row
SaveInternalWithdrawalTask(memo) ==
    /\ pc = "build"
    /\ memo \notin rows /\ \A m \in Memos : m < memo => m \in rows
    /\ Balance > WithdrawalCutoff
    /\ worth' = [worth EXCEPT ![memo] = Balance]
    /\ rows' = rows \cup {memo}
    /\ since' = [since EXCEPT ![memo] = task]
    /\ expiredAt' = [expiredAt EXCEPT ![memo] = now + ExternalMessageLifetime]
    /\ pc' = "send"
    /\ UNCHANGED <<feedVars, chainVars, incomes, sending, finished, amount, failed, task,
                   expPc>>

\* nothing above the cutoff, or an error ends the round
SkipTask ==
    /\ pc = "build"
    /\ pc' = "sync" /\ task' = 0
    /\ UNCHANGED <<feedVars, chainVars, rowVars, expPc>>

\* an error of sending is only logged
SendExternalMessage(sent) ==
    /\ pc = "send"
    /\ mempool' = IF sent THEN mempool \cup {Max(rows)} ELSE mempool
    /\ pc' = "sync" /\ task' = 0
    /\ UNCHANGED <<feedVars, lt, chain, flying, rowVars, expPc>>

ExpWaitSync ==
    /\ expPc = "sync"
    /\ Synced
    /\ expPc' = "expire"
    /\ UNCHANGED <<feedVars, chainVars, rowVars, procVars>>

\* Wrong on purpose: without the allowed lag.
ExpiredAtOnce == {m \in rows \ (failed \cup sending) : expiredAt[m] < now}

\* WHERE expired_at < now - lag AND sending_lt IS NULL AND failed = false
Expired ==
    {m \in rows \ (failed \cup sending) : expiredAt[m] < now - AllowableBlockchainLagging}

\* the first UPDATE of SetExpired, some time after the waitSync before it
SetExpired ==
    /\ expPc = "expire"
    /\ failed' = failed \cup Expired
    /\ expPc' = "sync"
    /\ UNCHANGED <<feedVars, chainVars, worth, incomes, rows, since, sending, finished,
                   amount, expiredAt, procVars>>

\* SetExpired returns an error: startExpirationProcessor logs it and goes on
SetExpiredError ==
    /\ expPc = "expire"
    /\ Fault("db")
    /\ expPc' = "sync"
    /\ UNCHANGED <<now, genUtime, blockData, lastKnown, target, current, scanning,
                   chainVars, rowVars, procVars>>

----------------------------------------------------------------------------
(* The scanner                                                             *)

\* every branch of isTxSuccessful returns true
isTxSuccessful(tx) == TRUE

\* processJettonDepositInMsg: what counts as a withdrawal to the hot wallet
Withdrawals(txs) ==
    {tx \in ToSet(txs) : tx.kind \in Transfer /\ isTxSuccessful(tx)}

\* processJettonDepositOutMsgs: a notification to the owner of the deposit
KnownIncomes(txs) == {tx \in IncomesIn(txs) : tx.kind = "notified"}

\* Wrong on purpose: withdrawals of the same block are not added back.
calculateJettonAmountsOfDiff(b) ==
    chain[b].balance - chain[b - 1].balance
        - AmountOf(KnownIncomes(chain[b].txs))

\* what the balances say beyond the known incomes
calculateJettonAmounts(b) ==
    (chain[b].balance - chain[b - 1].balance)
        + AmountOf(Withdrawals(chain[b].txs))
        - AmountOf(KnownIncomes(chain[b].txs))

\* a message that is no notification goes out, or one that is no transfer
\* comes in: true of every transaction a Jetton wallet makes
UnknownFound(tx) == tx.kind # "notified" \/ tx.kind \notin Transfer

\* one entry without amount per unknown transaction, the amount on the first
convertUnknownJettonTxs(txs, total) ==
    LET unknown == {tx \in ToSet(txs) : UnknownFound(tx)}
        firstLt == Min({tx.lt : tx \in unknown})
    IN {[lt |-> tx.lt, amount |-> 0] : tx \in unknown}
          \cup {[lt |-> firstLt, amount |-> total]}

\* processJettonDepositWalletTXs; a notification has its own, later lt
ExternalIncomes(b) ==
    LET txs == chain[b].txs
        unknown == calculateJettonAmounts(b)
    IN {[lt |-> tx.lt + 1, amount |-> tx.amount] : tx \in KnownIncomes(txs)}
          \cup (IF unknown > 0 THEN convertUnknownJettonTxs(txs, unknown) ELSE {})

\* processing fails: a balance cannot be read, or a transfer that counts as
\* successful sent nothing ("anomalous behavior of the deposit Jetton wallet")
Unreadable(b) ==
    /\ chain[b].txs # <<>>
    /\ \/ chain[b - 1].balance = NotInitialized
       \/ \E tx \in Withdrawals(chain[b].txs) : tx.kind = "aborted"

\* processTonHotWalletProxyMsg: the transfers the hot wallet sends to the proxy
SendingConfirmations(b) == chain[b].sends

Finishes(b) == {tx.memo : tx \in Withdrawals(chain[b].txs)}

\* the sending confirmations of a block are applied before its withdrawals:
\* otherwise "invalid event order"
InOrder(b) == Finishes(b) \subseteq sending \cup SendingConfirmations(b)

\* SaveParsedBlockData commits unless processing or one of its updates fails
Commits ==
    /\ NotSavedYet
    /\ ~ Unreadable(scanning)
    /\ (SendingConfirmations(scanning) \cup Finishes(scanning)) \cap failed = {}
    /\ InOrder(scanning)

\* Wrong on purpose: the amount of a row is added at the sending, too.
UpdateInternalWithdrawalTwice(b) ==
    /\ finished' = finished \cup Finishes(b)
    /\ amount' = [m \in Memos |-> amount[m]
          + IF m \in Finishes(b) THEN worth[m] ELSE 0
          + IF m \in SendingConfirmations(b) THEN worth[m] ELSE 0]

UpdateInternalWithdrawal(b) ==
    /\ finished' = finished \cup Finishes(b)
    /\ amount' = [m \in Memos |->
          IF m \in Finishes(b) THEN amount[m] + worth[m] ELSE amount[m]]

SaveParsedBlockData ==
    /\ ScanDone(Commits)
    /\ IF Commits
         THEN /\ incomes' = incomes \cup ExternalIncomes(scanning)
              /\ sending' = sending \cup SendingConfirmations(scanning)
              /\ UpdateInternalWithdrawal(scanning)
         ELSE UNCHANGED <<incomes, sending, finished, amount>>
    /\ UNCHANGED <<faults, chainVars, worth, rows, since, failed, expiredAt, procVars, expPc>>

TimePasses == Tick /\ UNCHANGED <<chainVars, rowVars, procVars, expPc>>

Feed ==
    /\ TrackerPoll \/ TrackerSend \/ TrackerFetchError \/ ScanError
    /\ UNCHANGED <<chainVars, rowVars, procVars, expPc>>

Crash ==
    /\ Restart
    /\ pc' = "sync" /\ task' = 0 /\ expPc' = "sync"
    /\ UNCHANGED <<chainVars, rowVars>>

Next ==
    \/ \E utime \in 0..now, sends \in SUBSET mempool :
          \E events \in SeqOf(Events(flying \cup sends), MaxTxs) : Block(utime, sends, events)
    \/ ExtWaitSync \/ GetJettonInternalWithdrawalTasks
    \/ \E memo \in Memos : SaveInternalWithdrawalTask(memo)
    \/ SkipTask
    \/ \E sent \in BOOLEAN : SendExternalMessage(sent)
    \/ ExpWaitSync \/ SetExpired \/ SetExpiredError
    \/ TimePasses
    \/ SaveParsedBlockData \/ Feed \/ Crash

Spec == Init /\ [][Next]_vars

\* What expiration relies on and the code does not enforce, besides GapsAreYoung:
\* the last saved block does not grow older than the lag between the return of
\* waitSync and the clock reading of SetExpired.
KeepsSync == expPc' = "expire" /\ Synced => Synced'

\* the runs of the service in which both hold
TimelySpec == Init /\ [][Next /\ GapsAreYoung' /\ KeepsSync]_vars

----------------------------------------------------------------------------
(* Properties                                                              *)

\* Type invariant.
TypeOK ==
    /\ FeedTypeOK
    /\ lt \in Nat /\ DOMAIN chain = 1..Tip
    /\ \A b \in 1..Tip : chain[b].sends \subseteq rows /\ chain[b].balance >= NotInitialized
    /\ mempool \cup flying \cup failed \cup sending \cup finished \subseteq rows
    /\ rows \subseteq Memos
    /\ pc \in {"sync", "query", "build", "send"} /\ task \in Nat
    /\ expPc \in {"sync", "expire"}

SendBlock(m) == {b \in 1..Tip : m \in chain[b].sends}
Swept(m, B)  == {b \in B : \E i \in DOMAIN chain[b].txs :
                    chain[b].txs[i].kind = "transfer" /\ chain[b].txs[i].memo = m}

\* One sweep of a deposit at a time: of its rows at most one is neither failed
\* nor finished, whatever blocks are missing or out of order.
OneOpenJettonSweep ==
    \A m, n \in rows \ (failed \cup finished) : m = n

\* The incomes that the API and the notifications report add up to the Jettons
\* that came in with the saved blocks, whether the payer asked for a
\* notification or not, in whatever order blocks were scanned, sweeps in the
\* same block included (processJettonDepositWalletTXs).
IncomesAreReal == AmountOf(incomes) = AmountOf(Received(blockData))

\* amount is what left the Jetton wallet in saved blocks, and a finished row
\* is one whose Jettons did leave.
FinishedIsSwept ==
    \A m \in rows :
        /\ amount[m] = (IF Swept(m, blockData) # {} THEN worth[m] ELSE 0)
        /\ m \in finished <=> Swept(m, blockData) # {}

\* No row is failed that the hot wallet sends: SetExpired looks at sending_lt
\* only, and a block that confirms a failed row is rolled back.
NoExpiredJettonSweep == \A m \in failed : SendBlock(m) = {}

\* Jettons do not stay behind: when all blocks are saved and no sweep is under
\* way, a balance above the cutoff belongs to incomes that the query returns,
\* those that came between the query, the reading of the balance and the
\* execution of the transfer included.
NothingStranded ==
    (/\ blockData = 1..Tip
     /\ pc = "sync"
     /\ rows \subseteq failed \cup finished
     /\ Balance > WithdrawalCutoff)
        => Unswept # {}

\* Asserted by UpdateInternalWithdrawal ("invalid event order") and by the notes
\* on saving intermediate messages: the scanner meets the end of a sweep only
\* after its sending, in the same block or in one saved before.
EventsInOrder == scanning # 0 /\ NotSavedYet => InOrder(scanning)

\* Said by the tests: a Jetton balance can be asked for before the wallet exists.
NothingUnreadable == scanning # 0 => ~ Unreadable(scanning)
============================================================================
