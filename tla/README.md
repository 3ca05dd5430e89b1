# Verification of quadrocycle

quadrocycle is a payment processor for TON. It watches one shard of the
blockchain, books the deposits of its users, sweeps them into a hot wallet and
pays withdrawals out of it. This directory holds TLA+ models of its core, the TLC
configurations that check them and proofs that TLAPS checks.

- [Inventory](#inventory)
- [Modules](#modules)
- [What the runs check](#what-the-runs-check)
- [What is proved](#what-is-proved)
- [Findings](#findings)
- [What is not modelled](#what-is-not-modelled)
- [Plan](#plan)

## Inventory

Four goroutines, one unbuffered channel and one PostgreSQL database:

```
 masterchain --> ShardTracker --blocksChan--> BlockScanner --tx--> block_data,
 (lite server)   (poll, walk)                 (parse, notify)      incomes, withdrawals
                                                                      |
        +-------------------- waitSync: last row of block_data -------+
        v                        v                          v
 withdrawals processor    internal TON processor    expiration processor
 (hot wallet message)     (sweeps of deposits)      (SetExpired)
        |                        |
        +------ external messages to the network ---> blocks ---> ShardTracker
```

| Component | State | Operations | What makes it correct |
|---|---|---|---|
| `ShardTracker` (`core/shard_tracker.go`) | last known shard block, last masterchain block | poll, walk back to the last known block sending headers, error: log and poll again | every block of the hot wallet's line is offered, over splits and merges |
| `BlockScanner` (`core/block_scanner.go`) | none of its own | take a header, read and decode the block, notify, save everything in one transaction; error: log and go on | a saved block is fully applied; no block is lost |
| external withdrawals (`startWithdrawalsProcessor`) | `withdrawal_requests`, `external_withdrawals` | wait, sleep, build one message for many requests, save its rows, send | a request is paid once, and only then reported |
| composition of the message (`buildWithdrawalMessages`) | balance sheet, used addresses | three loops: service, internal Jetton, external | covered by the balance, distinct destinations, bounded length |
| expiration (`startExpirationProcessor`, `SetExpired`) | `failed` columns | fail unconfirmed rows past their TTL and the allowed lag, release their requests | never fails what the chain has executed |
| internal TON withdrawals | `external_incomes`, `internal_withdrawals` | find deposits with new incomes, save a row, send a message that empties and destroys the account | one sweep at a time, amounts add up, nothing left behind |
| Jetton deposits (`processJettonDepositWalletTXs`) | `external_incomes` | notified incomes from messages, the others from the balances at two blocks | incomes add up to what came in |
| internal Jetton withdrawals | `internal_withdrawals` (`sending_lt`, `finish_lt`) | sent by the hot wallet through a proxy, confirmed by two blocks | one sweep at a time, amounts add up, nothing left behind, also when the blocks come in the wrong order |
| service withdrawals | `service_withdrawal_requests` (`filled`, `processed`) | one goroutine fills a TON deposit or empties a proxy, another sends the Jettons of a filled deposit | recorded before sent, sent once, settled |
| cold wallet | `withdrawal_requests` with `is_internal` | request the surplus of the hot wallet | the hot wallet keeps its maximum |
| notifications | none | queue and webhook, before the block is saved | no income without a notification, no block waits for ever |
| wallets (`InitWallets`, `AddressUsecases`) | `ton_wallets`, `jetton_wallets` | hot wallets at start; next subwallet id, derive, insert | one owner per address, one seed |
| address book, income queries | — | joins of the two tables | the right owner, every income reported once |
| API, start, shutdown | — | decode requests; start and stop the goroutines | — |

What is hard here, and hard to test:

- **Order.** The tracker hands headers over newest first, while everybody else
  takes the greatest seqno of `block_data` for "everything up to here is known".
- **Clocks.** Expiration compares the service's clock with a TTL that the
  validators enforce with theirs, through the age of the last saved block.
- **Retries.** A failed row releases its request for another message. Nothing on
  the chain ties the two messages together, so a row that is failed wrongly is a
  second payment.
- **Two tables, three transactions.** Requests and rows are kept in step by the
  transactions that create, confirm and expire, in different goroutines under READ
  COMMITTED.
- **Restarts** at any point, with `log.Fatal` as the error handling of the
  withdrawals processor.
- **Notify, then save.** A notification cannot be taken back, and the attempts to
  deliver one use up the time in which the block has to be stored.
- **Two goroutines, two flags.** `filled` and `processed` of a service request are
  written by both without looking.
- **Balances as evidence.** Jettons that come without a notification are known only
  as the difference of two balances, in a block that may also hold sweeps.
- **Messages that are executed again**: a swept deposit is destroyed, its seqno
  starts over, and the old message is valid for the next income.

`PROJECT.json` lists these hazards line by line with the properties that cover
them.

## Modules

| Module | Models | Relation |
|---|---|---|
| `BlockFeed` | tracker, channel, scanner loop, restart, over a linear chain | extended by the next four |
| `Notifications` | `processBlock`: read, announce, store; queue, webhook, timeouts | extends `BlockFeed` |
| `ExternalWithdrawals` | requests, message, rows, execution, confirmation, expiration | extends `BlockFeed`, implements `WithdrawalLedger` |
| `TonSweeps` | incomes and sweeps of one TON deposit | extends `BlockFeed` |
| `JettonSweeps` | incomes and sweeps of one Jetton deposit | extends `BlockFeed` |
| `WithdrawalLedger` | what the service promises: queued, sent, perhaps queued again, paid once, reported | abstract specification |
| `ShardTracker` | shard words, splits, merges, choice of the parent | implements `BlockFeed` |
| `WithdrawalBatch` | one round of the withdrawals processor: cold wallet, `buildWithdrawalMessages` | stands alone; `ExternalWithdrawals`, `JettonSweeps` and `ServiceWithdrawals` see it as "some of the tasks" |
| `ServiceWithdrawals` | service requests and the two goroutines that serve them | stands alone |
| `Wallets` | initialisation, new deposit addresses, joins of the wallet tables | stands alone |
| `MCExternalWithdrawals`, `MCNotifications`, `MCWallets` | functions and sequences for TLC | |
| `MCShardTracker` | the assumption that ties the comparison of prefixes to `^` and `bits.LeadingZeros64`, for TLC to evaluate | |
| `BlockFeedProofs`, `NotificationsProofs`, `ExternalWithdrawalsProofs`, `TonSweepsProofs`, `JettonSweepsProofs` | theorems about the module of that name | those of the four modules that extend `BlockFeed` reuse the lemmas of `BlockFeedProofs` |
| `BatchShardProofs` | theorems about `WithdrawalBatch` and `ShardTracker` | the two share the lemmas only |
| `WalletsServiceProofs` | theorems about `Wallets` and `ServiceWithdrawals` | the two share the lemmas only |
| `FiniteSums` | lemmas about sums over finite sets and least elements | used by `TonSweepsProofs`, `JettonSweepsProofs` and the two above |

A module's `TypeOK` (`FeedTypeOK` in `BlockFeed`, `ServiceTypeOK` in `ServiceWithdrawals`) says what its variables are; those of
`BlockFeed` and `ExternalWithdrawals` are also checked by a run.

### BlockFeed

`genUtime` is the chain: `genUtime[b]` is the generation time of the shard block
with seqno `b`. It never decreases; a block may become visible long after its
generation time. `current`, `target` and `lastKnown` are the tracker's
`currentBlock`, the block the walk began with and `lastKnownShardBlock`;
`scanning` is the header the scanner has taken from the channel. The channel is
unbuffered, so `TrackerSend` needs an idle scanner. `ScanDone(commits)` ends the
work on a block: the transaction commits, or it is rolled back and the error is
logged; either way the scanner goes on with the next header. A block that is
already saved hits the unique key of `block_data`, which is the `NotSavedYet` of a
commit. `Restart` is a crash at any point followed by `main`: everything in memory
is gone and the tracker continues from the greatest saved seqno.

`FaultKinds` says which failures an instance contains: `fetch` (a header cannot be
read), `scan` (a block cannot be processed), `webhook` (an attempt to deliver fails),
`crash`, `db` (SetExpired fails).

`GapsAreYoung` says that below the last saved block only blocks younger than
`AllowableBlockchainLagging` are missing. The expiration processor relies on it
and the code does not enforce it (15 s of allowed lag, 30 s between two polls,
newest first). Runs and theorems that need it use a `TimelySpec`, in which every
step keeps it; `external_newest_first` shows what happens without it.

### Notifications

`Notifications` replaces the feed's one-step scan by what `processBlock` does: `ReadBlock`
(all of reading, filtering and decoding), one `Publish` per income and notificator, and
`SaveBlock`. The queue's `Publish` succeeds or fails; the webhook's makes up to
`Attempts` attempts, each of which may last `ClientTimeout`. Publishing does not run in
the context of `processBlock`, storing does: every attempt adds its delay to `elapsed`,
the ones that succeed too (less than `ClientTimeout` each), and when `elapsed` has reached
`ScanTimeout`, `SaveBlock` fails. A slow receiver alone can lose a block in this way. Retries reuse one `http.Request`; whether an attempt
after a body that was sent can succeed depends on the connection, and both are possible
in the model. `dropped` and `skipped` are history: they say why a row is missing.

### ExternalWithdrawals

A boolean column is the set of keys for which it holds, a row of
`external_withdrawals` is a pair of message and request (the table's key is message
and address; a message has one payment per address). The withdrawals processor
moves through `sync`, `sleep`, `save`, `send`; the expiration processor through
`sync`, `expire`. The highload wallet is external: a message of the mempool is
executed at most once, in a block not past its TTL, and any subset of its payments
is made.

The expiration processor relies on two things that the code does not enforce. One is
`GapsAreYoung`. The other is `KeepsSync`: the service, in sync when `waitSync` returns, is
still in sync when `SetExpired` reads its own clock. `SyncDelay` bounds the time between the
two in an instance; the theorems have no bound. `TimelySpec` are the runs in which both
hold, `YoungGapsSpec` and `KeptSyncSpec` those in which only one does, `Spec` are all.

Transactions overlap in one way that matters. `UpdateExternalWithdrawal` reads
`failed` without a lock, so `SetExpired` may commit between that SELECT and the
updates; `SaveAcrossExpiry` is that pair of transactions as one step, and a step of `Next`.
`TonSweeps` needs no such step: the confirmation of a
sweep starts with `UPDATE ... RETURNING failed`, which locks the row.

### TonSweeps

One deposit wallet; every income is one unit and has the logical time at which its
message was created. `travelling` holds incomes that were created and not yet
delivered: a sweep may be executed in between. `Sweep` may execute the same message
again while its TTL lasts. `SendDelay` bounds the time between the reading of the
clock for `expired_at` and the one for the TTL of the message. The balance is read in one
step and the row inserted in another. `ExpWaitSync` and `SetExpired` are two steps, with any
time between them. A message lives up to `SendDelay` longer than its row says, so
`TimelySpec` asks for a margin of that much: gaps in `block_data` and the last saved block,
from `waitSync` to the clock reading of `SetExpired`, stay younger than the lag by
`SendDelay`.

### JettonSweeps

One Jetton deposit. A block holds the memos that the hot wallet sends to the proxy in
it, the transactions of the Jetton wallet in their order, and the balance after it, so
that everything `processJettonDepositWalletTXs` looks at is there: incomes `notified`
and `silent`, transfers that succeed, bounce (`bounced`) or abort without any message
(`aborted`). The proxy passes a message on at once or in a later block (`flying`).
`isTxSuccessful` is TRUE in all its branches, and so it is here; a transfer fails when
the wallet holds less than its amount, and for any reason in `TransferFailures`.
The balance of a wallet that was never deployed is `NotInitialized`. A transaction has
an even logical time and its notification the odd one after it: the code stores a known
income with the time of the notification and an unknown one with that of the transaction.
The other payments of the hot wallet's message are left out. `ExpWaitSync`, `SetExpired`,
`KeepsSync` and `TimelySpec` are those of `ExternalWithdrawals`; the TTL of the hot wallet's
message is `expired_at` itself.

### ShardTracker

Shard words are numbers of `WordWidth` bits (64 in the code), the service's shard a
byte of `ByteWidth` bits (8 in the code). `isInShard` shifts the byte to the front of a
word (`Shifted`) and compares the number of leading zeros of the exclusive or with the
length of the prefix. These zeros are the leading bits that the two words share, and
`LeadingZerosXor` counts them so, by division with powers of two, which the provers can
reason about; `MCShardTracker` has TLC compare this with the exclusive or of `Bitwise`
for all pairs of words. The masterchain commits one extension,
split or merge at a time. `line` is history: the blocks that contain the service's
byte, oldest first. The refinement maps a block to its position on the line.

### WithdrawalBatch

`Init` enumerates the tables and balances. The first action is
`makeColdWalletWithdrawals`; the status that `GetInternalWithdrawalStatus` answers is any,
since the query takes any request of the cold wallet, those paid long ago included. Then come the bodies of the three loops and the
queries between them. What the chain says about a deposit is a
choice (`hasFunds`). `messages` records for each payment the destination by which
the scanner will tell payments apart and what it takes from the hot wallet. An error of
the node or the database ends the process (`ColdWalletError`, `BuildError`): what was saved
until then stays, what was built is gone.

### ServiceWithdrawals

An account holds TONs, or foreign Jettons, or not. The withdrawals processor moves
through `query`, `build`, `save` (one UPDATE per request) and back, the internal
processor through `query`, `task`, `send`. `UpdateServiceWithdrawalRequest` sets both
flags whatever they were, as its SQL does. `FatalTask` is the `log.Fatalf` that a request
meets when its Jetton wallet does not exist. A message may be lost (`Lose`), and the
sweep of an income may take the TONs of a fill (`Sweep`); these, crashes, errors of the
node and a hot wallet without funds share the bound `MaxFaults`. `Sent` is history: the
messages in the mempool and those that are `gone`, executed or lost.

### Wallets

An address is the tuple it is derived from. `Start` begins `InitWallets` with some seed
and configuration; `InitTonHotWallet` and one `InitJettonHotWallet` per currency follow,
and `Stop` may come between any two. A request reads the last id, derives, and inserts in
two steps, so that two requests overlap; an answer may be lost after the insert. Which
ids lie in the shard is given (`TonInShard`, `JettonInShard`). The joins that the address
book, `GetAddresses` and `getIncome` make are operators over the tables; an income is
the deposit address it is stored with.

## What the runs check

Every cfg disables the deadlock check: the bounds on time, blocks and messages end
every behaviour. Bounds are constants named `Max...`; the lag and the lifetime of a
message are 1, the period 2, which keeps the order of the real values
(`ExternalWithdrawalPeriod > ExternalMessageLifetime`) and makes expiry, retry and a second execution
fit into a few ticks.

| Run | Property | Meaning |
|---|---|---|
| `notifications` | `FeedTypeOK`, `SavedIsNotified`, `LossesExplained`, `EveryBlockSettled`, `ServiceCatchesUp` | under all failures: what is stored was announced; every missing row is that of a scan that failed or took too long or of a restart, never of the handover; every block is settled; the last saved block follows the chain, so that `waitSync` returns |
| `external` | `TypeOK`, `OneOpenRow`, `PaidAtMostOnce`, `NoExpiredPayment`, `ConfirmedOrFailed`, `ConfirmedIsPaid`, `FailureIsRecorded`, `NoOverlappingMessages`, `ImplementsLedger`, `ConfirmedForever` | in timely runs, with a pause before `SetExpired`, overlapping transactions, a restart or another failure |
| `shard_walk` | `ExactlyOneShard`, `WalkFollowsLine`, `ImplementsBlockFeed`, `TrackerReachesLine` | splits and merges, with all failures; an abandoned walk is made good after the next masterchain block |
| `sweeps` | `OneOpenSweep`, `AmountIsSwept`, `NoExpiredSweep`, `IncomesAreFound` | late incomes, repeated execution, a message that lives a tick longer than its row says, failed rows, blocks in any order |
| `jetton_sweeps` | `OneOpenJettonSweep`, `IncomesAreReal`, `FinishedIsSwept`, `NoExpiredJettonSweep`, `NothingStranded` | silent and notified incomes with sweeps in one block, sending and finish in one or two blocks, in either order |
| `batch_build` | `ColdLeavesMaximum`, `NeverOverdrawn`, `UniqueDestinations`, `MessageFits`, `EveryRequestDecided` | every table content and balance within the bounds, an error anywhere |
| `service` | `SentIsRecorded`, `SentOnce`, `RequestsSettled` | two requests, also of one owner, and one failure anywhere |
| `wallets` | `AnswersAreOwn`, `OwnersAreRight`, `OneSeed`, `IncomeReportedOnce` | two overlapping requests, two starts with other seeds and configurations |

Why the bounds suffice. Feed: five blocks contain a walk of four, an
abandoned walk, a restart in it and a block that comes after; two failures contain both
attempts of a webhook (the limit of two stands for three), or a timeout for each of two
incomes, both announced in the end and too late to be stored; two slow deliveries of two ticks
use up the four of the context without a failure. External
withdrawals: two messages and a time of 7 contain send, expiry, retry and the
execution of both (`external_newest_first` finds its counterexample
with the same time and messages and one more block). Sweeps: two incomes and two messages contain a second
execution of one message (five blocks: two incomes, two sweeps) and a failed row
followed by a new one; the delay of one tick before sending is as long as the lag, so that
a message can be executed when its row has expired. Jetton sweeps: two transactions in a block contain every pair of
income and transfer, four blocks a sending and a finish apart with an income between
them and one after. Shards: bytes of two bits and
words of four contain prefixes of length 0, 1 and 2, the boundary of `isInShard`
included; four blocks of the line contain a split, a merge and a walk across both. Batch:
a limit of 2 is exceeded by three known addresses and two requests, and balances of 0, 3 and 4
lie below and above both maxima, at that of Jettons and, less the TONs that carry a Jetton request,
at that of TONs. Service: two
requests contain two of one owner (DISTINCT ON) and one whose Jetton wallet is missing.
Wallets: ids 2 to 5 below a `MaxUint32` of 6 contain the end of the range, two starts
contain another seed, a renamed currency, and two currencies of one master.

**Fairness.** `FeedFairness` (in `feed_restart`) is weak fairness of the tracker's poll and send and of
the scanner: each is a goroutine in an endless loop, and its step stays enabled
until it is taken. `FairSpec` of `ShardTracker` adds weak fairness of new
masterchain blocks, because an abandoned walk is only repeated for a masterchain
block that has not been seen: the masterchain produces one every few seconds.
`Notifications` has weak fairness of the tracker's loop (polling or offering) and of the
scanner's (its steps that succeed), one condition for each goroutine: reading has the deadline of the context, a dead connection to the broker is
ended by its heartbeat, and the `http.Client` has a timeout, so no call lasts for ever.
`WithdrawalBatch` has weak fairness of the round itself, not of its errors. `ServiceWithdrawals` has it for
each of the two goroutines, and for the execution of a fill, which the validators include
unless it is lost; nothing is assumed about withdrawals. Failures and ticks are
never fair. Every failure is bounded by `MaxFaults`; without a bound none of the
liveness properties could hold.

## What is proved

For every value of the constants. `NotificationsProofs` leaves the fairness of its
`Spec` out of the hypothesis. `Spec` and `TypeOK` are those of the module the theorem is
about; in `BatchShardProofs` and `WalletsServiceProofs`, which extend two modules each,
`TrackerSpec` and `ServiceSpec` are the second one's, and `TypeOK` is `ShardTracker`'s in
the former and `Wallets`' in the latter.

| Theorem | States |
|---|---|
| **`BlockFeedProofs`** | |
| `FeedTyped` | `FeedSpec => []FeedTypeOK` |
| `NoHeaderLost` | without `scan` and `crash` in `FaultKinds`, `FeedSpec => []NothingSkipped` |
| **`NotificationsProofs`** | |
| `ScannerTyped` | `Init /\ [][Next]_vars => [](FeedTypeOK /\ TypeOK)` |
| `NoUnexplainedLoss` | `Init /\ [][Next]_vars => []LossesExplained` |
| `StoredIsAnnounced` | `Init /\ [][Next]_vars => []SavedIsNotified` |
| **`ExternalWithdrawalsProofs`** | |
| `Typed` | `Spec => []TypeOK` |
| `OneRowPerRequest` | `Spec => []OneOpenRow` |
| `ConfirmationsAreTrue` | `Spec => []ConfirmedIsPaid` |
| `FailuresAreRecorded` | `Spec => []FailureIsRecorded` |
| `NoOverlap` | `Spec => []NoOverlappingMessages` |
| `ExpiryIsSafe` | `TimelySpec => []NoExpiredPayment` |
| `NoDoublePayment` | `TimelySpec => []PaidAtMostOnce` |
| `OverlapIsHarmless` | `TimelySpec => []ConfirmedOrFailed` |
| `ConfirmedIsFinal` | `TimelySpec => ConfirmedForever` |
| `LedgerImplemented` | `TimelySpec => ImplementsLedger` |
| **`TonSweepsProofs`** | |
| `Typed` | `Spec => []TypeOK` |
| `NoIncomeForgotten` | `Spec => []IncomesAreFound` |
| `OneSweepAtATime` | `Spec => []OneOpenSweep` |
| `AmountsAreExact` | `Spec => []AmountIsSwept` |
| `NoSweepExpired` | `TimelySpec => []NoExpiredSweep` |
| **`JettonSweepsProofs`** | |
| `OneJettonSweepAtATime` | `Spec => []OneOpenJettonSweep` |
| `NoJettonSweepExpired` | `TimelySpec => []NoExpiredJettonSweep` |
| `JettonTyped` | with `TransferFailures = {}`, `TimelySpec => []TypeOK` |
| `FinishedIsTrue` | with `TransferFailures = {}`, `TimelySpec => []FinishedIsSwept` |
| `IncomesAddUp` | with `TransferFailures = {}`, `TimelySpec => []IncomesAreReal` |
| `NoJettonsStranded` | with `TransferFailures = {}`, `TimelySpec => []NothingStranded` |
| **`BatchShardProofs`** | |
| `DestinationsUnique` | `Spec => []UniqueDestinations` |
| `MessageFitsWallet` | `Spec => []MessageFits` |
| `HotWalletCovers` | `Spec => []NeverOverdrawn` |
| `ColdTakesSurplus` | `Spec => []ColdLeavesMaximum` |
| `ShardsPartitionBytes` | `TrackerSpec => []ExactlyOneShard` |
| `ParentsFormTheLine` | `TrackerSpec => []WalkFollowsLine` |
| `TrackerTyped` | `TrackerSpec => []TypeOK` |
| `TrackerImplementsFeed` | `TrackerSpec => ImplementsBlockFeed` |
| **`WalletsServiceProofs`** | |
| `WalletsTyped` | `Spec => []TypeOK` |
| `AddressesAreOwn` | `Spec => []AnswersAreOwn` |
| `OwnersAreFound` | `Spec => []OwnersAreRight` |
| `SeedIsKept` | `Spec => []OneSeed` |
| `IncomesReported` | `Spec => []IncomeReportedOnce` |
| `ServiceTyped` | `ServiceSpec => []ServiceTypeOK` |
| `RecordedBeforeSent` | `ServiceSpec => []SentIsRecorded` |
| `NoRequestSentTwice` | `ServiceSpec => SentOnce` |

Assumptions: the constants are naturals or finite sets, a byte is shorter than a word, `ExternalWithdrawalPeriod >
ExternalMessageLifetime` (from `config.go`), and those named in the theorem. Each of the
latter is needed, and a run or a changed cfg shows it: `external_newest_first` for the
young gaps of `TimelySpec`, and the list under [Findings](#findings) for `KeepsSync`, the
margin of the sweeps and `TransferFailures`. `Spec` of `ExternalWithdrawals` contains the
overlap of transactions and every pause. With `TransferFailures = {}`
a transfer still fails when the wallet holds less than its amount, and the proof shows that
this does not happen.

*The feed.* `FeedStep` is the weakest step that every module built on the feed
takes; `FeedTypeStep` proves the type invariant for it once, and a lemma
`NextIsFeedStep` in each of the four modules shows that its steps are such. `NothingSkipped` is
inductive together with the type invariant. `LossesExplained` is its counterpart for every failure:
a step that ends a scan puts the block into `blockData` or `dropped`
(`ScanAccounts`), and a restart, which moves `lastKnown` up to the greatest saved block,
puts everything it passes over into `skipped`.

*Announcements.* The scanner counts notifications in one number, from which the income
and the notificator follow by division. `Announced` says that everything below the
counter was accepted for the block being scanned; `AcceptAnnounces` rests on the
uniqueness of quotient and remainder (`DivisionUnique`).

*The tables.* None of the table properties is inductive alone. `TablesInv` adds
`Books`: a batch holds no request that is processing (the query excludes them and
only the one processor marks them), the message being saved is newer than every row
and unknown to the network (so no new row belongs to an executed message), and only
messages of the mempool are executed. With these, creating rows keeps one open row
per request, and saving a block confirms exactly its payments. Nothing is assumed
about time, gaps or failures, and the two transactions may overlap: whatever goes wrong in
the feed, a request has one open row, and confirmed rows and failures are those of the saved
blocks. What cannot be had without timing is that no row is both confirmed and failed
(see [Findings](#findings)); that is `OverlapIsHarmless`.

*The period.* `Overlap` bounds every TTL by `now + ExternalMessageLifetime` and, while the
processor sleeps, by the end of its sleep; restarts keep it because they send the
processor back to before the sleep.

*Payments.* `PaymentInv` adds `ChainInv` (block times do not decrease and a message
is executed in a block not past its TTL), `GapsAreYoung` and `ExpiryInv`, and that the
service is in sync while the expiration processor stands before `SetExpired` (from
`KeepsSync`; a commit only makes the last saved block newer, and a crash sends the processor
back to its `waitSync`). The argument is in `ExpiredUnmined`: when `SetExpired` runs, the
last saved block `n` is at most the allowed lag old, and a row it takes has `TTL < now - lag <=
genUtime[n]`. Had a block executed the message, that block would be no younger than
the TTL, so below `n` and older than the lag, hence saved; but a saved block has
confirmed or failed the row already. And no later block can execute it, since its
time is at least `genUtime[n]`. So the rows that expire and the rows of the block
being scanned are different ones, which is why the overlap of the two transactions
does no harm in timely runs (`AcrossStep`). `PaidAtMostOnce` follows: paid rows are
open rows, and a request has one.

*The ledger.* `StepIsLedgerStep` maps every action. Saving the rows of a batch is a
`Dispatch` of its requests. An execution is a `Pay` of those it pays (`MineIsPay`): their
rows are open, so no other message has paid them. `SetExpired` and the transaction of the
scanner, alone or overlapping, are a `Settle` (`ReleaseIsSettle`): the requests that are
released have no payer, by `ExpiryIsSafe`, and those that are reported have one.

*Sweeps of TON deposits.* `LogicalTime` orders the blocks of the deposit by the
logical times in them and says that `finish_lt` is the time of a sweep on the chain. With
`SavedIncomes` (the incomes of the saved blocks are in the table) `IncomesAreFound` follows: if
the query joins with rows at all, one of them has not failed and is finished, and its
`finish_lt` is the time of a sweep that lies before the income.
`OpenIsLatest` is what the query relies on
without saying so: the open row has the greatest `since_lt`, and no row has a later one.
`Expiry` is the argument of `ExpiredUnmined` for `expired_at`, with two differences: a
message may be executed again, and its TTL is up to `SendDelay` later than `expired_at`, which
the margin in `TimelySpec` makes up for. `AmountIsSwept` is a sum over the saved blocks that hold
the sweep; saving one adds one term (`SweptMore`).

*Sweeps of Jetton deposits.* `OpenIsLatest` as above. `Placed` says
where a sweep is: in the mempool, flying or done, and in at most one block as a sending and
in at most one as a transfer, not before it. `Saved` relates `sending_lt`, `finish_lt` and
`amount` to the saved blocks, and `Expiry` is the argument about the TTL. `Solvent`
then shows that a transfer finds its Jettons: only the open sweep can still
arrive, it was built from a balance that was there, and nothing else takes Jettons
away. So every transfer succeeds, which is what `isTxSuccessful` supposes.
`Spaced` and `Books` are the accounting: logical times two apart keep the incomes of all blocks
distinct, so that sets of incomes can be added up, and the difference of the
balances around a block plus what was withdrawn in it less what was notified is what came
in silently (`IncomesOfBlock`). `Recorded` and `Residue` say that what the balance has
above the amount of the open or last sweep came after the `since_lt` of its row, in
blocks whose incomes the query returns once they are saved.

*The message.* `TasksFit` bounds what is still to come in a loop by what its query may
return: the first loop never looks at the length of the message and is held by the
`LIMIT` only. `SheetIsSafe` says that the sheet plus what the message costs is at most
the balance at the beginning.

*Wallets.* `From(s)` says that every row is derived from one seed `s` and that a process
that has got past its hot wallet has this seed: the first row of `ton_wallets` is the hot
wallet's, and the comparison at the start does the rest. A Jetton wallet of a
deposit goes with the row of its owner, of the same id and user, and a proxy is derived from
the hot wallet. Ids of deposits are greater than
the hot wallet's, because every id is below `MaxUint32` and the addition does not wrap
around (`NextId`). `Keys` are the unique keys, and with them a row of
`jetton_wallets` joins one of `ton_wallets` (`JoinOfJetton`). `Served` ties an answer to the row
it was made from; two answers differ because their ids do.

*Shard words.* A word is an odd multiple of its lowest bit (`WordForm`). `InInterval`
turns the test on bits into one on numbers: `isInShard` holds of a word `w` with lowest
bit `Low(w)` exactly when the shifted byte lies in the half-open interval from
`w - Low(w)` to `w + Low(w)`. The root covers everything (`RootCovers`), and the two halves
of a word are two intervals that meet in the middle (`HalvesShare`): only words with a
prefix shorter than a byte are split, and a byte is shorter than a word, so the lowest bit
can be halved. What `Power` computes is not taken from the recursive definition by the
provers: `PowersExist` shows by descent that the recursion has a solution.

*The line.* `TakesOver` is what an extension, a split and a merge have in common: the new
blocks cover the bytes of the old ones, each byte once, with greater seqnos. `ChainInv`
is inductive because of it: exactly one head per byte, the newest block of
the line is the head of the service's byte, seqnos increase along the line, and of a
block's parents exactly one, the block before it, contains the byte.

*The walk.* `WalkAt` names the positions on the line of the last known block, the
current one, the target and the one being scanned, and `WalkInv` says that there are such
positions and that `block_data` holds blocks of the line. `PositionOf` gives back the
position from the block (seqnos are distinct on the line), so each step of the
tracker is the step of `BlockFeed` between the positions. `ParentIsPrevious` makes a send
go down by one, and `LastSavedOnLine` a restart, which orders by seqno across shards,
go to the greatest saved position. A masterchain block without a block of the line is a
stutter.

*Service withdrawals.* `ServiceInv` says what each goroutine holds between its query and
its UPDATE. The withdrawals processor's tasks are neither filled nor processed,
and what it has built is not recorded before `save`; in `save`, what has left its list is
recorded (`HotHoldsOpen`, `HotRecords`). The internal processor's tasks are filled, and
the one it is about to send is processed (`InternalHoldsFilled`). The other goroutine does not
change this behind their backs, since one takes only what is not filled and
the other only what is. `StillUnsent` then says that nothing in either hand has been
sent, and both properties follow.

*Sums.* The theorems about sums need what `SumFunction` computes, and the library's
induction theorems cannot be instantiated by the provers (see below). `FiniteSums` gets
by without: the least size of a set that violates a statement exists
(`LeastSize`, from the well-foundedness of `<`), and a smaller violation follows from one. In this
way it is shown that a sum does not depend on the order in which the definition picks the
indices, grows by the term that is added, and can be split and reindexed.

Only model-checked: every liveness property (`EveryBlockSettled`, `ServiceCatchesUp`,
`TrackerReachesLine`, `EveryRequestDecided`, `RequestsSettled`), since the prover has
neither fairness nor `ENABLED`; and `XorAssumption` of `MCShardTracker`, since `Bitwise` is
recursive. Every other property of a passing run is also a theorem. Induction with an operator as a
parameter is out of reach, so statements about recursive definitions are proved only
where descent on a set of naturals will do.

## Findings

Four runs are expected to end in a violation. Each states what a document, a
comment or an assertion of the repository says.

- `feed_restart`: a restart during a walk loses the blocks below the walk's
  position, since they are sent newest first and the tracker restarts from the
  greatest saved seqno (technical notes: "resistant to restart and long downtime").
- `external_newest_first`: with no failure at all, a walk that takes longer than the
  allowed lag lets `SetExpired` release a request that an older, unsaved block has
  paid; it is paid twice. `waitSync` is described as the defence against this.
- `jetton_first_income`: the block with the first income of a Jetton wallet is lost,
  because the balance of the wallet before it existed is an error. A test of the
  repository expects that balance to be zero. The same error stops the service
  (`log.Fatalf`) and stops it again after every restart when it concerns a Jetton wallet of
  the hot wallet that was never used, or a service request for such a wallet.
- `jetton_order`: the block that finishes a Jetton sweep is turned down ("invalid event
  order"), and lost, when it is scanned before the one that sends it, which a walk over
  both does without any failure. The deposit then has an open row for ever.

The modules state more of what the repository says and the code does not do. Each of these
is violated in the instance of a passing run, once its cfg is changed as said:

- `SPECIFICATION YoungGapsSpec` in `External.cfg` violates `NoExpiredPayment`. `SetExpired`
  reads the clock again after `waitSync`, and any pause between the two that uses up what is
  left of the lag, one tick here, fails a row that was paid, with every gap young and no
  failure; the scanner's own check calls this "invalid behavior of the expiration
  processor" (`db/repository.go:362-365`).
- The same specification violates `ConfirmedOrFailed`: after such a pause `SetExpired` may
  commit between the scanner's test of `failed`, which locks nothing, and its update. The
  row is then confirmed and failed and its request released; the check just named does not
  see it.
- `INVARIANT AllTonsWithdrawn` in `Sweeps.cfg`: an income created before a sweep and
  delivered after it is older than `finish_lt`. It stays on the deposit until another income
  comes, where the query's comment says "all TONs withdraws"
  (`db/withdrawal-repository.go:293`).
- `INVARIANT LastLtIsSaved` in `Sweeps.cfg`: the technical notes (125-126) say that the last
  LT of a sweep executed twice is saved; with blocks scanned newest first it is the earlier
  one.
- `INVARIANT HotIncomeReported` in `Wallets.cfg`: `SaveInternalIncome` stores Jettons under the
  address of the proxy (the conversion is commented out, `db/repository.go:238-250`) and
  `getIncome` joins on that of the Jetton wallet, so with `DEPOSIT_SIDE_BALANCE=false`
  these incomes are reported to nobody.
- `PROPERTY StopsUndelivered` in `Notifications.cfg`: the README (167-169) says the service
  stops with an error when a notification cannot be delivered. It logs the error, loses the
  block and goes on.

More about the boundaries of the passing runs:

- A delay between `expired_at` and the TTL without the margin of `TimelySpec` (`SendDelay = 1`
  with a lag of 1 used up) lets a sweep be executed whose row is failed.
- A block can be lost to a receiver that answers late without ever failing:
  `ServiceCatchesUp` counts only blocks whose incomes such a receiver cannot delay past the
  context of `processBlock`.
- `TransferFailures = {"bounced"}` in `JettonSweeps.cfg` violates `IncomesAreReal`: a
  transfer that fails counts as a withdrawal, and its amount as an income of unknown
  origin.
- `ColdLeavesMaximum` is about one round. The status that `GetInternalWithdrawalStatus`
  reads is that of any request of the cold wallet, and nothing updates it, so further
  rounds with a surplus can add requests whose sum takes the hot wallet below its maximum. In the
  schema of this commit the column is NOT NULL without a default and the INSERT leaves it
  out, so already the first such request, and any other, ends in an error.
- `RequestsSettled` allows a filled request to wait for ever when its fill was lost or
  swept; five of them fill the LIMIT of `GetServiceDepositWithdrawalTasks` for good. A
  request whose message was lost after `processed` was set is never sent again.
- A start that fails on two currencies of one master leaves the row of the first, which a
  later start with the names exchanged will not accept. A currency that is given another
  master is accepted: there is a wallet for the new one, and nothing compares the two.

## What is not modelled

- HTTP, AMQP, cell layouts, key derivation, node calls: I/O and encoding.
- Income history, sums and pagination: read-only SQL.
- The address book as a map that is filled while the service runs: the line that would
  do so is commented out. Models take the set of known addresses as given.
- Graceful shutdown: `waitSync` also returns when it is requested. A stop is a crash
  in the models, at any point; that the channel is closed under the tracker is not one.
- `confirmed` of a Jetton payment (the excesses message): written and never read.
- Cold wallet requests over several rounds. They enter `ExternalWithdrawals` as any other
  request does, through `CreateWithdrawalRequest`, at any time.
- Several deposits at once in `TonSweeps` and `JettonSweeps`: the queries group by deposit
  and the rows of one do not touch those of another; the LIMIT of a round is the subject of
  `WithdrawalBatch`.

The repository is in the middle of a refactoring, and the models describe the code
as its parts are meant to be connected. These connections are missing at this
commit: `main` uses the start block without a row to take it from (the models start
with one row in `block_data`); `GetLastSavedBlock` scans into an embedded pointer that
is nil; the withdrawal repository and the address book of the processors are never
set; `NewAddressBook` returns an empty book; `NewHandler` has no use cases and the
body of the withdrawal use case is commented out; the schema under `deploy/db` has
no columns `processing` and `processed` in `withdrawal_requests` although the
repository reads and writes them, and demands a `status` that the INSERT does not give; the error of `InitWallets` is not looked at.

## Plan

Done: the feed and the scanner with its notifications, external withdrawals with the
ledger, the shard walk, TON and Jetton sweeps, the composition of the message with the
cold wallet, service withdrawals, wallets, and the proofs above. Every safety property
that a passing run checks is proved. What could be added, with the repository's refactoring
completed: graceful shutdown, the confirmation of Jetton payments once something reads it,
and cold wallet requests over several rounds once their status is written.
