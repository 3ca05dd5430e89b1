------------------------ MODULE ExternalWithdrawals ------------------------
(***************************************************************************)
(* Payments from the hot wallet to the outside, from the row of             *)
(* withdrawal_requests to the confirmation in the database:                 *)
(*                                                                         *)
(*  - startWithdrawalsProcessor builds one message for many requests, saves *)
(*    its rows of external_withdrawals, and sends it;                       *)
(*  - the highload wallet executes a message at most once, in a block whose *)
(*    time is not past the TTL of the message; some of the payments of a    *)
(*    message may fail;                                                     *)
(*  - BlockScanner saves what the blocks of the feed (BlockFeed) contain;   *)
(*  - startExpirationProcessor fails the rows whose message can no longer   *)
(*    be executed, which releases their requests for another message.       *)
(*                                                                         *)
(* A boolean column of a table is the set of the keys for which it holds.   *)
(* A row of external_withdrawals is keyed by message and request (the       *)
(* destination address of the table's key determines the request).          *)
(***************************************************************************)
EXTENDS BlockFeed

CONSTANTS
    Requests,                  \* query_id of the withdrawal requests
    Dest,                      \* their destination addresses
    ExternalMessageLifetime,   \* config.ExternalMessageLifetime
    ExternalWithdrawalPeriod,  \* config.ExternalWithdrawalPeriod
    SyncDelay,                 \* longest time between waitSync and the
                               \* time.Now() of SetExpired (its context
                               \* ends after 3 seconds)
    MaxMsgs                    \* bound: messages ever built

ASSUME WithdrawalAssumption ==
    /\ Requests \subseteq Nat
    /\ ExternalMessageLifetime \in Nat
    /\ ExternalWithdrawalPeriod \in Nat
    /\ ExternalWithdrawalPeriod > ExternalMessageLifetime
    /\ SyncDelay \in Nat
    /\ MaxMsgs \in Nat

Msgs == 1..MaxMsgs

VARIABLES
    requests,    \* rows of withdrawal_requests
    processing,  \* withdrawal_requests.processing
    processed,   \* withdrawal_requests.processed
    rows,        \* rows of external_withdrawals
    failed,      \* external_withdrawals.failed
    confirmed,   \* external_withdrawals.processed_lt IS NOT NULL
    ttl,         \* TTL of a message, expired_at of its rows
    built,       \* number of messages built so far
    extPc,       \* where the external withdrawals processor stands
    wakeAt,      \* end of its sleep of ExternalWithdrawalPeriod
    batch,       \* the requests of the message it has built
    expPc,       \* where the expiration processor stands
    syncedAt,    \* when its waitSync returned, 0 outside
    mempool,     \* messages the network has received
    minedIn,     \* the block that executed a message, 0 if none has
    paid         \* payments the chain has made, as message and request

dbVars    == <<requests, processing, processed, rows, failed, confirmed>>
procVars  == <<ttl, built, extPc, wakeAt, batch>>
expVars   == <<expPc, syncedAt>>
chainVars == <<mempool, minedIn, paid>>
vars      == <<feedVars, dbVars, procVars, expVars, chainVars>>

RequestsOf(R) == {r[2] : r \in R}

Init ==
    /\ FeedInit
    /\ requests = {} /\ processing = {} /\ processed = {}
    /\ rows = {} /\ failed = {} /\ confirmed = {}
    /\ ttl = [m \in Msgs |-> 0] /\ built = 0
    /\ extPc = "sync" /\ wakeAt = 0 /\ batch = {}
    /\ expPc = "sync" /\ syncedAt = 0
    /\ mempool = {} /\ minedIn = [m \in Msgs |-> 0] /\ paid = {}

----------------------------------------------------------------------------
(* The service's API and the external withdrawals processor                *)

CreateWithdrawalRequest(q) ==
    /\ q \notin requests
    /\ requests' = requests \cup {q}
    /\ UNCHANGED <<feedVars, processing, processed, rows, failed, confirmed,
                   procVars, expVars, chainVars>>

\* Wrong on purpose: the processor sleeps as long as a message lives.
ExtWaitSyncShortSleep ==
    /\ extPc = "sync"
    /\ Synced
    /\ extPc' = "sleep"
    /\ wakeAt' = now + ExternalMessageLifetime
    /\ UNCHANGED <<feedVars, dbVars, ttl, built, batch, expVars, chainVars>>

\* waitSync returns and the processor goes to sleep
ExtWaitSync ==
    /\ extPc = "sync"
    /\ Synced
    /\ extPc' = "sleep"
    /\ wakeAt' = now + ExternalWithdrawalPeriod
    /\ UNCHANGED <<feedVars, dbVars, ttl, built, batch, expVars, chainVars>>

\* SELECT DISTINCT ON (dest_address) ... WHERE processing = false
\* ORDER BY dest_address, query_id
GetExternalWithdrawalTasks ==
    {q \in requests \ processing :
        \A p \in requests \ processing : Dest[p] = Dest[q] => q <= p}

\* the TTL that BuildMessageForMany gives a message, which
\* getHighLoadWalletExtMsgInfo reads back for expired_at of its rows
MessageTTL == now + ExternalMessageLifetime

\* buildWithdrawalMessages drops the tasks the balances do not cover;
\* BuildMessageForMany fixes the TTL of the message.  With nothing to send
\* the processor starts over.
BuildWithdrawalMessages(tasks) ==
    /\ extPc = "sleep"
    /\ wakeAt <= now
    /\ wakeAt' = 0
    /\ tasks \subseteq GetExternalWithdrawalTasks
    /\ IF tasks = {}
         THEN extPc' = "sync" /\ UNCHANGED <<ttl, built, batch>>
         ELSE /\ built < MaxMsgs
              /\ built' = built + 1
              /\ ttl' = [ttl EXCEPT ![built'] = MessageTTL]
              /\ batch' = tasks
              /\ extPc' = "save"
    /\ UNCHANGED <<feedVars, dbVars, expVars, chainVars>>

\* Wrong on purpose: the request is not marked as processing.
CreateExternalWithdrawalsUnmarked ==
    /\ extPc = "save"
    /\ rows' = rows \cup ({built} \X batch)
    /\ extPc' = "send"
    /\ batch' = {}
    /\ UNCHANGED <<feedVars, requests, processing, processed, failed, confirmed,
                   ttl, built, wakeAt, expVars, chainVars>>

\* CreateExternalWithdrawals, one transaction
CreateExternalWithdrawals ==
    /\ extPc = "save"
    /\ rows' = rows \cup ({built} \X batch)
    /\ processing' = processing \cup batch
    /\ extPc' = "send"
    /\ batch' = {}
    /\ UNCHANGED <<feedVars, requests, processed, failed, confirmed,
                   ttl, built, wakeAt, expVars, chainVars>>

\* SendExternalMessage; an error is logged, whether or not the message got out
SendExternalMessage(delivered) ==
    /\ extPc = "send"
    /\ mempool' = IF delivered THEN mempool \cup {built} ELSE mempool
    /\ extPc' = "sync"
    /\ UNCHANGED <<feedVars, dbVars, ttl, built, wakeAt, batch, expVars, minedIn, paid>>

----------------------------------------------------------------------------
(* The expiration processor                                                *)

\* Wrong on purpose: the expiration processor does not wait for the scanner.
ExpNoWaitSync ==
    /\ expPc = "sync"
    /\ expPc' = "expire"
    /\ syncedAt' = now
    /\ UNCHANGED <<feedVars, dbVars, procVars, chainVars>>

ExpWaitSync ==
    /\ expPc = "sync"
    /\ Synced
    /\ expPc' = "expire"
    /\ syncedAt' = now
    /\ UNCHANGED <<feedVars, dbVars, procVars, chainVars>>

\* Wrong on purpose: without the allowed lag.
ExpiredAtOnce == {r \in rows \ (confirmed \cup failed) : ttl[r[1]] < now}

\* Wrong on purpose: without "processed_lt IS NULL".
ExpiredConfirmedToo == {r \in rows \ failed :
                            ttl[r[1]] < now - AllowableBlockchainLagging}

\* UPDATE external_withdrawals SET failed = true WHERE expired_at < now - lag
\* AND processed_lt IS NULL AND failed = false
Expired == {r \in rows \ (confirmed \cup failed) :
                ttl[r[1]] < now - AllowableBlockchainLagging}

SetExpired ==
    /\ expPc = "expire"
    /\ failed' = failed \cup Expired
    /\ processing' = processing \ RequestsOf(Expired)
    /\ expPc' = "sync"
    /\ syncedAt' = 0
    /\ UNCHANGED <<feedVars, requests, processed, rows, confirmed, procVars, chainVars>>

\* SetExpired returns an error: startExpirationProcessor logs it and goes on
SetExpiredError ==
    /\ expPc = "expire"
    /\ Fault("db")
    /\ expPc' = "sync"
    /\ syncedAt' = 0
    /\ UNCHANGED <<now, genUtime, blockData, lastKnown, target, current, scanning,
                   dbVars, procVars, chainVars>>

----------------------------------------------------------------------------
(* The chain                                                               *)

\* time passes, but not more than SyncDelay inside the expiration processor
TimePasses ==
    /\ Tick
    /\ expPc = "expire" => now < syncedAt + SyncDelay
    /\ UNCHANGED <<dbVars, procVars, expVars, chainVars>>

\* the highload wallet rejects a message it has executed and a message whose
\* TTL is over
Executable(utime) == {m \in mempool : minedIn[m] = 0 /\ utime <= ttl[m]}

\* a block executes some messages; of their payments those in out are made
MineBlock(utime, msgs, out) ==
    /\ ProduceBlock(utime)
    /\ msgs \subseteq Executable(utime)
    /\ out \subseteq {r \in rows : r[1] \in msgs}
    /\ minedIn' = [m \in Msgs |-> IF m \in msgs THEN Tip + 1 ELSE minedIn[m]]
    /\ paid' = paid \cup out
    /\ UNCHANGED <<dbVars, procVars, expVars, mempool>>

----------------------------------------------------------------------------
(* The block scanner                                                       *)

\* Wrong on purpose: every payment of an executed message counts as made.
PaymentsOfMessage(b) == {r \in rows : minedIn[r[1]] = b}

\* what processTonHotWalletExternalInMsg finds in a block: the payments that
\* were made, and (failedWithdrawals) those of a message that were not
Payments(b) == {r \in paid : minedIn[r[1]] = b}
Failures(b) == {r \in rows \ paid : minedIn[r[1]] = b}

\* processTonHotWalletTXs: one event for every payment, made or not
Events(b) == Payments(b) \cup Failures(b)

\* UpdateExternalWithdrawal stops the transaction at a row that has failed:
\* "invalid behavior of the expiration processor"
NoneFailed(b) == Events(b) \cap failed = {}

Commits == NotSavedYet /\ NoneFailed(scanning)

\* Wrong on purpose: the payments that were not made are ignored.
SaveParsedBlockDataWithoutFailures ==
    /\ ScanDone(Commits)
    /\ IF Commits
         THEN /\ confirmed' = confirmed \cup Payments(scanning)
              /\ processed' = processed \cup RequestsOf(Payments(scanning))
         ELSE UNCHANGED <<confirmed, processed>>
    /\ UNCHANGED <<faults, requests, rows, failed, processing, procVars, expVars, chainVars>>

\* SaveParsedBlockData with UpdateExternalWithdrawal for every event
SaveParsedBlockData ==
    /\ ScanDone(Commits)
    /\ IF Commits
         THEN /\ confirmed' = confirmed \cup Payments(scanning)
              /\ processed' = processed \cup RequestsOf(Payments(scanning))
              /\ failed' = failed \cup Failures(scanning)
              /\ processing' = processing \ RequestsOf(Failures(scanning))
         ELSE UNCHANGED <<confirmed, processed, failed, processing>>
    /\ UNCHANGED <<faults, requests, rows, procVars, expVars, chainVars>>

\* The SELECT of UpdateExternalWithdrawal takes no lock: under PostgreSQL's
\* READ COMMITTED, SetExpired may commit between it and the updates
SaveAcrossExpiry ==
    /\ expPc = "expire"
    /\ Commits
    /\ ScanDone(TRUE)
    /\ confirmed' = confirmed \cup Payments(scanning)
    /\ processed' = processed \cup RequestsOf(Payments(scanning))
    /\ failed' = failed \cup Expired \cup Failures(scanning)
    /\ processing' = processing \ RequestsOf(Expired \cup Failures(scanning))
    /\ expPc' = "sync"
    /\ syncedAt' = 0
    /\ UNCHANGED <<faults, requests, rows, procVars, chainVars>>

Feed ==
    /\ TrackerPoll \/ TrackerSend \/ TrackerFetchError \/ ScanError
    /\ UNCHANGED <<dbVars, procVars, expVars, chainVars>>

\* the goroutines start over; tables, mempool and chain stay
Crash ==
    /\ Restart
    /\ extPc' = "sync"
    /\ wakeAt' = 0
    /\ batch' = {}
    /\ expPc' = "sync"
    /\ syncedAt' = 0
    /\ UNCHANGED <<dbVars, ttl, built, chainVars>>

Next ==
    \/ \E q \in Requests : CreateWithdrawalRequest(q)
    \/ ExtWaitSync
    \/ \E tasks \in SUBSET requests : BuildWithdrawalMessages(tasks)
    \/ CreateExternalWithdrawals
    \/ \E delivered \in BOOLEAN : SendExternalMessage(delivered)
    \/ ExpWaitSync \/ SetExpired \/ SetExpiredError
    \/ TimePasses
    \/ \E utime \in 0..now, msgs \in SUBSET mempool :
           \E out \in SUBSET {r \in rows : r[1] \in msgs} : MineBlock(utime, msgs, out)
    \/ Feed \/ SaveParsedBlockData \/ SaveAcrossExpiry
    \/ Crash

Spec == Init /\ [][Next]_vars

\* Two things that expiration relies on and the code does not enforce: no gap
\* in block_data is old; and the service, in sync when waitSync returns, is
\* still so when SetExpired reads its own clock.
KeepsSync == expPc' = "expire" /\ Synced => Synced'

\* the runs in which only the first holds, or only the second
YoungGapsSpec == Init /\ [][Next /\ GapsAreYoung']_vars
KeptSyncSpec  == Init /\ [][Next /\ KeepsSync]_vars

\* the runs in which both hold
TimelySpec == Init /\ [][Next /\ GapsAreYoung' /\ KeepsSync]_vars

----------------------------------------------------------------------------
(* Properties                                                              *)

\* Type invariant, with the foreign keys between the tables.
TypeOK ==
    /\ FeedTypeOK
    /\ requests \subseteq Requests
    /\ processing \subseteq requests /\ processed \subseteq requests
    /\ batch \subseteq requests
    /\ rows \subseteq Msgs \X requests
    /\ failed \subseteq rows /\ confirmed \subseteq rows /\ paid \subseteq rows
    /\ ttl \in [Msgs -> Nat] /\ built \in 0..MaxMsgs
    /\ extPc \in {"sync", "sleep", "save", "send"} /\ wakeAt \in Nat
    /\ extPc \in {"save", "send"} => built \in Msgs
    /\ expPc \in {"sync", "expire"} /\ syncedAt \in 0..now
    /\ mempool \subseteq 1..built /\ minedIn \in [Msgs -> 0..Tip]

\* No request is paid by two messages.  The chain cannot tell a retry from a
\* new order, so everything rests on the expiration processor failing a row
\* only when its message is dead (README: query_id "to prevent double
\* spending").
PaidAtMostOnce ==
    \A r, s \in paid : r[2] = s[2] => r[1] = s[1]

\* No row of a payment that the chain has made is failed, whether or not its
\* block is saved yet.  UpdateExternalWithdrawal asserts it when it comes to
\* the block: "invalid behavior of the expiration processor".
NoExpiredPayment == paid \cap failed = {}

\* At most one message stands for a request: of the rows of a request at most
\* one has not failed, and the processing flag of the request says whether
\* there is one (CreateExternalWithdrawals, SetExpired and
\* UpdateExternalWithdrawal keep two tables in step).
OneOpenRow ==
    /\ \A r, s \in rows \ failed : r[2] = s[2] => r[1] = s[1]
    /\ processing = RequestsOf(rows \ failed)

\* No row is both: UpdateExternalWithdrawal refuses to confirm a row that has
\* failed, SetExpired does not fail one that is confirmed.  Each tests what it
\* reads, but the read of the first takes no lock.
ConfirmedOrFailed == confirmed \cap failed = {}

\* The rows tell the truth about the saved blocks: a row is confirmed exactly
\* when a saved block made the payment, and a request is processed exactly
\* when one of its rows is confirmed, however the transactions overlap.
ConfirmedIsPaid ==
    /\ confirmed = {r \in paid : minedIn[r[1]] \in blockData}
    /\ processed = RequestsOf(confirmed)

\* A saved block is fully applied: every payment of its messages that was not
\* made has failed in the table, so that its request is taken again.
FailureIsRecorded ==
    \A b \in blockData : Failures(b) \subseteq failed

\* The balance of the hot wallet that buildWithdrawalMessages reads is not
\* spoken for: when the processor builds, no earlier message can still be
\* executed by a block of that moment (config.go: "must be
\* ExternalWithdrawalPeriod > ExternalMessageLifetime"), restarts included.
NoOverlappingMessages ==
    \A m \in 1..built : extPc = "sleep" /\ wakeAt <= now => ttl[m] < now

\* A confirmed payment stays one and its request is never taken up again.
ConfirmedForever ==
    [][\A r \in confirmed : r \in confirmed' /\ r \notin failed' /\ r[2] \notin batch']_vars

\* The service seen as the ledger of WithdrawalLedger: the chain says who is
\* paid, the table withdrawal_requests says the rest.
StatusOf(q) ==
    CASE q \in RequestsOf(paid)                  -> "paid"
      [] q \in processing \ RequestsOf(paid)     -> "sent"
      [] q \in requests \ (processing \cup RequestsOf(paid)) -> "queued"
      [] q \notin requests \cup RequestsOf(paid) -> "absent"

Ledger == INSTANCE WithdrawalLedger WITH
    status   <- [q \in Requests |-> StatusOf(q)],
    payers   <- [q \in Requests |-> {r[1] : r \in {s \in paid : s[2] = q}}],
    reported <- processed

\* The service implements the ledger: every step of the processors, of the
\* scanner and of the chain is a step of the ledger or none.  In particular a
\* released request has not been paid, and a payment is always the first.
ImplementsLedger == Ledger!LedgerSpec
============================================================================
