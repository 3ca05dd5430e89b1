-------------------------- MODULE TonSweepsProofs --------------------------
(***************************************************************************)
(* Theorems about TonSweeps, for every value of its constants.              *)
(***************************************************************************)
EXTENDS TonSweeps, BlockFeedProofs, FiniteSums

TxType == [kind : {"none", "income", "sweep"}, lt : Nat, memo : Nat, amount : Nat]

\* The types, with those of the columns and of the transactions.
Types ==
    /\ TypeOK
    /\ txs \in Seq(TxType)
    /\ since \in [Memos -> Nat] /\ finish \in [Memos -> Nat]
    /\ expiredAt \in [Memos -> Nat] /\ ttl \in [Memos -> Nat]
    /\ \A b \in 1..Tip : txs[b].kind # "none" => txs[b].lt \in 1..lt
    /\ \A b \in 1..Tip : txs[b].kind = "sweep" => txs[b].memo \in mempool
    /\ \A m \in rows : since[m] \in 1..lt
    /\ pc = "send" => rows # {}
    /\ savedAt \in Nat

\* Logical time: a sweep is later than the income its row was made for, a row
\* is finished by a sweep of its own that is saved, a failed row never, and no
\* income has the logical time of a sweep.
LogicalTime ==
    /\ \A b \in 1..Tip : txs[b].kind = "sweep" => since[txs[b].memo] < txs[b].lt
    /\ \A m \in Memos : finish[m] # 0 =>
          \E c \in Sweeps(m, blockData) : txs[c].lt = finish[m]
    /\ \A m \in failed : finish[m] = 0
    /\ \A c \in 1..Tip : txs[c].kind = "sweep" =>
          /\ txs[c].lt \notin travelling
          /\ \A b \in 1..Tip : txs[b].kind = "income" => txs[b].lt # txs[c].lt

\* Why one row is open at a time: an open row has the greatest since_lt of the
\* rows that have not failed, and a task in hand is later than all of them,
\* which are finished.
OpenIsLatest ==
    /\ \A m, n \in rows \ failed : m # n /\ finish[n] = 0 => since[m] < since[n]
    /\ pc \in {"balance", "save"} =>
          \A m \in rows \ failed : finish[m] # 0 /\ since[m] < task

\* What saved blocks showed as incomes is in external_incomes.
SavedIncomes == \A b \in blockData : txs[b].kind = "income" => txs[b].lt \in incomes

\* Why no sweep is failed: the TTL of a message is at most SendDelay later than
\* its expired_at, the sweeps of the chain respect it, and the chain is past it
\* when the row fails.
Expiry ==
    /\ \A m \in rows, n \in Memos : n < m => n \in rows
    /\ \A m \in mempool : ttl[m] <= expiredAt[m] + SendDelay
    /\ pc = "send" => /\ now <= savedAt + SendDelay
                      /\ expiredAt[Max(rows)] = savedAt + ExternalMessageLifetime
    /\ \A b \in 1..Tip : txs[b].kind = "sweep" =>
          genUtime[b] <= expiredAt[txs[b].memo] + SendDelay
    /\ \A b \in blockData : txs[b].kind = "sweep" => finish[txs[b].memo] # 0
    /\ \A m \in failed : expiredAt[m] + SendDelay < genUtime[Tip]
    /\ NoExpiredSweep

\* What lies behind the expiration processor when it reads the clock.
InSync == expPc = "expire" => SyncedWithin(SendDelay)

----------------------------------------------------------------------------
(* Types                                                                   *)

\* Max of a set of bounded natural numbers is its greatest element.
LEMMA MaxIsGreatest ==
    ASSUME NEW n \in Nat, NEW S \in SUBSET (1..n), S # {}
    PROVE  Max(S) \in S /\ \A y \in S : y <= Max(S)
<1>1. \E x \in S : \A y \in S : x >= y
  BY GreatestExists
<1> QED BY <1>1 DEF Max

\* Every step moves the feed by FeedStep.
LEMMA NextIsFeedStep ==
    ASSUME FeedTypeOK, [Next]_vars
    PROVE  FeedStep
<1>1. now \in Nat /\ faults \in Nat
  BY DEF FeedTypeOK
<1>2. CASE UNCHANGED feedVars
  BY <1>1, <1>2 DEF FeedStep, feedVars
<1>3. ASSUME NEW utime \in 0..now, ProduceBlock(utime) PROVE FeedStep
  BY <1>1, <1>3 DEF FeedStep
<1>4. CASE TimePasses \/ Crash
  BY <1>4 DEF TimePasses, Crash, FeedStep
<1>5. CASE Feed
  <2>1. CASE ScanError
    <3>1. ScanDone(FALSE) /\ Fault("scan")
      BY <2>1 DEF ScanError
    <3>2. faults' \in Nat
      BY <1>1, <3>1 DEF Fault
    <3> QED BY <3>1, <3>2 DEF FeedStep
  <2>2. CASE TrackerPoll \/ TrackerSend \/ TrackerFetchError
    BY <2>2 DEF FeedStep
  <2> QED BY <1>5, <2>1, <2>2 DEF Feed
<1>6. CASE SaveParsedBlockData
  <2>1. ScanDone(Commits) /\ faults' = faults /\ Commits \in BOOLEAN
    BY <1>6 DEF SaveParsedBlockData, Commits, NotSavedYet
  <2> QED BY <1>1, <2>1 DEF FeedStep
<1>7. CASE SetExpiredError
  <2>1. faults' \in Nat
    BY <1>1, <1>7 DEF SetExpiredError, Fault
  <2> QED BY <1>7, <2>1 DEF SetExpiredError, FeedStep
<1> QED BY <1>2, <1>3, <1>4, <1>5, <1>6, <1>7
     DEF Next, vars, SendIncome, EmptyBlock, DeliverIncome, Sweep, IntWaitSync,
         GetTonInternalWithdrawalTasks, GetAccountCurrentState, SaveInternalWithdrawalTask,
         SkipTask, WithdrawTON, ExpWaitSync, SetExpired

\* What a new block does to the chain.
LEMMA NewBlock ==
    ASSUME Types, NEW utime \in 0..now, ProduceBlock(utime), NEW tx \in TxType,
           txs' = Append(txs, tx)
    PROVE  /\ Tip \in Nat \ {0} /\ Tip' = Tip + 1
           /\ txs' \in Seq(TxType) /\ DOMAIN txs' = 1..(Tip + 1)
           /\ txs'[Tip + 1] = tx /\ genUtime'[Tip + 1] = utime
           /\ \A i \in 1..Tip : txs'[i] = txs[i] /\ genUtime'[i] = genUtime[i]
           /\ genUtime[Tip] <= utime
           /\ UNCHANGED <<now, blockData, scanning>>
<1>1. /\ genUtime \in Seq(Nat) /\ txs \in Seq(TxType) /\ DOMAIN txs = 1..Tip
      /\ lastKnown \in 1..Tip /\ utime \in Nat
  BY DEF Types, TypeOK, FeedTypeOK
<1>2. Tip \in Nat \ {0} /\ genUtime' = Append(genUtime, utime)
  BY <1>1 DEF Tip, ProduceBlock
<1>3. /\ Tip' = Tip + 1 /\ genUtime'[Tip + 1] = utime
      /\ \A i \in 1..Tip : genUtime'[i] = genUtime[i]
  BY <1>1, <1>2 DEF Tip
<1>4. /\ txs' \in Seq(TxType) /\ DOMAIN txs' = 1..(Tip + 1) /\ txs'[Tip + 1] = tx
      /\ \A i \in 1..Tip : txs'[i] = txs[i]
  <2>1. Len(txs) = Tip
    BY <1>1, <1>2, SeqAsFunction
  <2> QED BY <1>1, <2>1, AppendByElements
<1> QED BY <1>2, <1>3, <1>4 DEF ProduceBlock

\* What the transaction of a block is.
LEMMA TxTyped ==
    ASSUME Types, NEW b \in 1..Tip
    PROVE  txs[b] \in TxType /\ txs[b].memo \in {0} \cup rows /\ txs[b].lt \in 0..lt
<1>1. txs \in Seq(TxType) /\ DOMAIN txs = 1..Tip
  BY DEF Types, TypeOK
<1>2. txs[b] \in TxType
  <2>1. Tip \in Nat
    BY DEF Types, TypeOK, FeedTypeOK, Tip
  <2> QED BY <1>1, <2>1, SeqAsFunction
<1> QED BY <1>2 DEF Types, TypeOK

\* The unswept incomes, where there are some, have a greatest one.
LEMMA TaskTyped ==
    ASSUME Types, UnsweptIncomes # {}
    PROVE  Max(UnsweptIncomes) \in UnsweptIncomes /\ Max(UnsweptIncomes) \in 1..lt
<1>1. UnsweptIncomes \in SUBSET (1..lt) /\ lt \in Nat
  BY DEF Types, TypeOK, UnsweptIncomes
<1> QED BY <1>1, MaxIsGreatest

\* What Types says of the transactions of the chain.
TxsTyped ==
    \A b \in 1..Tip : /\ txs[b].memo \in {0} \cup rows /\ txs[b].lt \in 0..lt
                      /\ txs[b].kind # "none" => txs[b].lt \in 1..lt
                      /\ txs[b].kind = "sweep" => txs[b].memo \in mempool

\* What is known of the transactions lasts while the chain does not change and
\* nothing is taken back.
LEMMA TxsKept ==
    ASSUME Types, txs' = txs, genUtime' = genUtime, rows \subseteq rows',
           mempool \subseteq mempool', lt \in Nat, lt' \in {lt, lt + 1}
    PROVE  TxsTyped'
<1>1. 1..lt \subseteq 1..lt' /\ 0..lt \subseteq 0..lt'
  OBVIOUS
<1>2. Tip' = Tip
  BY DEF Tip
<1> SUFFICES ASSUME NEW b \in 1..Tip
             PROVE  /\ txs[b].memo \in {0} \cup rows' /\ txs[b].lt \in 0..lt'
                    /\ txs[b].kind # "none" => txs[b].lt \in 1..lt'
                    /\ txs[b].kind = "sweep" => txs[b].memo \in mempool'
  BY <1>2 DEF TxsTyped
<1>3. /\ txs[b].memo \in {0} \cup rows /\ txs[b].lt \in 0..lt
      /\ txs[b].kind # "none" => txs[b].lt \in 1..lt
      /\ txs[b].kind = "sweep" => txs[b].memo \in mempool
  BY DEF Types, TypeOK
<1>4. txs[b].memo \in {0} \cup rows'
  BY <1>3
<1>5. txs[b].lt \in 0..lt' /\ (txs[b].kind # "none" => txs[b].lt \in 1..lt')
  BY <1>1, <1>3
<1>6. txs[b].kind = "sweep" => txs[b].memo \in mempool'
  BY <1>3
<1> QED BY <1>4, <1>5, <1>6

\* The parts that make up Types after a step.
LEMMA TypesKept ==
    ASSUME TypeOK', txs' \in Seq(TxType),
           since' \in [Memos -> Nat], finish' \in [Memos -> Nat],
           expiredAt' \in [Memos -> Nat], ttl' \in [Memos -> Nat], savedAt' \in Nat,
           TxsTyped', (\A m \in rows : since[m] \in 1..lt)', (pc = "send" => rows # {})'
    PROVE  Types'
<1>1. (\A b \in 1..Tip : txs[b].kind # "none" => txs[b].lt \in 1..lt)'
  BY DEF TxsTyped
<1>2. (\A b \in 1..Tip : txs[b].kind = "sweep" => txs[b].memo \in mempool)'
  BY DEF TxsTyped
<1> QED BY <1>1, <1>2 DEF Types

\* Every step keeps the types.
LEMMA TypesStep ==
    ASSUME Types, [Next]_vars
    PROVE  Types'
<1>0. /\ FeedTypeOK /\ FeedTypeOK' /\ Tip \in Nat /\ lt \in Nat /\ MaxMemos \in Nat /\ now \in Nat
      /\ ExternalMessageLifetime \in Nat
  <2>1. FeedTypeOK /\ FeedTypeOK'
    BY NextIsFeedStep, FeedTypeStep DEF Types, TypeOK
  <2>2. Tip \in Nat /\ now \in Nat
    BY <2>1 DEF FeedTypeOK, Tip
  <2>3. lt \in Nat
    BY DEF Types, TypeOK
  <2> QED BY <2>1, <2>2, <2>3, SweepAssumption
<1>1. CASE SendIncome
  <2>1. /\ lt' = lt + 1 /\ travelling' = travelling \cup {lt + 1}
        /\ UNCHANGED <<genUtime, txs, balance, mempool, ttl, incomes, rows, since, finish, failed,
                       expiredAt, pc, task, savedAt, expPc>>
    BY <1>1 DEF SendIncome, feedVars, msgVars, rowVars, procVars
  <2>2. 1..lt \subseteq 1..(lt + 1) /\ 0..lt \subseteq 0..(lt + 1) /\ lt + 1 \in 1..(lt + 1)
    BY <1>0
  <2>3. lt' \in Nat /\ travelling' \subseteq 1..lt' /\ incomes' \subseteq 1..lt' /\ task' \in 0..lt'
    BY <1>0, <2>1, <2>2 DEF Types, TypeOK
  <2>4. TxsTyped'
    BY <1>0, <2>1, TxsKept
  <2>5. (\A m \in rows : since[m] \in 1..lt)'
    BY <2>1, <2>2 DEF Types
  <2>6. TypeOK'
    BY <1>0, <2>1, <2>3, <2>4 DEF Types, TypeOK, Tip, TxsTyped
  <2>7. /\ txs' \in Seq(TxType) /\ since' \in [Memos -> Nat] /\ finish' \in [Memos -> Nat]
        /\ expiredAt' \in [Memos -> Nat] /\ ttl' \in [Memos -> Nat] /\ savedAt' \in Nat
        /\ (pc = "send" => rows # {})'
    BY <2>1 DEF Types
  <2> QED BY <2>4, <2>5, <2>6, <2>7, TypesKept
<1>2. ASSUME NEW utime \in 0..now, EmptyBlock(utime) PROVE Types'
  <2>1. Idle \in TxType
    BY DEF Idle, TxType
  <2>2. /\ txs' = Append(txs, Idle) /\ ProduceBlock(utime)
        /\ UNCHANGED <<lt, travelling, balance, mempool, ttl, incomes, rows, since, finish,
                       failed, expiredAt, pc, task, savedAt, expPc>>
    BY <1>2 DEF EmptyBlock, msgVars, rowVars, procVars
  <2>3. /\ Tip' = Tip + 1 /\ txs' \in Seq(TxType) /\ DOMAIN txs' = 1..(Tip + 1)
        /\ txs'[Tip + 1] = Idle /\ \A i \in 1..Tip : txs'[i] = txs[i]
    BY <2>1, <2>2, NewBlock
  <2>4. Idle.kind = "none" /\ Idle.memo = 0 /\ Idle.lt = 0
    BY DEF Idle
  <2> QED BY <1>0, <2>2, <2>3, <2>4 DEF Types, TypeOK
<1>3. ASSUME NEW utime \in 0..now, NEW income \in travelling, DeliverIncome(utime, income)
      PROVE  Types'
  <2> DEFINE tx == [kind |-> "income", lt |-> income, memo |-> 0, amount |-> 1]
  <2>0. income \in 1..lt
    BY DEF Types, TypeOK
  <2>1. tx \in TxType
    BY <1>0, <2>0 DEF TxType
  <2>2. /\ txs' = Append(txs, tx) /\ ProduceBlock(utime)
        /\ travelling' = travelling \ {income} /\ balance' = balance + 1
        /\ UNCHANGED <<lt, mempool, ttl, incomes, rows, since, finish,
                       failed, expiredAt, pc, task, savedAt, expPc>>
    BY <1>3 DEF DeliverIncome, msgVars, rowVars, procVars
  <2>3. /\ Tip' = Tip + 1 /\ txs' \in Seq(TxType) /\ DOMAIN txs' = 1..(Tip + 1)
        /\ txs'[Tip + 1] = tx /\ \A i \in 1..Tip : txs'[i] = txs[i]
    BY <2>1, <2>2, NewBlock
  <2>4. tx.kind = "income" /\ tx.memo = 0 /\ tx.lt \in 1..lt
    BY <2>0
  <2> HIDE DEF tx
  <2>5. \A b \in 1..Tip' : txs'[b].memo \in {0} \cup rows' /\ txs'[b].lt \in 0..lt'
    BY <1>0, <2>2, <2>3, <2>4, TxTyped
  <2>6. TypeOK'
    BY <1>0, <2>2, <2>3, <2>5 DEF Types, TypeOK
  <2>7. \A b \in 1..Tip' : /\ txs'[b].kind # "none" => txs'[b].lt \in 1..lt'
                           /\ txs'[b].kind = "sweep" => txs'[b].memo \in mempool'
    <3>1. \A b \in 1..Tip : /\ txs[b].kind # "none" => txs[b].lt \in 1..lt
                            /\ txs[b].kind = "sweep" => txs[b].memo \in mempool
      BY DEF Types
    <3>2. \A b \in 1..Tip' : b \in 1..Tip \/ b = Tip + 1
      BY <1>0, <2>3
    <3>3. \A b \in 1..Tip : /\ txs'[b].kind # "none" => txs'[b].lt \in 1..lt'
                            /\ txs'[b].kind = "sweep" => txs'[b].memo \in mempool'
      BY <2>2, <2>3, <3>1
    <3> QED BY <2>2, <2>3, <2>4, <3>2, <3>3
  <2> QED BY <2>2, <2>3, <2>6, <2>7 DEF Types
<1>4. ASSUME NEW utime \in 0..now, NEW memo \in mempool, Sweep(utime, memo) PROVE Types'
  <2> DEFINE tx == [kind |-> "sweep", lt |-> lt + 1, memo |-> memo, amount |-> balance]
  <2>0. memo \in rows /\ memo \in Nat /\ balance \in Nat
    <3>1. memo \in rows /\ memo \in Memos /\ balance \in Nat
      BY DEF Types, TypeOK
    <3> QED BY <1>0, <3>1 DEF Memos
  <2>1. tx \in TxType
    BY <1>0, <2>0 DEF TxType
  <2>2. /\ txs' = Append(txs, tx) /\ ProduceBlock(utime) /\ lt' = lt + 1 /\ balance' = 0
        /\ UNCHANGED <<travelling, mempool, ttl, incomes, rows, since, finish,
                       failed, expiredAt, pc, task, savedAt, expPc>>
    BY <1>4 DEF Sweep, msgVars, rowVars, procVars
  <2>3. /\ Tip' = Tip + 1 /\ txs' \in Seq(TxType) /\ DOMAIN txs' = 1..(Tip + 1)
        /\ txs'[Tip + 1] = tx /\ \A i \in 1..Tip : txs'[i] = txs[i]
    BY <2>1, <2>2, NewBlock
  <2>4. tx.kind = "sweep" /\ tx.memo = memo /\ tx.lt = lt + 1
    OBVIOUS
  <2>5. 1..lt \subseteq 1..(lt + 1) /\ 0..lt \subseteq 0..(lt + 1) /\ lt + 1 \in 1..(lt + 1)
    BY <1>0
  <2> HIDE DEF tx
  <2>6. \A b \in 1..Tip' : txs'[b].memo \in {0} \cup rows' /\ txs'[b].lt \in 0..lt'
    BY <1>0, <2>0, <2>2, <2>3, <2>4, <2>5, TxTyped
  <2>7. TypeOK'
    BY <1>0, <2>2, <2>3, <2>5, <2>6 DEF Types, TypeOK
  <2>8. \A b \in 1..Tip' : /\ txs'[b].kind # "none" => txs'[b].lt \in 1..lt'
                           /\ txs'[b].kind = "sweep" => txs'[b].memo \in mempool'
    <3>1. \A b \in 1..Tip : /\ txs[b].kind # "none" => txs[b].lt \in 1..lt
                            /\ txs[b].kind = "sweep" => txs[b].memo \in mempool
      BY DEF Types
    <3>2. \A b \in 1..Tip' : b \in 1..Tip \/ b = Tip + 1
      BY <1>0, <2>3
    <3> QED BY <2>2, <2>3, <2>4, <2>5, <3>1, <3>2
  <2>9. \A m \in rows' : since'[m] \in 1..lt'
    BY <2>2, <2>5 DEF Types
  <2> QED BY <2>2, <2>3, <2>7, <2>8, <2>9 DEF Types
<1>5. CASE GetTonInternalWithdrawalTasks
  <2>1. UNCHANGED <<genUtime, lt, travelling, txs, balance, mempool, ttl, incomes, rows, since,
                    finish, failed, expiredAt, savedAt, expPc>>
    BY <1>5 DEF GetTonInternalWithdrawalTasks, feedVars, chainVars, msgVars, rowVars
  <2>2. (pc' = "sync" /\ task' = task) \/ (pc' = "balance" /\ task' \in 1..lt)
    BY <1>5, TaskTyped DEF GetTonInternalWithdrawalTasks
  <2> QED BY <1>0, <2>1, <2>2 DEF Types, TypeOK, Tip
<1>6. ASSUME NEW memo \in Memos, SaveInternalWithdrawalTask(memo) PROVE Types'
  <2>1. /\ memo \notin rows /\ rows' = rows \cup {memo}
        /\ since' = [since EXCEPT ![memo] = task]
        /\ expiredAt' = [expiredAt EXCEPT ![memo] = now + ExternalMessageLifetime]
        /\ pc = "save" /\ pc' = "send" /\ savedAt' = now
        /\ UNCHANGED <<genUtime, lt, travelling, txs, balance, mempool, ttl, incomes, finish,
                       failed, task, expPc>>
    BY <1>6 DEF SaveInternalWithdrawalTask, feedVars, chainVars, msgVars
  <2>2. task \in 1..lt
    BY <2>1 DEF Types, TypeOK
  <2>3. since' \in [Memos -> Nat] /\ expiredAt' \in [Memos -> Nat]
    BY <1>0, <2>1, <2>2 DEF Types
  <2>4. \A m \in rows' : since'[m] \in 1..lt
    BY <2>1, <2>2 DEF Types, TypeOK
  <2> QED BY <1>0, <2>1, <2>3, <2>4 DEF Types, TypeOK, Tip
<1>7. ASSUME NEW sent \in BOOLEAN, WithdrawTON(sent) PROVE Types'
  <2>1. Max(rows) \in rows
    BY <1>0, <1>7, MaxIsGreatest DEF WithdrawTON, Types, TypeOK, Memos
  <2>2. /\ ttl' = [ttl EXCEPT ![Max(rows)] = now + ExternalMessageLifetime]
        /\ mempool' = (IF sent THEN mempool \cup {Max(rows)} ELSE mempool)
        /\ pc' = "sync" /\ task' = 0 /\ savedAt' = 0
        /\ UNCHANGED <<genUtime, lt, travelling, txs, balance, incomes, rows, since, finish,
                       failed, expiredAt, expPc>>
    BY <1>7 DEF WithdrawTON, feedVars, chainVars, rowVars
  <2>3. ttl' \in [Memos -> Nat] /\ mempool \subseteq mempool' /\ mempool' \subseteq rows
    BY <1>0, <2>1, <2>2 DEF Types, TypeOK
  <2>4. TypeOK'
    BY <1>0, <2>2, <2>3 DEF Types, TypeOK, Tip
  <2>5. TxsTyped'
    BY <1>0, <2>2, <2>3, TxsKept
  <2>6. (\A m \in rows : since[m] \in 1..lt)'
    BY <2>2 DEF Types
  <2>7. /\ txs' \in Seq(TxType) /\ since' \in [Memos -> Nat] /\ finish' \in [Memos -> Nat]
        /\ expiredAt' \in [Memos -> Nat] /\ savedAt' \in Nat
        /\ (pc = "send" => rows # {})'
    BY <2>2 DEF Types
  <2> QED BY <2>3, <2>4, <2>5, <2>6, <2>7, TypesKept
<1>8. CASE SetExpired
  <2>1. /\ failed' \subseteq failed \cup rows
        /\ UNCHANGED <<genUtime, lt, travelling, txs, balance, mempool, ttl, incomes, rows, since,
                       finish, expiredAt, pc, task, savedAt>>
        /\ expPc' = "sync"
    BY <1>8 DEF SetExpired, Expired, feedVars, chainVars, msgVars, procVars
  <2>2. failed' \subseteq rows'
    BY <2>1 DEF Types, TypeOK
  <2>3. TypeOK'
    BY <1>0, <2>1, <2>2 DEF Types, TypeOK, Tip
  <2> QED BY <2>1, <2>3 DEF Types, Tip
<1>9. CASE SaveParsedBlockData
  <2>1. UNCHANGED <<genUtime, lt, travelling, txs, balance, mempool, ttl, rows, since, failed,
                    expiredAt, pc, task, savedAt, expPc>>
    BY <1>9 DEF SaveParsedBlockData, ScanDone, chainVars, msgVars, procVars
  <2>2. incomes' \subseteq 1..lt /\ finish' \in [Memos -> Nat]
    <3>1. CASE ~ Commits
      BY <1>9, <3>1 DEF SaveParsedBlockData, Types, TypeOK
    <3>2. CASE Commits
      <4>1. scanning \in 1..Tip
        BY <1>0, <1>9 DEF SaveParsedBlockData, ScanDone, FeedTypeOK
      <4>2. txs[scanning] \in TxType
        BY <4>1, TxTyped
      <4>3. ProcessTonDepositWalletTX(txs[scanning])
        BY <1>9, <3>2 DEF SaveParsedBlockData
      <4>4. CASE IsIncome(txs[scanning]) /\ SaveExternalIncome(txs[scanning])
        <5>1. txs[scanning].lt \in 1..lt
          BY <4>1, <4>4 DEF IsIncome, Types
        <5> QED BY <4>4, <5>1 DEF SaveExternalIncome, Types, TypeOK
      <4>5. CASE IsSweep(txs[scanning]) /\ UpdateInternalWithdrawal(txs[scanning])
        <5>1. txs[scanning].lt \in Nat
          BY <4>2 DEF TxType
        <5>2. finish' = [finish EXCEPT ![txs[scanning].memo] = txs[scanning].lt]
              /\ incomes' = incomes
          BY <4>5 DEF UpdateInternalWithdrawal
        <5> QED BY <5>1, <5>2 DEF Types, TypeOK
      <4> QED BY <4>3, <4>4, <4>5 DEF ProcessTonDepositWalletTX, Types, TypeOK
    <3> QED BY <3>1, <3>2
  <2> QED BY <1>0, <2>1, <2>2 DEF Types, TypeOK, Tip
<1>10. CASE IntWaitSync \/ GetAccountCurrentState \/ SkipTask \/ ExpWaitSync \/ SetExpiredError
             \/ TimePasses \/ Feed \/ Crash \/ UNCHANGED vars
  <2>1. /\ UNCHANGED <<genUtime, lt, travelling, txs, balance, mempool, ttl, incomes, rows,
                       since, finish, failed, expiredAt>>
        /\ \/ UNCHANGED <<pc, task, savedAt>>
           \/ pc' = "query" /\ UNCHANGED <<task, savedAt>>
           \/ pc = "balance" /\ pc' = "save" /\ UNCHANGED <<task, savedAt>>
           \/ pc' = "sync" /\ task' = 0 /\ savedAt' \in {savedAt, 0}
        /\ expPc' \in {expPc, "sync", "expire"}
    BY <1>10 DEF IntWaitSync, GetAccountCurrentState, SkipTask, ExpWaitSync, SetExpiredError,
         TimePasses, Tick, Feed, TrackerPoll, TrackerSend,
         TrackerFetchError, ScanError, ScanDone, Crash, Restart, vars, feedVars, chainVars,
         msgVars, rowVars, procVars
  <2> QED BY <1>0, <2>1 DEF Types, TypeOK, Tip
<1> QED BY <1>1, <1>2, <1>3, <1>4, <1>5, <1>6, <1>7, <1>8, <1>9, <1>10 DEF Next

\* The types hold at the start.
LEMMA TypesInit == Init => Types
<1> SUFFICES ASSUME Init PROVE Types
  OBVIOUS
<1>1. Idle \in TxType
  BY DEF Idle, TxType
<1>2. /\ txs = <<Idle>> /\ Tip = 1 /\ FeedTypeOK /\ rows = {}
  BY DEF Init, FeedInit, Tip, FeedTypeOK
<1>3. txs \in Seq(TxType) /\ DOMAIN txs = 1..1 /\ txs[1] = Idle
  BY <1>1, <1>2
<1>4. Idle.kind = "none" /\ Idle.memo = 0 /\ Idle.lt = 0
  BY DEF Idle
<1>5. TypeOK
  BY <1>2, <1>3, <1>4 DEF Init, TypeOK
<1> QED BY <1>2, <1>3, <1>4, <1>5 DEF Init, Types

\* The chain, the table and the processor are typed in every state, and the
\* messages of the network belong to rows.
THEOREM Typed == Spec => []TypeOK
<1>1. Types => TypeOK
  BY DEF Types
<1>2. Types /\ [Next]_vars => Types'
  BY TypesStep
<1> QED BY <1>1, <1>2, TypesInit, PTL DEF Spec

----------------------------------------------------------------------------
(* Logical time                                                            *)

\* A new transaction keeps the order of logical time: an income that was under
\* way, a sweep at a new logical time, or nothing.
LEMMA NewBlockInTime ==
    ASSUME Types, LogicalTime, NEW utime \in 0..now, ProduceBlock(utime),
           NEW tx \in TxType, txs' = Append(txs, tx),
           UNCHANGED <<rows, since, finish, failed>>,
           tx.kind = "income" => tx.lt \in travelling,
           tx.kind = "sweep" => tx.lt = lt + 1 /\ tx.memo \in rows,
           travelling' \subseteq travelling
    PROVE  LogicalTime'
<1>0. /\ Tip \in Nat \ {0} /\ Tip' = Tip + 1 /\ txs'[Tip + 1] = tx
      /\ \A i \in 1..Tip : txs'[i] = txs[i]
      /\ blockData' = blockData
  BY NewBlock
<1>1. /\ lt \in Nat /\ travelling \subseteq 1..lt /\ blockData \subseteq 1..Tip
      /\ \A m \in rows : since[m] \in 1..lt
      /\ \A b \in 1..Tip : txs[b].kind # "none" => txs[b].lt \in 1..lt
  BY DEF Types, TypeOK, FeedTypeOK
<1>2. \A b \in 1..Tip' : b \in 1..Tip \/ b = Tip + 1
  BY <1>0
<1>3. \A b \in 1..Tip' : txs'[b].kind = "sweep" => since'[txs'[b].memo] < txs'[b].lt
  <2>1. tx.kind = "sweep" => since[tx.memo] < tx.lt
    BY <1>1
  <2>2. \A b \in 1..Tip : txs[b].kind = "sweep" => since[txs[b].memo] < txs[b].lt
    BY DEF LogicalTime
  <2> QED BY <1>0, <1>2, <2>1, <2>2
<1>4. \A m \in Memos : finish'[m] # 0 => \E c \in Sweeps(m, blockData)' : txs'[c].lt = finish'[m]
  <2>1. \A m : \A c \in Sweeps(m, blockData) : c \in Sweeps(m, blockData)' /\ txs'[c] = txs[c]
    BY <1>0, <1>1 DEF Sweeps
  <2>2. \A m \in Memos : finish[m] # 0 => \E c \in Sweeps(m, blockData) : txs[c].lt = finish[m]
    BY DEF LogicalTime
  <2>3. finish' = finish
    OBVIOUS
  <2> QED BY <2>1, <2>2, <2>3
<1>5. ASSUME NEW c \in 1..Tip', txs'[c].kind = "sweep"
      PROVE  /\ txs'[c].lt \notin travelling'
             /\ \A b \in 1..Tip' : txs'[b].kind = "income" => txs'[b].lt # txs'[c].lt
  <2>1. CASE c \in 1..Tip
    <3>1. txs'[c] = txs[c] /\ txs[c].lt \notin travelling
      BY <1>0, <1>5, <2>1 DEF LogicalTime
    <3>2. ASSUME NEW b \in 1..Tip', txs'[b].kind = "income" PROVE txs'[b].lt # txs[c].lt
      <4>1. CASE b \in 1..Tip
        <5>1. txs[c].kind = "sweep" /\ txs'[b] = txs[b] /\ txs[b].kind = "income"
          BY <1>0, <1>5, <3>1, <3>2, <4>1
        <5> QED BY <2>1, <4>1, <5>1 DEF LogicalTime
      <4>2. CASE b = Tip + 1
        BY <1>0, <3>1, <3>2, <4>2
      <4> QED BY <1>2, <4>1, <4>2
    <3> QED BY <3>1, <3>2
  <2>2. CASE c = Tip + 1
    <3>1. txs'[c].lt = lt + 1
      BY <1>0, <1>5, <2>2
    <3>2. lt + 1 \notin travelling'
      BY <1>1
    <3>3. ASSUME NEW b \in 1..Tip', txs'[b].kind = "income" PROVE txs'[b].lt # lt + 1
      <4>1. b \in 1..Tip
        BY <1>0, <1>2, <1>5, <2>2, <3>3
      <4>2. txs'[b] = txs[b]
        BY <1>0, <4>1
      <4>3. txs[b].lt \in 1..lt
        BY <1>1, <3>3, <4>1, <4>2
      <4> QED BY <1>1, <4>2, <4>3
    <3> QED BY <3>1, <3>2, <3>3
  <2> QED BY <1>2, <2>1, <2>2
<1> QED BY <1>3, <1>4, <1>5 DEF LogicalTime

\* Every step keeps logical time.
LEMMA LogicalTimeStep ==
    ASSUME Types, LogicalTime, [Next]_vars
    PROVE  LogicalTime'
<1>0. /\ Tip \in Nat /\ lt \in Nat /\ travelling \subseteq 1..lt /\ blockData \subseteq 1..Tip
      /\ failed \subseteq rows /\ rows \subseteq Memos
      /\ \A b \in 1..Tip : txs[b].kind # "none" => txs[b].lt \in 1..lt
      /\ \A b \in 1..Tip : txs[b].kind = "sweep" => txs[b].memo \in rows
      /\ finish \in [Memos -> Nat]
  <2>1. Tip \in Nat
    BY DEF Types, TypeOK, FeedTypeOK, Tip
  <2> QED BY <2>1 DEF Types, TypeOK, FeedTypeOK
<1>1. CASE UNCHANGED <<genUtime, txs, travelling, blockData, rows, since, finish, failed>>
  BY <1>1 DEF LogicalTime, Sweeps, Tip
<1>2. CASE SendIncome
  <2>1. /\ travelling' = travelling \cup {lt + 1}
        /\ UNCHANGED <<genUtime, txs, blockData, rows, since, finish, failed>>
    BY <1>2 DEF SendIncome, feedVars, rowVars
  <2>2. \A c \in 1..Tip : txs[c].kind = "sweep" => txs[c].lt # lt + 1
    BY <1>0
  <2> QED BY <2>1, <2>2 DEF LogicalTime, Sweeps, Tip
<1>3. ASSUME NEW utime \in 0..now, EmptyBlock(utime) PROVE LogicalTime'
  <2>1. Idle \in TxType /\ Idle.kind = "none"
    BY DEF Idle, TxType
  <2>2. /\ ProduceBlock(utime) /\ txs' = Append(txs, Idle)
        /\ UNCHANGED <<travelling, rows, since, finish, failed>>
    BY <1>3 DEF EmptyBlock, rowVars
  <2> QED BY <2>1, <2>2, NewBlockInTime
<1>4. ASSUME NEW utime \in 0..now, NEW income \in travelling, DeliverIncome(utime, income)
      PROVE  LogicalTime'
  <2> DEFINE tx == [kind |-> "income", lt |-> income, memo |-> 0, amount |-> 1]
  <2>1. tx \in TxType /\ tx.kind = "income" /\ tx.lt \in travelling
    BY <1>0 DEF TxType
  <2>2. /\ ProduceBlock(utime) /\ txs' = Append(txs, tx) /\ travelling' \subseteq travelling
        /\ UNCHANGED <<rows, since, finish, failed>>
    BY <1>4 DEF DeliverIncome, rowVars
  <2> HIDE DEF tx
  <2> QED BY <2>1, <2>2, NewBlockInTime
<1>5. ASSUME NEW utime \in 0..now, NEW memo \in mempool, Sweep(utime, memo) PROVE LogicalTime'
  <2> DEFINE tx == [kind |-> "sweep", lt |-> lt + 1, memo |-> memo, amount |-> balance]
  <2>0. memo \in rows /\ memo \in Nat /\ balance \in Nat
    BY SweepAssumption DEF Types, TypeOK, Memos
  <2>1. tx \in TxType /\ tx.kind = "sweep" /\ tx.lt = lt + 1 /\ tx.memo \in rows
    BY <1>0, <2>0 DEF TxType
  <2>2. /\ ProduceBlock(utime) /\ txs' = Append(txs, tx)
        /\ UNCHANGED <<travelling, rows, since, finish, failed>>
    BY <1>5 DEF Sweep, rowVars
  <2> HIDE DEF tx
  <2> QED BY <2>1, <2>2, NewBlockInTime
<1>6. ASSUME NEW memo \in Memos, SaveInternalWithdrawalTask(memo) PROVE LogicalTime'
  <2>1. /\ memo \notin rows /\ rows' = rows \cup {memo} /\ since' = [since EXCEPT ![memo] = task]
        /\ UNCHANGED <<genUtime, txs, travelling, blockData, finish, failed>>
    BY <1>6 DEF SaveInternalWithdrawalTask, feedVars, chainVars
  <2>2. \A m \in rows : since'[m] = since[m]
    BY <2>1, <1>0 DEF Types
  <2>3. finish[memo] = 0
    BY <1>0, <2>1 DEF LogicalTime, Sweeps
  <2> QED BY <1>0, <2>1, <2>2, <2>3 DEF LogicalTime, Sweeps, Tip
<1>7. CASE SetExpired
  BY <1>0, <1>7 DEF SetExpired, Expired, LogicalTime, Sweeps, Tip, feedVars, chainVars
<1>8. CASE SaveParsedBlockData
  <2>0. UNCHANGED <<genUtime, txs, travelling, rows, since, failed>> /\ scanning \in 1..Tip
    BY <1>0, <1>8 DEF SaveParsedBlockData, ScanDone, chainVars, Types, TypeOK, FeedTypeOK
  <2>1. CASE finish' = finish
    <3>1. blockData \subseteq blockData'
      BY <1>8 DEF SaveParsedBlockData, ScanDone
    <3> QED BY <2>0, <2>1, <3>1 DEF LogicalTime, Sweeps, Tip
  <2>2. CASE /\ Commits /\ IsSweep(txs[scanning])
             /\ finish' = [finish EXCEPT ![txs[scanning].memo] = txs[scanning].lt]
    <3> DEFINE memo == txs[scanning].memo
    <3>1. memo \in rows /\ memo \notin failed /\ txs[scanning].kind = "sweep"
      BY <1>0, <2>0, <2>2 DEF IsSweep, Commits
    <3>2. blockData' = blockData \cup {scanning}
      BY <1>8, <2>2 DEF SaveParsedBlockData, ScanDone
    <3>3. finish'[memo] = txs[scanning].lt /\ \A m \in Memos : m # memo => finish'[m] = finish[m]
      BY <1>0, <2>2, <3>1
    <3>4. scanning \in Sweeps(memo, blockData')
      BY <3>1, <3>2 DEF Sweeps
    <3> HIDE DEF memo
    <3> QED BY <1>0, <2>0, <3>1, <3>2, <3>3, <3>4 DEF LogicalTime, Sweeps, Tip
  <2> QED BY <1>8, <2>1, <2>2 DEF SaveParsedBlockData, ProcessTonDepositWalletTX,
             SaveExternalIncome, UpdateInternalWithdrawal
<1>9. CASE IntWaitSync \/ GetTonInternalWithdrawalTasks \/ GetAccountCurrentState \/ SkipTask
             \/ ExpWaitSync \/ SetExpiredError \/ TimePasses \/ Feed \/ Crash \/ UNCHANGED vars
  BY <1>1, <1>9 DEF IntWaitSync, GetTonInternalWithdrawalTasks, GetAccountCurrentState, SkipTask,
         ExpWaitSync, SetExpiredError, TimePasses, Tick,
         Feed, TrackerPoll, TrackerSend, TrackerFetchError, ScanError, ScanDone, Crash, Restart,
         vars, feedVars, chainVars, rowVars
<1>10. ASSUME NEW sent \in BOOLEAN, WithdrawTON(sent) PROVE LogicalTime'
  BY <1>1, <1>10 DEF WithdrawTON, feedVars, chainVars, rowVars
<1> QED BY <1>2, <1>3, <1>4, <1>5, <1>6, <1>7, <1>8, <1>9, <1>10 DEF Next

\* Logical time holds at the start.
LEMMA LogicalTimeInit == Init => LogicalTime
<1> SUFFICES ASSUME Init PROVE LogicalTime
  OBVIOUS
<1>1. /\ txs = <<Idle>> /\ Tip = 1 /\ rows = {} /\ failed = {}
      /\ \A m \in Memos : finish[m] = 0
  BY DEF Init, FeedInit, Tip
<1>2. \A b \in 1..Tip : txs[b].kind = "none"
  BY <1>1 DEF Idle
<1> QED BY <1>1, <1>2 DEF LogicalTime

\* Every step keeps the incomes of saved blocks.
LEMMA SavedIncomesStep ==
    ASSUME Types, SavedIncomes, [Next]_vars
    PROVE  SavedIncomes'
<1>0. blockData \subseteq 1..Tip /\ scanning \in 0..Tip
  BY DEF Types, TypeOK, FeedTypeOK
<1>1. CASE incomes' = incomes /\ blockData' = blockData /\ \A b \in 1..Tip : txs'[b] = txs[b]
  BY <1>0, <1>1 DEF SavedIncomes
<1>2. ASSUME NEW utime \in 0..now, NEW tx \in TxType, ProduceBlock(utime),
             txs' = Append(txs, tx), incomes' = incomes
      PROVE  SavedIncomes'
  <2>1. blockData' = blockData /\ \A b \in 1..Tip : txs'[b] = txs[b]
    BY <1>2, NewBlock
  <2> QED BY <1>1, <1>2, <2>1
<1>3. ASSUME NEW utime \in 0..now, EmptyBlock(utime) PROVE SavedIncomes'
  <2>1. Idle \in TxType
    BY DEF Idle, TxType
  <2> QED BY <1>2, <1>3, <2>1 DEF EmptyBlock, rowVars
<1>4. ASSUME NEW utime \in 0..now, NEW income \in travelling, DeliverIncome(utime, income)
      PROVE  SavedIncomes'
  <2>1. income \in Nat
    BY DEF Types, TypeOK
  <2>2. [kind |-> "income", lt |-> income, memo |-> 0, amount |-> 1] \in TxType
    BY <2>1 DEF TxType
  <2> QED BY <1>2, <1>4, <2>2 DEF DeliverIncome, rowVars
<1>5. ASSUME NEW utime \in 0..now, NEW memo \in mempool, Sweep(utime, memo) PROVE SavedIncomes'
  <2>1. memo \in Nat /\ balance \in Nat /\ lt' \in Nat
    BY <1>5, SweepAssumption DEF Types, TypeOK, Memos, Sweep
  <2>2. [kind |-> "sweep", lt |-> lt', memo |-> memo, amount |-> balance] \in TxType
    BY <2>1 DEF TxType
  <2>3. /\ txs' = Append(txs, [kind |-> "sweep", lt |-> lt', memo |-> memo, amount |-> balance])
        /\ ProduceBlock(utime) /\ incomes' = incomes
    BY <1>5 DEF Sweep, rowVars
  <2> QED BY <1>2, <2>2, <2>3
<1>6. CASE SaveParsedBlockData
  <2>1. txs' = txs /\ incomes \subseteq incomes'
    BY <1>6 DEF SaveParsedBlockData, chainVars, ProcessTonDepositWalletTX, SaveExternalIncome,
         UpdateInternalWithdrawal
  <2>2. CASE ~ Commits
    BY <1>6, <2>1, <2>2 DEF SaveParsedBlockData, ScanDone, SavedIncomes
  <2>3. CASE Commits
    <3>1. blockData' = blockData \cup {scanning} /\ ProcessTonDepositWalletTX(txs[scanning])
      BY <1>6, <2>3 DEF SaveParsedBlockData, ScanDone
    <3>2. txs[scanning].kind = "income" => txs[scanning].lt \in incomes'
      BY <3>1 DEF ProcessTonDepositWalletTX, SaveExternalIncome, IsIncome, IsSweep, Idle
    <3> QED BY <2>1, <3>1, <3>2 DEF SavedIncomes
  <2> QED BY <2>2, <2>3
<1>7. CASE \/ SendIncome \/ IntWaitSync \/ GetTonInternalWithdrawalTasks \/ GetAccountCurrentState
           \/ \E memo \in Memos : SaveInternalWithdrawalTask(memo)
           \/ SkipTask \/ ExpWaitSync \/ SetExpired \/ SetExpiredError \/ TimePasses \/ Feed
           \/ Crash \/ \E sent \in BOOLEAN : WithdrawTON(sent)
           \/ UNCHANGED vars
  BY <1>1, <1>7 DEF SendIncome, IntWaitSync, GetTonInternalWithdrawalTasks, GetAccountCurrentState,
     SaveInternalWithdrawalTask, SkipTask, ExpWaitSync, SetExpired, SetExpiredError,
     TimePasses, Tick, Feed, TrackerPoll, TrackerSend, TrackerFetchError, ScanError, ScanDone,
     Crash, Restart, WithdrawTON, vars, feedVars, chainVars, msgVars, rowVars, procVars
<1> QED BY <1>3, <1>4, <1>5, <1>6, <1>7 DEF Next

\* No income is forgotten, with no assumption about timing: one that lies on the
\* account, and was created after the sweeps before it, is among those the query
\* returns as soon as no row is open.  Whichever row the join selects, it was
\* finished by a sweep that lies before the income on the chain.
THEOREM NoIncomeForgotten == Spec => []IncomesAreFound
<1> DEFINE Inv == Types /\ LogicalTime /\ SavedIncomes
<1>1. Init => Inv
  <2> SUFFICES ASSUME Init PROVE SavedIncomes
    BY TypesInit, LogicalTimeInit
  <2>1. txs = <<Idle>> /\ blockData = {1} /\ txs[1].kind = "none"
    BY DEF Init, FeedInit, Idle
  <2> QED BY <2>1 DEF SavedIncomes
<1>2. Inv /\ [Next]_vars => Inv'
  BY TypesStep, LogicalTimeStep, SavedIncomesStep
<1>3. ASSUME Inv PROVE IncomesAreFound
  <2> SUFFICES ASSUME NEW b \in Unmoved, \A m \in rows \ failed : finish[m] # 0,
                      \A c \in 1..b : txs[c].kind = "sweep" => txs[c].lt < txs[b].lt,
                      LatestRows # {}
               PROVE  \E m \in LatestRows : finish[m] # 0 /\ txs[b].lt > finish[m]
    <3>1. \A b \in Unmoved : txs[b].lt \in incomes
      BY <1>3 DEF Unmoved, SavedIncomes
    <3> QED BY <3>1 DEF IncomesAreFound, UnsweptIncomes
  <2> DEFINE S == {since[k] : k \in rows \ failed}
  <2>0. /\ Tip \in Nat /\ lt \in Nat /\ blockData \subseteq 1..Tip /\ rows \subseteq Memos
        /\ \A k \in rows : since[k] \in 1..lt
    <3>1. Tip \in Nat
      BY <1>3 DEF Types, TypeOK, FeedTypeOK, Tip
    <3> QED BY <1>3, <3>1 DEF Types, TypeOK, FeedTypeOK
  <2>1. S \in SUBSET (1..lt) /\ S # {}
    BY <2>0 DEF LatestRows
  <2>2. Max(S) \in S
    <3> HIDE DEF S
    <3> QED BY <2>0, <2>1, MaxIsGreatest
  <2>3. PICK m \in rows \ failed : since[m] = Max(S)
    BY <2>2
  <2>4. m \in LatestRows /\ finish[m] # 0 /\ m \in Memos
    BY <2>0, <2>3 DEF LatestRows
  <2>5. PICK c \in Sweeps(m, blockData) : txs[c].lt = finish[m]
    BY <1>3, <2>4 DEF LogicalTime
  <2>6. c \in 1..Tip /\ b \in 1..Tip /\ txs[c].kind = "sweep"
    BY <2>0, <2>5 DEF Sweeps, Unmoved
  <2>7. c \in 1..b
    <3>1. c \notin b..Tip
      BY <2>6 DEF Unmoved
    <3> QED BY <2>0, <2>6, <3>1
  <2>8. txs[c].lt < txs[b].lt /\ txs[c].lt \in Nat /\ txs[b].lt \in Nat
    BY <1>3, <2>6, <2>7, TxTyped DEF TxType
  <2> QED BY <2>4, <2>5, <2>8
<1> QED BY <1>1, <1>2, <1>3, PTL DEF Spec

----------------------------------------------------------------------------
(* One open row                                                            *)

\* The query finds work only if all rows that have not failed are finished, and
\* then the task is later than all of them.
LEMMA TaskIsLatest ==
    ASSUME Types, LogicalTime, OpenIsLatest, UnsweptIncomes # {}, NEW n \in rows \ failed
    PROVE  finish[n] # 0 /\ since[n] < Max(UnsweptIncomes)
<1> DEFINE S == {since[k] : k \in rows \ failed}
           t == Max(UnsweptIncomes)
<1>0. /\ lt \in Nat /\ t \in UnsweptIncomes /\ t \in 1..lt /\ rows \subseteq Memos
      /\ \A k \in rows : since[k] \in 1..lt
  BY TaskTyped DEF Types, TypeOK
<1>1. S \in SUBSET (1..lt) /\ S # {}
  BY <1>0
<1>2. Max(S) \in S /\ \A y \in S : y <= Max(S)
  <2> HIDE DEF S
  <2> QED BY <1>0, <1>1, MaxIsGreatest
<1>3. LatestRows = {k \in rows : since[k] = Max(S)}
  BY DEF LatestRows
<1>4. LatestRows # {}
  BY <1>2, <1>3
<1>5. PICK m \in LatestRows : finish[m] # 0 /\ t > finish[m]
  BY <1>0, <1>4 DEF UnsweptIncomes
<1>6. m \in rows \ failed /\ since[m] = Max(S)
  BY <1>3, <1>5 DEF LogicalTime
<1>7. since[m] < finish[m]
  <2>1. PICK c \in Sweeps(m, blockData) : txs[c].lt = finish[m]
    BY <1>0, <1>5, <1>6 DEF LogicalTime
  <2>2. c \in 1..Tip /\ txs[c].kind = "sweep" /\ txs[c].memo = m
    BY <2>1 DEF Sweeps, Types, TypeOK, FeedTypeOK
  <2> QED BY <2>1, <2>2 DEF LogicalTime
<1>8. since[n] <= since[m] /\ since[n] \in Nat /\ since[m] \in Nat /\ finish[m] \in Nat
  BY <1>0, <1>2, <1>6 DEF Types
<1>9. finish[n] # 0
  <2> SUFFICES ASSUME finish[n] = 0 PROVE FALSE
    OBVIOUS
  <2>1. m # n
    BY <1>5
  <2>2. since[m] < since[n]
    BY <1>6, <2>1 DEF OpenIsLatest
  <2> QED BY <1>8, <2>2
<1>10. since[n] < t
  <2> HIDE DEF t
  <2> QED BY <1>0, <1>5, <1>7, <1>8
<1> QED BY <1>9, <1>10

\* Every step keeps the open row the latest one.
LEMMA OpenIsLatestStep ==
    ASSUME Types, LogicalTime, OpenIsLatest, [Next]_vars
    PROVE  OpenIsLatest'
<1>0. /\ rows \subseteq Memos /\ failed \subseteq rows
      /\ since \in [Memos -> Nat] /\ finish \in [Memos -> Nat]
  BY DEF Types, TypeOK
<1>1. CASE /\ UNCHANGED <<rows, since, finish>> /\ failed \subseteq failed'
           /\ pc' \in {"balance", "save"} => pc \in {"balance", "save"} /\ task' = task
  BY <1>1 DEF OpenIsLatest
<1>2. CASE GetTonInternalWithdrawalTasks
  <2>1. UNCHANGED <<rows, since, finish, failed>>
    BY <1>2 DEF GetTonInternalWithdrawalTasks, rowVars
  <2>2. CASE UnsweptIncomes = {}
    BY <1>2, <2>1, <2>2 DEF GetTonInternalWithdrawalTasks, OpenIsLatest
  <2>3. CASE UnsweptIncomes # {}
    <3>1. task' = Max(UnsweptIncomes)
      BY <1>2, <2>3 DEF GetTonInternalWithdrawalTasks
    <3>2. \A n \in rows \ failed : finish[n] # 0 /\ since[n] < Max(UnsweptIncomes)
      BY <2>3, TaskIsLatest
    <3> QED BY <2>1, <3>1, <3>2 DEF OpenIsLatest
  <2> QED BY <2>2, <2>3
<1>3. ASSUME NEW memo \in Memos, SaveInternalWithdrawalTask(memo) PROVE OpenIsLatest'
  <2>1. /\ memo \notin rows /\ rows' = rows \cup {memo} /\ since' = [since EXCEPT ![memo] = task]
        /\ UNCHANGED <<finish, failed>> /\ pc = "save" /\ pc' = "send"
    BY <1>3 DEF SaveInternalWithdrawalTask
  <2>2. since'[memo] = task /\ \A m \in rows : since'[m] = since[m]
    BY <1>0, <2>1
  <2>3. \A m \in rows \ failed : finish[m] # 0 /\ since[m] < task
    BY <2>1 DEF OpenIsLatest
  <2>4. ASSUME NEW m \in rows' \ failed', NEW n \in rows' \ failed', m # n, finish'[n] = 0
        PROVE  since'[m] < since'[n]
    <3>1. n = memo
      BY <2>1, <2>3, <2>4
    <3>2. m \in rows \ failed
      BY <2>1, <2>4, <3>1
    <3> QED BY <2>2, <2>3, <3>1, <3>2
  <2> QED BY <2>1, <2>4 DEF OpenIsLatest
<1>4. CASE SaveParsedBlockData
  <2>0. UNCHANGED <<rows, since, failed, pc, task>>
    BY <1>4 DEF SaveParsedBlockData, procVars
  <2>1. CASE finish' = finish
    BY <1>1, <2>0, <2>1
  <2>2. CASE /\ IsSweep(txs[scanning])
             /\ finish' = [finish EXCEPT ![txs[scanning].memo] = txs[scanning].lt]
    <3>1. scanning \in 1..Tip
      BY <1>4 DEF SaveParsedBlockData, ScanDone, Types, TypeOK, FeedTypeOK
    <3>2. txs[scanning].lt \in 1..lt /\ lt \in Nat
      BY <2>2, <3>1 DEF Types, TypeOK, IsSweep
    <3>3. \A m \in rows : finish'[m] = finish[m] \/ finish'[m] # 0
      BY <1>0, <2>2, <3>2
    <3> QED BY <2>0, <3>3 DEF OpenIsLatest
  <2> QED BY <1>4, <2>1, <2>2 DEF SaveParsedBlockData, ProcessTonDepositWalletTX,
             SaveExternalIncome, UpdateInternalWithdrawal
<1>5. CASE SendIncome \/ IntWaitSync \/ GetAccountCurrentState \/ SkipTask \/ ExpWaitSync
             \/ SetExpired \/ SetExpiredError \/ TimePasses \/ Feed \/ Crash \/ UNCHANGED vars
  BY <1>1, <1>5 DEF SendIncome, IntWaitSync, GetAccountCurrentState, SkipTask, ExpWaitSync,
                    SetExpired, SetExpiredError, TimePasses, Feed, Crash, vars, rowVars, procVars
<1>6. ASSUME NEW utime \in 0..now, NEW x, EmptyBlock(utime) \/ DeliverIncome(utime, x) \/ Sweep(utime, x)
      PROVE  OpenIsLatest'
  BY <1>1, <1>6 DEF EmptyBlock, DeliverIncome, Sweep, rowVars, procVars
<1>7. ASSUME NEW sent \in BOOLEAN, WithdrawTON(sent) PROVE OpenIsLatest'
  BY <1>1, <1>7 DEF WithdrawTON, rowVars
<1> QED BY <1>2, <1>3, <1>4, <1>5, <1>6, <1>7 DEF Next

\* One sweep of a deposit at a time, with no assumption about timing, although
\* finish_lt may move backwards when an older block is saved later.
THEOREM OneSweepAtATime == Spec => []OneOpenSweep
<1> DEFINE Inv == Types /\ LogicalTime /\ OpenIsLatest
<1>1. Init => Inv
  BY TypesInit, LogicalTimeInit DEF Init, OpenIsLatest
<1>2. Inv /\ [Next]_vars => Inv'
  BY TypesStep, LogicalTimeStep, OpenIsLatestStep
<1>3. ASSUME Inv PROVE OneOpenSweep
  <2>1. \A m \in rows : since[m] \in Nat
    BY <1>3 DEF Types, TypeOK
  <2> QED BY <1>3, <2>1 DEF OpenIsLatest, OneOpenSweep
<1> QED BY <1>1, <1>2, <1>3, PTL DEF Spec
----------------------------------------------------------------------------
(* Expiration                                                              *)

\* A step that produces a block keeps Expiry: a sweep respects the TTL of its
\* message, and the message of a failed row is past it.
LEMMA NewBlockExpiry ==
    ASSUME Types, Expiry, ChainInOrder, NEW utime \in 0..now, ProduceBlock(utime),
           NEW tx \in TxType, txs' = Append(txs, tx),
           tx.kind = "sweep" => tx.memo \in mempool /\ utime <= ttl[tx.memo],
           UNCHANGED <<mempool, ttl, rows, finish, failed, expiredAt, pc, savedAt>>
    PROVE  Expiry'
<1>0. /\ Tip \in Nat \ {0} /\ Tip' = Tip + 1 /\ txs'[Tip + 1] = tx /\ genUtime'[Tip + 1] = utime
      /\ \A i \in 1..Tip : txs'[i] = txs[i] /\ genUtime'[i] = genUtime[i]
      /\ genUtime[Tip] <= utime /\ now' = now /\ blockData' = blockData
  BY NewBlock
<1>1. /\ blockData \subseteq 1..Tip /\ failed \subseteq rows /\ rows \subseteq Memos
      /\ mempool \subseteq rows
      /\ expiredAt \in [Memos -> Nat] /\ genUtime[Tip] \in Nat /\ utime \in Nat
      /\ ttl \in [Memos -> Nat] /\ SendDelay \in Nat
  <2>1. genUtime \in Seq(Nat) /\ now \in Nat
    BY DEF Types, TypeOK, FeedTypeOK
  <2>2. genUtime[Tip] \in Nat
    BY <1>0, <2>1 DEF Tip
  <2>3. utime \in Nat
    BY <2>1
  <2>4. /\ blockData \subseteq 1..Tip /\ failed \subseteq rows /\ rows \subseteq Memos
        /\ mempool \subseteq rows /\ expiredAt \in [Memos -> Nat]
        /\ ttl \in [Memos -> Nat] /\ SendDelay \in Nat
    BY SweepAssumption DEF Types, TypeOK, FeedTypeOK
  <2> QED BY <2>2, <2>3, <2>4
<1>2. \A m \in failed : expiredAt[m] + SendDelay < genUtime[Tip] /\ expiredAt[m] \in Nat
  BY <1>1 DEF Expiry
<1>3. \A m \in failed : expiredAt'[m] + SendDelay < genUtime'[Tip']
  BY <1>0, <1>1, <1>2
<1>4. ASSUME tx.kind = "sweep"
      PROVE  utime <= expiredAt[tx.memo] + SendDelay /\ tx.memo \notin failed
  <2>1. tx.memo \in Memos /\ utime <= ttl[tx.memo] /\ ttl[tx.memo] <= expiredAt[tx.memo] + SendDelay
    BY <1>1, <1>4 DEF Expiry
  <2>2. ttl[tx.memo] \in Nat /\ expiredAt[tx.memo] \in Nat
    BY <1>1, <2>1
  <2>3. utime <= expiredAt[tx.memo] + SendDelay
    BY <1>1, <2>1, <2>2
  <2> QED BY <1>0, <1>1, <1>2, <2>2, <2>3
<1>5. ASSUME NEW b \in 1..Tip', txs'[b].kind = "sweep"
      PROVE  genUtime'[b] <= expiredAt'[txs'[b].memo] + SendDelay
  <2>1. CASE b = Tip + 1
    BY <1>0, <1>4, <1>5, <2>1
  <2>2. CASE b \in 1..Tip
    <3>1. txs'[b] = txs[b] /\ genUtime'[b] = genUtime[b]
      BY <1>0, <2>2
    <3> QED BY <1>5, <2>2, <3>1 DEF Expiry
  <2>3. b = Tip + 1 \/ b \in 1..Tip
    <3>1. Tip \in Nat /\ Tip' = Tip + 1
      BY <1>0
    <3> QED BY <3>1
  <2> QED BY <2>1, <2>2, <2>3
<1>6. \A b \in blockData' : txs'[b].kind = "sweep" => finish'[txs'[b].memo] # 0
  BY <1>0, <1>1 DEF Expiry
<1>7. NoExpiredSweep'
  <2> SUFFICES ASSUME NEW m \in failed, NEW b \in 1..(Tip + 1),
                      txs'[b].kind = "sweep", txs'[b].memo = m
               PROVE  FALSE
    BY <1>0 DEF NoExpiredSweep, Sweeps
  <2>1. b # Tip + 1
    BY <1>0, <1>4
  <2>2. b \in 1..Tip /\ txs'[b] = txs[b]
    <3>1. b \in 1..Tip
      <4>1. Tip \in Nat
        BY <1>0
      <4> QED BY <2>1, <4>1
    <3> QED BY <1>0, <3>1
  <2> QED BY <2>2 DEF Expiry, NoExpiredSweep, Sweeps
<1> QED BY <1>0, <1>3, <1>5, <1>6, <1>7 DEF Expiry

\* What the expiration processor may conclude from a sync with d to spare, if no
\* gap comes within d of the allowed lag: the chain is more than d past a time
\* older than the lag, and every block up to d past it is saved.
LEMMA OldIsSavedWithin ==
    ASSUME FeedTypeOK, ChainInOrder, NEW d \in Nat, GapsWithin(d), SyncedWithin(d),
           NEW t \in Nat, t < now - AllowableBlockchainLagging
    PROVE  /\ t + d < genUtime[Tip]
           /\ \A b \in 1..Tip : genUtime[b] <= t + d => b \in blockData
<1> DEFINE n == GetLastSavedBlock
<1>0. /\ n \in 1..Tip /\ Tip \in Nat \ {0} /\ now \in Nat
      /\ AllowableBlockchainLagging \in Nat /\ \A i \in 1..Tip : genUtime[i] \in Nat
  <2>1. n \in 1..Tip
    BY LastSaved
  <2> QED BY <2>1, FeedAssumption DEF FeedTypeOK, Tip
<1>1. t + d < genUtime[n]
  BY <1>0 DEF SyncedWithin
<1>2. genUtime[n] <= genUtime[Tip]
  BY <1>0 DEF ChainInOrder
<1>3. ASSUME NEW b \in 1..Tip, genUtime[b] <= t + d PROVE b \in blockData
  <2>1. b < n
    <3>1. ASSUME n <= b PROVE FALSE
      <4>1. genUtime[n] <= genUtime[b]
        BY <1>0, <3>1 DEF ChainInOrder
      <4> QED BY <1>0, <1>1, <1>3, <4>1
    <3> QED BY <1>0, <3>1
  <2>2. b \in 1..n
    BY <1>0, <2>1
  <2> QED BY <1>0, <1>3, <2>2 DEF GapsWithin
<1> QED BY <1>0, <1>1, <1>2, <1>3

\* Every step keeps the expiration processor in sync, if KeepsSync holds of it.
LEMMA InSyncStep ==
    ASSUME Types, InSync, [Next /\ KeepsSync]_vars
    PROVE  InSync'
<1>1. CASE UNCHANGED vars
  BY <1>1 DEF InSync, SyncedWithin, GetLastSavedBlock, vars, feedVars
<1>2. CASE Next /\ KeepsSync
  <2> SUFFICES ASSUME expPc' = "expire" PROVE Synced
    BY <1>2 DEF InSync, KeepsSync
  <2>1. CASE expPc = "expire"
    <3>1. GetLastSavedBlock \in 1..Tip /\ now \in Nat /\ genUtime \in Seq(Nat)
      BY LastSaved DEF Types, TypeOK, FeedTypeOK
    <3>2. genUtime[GetLastSavedBlock] \in Nat
      BY <3>1 DEF Tip
    <3> QED BY <2>1, <3>1, <3>2, SweepAssumption, FeedAssumption
            DEF InSync, SyncedWithin, Synced, IsExpired
  <2>2. CASE expPc # "expire"
    BY <1>2, <2>2 DEF Next, SendIncome, EmptyBlock, DeliverIncome, Sweep, IntWaitSync,
       GetTonInternalWithdrawalTasks, GetAccountCurrentState, SaveInternalWithdrawalTask, SkipTask,
       WithdrawTON, ExpWaitSync, SetExpired, SetExpiredError, TimePasses, SaveParsedBlockData,
       Feed, Crash
  <2> QED BY <2>1, <2>2
<1> QED BY <1>1, <1>2

\* Every step keeps expiration safe if neither a gap nor the last saved block
\* comes within SendDelay of the allowed lag.
LEMMA ExpiryStep ==
    ASSUME Types, LogicalTime, ChainInOrder, GapsWithin(SendDelay), InSync, Expiry, [Next]_vars
    PROVE  Expiry'
<1>0. /\ FeedTypeOK /\ Tip \in Nat \ {0} /\ now \in Nat /\ ExternalMessageLifetime \in Nat
      /\ rows \subseteq Memos /\ failed \subseteq rows /\ mempool \subseteq rows
      /\ expiredAt \in [Memos -> Nat] /\ finish \in [Memos -> Nat] /\ ttl \in [Memos -> Nat]
      /\ Memos = 1..MaxMemos /\ MaxMemos \in Nat /\ savedAt \in Nat /\ lt \in Nat
      /\ SendDelay \in Nat
  <2>1. FeedTypeOK /\ ExternalMessageLifetime \in Nat /\ MaxMemos \in Nat /\ SendDelay \in Nat
    BY SweepAssumption DEF Types, TypeOK
  <2>2. Tip \in Nat /\ now \in Nat
    BY <2>1 DEF FeedTypeOK, Tip
  <2>3. Tip # 0
    BY <2>1, <2>2 DEF FeedTypeOK
  <2> QED BY <2>1, <2>2, <2>3 DEF Types, TypeOK, Memos
<1>1. CASE /\ UNCHANGED <<genUtime, blockData, txs, mempool, ttl, rows, finish, failed, expiredAt>>
           /\ pc' = "send" => UNCHANGED <<pc, savedAt, now>>
  BY <1>1 DEF Expiry, NoExpiredSweep, Sweeps, Tip
<1>2. ASSUME NEW utime \in 0..now, EmptyBlock(utime) PROVE Expiry'
  <2>1. Idle \in TxType /\ Idle.kind # "sweep"
    BY DEF Idle, TxType
  <2> QED BY <1>2, <2>1, NewBlockExpiry DEF EmptyBlock, msgVars, rowVars, procVars
<1>3. ASSUME NEW utime \in 0..now, NEW income \in travelling, DeliverIncome(utime, income)
      PROVE  Expiry'
  <2> DEFINE tx == [kind |-> "income", lt |-> income, memo |-> 0, amount |-> 1]
  <2>1. income \in Nat
    BY <1>0 DEF Types, TypeOK
  <2>2. tx \in TxType /\ tx.kind # "sweep"
    BY <2>1 DEF TxType
  <2>3. /\ txs' = Append(txs, tx) /\ ProduceBlock(utime)
        /\ UNCHANGED <<mempool, ttl, rows, finish, failed, expiredAt, pc, savedAt>>
    BY <1>3 DEF DeliverIncome, msgVars, rowVars, procVars
  <2> HIDE DEF tx
  <2> QED BY <2>2, <2>3, NewBlockExpiry
<1>4. ASSUME NEW utime \in 0..now, NEW memo \in mempool, Sweep(utime, memo) PROVE Expiry'
  <2> DEFINE tx == [kind |-> "sweep", lt |-> lt + 1, memo |-> memo, amount |-> balance]
  <2>1. memo \in Nat /\ balance \in Nat
    BY <1>0 DEF Types, TypeOK
  <2>2. tx \in TxType /\ tx.memo = memo
    BY <1>0, <2>1 DEF TxType
  <2>3. /\ txs' = Append(txs, tx) /\ ProduceBlock(utime) /\ utime <= ttl[memo]
        /\ UNCHANGED <<mempool, ttl, rows, finish, failed, expiredAt, pc, savedAt>>
    BY <1>4 DEF Sweep, msgVars, rowVars, procVars
  <2> HIDE DEF tx
  <2> QED BY <2>2, <2>3, NewBlockExpiry
<1>5. ASSUME NEW memo \in Memos, SaveInternalWithdrawalTask(memo) PROVE Expiry'
  <2>1. /\ memo \notin rows /\ (\A m \in Memos : m < memo => m \in rows)
        /\ rows' = rows \cup {memo} /\ savedAt' = now /\ now <= now + SendDelay
        /\ expiredAt' = [expiredAt EXCEPT ![memo] = now + ExternalMessageLifetime]
        /\ UNCHANGED <<now, genUtime, blockData, txs, mempool, ttl, finish, failed>>
    BY <1>0, <1>5 DEF SaveInternalWithdrawalTask, feedVars, chainVars, msgVars
  <2>2. /\ expiredAt'[memo] = now + ExternalMessageLifetime
        /\ \A m \in rows : expiredAt'[m] = expiredAt[m]
    BY <1>0, <2>1
  <2>3. Max(rows') = memo
    <3>1. \A m \in rows : m <= memo
      BY <1>0, <2>1 DEF Expiry
    <3>2. rows' \in SUBSET (1..MaxMemos) /\ rows' # {} /\ memo \in rows'
      BY <1>0, <2>1
    <3>3. Max(rows') \in rows' /\ memo <= Max(rows')
      BY <1>0, <3>2, MaxIsGreatest
    <3>4. Max(rows') <= memo
      <4>1. memo <= memo
        BY <1>0
      <4> QED BY <2>1, <3>1, <3>3, <4>1
    <3>5. Max(rows') \in Int /\ memo \in Int
      <4>1. \A x \in 1..MaxMemos : x \in Int
        BY <1>0
      <4>2. Max(rows') \in 1..MaxMemos /\ memo \in 1..MaxMemos
        BY <1>0, <3>2, <3>3
      <4> QED BY <4>1, <4>2
    <3> QED BY <3>3, <3>4, <3>5
  <2>4. \A m \in rows', n \in Memos : n < m => n \in rows'
    BY <1>0, <2>1 DEF Expiry
  <2>5. \A b \in 1..Tip : txs[b].kind = "sweep" => txs[b].memo \in rows
    BY <1>0 DEF Types
  <2>6. /\ \A m \in mempool' : ttl'[m] <= expiredAt'[m] + SendDelay
        /\ \A b \in 1..Tip' : txs'[b].kind = "sweep" =>
              genUtime'[b] <= expiredAt'[txs'[b].memo] + SendDelay
        /\ \A m \in failed' : expiredAt'[m] + SendDelay < genUtime'[Tip']
    BY <1>0, <2>1, <2>2, <2>5 DEF Expiry, Tip
  <2> QED BY <2>1, <2>2, <2>3, <2>4, <2>6 DEF Expiry, NoExpiredSweep, Sweeps, Tip
<1>6. ASSUME NEW sent \in BOOLEAN, WithdrawTON(sent) PROVE Expiry'
  <2> DEFINE memo == Max(rows)
  <2>1. /\ ttl' = [ttl EXCEPT ![memo] = now + ExternalMessageLifetime]
        /\ mempool' = (IF sent THEN mempool \cup {memo} ELSE mempool)
        /\ pc = "send" /\ pc' = "sync"
        /\ UNCHANGED <<now, genUtime, blockData, txs, rows, finish, failed, expiredAt>>
    BY <1>6 DEF WithdrawTON, feedVars, chainVars, rowVars
  <2>2. memo \in rows
    BY <1>0, <2>1, MaxIsGreatest DEF Types
  <2>3. now + ExternalMessageLifetime <= expiredAt[memo] + SendDelay
    BY <1>0, <2>1 DEF Expiry
  <2> HIDE DEF memo
  <2>4. \A m \in mempool' : ttl'[m] <= expiredAt'[m] + SendDelay
    BY <1>0, <2>1, <2>2, <2>3 DEF Expiry
  <2> QED BY <2>1, <2>4 DEF Expiry, NoExpiredSweep, Sweeps, Tip
<1>7. CASE SetExpired
  <2>1. /\ SyncedWithin(SendDelay) /\ failed' = failed \cup Expired
        /\ UNCHANGED <<now, genUtime, blockData, txs, mempool, ttl, rows, finish, expiredAt,
                       pc, savedAt>>
    BY <1>7 DEF SetExpired, InSync, feedVars, chainVars, msgVars, procVars
  <2>2. ASSUME NEW m \in Expired
        PROVE  expiredAt[m] + SendDelay < genUtime[Tip] /\ Sweeps(m, 1..Tip) = {}
    <3>1. /\ expiredAt[m] \in Nat /\ finish[m] = 0
          /\ expiredAt[m] < now - AllowableBlockchainLagging
      BY <1>0 DEF Expired
    <3>2. /\ expiredAt[m] + SendDelay < genUtime[Tip]
          /\ \A b \in 1..Tip : genUtime[b] <= expiredAt[m] + SendDelay => b \in blockData
      BY <1>0, <2>1, <3>1, OldIsSavedWithin
    <3> QED BY <3>1, <3>2 DEF Expiry, Sweeps
  <2> QED BY <2>1, <2>2 DEF Expiry, NoExpiredSweep, Sweeps, Tip
<1>8. CASE TimePasses
  <2>1. UNCHANGED <<genUtime, blockData, txs, mempool, ttl, rows, finish, failed, expiredAt,
                    pc, savedAt>>
    BY <1>8 DEF TimePasses, Tick, chainVars, msgVars, rowVars, procVars
  <2>2. pc = "send" => now' <= savedAt + SendDelay
    BY <1>0, <1>8 DEF TimePasses, Tick
  <2> QED BY <2>1, <2>2 DEF Expiry, NoExpiredSweep, Sweeps, Tip
<1>9. CASE SaveParsedBlockData
  <2>1. /\ UNCHANGED <<now, genUtime, txs, mempool, ttl, rows, failed, expiredAt, pc, savedAt>>
        /\ scanning \in 1..Tip
    BY <1>0, <1>9 DEF SaveParsedBlockData, ScanDone, chainVars, msgVars, procVars, FeedTypeOK
  <2>2. \A b \in blockData' : txs'[b].kind = "sweep" => finish'[txs'[b].memo] # 0
    <3>0. blockData \subseteq 1..Tip
      BY <1>0 DEF FeedTypeOK
    <3>1. CASE ~ Commits
      BY <1>9, <2>1, <3>1 DEF SaveParsedBlockData, ScanDone, Expiry
    <3>2. CASE Commits /\ txs[scanning].kind # "sweep"
      BY <1>9, <2>1, <3>2 DEF SaveParsedBlockData, ScanDone, Expiry, ProcessTonDepositWalletTX,
         IsSweep, IsIncome, SaveExternalIncome
    <3>3. CASE Commits /\ txs[scanning].kind = "sweep"
      <4>1. blockData' = blockData \cup {scanning}
        BY <1>9, <3>3 DEF SaveParsedBlockData, ScanDone
      <4>2. finish' = [finish EXCEPT ![txs[scanning].memo] = txs[scanning].lt]
        BY <1>9, <3>3 DEF SaveParsedBlockData, ProcessTonDepositWalletTX, IsSweep, IsIncome,
             UpdateInternalWithdrawal, Idle
      <4>3. txs[scanning].lt # 0 /\ txs[scanning].memo \in Memos
        <5>1. txs[scanning].lt \in 1..lt
          BY <2>1, <3>3 DEF Types
        <5>2. txs[scanning].memo \in mempool
          BY <2>1, <3>3 DEF Types
        <5>3. txs[scanning].lt # 0
          <6>1. \A x \in 1..lt : x # 0
            BY <1>0
          <6> QED BY <5>1, <6>1
        <5> QED BY <1>0, <5>2, <5>3
      <4>4. \A b \in blockData : txs[b].kind = "sweep" => txs[b].memo \in Memos
        BY <1>0, <3>0 DEF Types
      <4> QED BY <1>0, <2>1, <4>1, <4>2, <4>3, <4>4 DEF Expiry
    <3> QED BY <3>1, <3>2, <3>3
  <2> QED BY <2>1, <2>2 DEF Expiry, NoExpiredSweep, Sweeps, Tip
<1>10. CASE SendIncome \/ IntWaitSync \/ GetTonInternalWithdrawalTasks
             \/ GetAccountCurrentState \/ SkipTask \/ ExpWaitSync \/ SetExpiredError \/ Feed
             \/ Crash \/ UNCHANGED vars
  BY <1>1, <1>10 DEF SendIncome, IntWaitSync, GetTonInternalWithdrawalTasks,
         GetAccountCurrentState, SkipTask, ExpWaitSync, SetExpiredError, Feed, TrackerPoll, TrackerSend, TrackerFetchError, ScanError, ScanDone, Crash, Restart,
         vars, feedVars, chainVars, msgVars, rowVars, procVars
<1> QED BY <1>2, <1>3, <1>4, <1>5, <1>6, <1>7, <1>8, <1>9, <1>10 DEF Next

\* No row is failed whose message the chain executes, however long after the
\* row's expired_at was computed the message leaves, as long as that much of the
\* allowed lag stays unused: by the gaps in block_data, and by the last saved
\* block when SetExpired reads the clock.  UpdateInternalWithdrawal then never
\* meets a failed row.
THEOREM NoSweepExpired == TimelySpec => []NoExpiredSweep
<1> DEFINE Inv == Types /\ LogicalTime /\ ChainInOrder /\ GapsWithin(SendDelay) /\ InSync /\ Expiry
<1>1. Init => Inv
  <2> SUFFICES ASSUME Init PROVE Inv
    OBVIOUS
  <2>1. ChainInOrder /\ FeedTypeOK
    BY OrderInit DEF Init
  <2>2. GapsWithin(SendDelay) /\ InSync
    <3>1. 1..GetLastSavedBlock = {1} /\ blockData = {1}
      BY <2>1, LastSaved DEF Init, FeedInit
    <3> QED BY <3>1 DEF Init, GapsWithin, InSync
  <2>3. Expiry
    <3>1. rows = {} /\ mempool = {} /\ failed = {} /\ pc = "sync" /\ txs = <<Idle>>
          /\ Tip = 1 /\ blockData = {1}
      BY DEF Init, FeedInit, Tip
    <3>2. \A b \in {1} : txs[b].kind = "none"
      BY <3>1 DEF Idle
    <3> QED BY <3>1, <3>2 DEF Expiry, NoExpiredSweep
  <2> QED BY <2>1, <2>2, <2>3, TypesInit, LogicalTimeInit
<1>2. Inv /\ [Next /\ GapsWithin(SendDelay)' /\ KeepsSync]_vars => Inv'
  <2> SUFFICES ASSUME Inv, [Next /\ GapsWithin(SendDelay)' /\ KeepsSync]_vars PROVE Inv'
    OBVIOUS
  <2>1. [Next]_vars /\ [Next /\ KeepsSync]_vars
    OBVIOUS
  <2>2. GapsWithin(SendDelay)'
    BY DEF GapsWithin, GetLastSavedBlock, vars, feedVars
  <2>3. ChainInOrder'
    BY <2>1, NextIsFeedStep, ChainInOrderStep DEF Types, TypeOK
  <2> QED BY <2>1, <2>2, <2>3, TypesStep, LogicalTimeStep, InSyncStep, ExpiryStep
<1>3. Inv => NoExpiredSweep
  BY DEF Expiry
<1> QED BY <1>1, <1>2, <1>3, PTL DEF TimelySpec

----------------------------------------------------------------------------
(* Amounts                                                                 *)

\* what the saved blocks hold of the executions of a message
SweptIn(m) == [b \in Sweeps(m, blockData) |-> txs[b].amount]
Swept(m)   == SumFunctionOnSet(SweptIn(m), Sweeps(m, blockData))

\* Of every memo, also one without a row, amount is what was swept.
AmountsAreSwept ==
    /\ amount \in [Memos -> Nat]
    /\ \A m \in Memos : amount[m] = Swept(m)

\* The executions that saved blocks hold are finitely many.
LEMMA SweepsFinite ==
    ASSUME Types, NEW m
    PROVE  /\ IsFiniteSet(Sweeps(m, blockData)) /\ Sweeps(m, blockData) \subseteq 1..Tip
           /\ \A b \in Sweeps(m, blockData) : SweptIn(m)[b] \in Nat
<1>1. Tip \in Nat /\ blockData \subseteq 1..Tip
  BY DEF Types, TypeOK, FeedTypeOK, Tip
<1>2. IsFiniteSet(1..Tip)
  BY <1>1, FS_Interval
<1>3. Sweeps(m, blockData) \subseteq 1..Tip
  BY <1>1 DEF Sweeps
<1>4. \A b \in Sweeps(m, blockData) : SweptIn(m)[b] \in Nat
  <2>1. \A b \in 1..Tip : txs[b].amount \in Nat
    BY TxTyped DEF TxType
  <2> QED BY <1>3, <2>1 DEF SweptIn
<1> QED BY <1>2, <1>3, <1>4, FS_Subset

\* Blocks that stay as they are, and as saved as they are, hold what they held.
LEMMA SweptSame ==
    ASSUME Types, AmountsAreSwept, UNCHANGED <<amount, blockData>>,
           \A b \in 1..Tip : txs'[b] = txs[b]
    PROVE  AmountsAreSwept'
<1>1. blockData \subseteq 1..Tip
  BY DEF Types, TypeOK, FeedTypeOK
<1>2. ASSUME NEW m \in Memos PROVE Swept(m)' = Swept(m)
  <2>1. Sweeps(m, blockData)' = Sweeps(m, blockData)
    BY <1>1 DEF Sweeps
  <2>2. SweptIn(m)' = SweptIn(m)
    BY <1>1, <2>1 DEF SweptIn, Sweeps
  <2> QED BY <2>1, <2>2 DEF Swept
<1> QED BY <1>2 DEF AmountsAreSwept

\* A saved block adds the execution it holds, once, to the amount of its memo.
LEMMA SweptMore ==
    ASSUME Types, AmountsAreSwept, SaveParsedBlockData
    PROVE  AmountsAreSwept'
<1> DEFINE tx == txs[scanning]
<1>0. /\ ScanDone(Commits) /\ txs' = txs
      /\ scanning \in 1..Tip /\ blockData \subseteq 1..Tip
  <2>1. scanning # 0 /\ scanning \in 0..Tip /\ Tip \in Nat /\ blockData \subseteq 1..Tip
    BY DEF SaveParsedBlockData, ScanDone, Types, TypeOK, FeedTypeOK, Tip
  <2> QED BY <2>1 DEF SaveParsedBlockData, chainVars
<1>1. CASE ~ Commits
  <2>1. UNCHANGED <<amount, blockData>>
    BY <1>0, <1>1 DEF SaveParsedBlockData, ScanDone
  <2> QED BY <1>0, <2>1, SweptSame
<1>2. CASE Commits
  <2>1. /\ scanning \notin blockData /\ blockData' = blockData \cup {scanning}
        /\ ProcessTonDepositWalletTX(tx)
    BY <1>0, <1>2 DEF Commits, NotSavedYet, ScanDone, SaveParsedBlockData
  <2>2. tx \in TxType
    BY <1>0, TxTyped
  <2>3. CASE tx.kind # "sweep"
    <3>1. amount' = amount
      BY <2>1, <2>3 DEF ProcessTonDepositWalletTX, SaveExternalIncome, IsSweep
    <3>2. ASSUME NEW m \in Memos PROVE Swept(m)' = Swept(m)
      <4>1. Sweeps(m, blockData)' = Sweeps(m, blockData)
        BY <1>0, <2>1, <2>3 DEF Sweeps
      <4>2. SweptIn(m)' = SweptIn(m)
        BY <1>0, <4>1 DEF SweptIn
      <4> QED BY <4>1, <4>2 DEF Swept
    <3> QED BY <3>1, <3>2 DEF AmountsAreSwept
  <2>4. CASE tx.kind = "sweep"
    <3>1. amount' = [amount EXCEPT ![tx.memo] = @ + tx.amount]
      BY <2>1, <2>4 DEF ProcessTonDepositWalletTX, UpdateInternalWithdrawal, IsSweep, IsIncome, Idle
    <3>2. tx.memo \in Memos /\ tx.amount \in Nat
      <4>1. tx.memo \in mempool
        BY <1>0, <2>4 DEF Types
      <4> QED BY <2>2, <4>1 DEF Types, TypeOK, TxType
    <3>3. ASSUME NEW m \in Memos, m # tx.memo PROVE Swept(m)' = Swept(m)
      <4>1. Sweeps(m, blockData)' = Sweeps(m, blockData)
        BY <1>0, <2>1, <3>3 DEF Sweeps
      <4>2. SweptIn(m)' = SweptIn(m)
        BY <1>0, <4>1 DEF SweptIn
      <4> QED BY <4>1, <4>2 DEF Swept
    <3>4. ASSUME NEW m \in Memos, m = tx.memo PROVE Swept(m)' = tx.amount + Swept(m)
      <4> DEFINE S == Sweeps(m, blockData)
                 f == SweptIn(m)
                 g == [b \in S \cup {scanning} |-> txs[b].amount]
      <4>1. S \cup {scanning} = {b \in blockData' : txs'[b].kind = "sweep" /\ txs'[b].memo = m}
        BY <1>0, <2>1, <2>4, <3>4 DEF Sweeps
      <4>2. Swept(m)' = SumFunctionOnSet(g, S \cup {scanning})
        BY <1>0, <4>1 DEF Swept, SweptIn, Sweeps
      <4>3. /\ scanning \notin S /\ IsFiniteSet(S) /\ \A b \in S : f[b] \in Nat
        BY <2>1, SweepsFinite DEF Sweeps
      <4>4. g[scanning] = tx.amount /\ \A b \in S : g[b] = f[b]
        BY DEF SweptIn
      <4>5. Swept(m) = SumFunctionOnSet(f, S)
        BY DEF Swept
      <4> HIDE DEF S, f, g
      <4>6. \A b \in S \cup {scanning} : g[b] \in Int
        BY <3>2, <4>3, <4>4
      <4>7. SumFunctionOnSet(g, S \cup {scanning}) = g[scanning] + SumFunctionOnSet(g, S)
        BY <4>3, <4>6, SumAdd
      <4>8. SumFunctionOnSet(g, S) = SumFunctionOnSet(f, S)
        BY <4>3, <4>4, SumAgree
      <4> QED BY <4>2, <4>4, <4>5, <4>7, <4>8
    <3>5. ASSUME NEW m \in Memos PROVE amount'[m] \in Nat /\ amount'[m] = Swept(m)'
      <4>1. amount \in [Memos -> Nat] /\ amount[m] \in Nat /\ amount[m] = Swept(m)
        BY DEF AmountsAreSwept
      <4>2. CASE m # tx.memo
        BY <3>1, <3>3, <4>1, <4>2
      <4>3. CASE m = tx.memo
        <5>1. amount'[m] = amount[m] + tx.amount
          BY <3>1, <4>1, <4>3
        <5> QED BY <3>2, <3>4, <4>1, <4>3, <5>1
      <4> QED BY <4>2, <4>3
    <3>6. amount' \in [Memos -> Nat]
      <4>1. DOMAIN amount' = Memos /\ amount' = [m \in Memos |-> amount'[m]]
        BY <3>1 DEF AmountsAreSwept
      <4> QED BY <3>5, <4>1
    <3> QED BY <3>5, <3>6 DEF AmountsAreSwept
  <2> QED BY <2>3, <2>4
<1> QED BY <1>1, <1>2

\* The amount of a row is the total of all executions of its message that saved
\* blocks hold, for any number of executions and any order of the blocks: a
\* block counts once, for the key of block_data keeps it from being saved twice.
THEOREM AmountsAreExact == Spec => []AmountIsSwept
<1> DEFINE Inv == Types /\ AmountsAreSwept
<1>1. Init => Inv
  <2> SUFFICES ASSUME Init PROVE Inv
    OBVIOUS
  <2>1. amount = [m \in Memos |-> 0] /\ txs = <<Idle>> /\ blockData = {1}
    BY DEF Init, FeedInit
  <2>2. txs[1].kind = "none"
    BY <2>1 DEF Idle
  <2>3. ASSUME NEW m \in Memos PROVE Swept(m) = 0
    <3>1. Sweeps(m, blockData) = {}
      BY <2>1, <2>2 DEF Sweeps
    <3> QED BY <3>1, SumEmpty DEF Swept
  <2> QED BY <2>1, <2>3, TypesInit DEF AmountsAreSwept
<1>2. Inv /\ [Next]_vars => Inv'
  <2> SUFFICES ASSUME Types, AmountsAreSwept, [Next]_vars PROVE AmountsAreSwept'
    BY TypesStep
  <2>1. CASE SaveParsedBlockData
    BY <2>1, SweptMore
  <2>2. CASE UNCHANGED <<amount, blockData, txs>>
    BY <2>2, SweptSame
  <2>3. ASSUME NEW utime \in 0..now, NEW tx \in TxType, ProduceBlock(utime),
               txs' = Append(txs, tx), UNCHANGED amount
        PROVE  AmountsAreSwept'
    BY <2>3, NewBlock, SweptSame
  <2>4. ASSUME NEW utime \in 0..now, EmptyBlock(utime) PROVE AmountsAreSwept'
    <3>1. Idle \in TxType
      BY DEF Idle, TxType
    <3> QED BY <2>3, <2>4, <3>1 DEF EmptyBlock, rowVars
  <2>5. ASSUME NEW utime \in 0..now, NEW income \in travelling, DeliverIncome(utime, income)
        PROVE  AmountsAreSwept'
    <3>1. income \in Nat
      BY DEF Types, TypeOK
    <3>2. [kind |-> "income", lt |-> income, memo |-> 0, amount |-> 1] \in TxType
      BY <3>1 DEF TxType
    <3> QED BY <2>3, <2>5, <3>2 DEF DeliverIncome, rowVars
  <2>6. ASSUME NEW utime \in 0..now, NEW memo \in mempool, Sweep(utime, memo)
        PROVE  AmountsAreSwept'
    <3>1. memo \in Nat /\ balance \in Nat /\ lt' \in Nat
      BY <2>6, SweepAssumption DEF Types, TypeOK, Memos, Sweep
    <3>2. [kind |-> "sweep", lt |-> lt', memo |-> memo, amount |-> balance] \in TxType
      BY <3>1 DEF TxType
    <3>3. /\ txs' = Append(txs, [kind |-> "sweep", lt |-> lt', memo |-> memo, amount |-> balance])
          /\ ProduceBlock(utime) /\ amount' = amount
      BY <2>6 DEF Sweep, rowVars
    <3> QED BY <2>3, <3>2, <3>3
  <2>7. CASE \/ SendIncome \/ IntWaitSync \/ GetTonInternalWithdrawalTasks
             \/ \E memo \in Memos : SaveInternalWithdrawalTask(memo)
             \/ GetAccountCurrentState \/ ExpWaitSync \/ SetExpiredError
             \/ SkipTask \/ SetExpired \/ TimePasses \/ Feed \/ Crash
             \/ \E sent \in BOOLEAN : WithdrawTON(sent)
             \/ UNCHANGED vars
    BY <2>2, <2>7 DEF SendIncome, IntWaitSync, GetTonInternalWithdrawalTasks,
       GetAccountCurrentState, ExpWaitSync, SetExpiredError,
       SaveInternalWithdrawalTask, SkipTask, SetExpired, TimePasses, Tick, Feed, TrackerPoll,
       TrackerSend, TrackerFetchError, ScanError, ScanDone, Crash, Restart, WithdrawTON,
       vars, feedVars, chainVars, msgVars, rowVars, procVars
  <2> QED BY <2>1, <2>4, <2>5, <2>6, <2>7 DEF Next
<1>3. Inv => AmountIsSwept
  <2> SUFFICES ASSUME Types, AmountsAreSwept, NEW m \in rows
               PROVE  amount[m] = SumFunction([b \in Sweeps(m, blockData) |-> txs[b].amount])
    BY DEF AmountIsSwept
  <2>1. m \in Memos
    BY DEF Types, TypeOK
  <2> QED BY <2>1 DEF AmountsAreSwept, Swept, SweptIn, SumFunction
<1> QED BY <1>1, <1>2, <1>3, PTL DEF Spec
============================================================================
