------------------------- MODULE JettonSweepsProofs -------------------------
(***************************************************************************)
(* Theorems about JettonSweeps, for every value of its constants.           *)
(***************************************************************************)
EXTENDS JettonSweeps, BlockFeedProofs, FiniteSums

TxType    == [kind : Income \cup Transfer, memo : Nat, lt : Nat, amount : Nat]
BlockType == [sends : SUBSET Memos, txs : Seq(TxType), balance : Int]

Txs(b) == ToSet(chain[b].txs)

\* The types, with those of the columns and of the blocks.
Types ==
    /\ FeedTypeOK /\ lt \in Nat
    /\ chain \in Seq(BlockType) /\ DOMAIN chain = 1..Tip
    /\ \A b \in 1..Tip : chain[b].sends \subseteq rows
    /\ \A b \in 1..Tip : \A tx \in Txs(b) :
          /\ tx.lt \in 1..lt /\ tx.memo \in {0} \cup rows
          /\ tx.kind \in Income <=> tx.memo = 0
    /\ \A b \in 2..Tip : Txs(b) = {} => chain[b].balance = chain[b - 1].balance
    /\ mempool \subseteq rows /\ flying \subseteq rows /\ failed \subseteq rows
    /\ sending \subseteq rows /\ finished \subseteq rows /\ rows \subseteq Memos
    /\ worth \in [Memos -> Nat] /\ since \in [Memos -> Nat]
    /\ amount \in [Memos -> Nat] /\ expiredAt \in [Memos -> Nat]
    /\ \A i \in incomes : i.lt \in 1..(lt + 1)
    /\ \A m \in rows : since[m] \in 1..(lt + 1)
    /\ pc \in {"sync", "query", "build", "send"} /\ task \in Nat
    /\ pc = "build" => task \in 1..(lt + 1)
    /\ pc = "send" => rows # {}

\* Why one row is open at a time: an open row has the greatest since_lt of the
\* rows that have not failed, and a task in hand is later than all of them,
\* which are finished.
OpenIsLatest ==
    /\ \A m, n \in rows \ failed : m # n /\ n \notin finished => since[m] < since[n]
    /\ pc = "build" => \A m \in rows \ failed : m \in finished /\ since[m] < task
    /\ finished \subseteq sending /\ failed \cap sending = {}

Done(m) == \E b \in 1..Tip : \E tx \in Txs(b) : tx.memo = m

\* Where a sweep is: in the mempool, on its way, or arrived, once.
Placed ==
    /\ \A m \in rows, n \in Memos : n < m => n \in rows
    /\ mempool \cap flying = {}
    /\ \A m \in mempool : SendBlock(m) = {}
    /\ \A m \in flying : SendBlock(m) # {} /\ ~ Done(m)
    /\ \A m \in Memos : Done(m) => SendBlock(m) # {}
    /\ \A b, c \in 1..Tip : \A tx \in Txs(b), ty \in Txs(c) :
          tx.memo = ty.memo /\ tx.memo # 0 => b = c /\ tx = ty
    /\ pc = "send" => Max(rows) \notin mempool /\ SendBlock(Max(rows)) = {}

\* What the tables say of the saved blocks.
Saved ==
    /\ \A m \in Memos : m \in finished <=> \E b \in blockData : \E tx \in Txs(b) : tx.memo = m
    /\ \A b \in blockData : chain[b].sends \subseteq sending
    /\ \A m \in Memos : amount[m] = (IF m \in finished THEN worth[m] ELSE 0)

\* Why no sweep is failed that was sent: the chain is past its TTL then.
Expiry ==
    /\ \A b \in 1..Tip : \A m \in chain[b].sends : genUtime[b] <= expiredAt[m]
    /\ \A m \in failed : expiredAt[m] < genUtime[Tip]
    /\ NoExpiredJettonSweep

\* What lies behind the expiration processor when it reads the clock.
InSync == expPc \in {"sync", "expire"} /\ (expPc = "expire" => Synced)

\* Why no transfer fails: the only sweep that can arrive is covered.
Solvent ==
    /\ \A b \in 1..Tip : \A tx \in Txs(b) : tx.kind \in Income \cup {"transfer"}
    /\ \A m \in (mempool \cup flying) \ failed : worth[m] <= Balance
    /\ pc = "send" /\ Max(rows) \notin failed => worth[Max(rows)] <= Balance
    /\ \A b \in 1..Tip : chain[b].balance >= IF Deployed THEN 0 ELSE NotInitialized

\* Logical time keeps the transactions, and the incomes made of them, apart.
Spaced ==
    \A b, c \in 1..Tip : \A tx \in Txs(b), ty \in Txs(c) :
        \/ b = c /\ tx = ty
        \/ tx.lt + 2 <= ty.lt \/ ty.lt + 2 <= tx.lt

\* The balances of the blocks, and where the incomes come from.
Books ==
    /\ \A b \in 1..Tip : \A tx \in IncomesIn(chain[b].txs) : tx.amount = 1
    /\ \A b \in 2..Tip : Txs(b) # {} =>
          chain[b].balance = Max({0, chain[b - 1].balance}) + EffectOf(Txs(b))
    /\ IsFiniteSet(incomes) /\ IsFiniteSet(Received(blockData))
    /\ \A i \in incomes :
          /\ i.amount \in Nat
          /\ \E b \in blockData : \E tx \in Txs(b) : i.lt \in {tx.lt, tx.lt + 1}
    /\ IncomesAreReal

\* Every income of a saved block is known, at its logical time or later.
Recorded ==
    \A b \in blockData : \A tx \in IncomesIn(chain[b].txs) : \E i \in incomes : i.lt >= tx.lt

\* What is on the Jetton wallet beyond the sweep under way came in after the
\* income that the sweep was made for.
Residue ==
    /\ Balance > 0 => \E b \in 1..Tip : IncomesIn(chain[b].txs) # {}
    /\ \A m \in rows \ failed :
          Balance > (IF Done(m) THEN 0 ELSE worth[m])
              => \E b \in 1..Tip : \E tx \in IncomesIn(chain[b].txs) : tx.lt > since[m]

----------------------------------------------------------------------------
(* Operators                                                               *)

\* Max of a set of bounded natural numbers is its greatest element.
LEMMA MaxIsGreatest ==
    ASSUME NEW n \in Nat, NEW S \in SUBSET (1..n), S # {}
    PROVE  Max(S) \in S /\ \A y \in S : y <= Max(S)
<1>1. \E x \in S : \A y \in S : x >= y
  BY GreatestExists
<1> QED BY <1>1 DEF Max

\* A longer interval has the elements of a shorter one.
LEMMA IntervalGrows ==
    ASSUME NEW a \in Nat, NEW b \in Nat, b >= a
    PROVE  \A x \in 1..(a + 1) : x \in 1..(b + 1)
OBVIOUS

\* Max of zero and a number.
LEMMA MaxOfZero ==
    ASSUME NEW x \in Int
    PROVE  /\ Max({0, x}) \in Nat /\ Max({0, x}) >= x
           /\ x >= 0 => Max({0, x}) = x
           /\ x <= 0 => Max({0, x}) = 0
<1>1. \E y \in {0, x} : \A z \in {0, x} : y >= z
  OBVIOUS
<1>2. Max({0, x}) \in {0, x} /\ \A z \in {0, x} : Max({0, x}) >= z
  BY <1>1 DEF Max
<1> QED BY <1>2

\* Min of a finite set of natural numbers is one of them.
LEMMA MinIsThere ==
    ASSUME NEW S \in SUBSET Nat, S # {}
    PROVE  Min(S) \in S /\ \A y \in S : Min(S) <= y
<1>1. \E x \in S : \A y \in S : x <= y
  BY LeastSize
<1> QED BY <1>1 DEF Min

\* The elements of a finite sequence are finitely many.
LEMMA ElementsFinite ==
    ASSUME NEW n \in Nat, NEW f, DOMAIN f = 1..n
    PROVE  IsFiniteSet(ToSet(f))
<1> DEFINE T == ToSet(f)
           g == [i \in 1..n |-> f[i]]
<1>1. g \in Surjection(1..n, T)
  BY DEF Surjection, ToSet
<1>2. IsFiniteSet(1..n)
  BY FS_Interval
<1> HIDE DEF g
<1> QED BY <1>1, <1>2, FS_Surjection

\* A function on the numbers up to its length is a sequence.
LEMMA FunctionAsSeq ==
    ASSUME NEW S, NEW n \in Nat, NEW f, DOMAIN f = 1..n, f = [i \in 1..n |-> f[i]],
           \A i \in 1..n : f[i] \in S
    PROVE  f \in Seq(S) /\ Len(f) = n
OBVIOUS

\* What SeqOf enumerates.
LEMMA SeqOfTyped ==
    ASSUME NEW S, NEW n \in Nat, NEW f \in SeqOf(S, n)
    PROVE  \E k \in Nat : f \in [1..k -> S]
<1>1. PICK k \in 0..n : f \in [1..k -> S]
  BY DEF SeqOf
<1>2. k \in Nat
  OBVIOUS
<1> QED BY <1>1, <1>2
----------------------------------------------------------------------------
(* Types                                                                   *)

\* The incomes of a block and the transfers in it are its transactions.
LEMMA KindsOfTx ==
    ASSUME NEW tx \in TxType
    PROVE  /\ tx.kind \in Income \/ tx.kind \in Transfer
           /\ ~ (tx.kind \in Income /\ tx.kind \in Transfer)
           /\ tx.amount \in Nat /\ tx.lt \in Nat /\ tx.memo \in Nat
           /\ Effect(tx) \in Int
           /\ tx.kind \in Income => Effect(tx) = tx.amount
           /\ tx.kind = "transfer" => Effect(tx) = - tx.amount
<1>1. tx.kind \in Income \cup Transfer /\ tx.amount \in Nat /\ tx.lt \in Nat /\ tx.memo \in Nat
  BY DEF TxType
<1> QED BY <1>1 DEF Income, Transfer, Effect

\* What a transaction of a new block is.
LEMMA NewTx ==
    ASSUME Types, NEW memos \in SUBSET Memos, NEW event \in Events(memos), NEW n \in Nat \ {0},
           NEW tx, tx = Tx(event, n)
    PROVE  /\ tx \in TxType /\ tx.lt = lt + 2 * n
           /\ tx.kind = event[1] /\ tx.memo = event[2]
           /\ event[1] \in Income => event[2] = 0 /\ tx.amount = 1
           /\ event[1] \in Transfer =>
                 /\ event[2] \in memos /\ Possible(event[1], event[2])
                 /\ tx.amount = worth[event[2]]
<1>0. \A m \in Memos : m \in Nat \ {0} /\ worth[m] \in Nat
  BY JettonAssumption DEF Types, Memos
<1>1. lt \in Nat /\ lt + 2 * n \in Nat
  BY DEF Types
<1>2. CASE event \in {<<kind, 0>> : kind \in Income}
  <2>1. PICK kind \in Income : event = <<kind, 0>>
    BY <1>2
  <2>2. event[1] = kind /\ event[2] = 0
    BY <2>1
  <2>3. kind \notin Transfer
    BY DEF Income, Transfer
  <2> QED BY <1>1, <2>2, <2>3 DEF Tx, TxType
<1>3. CASE event \in Transfer \X memos /\ Possible(event[1], event[2])
  <2>1. event[1] \in Transfer /\ event[2] \in memos
    BY <1>3
  <2>2. event[1] \notin Income
    BY <2>1 DEF Income, Transfer
  <2>3. event[2] \in Nat \ {0} /\ worth[event[2]] \in Nat
    BY <1>0, <2>1
  <2> QED BY <1>1, <1>3, <2>1, <2>2, <2>3 DEF Tx, TxType
<1> QED BY <1>2, <1>3 DEF Events

\* what a new block t is, and that it leaves the other blocks alone
Added(t, utime, sends) ==
    /\ Tip \in Nat \ {0} /\ Tip' = t /\ lt' \in Nat /\ lt' >= lt
    /\ 1..t = (1..Tip) \cup {t} /\ t \notin 1..Tip /\ Tip \in 1..Tip
    /\ chain' \in Seq(BlockType) /\ DOMAIN chain' = 1..t
    /\ \A b \in 1..Tip : chain'[b] = chain[b] /\ genUtime'[b] = genUtime[b]
    /\ \A b \in 1..Tip : Txs(b)' = Txs(b)
    /\ genUtime'[t] = utime /\ genUtime[Tip] <= utime
    /\ chain'[t].sends = sends /\ IsFiniteSet(Txs(t)')
    /\ \A tx \in Txs(t)' :
          /\ tx \in TxType /\ tx.lt >= lt + 2 /\ tx.lt <= lt'
          /\ tx.kind \in Income => tx.memo = 0 /\ tx.amount = 1
          /\ tx.kind \in Transfer =>
                /\ tx.memo \in flying \cup sends /\ Possible(tx.kind, tx.memo)
                /\ tx.amount = worth[tx.memo]
    /\ \A tx, ty \in Txs(t)' :
          /\ tx = ty \/ tx.lt + 2 <= ty.lt \/ ty.lt + 2 <= tx.lt
          /\ tx.memo = ty.memo /\ tx.memo # 0 => tx = ty
    /\ flying' = (flying \cup sends) \ {tx.memo : tx \in Txs(t)'}
    /\ mempool' = mempool \ sends
    /\ chain'[t].balance \in Int /\ Balance' = chain'[t].balance
    /\ Txs(t)' = {} => chain'[t].balance = Balance
    /\ Txs(t)' # {} => chain'[t].balance = Max({0, Balance}) + EffectOf(Txs(t)')
    /\ UNCHANGED <<now, blockData, scanning, worth, incomes, rows, since, sending, finished,
                   amount, failed, expiredAt, pc, task>>

\* The validators add a block that is as Added says.
LEMMA NewBlock ==
    ASSUME Types, NEW utime \in 0..now, NEW sends \in SUBSET mempool,
           NEW events \in SeqOf(Events(flying \cup sends), MaxTxs), Block(utime, sends, events),
           NEW t, t = Tip + 1
    PROVE  Added(t, utime, sends)
<1> DEFINE memos == flying \cup sends
           txs == [n \in DOMAIN events |-> Tx(events[n], n)]
           S == ToSet(txs)
           bal == IF events = <<>> THEN Balance ELSE Max({0, Balance}) + EffectOf(S)
           new == [sends |-> sends, txs |-> txs, balance |-> bal]
<1>1. PICK k \in Nat : events \in [1..k -> Events(memos)]
  <2>1. MaxTxs \in Nat
    BY JettonAssumption
  <2> HIDE DEF memos
  <2>2. events \in SeqOf(Events(memos), MaxTxs)
    BY DEF memos
  <2> QED BY <2>1, <2>2, SeqOfTyped
<1>2. DOMAIN events = 1..k /\ Len(events) = k /\ (events = <<>> <=> k = 0)
  <2>1. events \in Seq(Events(memos)) /\ Len(events) = k
    <3>1. DOMAIN events = 1..k /\ events = [i \in 1..k |-> events[i]]
          /\ \A i \in 1..k : events[i] \in Events(memos)
      BY <1>1
    <3> HIDE DEF memos
    <3> QED BY <3>1, FunctionAsSeq
  <2> QED BY <1>1, <2>1
<1>3. /\ ProduceBlock(utime) /\ lt' = lt + 2 * k /\ chain' = Append(chain, new)
      /\ mempool' = mempool \ sends
      /\ flying' = memos \ {events[n][2] : n \in 1..k}
      /\ \A i, j \in 1..k : events[i][2] = events[j][2] => i = j \/ events[i][2] = 0
      /\ UNCHANGED <<worth, incomes, rows, since, sending, finished, amount, failed, expiredAt,
                     pc, task>>
  BY <1>2 DEF Block, rowVars, procVars
<1>4. /\ sends \subseteq Memos /\ memos \subseteq Memos /\ lt \in Nat /\ now \in Nat
      /\ chain \in Seq(BlockType) /\ DOMAIN chain = 1..Tip /\ genUtime \in Seq(Nat)
      /\ lastKnown \in 1..Tip /\ utime \in Nat
  BY DEF Types, FeedTypeOK
<1>5. /\ Tip \in Nat \ {0} /\ Tip' = Tip + 1 /\ genUtime'[Tip + 1] = utime
      /\ genUtime[Tip] <= utime /\ \A b \in 1..Tip : genUtime'[b] = genUtime[b]
      /\ UNCHANGED <<now, blockData, scanning>>
  <2>1. Tip \in Nat \ {0} /\ genUtime' = Append(genUtime, utime) /\ genUtime[Tip] <= utime
    BY <1>3, <1>4 DEF Tip, ProduceBlock
  <2>2. UNCHANGED <<now, blockData, scanning>>
    BY <1>3 DEF ProduceBlock
  <2> QED BY <1>4, <2>1, <2>2 DEF Tip
<1>6. ASSUME NEW n \in 1..k
      PROVE  /\ txs[n] \in TxType /\ txs[n].lt = lt + 2 * n
             /\ txs[n].kind = events[n][1] /\ txs[n].memo = events[n][2]
             /\ txs[n].kind \in Income => txs[n].memo = 0 /\ txs[n].amount = 1
             /\ txs[n].kind \in Transfer =>
                   /\ txs[n].memo \in memos /\ Possible(txs[n].kind, txs[n].memo)
                   /\ txs[n].amount = worth[txs[n].memo]
  <2>1. events[n] \in Events(memos) /\ n \in Nat \ {0} /\ txs[n] = Tx(events[n], n)
    <3>1. events[n] \in Events(memos)
      BY <1>1
    <3>2. txs[n] = Tx(events[n], n)
      BY <1>2
    <3> HIDE DEF txs, memos
    <3> QED BY <3>1, <3>2
  <2>2. memos \in SUBSET Memos
    BY <1>4
  <2> HIDE DEF memos, txs
  <2>3. /\ txs[n] \in TxType /\ txs[n].lt = lt + 2 * n
        /\ txs[n].kind = events[n][1] /\ txs[n].memo = events[n][2]
        /\ events[n][1] \in Income => events[n][2] = 0 /\ txs[n].amount = 1
        /\ events[n][1] \in Transfer =>
              /\ events[n][2] \in memos /\ Possible(events[n][1], events[n][2])
              /\ txs[n].amount = worth[events[n][2]]
    BY <2>1, <2>2, NewTx
  <2> QED BY <2>3
<1>7. DOMAIN txs = 1..k /\ S = {txs[n] : n \in 1..k} /\ txs \in Seq(TxType) /\ (S = {} <=> k = 0)
  <2>1. DOMAIN txs = 1..k /\ txs = [n \in 1..k |-> txs[n]]
    BY <1>2
  <2>2. S = {txs[n] : n \in 1..k}
    BY <2>1 DEF ToSet
  <2> HIDE DEF txs, S
  <2>3. S = {} <=> k = 0
    <3>1. CASE k = 0
      BY <2>2, <3>1
    <3>2. CASE k # 0
      <4>1. 1 \in 1..k
        BY <3>2
      <4> QED BY <2>2, <3>2, <4>1
    <3> QED BY <3>1, <3>2
  <2> QED BY <1>6, <2>1, <2>2, <2>3, FunctionAsSeq
<1>8. IsFiniteSet(S)
  BY <1>7, ElementsFinite
<1> HIDE DEF txs, S, memos
<1>9. bal \in Int
  <2>1. Balance \in Int
    <3>1. Len(chain) = Tip /\ chain[Tip] \in BlockType
      BY <1>4, <1>5, SeqAsFunction
    <3> QED BY <3>1 DEF Balance, BlockType
  <2>2. Max({0, Balance}) \in Int
    BY <2>1, MaxOfZero
  <2>3. EffectOf(S) \in Int
    <3> DEFINE f == [tx \in S |-> Effect(tx)]
    <3>1. \A tx \in S : f[tx] \in Int
      BY <1>6, <1>7, KindsOfTx
    <3>2. DOMAIN f = S
      OBVIOUS
    <3>3. EffectOf(S) = SumFunctionOnSet(f, S)
      BY <3>2 DEF EffectOf, SumFunction
    <3> HIDE DEF f
    <3> QED BY <1>8, <3>1, <3>3, SumTyped
  <2> QED BY <2>1, <2>2, <2>3
<1>10. /\ new \in BlockType /\ new.sends = sends /\ new.txs = txs /\ new.balance = bal
  BY <1>4, <1>7, <1>9 DEF BlockType
<1>11. bal = IF S = {} THEN Balance ELSE Max({0, Balance}) + EffectOf(S)
  BY <1>2, <1>7
<1> HIDE DEF new, bal
<1>12. /\ chain' \in Seq(BlockType) /\ DOMAIN chain' = 1..(Tip + 1) /\ chain'[Tip + 1] = new
       /\ \A b \in 1..Tip : chain'[b] = chain[b]
  <2>1. Len(chain) = Tip
    BY <1>4, <1>5, SeqAsFunction
  <2> QED BY <1>3, <1>4, <1>10, <2>1, AppendByElements
<1>13. Txs(t)' = S /\ Balance' = chain'[t].balance /\ \A b \in 1..Tip : Txs(b)' = Txs(b)
  BY <1>5, <1>10, <1>12 DEF S, Txs, Balance
<1>14. {events[n][2] : n \in 1..k} = {tx.memo : tx \in S}
  <2>1. \A n \in 1..k : txs[n].memo = events[n][2]
    BY <1>6
  <2> QED BY <1>7, <2>1
<1>15. \A tx \in S : tx.lt >= lt + 2 /\ tx.lt <= lt'
  <2>1. ASSUME NEW n \in 1..k PROVE txs[n].lt >= lt + 2 /\ txs[n].lt <= lt'
    <3>1. txs[n].lt = lt + 2 * n
      BY <1>6
    <3> QED BY <1>3, <1>4, <3>1
  <2> QED BY <1>7, <2>1
<1>16. \A tx, ty \in S : /\ tx = ty \/ tx.lt + 2 <= ty.lt \/ ty.lt + 2 <= tx.lt
                         /\ tx.memo = ty.memo /\ tx.memo # 0 => tx = ty
  <2> SUFFICES ASSUME NEW i \in 1..k, NEW j \in 1..k
               PROVE  /\ txs[i] = txs[j] \/ txs[i].lt + 2 <= txs[j].lt \/ txs[j].lt + 2 <= txs[i].lt
                      /\ txs[i].memo = txs[j].memo /\ txs[i].memo # 0 => txs[i] = txs[j]
    BY <1>7
  <2>1. txs[i].lt = lt + 2 * i /\ txs[j].lt = lt + 2 * j
    BY <1>6
  <2>2. i = j \/ txs[i].lt + 2 <= txs[j].lt \/ txs[j].lt + 2 <= txs[i].lt
    BY <1>4, <2>1, SMTT(30)
  <2>3. txs[i].memo = txs[j].memo /\ txs[i].memo # 0 => i = j
    BY <1>3, <1>6
  <2> QED BY <2>2, <2>3
<1>17. lt' \in Nat /\ lt' >= lt
  BY <1>3, <1>4
<1>18. \A tx \in S : /\ tx \in TxType
                     /\ tx.kind \in Income => tx.memo = 0 /\ tx.amount = 1
                     /\ tx.kind \in Transfer =>
                           /\ tx.memo \in flying \cup sends /\ Possible(tx.kind, tx.memo)
                           /\ tx.amount = worth[tx.memo]
  BY <1>6, <1>7 DEF memos
<1>19. flying' = (flying \cup sends) \ {tx.memo : tx \in S}
  BY <1>3, <1>14 DEF memos
<1>20. 1..t = (1..Tip) \cup {t} /\ t \notin 1..Tip /\ Tip \in 1..Tip
  BY <1>5
<1> QED BY <1>3, <1>5, <1>8, <1>9, <1>10, <1>11, <1>12, <1>13, <1>15, <1>16, <1>17, <1>18, <1>19, <1>20
     DEF Added

\* The blocks of the chain, and what a transaction of one is.
LEMMA BlockTyped ==
    ASSUME Types
    PROVE  /\ Tip \in Nat \ {0}
           /\ \A b \in 1..Tip : /\ chain[b] \in BlockType /\ chain[b].balance \in Int
                                /\ IsFiniteSet(Txs(b)) /\ Txs(b) \subseteq TxType
           /\ Balance \in Int
<1>1. Tip \in Nat \ {0} /\ chain \in Seq(BlockType) /\ DOMAIN chain = 1..Tip
  <2>1. Tip \in Nat /\ lastKnown \in 1..Tip /\ chain \in Seq(BlockType) /\ DOMAIN chain = 1..Tip
    BY DEF Types, FeedTypeOK, Tip
  <2> QED BY <2>1
<1>2. \A b \in 1..Tip : chain[b] \in BlockType
  BY <1>1, SeqAsFunction
<1>3. ASSUME NEW b \in 1..Tip
      PROVE  chain[b].balance \in Int /\ IsFiniteSet(Txs(b)) /\ Txs(b) \subseteq TxType
  <2>1. chain[b].txs \in Seq(TxType) /\ chain[b].balance \in Int
    BY <1>2 DEF BlockType
  <2> DEFINE t == chain[b].txs
  <2> HIDE DEF t
  <2>2. t \in Seq(TxType)
    BY <2>1 DEF t
  <2>3. Len(t) \in Nat /\ DOMAIN t = 1..Len(t) /\ \A i \in 1..Len(t) : t[i] \in TxType
    BY <2>2
  <2>4. IsFiniteSet(ToSet(t))
    BY <2>3, ElementsFinite
  <2>5. ToSet(t) \subseteq TxType
    BY <2>3 DEF ToSet
  <2> QED BY <2>1, <2>4, <2>5 DEF Txs, t
<1>4. Balance \in Int
  BY <1>1, <1>3 DEF Balance
<1> QED BY <1>1, <1>2, <1>3, <1>4

\* Nothing adds up to nothing.
LEMMA NoAmount == AmountOf({}) = 0
<1> DEFINE f == [x \in {} |-> x.amount]
<1>1. DOMAIN f = {}
  OBVIOUS
<1>2. AmountOf({}) = SumFunctionOnSet(f, {})
  BY <1>1 DEF AmountOf, SumFunction
<1> HIDE DEF f
<1> QED BY <1>2, SumEmpty

\* The rows that unknown transactions become: every transaction counts as
\* unknown, and the whole amount is on one of them.
LEMMA ConvertUnknown ==
    ASSUME Types, NEW b \in 1..Tip, Txs(b) # {}, NEW total
    PROVE  \E first \in Txs(b) :
              convertUnknownJettonTxs(chain[b].txs, total)
                = {[lt |-> tx.lt, amount |-> 0] : tx \in Txs(b)}
                    \cup {[lt |-> first.lt, amount |-> total]}
<1> DEFINE S == {tx.lt : tx \in Txs(b)}
<1>1. {tx \in ToSet(chain[b].txs) : UnknownFound(tx)} = Txs(b)
  BY DEF UnknownFound, Transfer, Txs
<1>2. S \in SUBSET Nat /\ S # {}
  BY BlockTyped DEF TxType
<1>3. Min(S) \in S
  BY <1>2, MinIsThere
<1>4. PICK first \in Txs(b) : Min(S) = first.lt
  BY <1>3
<1>5. convertUnknownJettonTxs(chain[b].txs, total)
        = {[lt |-> tx.lt, amount |-> 0] : tx \in Txs(b)} \cup {[lt |-> Min(S), amount |-> total]}
  BY <1>1 DEF convertUnknownJettonTxs
<1> QED BY <1>4, <1>5

\* A block without transactions of the Jetton wallet brings nothing.
LEMMA NothingUnknown ==
    ASSUME Types, NEW b \in 2..Tip, Txs(b) = {}
    PROVE  ExternalIncomes(b) = {} /\ calculateJettonAmounts(b) = 0
<1>1. chain[b].balance \in Int /\ chain[b].balance = chain[b - 1].balance
  <2>1. b \in 1..Tip
    BY BlockTyped
  <2> QED BY <2>1, BlockTyped DEF Types
<1>2. Withdrawals(chain[b].txs) = {} /\ KnownIncomes(chain[b].txs) = {}
  BY DEF Withdrawals, KnownIncomes, IncomesIn, Txs
<1>3. calculateJettonAmounts(b) = 0
  BY <1>1, <1>2, NoAmount DEF calculateJettonAmounts
<1> QED BY <1>2, <1>3 DEF ExternalIncomes

\* Every income of a block is made of one of its transactions.
LEMMA IncomesOfTxs ==
    ASSUME Types, NEW b \in 2..Tip, NEW i \in ExternalIncomes(b)
    PROVE  \E tx \in Txs(b) : i.lt \in {tx.lt, tx.lt + 1}
<1>0. b \in 1..Tip /\ Txs(b) # {}
  BY BlockTyped, NothingUnknown
<1>1. CASE i \in {[lt |-> tx.lt + 1, amount |-> tx.amount] : tx \in KnownIncomes(chain[b].txs)}
  <2>1. PICK tx \in KnownIncomes(chain[b].txs) : i = [lt |-> tx.lt + 1, amount |-> tx.amount]
    BY <1>1
  <2> QED BY <2>1 DEF KnownIncomes, IncomesIn, Txs
<1>2. CASE i \in convertUnknownJettonTxs(chain[b].txs, calculateJettonAmounts(b))
  <2>1. PICK first \in Txs(b) :
           convertUnknownJettonTxs(chain[b].txs, calculateJettonAmounts(b))
             = {[lt |-> tx.lt, amount |-> 0] : tx \in Txs(b)}
                 \cup {[lt |-> first.lt, amount |-> calculateJettonAmounts(b)]}
    BY <1>0, ConvertUnknown
  <2> QED BY <1>2, <2>1
<1> QED BY <1>1, <1>2 DEF ExternalIncomes

\* The block that the scanner saves.
LEMMA SavedBlock ==
    ASSUME Types, SaveParsedBlockData, Commits
    PROVE  /\ scanning \in 1..Tip /\ scanning \in 2..Tip /\ scanning \notin blockData
           /\ blockData' = blockData \cup {scanning}
           /\ incomes' = incomes \cup ExternalIncomes(scanning)
           /\ sending' = sending \cup chain[scanning].sends
           /\ finished' = finished \cup Finishes(scanning)
           /\ amount' = [m \in Memos |-> IF m \in Finishes(scanning)
                                           THEN amount[m] + worth[m] ELSE amount[m]]
           /\ Finishes(scanning) = {tx.memo : tx \in {t \in Txs(scanning) : t.kind \in Transfer}}
           /\ Finishes(scanning) \subseteq rows \ {0}
           /\ (chain[scanning].sends \cup Finishes(scanning)) \cap failed = {}
           /\ Finishes(scanning) \subseteq sending'
<1>1. scanning \in 1..Tip /\ scanning \in 2..Tip /\ scanning \notin blockData
  <2>1. /\ scanning # 0 /\ scanning \in 0..Tip /\ Tip \in Nat
        /\ 1 \in blockData /\ scanning \notin blockData
    BY BlockTyped DEF SaveParsedBlockData, ScanDone, Commits, NotSavedYet, Types, FeedTypeOK
  <2>2. scanning # 1
    BY <2>1
  <2> QED BY <2>1, <2>2
<1>2. Finishes(scanning) = {tx.memo : tx \in {t \in Txs(scanning) : t.kind \in Transfer}}
  BY DEF Finishes, Withdrawals, isTxSuccessful, Txs
<1>3. Finishes(scanning) \subseteq rows \ {0}
  <2>1. \A tx \in Txs(scanning) : tx.kind \in Transfer => tx.memo \in rows \ {0}
    <3> SUFFICES ASSUME NEW tx \in Txs(scanning), tx.kind \in Transfer PROVE tx.memo \in rows \ {0}
      OBVIOUS
    <3>1. tx.kind \notin Income
      BY DEF Income, Transfer
    <3>2. tx.memo \in {0} \cup rows /\ (tx.kind \in Income <=> tx.memo = 0)
      BY <1>1 DEF Types
    <3> QED BY <3>1, <3>2
  <2> QED BY <1>2, <2>1
<1> QED BY <1>1, <1>2, <1>3
     DEF SaveParsedBlockData, ScanDone, UpdateInternalWithdrawal, Commits, InOrder,
         SendingConfirmations

\* Every step moves the feed by FeedStep.
LEMMA NextIsFeedStep ==
    ASSUME FeedTypeOK, [Next]_vars
    PROVE  FeedStep
<1>1. now \in Nat /\ faults \in Nat
  BY DEF FeedTypeOK
<1>2. CASE UNCHANGED feedVars
  BY <1>1, <1>2 DEF FeedStep, feedVars
<1>3. ASSUME NEW utime \in 0..now, ProduceBlock(utime) PROVE FeedStep
  BY <1>1, <1>3 DEF FeedStep
<1>4. CASE TimePasses \/ Crash
  BY <1>4 DEF TimePasses, Crash, FeedStep
<1>5. CASE Feed
  <2>1. CASE ScanError
    <3>1. ScanDone(FALSE) /\ Fault("scan")
      BY <2>1 DEF ScanError
    <3>2. faults' \in Nat
      BY <1>1, <3>1 DEF Fault
    <3> QED BY <3>1, <3>2 DEF FeedStep
  <2>2. CASE TrackerPoll \/ TrackerSend \/ TrackerFetchError
    BY <2>2 DEF FeedStep
  <2> QED BY <1>5, <2>1, <2>2 DEF Feed
<1>6. CASE SaveParsedBlockData
  <2>1. ScanDone(Commits) /\ faults' = faults /\ Commits \in BOOLEAN
    BY <1>6 DEF SaveParsedBlockData, Commits, NotSavedYet, Unreadable, InOrder
  <2> QED BY <1>1, <2>1 DEF FeedStep
<1>7. ASSUME NEW utime \in 0..now, NEW sends \in SUBSET mempool,
             NEW events \in SeqOf(Events(flying \cup sends), MaxTxs), Block(utime, sends, events)
      PROVE  FeedStep
  <2>1. ProduceBlock(utime)
    BY <1>7 DEF Block
  <2> QED BY <1>3, <2>1
<1>8. CASE \/ ExtWaitSync \/ GetJettonInternalWithdrawalTasks
           \/ \E memo \in Memos : SaveInternalWithdrawalTask(memo)
           \/ SkipTask \/ ExpWaitSync \/ SetExpired \/ \E sent \in BOOLEAN : SendExternalMessage(sent)
           \/ UNCHANGED vars
  BY <1>2, <1>8 DEF ExtWaitSync, GetJettonInternalWithdrawalTasks, SaveInternalWithdrawalTask,
     SkipTask, ExpWaitSync, SetExpired, SendExternalMessage, vars
<1>9. CASE SetExpiredError
  <2>1. faults' \in Nat
    BY <1>1, <1>9 DEF SetExpiredError, Fault
  <2> QED BY <1>9, <2>1 DEF SetExpiredError, FeedStep
<1> QED BY <1>4, <1>5, <1>6, <1>7, <1>8, <1>9 DEF Next

\* What the steps other than a new block leave alone.
LEMMA NoNewBlock ==
    ASSUME \/ ExtWaitSync \/ GetJettonInternalWithdrawalTasks
           \/ \E memo \in Memos : SaveInternalWithdrawalTask(memo)
           \/ SkipTask \/ \E sent \in BOOLEAN : SendExternalMessage(sent)
           \/ ExpWaitSync \/ SetExpired \/ SetExpiredError \/ TimePasses \/ SaveParsedBlockData
           \/ Feed \/ Crash \/ UNCHANGED vars
    PROVE  /\ UNCHANGED <<genUtime, lt, chain, flying>> /\ UNCHANGED Tip
           /\ \A b : UNCHANGED Txs(b)
<1>1. UNCHANGED <<genUtime, lt, chain, flying>>
  BY DEF ExtWaitSync, GetJettonInternalWithdrawalTasks, SaveInternalWithdrawalTask, SkipTask,
     SendExternalMessage, ExpWaitSync, SetExpired, SetExpiredError, TimePasses, Tick, SaveParsedBlockData, ScanDone, Feed,
     TrackerPoll, TrackerSend, TrackerFetchError, ScanError, Crash, Restart, vars, feedVars,
     chainVars
<1> QED BY <1>1 DEF Tip, Txs

\* The steps of the processors, of time, of the feed and of a crash, by what
\* they do to the tables and the processor.
LEMMA QuietStep ==
    ASSUME \/ ExtWaitSync \/ SkipTask \/ ExpWaitSync \/ SetExpiredError \/ TimePasses \/ Feed
           \/ Crash \/ UNCHANGED vars
    PROVE  /\ UNCHANGED <<worth, incomes, rows, since, sending, finished, amount, failed,
                         expiredAt, mempool>>
           /\ \/ pc' \in {"sync", "query"} /\ task' \in {0, task}
              \/ UNCHANGED <<pc, task>>
           /\ ExtWaitSync \/ SkipTask \/ UNCHANGED vars => UNCHANGED blockData
<1>1. CASE \/ ExtWaitSync \/ SkipTask \/ ExpWaitSync \/ SetExpiredError \/ TimePasses
           \/ UNCHANGED vars
  BY <1>1 DEF ExtWaitSync, SkipTask, ExpWaitSync, SetExpiredError, TimePasses, vars, feedVars, chainVars, rowVars, procVars
<1>2. CASE Feed \/ Crash
  BY <1>2 DEF Feed, Crash, chainVars, rowVars, procVars, vars, ExtWaitSync, SkipTask, feedVars
<1> QED BY <1>1, <1>2

\* The rows the incomes are joined with: those with the greatest since_lt.
LEMMA LatestExists ==
    ASSUME Types
    PROVE  /\ rows \ failed = {} <=> LatestRows = {}
           /\ rows \ failed # {} =>
                 \E m \in rows \ failed : m \in LatestRows
           /\ \A m \in LatestRows, n \in rows \ failed : since[n] <= since[m]
<1> DEFINE S == {since[n] : n \in rows \ failed}
<1>1. S \in SUBSET (1..(lt + 1)) /\ lt + 1 \in Nat
  BY DEF Types
<1>2. LatestRows = {m \in rows : rows \ failed # {} /\ since[m] = Max(S)}
  BY DEF LatestRows
<1>3. rows \ failed # {} => Max(S) \in S /\ \A y \in S : y <= Max(S)
  <2> SUFFICES ASSUME rows \ failed # {} PROVE Max(S) \in S /\ \A y \in S : y <= Max(S)
    OBVIOUS
  <2>1. S # {}
    OBVIOUS
  <2> HIDE DEF S
  <2> QED BY <1>1, <2>1, MaxIsGreatest
<1>4. ASSUME rows \ failed # {}
      PROVE  \E m \in rows \ failed : m \in LatestRows
  <2>1. PICK m \in rows \ failed : Max(S) = since[m]
    BY <1>3, <1>4
  <2> QED BY <1>2, <1>4, <2>1
<1>5. ASSUME NEW m \in LatestRows, NEW n \in rows \ failed PROVE since[n] <= since[m]
  <2>1. since[n] \in S /\ since[m] = Max(S) /\ rows \ failed # {}
    BY <1>2
  <2> QED BY <1>3, <2>1
<1> QED BY <1>2, <1>4, <1>5

\* The unswept incomes, where there are some, have a latest one.
LEMMA TaskTyped ==
    ASSUME Types, Unswept # {}
    PROVE  /\ Max({i.lt : i \in Unswept}) \in 1..(lt + 1)
           /\ \E i \in Unswept : Max({j.lt : j \in Unswept}) = i.lt
           /\ \A i \in Unswept : i.lt <= Max({j.lt : j \in Unswept})
<1> DEFINE S == {i.lt : i \in Unswept}
<1>1. S \in SUBSET (1..(lt + 1)) /\ S # {} /\ lt + 1 \in Nat
  <2>1. Unswept \subseteq incomes
    BY DEF Unswept
  <2> QED BY <2>1 DEF Types
<1>2. Max(S) \in S /\ \A y \in S : y <= Max(S)
  <2> HIDE DEF S
  <2> QED BY <1>1, MaxIsGreatest
<1>3. \E i \in Unswept : Max(S) = i.lt
  BY <1>2
<1>4. \A i \in Unswept : i.lt <= Max(S)
  BY <1>2
<1> QED BY <1>1, <1>2, <1>3, <1>4

\* Every step keeps the types.
LEMMA TypesStep ==
    ASSUME Types, [Next]_vars
    PROVE  Types'
<1>0. /\ FeedTypeOK' /\ Tip \in Nat \ {0} /\ lt \in Nat /\ now \in Nat
      /\ ExternalMessageLifetime \in Nat
  <2>1. FeedTypeOK /\ FeedTypeOK'
    BY NextIsFeedStep, FeedTypeStep DEF Types
  <2>2. now \in Nat /\ lt \in Nat
    BY <2>1 DEF FeedTypeOK, Types
  <2> QED BY <2>1, <2>2, BlockTyped, JettonAssumption
<1>1. ASSUME NEW utime \in 0..now, NEW sends \in SUBSET mempool,
             NEW events \in SeqOf(Events(flying \cup sends), MaxTxs), Block(utime, sends, events)
      PROVE  Types'
  <2>0. PICK t : t = Tip + 1
    OBVIOUS
  <2>new. Added(t, utime, sends)
    BY <1>1, <2>0, NewBlock
  <2>1. /\ Tip' = t /\ lt' \in Nat /\ lt' >= lt /\ 1..t = (1..Tip) \cup {t}
        /\ chain' \in Seq(BlockType) /\ DOMAIN chain' = 1..t
        /\ chain'[t].sends = sends
        /\ Txs(t)' = {} => chain'[t].balance = Balance
        /\ flying' = (flying \cup sends) \ {tx.memo : tx \in Txs(t)'}
        /\ mempool' = mempool \ sends
        /\ UNCHANGED <<worth, incomes, rows, since, sending, finished, amount, failed,
                       expiredAt, pc, task>>
    BY <2>new DEF Added
  <2>2. /\ \A b \in 1..Tip : chain'[b] = chain[b]
        /\ \A b \in 1..Tip : Txs(b)' = Txs(b)
    BY <2>new DEF Added
  <2>3. \A tx \in Txs(t)' :
           /\ tx \in TxType /\ tx.lt >= lt + 2 /\ tx.lt <= lt'
           /\ tx.kind \in Income => tx.memo = 0
           /\ tx.kind \in Transfer => tx.memo \in flying \cup sends
    BY <2>new DEF Added
  <2>4. sends \subseteq rows /\ flying \subseteq rows /\ 0 \notin rows
    BY JettonAssumption DEF Types, Memos
  <2>5. \A x \in 1..lt : x \in 1..lt'
    BY <1>0, <2>1, <2>2, <2>3
  <2>6. \A x \in 1..(lt + 1) : x \in 1..(lt' + 1)
    BY <1>0, <2>1, <2>2, <2>3, IntervalGrows
  <2>7. \A b \in 1..Tip' : (chain[b].sends)' \subseteq rows'
    BY <2>1, <2>2, <2>3, <2>4 DEF Types
  <2>8. ASSUME NEW b \in 1..Tip', NEW tx \in Txs(b)'
        PROVE  /\ tx.lt \in 1..lt' /\ tx.memo \in {0} \cup rows
               /\ tx.kind \in Income <=> tx.memo = 0
    <3>1. CASE b \in 1..Tip
      BY <2>1, <2>2, <2>3, <2>5, <2>8, <3>1 DEF Types
    <3>2. CASE b = t
      <4>1. tx \in Txs(t)'
        BY <2>1, <2>2, <2>3, <2>8, <3>2
      <4>2. tx.lt \in Nat /\ tx.lt >= lt + 2 /\ tx.lt <= lt'
        BY <2>1, <2>2, <2>3, <4>1, KindsOfTx
      <4>3. tx.lt \in 1..lt'
        BY <1>0, <2>1, <2>2, <2>3, <4>2
      <4>4. tx.kind \in Income \/ tx.kind \in Transfer
        BY <2>1, <2>2, <2>3, <4>1, KindsOfTx
      <4>5. tx.kind \in Income => tx.memo = 0
        BY <2>1, <2>2, <2>3, <4>1
      <4>6. tx.kind \in Transfer => tx.memo \in rows /\ tx.memo # 0
        BY <2>1, <2>2, <2>3, <2>4, <4>1
      <4> QED BY <4>3, <4>4, <4>5, <4>6
    <3> QED BY <2>1, <2>2, <2>3, <3>1, <3>2
  <2>9. ASSUME NEW b \in 2..Tip', Txs(b)' = {}
        PROVE  (chain[b].balance)' = (chain[b - 1].balance)'
    <3>0. b - 1 \in 1..Tip /\ (b = t \/ b \in 2..Tip)
      BY <1>0, <2>0, <2>1, <2>2, <2>3
    <3>1. CASE b \in 2..Tip
      <4>1. b \in 1..Tip
        BY <1>0, <3>1
      <4>2. chain[b].balance = chain[b - 1].balance
        BY <2>1, <2>2, <2>3, <2>9, <3>1, <4>1 DEF Types
      <4> QED BY <2>1, <2>2, <2>3, <3>0, <4>1, <4>2
    <3>2. CASE b = t
      <4>1. b - 1 = Tip /\ Tip \in 1..Tip
        BY <1>0, <2>0, <3>2
      <4>2. chain'[b].balance = Balance
        BY <2>1, <2>2, <2>3, <2>9, <3>2
      <4> QED BY <2>1, <2>2, <2>3, <4>1, <4>2 DEF Balance
    <3> QED BY <3>0, <3>1, <3>2
  <2>10. DOMAIN chain' = 1..Tip'
    BY <2>1, <2>2, <2>3
  <2>11. \A b \in 1..Tip' : \A tx \in Txs(b)' :
            /\ tx.lt \in 1..lt' /\ tx.memo \in {0} \cup rows'
            /\ tx.kind \in Income <=> tx.memo = 0
    BY <2>1, <2>2, <2>3, <2>8
  <2>12. \A b \in 2..Tip' : Txs(b)' = {} => (chain[b].balance)' = (chain[b - 1].balance)'
    BY <2>9
  <2>13. /\ mempool' \subseteq rows' /\ flying' \subseteq rows' /\ failed' \subseteq rows'
         /\ sending' \subseteq rows' /\ finished' \subseteq rows' /\ rows' \subseteq Memos
    BY <2>1, <2>2, <2>3, <2>4 DEF Types
  <2>14. /\ \A i \in incomes' : i.lt \in 1..(lt' + 1)
         /\ \A m \in rows' : since'[m] \in 1..(lt' + 1)
         /\ pc' = "build" => task' \in 1..(lt' + 1)
    BY <2>1, <2>2, <2>3, <2>6 DEF Types
  <2> QED BY <1>0, <2>1, <2>2, <2>3, <2>7, <2>10, <2>11, <2>12, <2>13, <2>14 DEF Types
<1>2. CASE \/ ExtWaitSync \/ SkipTask \/ ExpWaitSync \/ SetExpiredError \/ TimePasses \/ Feed
           \/ Crash \/ UNCHANGED vars
  <2>1. UNCHANGED <<lt, chain, flying>> /\ UNCHANGED Tip /\ \A b : UNCHANGED Txs(b)
    BY <1>2, NoNewBlock
  <2>2. /\ UNCHANGED <<worth, incomes, rows, since, sending, finished, amount, failed,
                       expiredAt, mempool>>
        /\ \/ pc' \in {"sync", "query"} /\ task' \in {0, task}
           \/ UNCHANGED <<pc, task>>
    BY <1>2, QuietStep
  <2> QED BY <1>0, <2>1, <2>2 DEF Types
<1>3. CASE GetJettonInternalWithdrawalTasks
  <2>1. UNCHANGED <<lt, chain, flying>> /\ UNCHANGED Tip /\ \A b : UNCHANGED Txs(b)
    BY <1>3, NoNewBlock
  <2>2. UNCHANGED <<worth, incomes, rows, since, sending, finished, amount, failed,
                    expiredAt, mempool>>
    BY <1>3 DEF GetJettonInternalWithdrawalTasks, rowVars, chainVars
  <2>3. (pc' = "sync" /\ task' = task) \/ (pc' = "build" /\ task' \in 1..(lt + 1))
    BY <1>3, TaskTyped DEF GetJettonInternalWithdrawalTasks
  <2>4. task' \in Nat
    <3>1. \A x \in 1..(lt + 1) : x \in Nat
      BY <1>0
    <3> QED BY <2>3, <3>1 DEF Types
  <2> QED BY <1>0, <2>1, <2>2, <2>3, <2>4 DEF Types
<1>4. ASSUME NEW memo \in Memos, SaveInternalWithdrawalTask(memo) PROVE Types'
  <2>1. UNCHANGED <<lt, chain, flying>> /\ UNCHANGED Tip /\ \A b : UNCHANGED Txs(b)
    BY <1>4, NoNewBlock
  <2>2. /\ memo \notin rows /\ rows' = rows \cup {memo} /\ Balance > WithdrawalCutoff
        /\ worth' = [worth EXCEPT ![memo] = Balance]
        /\ since' = [since EXCEPT ![memo] = task]
        /\ expiredAt' = [expiredAt EXCEPT ![memo] = now + ExternalMessageLifetime]
        /\ pc = "build" /\ pc' = "send"
        /\ UNCHANGED <<incomes, sending, finished, amount, failed, task, mempool>>
    BY <1>4 DEF SaveInternalWithdrawalTask, chainVars
  <2>3. Balance \in Nat
    <3>1. Balance \in Int /\ WithdrawalCutoff \in Nat
      BY BlockTyped, JettonAssumption
    <3> QED BY <2>2, <3>1
  <2>4. worth' \in [Memos -> Nat] /\ since' \in [Memos -> Nat] /\ expiredAt' \in [Memos -> Nat]
    BY <1>0, <2>2, <2>3 DEF Types
  <2>5. \A m \in rows' : since'[m] \in 1..(lt + 1)
    BY <2>2 DEF Types
  <2>6. \A b \in 1..Tip : \A tx \in Txs(b) :
           /\ tx.lt \in 1..lt /\ tx.memo \in {0} \cup rows'
           /\ tx.kind \in Income <=> tx.memo = 0
    BY <2>2 DEF Types
  <2>7. \A b \in 1..Tip : chain[b].sends \subseteq rows'
    BY <2>2 DEF Types
  <2> QED BY <1>0, <2>1, <2>2, <2>4, <2>5, <2>6, <2>7 DEF Types
<1>5. ASSUME NEW sent \in BOOLEAN, SendExternalMessage(sent) PROVE Types'
  <2>1. UNCHANGED <<lt, chain, flying>> /\ UNCHANGED Tip /\ \A b : UNCHANGED Txs(b)
    BY <1>5, NoNewBlock
  <2>2. /\ pc = "send" /\ mempool' = (IF sent THEN mempool \cup {Max(rows)} ELSE mempool)
        /\ pc' = "sync" /\ task' = 0
        /\ UNCHANGED <<worth, incomes, rows, since, sending, finished, amount, failed, expiredAt>>
    BY <1>5 DEF SendExternalMessage, rowVars
  <2>3. Max(rows) \in rows
    BY <2>2, MaxIsGreatest, JettonAssumption DEF Types, Memos
  <2>4. mempool' \subseteq rows
    BY <2>2, <2>3 DEF Types
  <2> QED BY <1>0, <2>1, <2>2, <2>4 DEF Types
<1>6. CASE SetExpired
  <2>1. UNCHANGED <<lt, chain, flying>> /\ UNCHANGED Tip /\ \A b : UNCHANGED Txs(b)
    BY <1>6, NoNewBlock
  <2>2. /\ failed' \subseteq rows
        /\ UNCHANGED <<worth, incomes, rows, since, sending, finished, amount, expiredAt,
                       mempool, pc, task>>
    BY <1>6 DEF SetExpired, Expired, chainVars, procVars, Types
  <2> QED BY <1>0, <2>1, <2>2 DEF Types
<1>7. CASE SaveParsedBlockData
  <2>1. UNCHANGED <<lt, chain, flying>> /\ UNCHANGED Tip /\ \A b : UNCHANGED Txs(b)
    BY <1>7, NoNewBlock
  <2>2. UNCHANGED <<worth, rows, since, failed, expiredAt, mempool, pc, task>>
    BY <1>7 DEF SaveParsedBlockData, chainVars, procVars
  <2>3. CASE ~ Commits
    <3>1. UNCHANGED <<incomes, sending, finished, amount>>
      BY <1>7, <2>3 DEF SaveParsedBlockData
    <3> QED BY <1>0, <2>1, <2>2, <3>1 DEF Types
  <2>4. CASE Commits
    <3>1. /\ scanning \in 2..Tip /\ scanning \in 1..Tip
          /\ incomes' = incomes \cup ExternalIncomes(scanning)
          /\ sending' = sending \cup chain[scanning].sends
          /\ finished' = finished \cup Finishes(scanning)
          /\ amount' = [m \in Memos |-> IF m \in Finishes(scanning)
                                          THEN amount[m] + worth[m] ELSE amount[m]]
          /\ Finishes(scanning) \subseteq rows
      BY <1>7, <2>4, SavedBlock
    <3>2. \A i \in incomes' : i.lt \in 1..(lt + 1)
      <4> SUFFICES ASSUME NEW i \in ExternalIncomes(scanning) PROVE i.lt \in 1..(lt + 1)
        BY <3>1 DEF Types
      <4>1. PICK tx \in Txs(scanning) : i.lt \in {tx.lt, tx.lt + 1}
        BY <3>1, IncomesOfTxs
      <4>2. tx.lt \in 1..lt
        BY <3>1 DEF Types
      <4> QED BY <1>0, <4>1, <4>2
    <3>3. sending' \subseteq rows /\ finished' \subseteq rows
      BY <3>1 DEF Types
    <3>4. amount' \in [Memos -> Nat]
      <4>1. \A m \in Memos : amount[m] \in Nat /\ worth[m] \in Nat
        BY DEF Types
      <4> QED BY <3>1, <4>1
    <3> QED BY <1>0, <2>1, <2>2, <3>2, <3>3, <3>4 DEF Types
  <2> QED BY <2>3, <2>4
<1> QED BY <1>1, <1>2, <1>3, <1>4, <1>5, <1>6, <1>7 DEF Next

\* The types hold at the start.
LEMMA TypesInit == Init => Types
<1> SUFFICES ASSUME Init PROVE Types
  OBVIOUS
<1>1. FeedTypeOK /\ Tip = 1
  BY OrderInit DEF Init, FeedInit, Tip
<1> DEFINE new == [sends |-> {}, txs |-> <<>>, balance |-> IF Deployed THEN 0 ELSE NotInitialized]
<1>2. new \in BlockType /\ new.sends = {} /\ new.txs = <<>>
  <2>1. <<>> \in Seq(TxType) /\ {} \in SUBSET Memos /\ NotInitialized \in Int
    BY DEF NotInitialized
  <2> QED BY <2>1 DEF BlockType
<1>3. chain = <<new>>
  BY DEF Init
<1> HIDE DEF new
<1>4. chain \in Seq(BlockType) /\ DOMAIN chain = 1..Tip /\ chain[1] = new
  BY <1>1, <1>2, <1>3
<1>5. Txs(1) = {} /\ 1..Tip = {1} /\ 2..Tip = {}
  BY <1>1, <1>2, <1>4 DEF Txs, ToSet
<1>6. /\ lt = 0 /\ rows = {} /\ mempool = {} /\ flying = {} /\ failed = {} /\ sending = {}
      /\ finished = {} /\ incomes = {} /\ pc = "sync" /\ task = 0
      /\ worth \in [Memos -> Nat] /\ since \in [Memos -> Nat]
      /\ amount \in [Memos -> Nat] /\ expiredAt \in [Memos -> Nat]
  BY DEF Init
<1> QED BY <1>1, <1>2, <1>4, <1>5, <1>6 DEF Types

----------------------------------------------------------------------------
(* One sweep at a time                                                     *)

\* What the query finds is later than every row that has not failed, and those
\* are finished.
LEMMA TaskIsLatest ==
    ASSUME Types, OpenIsLatest, GetJettonInternalWithdrawalTasks, pc' = "build"
    PROVE  \A m \in rows \ failed : m \in finished /\ since[m] < task'
<1>1. Unswept # {} /\ task' = Max({i.lt : i \in Unswept})
  BY DEF GetJettonInternalWithdrawalTasks
<1>2. PICK i \in Unswept : task' = i.lt
  BY <1>1, TaskTyped
<1> SUFFICES ASSUME NEW m \in rows \ failed PROVE m \in finished /\ since[m] < task'
  OBVIOUS
<1>3. LatestRows # {}
  BY LatestExists
<1>4. PICK n \in LatestRows : n \in finished /\ i.lt > since[n]
  BY <1>3 DEF Unswept
<1>5. n \in rows \ failed
  BY <1>4 DEF LatestRows, OpenIsLatest
<1>6. since[m] <= since[n]
  BY <1>4, LatestExists
<1>7. since[m] \in Nat /\ since[n] \in Nat /\ i.lt \in Nat
  <2>1. i \in incomes /\ lt \in Nat
    BY DEF Unswept, Types
  <2>2. i.lt \in 1..(lt + 1)
    BY <2>1 DEF Types
  <2>3. m \in Memos /\ n \in Memos
    BY <1>5 DEF Types
  <2>4. i.lt \in Nat
    BY <2>1, <2>2
  <2> QED BY <2>3, <2>4 DEF Types
<1>8. since[m] < task'
  BY <1>2, <1>4, <1>6, <1>7
<1>9. m \in finished
  <2> SUFFICES ASSUME m \notin finished PROVE FALSE
    OBVIOUS
  <2>1. m # n
    BY <1>4
  <2>2. since[n] < since[m]
    BY <1>5, <2>1 DEF OpenIsLatest
  <2> QED BY <1>6, <1>7, <2>2
<1> QED BY <1>8, <1>9

\* Every step keeps the open row the latest one.
LEMMA OpenIsLatestStep ==
    ASSUME Types, OpenIsLatest, [Next]_vars
    PROVE  OpenIsLatest'
<1>1. CASE UNCHANGED <<rows, failed, finished, since, sending>> /\ (pc' # "build" \/ UNCHANGED <<pc, task>>)
  BY <1>1 DEF OpenIsLatest
<1>2. ASSUME NEW utime \in 0..now, NEW sends \in SUBSET mempool,
             NEW events \in SeqOf(Events(flying \cup sends), MaxTxs), Block(utime, sends, events)
      PROVE  OpenIsLatest'
  BY <1>1, <1>2 DEF Block, rowVars, procVars
<1>3. CASE \/ ExtWaitSync \/ SkipTask \/ ExpWaitSync \/ SetExpiredError \/ TimePasses \/ Feed
           \/ Crash \/ UNCHANGED vars
  <2>1. /\ UNCHANGED <<rows, since, sending, finished, failed>>
        /\ pc' \in {"sync", "query"} \/ UNCHANGED <<pc, task>>
    BY <1>3, QuietStep
  <2> QED BY <1>1, <2>1
<1>4. CASE GetJettonInternalWithdrawalTasks
  <2>1. UNCHANGED <<rows, since, sending, finished, failed>>
    BY <1>4 DEF GetJettonInternalWithdrawalTasks, rowVars
  <2>2. pc' = "build" => \A m \in rows \ failed : m \in finished /\ since[m] < task'
    BY <1>4, TaskIsLatest
  <2> QED BY <2>1, <2>2 DEF OpenIsLatest
<1>5. ASSUME NEW memo \in Memos, SaveInternalWithdrawalTask(memo) PROVE OpenIsLatest'
  <2>1. /\ pc = "build" /\ pc' = "send" /\ memo \notin rows /\ rows' = rows \cup {memo}
        /\ since' = [since EXCEPT ![memo] = task]
        /\ UNCHANGED <<sending, finished, failed>>
    BY <1>5 DEF SaveInternalWithdrawalTask
  <2>2. /\ since'[memo] = task /\ \A m \in rows : since'[m] = since[m]
    BY <2>1 DEF Types
  <2>3. \A m \in rows \ failed : m \in finished /\ since[m] < task
    BY <2>1 DEF OpenIsLatest
  <2> QED BY <2>1, <2>2, <2>3 DEF OpenIsLatest
<1>6. ASSUME NEW sent \in BOOLEAN, SendExternalMessage(sent) PROVE OpenIsLatest'
  BY <1>1, <1>6 DEF SendExternalMessage, rowVars
<1>7. CASE SetExpired
  <2>1. /\ UNCHANGED <<rows, since, sending, finished, pc, task>>
        /\ failed \subseteq failed' /\ failed' \cap sending = {}
    BY <1>7 DEF SetExpired, Expired, procVars, OpenIsLatest
  <2> QED BY <2>1 DEF OpenIsLatest
<1>8. CASE SaveParsedBlockData
  <2>1. UNCHANGED <<rows, since, failed, pc, task>>
    BY <1>8 DEF SaveParsedBlockData, procVars
  <2>2. /\ finished \subseteq finished' /\ finished' \subseteq sending'
        /\ failed \cap sending' = {}
    <3>1. CASE ~ Commits
      BY <1>8, <3>1 DEF SaveParsedBlockData, OpenIsLatest
    <3>2. CASE Commits
      <4>1. /\ sending' = sending \cup chain[scanning].sends
            /\ finished' = finished \cup Finishes(scanning)
            /\ (chain[scanning].sends \cup Finishes(scanning)) \cap failed = {}
            /\ Finishes(scanning) \subseteq sending'
        BY <1>8, <3>2, SavedBlock
      <4> QED BY <4>1 DEF OpenIsLatest
    <3> QED BY <3>1, <3>2
  <2> QED BY <2>1, <2>2 DEF OpenIsLatest
<1> QED BY <1>2, <1>3, <1>4, <1>5, <1>6, <1>7, <1>8 DEF Next

\* Types and the order of the rows hold in every state.
LEMMA RowsAlways == Spec => [](Types /\ OpenIsLatest)
<1>1. Init => Types /\ OpenIsLatest
  <2>1. Init => OpenIsLatest
    BY DEF Init, OpenIsLatest
  <2> QED BY <2>1, TypesInit
<1>2. Types /\ OpenIsLatest /\ [Next]_vars => (Types /\ OpenIsLatest)'
  BY TypesStep, OpenIsLatestStep
<1> QED BY <1>1, <1>2, PTL DEF Spec

\* At most one open row.
LEMMA OneOpen == Types /\ OpenIsLatest => OneOpenJettonSweep
<1> SUFFICES ASSUME Types, OpenIsLatest, NEW m \in rows \ (failed \cup finished),
                    NEW n \in rows \ (failed \cup finished), m # n
             PROVE  FALSE
  BY DEF OneOpenJettonSweep
<1>1. since[m] < since[n] /\ since[n] < since[m]
  BY DEF OpenIsLatest
<1>2. since[m] \in Nat /\ since[n] \in Nat
  BY DEF Types
<1> QED BY <1>1, <1>2

\* Of the rows of a deposit at most one is neither failed nor finished, for any
\* number of rows, blocks, failures and restarts: two sweeps of the same Jettons
\* are never under way as far as the service knows.
THEOREM OneJettonSweepAtATime == Spec => []OneOpenJettonSweep
BY RowsAlways, OneOpen, PTL

----------------------------------------------------------------------------
(* Where a sweep is                                                        *)

\* What a new block adds to the sendings and the arrivals of a memo.
LEMMA SentAndDone ==
    ASSUME NEW t, NEW utime, NEW sends, Added(t, utime, sends), NEW m
    PROVE  /\ SendBlock(m)' = {} <=> SendBlock(m) = {} /\ m \notin sends
           /\ Done(m)' <=> Done(m) \/ \E tx \in Txs(t)' : tx.memo = m
<1>1. /\ Tip' = t /\ 1..t = (1..Tip) \cup {t} /\ chain'[t].sends = sends
      /\ \A b \in 1..Tip : chain'[b] = chain[b] /\ Txs(b)' = Txs(b)
  BY DEF Added
<1>2. SendBlock(m)' = {b \in 1..t : m \in chain'[b].sends}
  BY <1>1 DEF SendBlock
<1>3. SendBlock(m)' = {} <=> SendBlock(m) = {} /\ m \notin sends
  BY <1>1, <1>2 DEF SendBlock
<1>4. Done(m)' <=> \E b \in 1..t : \E tx \in Txs(b)' : tx.memo = m
  BY <1>1 DEF Done
<1>5. Done(m)' <=> Done(m) \/ \E tx \in Txs(t)' : tx.memo = m
  BY <1>1, <1>4 DEF Done
<1> QED BY <1>3, <1>5

\* The chain unchanged, so are the sendings and the arrivals.
LEMMA SameSentAndDone ==
    ASSUME UNCHANGED <<genUtime, chain>>, NEW m
    PROVE  SendBlock(m)' = SendBlock(m) /\ Done(m)' = Done(m)
BY DEF SendBlock, Done, Tip, Txs

\* The transfers of a new block are of sweeps that were sent and have not arrived.
LEMMA NewTransfer ==
    ASSUME Types, Placed, NEW t, NEW utime, NEW sends \in SUBSET mempool, Added(t, utime, sends),
           NEW tx \in Txs(t)', tx.memo # 0
    PROVE  /\ tx.kind \in Transfer /\ tx.memo \in flying \cup sends /\ ~ Done(tx.memo)
           /\ tx.memo \in Memos /\ tx.amount = worth[tx.memo] /\ Possible(tx.kind, tx.memo)
<1>1. /\ tx \in TxType /\ (tx.kind \in Income => tx.memo = 0)
      /\ tx.kind \in Transfer => /\ tx.memo \in flying \cup sends /\ tx.amount = worth[tx.memo]
                                 /\ Possible(tx.kind, tx.memo)
  BY DEF Added
<1>2. tx.kind \in Transfer
  BY <1>1, KindsOfTx
<1>3. tx.memo \in Memos
  BY <1>1, <1>2 DEF Types
<1> QED BY <1>1, <1>2, <1>3 DEF Placed

\* The memo of a new row is the greatest one.
LEMMA NewestRow ==
    ASSUME Types, Placed, NEW memo \in Memos, memo \notin rows,
           \A m \in Memos : m < memo => m \in rows, rows' = rows \cup {memo}
    PROVE  Max(rows') = memo
<1>0. MaxMemos \in Nat /\ rows \subseteq 1..MaxMemos
  BY JettonAssumption DEF Types, Memos
<1>1. \A m \in rows : m \in Nat /\ memo \in Nat /\ m < memo
  <2> SUFFICES ASSUME NEW m \in rows PROVE m \in Nat /\ memo \in Nat /\ m < memo
    OBVIOUS
  <2>1. m \in Nat /\ memo \in Nat /\ m # memo
    BY <1>0 DEF Memos
  <2>2. ~ (memo < m)
    BY DEF Placed
  <2> QED BY <2>1, <2>2
<1>2. rows' \in SUBSET (1..MaxMemos) /\ rows' # {}
  BY <1>0 DEF Memos
<1>3. Max(rows') \in rows' /\ memo <= Max(rows')
  BY <1>0, <1>2, MaxIsGreatest
<1> QED BY <1>1, <1>3

\* Every step keeps the sweeps where Placed has them.
LEMMA PlacedStep ==
    ASSUME Types, Placed, [Next]_vars
    PROVE  Placed'
<1>0. MaxMemos \in Nat /\ rows \subseteq 1..MaxMemos
  BY JettonAssumption DEF Types, Memos
<1>1. ASSUME NEW utime \in 0..now, NEW sends \in SUBSET mempool,
             NEW events \in SeqOf(Events(flying \cup sends), MaxTxs), Block(utime, sends, events)
      PROVE  Placed'
  <2>0. PICK t : t = Tip + 1
    OBVIOUS
  <2>new. Added(t, utime, sends)
    BY <1>1, <2>0, NewBlock
  <2>1. /\ Tip' = t /\ 1..t = (1..Tip) \cup {t} /\ t \notin 1..Tip
        /\ \A b \in 1..Tip : Txs(b)' = Txs(b)
        /\ \A tx, ty \in Txs(t)' : tx.memo = ty.memo /\ tx.memo # 0 => tx = ty
        /\ flying' = (flying \cup sends) \ {tx.memo : tx \in Txs(t)'}
        /\ mempool' = mempool \ sends
        /\ UNCHANGED <<rows, pc>>
    BY <2>new DEF Added
  <2>2. ASSUME NEW m \in flying' PROVE SendBlock(m)' # {} /\ ~ Done(m)'
    <3>1. m \in flying \cup sends /\ ~ (\E tx \in Txs(t)' : tx.memo = m) /\ m \in Memos
      BY <2>1 DEF Types
    <3>2. ~ Done(m)
      BY <3>1 DEF Placed
    <3> QED BY <2>new, <3>1, <3>2, SentAndDone DEF Placed
  <2>3. ASSUME NEW m \in Memos, Done(m)' PROVE SendBlock(m)' # {}
    <3>1. CASE Done(m)
      BY <2>new, <3>1, SentAndDone DEF Placed
    <3>2. CASE \E tx \in Txs(t)' : tx.memo = m
      <4>1. PICK tx \in Txs(t)' : tx.memo = m
        BY <3>2
      <4>2. m # 0
        BY <1>0 DEF Memos
      <4>3. m \in flying \cup sends
        BY <2>new, <4>1, <4>2, NewTransfer
      <4> QED BY <2>new, <4>3, SentAndDone DEF Placed
    <3> QED BY <2>new, <2>3, <3>1, <3>2, SentAndDone
  <2>4. ASSUME NEW b \in 1..t, NEW c \in 1..t, NEW tx \in Txs(b)', NEW ty \in Txs(c)',
               tx.memo = ty.memo, tx.memo # 0
        PROVE  b = c /\ tx = ty
    <3>1. CASE b \in 1..Tip /\ c \in 1..Tip
      BY <2>1, <2>4, <3>1 DEF Placed
    <3>2. CASE b = t /\ c = t
      BY <2>1, <2>4, <3>2
    <3>3. CASE b = t /\ c \in 1..Tip
      <4>1. ~ Done(tx.memo)
        BY <2>new, <2>4, <3>3, NewTransfer
      <4> QED BY <2>1, <2>4, <3>3, <4>1 DEF Done
    <3>4. CASE b \in 1..Tip /\ c = t
      <4>1. ~ Done(ty.memo)
        BY <2>new, <2>4, <3>4, NewTransfer
      <4> QED BY <2>1, <2>4, <3>4, <4>1 DEF Done
    <3> QED BY <2>1, <3>1, <3>2, <3>3, <3>4
  <2>5. ASSUME NEW m \in mempool' PROVE SendBlock(m)' = {}
    BY <2>new, <2>1, SentAndDone DEF Placed
  <2>6. ASSUME pc = "send" PROVE Max(rows)' \notin mempool' /\ SendBlock(Max(rows))' = {}
    <3>1. PICK m : m = Max(rows)
      OBVIOUS
    <3>2. m \notin mempool /\ SendBlock(m) = {}
      BY <2>6, <3>1 DEF Placed
    <3>3. m \notin mempool' /\ SendBlock(m)' = {}
      BY <2>new, <2>1, <3>2, SentAndDone
    <3>4. Max(rows)' = m
      BY <2>1, <3>1
    <3>5. SendBlock(Max(rows))' = {b \in 1..Tip' : Max(rows)' \in chain'[b].sends}
      BY DEF SendBlock
    <3>6. SendBlock(m)' = {b \in 1..Tip' : m \in chain'[b].sends}
      BY DEF SendBlock
    <3> QED BY <3>3, <3>4, <3>5, <3>6
  <2>7. mempool' \cap flying' = {} /\ \A m \in rows', n \in Memos : n < m => n \in rows'
    BY <2>1 DEF Placed
  <2> QED BY <2>1, <2>2, <2>3, <2>4, <2>5, <2>6, <2>7 DEF Placed
<1>2. CASE /\ UNCHANGED <<genUtime, chain, flying, mempool, rows>> /\ (pc' # "send" \/ pc' = pc)
  <2>1. \A m : SendBlock(m)' = SendBlock(m) /\ Done(m)' = Done(m)
    BY <1>2, SameSentAndDone
  <2>2. Tip' = Tip /\ \A b : Txs(b)' = Txs(b)
    BY <1>2 DEF Tip, Txs
  <2>3. SendBlock(Max(rows))' = SendBlock(Max(rows))
    BY <1>2 DEF SendBlock, Tip
  <2> QED BY <1>2, <2>1, <2>2, <2>3 DEF Placed
<1>3. CASE \/ ExtWaitSync \/ GetJettonInternalWithdrawalTasks \/ SkipTask \/ ExpWaitSync
           \/ SetExpired \/ SetExpiredError \/ TimePasses \/ SaveParsedBlockData \/ Feed \/ Crash \/ UNCHANGED vars
  <2>1. UNCHANGED <<genUtime, chain, flying>>
    BY <1>3, NoNewBlock
  <2>2. UNCHANGED <<mempool, rows>> /\ (pc' # "send" \/ pc' = pc)
    BY <1>3 DEF ExtWaitSync, GetJettonInternalWithdrawalTasks, SkipTask, ExpWaitSync,
       SetExpired, SetExpiredError, TimePasses,
       SaveParsedBlockData, Feed, Crash, vars, chainVars, rowVars, procVars
  <2> QED BY <1>2, <2>1, <2>2
<1>4. ASSUME NEW memo \in Memos, SaveInternalWithdrawalTask(memo) PROVE Placed'
  <2>1. UNCHANGED <<genUtime, chain, flying>>
    BY <1>4, NoNewBlock
  <2>2. /\ memo \notin rows /\ \A m \in Memos : m < memo => m \in rows
        /\ rows' = rows \cup {memo} /\ mempool' = mempool
    BY <1>4 DEF SaveInternalWithdrawalTask, chainVars
  <2>3. \A m : SendBlock(m)' = SendBlock(m) /\ Done(m)' = Done(m)
    BY <2>1, SameSentAndDone
  <2>4. Tip' = Tip /\ \A b : Txs(b)' = Txs(b)
    BY <2>1 DEF Tip, Txs
  <2>5. \A m \in rows', n \in Memos : n < m => n \in rows'
    BY <2>2 DEF Placed
  <2>6. Max(rows') = memo
    BY <2>2, NewestRow
  <2>7. memo \notin mempool /\ SendBlock(memo) = {}
    BY <2>2 DEF Types, SendBlock
  <2>8. Max(rows)' \notin mempool' /\ SendBlock(Max(rows))' = {}
    <3>1. SendBlock(Max(rows))' = {b \in 1..Tip' : Max(rows') \in chain'[b].sends}
      BY DEF SendBlock
    <3>2. SendBlock(memo)' = {b \in 1..Tip' : memo \in chain'[b].sends}
      BY DEF SendBlock
    <3> QED BY <2>2, <2>3, <2>6, <2>7, <3>1, <3>2
  <2> QED BY <2>1, <2>2, <2>3, <2>4, <2>5, <2>8 DEF Placed
<1>5. ASSUME NEW sent \in BOOLEAN, SendExternalMessage(sent) PROVE Placed'
  <2>1. UNCHANGED <<genUtime, chain, flying>>
    BY <1>5, NoNewBlock
  <2>2. /\ pc = "send" /\ pc' = "sync" /\ rows' = rows
        /\ mempool' = (IF sent THEN mempool \cup {Max(rows)} ELSE mempool)
    BY <1>5 DEF SendExternalMessage, rowVars
  <2>3. \A m : SendBlock(m)' = SendBlock(m) /\ Done(m)' = Done(m)
    BY <2>1, SameSentAndDone
  <2>4. Tip' = Tip /\ \A b : Txs(b)' = Txs(b)
    BY <2>1 DEF Tip, Txs
  <2>5. SendBlock(Max(rows)) = {} /\ Max(rows) \notin flying
    BY <2>2 DEF Placed
  <2> QED BY <2>1, <2>2, <2>3, <2>4, <2>5 DEF Placed
<1> QED BY <1>1, <1>3, <1>4, <1>5 DEF Next

\* Every sweep is in its place at the start: there is none.
LEMMA PlacedInit == Init => Placed
<1> SUFFICES ASSUME Init PROVE Placed
  OBVIOUS
<1>1. /\ rows = {} /\ mempool = {} /\ flying = {} /\ pc = "sync" /\ Tip = 1
      /\ chain[1].txs = <<>>
  BY DEF Init, FeedInit, Tip
<1>2. Txs(1) = {} /\ 1..Tip = {1}
  BY <1>1 DEF Txs, ToSet
<1> QED BY <1>1, <1>2 DEF Placed, Done

\* Every step keeps what the tables say of the saved blocks.
LEMMA SavedStep ==
    ASSUME Types, Placed, Saved, [Next]_vars
    PROVE  Saved'
<1>0. /\ blockData \subseteq 1..Tip /\ \A m \in Memos : m # 0 /\ m \in Nat
      /\ rows \subseteq Memos /\ finished \subseteq rows
  <2>1. blockData \subseteq 1..Tip /\ rows \subseteq Memos /\ finished \subseteq rows
    BY DEF Types, FeedTypeOK
  <2>2. \A m \in Memos : m # 0 /\ m \in Nat
    BY JettonAssumption DEF Memos
  <2> QED BY <2>1, <2>2
<1>1. ASSUME NEW utime \in 0..now, NEW sends \in SUBSET mempool,
             NEW events \in SeqOf(Events(flying \cup sends), MaxTxs), Block(utime, sends, events)
      PROVE  Saved'
  <2>0. PICK t : t = Tip + 1
    OBVIOUS
  <2>new. Added(t, utime, sends)
    BY <1>1, <2>0, NewBlock
  <2>1. /\ \A b \in blockData : chain'[b] = chain[b] /\ Txs(b)' = Txs(b)
        /\ UNCHANGED <<blockData, finished, sending, amount, worth>>
    BY <1>0, <2>new DEF Added
  <2> QED BY <2>1 DEF Saved
<1>2. CASE UNCHANGED <<chain, blockData, finished, sending, amount, worth>>
  BY <1>2 DEF Saved, Txs
<1>3. CASE \/ ExtWaitSync \/ GetJettonInternalWithdrawalTasks \/ SkipTask \/ ExpWaitSync
           \/ SetExpired \/ SetExpiredError \/ TimePasses \/ Feed \/ Crash \/ \E sent \in BOOLEAN : SendExternalMessage(sent)
           \/ UNCHANGED vars
  <2>1. UNCHANGED chain
    BY <1>3, NoNewBlock
  <2>2. UNCHANGED <<blockData, finished, sending, amount, worth>>
    BY <1>3 DEF ExtWaitSync, GetJettonInternalWithdrawalTasks, SkipTask, ExpWaitSync,
       SetExpired, SetExpiredError, TimePasses,
       Tick, Feed, TrackerPoll, TrackerSend, TrackerFetchError, ScanError, ScanDone, Crash,
       Restart, SendExternalMessage, vars, feedVars, chainVars, rowVars, procVars
  <2> QED BY <1>2, <2>1, <2>2
<1>4. ASSUME NEW memo \in Memos, SaveInternalWithdrawalTask(memo) PROVE Saved'
  <2>1. UNCHANGED chain /\ \A b : Txs(b)' = Txs(b)
    BY <1>4, NoNewBlock
  <2>2. /\ memo \notin rows /\ worth' = [worth EXCEPT ![memo] = Balance]
        /\ UNCHANGED <<blockData, finished, sending, amount>>
    BY <1>4 DEF SaveInternalWithdrawalTask, feedVars
  <2>3. \A m \in finished : worth'[m] = worth[m]
    BY <1>0, <2>2 DEF Types
  <2> QED BY <2>1, <2>2, <2>3 DEF Saved
<1>5. CASE SaveParsedBlockData
  <2>1. UNCHANGED chain /\ \A b : Txs(b)' = Txs(b)
    BY <1>5, NoNewBlock
  <2>2. UNCHANGED worth
    BY <1>5 DEF SaveParsedBlockData
  <2>3. CASE ~ Commits
    BY <1>2, <1>5, <2>1, <2>2, <2>3 DEF SaveParsedBlockData, ScanDone
  <2>4. CASE Commits
    <3>1. /\ scanning \in 1..Tip /\ scanning \notin blockData
          /\ blockData' = blockData \cup {scanning}
          /\ sending' = sending \cup chain[scanning].sends
          /\ finished' = finished \cup Finishes(scanning)
          /\ amount' = [m \in Memos |-> IF m \in Finishes(scanning)
                                          THEN amount[m] + worth[m] ELSE amount[m]]
          /\ Finishes(scanning) = {tx.memo : tx \in {u \in Txs(scanning) : u.kind \in Transfer}}
          /\ Finishes(scanning) \subseteq rows \ {0}
      BY <1>5, <2>4, SavedBlock
    <3>2. \A m \in Memos : m \in Finishes(scanning) <=> \E tx \in Txs(scanning) : tx.memo = m
      <4> SUFFICES ASSUME NEW m \in Memos, NEW tx \in Txs(scanning), tx.memo = m
                   PROVE  tx.kind \in Transfer
        BY <3>1
      <4>1. tx.kind \in Income <=> tx.memo = 0
        BY <3>1 DEF Types
      <4>2. tx \in TxType
        BY <3>1, BlockTyped
      <4> QED BY <1>0, <4>1, <4>2, KindsOfTx
    <3>3. \A m \in Memos : m \in Finishes(scanning) => m \notin finished
      <4> SUFFICES ASSUME NEW m \in Memos, m \in Finishes(scanning), m \in finished PROVE FALSE
        OBVIOUS
      <4>1. PICK tx \in Txs(scanning) : tx.memo = m
        BY <3>2
      <4>2. PICK b \in blockData : \E ty \in Txs(b) : ty.memo = m
        BY DEF Saved
      <4> QED BY <1>0, <3>1, <4>1, <4>2 DEF Placed
    <3>4. ASSUME NEW m \in Memos
          PROVE  m \in finished' <=> \E b \in blockData' : \E tx \in Txs(b)' : tx.memo = m
      BY <2>1, <3>1, <3>2 DEF Saved
    <3>5. ASSUME NEW m \in Memos
          PROVE  amount'[m] = (IF m \in finished' THEN worth'[m] ELSE 0)
      <4>1. amount[m] = (IF m \in finished THEN worth[m] ELSE 0) /\ worth[m] \in Nat
        BY DEF Saved, Types
      <4>2. CASE m \in Finishes(scanning)
        <5>1. amount[m] = 0 /\ amount'[m] = amount[m] + worth[m] /\ m \in finished'
          BY <3>1, <3>3, <4>1, <4>2
        <5> QED BY <2>2, <4>1, <5>1
      <4>3. CASE m \notin Finishes(scanning)
        BY <2>2, <3>1, <4>1, <4>3
      <4> QED BY <4>2, <4>3
    <3>6. \A b \in blockData' : chain'[b].sends \subseteq sending'
      BY <2>1, <3>1 DEF Saved
    <3> QED BY <3>4, <3>5, <3>6 DEF Saved
  <2> QED BY <2>3, <2>4
<1> QED BY <1>1, <1>3, <1>4, <1>5 DEF Next

\* Nothing is saved at the start but a block without transactions.
LEMMA SavedInit == Init => Saved
<1> SUFFICES ASSUME Init PROVE Saved
  OBVIOUS
<1>1. /\ finished = {} /\ sending = {} /\ blockData = {1}
      /\ amount = [m \in Memos |-> 0] /\ chain[1].txs = <<>> /\ chain[1].sends = {}
  BY DEF Init, FeedInit
<1>2. Txs(1) = {}
  BY <1>1 DEF Txs, ToSet
<1> QED BY <1>1, <1>2 DEF Saved

----------------------------------------------------------------------------
(* Expiry                                                                  *)

\* Every step keeps the expiration processor in sync, if KeepsSync holds of it.
LEMMA InSyncStep ==
    ASSUME InSync, [Next /\ KeepsSync]_vars
    PROVE  InSync'
<1>1. CASE UNCHANGED vars
  BY <1>1 DEF InSync, Synced, IsExpired, GetLastSavedBlock, vars, feedVars
<1>2. CASE Next /\ KeepsSync
  BY <1>2 DEF InSync, KeepsSync, Next, Block, ExtWaitSync, GetJettonInternalWithdrawalTasks,
     SaveInternalWithdrawalTask, SkipTask, SendExternalMessage, ExpWaitSync, SetExpired,
     SetExpiredError, TimePasses, SaveParsedBlockData, Feed, Crash
<1> QED BY <1>1, <1>2

\* Every step keeps Expiry, if the gaps in block_data are young and the last
\* saved block is when SetExpired reads the clock.
LEMMA ExpiryStep ==
    ASSUME Types, Saved, ChainInOrder, GapsAreYoung, InSync, Expiry, [Next]_vars
    PROVE  Expiry'
<1>0. /\ Tip \in Nat \ {0} /\ rows \subseteq Memos /\ failed \subseteq rows
      /\ expiredAt \in [Memos -> Nat] /\ FeedTypeOK
      /\ \A b \in 1..Tip : chain[b].sends \subseteq rows
  BY BlockTyped DEF Types
<1>1. ASSUME NEW utime \in 0..now, NEW sends \in SUBSET mempool,
             NEW events \in SeqOf(Events(flying \cup sends), MaxTxs), Block(utime, sends, events)
      PROVE  Expiry'
  <2>0. PICK t : t = Tip + 1
    OBVIOUS
  <2>new. Added(t, utime, sends)
    BY <1>1, <2>0, NewBlock
  <2>1. /\ Tip' = t /\ 1..t = (1..Tip) \cup {t} /\ chain'[t].sends = sends
        /\ \A b \in 1..Tip : chain'[b] = chain[b] /\ genUtime'[b] = genUtime[b]
        /\ genUtime'[t] = utime /\ genUtime[Tip] <= utime /\ Tip \in 1..Tip
        /\ UNCHANGED <<failed, expiredAt>>
    BY <2>new DEF Added
  <2>2. \A m \in sends : utime <= expiredAt[m]
    BY <1>1 DEF Block
  <2>3. \A b \in 1..Tip' : \A m \in (chain[b].sends)' : genUtime'[b] <= expiredAt'[m]
    BY <2>1, <2>2 DEF Expiry
  <2>4. ASSUME NEW m \in failed PROVE expiredAt[m] < utime /\ m \notin sends
    <3>1. expiredAt[m] \in Nat /\ genUtime[Tip] \in Nat /\ utime \in Nat
      BY <1>0, <2>1 DEF FeedTypeOK, Tip
    <3>2. expiredAt[m] < genUtime[Tip] /\ genUtime[Tip] <= utime
      BY <2>1 DEF Expiry
    <3>3. expiredAt[m] < utime /\ ~ (utime <= expiredAt[m])
      BY <3>1, <3>2
    <3> QED BY <2>2, <3>3
  <2>5. \A m \in failed' : expiredAt'[m] < genUtime'[Tip']
    BY <2>1, <2>4
  <2>6. \A m \in failed' : SendBlock(m)' = {}
    BY <2>new, <2>1, <2>4, SentAndDone DEF Expiry, NoExpiredJettonSweep
  <2> QED BY <2>3, <2>5, <2>6 DEF Expiry, NoExpiredJettonSweep
<1>2. CASE UNCHANGED <<genUtime, chain, failed, expiredAt>>
  BY <1>2 DEF Expiry, NoExpiredJettonSweep, SendBlock, Tip
<1>3. CASE \/ ExtWaitSync \/ GetJettonInternalWithdrawalTasks \/ SkipTask \/ SaveParsedBlockData
           \/ ExpWaitSync \/ SetExpiredError \/ TimePasses \/ Feed \/ Crash \/ \E sent \in BOOLEAN : SendExternalMessage(sent)
           \/ UNCHANGED vars
  <2>1. UNCHANGED <<genUtime, chain>>
    BY <1>3, NoNewBlock
  <2>2. UNCHANGED <<failed, expiredAt>>
    BY <1>3 DEF ExtWaitSync, GetJettonInternalWithdrawalTasks, SkipTask, ExpWaitSync,
       SetExpiredError, TimePasses, Feed, Crash, SaveParsedBlockData, SendExternalMessage, vars, rowVars
  <2> QED BY <1>2, <2>1, <2>2
<1>4. ASSUME NEW memo \in Memos, SaveInternalWithdrawalTask(memo) PROVE Expiry'
  <2>1. UNCHANGED <<genUtime, chain>> /\ Tip' = Tip
    BY <1>4, NoNewBlock
  <2>2. /\ memo \notin rows /\ failed' = failed
        /\ expiredAt' = [expiredAt EXCEPT ![memo] = now + ExternalMessageLifetime]
    BY <1>4 DEF SaveInternalWithdrawalTask
  <2>3. \A m \in rows : expiredAt'[m] = expiredAt[m]
    BY <1>0, <2>2
  <2> QED BY <1>0, <2>1, <2>2, <2>3 DEF Expiry, NoExpiredJettonSweep, SendBlock
<1>5. CASE SetExpired
  <2>1. UNCHANGED <<genUtime, chain>> /\ Tip' = Tip
    BY <1>5, NoNewBlock
  <2>2. Synced /\ failed' = failed \cup Expired /\ expiredAt' = expiredAt
    BY <1>5 DEF SetExpired, InSync
  <2>3. ASSUME NEW m \in Expired PROVE expiredAt[m] < genUtime[Tip] /\ SendBlock(m) = {}
    <3>1. /\ expiredAt[m] \in Nat /\ m \notin sending
          /\ expiredAt[m] < now - AllowableBlockchainLagging
      BY <1>0 DEF Expired
    <3>2. /\ expiredAt[m] < genUtime[Tip]
          /\ \A b \in 1..Tip : genUtime[b] <= expiredAt[m] => b \in blockData
      BY <1>0, <2>2, <3>1, OldIsSaved
    <3> QED BY <3>1, <3>2 DEF Expiry, Saved, SendBlock
  <2> QED BY <2>1, <2>2, <2>3 DEF Expiry, NoExpiredJettonSweep, SendBlock
<1> QED BY <1>1, <1>3, <1>4, <1>5 DEF Next

\* Expiry at the start.
LEMMA ExpiryInit == Init => Expiry
BY DEF Init, FeedInit, Expiry, NoExpiredJettonSweep, Tip

\* the invariant of the runs in which no gap grows old and sync is kept
Timely ==
    /\ Types /\ OpenIsLatest /\ Placed /\ Saved
    /\ ChainInOrder /\ GapsAreYoung /\ InSync /\ Expiry

\* Timely at the start.
LEMMA TimelyInit == Init => Timely
<1>1. Init => OpenIsLatest /\ InSync
  BY DEF Init, OpenIsLatest, InSync
<1>2. Init => ChainInOrder /\ GapsAreYoung
  BY OrderInit DEF Init
<1> QED BY <1>1, <1>2, TypesInit, PlacedInit, SavedInit, ExpiryInit DEF Timely

\* Every step keeps Timely.
LEMMA TimelyStep ==
    ASSUME Timely, [Next /\ GapsAreYoung' /\ KeepsSync]_vars
    PROVE  Timely'
<1>1. [Next]_vars /\ Types /\ OpenIsLatest /\ Placed /\ Saved /\ ChainInOrder /\ GapsAreYoung
      /\ InSync /\ Expiry /\ [Next /\ KeepsSync]_vars
  BY DEF Timely
<1>2. GapsAreYoung'
  <2>1. CASE UNCHANGED vars
    BY <1>1, <2>1 DEF vars, feedVars, GapsAreYoung, GetLastSavedBlock, IsExpired
  <2> QED BY <2>1
<1>3. ChainInOrder'
  BY <1>1, NextIsFeedStep, ChainInOrderStep DEF Types
<1> QED BY <1>1, <1>2, <1>3, TypesStep, OpenIsLatestStep, PlacedStep, SavedStep, InSyncStep,
     ExpiryStep DEF Timely

\* No row is failed that the hot wallet sends, as long as no gap in block_data
\* grows older than the allowed lag, and the last saved block does not either
\* between waitSync and the clock reading of SetExpired: the message carries the expired_at of its
\* row, so neither delays nor restarts between saving and sending matter, and a
\* block is never rolled back because it confirms a failed row.
THEOREM NoJettonSweepExpired == TimelySpec => []NoExpiredJettonSweep
<1>1. Timely => NoExpiredJettonSweep
  BY DEF Timely, Expiry
<1>2. Timely /\ [Next /\ GapsAreYoung' /\ KeepsSync]_vars => Timely'
  BY TimelyStep
<1> QED BY <1>1, <1>2, TimelyInit, PTL DEF TimelySpec

----------------------------------------------------------------------------
(* No transfer fails                                                       *)

\* EffectOf of a part of a finite set of transactions, as a sum over the part.
LEMMA EffectAsSum ==
    ASSUME NEW S, IsFiniteSet(S), NEW T \in SUBSET S
    PROVE  EffectOf(T) = SumFunctionOnSet([tx \in S |-> Effect(tx)], T)
<1> DEFINE f == [tx \in S |-> Effect(tx)]
           g == [tx \in T |-> Effect(tx)]
<1>1. IsFiniteSet(T) /\ DOMAIN g = T /\ \A tx \in T : g[tx] = f[tx]
  BY FS_Subset
<1>2. EffectOf(T) = SumFunctionOnSet(g, T)
  BY <1>1 DEF EffectOf, SumFunction
<1> HIDE DEF f, g
<1>3. SumFunctionOnSet(g, T) = SumFunctionOnSet(f, T)
  BY <1>1, SumAgree
<1> QED BY <1>2, <1>3 DEF f

\* Incomes alone do not take anything.
LEMMA EffectOfIncomes ==
    ASSUME NEW S \in SUBSET TxType, IsFiniteSet(S), \A tx \in S : tx.kind \in Income
    PROVE  EffectOf(S) \in Nat
<1> DEFINE f == [tx \in S |-> Effect(tx)]
<1>1. \A tx \in S : f[tx] \in Nat
  BY KindsOfTx
<1>2. EffectOf(S) = SumFunctionOnSet(f, S)
  BY EffectAsSum
<1> HIDE DEF f
<1> QED BY <1>1, <1>2, SumTyped

\* One transfer among incomes takes no more than its amount.
LEMMA EffectOfTransfer ==
    ASSUME NEW S \in SUBSET TxType, IsFiniteSet(S), NEW tx \in S, tx.kind = "transfer",
           \A ty \in S \ {tx} : ty.kind \in Income
    PROVE  EffectOf(S) \in Int /\ EffectOf(S) >= - tx.amount
<1> DEFINE f == [ty \in S |-> Effect(ty)]
           T == S \ {tx}
<1>1. \A ty \in S : f[ty] \in Int
  BY KindsOfTx
<1>2. T \in SUBSET S /\ T \in SUBSET TxType /\ IsFiniteSet(T) /\ \A ty \in T : ty.kind \in Income
  BY FS_Subset
<1>3. EffectOf(S) = SumFunctionOnSet(f, S) /\ EffectOf(T) = SumFunctionOnSet(f, T)
  BY <1>2, EffectAsSum
<1>4. EffectOf(T) \in Nat
  <2> HIDE DEF T
  <2> QED BY <1>2, EffectOfIncomes
<1>5. f[tx] = - tx.amount /\ tx.amount \in Nat
  BY KindsOfTx
<1> HIDE DEF f
<1>6. SumFunctionOnSet(f, S) = f[tx] + SumFunctionOnSet(f, T)
  BY <1>1, SumRemove
<1> HIDE DEF T
<1> QED BY <1>3, <1>4, <1>5, <1>6

\* The hot wallet sends no failed sweep.
LEMMA SendsNotFailed ==
    ASSUME Types, Expiry, NEW utime \in 0..now, NEW sends \in SUBSET mempool,
           NEW events, Block(utime, sends, events)
    PROVE  sends \cap failed = {}
<1> SUFFICES ASSUME NEW m \in sends, m \in failed PROVE FALSE
  OBVIOUS
<1>1. utime <= expiredAt[m] /\ genUtime[Tip] <= utime /\ expiredAt[m] < genUtime[Tip]
  BY DEF Block, ProduceBlock, Expiry
<1>2. expiredAt[m] \in Nat /\ utime \in Nat /\ genUtime[Tip] \in Nat
  <2>1. Tip \in 1..Tip /\ genUtime \in Seq(Nat) /\ now \in Nat
    <3>1. FeedTypeOK
      BY DEF Types
    <3>2. genUtime \in Seq(Nat) /\ now \in Nat /\ 1 \in blockData /\ blockData \subseteq 1..Tip
      BY <3>1 DEF FeedTypeOK
    <3>3. Tip \in Nat
      BY <3>2 DEF Tip
    <3> QED BY <3>2, <3>3
  <2>2. genUtime[Tip] \in Nat /\ utime \in Nat
    BY <2>1 DEF Tip
  <2>3. m \in Memos
    BY DEF Types
  <2> QED BY <2>2, <2>3 DEF Types
<1> QED BY <1>1, <1>2

\* A sweep that has not arrived is not finished.
LEMMA UnfinishedUntilDone ==
    ASSUME Types, Placed, Saved, NEW m \in Memos, SendBlock(m) = {} \/ ~ Done(m)
    PROVE  m \notin finished /\ ~ Done(m)
<1>1. ~ Done(m)
  BY DEF Placed
<1>2. blockData \subseteq 1..Tip
  BY DEF Types, FeedTypeOK
<1> QED BY <1>1, <1>2 DEF Saved, Done

\* A sweep under way that a block may hold is the open row, and covered.
LEMMA UnderWay ==
    ASSUME Timely, Solvent, NEW utime \in 0..now, NEW sends \in SUBSET mempool,
           NEW events, Block(utime, sends, events), NEW m \in flying \cup sends
    PROVE  /\ m \in rows \ (failed \cup finished) /\ m # 0 /\ ~ Done(m)
           /\ worth[m] <= Balance /\ worth[m] \in Nat
<1>0. Types /\ OpenIsLatest /\ Placed /\ Saved /\ Expiry
  BY DEF Timely
<1>1. m \in rows /\ m \in Memos /\ m # 0 /\ m \in mempool \cup flying /\ worth[m] \in Nat
  <2>1. m \in mempool \cup flying /\ m \in rows /\ m \in Memos
    BY <1>0 DEF Types
  <2>2. worth[m] \in Nat
    BY <1>0, <2>1 DEF Types
  <2>3. m # 0
    BY <2>1, JettonAssumption DEF Memos
  <2> QED BY <2>1, <2>2, <2>3
<1>2. m \notin failed
  <2>1. CASE m \in sends
    BY <1>0, <2>1, SendsNotFailed
  <2>2. CASE m \in flying
    BY <1>0, <2>2 DEF Placed, Expiry, NoExpiredJettonSweep
  <2> QED BY <2>1, <2>2
<1>3. SendBlock(m) = {} \/ ~ Done(m)
  BY <1>0, <1>1 DEF Placed
<1>4. m \notin finished /\ ~ Done(m)
  BY <1>0, <1>1, <1>3, UnfinishedUntilDone
<1> QED BY <1>1, <1>2, <1>4 DEF Solvent

\* What the balance becomes: a block holds one transfer at most, which empties
\* no more than the wallet, and nothing else is under way then.
LEMMA NewBalance ==
    ASSUME Timely, Solvent, TransferFailures = {}, NEW utime \in 0..now,
           NEW sends \in SUBSET mempool, NEW events \in SeqOf(Events(flying \cup sends), MaxTxs),
           Block(utime, sends, events), NEW t, t = Tip + 1
    PROVE  /\ \A tx \in Txs(t)' : tx.kind \in Income \cup {"transfer"}
           /\ Txs(t)' # {} => Balance' >= 0
           /\ Txs(t)' = {} => Balance' = Balance
           /\ \/ Balance' >= Balance
              \/ \E m \in flying \cup sends :
                    /\ m \in rows \ (failed \cup finished)
                    /\ \E tx \in Txs(t)' : tx.memo = m
<1>0. Types /\ OpenIsLatest /\ Placed /\ Saved /\ Expiry
  BY DEF Timely
<1>new. Added(t, utime, sends)
  BY <1>0, NewBlock
<1>1. /\ Txs(t)' \subseteq TxType /\ IsFiniteSet(Txs(t)') /\ Balance' = chain'[t].balance
      /\ \A tx, ty \in Txs(t)' : tx.memo = ty.memo /\ tx.memo # 0 => tx = ty
      /\ \A tx \in Txs(t)' : tx.kind \in Income => tx.memo = 0
      /\ Txs(t)' = {} => chain'[t].balance = Balance
      /\ Txs(t)' # {} => chain'[t].balance = Max({0, Balance}) + EffectOf(Txs(t)')
  BY <1>new DEF Added
<1>2. Balance \in Int /\ Max({0, Balance}) \in Nat /\ Max({0, Balance}) >= Balance
  BY <1>0, BlockTyped, MaxOfZero
<1>3. \A m \in flying \cup sends :
         m \in rows \ (failed \cup finished) /\ m # 0 /\ worth[m] <= Balance /\ worth[m] \in Nat
  BY UnderWay
<1>4. ASSUME NEW tx \in Txs(t)'
      PROVE  \/ tx.kind \in Income
             \/ /\ tx.kind = "transfer" /\ tx.memo \in flying \cup sends
                /\ tx.amount = worth[tx.memo] /\ tx.memo # 0
  <2>1. tx \in TxType
    BY <1>1
  <2>2. CASE tx.kind \in Transfer
    <3>1. /\ tx.memo \in flying \cup sends /\ Possible(tx.kind, tx.memo)
          /\ tx.amount = worth[tx.memo]
      BY <1>new, <2>2 DEF Added
    <3>2. worth[tx.memo] <= Balance /\ worth[tx.memo] \in Nat /\ tx.memo # 0
      BY <1>3, <3>1
    <3>3. ~ (worth[tx.memo] > Balance)
      BY <1>2, <3>2
    <3>4. tx.kind = "transfer"
      BY <3>1, <3>3 DEF Possible
    <3> QED BY <3>1, <3>2, <3>4
  <2> QED BY <2>1, <2>2, KindsOfTx
<1>5. CASE \A tx \in Txs(t)' : tx.kind \in Income
  <2>1. EffectOf(Txs(t)') \in Nat
    BY <1>1, <1>5, EffectOfIncomes
  <2>2. Txs(t)' # {} => Balance' >= 0 /\ Balance' >= Balance
    BY <1>1, <1>2, <2>1
  <2>3. Txs(t)' = {} => Balance' = Balance
    BY <1>1
  <2> QED BY <1>2, <1>5, <2>2, <2>3
<1>6. ASSUME NEW tx \in Txs(t)', tx.kind \notin Income
      PROVE  /\ Balance' >= 0
             /\ tx.memo \in flying \cup sends
  <2>1. /\ tx.kind = "transfer" /\ tx.memo \in flying \cup sends
        /\ tx.amount = worth[tx.memo] /\ tx.memo # 0
    BY <1>4, <1>6
  <2>2. \A ty \in Txs(t)' \ {tx} : ty.kind \in Income
    <3> SUFFICES ASSUME NEW ty \in Txs(t)', ty # tx, ty.kind \notin Income PROVE FALSE
      OBVIOUS
    <3>1. ty.memo \in flying \cup sends
      BY <1>4
    <3>2. ty.memo = tx.memo
      BY <1>0, <1>3, <2>1, <3>1, OneOpen DEF OneOpenJettonSweep
    <3> QED BY <1>1, <2>1, <3>2
  <2>3. EffectOf(Txs(t)') \in Int /\ EffectOf(Txs(t)') >= - tx.amount
    BY <1>1, <2>1, <2>2, EffectOfTransfer
  <2>4. worth[tx.memo] <= Balance /\ worth[tx.memo] \in Nat
    BY <1>3, <2>1
  <2>5. Balance' = Max({0, Balance}) + EffectOf(Txs(t)')
    BY <1>1
  <2>6. Balance' >= 0
    BY <1>2, <2>1, <2>3, <2>4, <2>5
  <2> QED BY <2>1, <2>6
<1>7. CASE \E tx \in Txs(t)' : tx.kind \notin Income
  BY <1>1, <1>3, <1>4, <1>6, <1>7
<1> QED BY <1>5, <1>7

\* Every step keeps the transfers covered.
LEMMA SolventStep ==
    ASSUME Timely, Solvent, TransferFailures = {}, [Next]_vars
    PROVE  Solvent'
<1>0. Types /\ OpenIsLatest /\ Placed /\ Saved /\ Expiry /\ Tip \in Nat \ {0} /\ Balance \in Int
  BY BlockTyped DEF Timely
<1>1. ASSUME NEW utime \in 0..now, NEW sends \in SUBSET mempool,
             NEW events \in SeqOf(Events(flying \cup sends), MaxTxs), Block(utime, sends, events)
      PROVE  Solvent'
  <2>0. PICK t : t = Tip + 1
    OBVIOUS
  <2>new. Added(t, utime, sends)
    BY <1>0, <1>1, <2>0, NewBlock
  <2>1. /\ Tip' = t /\ 1..t = (1..Tip) \cup {t} /\ Balance' = chain'[t].balance
        /\ Balance' \in Int
        /\ \A b \in 1..Tip : chain'[b] = chain[b] /\ Txs(b)' = Txs(b)
        /\ flying' = (flying \cup sends) \ {tx.memo : tx \in Txs(t)'}
        /\ mempool' = mempool \ sends
        /\ UNCHANGED <<failed, worth, pc, rows, finished>>
    BY <2>new DEF Added
  <2>2. /\ \A tx \in Txs(t)' : tx.kind \in Income \cup {"transfer"}
        /\ Txs(t)' # {} => Balance' >= 0
        /\ Txs(t)' = {} => Balance' = Balance
        /\ \/ Balance' >= Balance
           \/ \E m \in flying \cup sends :
                 /\ m \in rows \ (failed \cup finished)
                 /\ \E tx \in Txs(t)' : tx.memo = m
    BY <1>1, <2>0, NewBalance
  <2>3. ASSUME NEW n \in rows \ failed, SendBlock(n) = {} \/ ~ Done(n), worth[n] <= Balance,
               \A m \in flying \cup sends : (\E tx \in Txs(t)' : tx.memo = m) => m # n
        PROVE  worth[n] <= Balance'
    <3>0. n \in Memos
      BY <1>0 DEF Types
    <3>1. n \notin finished /\ worth[n] \in Nat
      BY <1>0, <2>3, <3>0, UnfinishedUntilDone DEF Types
    <3>2. Balance' >= Balance
      BY <1>0, <2>2, <2>3, <3>1, OneOpen DEF OneOpenJettonSweep
    <3> QED BY <1>0, <2>1, <2>3, <3>1, <3>2
  <2>4. ASSUME NEW n \in (mempool' \cup flying') \ failed' PROVE worth'[n] <= Balance'
    <3>1. n \in (mempool \cup flying) \ failed /\ n \in rows
      BY <1>0, <2>1 DEF Types
    <3>2. SendBlock(n) = {} \/ ~ Done(n)
      BY <1>0, <3>1 DEF Placed
    <3>3. \A m \in flying \cup sends : (\E tx \in Txs(t)' : tx.memo = m) => m # n
      BY <1>0, <2>1 DEF Placed
    <3>4. worth[n] <= Balance
      BY <3>1 DEF Solvent
    <3> QED BY <2>1, <2>3, <3>1, <3>2, <3>3, <3>4
  <2>5. ASSUME pc' = "send", Max(rows)' \notin failed' PROVE worth'[Max(rows)'] <= Balance'
    <3>1. PICK n : n = Max(rows)
      OBVIOUS
    <3>2. pc = "send" /\ n \notin failed /\ Max(rows)' = n
      BY <2>1, <2>5, <3>1
    <3>3. n \in rows
      BY <1>0, <3>1, <3>2, MaxIsGreatest, JettonAssumption DEF Types, Memos
    <3>4. SendBlock(n) = {} /\ n \notin mempool /\ n \notin flying
      BY <1>0, <3>1, <3>2 DEF Placed
    <3>5. worth[n] <= Balance
      BY <3>1, <3>2 DEF Solvent
    <3>6. worth[n] <= Balance'
      BY <2>3, <3>2, <3>3, <3>4, <3>5
    <3> QED BY <2>1, <3>2, <3>6
  <2>6. \A b \in 1..Tip' : (chain[b].balance)' >= IF Deployed THEN 0 ELSE NotInitialized
    <3>1. Balance >= IF Deployed THEN 0 ELSE NotInitialized
      BY <2>new DEF Added, Solvent, Balance
    <3>2. Balance' >= IF Deployed THEN 0 ELSE NotInitialized
      BY <1>0, <2>1, <2>2, <3>1 DEF NotInitialized
    <3> QED BY <2>1, <3>2 DEF Solvent
  <2>7. \A b \in 1..Tip' : \A tx \in Txs(b)' : tx.kind \in Income \cup {"transfer"}
    BY <2>1, <2>2 DEF Solvent
  <2> QED BY <2>4, <2>5, <2>6, <2>7 DEF Solvent
<1>2. CASE /\ UNCHANGED <<genUtime, chain, flying, mempool, rows, worth>>
           /\ failed \subseteq failed' /\ (pc' # "send" \/ pc' = pc)
  <2>1. Tip' = Tip /\ Balance' = Balance /\ \A b : Txs(b)' = Txs(b)
    BY <1>2 DEF Tip, Txs, Balance
  <2> QED BY <1>2, <2>1 DEF Solvent
<1>3. CASE \/ ExtWaitSync \/ GetJettonInternalWithdrawalTasks \/ SkipTask \/ ExpWaitSync
           \/ SetExpired \/ SetExpiredError \/ TimePasses \/ SaveParsedBlockData \/ Feed \/ Crash \/ UNCHANGED vars
  <2>1. UNCHANGED <<genUtime, chain, flying>>
    BY <1>3, NoNewBlock
  <2>2. UNCHANGED <<mempool, rows, worth>> /\ failed \subseteq failed' /\ (pc' # "send" \/ pc' = pc)
    BY <1>3 DEF ExtWaitSync, GetJettonInternalWithdrawalTasks, SkipTask, ExpWaitSync,
       SetExpired, SetExpiredError, TimePasses,
       SaveParsedBlockData, Feed, Crash, vars, chainVars, rowVars, procVars
  <2> QED BY <1>2, <2>1, <2>2
<1>4. ASSUME NEW memo \in Memos, SaveInternalWithdrawalTask(memo) PROVE Solvent'
  <2>1. UNCHANGED <<genUtime, chain, flying>>
    BY <1>4, NoNewBlock
  <2>2. /\ memo \notin rows /\ worth' = [worth EXCEPT ![memo] = Balance]
        /\ rows' = rows \cup {memo}
        /\ UNCHANGED <<mempool, failed>> /\ \A m \in Memos : m < memo => m \in rows
    BY <1>4 DEF SaveInternalWithdrawalTask, chainVars
  <2>3. Tip' = Tip /\ Balance' = Balance /\ \A b : Txs(b)' = Txs(b)
    BY <2>1 DEF Tip, Txs, Balance
  <2>4. \A m \in mempool \cup flying : worth'[m] = worth[m]
    BY <1>0, <2>2 DEF Types
  <2>5. \A m \in Memos : worth'[m] = IF m = memo THEN Balance ELSE worth[m]
    BY <1>0, <2>2 DEF Types
  <2>6. Max(rows') = memo
    BY <1>0, <2>2, NewestRow
  <2>7. worth'[Max(rows')] <= Balance
    BY <1>0, <2>5, <2>6
  <2> QED BY <2>1, <2>2, <2>3, <2>4, <2>7 DEF Solvent
<1>5. ASSUME NEW sent \in BOOLEAN, SendExternalMessage(sent) PROVE Solvent'
  <2>1. UNCHANGED <<genUtime, chain, flying>>
    BY <1>5, NoNewBlock
  <2>2. /\ pc = "send" /\ pc' = "sync" /\ UNCHANGED <<rows, failed, worth>>
        /\ mempool' = (IF sent THEN mempool \cup {Max(rows)} ELSE mempool)
    BY <1>5 DEF SendExternalMessage, rowVars
  <2>3. Tip' = Tip /\ Balance' = Balance /\ \A b : Txs(b)' = Txs(b)
    BY <2>1 DEF Tip, Txs, Balance
  <2> QED BY <2>1, <2>2, <2>3 DEF Solvent
<1> QED BY <1>1, <1>3, <1>4, <1>5 DEF Next

\* No transfer has failed at the start.
LEMMA SolventInit == Init => Solvent
<1> SUFFICES ASSUME Init PROVE Solvent
  OBVIOUS
<1>1. /\ mempool = {} /\ flying = {} /\ pc = "sync" /\ Tip = 1 /\ chain[1].txs = <<>>
      /\ chain[1].balance = (IF Deployed THEN 0 ELSE NotInitialized)
  BY DEF Init, FeedInit, Tip
<1>2. Txs(1) = {} /\ 1..Tip = {1}
  BY <1>1 DEF Txs, ToSet
<1> QED BY <1>1, <1>2 DEF Solvent, NotInitialized

\* Where transfers fail for want of Jettons only, Timely and Solvent hold always.
LEMMA SolventAlways ==
    ASSUME TransferFailures = {}
    PROVE  TimelySpec => [](Timely /\ Solvent)
<1>1. Timely /\ Solvent /\ [Next /\ GapsAreYoung' /\ KeepsSync]_vars => (Timely /\ Solvent)'
  BY TimelyStep, SolventStep
<1> QED BY <1>1, TimelyInit, SolventInit, PTL DEF TimelySpec

\* The type invariant, and with it that no balance is below that of a wallet
\* which does not exist yet.
THEOREM JettonTyped ==
    ASSUME TransferFailures = {}
    PROVE  TimelySpec => []TypeOK
<1>1. Timely /\ Solvent => TypeOK
  <2> SUFFICES ASSUME Timely, Solvent PROVE TypeOK
    OBVIOUS
  <2>1. \A b \in 1..Tip : chain[b].balance \in Int
                          /\ chain[b].balance >= IF Deployed THEN 0 ELSE NotInitialized
    BY BlockTyped DEF Timely, Solvent
  <2>2. \A b \in 1..Tip : chain[b].balance >= NotInitialized
    BY <2>1 DEF NotInitialized
  <2> QED BY <2>2 DEF Timely, InSync, Types, TypeOK
<1> QED BY <1>1, SolventAlways, PTL

\* The amount of a row is what left the Jetton wallet, and a finished row is one
\* whose Jettons did leave, if a transfer fails only for want of Jettons.
\* isTxSuccessful takes every transfer for a success, so that this rests on
\* Solvent: the balance a transfer was built from is still there when it arrives.
THEOREM FinishedIsTrue ==
    ASSUME TransferFailures = {}
    PROVE  TimelySpec => []FinishedIsSwept
<1>1. Timely /\ Solvent => FinishedIsSwept
  <2> SUFFICES ASSUME Timely, Solvent, NEW m \in rows
               PROVE  /\ amount[m] = (IF Swept(m, blockData) # {} THEN worth[m] ELSE 0)
                      /\ m \in finished <=> Swept(m, blockData) # {}
    BY DEF FinishedIsSwept
  <2>0. /\ blockData \subseteq 1..Tip /\ m \in Memos /\ m # 0
    <3>1. Types
      BY DEF Timely
    <3>2. blockData \subseteq 1..Tip /\ m \in Memos
      BY <3>1 DEF Types, FeedTypeOK
    <3> QED BY <3>2, JettonAssumption DEF Memos
  <2>1. m \in finished <=> \E b \in blockData : \E tx \in Txs(b) : tx.memo = m
    BY <2>0 DEF Timely, Saved
  <2>2. \A b \in blockData : \A tx \in Txs(b) : tx.memo = m => tx.kind = "transfer"
    <3> SUFFICES ASSUME NEW b \in 1..Tip, NEW tx \in Txs(b), tx.memo = m
                 PROVE  tx.kind = "transfer"
      BY <2>0
    <3>1. tx.kind \in Income <=> tx.memo = 0
      BY DEF Timely, Types
    <3> QED BY <2>0, <3>1 DEF Solvent
  <2>3. Swept(m, blockData) = {b \in blockData : \E tx \in Txs(b) : tx.kind = "transfer" /\ tx.memo = m}
    BY DEF Swept, Txs, ToSet
  <2>4. m \in finished <=> Swept(m, blockData) # {}
    BY <2>1, <2>2, <2>3
  <2>5. amount[m] = (IF m \in finished THEN worth[m] ELSE 0)
    BY <2>0 DEF Timely, Saved
  <2> QED BY <2>4, <2>5
<1> QED BY <1>1, SolventAlways, PTL

----------------------------------------------------------------------------
(* The incomes                                                             *)

\* Amounts of a finite set, as a sum over a part of it.
LEMMA AmountAsSum ==
    ASSUME NEW S, IsFiniteSet(S), NEW T \in SUBSET S
    PROVE  AmountOf(T) = SumFunctionOnSet([x \in S |-> x.amount], T)
<1> DEFINE f == [x \in S |-> x.amount]
           g == [x \in T |-> x.amount]
<1>1. IsFiniteSet(T) /\ DOMAIN g = T /\ \A x \in T : g[x] = f[x]
  BY FS_Subset
<1>2. AmountOf(T) = SumFunctionOnSet(g, T)
  BY <1>1 DEF AmountOf, SumFunction
<1> HIDE DEF f, g
<1>3. SumFunctionOnSet(g, T) = SumFunctionOnSet(f, T)
  BY <1>1, SumAgree
<1> QED BY <1>2, <1>3 DEF f

\* Amounts that are natural numbers sum up to one.
LEMMA AmountTyped ==
    ASSUME NEW S, IsFiniteSet(S), \A x \in S : x.amount \in Nat
    PROVE  AmountOf(S) \in Nat
<1> DEFINE f == [x \in S |-> x.amount]
<1>1. AmountOf(S) = SumFunctionOnSet(f, S) /\ \A x \in S : f[x] \in Nat
  BY AmountAsSum
<1> HIDE DEF f
<1> QED BY <1>1, SumTyped

\* The amounts of two sets that share nothing.
LEMMA AmountUnion ==
    ASSUME NEW S, NEW T, IsFiniteSet(S), IsFiniteSet(T), S \cap T = {},
           \A x \in S \cup T : x.amount \in Nat
    PROVE  AmountOf(S \cup T) = AmountOf(S) + AmountOf(T) /\ IsFiniteSet(S \cup T)
<1> DEFINE U == S \cup T
           f == [x \in U |-> x.amount]
<1>1. IsFiniteSet(U) /\ S \in SUBSET U /\ T \in SUBSET U /\ U \in SUBSET U
  BY FS_Union
<1>2. \A x \in S \cup T : f[x] \in Int
  OBVIOUS
<1>3. /\ AmountOf(U) = SumFunctionOnSet(f, U) /\ AmountOf(S) = SumFunctionOnSet(f, S)
      /\ AmountOf(T) = SumFunctionOnSet(f, T)
  BY <1>1, AmountAsSum
<1> HIDE DEF f
<1>4. SumFunctionOnSet(f, S \cup T) = SumFunctionOnSet(f, S) + SumFunctionOnSet(f, T)
  BY <1>2, SumUnion
<1> QED BY <1>1, <1>3, <1>4

\* One of the amounts is no more than all of them.
LEMMA AmountCovers ==
    ASSUME NEW S, IsFiniteSet(S), \A x \in S : x.amount \in Nat, NEW y \in S
    PROVE  AmountOf(S) >= y.amount
<1> DEFINE f == [x \in S |-> x.amount]
           T == S \ {y}
<1>1. \A x \in S : f[x] \in Int
  OBVIOUS
<1>2. T \in SUBSET S /\ S \in SUBSET S /\ IsFiniteSet(T) /\ f[y] = y.amount /\ y.amount \in Nat
      /\ \A x \in T : x.amount \in Nat
  BY FS_Subset
<1>3. AmountOf(S) = SumFunctionOnSet(f, S) /\ AmountOf(T) = SumFunctionOnSet(f, T)
  BY <1>2, AmountAsSum
<1> HIDE DEF f
<1>4. SumFunctionOnSet(f, S) = f[y] + SumFunctionOnSet(f, T)
  BY <1>1, SumRemove
<1> HIDE DEF T
<1>5. AmountOf(T) \in Nat
  BY <1>2, AmountTyped
<1> QED BY <1>2, <1>3, <1>4, <1>5

\* What transactions do to the balance: the incomes less the transfers.
LEMMA EffectIsDifference ==
    ASSUME NEW S \in SUBSET TxType, IsFiniteSet(S),
           \A tx \in S : tx.kind \in Income \cup {"transfer"},
           NEW I, NEW W, I = {tx \in S : tx.kind \in Income}, W = {tx \in S : tx.kind \in Transfer}
    PROVE  /\ EffectOf(S) = AmountOf(I) - AmountOf(W)
           /\ AmountOf(I) \in Nat /\ AmountOf(W) \in Nat
<1> DEFINE e == [tx \in S |-> Effect(tx)]
           a == [tx \in S |-> tx.amount]
<1>1. /\ I \in SUBSET S /\ W \in SUBSET S /\ S \in SUBSET S
      /\ IsFiniteSet(I) /\ IsFiniteSet(W) /\ I \cap W = {} /\ S = I \cup W
  BY FS_Subset, KindsOfTx
<1>2. \A tx \in S : tx.amount \in Nat
  BY KindsOfTx
<1>3. AmountOf(I) \in Nat /\ AmountOf(W) \in Nat
  BY <1>1, <1>2, AmountTyped
<1>4. /\ EffectOf(S) = SumFunctionOnSet(e, S)
      /\ AmountOf(I) = SumFunctionOnSet(a, I) /\ AmountOf(W) = SumFunctionOnSet(a, W)
  BY <1>1, EffectAsSum, AmountAsSum
<1>5. \A tx \in I \cup W : e[tx] \in Int
  BY <1>1, KindsOfTx
<1>6. \A tx \in I : e[tx] = a[tx]
  BY <1>1, KindsOfTx
<1>7. \A tx \in W : a[tx] \in Int /\ e[tx] \in Int /\ a[tx] + e[tx] = 0
  <2> SUFFICES ASSUME NEW tx \in W PROVE a[tx] \in Int /\ e[tx] \in Int /\ a[tx] + e[tx] = 0
    OBVIOUS
  <2>1. tx \in S /\ tx.kind = "transfer"
    BY <1>1, KindsOfTx
  <2>2. Effect(tx) = - tx.amount /\ tx.amount \in Nat
    BY <2>1, KindsOfTx
  <2>3. a[tx] = tx.amount /\ e[tx] = Effect(tx)
    BY <2>1
  <2> QED BY <2>2, <2>3
<1> HIDE DEF e, a
<1>8. SumFunctionOnSet(e, I \cup W) = SumFunctionOnSet(e, I) + SumFunctionOnSet(e, W)
  BY <1>1, <1>5, SumUnion
<1>9. SumFunctionOnSet(e, I) = SumFunctionOnSet(a, I)
  BY <1>1, <1>6, SumAgree
<1>10. SumFunctionOnSet(a, W) + SumFunctionOnSet(e, W) = 0
  BY <1>1, <1>7, SumNegative
<1>11. SumFunctionOnSet(e, W) \in Int
  <2>1. \A tx \in W : e[tx] \in Int
    BY <1>7
  <2> QED BY <1>1, <2>1, SumTyped
<1> DEFINE q == SumFunctionOnSet(e, W)
<1>12. EffectOf(S) = AmountOf(I) + q /\ AmountOf(W) + q = 0 /\ q \in Int
  BY <1>1, <1>4, <1>8, <1>9, <1>10, <1>11
<1> HIDE DEF q
<1> QED BY <1>3, <1>12

\* A notification keeps the amount of its transaction, and no two are the same.
LEMMA NotifiedAmounts ==
    ASSUME NEW K \in SUBSET TxType, IsFiniteSet(K),
           \A tx, ty \in K : tx = ty \/ tx.lt + 2 <= ty.lt \/ ty.lt + 2 <= tx.lt,
           NEW A, A = {[lt |-> tx.lt + 1, amount |-> tx.amount] : tx \in K}
    PROVE  IsFiniteSet(A) /\ AmountOf(A) = AmountOf(K) /\ \A i \in A : i.amount \in Nat
<1> DEFINE f == [tx \in K |-> tx.amount]
           g == [i \in A |-> i.amount]
           h == [tx \in K |-> [lt |-> tx.lt + 1, amount |-> tx.amount]]
<1>1. \A tx \in K : tx.amount \in Nat /\ tx.lt \in Nat
  BY KindsOfTx
<1>2. A = {h[tx] : tx \in K}
  OBVIOUS
<1>3. \A tx \in K : f[tx] \in Int
  BY <1>1
<1>3a. \A tx \in K : g[h[tx]] = f[tx]
  <2> SUFFICES ASSUME NEW tx \in K PROVE g[h[tx]] = f[tx]
    OBVIOUS
  <2>1. h[tx] \in A /\ h[tx].amount = tx.amount
    OBVIOUS
  <2>2. g[h[tx]] = h[tx].amount
    <3> HIDE DEF h
    <3> QED BY <2>1
  <2> QED BY <2>1, <2>2
<1>4. \A tx, ty \in K : h[tx] = h[ty] => tx = ty
  <2> SUFFICES ASSUME NEW tx \in K, NEW ty \in K, h[tx] = h[ty] PROVE tx = ty
    OBVIOUS
  <2>1. tx.lt + 1 = ty.lt + 1 /\ tx.lt \in Nat /\ ty.lt \in Nat
    <3>1. h[tx].lt = tx.lt + 1 /\ h[ty].lt = ty.lt + 1
      OBVIOUS
    <3> QED BY <1>1, <3>1
  <2>2. ~ (tx.lt + 2 <= ty.lt) /\ ~ (ty.lt + 2 <= tx.lt)
    BY <2>1
  <2> QED BY <2>2
<1>5. \A i \in A : i.amount \in Nat
  BY <1>1
<1>6. AmountOf(K) = SumFunctionOnSet(f, K)
  BY AmountAsSum
<1>7. IsFiniteSet(A) => AmountOf(A) = SumFunctionOnSet(g, A)
  BY AmountAsSum
<1> HIDE DEF f, g, h
<1>8. IsFiniteSet(A) /\ SumFunctionOnSet(g, A) = SumFunctionOnSet(f, K)
  <2>1. /\ IsFiniteSet({h[tx] : tx \in K})
        /\ SumFunctionOnSet(g, {h[tx] : tx \in K}) = SumFunctionOnSet(f, K)
    BY <1>3, <1>4, <1>3a, SumReindex
  <2> QED BY <1>2, <2>1
<1> QED BY <1>5, <1>6, <1>7, <1>8

\* The rows without an amount add nothing.
LEMMA EmptyAmounts ==
    ASSUME NEW S, IsFiniteSet(S), NEW Z, Z = {[lt |-> tx.lt, amount |-> 0] : tx \in S}
    PROVE  IsFiniteSet(Z) /\ AmountOf(Z) = 0 /\ \A i \in Z : i.amount = 0
<1> DEFINE h == [tx \in S |-> [lt |-> tx.lt, amount |-> 0]]
           g == [i \in Z |-> i.amount]
<1>1. h \in Surjection(S, Z)
  BY DEF Surjection
<1>2. \A i \in Z : g[i] = 0 /\ i.amount = 0
  OBVIOUS
<1>3. IsFiniteSet(Z)
  <2> HIDE DEF h
  <2> QED BY <1>1, FS_Surjection
<1>4. AmountOf(Z) = SumFunctionOnSet(g, Z)
  BY <1>3, AmountAsSum
<1> HIDE DEF g
<1> QED BY <1>2, <1>3, <1>4, SumZero

\* What the scanner makes of a block: the amount it cannot explain is that of
\* the incomes without a notification, and the rows it writes add up to what
\* came in.
LEMMA IncomesOfBlock ==
    ASSUME Types, Solvent, Spaced, Books, NEW b \in 2..Tip, ~ Unreadable(b),
           NEW U, U = {tx \in Txs(b) : tx.kind = "silent"}
    PROVE  /\ calculateJettonAmounts(b) = AmountOf(U) /\ IsFiniteSet(U)
           /\ IsFiniteSet(ExternalIncomes(b))
           /\ \A i \in ExternalIncomes(b) : i.amount \in Nat
           /\ AmountOf(ExternalIncomes(b)) = AmountOf(IncomesIn(chain[b].txs))
<1> DEFINE S == Txs(b)
           K == KnownIncomes(chain[b].txs)
           I == IncomesIn(chain[b].txs)
           W == Withdrawals(chain[b].txs)
           A == {[lt |-> tx.lt + 1, amount |-> tx.amount] : tx \in K}
           u == calculateJettonAmounts(b)
<1>0. b \in 1..Tip /\ b - 1 \in 1..Tip
  BY BlockTyped
<1>1. /\ S \subseteq TxType /\ IsFiniteSet(S)
      /\ chain[b].balance \in Int /\ chain[b - 1].balance \in Int
      /\ \A tx \in S : tx.kind \in Income \cup {"transfer"}
  BY <1>0, BlockTyped DEF Solvent
<1>2. /\ K = {tx \in S : tx.kind = "notified"} /\ I = {tx \in S : tx.kind \in Income}
      /\ W = {tx \in S : tx.kind \in Transfer}
  BY DEF KnownIncomes, IncomesIn, Withdrawals, isTxSuccessful, Txs, Income
<1>3. /\ I = K \cup U /\ K \cap U = {} /\ K \subseteq S /\ U \subseteq S
      /\ IsFiniteSet(K) /\ IsFiniteSet(U) /\ \A tx \in K \cup U : tx.amount \in Nat
  <2>1. I = K \cup U /\ K \cap U = {} /\ K \subseteq S /\ U \subseteq S
    BY <1>2 DEF Income
  <2>2. \A tx \in S : tx.amount \in Nat
    BY <1>1, KindsOfTx
  <2> HIDE DEF K, S
  <2> QED BY <1>1, <2>1, <2>2, FS_Subset
<1>4. EffectOf(S) = AmountOf(I) - AmountOf(W) /\ AmountOf(I) \in Nat /\ AmountOf(W) \in Nat
  <2> HIDE DEF S, I, W
  <2> QED BY <1>1, <1>2, EffectIsDifference
<1>5. AmountOf(I) = AmountOf(K) + AmountOf(U) /\ AmountOf(K) \in Nat /\ AmountOf(U) \in Nat
  <2> HIDE DEF K, I
  <2>1. AmountOf(K \cup U) = AmountOf(K) + AmountOf(U)
    BY <1>3, AmountUnion
  <2> QED BY <1>3, <2>1, AmountTyped
<1>6. chain[b].balance - chain[b - 1].balance = AmountOf(I) - AmountOf(W)
  <2>1. CASE S = {}
    <3>1. chain[b].balance = chain[b - 1].balance
      BY <2>1 DEF Types
    <3>2. I = {} /\ W = {}
      BY <1>2, <2>1
    <3>3. AmountOf(I) = 0 /\ AmountOf(W) = 0
      <4> HIDE DEF I, W
      <4> QED BY <3>2, NoAmount
    <3> QED BY <1>1, <3>1, <3>3
  <2>2. CASE S # {}
    <3>1. chain[b].txs # <<>>
      BY <2>2 DEF Txs, ToSet
    <3>2. chain[b - 1].balance >= 0
      <4>1. chain[b - 1].balance # NotInitialized
        BY <3>1 DEF Unreadable
      <4>2. chain[b - 1].balance >= IF Deployed THEN 0 ELSE NotInitialized
        BY <1>0 DEF Solvent
      <4> QED BY <1>1, <4>1, <4>2 DEF NotInitialized
    <3>3. chain[b].balance = Max({0, chain[b - 1].balance}) + EffectOf(S)
      BY <2>2 DEF Books
    <3>4. Max({0, chain[b - 1].balance}) = chain[b - 1].balance
      BY <1>1, <3>2, MaxOfZero
    <3> HIDE DEF S, I, W
    <3> QED BY <1>1, <1>4, <3>3, <3>4
  <2> QED BY <2>1, <2>2
<1>7. u = AmountOf(U)
  <2>1. u = (chain[b].balance - chain[b - 1].balance) + AmountOf(W) - AmountOf(K)
    BY DEF calculateJettonAmounts
  <2> HIDE DEF u, I, K, W
  <2> QED BY <1>4, <1>5, <1>6, <2>1
<1>8. IsFiniteSet(A) /\ AmountOf(A) = AmountOf(K) /\ \A i \in A : i.amount \in Nat
  <2>1. \A tx, ty \in K : tx = ty \/ tx.lt + 2 <= ty.lt \/ ty.lt + 2 <= tx.lt
    BY <1>0, <1>3 DEF Spaced
  <2>2. K \in SUBSET TxType
    BY <1>1, <1>3
  <2> HIDE DEF K
  <2> QED BY <1>3, <2>1, <2>2, NotifiedAmounts
<1>9. CASE ~ (u > 0)
  <2>1. ExternalIncomes(b) = A
    BY <1>9 DEF ExternalIncomes
  <2>2. AmountOf(U) = 0
    <3> HIDE DEF u
    <3> QED BY <1>5, <1>7, <1>9
  <2> HIDE DEF u, A, K, I
  <2>3. AmountOf(A) = AmountOf(I)
    BY <1>5, <1>8, <2>2
  <2> QED BY <1>3, <1>7, <1>8, <2>1, <2>3 DEF u, I
<1>10. CASE u > 0
  <2>0. S # {}
    <3> SUFFICES ASSUME S = {} PROVE FALSE
      OBVIOUS
    <3>1. u = 0
      BY NothingUnknown
    <3> HIDE DEF u
    <3> QED BY <1>10, <3>1
  <2>1. PICK first \in S :
           convertUnknownJettonTxs(chain[b].txs, u)
             = {[lt |-> tx.lt, amount |-> 0] : tx \in S} \cup {[lt |-> first.lt, amount |-> u]}
    BY <1>0, <2>0, ConvertUnknown
  <2> DEFINE Z == {[lt |-> tx.lt, amount |-> 0] : tx \in S}
             o == [lt |-> first.lt, amount |-> u]
  <2>2. ExternalIncomes(b) = A \cup (Z \cup {o})
    <3> HIDE DEF K
    <3> QED BY <1>10, <2>1 DEF ExternalIncomes, K
  <2>3. IsFiniteSet(Z) /\ AmountOf(Z) = 0 /\ \A i \in Z : i.amount = 0
    <3> HIDE DEF S
    <3> QED BY <1>1, EmptyAmounts
  <2>4. o.amount = u /\ u \in Nat /\ u # 0 /\ o.lt = first.lt
    <3>1. u \in Nat /\ u # 0
      <4> HIDE DEF u
      <4> QED BY <1>5, <1>7, <1>10
    <3> QED BY <3>1
  <2>5. A \cap (Z \cup {o}) = {}
    <3> SUFFICES ASSUME NEW x \in K, NEW y \in S, x.lt + 1 = y.lt PROVE FALSE
      <4>1. \A i \in Z \cup {o} : \E y \in S : i.lt = y.lt
        OBVIOUS
      <4>2. \A i \in A : \E x \in K : i.lt = x.lt + 1
        OBVIOUS
      <4> HIDE DEF A, Z, o, S, K
      <4> QED BY <4>1, <4>2
    <3>1. x \in S /\ x.lt \in Nat /\ y.lt \in Nat
      BY <1>1, <1>3, KindsOfTx
    <3>2. x = y \/ x.lt + 2 <= y.lt \/ y.lt + 2 <= x.lt
      BY <1>0, <3>1 DEF Spaced
    <3> HIDE DEF S, K
    <3>3. CASE x = y
      BY <3>1, <3>3
    <3> QED BY <3>1, <3>2, <3>3
  <2> HIDE DEF o, Z, A, u, K, I, S
  <2>6. o \notin Z
    BY <2>3, <2>4
  <2>7. IsFiniteSet({o}) /\ AmountOf({o}) = u
    <3>1. IsFiniteSet({o})
      BY FS_Singleton
    <3> DEFINE f == [x \in {o} |-> x.amount]
    <3>2. AmountOf({o}) = SumFunctionOnSet(f, {o}) /\ f[o] = u
      BY <2>4, <3>1, AmountAsSum
    <3> HIDE DEF f
    <3>3. \A y \in {o} : f[y] \in Int
      BY <2>4, <3>2
    <3>4. SumFunctionOnSet(f, {o}) = f[o] + SumFunctionOnSet(f, {o} \ {o})
      BY <3>1, <3>3, SumRemove
    <3>5. {o} \ {o} = {}
      OBVIOUS
    <3>6. SumFunctionOnSet(f, {o}) = u + 0
      BY <3>2, <3>4, <3>5, SumEmpty
    <3> QED BY <2>4, <3>1, <3>2, <3>6
  <2>8. AmountOf(Z \cup {o}) = u /\ IsFiniteSet(Z \cup {o}) /\ \A i \in Z \cup {o} : i.amount \in Nat
    <3>1. Z \cap {o} = {} /\ \A i \in Z \cup {o} : i.amount \in Nat
      BY <2>3, <2>4, <2>6
    <3>2. AmountOf(Z \cup {o}) = AmountOf(Z) + AmountOf({o}) /\ IsFiniteSet(Z \cup {o})
      BY <2>3, <2>7, <3>1, AmountUnion
    <3> QED BY <2>3, <2>4, <2>7, <3>1, <3>2
  <2>9. /\ AmountOf(A \cup (Z \cup {o})) = AmountOf(A) + AmountOf(Z \cup {o})
        /\ IsFiniteSet(A \cup (Z \cup {o}))
    <3>1. \A i \in A \cup (Z \cup {o}) : i.amount \in Nat
      BY <1>8, <2>8
    <3> DEFINE Y == Z \cup {o}
    <3> HIDE DEF Y
    <3>2. AmountOf(A \cup Y) = AmountOf(A) + AmountOf(Y) /\ IsFiniteSet(A \cup Y)
      BY <1>8, <2>5, <2>8, <3>1, AmountUnion DEF Y
    <3> QED BY <3>2 DEF Y
  <2>10. AmountOf(ExternalIncomes(b)) = AmountOf(I)
    BY <1>5, <1>7, <1>8, <2>2, <2>8, <2>9
  <2>11. \A i \in ExternalIncomes(b) : i.amount \in Nat
    BY <1>8, <2>2, <2>8
  <2> QED BY <1>3, <1>7, <2>2, <2>9, <2>10, <2>11 DEF u, I
<1> QED BY <1>9, <1>10

\* Every step keeps the transactions apart.
LEMMA SpacedStep ==
    ASSUME Types, Spaced, [Next]_vars
    PROVE  Spaced'
<1>1. ASSUME NEW utime \in 0..now, NEW sends \in SUBSET mempool,
             NEW events \in SeqOf(Events(flying \cup sends), MaxTxs), Block(utime, sends, events)
      PROVE  Spaced'
  <2>0. PICK t : t = Tip + 1
    OBVIOUS
  <2>new. Added(t, utime, sends)
    BY <1>1, <2>0, NewBlock
  <2>1. /\ Tip' = t /\ 1..t = (1..Tip) \cup {t} /\ \A b \in 1..Tip : Txs(b)' = Txs(b)
        /\ \A tx, ty \in Txs(t)' : tx = ty \/ tx.lt + 2 <= ty.lt \/ ty.lt + 2 <= tx.lt
        /\ \A tx \in Txs(t)' : tx \in TxType /\ tx.lt >= lt + 2
    BY <2>new DEF Added
  <2>2. ASSUME NEW b \in 1..Tip, NEW tx \in Txs(b), NEW ty \in Txs(t)'
        PROVE  tx.lt + 2 <= ty.lt
    <3>1. lt \in Nat /\ tx.lt \in 1..lt /\ ty.lt \in Nat /\ ty.lt >= lt + 2
      BY <2>1, KindsOfTx DEF Types
    <3> QED BY <3>1
  <2> SUFFICES ASSUME NEW b \in 1..t, NEW c \in 1..t, NEW tx \in Txs(b)', NEW ty \in Txs(c)'
               PROVE  \/ b = c /\ tx = ty
                      \/ tx.lt + 2 <= ty.lt \/ ty.lt + 2 <= tx.lt
    BY <2>1 DEF Spaced
  <2>3. CASE b \in 1..Tip /\ c \in 1..Tip
    BY <2>1, <2>3 DEF Spaced
  <2>4. CASE b \in 1..Tip /\ c = t
    BY <2>1, <2>2, <2>4
  <2>5. CASE b = t /\ c \in 1..Tip
    BY <2>1, <2>2, <2>5
  <2>6. CASE b = t /\ c = t
    BY <2>1, <2>6
  <2> QED BY <2>1, <2>3, <2>4, <2>5, <2>6
<1>2. CASE UNCHANGED Tip /\ \A b : UNCHANGED Txs(b)
  BY <1>2 DEF Spaced
<1> QED BY <1>1, <1>2, NoNewBlock DEF Next

\* Every step keeps the books.
LEMMA BooksStep ==
    ASSUME Types, Solvent, Spaced, Books, [Next]_vars
    PROVE  Books'
<1>0. Tip \in Nat \ {0} /\ blockData \subseteq 1..Tip
  BY BlockTyped DEF Types, FeedTypeOK
<1>1. ASSUME NEW utime \in 0..now, NEW sends \in SUBSET mempool,
             NEW events \in SeqOf(Events(flying \cup sends), MaxTxs), Block(utime, sends, events)
      PROVE  Books'
  <2>0. PICK t : t = Tip + 1
    OBVIOUS
  <2>new. Added(t, utime, sends)
    BY <1>1, <2>0, NewBlock
  <2>1. /\ Tip' = t /\ 1..t = (1..Tip) \cup {t} /\ Tip \in 1..Tip
        /\ \A b \in 1..Tip : chain'[b] = chain[b] /\ Txs(b)' = Txs(b)
        /\ \A tx \in Txs(t)' : tx.kind \in Income => tx.amount = 1
        /\ Txs(t)' # {} => chain'[t].balance = Max({0, Balance}) + EffectOf(Txs(t)')
        /\ UNCHANGED <<blockData, incomes>>
    BY <2>new DEF Added
  <2>2. Received(blockData)' = Received(blockData)
    BY <1>0, <2>1 DEF Received
  <2>3. \A b \in 1..Tip' : \A tx \in IncomesIn(chain[b].txs)' : tx.amount = 1
    <3>1. \A tx \in IncomesIn(chain[t].txs)' : tx.amount = 1
      BY <2>1 DEF IncomesIn, Txs
    <3> QED BY <2>1, <3>1 DEF Books
  <2>4. ASSUME NEW b \in 2..Tip', Txs(b)' # {}
        PROVE  (chain[b].balance)' = Max({0, (chain[b - 1].balance)'}) + EffectOf(Txs(b)')
    <3>0. b - 1 \in 1..Tip /\ (b = t \/ b \in 2..Tip)
      BY <1>0, <2>0, <2>1
    <3>1. CASE b \in 2..Tip
      <4>1. b \in 1..Tip
        BY <1>0, <3>1
      <4>2. chain[b].balance = Max({0, chain[b - 1].balance}) + EffectOf(Txs(b))
        BY <2>1, <2>4, <3>1, <4>1 DEF Books
      <4> QED BY <2>1, <3>0, <4>1, <4>2
    <3>2. CASE b = t
      <4>1. b - 1 = Tip
        BY <1>0, <2>0, <3>2
      <4>2. chain'[b - 1].balance = Balance
        BY <2>1, <4>1 DEF Balance
      <4> QED BY <2>1, <2>4, <3>2, <4>2
    <3> QED BY <3>0, <3>1, <3>2
  <2>5. /\ IsFiniteSet(incomes') /\ IsFiniteSet(Received(blockData)') /\ IncomesAreReal'
        /\ \A i \in incomes' :
              /\ i.amount \in Nat
              /\ \E b \in blockData' : \E tx \in Txs(b)' : i.lt \in {tx.lt, tx.lt + 1}
    BY <1>0, <2>1, <2>2 DEF Books, IncomesAreReal
  <2>6. \A b \in 2..Tip' : Txs(b)' # {} =>
           (chain[b].balance)' = Max({0, (chain[b - 1].balance)'}) + EffectOf(Txs(b)')
    BY <2>4
  <2> QED BY <2>3, <2>5, <2>6 DEF Books
<1>2. CASE UNCHANGED <<genUtime, chain, blockData, incomes>>
  <2>1. Tip' = Tip /\ \A b : Txs(b)' = Txs(b)
    BY <1>2 DEF Tip, Txs
  <2>2. Received(blockData)' = Received(blockData)
    BY <1>2 DEF Received
  <2> QED BY <1>2, <2>1, <2>2 DEF Books, IncomesAreReal
<1>3. CASE \/ ExtWaitSync \/ GetJettonInternalWithdrawalTasks \/ SkipTask \/ ExpWaitSync
           \/ SetExpired \/ SetExpiredError \/ TimePasses \/ Feed \/ Crash \/ \E sent \in BOOLEAN : SendExternalMessage(sent)
           \/ \E memo \in Memos : SaveInternalWithdrawalTask(memo)
           \/ UNCHANGED vars
  <2>1. UNCHANGED <<genUtime, chain>>
    BY <1>3, NoNewBlock
  <2>2. UNCHANGED <<blockData, incomes>>
    BY <1>3 DEF ExtWaitSync, GetJettonInternalWithdrawalTasks, SkipTask, ExpWaitSync,
       SetExpired, SetExpiredError, TimePasses,
       Tick, Feed, TrackerPoll, TrackerSend, TrackerFetchError, ScanError, ScanDone, Crash,
       Restart, SendExternalMessage, SaveInternalWithdrawalTask, vars, feedVars, rowVars
  <2> QED BY <1>2, <2>1, <2>2
<1>4. CASE SaveParsedBlockData /\ ~ Commits
  <2>1. UNCHANGED <<genUtime, chain>>
    BY <1>4, NoNewBlock
  <2> QED BY <1>2, <1>4, <2>1 DEF SaveParsedBlockData, ScanDone
<1>5. CASE SaveParsedBlockData /\ Commits
  <2>0. UNCHANGED <<genUtime, chain>> /\ Tip' = Tip /\ \A b : Txs(b)' = Txs(b)
    BY <1>5, NoNewBlock
  <2>s. PICK s : s = scanning
    OBVIOUS
  <2>1. /\ s \in 1..Tip /\ s \in 2..Tip /\ s \notin blockData
        /\ blockData' = blockData \cup {s} /\ incomes' = incomes \cup ExternalIncomes(s)
        /\ ~ Unreadable(s)
    BY <1>5, <2>s, SavedBlock DEF Commits
  <2> DEFINE R == Received(blockData)
             N == IncomesIn(chain[s].txs)
             E == ExternalIncomes(s)
  <2>2. IsFiniteSet(E) /\ (\A i \in E : i.amount \in Nat) /\ AmountOf(E) = AmountOf(N)
    <3>1. PICK U : U = {tx \in Txs(s) : tx.kind = "silent"}
      OBVIOUS
    <3> QED BY <2>1, <3>1, IncomesOfBlock
  <2>3. \A i \in E : \E tx \in Txs(s) : i.lt \in {tx.lt, tx.lt + 1}
    BY <2>1, IncomesOfTxs
  <2>4. \A b \in blockData : \A tx \in Txs(b), ty \in Txs(s) :
           /\ tx.lt \in Nat /\ ty.lt \in Nat /\ tx # ty
           /\ tx.lt + 2 <= ty.lt \/ ty.lt + 2 <= tx.lt
    <3> SUFFICES ASSUME NEW b \in blockData, NEW tx \in Txs(b), NEW ty \in Txs(s)
                 PROVE  /\ tx.lt \in Nat /\ ty.lt \in Nat /\ tx # ty
                        /\ tx.lt + 2 <= ty.lt \/ ty.lt + 2 <= tx.lt
      OBVIOUS
    <3>1. b \in 1..Tip /\ b # s
      BY <1>0, <2>1
    <3>2. tx.lt + 2 <= ty.lt \/ ty.lt + 2 <= tx.lt
      BY <2>1, <3>1 DEF Spaced
    <3>3. tx.lt \in Nat /\ ty.lt \in Nat
      BY <2>1, <3>1, BlockTyped, KindsOfTx
    <3>4. tx.lt # ty.lt
      BY <3>2, <3>3
    <3> QED BY <3>2, <3>3, <3>4
  <2>5. incomes \cap E = {}
    <3> SUFFICES ASSUME NEW i \in incomes, i \in E PROVE FALSE
      OBVIOUS
    <3>1. PICK b \in blockData : \E tx \in Txs(b) : i.lt \in {tx.lt, tx.lt + 1}
      BY DEF Books
    <3>2. PICK tx \in Txs(b) : i.lt \in {tx.lt, tx.lt + 1}
      BY <3>1
    <3>3. PICK ty \in Txs(s) : i.lt \in {ty.lt, ty.lt + 1}
      BY <2>3
    <3>4. tx.lt \in Nat /\ ty.lt \in Nat /\ (tx.lt + 2 <= ty.lt \/ ty.lt + 2 <= tx.lt)
      BY <2>4
    <3> HIDE DEF E
    <3> QED BY <3>2, <3>3, <3>4
  <2>6. /\ R \cap N = {} /\ IsFiniteSet(N) /\ \A tx \in R \cup N : tx.amount \in Nat
    <3>1. \A tx \in R : \E b \in blockData : tx \in Txs(b)
      BY DEF Received, IncomesIn, Txs
    <3>2. N \subseteq Txs(s)
      BY DEF IncomesIn, Txs
    <3>3. IsFiniteSet(N)
      <4> HIDE DEF N
      <4> QED BY <2>1, <3>2, BlockTyped, FS_Subset
    <3>4. \A b \in 1..Tip : \A tx \in Txs(b) : tx.amount \in Nat
      BY BlockTyped, KindsOfTx
    <3> HIDE DEF R, N
    <3> QED BY <1>0, <2>1, <2>4, <3>1, <3>2, <3>3, <3>4
  <2>7. Received(blockData)' = R \cup N
    BY <2>0, <2>1 DEF Received
  <2>8. IsFiniteSet(R) /\ IsFiniteSet(incomes) /\ AmountOf(incomes) = AmountOf(R)
        /\ \A i \in incomes : i.amount \in Nat
    BY DEF Books, IncomesAreReal
  <2> HIDE DEF R, N, E
  <2>9. AmountOf(incomes \cup E) = AmountOf(incomes) + AmountOf(E) /\ IsFiniteSet(incomes \cup E)
    <3>1. \A i \in incomes \cup E : i.amount \in Nat
      BY <2>2, <2>8
    <3> QED BY <2>2, <2>5, <2>8, <3>1, AmountUnion
  <2>10. AmountOf(R \cup N) = AmountOf(R) + AmountOf(N) /\ IsFiniteSet(R \cup N)
    BY <2>6, <2>8, AmountUnion
  <2>11. incomes' = incomes \cup E
    BY <2>1 DEF E
  <2>12. IsFiniteSet(incomes') /\ IsFiniteSet(Received(blockData)') /\ IncomesAreReal'
    BY <2>2, <2>7, <2>8, <2>9, <2>10, <2>11 DEF IncomesAreReal
  <2>13. \A i \in incomes' :
            /\ i.amount \in Nat
            /\ \E b \in blockData' : \E tx \in Txs(b)' : i.lt \in {tx.lt, tx.lt + 1}
    BY <2>0, <2>1, <2>2, <2>3, <2>11 DEF Books
  <2> QED BY <2>0, <2>12, <2>13 DEF Books
<1> QED BY <1>1, <1>3, <1>4, <1>5 DEF Next

\* the invariant of the runs in which transfers fail for want of Jettons only
Sound == Timely /\ Solvent /\ Spaced /\ Books

\* Sound holds in every state.
LEMMA SoundAlways ==
    ASSUME TransferFailures = {}
    PROVE  TimelySpec => []Sound
<1>1. Init => Spaced /\ Books
  <2> SUFFICES ASSUME Init PROVE Spaced /\ Books
    OBVIOUS
  <2>1. Tip = 1 /\ chain[1].txs = <<>> /\ blockData = {1} /\ incomes = {}
    BY DEF Init, FeedInit, Tip
  <2>2. 1..Tip = {1} /\ 2..Tip = {} /\ Txs(1) = {} /\ IncomesIn(chain[1].txs) = {}
    BY <2>1 DEF Txs, IncomesIn, ToSet
  <2>3. Received(blockData) = {}
    BY <2>1, <2>2 DEF Received
  <2>4. IsFiniteSet({})
    BY FS_EmptySet
  <2> QED BY <2>1, <2>2, <2>3, <2>4 DEF Spaced, Books, IncomesAreReal
<1>2. Sound /\ [Next /\ GapsAreYoung' /\ KeepsSync]_vars => Sound'
  <2> SUFFICES ASSUME Sound, [Next /\ GapsAreYoung' /\ KeepsSync]_vars PROVE Sound'
    OBVIOUS
  <2>1. Types /\ Timely /\ Solvent /\ Spaced /\ Books /\ [Next]_vars
    BY DEF Sound, Timely
  <2> QED BY <2>1, TimelyStep, SolventStep, SpacedStep, BooksStep DEF Sound
<1> QED BY <1>1, <1>2, TimelyInit, SolventInit, PTL DEF TimelySpec, Sound

\* The incomes in the tables add up to the Jettons that came in with the saved
\* blocks, whatever the order in which blocks are saved, with any mixture of
\* notified and silent payments and a sweep in one block, if no transfer fails
\* but for want of Jettons.
THEOREM IncomesAddUp ==
    ASSUME TransferFailures = {}
    PROVE  TimelySpec => []IncomesAreReal
<1>1. Sound => IncomesAreReal
  BY DEF Sound, Books
<1> QED BY <1>1, SoundAlways, PTL

----------------------------------------------------------------------------
(* Nothing is stranded                                                     *)

\* Every step keeps the incomes of the saved blocks recorded.
LEMMA RecordedStep ==
    ASSUME Sound, Recorded, [Next]_vars
    PROVE  Recorded'
<1>0. Types /\ Solvent /\ Spaced /\ Books /\ blockData \subseteq 1..Tip
  BY DEF Sound, Timely, Types, FeedTypeOK
<1>1. ASSUME NEW utime \in 0..now, NEW sends \in SUBSET mempool,
             NEW events \in SeqOf(Events(flying \cup sends), MaxTxs), Block(utime, sends, events)
      PROVE  Recorded'
  <2>0. PICK t : t = Tip + 1
    OBVIOUS
  <2>new. Added(t, utime, sends)
    BY <1>0, <1>1, <2>0, NewBlock
  <2>1. (\A b \in blockData : chain'[b] = chain[b]) /\ UNCHANGED <<blockData, incomes>>
    BY <1>0, <2>new DEF Added
  <2> QED BY <2>1 DEF Recorded
<1>2. CASE UNCHANGED <<chain, blockData, incomes>>
  BY <1>2 DEF Recorded
<1>3. CASE \/ ExtWaitSync \/ GetJettonInternalWithdrawalTasks \/ SkipTask \/ ExpWaitSync
           \/ SetExpired \/ SetExpiredError \/ TimePasses \/ Feed \/ Crash \/ \E sent \in BOOLEAN : SendExternalMessage(sent)
           \/ \E memo \in Memos : SaveInternalWithdrawalTask(memo)
           \/ UNCHANGED vars
  <2>1. UNCHANGED chain
    BY <1>3, NoNewBlock
  <2>2. UNCHANGED <<blockData, incomes>>
    BY <1>3 DEF ExtWaitSync, GetJettonInternalWithdrawalTasks, SkipTask, ExpWaitSync,
       SetExpired, SetExpiredError, TimePasses,
       Tick, Feed, TrackerPoll, TrackerSend, TrackerFetchError, ScanError, ScanDone, Crash,
       Restart, SendExternalMessage, SaveInternalWithdrawalTask, vars, feedVars, rowVars
  <2> QED BY <1>2, <2>1, <2>2
<1>4. CASE SaveParsedBlockData /\ ~ Commits
  <2>1. UNCHANGED chain
    BY <1>4, NoNewBlock
  <2> QED BY <1>2, <1>4, <2>1 DEF SaveParsedBlockData, ScanDone
<1>5. CASE SaveParsedBlockData /\ Commits
  <2>0. UNCHANGED chain
    BY <1>5, NoNewBlock
  <2>s. PICK s : s = scanning
    OBVIOUS
  <2>1. /\ s \in 1..Tip /\ s \in 2..Tip /\ blockData' = blockData \cup {s}
        /\ incomes' = incomes \cup ExternalIncomes(s) /\ ~ Unreadable(s)
    BY <1>0, <1>5, <2>s, SavedBlock DEF Commits
  <2>2. ASSUME NEW tx \in IncomesIn(chain[s].txs)
        PROVE  \E i \in ExternalIncomes(s) : i.lt >= tx.lt
    <3>1. tx \in Txs(s) /\ tx.kind \in Income /\ tx.amount = 1 /\ tx.lt \in Nat
      BY <1>0, <2>1, BlockTyped, KindsOfTx DEF Books, IncomesIn, Txs
    <3>2. CASE tx.kind = "notified"
      <4> DEFINE i == [lt |-> tx.lt + 1, amount |-> tx.amount]
      <4>1. i \in ExternalIncomes(s)
        BY <2>2, <3>2 DEF ExternalIncomes, KnownIncomes
      <4>2. i.lt >= tx.lt
        BY <3>1
      <4> QED BY <4>1, <4>2
    <3>3. CASE tx.kind = "silent"
      <4>1. PICK U : U = {ty \in Txs(s) : ty.kind = "silent"}
        OBVIOUS
      <4>2. calculateJettonAmounts(s) = AmountOf(U) /\ IsFiniteSet(U)
        BY <1>0, <2>1, <4>1, IncomesOfBlock
      <4>3. tx \in U /\ \A ty \in U : ty.amount \in Nat
        BY <1>0, <2>1, <3>1, <3>3, <4>1, BlockTyped, KindsOfTx
      <4>4. AmountOf(U) \in Nat /\ AmountOf(U) >= 1
        BY <3>1, <4>2, <4>3, AmountCovers, AmountTyped
      <4>5. calculateJettonAmounts(s) > 0
        BY <4>2, <4>4
      <4>6. PICK first \in Txs(s) :
               convertUnknownJettonTxs(chain[s].txs, calculateJettonAmounts(s))
                 = {[lt |-> ty.lt, amount |-> 0] : ty \in Txs(s)}
                     \cup {[lt |-> first.lt, amount |-> calculateJettonAmounts(s)]}
        BY <1>0, <2>1, <3>1, ConvertUnknown
      <4> DEFINE i == [lt |-> tx.lt, amount |-> 0]
      <4>7. i \in ExternalIncomes(s)
        BY <3>1, <4>5, <4>6 DEF ExternalIncomes
      <4>8. i.lt >= tx.lt
        BY <3>1
      <4> QED BY <4>7, <4>8
    <3> QED BY <3>1, <3>2, <3>3 DEF Income
  <2> QED BY <2>0, <2>1, <2>2 DEF Recorded
<1> QED BY <1>1, <1>3, <1>4, <1>5 DEF Next

\* A block of the Jetton wallet without incomes holds one transfer, which takes
\* its amount.
LEMMA OnlyTransfer ==
    ASSUME Sound, TransferFailures = {}, NEW utime \in 0..now,
           NEW sends \in SUBSET mempool, NEW events \in SeqOf(Events(flying \cup sends), MaxTxs),
           Block(utime, sends, events), NEW t, t = Tip + 1,
           Txs(t)' # {}, \A tx \in Txs(t)' : tx.kind \notin Income
    PROVE  \E tx \in Txs(t)' :
              /\ Txs(t)' = {tx} /\ tx.memo \in rows \ (failed \cup finished) /\ ~ Done(tx.memo)
              /\ worth[tx.memo] \in Nat /\ Balance' = Balance - worth[tx.memo]
<1>0. Types /\ OpenIsLatest /\ Timely /\ Solvent
  BY DEF Sound, Timely
<1>new. Added(t, utime, sends)
  BY <1>0, NewBlock
<1>1. /\ Txs(t)' \subseteq TxType /\ Balance' = chain'[t].balance
      /\ \A tx, ty \in Txs(t)' : tx.memo = ty.memo /\ tx.memo # 0 => tx = ty
      /\ \A tx \in Txs(t)' : tx.kind \in Transfer =>
            tx.memo \in flying \cup sends /\ tx.amount = worth[tx.memo]
      /\ chain'[t].balance = Max({0, Balance}) + EffectOf(Txs(t)')
  BY <1>new DEF Added
<1>2. \A tx \in Txs(t)' :
         /\ tx.kind = "transfer" /\ tx.memo \in flying \cup sends /\ tx.amount = worth[tx.memo]
         /\ tx.memo \in rows \ (failed \cup finished) /\ tx.memo # 0 /\ ~ Done(tx.memo)
         /\ worth[tx.memo] <= Balance /\ worth[tx.memo] \in Nat
  <2> SUFFICES ASSUME NEW tx \in Txs(t)'
               PROVE  /\ tx.kind = "transfer" /\ tx.memo \in flying \cup sends
                      /\ tx.amount = worth[tx.memo]
                      /\ tx.memo \in rows \ (failed \cup finished) /\ tx.memo # 0
                      /\ ~ Done(tx.memo)
                      /\ worth[tx.memo] <= Balance /\ worth[tx.memo] \in Nat
    OBVIOUS
  <2>1. tx.kind = "transfer"
    BY <1>0, NewBalance
  <2>2. tx.kind \in Transfer
    BY <2>1 DEF Transfer
  <2>3. tx.memo \in flying \cup sends /\ tx.amount = worth[tx.memo]
    BY <1>1, <2>2
  <2> QED BY <1>0, <2>1, <2>3, UnderWay
<1>3. PICK tx \in Txs(t)' : TRUE
  OBVIOUS
<1>4. Txs(t)' = {tx}
  <2> SUFFICES ASSUME NEW ty \in Txs(t)' PROVE ty = tx
    OBVIOUS
  <2>1. ty.memo = tx.memo
    BY <1>0, <1>2, OneOpen DEF OneOpenJettonSweep
  <2> QED BY <1>1, <1>2, <2>1
<1> DEFINE f == [ty \in {tx} |-> Effect(ty)]
<1>5. IsFiniteSet({tx}) /\ {tx} \in SUBSET {tx}
  BY FS_Singleton
<1>6. EffectOf({tx}) = SumFunctionOnSet(f, {tx})
  BY <1>5, EffectAsSum
<1>7. f[tx] = - worth[tx.memo] /\ worth[tx.memo] \in Nat
  BY <1>1, <1>2, KindsOfTx
<1> HIDE DEF f
<1>8. \A ty \in {tx} : f[ty] \in Int
  BY <1>7
<1>9. SumFunctionOnSet(f, {tx}) = f[tx] + SumFunctionOnSet(f, {tx} \ {tx})
  BY <1>5, <1>8, SumRemove
<1>10. {tx} \ {tx} = {}
  OBVIOUS
<1>11. EffectOf({tx}) = - worth[tx.memo]
  <2>1. SumFunctionOnSet(f, {tx} \ {tx}) = 0
    BY <1>10, SumEmpty
  <2>2. EffectOf({tx}) = f[tx] + 0
    BY <1>6, <1>9, <2>1
  <2> QED BY <1>7, <2>2
<1>12. Max({0, Balance}) = Balance /\ Balance \in Int
  <2>1. Balance \in Int /\ worth[tx.memo] \in Nat /\ worth[tx.memo] <= Balance
    BY <1>0, <1>2, BlockTyped
  <2>2. Balance >= 0
    BY <2>1
  <2> QED BY <2>1, <2>2, MaxOfZero
<1>13. Balance' = Balance - worth[tx.memo]
  BY <1>1, <1>4, <1>7, <1>11, <1>12
<1> QED BY <1>2, <1>4, <1>13

\* Every step keeps Residue.
LEMMA ResidueStep ==
    ASSUME Sound, Residue, TransferFailures = {}, [Next]_vars
    PROVE  Residue'
<1>0. /\ Types /\ OpenIsLatest /\ Placed /\ Saved /\ Timely /\ Solvent
      /\ Tip \in Nat \ {0} /\ Balance \in Int
  BY BlockTyped DEF Sound, Timely
<1>1. ASSUME NEW utime \in 0..now, NEW sends \in SUBSET mempool,
             NEW events \in SeqOf(Events(flying \cup sends), MaxTxs), Block(utime, sends, events)
      PROVE  Residue'
  <2>0. PICK t : t = Tip + 1
    OBVIOUS
  <2>new. Added(t, utime, sends)
    BY <1>0, <1>1, <2>0, NewBlock
  <2>1. /\ Tip' = t /\ 1..t = (1..Tip) \cup {t}
        /\ \A b \in 1..Tip : chain'[b] = chain[b]
        /\ \A tx \in Txs(t)' : tx \in TxType /\ tx.lt >= lt + 2
        /\ UNCHANGED <<rows, failed, worth, since, finished>>
    BY <2>new DEF Added
  <2>2. CASE \E tx \in Txs(t)' : tx.kind \in Income
    <3>1. PICK tx \in Txs(t)' : tx.kind \in Income
      BY <2>2
    <3>2. tx \in IncomesIn(chain'[t].txs) /\ t \in 1..Tip'
      BY <2>1, <3>1 DEF IncomesIn, Txs
    <3>3. \A m \in rows : tx.lt > since[m]
      <4> SUFFICES ASSUME NEW m \in rows PROVE tx.lt > since[m]
        OBVIOUS
      <4>1. lt \in Nat /\ since[m] \in 1..(lt + 1) /\ tx.lt \in Nat /\ tx.lt >= lt + 2
        BY <1>0, <2>1, KindsOfTx DEF Types
      <4> QED BY <4>1
    <3> QED BY <2>1, <3>2, <3>3 DEF Residue
  <2>3. CASE Txs(t)' = {}
    <3>1. Balance' = Balance
      BY <1>0, <1>1, <2>0, <2>3, NewBalance
    <3>2. \A m : Done(m)' <=> Done(m)
      BY <2>new, <2>3, SentAndDone
    <3>3. \A b \in 1..Tip : IncomesIn(chain'[b].txs) = IncomesIn(chain[b].txs) /\ b \in 1..Tip'
      BY <2>1
    <3> QED BY <2>1, <3>1, <3>2, <3>3 DEF Residue
  <2>4. CASE Txs(t)' # {} /\ \A tx \in Txs(t)' : tx.kind \notin Income
    <3>1. PICK tx \in Txs(t)' :
             /\ Txs(t)' = {tx} /\ tx.memo \in rows \ (failed \cup finished) /\ ~ Done(tx.memo)
             /\ worth[tx.memo] \in Nat /\ Balance' = Balance - worth[tx.memo]
      BY <1>1, <2>0, <2>4, OnlyTransfer
    <3>2. PICK n : n = tx.memo
      OBVIOUS
    <3>3. n \in rows \ (failed \cup finished) /\ ~ Done(n) /\ worth[n] \in Nat
          /\ Balance' = Balance - worth[n]
      BY <3>1, <3>2
    <3>4. \A m : Done(m)' <=> Done(m) \/ m = n
      BY <2>new, <3>1, <3>2, SentAndDone
    <3>5. \A b \in 1..Tip : IncomesIn(chain'[b].txs) = IncomesIn(chain[b].txs) /\ b \in 1..Tip'
      BY <2>1
    <3>6. ASSUME Balance' > 0 PROVE Balance > 0 /\ Balance > worth[n]
      BY <1>0, <3>3, <3>6
    <3>7. ASSUME NEW m \in rows \ failed,
                 Balance' > IF Done(m)' THEN 0 ELSE worth[m]
          PROVE  Balance > IF Done(m) THEN 0 ELSE worth[m]
      <4>1. CASE m = n
        BY <3>3, <3>4, <3>6, <3>7, <4>1
      <4>2. CASE m # n
        <5>1. m \in finished
          BY <1>0, <3>3, <4>2, OneOpen DEF OneOpenJettonSweep
        <5>2. Done(m)
          <6>1. m \in Memos /\ blockData \subseteq 1..Tip
            BY <1>0 DEF Types, FeedTypeOK
          <6> QED BY <1>0, <5>1, <6>1 DEF Saved, Done
        <5> QED BY <3>4, <3>6, <3>7, <5>2
      <4> QED BY <4>1, <4>2
    <3> QED BY <2>1, <3>5, <3>6, <3>7 DEF Residue
  <2> QED BY <2>2, <2>3, <2>4
<1>2. CASE /\ UNCHANGED <<genUtime, chain, rows, worth, since>> /\ failed \subseteq failed'
  <2>1. Tip' = Tip /\ Balance' = Balance /\ \A m : Done(m)' = Done(m)
    BY <1>2, SameSentAndDone DEF Tip, Balance
  <2> QED BY <1>2, <2>1 DEF Residue
<1>3. CASE \/ ExtWaitSync \/ GetJettonInternalWithdrawalTasks \/ SkipTask \/ ExpWaitSync
           \/ SetExpired \/ SetExpiredError \/ TimePasses \/ SaveParsedBlockData \/ Feed \/ Crash
           \/ \E sent \in BOOLEAN : SendExternalMessage(sent)
           \/ UNCHANGED vars
  <2>1. UNCHANGED <<genUtime, chain>>
    BY <1>3, NoNewBlock
  <2>2. UNCHANGED <<rows, worth, since>> /\ failed \subseteq failed'
    BY <1>3 DEF ExtWaitSync, GetJettonInternalWithdrawalTasks, SkipTask, ExpWaitSync,
       SetExpired, SetExpiredError, TimePasses,
       SaveParsedBlockData, Feed, Crash, SendExternalMessage, vars, rowVars
  <2> QED BY <1>2, <2>1, <2>2
<1>4. ASSUME NEW memo \in Memos, SaveInternalWithdrawalTask(memo) PROVE Residue'
  <2>1. UNCHANGED <<genUtime, chain>>
    BY <1>4, NoNewBlock
  <2>2. /\ memo \notin rows /\ rows' = rows \cup {memo} /\ failed' = failed
        /\ worth' = [worth EXCEPT ![memo] = Balance]
        /\ since' = [since EXCEPT ![memo] = task]
    BY <1>4 DEF SaveInternalWithdrawalTask
  <2>3. Tip' = Tip /\ Balance' = Balance /\ \A m : Done(m)' = Done(m)
    BY <2>1, SameSentAndDone DEF Tip, Balance
  <2>4. /\ \A m \in rows : worth'[m] = worth[m] /\ since'[m] = since[m]
        /\ worth'[memo] = Balance
    BY <1>0, <2>2 DEF Types
  <2>5. ~ Done(memo)
    <3>1. memo # 0
      BY JettonAssumption DEF Memos
    <3> QED BY <1>0, <2>2, <3>1 DEF Done, Types
  <2>6. ~ (Balance > Balance)
    BY <1>0
  <2>7. ASSUME NEW m \in rows' \ failed', Balance' > IF Done(m)' THEN 0 ELSE worth'[m]
        PROVE  m # memo
    BY <2>3, <2>4, <2>5, <2>6, <2>7
  <2> QED BY <2>1, <2>2, <2>3, <2>4, <2>7 DEF Residue
<1> QED BY <1>1, <1>3, <1>4 DEF Next

\* With every block saved and no sweep under way, a balance above the cutoff
\* belongs to incomes that the query returns: no Jettons are forgotten, whether
\* they came before the query, between the query and the reading of the balance,
\* or while the transfer was on its way.
THEOREM NoJettonsStranded ==
    ASSUME TransferFailures = {}
    PROVE  TimelySpec => []NothingStranded
<1>1. Init => Recorded /\ Residue
  <2> SUFFICES ASSUME Init PROVE Recorded /\ Residue
    OBVIOUS
  <2>1. /\ Tip = 1 /\ chain[1].txs = <<>> /\ blockData = {1} /\ rows = {}
        /\ Balance = IF Deployed THEN 0 ELSE NotInitialized
    BY DEF Init, FeedInit, Tip, Balance
  <2>2. IncomesIn(chain[1].txs) = {} /\ ~ (Balance > 0)
    BY <2>1 DEF IncomesIn, ToSet, NotInitialized
  <2> QED BY <2>1, <2>2 DEF Recorded, Residue
<1>2. Sound /\ Recorded /\ Residue /\ [Next]_vars => (Recorded /\ Residue)'
  BY RecordedStep, ResidueStep
<1>3. Sound /\ Recorded /\ Residue => NothingStranded
  <2> SUFFICES ASSUME Sound, Recorded, Residue, blockData = 1..Tip,
                      rows \subseteq failed \cup finished, Balance > WithdrawalCutoff
               PROVE  Unswept # {}
    BY DEF NothingStranded
  <2>0. Types /\ OpenIsLatest /\ Saved
    BY DEF Sound, Timely
  <2>1. Balance > 0
    <3>1. Balance \in Int /\ WithdrawalCutoff \in Nat
      BY <2>0, BlockTyped, JettonAssumption
    <3> QED BY <3>1
  <2>2. CASE rows \ failed = {}
    <3>1. LatestRows = {}
      BY <2>0, <2>2, LatestExists
    <3>2. PICK b \in 1..Tip : IncomesIn(chain[b].txs) # {}
      BY <2>1 DEF Residue
    <3>3. incomes # {}
      BY <3>2 DEF Recorded
    <3> QED BY <3>1, <3>3 DEF Unswept
  <2>3. CASE rows \ failed # {}
    <3>1. PICK m \in rows \ failed : m \in LatestRows
      BY <2>0, <2>3, LatestExists
    <3>2. m \in finished /\ m \in Memos
      BY <2>0 DEF Types
    <3>3. Done(m)
      BY <2>0, <3>2 DEF Saved, Done
    <3>4. PICK b \in 1..Tip : \E tx \in IncomesIn(chain[b].txs) : tx.lt > since[m]
      BY <2>1, <3>3 DEF Residue
    <3>5. PICK tx \in IncomesIn(chain[b].txs) : tx.lt > since[m]
      BY <3>4
    <3>6. PICK i \in incomes : i.lt >= tx.lt
      BY <3>5 DEF Recorded
    <3>7. tx.lt \in Nat /\ i.lt \in Nat /\ since[m] \in Nat
      <4>1. tx \in Txs(b)
        BY DEF IncomesIn, Txs
      <4>2. tx.lt \in Nat
        BY <2>0, <4>1, BlockTyped, KindsOfTx
      <4>3. i.lt \in 1..(lt + 1) /\ lt \in Nat /\ since[m] \in Nat
        BY <2>0, <3>2 DEF Types
      <4> QED BY <4>2, <4>3
    <3>8. i.lt > since[m]
      BY <3>5, <3>6, <3>7
    <3> QED BY <3>1, <3>2, <3>8 DEF Unswept
  <2> QED BY <2>2, <2>3
<1> QED BY <1>1, <1>2, <1>3, SoundAlways, PTL DEF TimelySpec
============================================================================
