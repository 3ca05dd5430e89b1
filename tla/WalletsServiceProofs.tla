------------------------ MODULE WalletsServiceProofs ------------------------
(***************************************************************************)
(* Theorems about Wallets and about ServiceWithdrawals, for any users,      *)
(* requests, configurations, seeds, owners and any number of starts.  The   *)
(* two specifications share no variable; their theorems share one module    *)
(* for the lemmas on finite sets.                                           *)
(***************************************************************************)
EXTENDS Wallets, ServiceWithdrawals, FiniteSums

\* the ids of deposits
Ids == (DefaultSubwallet + 1)..(MaxUint32 - 1)

HotRow(s) == [id |-> DefaultSubwallet, user |-> None,
              type |-> "TonHotWallet", address |-> HighloadWallet(s)]

IsTonDeposit(w, s) ==
    /\ w.type = "TonDepositWallet" /\ w.id \in Ids /\ w.user \in Users
    /\ w.address = GetSubwallet(s, w.id)

IsJettonOwner(w, s) ==
    /\ w.type = "JettonOwner" /\ w.id \in Ids /\ w.user \in Users
    /\ w.address = NewJettonProxy(HighloadWallet(s), w.id)

IsHotJetton(w, s) ==
    /\ w.type = "JettonHotWallet" /\ w.id = DefaultSubwallet
    /\ w.address = JettonWallet(HighloadWallet(s), w.address[3])

\* t is the row of the owner that the Jetton wallet was saved with
IsJettonDeposit(w, t) ==
    /\ w.type = "JettonDepositWallet" /\ t.type = "JettonOwner"
    /\ w.id = t.id /\ w.user = t.user
    /\ w.address = JettonWallet(t.address, w.address[3])

\* Everything in the tables comes from one seed, the one of the hot wallet, and
\* it is the seed of a process that has got past its hot wallet.
From(s) ==
    /\ \A w \in tonWallets : w = HotRow(s) \/ IsTonDeposit(w, s) \/ IsJettonOwner(w, s)
    /\ \A w \in jettonWallets :
          IsHotJetton(w, s) \/ \E t \in tonWallets : IsJettonDeposit(w, t)
    /\ tonWallets # {} \/ jettonWallets # {} \/ pc \in {"jettons", "serving"}
          => HotRow(s) \in tonWallets
    /\ pc \in {"jettons", "serving"} => seed = s

\* The unique keys.
Keys ==
    /\ \A v, w \in tonWallets : v.id = w.id => v = w
    /\ \A v, w \in jettonWallets : v.address = w.address => v = w

AnswerType == {None} \cup {GetSubwallet(s, id) : s \in Seeds, id \in Nat}
                     \cup {NewJettonProxy(HighloadWallet(s), id) : s \in Seeds, id \in Nat}

ReqType == [state : {"idle", "derive", "answered", "failed"}, user : Users \cup {None},
            currency : {TON} \cup UNION {DOMAIN c : c \in Configs}, last : Nat,
            answer : AnswerType]

\* the row that a request was answered with
IsAnswer(q, t) ==
    /\ t.address = q.answer /\ t.user = q.user
    /\ \/ q.currency = TON /\ t.type = "TonDepositWallet"
       \/ \E j \in jettonWallets : IsJettonDeposit(j, t) /\ j.currency = q.currency

\* What the requests have read and were given.
Served ==
    /\ req \in [Requests -> ReqType]
    /\ \A r \in Requests :
          /\ req[r].state = "derive" => /\ pc = "serving" /\ req[r].user \in Users
                                        /\ req[r].currency \in {TON} \cup DOMAIN jettons
                                        /\ req[r].last \in DefaultSubwallet..(MaxUint32 - 1)
          /\ req[r].state # "answered" => req[r].answer = None
          /\ req[r].state = "answered" => \E t \in tonWallets : IsAnswer(req[r], t)
    /\ \A r, s \in Requests :
          req[r].state = "answered" /\ req[s].state = "answered" /\ req[r].answer = req[s].answer
              => r = s

\* The inductive invariant.
WalletsInv ==
    /\ seed \in Seeds /\ jettons \in Configs /\ pc \in {"down", "hot", "jettons", "serving"}
    /\ todo \subseteq DOMAIN jettons
    /\ \E s \in Seeds : From(s)
    /\ Keys
    /\ Served
    /\ externalIncomes \subseteq TonDeposits \cup JettonDeposits

----------------------------------------------------------------------------
(* Ids                                                                     *)

\* Max of a bounded set of natural numbers is its greatest element.
LEMMA MaxIsThere ==
    ASSUME NEW n \in Nat, NEW S \in SUBSET (0..n), S # {}
    PROVE  Max(S) \in S
<1> DEFINE B == {n - x : x \in S}
<1>1. B \in SUBSET Nat /\ B # {}
  <2>1. \A x \in S : n - x \in Nat
    OBVIOUS
  <2> QED BY <2>1
<1>2. PICK b \in B : \A k \in B : b <= k
  <2> HIDE DEF B
  <2> QED BY <1>1, LeastSize
<1>3. PICK x \in S : b = n - x
  OBVIOUS
<1>4. ASSUME NEW y \in S PROVE x >= y
  <2>1. n - y \in B
    OBVIOUS
  <2>2. n - x <= n - y
    BY <1>2, <1>3, <2>1
  <2> QED BY <2>2
<1> QED BY <1>4 DEF Max

\* What a request reads as the last id is an id of the table.
LEMMA LastIsId ==
    ASSUME NEW s \in Seeds, From(s)
    PROVE  GetLastSubwalletID \in DefaultSubwallet..(MaxUint32 - 1)
<1>0. DefaultSubwallet \in Nat /\ MaxUint32 \in Nat /\ DefaultSubwallet < MaxUint32
  BY WalletsAssumption
<1>1. \A w \in tonWallets : w.id \in DefaultSubwallet..(MaxUint32 - 1)
  <2>1. HotRow(s).id = DefaultSubwallet
    BY DEF HotRow
  <2>2. Ids \subseteq DefaultSubwallet..(MaxUint32 - 1)
    BY <1>0 DEF Ids
  <2>3. DefaultSubwallet \in DefaultSubwallet..(MaxUint32 - 1)
    BY <1>0
  <2> QED BY <2>1, <2>2, <2>3 DEF From, IsTonDeposit, IsJettonOwner
<1>2. CASE tonWallets = {}
  BY <1>0, <1>2 DEF GetLastSubwalletID
<1>3. CASE tonWallets # {}
  <2> DEFINE S == {w.id : w \in tonWallets}
  <2>1. S # {} /\ S \subseteq DefaultSubwallet..(MaxUint32 - 1) /\ S \subseteq 0..MaxUint32
    BY <1>0, <1>1, <1>3
  <2>2. Max(S) \in S
    <3> HIDE DEF S
    <3> QED BY <1>0, <2>1, MaxIsThere
  <2> QED BY <1>3, <2>1, <2>2 DEF GetLastSubwalletID
<1> QED BY <1>2, <1>3

\* The id that a request derives lies after the last one, and the addition to a
\* uint32 does not wrap around.
LEMMA NextId ==
    ASSUME NEW r \in Requests, req[r].last \in DefaultSubwallet..(MaxUint32 - 1),
           Candidates(r) # {}
    PROVE  Min(Candidates(r)) \in Ids
<1>0. DefaultSubwallet \in Nat /\ MaxUint32 \in Nat /\ DefaultSubwallet < MaxUint32
  BY WalletsAssumption
<1>1. PICK n, m : n = req[r].last + 1 /\ m = MaxUint32 + 1
  OBVIOUS
<1>2. n \in Nat /\ m \in Nat \ {0} /\ n < m /\ n > DefaultSubwallet
  BY <1>0, <1>1
<1>3. n % m = n
  <2> DEFINE d == n \div m
             x == n % m
  <2>3. d \in Int /\ x \in 0..(m - 1) /\ n = m * d + x
    BY <1>2
  <2> HIDE DEF d, x
  <2>4. CASE d >= 1
    <3>1. m * d >= m
      BY <1>2, <2>3, <2>4
    <3> QED BY <1>2, <2>3, <3>1
  <2>5. CASE d <= -1
    <3>1. m * d <= 0 - m
      BY <1>2, <2>3, <2>5
    <3> QED BY <1>2, <2>3, <3>1
  <2>6. x = n
    BY <1>2, <2>3, <2>4, <2>5
  <2> QED BY <2>6 DEF x
<1>4. Candidates(r) \subseteq n..(MaxUint32 - 1)
  BY <1>1, <1>3 DEF Candidates
<1>5. n..(MaxUint32 - 1) \subseteq Ids /\ n..(MaxUint32 - 1) \subseteq Nat
  BY <1>0, <1>2 DEF Ids
<1>6. PICK C : C = Candidates(r)
  OBVIOUS
<1>7. C \in SUBSET Nat /\ C # {}
  BY <1>4, <1>5, <1>6
<1>8. \E x \in C : \A y \in C : x <= y
  BY <1>7, LeastSize
<1>9. Min(C) \in C
  BY <1>8 DEF Min
<1> QED BY <1>4, <1>5, <1>6, <1>9

----------------------------------------------------------------------------
(* The tables                                                              *)

\* Steps that leave the tables alone.
LEMMA SameWallets ==
    ASSUME NEW s, From(s), Keys, UNCHANGED walletVars,
           pc' \in {"jettons", "serving"} => pc \in {"jettons", "serving"} /\ seed' = seed
    PROVE  From(s)' /\ Keys' /\ TonDeposits' = TonDeposits /\ JettonDeposits' = JettonDeposits
<1>1. tonWallets' = tonWallets /\ jettonWallets' = jettonWallets
  BY DEF walletVars
<1>2. From(s)'
  BY <1>1 DEF From
<1>3. Keys'
  BY <1>1 DEF Keys
<1>4. TonDeposits' = TonDeposits /\ JettonDeposits' = JettonDeposits
  BY <1>1 DEF TonDeposits, JettonDeposits, RowsOf
<1> QED BY <1>2, <1>3, <1>4

\* An answer stays one while no row is removed.
LEMMA AnswerStays ==
    ASSUME jettonWallets \subseteq jettonWallets', NEW q, NEW t, IsAnswer(q, t)
    PROVE  IsAnswer(q, t)'
BY DEF IsAnswer

\* The address of a deposit differs from all that are in the table.
LEMMA NewAddress ==
    ASSUME NEW s, From(s), NEW id, IdIsFree(id), NEW t \in tonWallets
    PROVE  t.address # GetSubwallet(s, id) /\ t.address # NewJettonProxy(HighloadWallet(s), id)
<1>1. t.id # id
  BY DEF IdIsFree
<1>2. CASE t = HotRow(s)
  BY <1>2 DEF HotRow, HighloadWallet, GetSubwallet, NewJettonProxy
<1>3. CASE IsTonDeposit(t, s)
  BY <1>1, <1>3 DEF IsTonDeposit, GetSubwallet, NewJettonProxy
<1>4. CASE IsJettonOwner(t, s)
  BY <1>1, <1>4 DEF IsJettonOwner, GetSubwallet, NewJettonProxy
<1> QED BY <1>2, <1>3, <1>4 DEF From

----------------------------------------------------------------------------
(* The requests                                                            *)

\* Requests are not touched, and neither is what they depend on.
LEMMA SameRequests ==
    ASSUME Served, req' = req, tonWallets \subseteq tonWallets',
           jettonWallets \subseteq jettonWallets',
           pc = "serving" => pc' = "serving" /\ jettons' = jettons
    PROVE  Served'
<1>1. ASSUME NEW r \in Requests, req[r].state = "answered"
      PROVE  \E t \in tonWallets' : IsAnswer(req[r], t)'
  <2>1. PICK t \in tonWallets : IsAnswer(req[r], t)
    BY <1>1 DEF Served
  <2>2. PICK q : q = req[r]
    OBVIOUS
  <2>3. IsAnswer(q, t)'
    BY <2>1, <2>2, AnswerStays
  <2> QED BY <2>2, <2>3 DEF IsAnswer
<1> QED BY <1>1 DEF Served

\* One request changes: what it is given is new.
LEMMA OneRequest ==
    ASSUME Served, NEW r \in Requests, NEW v \in ReqType, req' = [req EXCEPT ![r] = v],
           tonWallets \subseteq tonWallets', jettonWallets \subseteq jettonWallets',
           pc' = pc, jettons' = jettons,
           v.state = "derive" => /\ pc = "serving" /\ v.user \in Users
                                 /\ v.currency \in {TON} \cup DOMAIN jettons
                                 /\ v.last \in DefaultSubwallet..(MaxUint32 - 1),
           v.state # "answered" => v.answer = None,
           v.state = "answered" => \E t \in tonWallets' : IsAnswer(v, t)',
           v.state = "answered" => \A t \in tonWallets : t.address # v.answer
    PROVE  Served'
<1>1. /\ req' \in [Requests -> ReqType] /\ req'[r] = v
      /\ \A q \in Requests : q # r => req'[q] = req[q]
  BY DEF Served
<1>2. ASSUME NEW q \in Requests, req[q].state = "answered"
      PROVE  \E t \in tonWallets : t.address = req[q].answer
  <2>1. PICK t \in tonWallets : IsAnswer(req[q], t)
    BY <1>2 DEF Served
  <2> QED BY <2>1 DEF IsAnswer
<1>3. ASSUME NEW q \in Requests
      PROVE  /\ req'[q].state = "derive" => /\ pc = "serving" /\ req'[q].user \in Users
                                            /\ req'[q].currency \in {TON} \cup DOMAIN jettons
                                            /\ req'[q].last \in DefaultSubwallet..(MaxUint32 - 1)
             /\ req'[q].state # "answered" => req'[q].answer = None
  <2>1. CASE q = r
    BY <1>1, <2>1
  <2>2. CASE q # r
    <3>1. req'[q] = req[q]
      BY <1>1, <2>2
    <3> QED BY <3>1 DEF Served
  <2> QED BY <2>1, <2>2
<1>4. ASSUME NEW q \in Requests, req'[q].state = "answered"
      PROVE  \E t \in tonWallets' : IsAnswer(req[q], t)'
  <2>1. CASE q = r
    <3>1. PICK t \in tonWallets' : IsAnswer(v, t)'
      BY <1>1, <1>4, <2>1
    <3> QED BY <1>1, <2>1, <3>1 DEF IsAnswer
  <2>2. CASE q # r
    <3>1. req'[q] = req[q]
      BY <1>1, <2>2
    <3>2. PICK t \in tonWallets : IsAnswer(req[q], t)
      BY <1>4, <3>1 DEF Served
    <3>3. PICK w : w = req[q]
      OBVIOUS
    <3>4. IsAnswer(w, t)'
      BY <3>2, <3>3, AnswerStays
    <3> QED BY <3>1, <3>3, <3>4 DEF IsAnswer
  <2> QED BY <2>1, <2>2
<1>5. ASSUME NEW q \in Requests, NEW p \in Requests, req'[q].state = "answered",
             req'[p].state = "answered", req'[q].answer = req'[p].answer
      PROVE  q = p
  <2>1. CASE q = r /\ p # r
    <3>1. req'[q] = v /\ req'[p] = req[p]
      BY <1>1, <2>1
    <3> QED BY <1>2, <1>5, <3>1
  <2>2. CASE q # r /\ p = r
    <3>1. req'[p] = v /\ req'[q] = req[q]
      BY <1>1, <2>2
    <3> QED BY <1>2, <1>5, <3>1
  <2>3. CASE q # r /\ p # r
    BY <1>1, <1>5, <2>3 DEF Served
  <2> QED BY <2>1, <2>2, <2>3
<1> QED BY <1>1, <1>3, <1>4, <1>5 DEF Served

\* How a request ends.
LEMMA RequestEnds ==
    ASSUME Served, NEW r \in Requests, NEW state \in {"answered", "failed"},
           NEW answer \in AnswerType, Finish(r, state, answer)
    PROVE  \E v \in ReqType : /\ req' = [req EXCEPT ![r] = v]
                              /\ v.state = state /\ v.answer = answer
                              /\ v.user = req[r].user /\ v.currency = req[r].currency
<1> DEFINE v == [req[r] EXCEPT !.state = state, !.answer = answer]
<1>1. req[r] \in ReqType
  BY DEF Served
<1>2. v \in ReqType /\ v.state = state /\ v.answer = answer
      /\ v.user = req[r].user /\ v.currency = req[r].currency
  BY <1>1 DEF ReqType
<1>3. req' = [req EXCEPT ![r] = v]
  BY DEF Finish
<1> QED BY <1>2, <1>3

\* A request that ends without an answer leaves nothing behind.
LEMMA RequestFails ==
    ASSUME Served, NEW r \in Requests, Finish(r, "failed", None),
           tonWallets \subseteq tonWallets', jettonWallets \subseteq jettonWallets',
           pc' = pc, jettons' = jettons
    PROVE  Served'
<1>1. None \in AnswerType
  BY DEF AnswerType
<1>2. PICK v \in ReqType : /\ req' = [req EXCEPT ![r] = v] /\ v.state = "failed" /\ v.answer = None
  BY <1>1, RequestEnds
<1> QED BY <1>2, OneRequest

----------------------------------------------------------------------------
(* The invariant                                                           *)

\* The hot wallet that is in the table belongs to the seed of the process, or
\* the process does not get past it.
LEMMA HotWalletStep ==
    ASSUME NEW s \in Seeds, From(s), Keys, InitTonHotWallet, seed \in Seeds
    PROVE  From(seed)' /\ Keys' /\ TonDeposits' = TonDeposits
<1>0. seed' = seed /\ jettonWallets' = jettonWallets /\ pc' \in {"jettons", "serving"}
  BY DEF InitTonHotWallet
<1>1. CASE RowsOf("TonHotWallet") = {}
  <2>1. tonWallets = {}
    <3>1. HotRow(s).type = "TonHotWallet"
      BY DEF HotRow
    <3>2. HotRow(s) \notin tonWallets
      BY <1>1, <3>1 DEF RowsOf
    <3> QED BY <3>2 DEF From
  <2>2. jettonWallets = {}
    BY <2>1 DEF From
  <2>3. tonWallets' = {HotRow(seed)}
    BY <1>1, <2>1 DEF InitTonHotWallet, HotRow
  <2>4. From(seed)'
    <3>1. HotRow(seed)' = HotRow(seed)
      BY <1>0 DEF HotRow, HighloadWallet
    <3> QED BY <1>0, <2>2, <2>3, <3>1 DEF From
  <2>5. Keys'
    BY <1>0, <2>2, <2>3 DEF Keys
  <2>6. TonDeposits = {} /\ TonDeposits' = {}
    <3>1. HotRow(seed).type = "TonHotWallet"
      BY DEF HotRow
    <3> QED BY <2>1, <2>3, <3>1 DEF TonDeposits, RowsOf
  <2> QED BY <2>4, <2>5, <2>6
<1>2. CASE RowsOf("TonHotWallet") # {}
  <2>1. tonWallets' = tonWallets
    BY <1>2 DEF InitTonHotWallet
  <2>2. PICK w \in tonWallets : w.type = "TonHotWallet" /\ w.address = HighloadWallet(seed)
    BY <1>2 DEF InitTonHotWallet, HotWalletMatches, RowsOf
  <2>3. w = HotRow(s)
    BY <2>2 DEF From, IsTonDeposit, IsJettonOwner
  <2>4. w.address = HighloadWallet(s)
    BY <2>3 DEF HotRow
  <2>5. seed = s
    BY <2>2, <2>4 DEF HighloadWallet
  <2>6. From(s)'
    BY <1>0, <2>1, <2>2, <2>3, <2>5 DEF From
  <2>7. From(seed)'
    BY <1>0, <2>5, <2>6
  <2>8. Keys' /\ TonDeposits' = TonDeposits
    BY <1>0, <2>1 DEF Keys, TonDeposits, RowsOf
  <2> QED BY <2>7, <2>8
<1> QED BY <1>1, <1>2

\* A hot wallet of a currency is saved once.
LEMMA HotJettonStep ==
    ASSUME NEW s \in Seeds, From(s), Keys, NEW currency, InitJettonHotWallet(currency)
    PROVE  From(s)' /\ Keys' /\ jettonWallets \subseteq jettonWallets'
<1> DEFINE addr == JettonWallet(HighloadWallet(seed), jettons[currency])
           new == [id |-> DefaultSubwallet, user |-> None, currency |-> currency,
                   type |-> "JettonHotWallet", address |-> addr]
<1>1. /\ tonWallets' = tonWallets /\ seed' = seed /\ pc = "jettons"
      /\ pc' \in {"jettons", "serving"}
  BY DEF InitJettonHotWallet
<1>2. seed = s /\ HotRow(s) \in tonWallets
  BY <1>1 DEF From
<1>3. IsHotJetton(new, s)
  BY <1>2 DEF IsHotJetton, JettonWallet
<1>4. new.address = addr
  OBVIOUS
<1>5. CASE \E w \in jettonWallets : w.address = addr
  <2>1. jettonWallets' = jettonWallets
    BY <1>5 DEF InitJettonHotWallet
  <2> QED BY <1>1, <1>2, <2>1 DEF From, Keys
<1>6. CASE \A w \in jettonWallets : w.address # addr
  <2>1. jettonWallets' = jettonWallets \cup {new}
    BY <1>6 DEF InitJettonHotWallet
  <2> HIDE DEF new, addr
  <2>2. Keys'
    BY <1>1, <1>4, <1>6, <2>1 DEF Keys
  <2>3. From(s)'
    BY <1>1, <1>2, <1>3, <2>1 DEF From
  <2> QED BY <2>1, <2>2, <2>3
<1> QED BY <1>5, <1>6

\* A new row of ton_wallets with a free id, with or without a Jetton wallet.
LEMMA NewRow ==
    ASSUME NEW s \in Seeds, From(s), Keys, pc = "serving", pc' = pc, seed' = seed,
           NEW new, IdIsFree(new.id), IsTonDeposit(new, s) \/ IsJettonOwner(new, s),
           tonWallets' = tonWallets \cup {new}, NEW J, jettonWallets' = jettonWallets \cup J,
           J = {} \/ \E j : J = {j} /\ IsJettonDeposit(j, new)
    PROVE  From(s)' /\ Keys' /\ \A t \in tonWallets : t.address # new.address
<1>1. seed = s /\ HotRow(s) \in tonWallets
  BY DEF From
<1>2. \A t \in tonWallets : t.id # new.id
  BY DEF IdIsFree
<1>3. \A t \in tonWallets : t.address # new.address
  BY NewAddress DEF IsTonDeposit, IsJettonOwner
<1>4. From(s)'
  <2>1. \A w \in tonWallets' : w = HotRow(s) \/ IsTonDeposit(w, s) \/ IsJettonOwner(w, s)
    BY DEF From
  <2>2. \A w \in jettonWallets' : IsHotJetton(w, s) \/ \E t \in tonWallets' : IsJettonDeposit(w, t)
    BY DEF From
  <2> QED BY <1>1, <2>1, <2>2 DEF From
<1>5. \A w \in J : \A v \in jettonWallets : v.address # w.address
  <2> SUFFICES ASSUME NEW w \in J, NEW v \in jettonWallets PROVE v.address # w.address
    OBVIOUS
  <2>1. w.address = JettonWallet(new.address, w.address[3]) /\ new.type = "JettonOwner"
    BY DEF IsJettonDeposit
  <2>2. w.address[2] = new.address
    BY <2>1 DEF JettonWallet
  <2>3. new.address = NewJettonProxy(HighloadWallet(s), new.id)
    BY <2>1 DEF IsTonDeposit, IsJettonOwner
  <2>4. CASE IsHotJetton(v, s)
    <3>1. v.address[2] = HighloadWallet(s)
      BY <2>4 DEF IsHotJetton, JettonWallet
    <3> QED BY <2>2, <2>3, <3>1 DEF HighloadWallet, NewJettonProxy
  <2>5. ASSUME NEW t \in tonWallets, IsJettonDeposit(v, t) PROVE v.address # w.address
    <3>1. v.address[2] = t.address
      BY <2>5 DEF IsJettonDeposit, JettonWallet
    <3> QED BY <1>3, <2>2, <3>1
  <2> QED BY <2>4, <2>5 DEF From
<1>6. Keys'
  <2>1. \A v, w \in tonWallets' : v.id = w.id => v = w
    BY <1>2 DEF Keys
  <2>2. \A v, w \in J : v = w
    OBVIOUS
  <2>3. \A v, w \in jettonWallets' : v.address = w.address => v = w
    BY <1>5, <2>2 DEF Keys
  <2> QED BY <2>1, <2>3 DEF Keys
<1> QED BY <1>3, <1>4, <1>6

\* A TON deposit is created.
LEMMA TonAddressStep ==
    ASSUME NEW s \in Seeds, From(s), Keys, Served, NEW r \in Requests,
           NEW answered \in BOOLEAN, CreateTonAddress(r, answered)
    PROVE  From(s)' /\ Keys' /\ Served'
<1> DEFINE id == Min(Candidates(r))
           addr == GetSubwallet(seed, id)
           new == [id |-> id, user |-> req[r].user, type |-> "TonDepositWallet", address |-> addr]
<1>1. /\ pc = "serving" /\ req[r].state = "derive" /\ req[r].currency = TON
      /\ Candidates(r) # {} /\ IdIsFree(id) /\ tonWallets' = tonWallets \cup {new}
      /\ UNCHANGED <<pc, seed, jettons, jettonWallets>>
      /\ IF answered THEN Finish(r, "answered", addr) ELSE Finish(r, "failed", None)
  BY DEF CreateTonAddress, procVars
<1>2. req[r].user \in Users /\ req[r].last \in DefaultSubwallet..(MaxUint32 - 1)
  BY <1>1 DEF Served
<1>3. id \in Ids /\ id \in Nat
  <2>1. id \in Ids
    BY <1>1, <1>2, NextId
  <2> HIDE DEF id
  <2> QED BY <2>1, WalletsAssumption DEF Ids
<1>4. seed = s
  BY <1>1 DEF From
<1> HIDE DEF id
<1>5. /\ new.id = id /\ new.user = req[r].user /\ new.address = addr
      /\ new.type = "TonDepositWallet"
  OBVIOUS
<1>6. IsTonDeposit(new, s)
  BY <1>2, <1>3, <1>4, <1>5 DEF IsTonDeposit
<1>7. addr \in AnswerType
  BY <1>3, <1>4 DEF AnswerType
<1> HIDE DEF new, addr
<1>8. From(s)' /\ Keys' /\ \A t \in tonWallets : t.address # addr
  <2>1. jettonWallets' = jettonWallets \cup {}
    BY <1>1
  <2> QED BY <1>1, <1>5, <1>6, <2>1, NewRow
<1>9. CASE answered
  <2>1. PICK v \in ReqType : /\ req' = [req EXCEPT ![r] = v]
                             /\ v.state = "answered" /\ v.answer = addr
                             /\ v.user = req[r].user /\ v.currency = req[r].currency
    BY <1>1, <1>7, <1>9, RequestEnds
  <2>2. \E t \in tonWallets' : IsAnswer(v, t)'
    <3>1. IsAnswer(v, new)
      BY <1>1, <1>5, <2>1 DEF IsAnswer
    <3>2. PICK w : w = new
      OBVIOUS
    <3>3. IsAnswer(v, w)'
      BY <1>1, <3>1, <3>2, AnswerStays
    <3> QED BY <1>1, <3>2, <3>3
  <2> QED BY <1>1, <1>8, <2>1, <2>2, OneRequest
<1>10. CASE ~ answered
  BY <1>1, <1>8, <1>10, RequestFails
<1> QED BY <1>9, <1>10

\* A Jetton deposit is created, with its owner.
LEMMA JettonAddressStep ==
    ASSUME NEW s \in Seeds, From(s), Keys, Served, NEW r \in Requests,
           NEW answered \in BOOLEAN, CreateJettonAddress(r, answered)
    PROVE  From(s)' /\ Keys' /\ Served'
<1> DEFINE id == Min(Candidates(r))
           owner == NewJettonProxy(HighloadWallet(seed), id)
           addr == JettonWallet(owner, jettons[req[r].currency])
           new == [id |-> id, user |-> req[r].user, type |-> "JettonOwner", address |-> owner]
           jet == [id |-> id, user |-> req[r].user, currency |-> req[r].currency,
                   type |-> "JettonDepositWallet", address |-> addr]
<1>1. /\ pc = "serving" /\ req[r].state = "derive" /\ Candidates(r) # {} /\ IdIsFree(id)
      /\ tonWallets' = tonWallets \cup {new} /\ jettonWallets' = jettonWallets \cup {jet}
      /\ UNCHANGED <<pc, seed, jettons>>
      /\ IF answered THEN Finish(r, "answered", owner) ELSE Finish(r, "failed", None)
  BY DEF CreateJettonAddress, procVars
<1>2. req[r].user \in Users /\ req[r].last \in DefaultSubwallet..(MaxUint32 - 1)
  BY <1>1 DEF Served
<1>3. id \in Ids /\ id \in Nat
  <2>1. id \in Ids
    BY <1>1, <1>2, NextId
  <2> HIDE DEF id
  <2> QED BY <2>1, WalletsAssumption DEF Ids
<1>4. seed = s
  BY <1>1 DEF From
<1> HIDE DEF id
<1>5. new.id = id /\ new.user = req[r].user /\ new.address = owner /\ new.type = "JettonOwner"
  OBVIOUS
<1>6. IsJettonOwner(new, s)
  BY <1>2, <1>3, <1>4, <1>5 DEF IsJettonOwner
<1>7. owner \in AnswerType
  BY <1>3, <1>4 DEF AnswerType
<1>8. /\ jet.id = id /\ jet.user = req[r].user /\ jet.currency = req[r].currency
      /\ jet.type = "JettonDepositWallet" /\ jet.address = JettonWallet(owner, jet.address[3])
  <2> HIDE DEF owner
  <2> QED BY DEF JettonWallet
<1> HIDE DEF new, jet, owner, addr
<1>9. IsJettonDeposit(jet, new)
  BY <1>5, <1>8 DEF IsJettonDeposit
<1>10. From(s)' /\ Keys' /\ \A t \in tonWallets : t.address # owner
  <2>1. \E j : {jet} = {j} /\ IsJettonDeposit(j, new)
    BY <1>9
  <2>2. IdIsFree(new.id)
    BY <1>1, <1>5
  <2>3. PICK J : J = {jet}
    OBVIOUS
  <2>4. From(s)' /\ Keys' /\ \A t \in tonWallets : t.address # new.address
    BY <1>1, <1>6, <2>1, <2>2, <2>3, NewRow
  <2> QED BY <1>5, <2>4
<1>11. CASE answered
  <2>1. PICK v \in ReqType : /\ req' = [req EXCEPT ![r] = v]
                             /\ v.state = "answered" /\ v.answer = owner
                             /\ v.user = req[r].user /\ v.currency = req[r].currency
    BY <1>1, <1>7, <1>11, RequestEnds
  <2>2. PICK w, j : w = new /\ j = jet
    OBVIOUS
  <2>3. IsAnswer(v, w)'
    <3>1. /\ w.address = v.answer /\ w.user = v.user /\ j \in jettonWallets'
          /\ IsJettonDeposit(j, w) /\ j.currency = v.currency
      BY <1>1, <1>5, <1>8, <1>9, <2>1, <2>2
    <3> QED BY <3>1 DEF IsAnswer
  <2>4. \E t \in tonWallets' : IsAnswer(v, t)'
    BY <1>1, <2>2, <2>3
  <2> QED BY <1>1, <1>10, <2>1, <2>4, OneRequest
<1>12. CASE ~ answered
  BY <1>1, <1>10, <1>12, RequestFails
<1> QED BY <1>11, <1>12

\* A deposit stays one while no row is removed.
LEMMA DepositsStay ==
    ASSUME tonWallets \subseteq tonWallets', jettonWallets \subseteq jettonWallets'
    PROVE  TonDeposits \cup JettonDeposits \subseteq (TonDeposits \cup JettonDeposits)'
BY DEF TonDeposits, JettonDeposits, RowsOf

\* The configuration and the state of the process.
LEMMA ProcessStep ==
    ASSUME WalletsInv, [Next]_vars
    PROVE  /\ seed' \in Seeds /\ jettons' \in Configs
           /\ pc' \in {"down", "hot", "jettons", "serving"} /\ todo' \subseteq DOMAIN jettons'
<1>1. UNCHANGED <<seed, jettons, pc, todo>>
        \/ (\E s \in Seeds, config \in Configs : Start(s, config)) \/ Stop \/ InitTonHotWallet
        \/ (\E currency \in todo : InitJettonHotWallet(currency))
  BY DEF Next, vars, procVars, CreateAddress, CreateTonAddress, CreateJettonAddress,
         RefuseAddress, SaveExternalIncome, SaveInternalIncome
<1>2. /\ seed \in Seeds /\ jettons \in Configs /\ todo \subseteq DOMAIN jettons
      /\ pc \in {"down", "hot", "jettons", "serving"}
  BY DEF WalletsInv
<1> QED BY <1>1, <1>2 DEF Start, Stop, InitTonHotWallet, InitJettonHotWallet

\* A restart ends the requests that were under way.
LEMMA StopStep ==
    ASSUME Served, Stop
    PROVE  Served'
<1>1. /\ tonWallets' = tonWallets /\ jettonWallets' = jettonWallets
      /\ req' = [r \in Requests |->
            IF req[r].state = "derive" THEN [req[r] EXCEPT !.state = "failed"] ELSE req[r]]
  BY DEF Stop, walletVars
<1>2. ASSUME NEW r \in Requests
      PROVE  /\ req'[r] \in ReqType /\ req'[r].state # "derive"
             /\ req'[r].answer = req[r].answer
             /\ req'[r].state = "answered" <=> req[r].state = "answered"
             /\ req[r].state = "answered" => req'[r] = req[r]
  <2>1. req[r] \in ReqType
    BY DEF Served
  <2>2. CASE req[r].state = "derive"
    BY <1>1, <2>1, <2>2 DEF ReqType
  <2>3. CASE req[r].state # "derive"
    BY <1>1, <2>1, <2>3
  <2> QED BY <2>2, <2>3
<1>3. req' \in [Requests -> ReqType]
  BY <1>1, <1>2
<1>4. ASSUME NEW r \in Requests, req'[r].state = "answered"
      PROVE  \E t \in tonWallets' : IsAnswer(req[r], t)'
  <2>1. req'[r] = req[r] /\ \E t \in tonWallets : IsAnswer(req[r], t)
    BY <1>2, <1>4 DEF Served
  <2> QED BY <1>1, <2>1 DEF IsAnswer
<1>5. \A r, s \in Requests :
          req'[r].state = "answered" /\ req'[s].state = "answered"
            /\ req'[r].answer = req'[s].answer => r = s
  BY <1>2 DEF Served
<1>6. \A r \in Requests : req'[r].state # "answered" => req'[r].answer = None
  BY <1>2 DEF Served
<1> QED BY <1>2, <1>3, <1>4, <1>5, <1>6 DEF Served

\* A request reads the last id.
LEMMA CreateStep ==
    ASSUME NEW s \in Seeds, From(s), Served, jettons \in Configs, NEW r \in Requests,
           NEW user \in Users, NEW currency, CreateAddress(r, user, currency)
    PROVE  Served'
<1> DEFINE v == [state |-> "derive", user |-> user, currency |-> currency,
                 last |-> GetLastSubwalletID, answer |-> None]
<1>1. /\ req' = [req EXCEPT ![r] = v] /\ pc = "serving"
      /\ currency \in {TON} \cup DOMAIN jettons
      /\ UNCHANGED <<pc, jettons, tonWallets, jettonWallets>>
  BY DEF CreateAddress, procVars, walletVars
<1>2. GetLastSubwalletID \in DefaultSubwallet..(MaxUint32 - 1)
  BY LastIsId
<1>3. GetLastSubwalletID \in Nat
  <2>1. PICK n : n = GetLastSubwalletID
    OBVIOUS
  <2> QED BY <1>2, <2>1, WalletsAssumption
<1>4. None \in AnswerType /\ currency \in {TON} \cup UNION {DOMAIN c : c \in Configs}
  BY <1>1 DEF AnswerType
<1>5. /\ v.state = "derive" /\ v.user = user /\ v.currency = currency
      /\ v.last = GetLastSubwalletID /\ v.answer = None
  OBVIOUS
<1>6. v \in ReqType
  BY <1>3, <1>4 DEF ReqType
<1> HIDE DEF v
<1> QED BY <1>1, <1>2, <1>5, <1>6, OneRequest

\* The invariant holds at the start.
LEMMA WalletsInit == Init => WalletsInv
<1> SUFFICES ASSUME Init PROVE WalletsInv
  OBVIOUS
<1>1. /\ seed \in Seeds /\ jettons \in Configs /\ pc = "down" /\ todo = {}
      /\ tonWallets = {} /\ jettonWallets = {} /\ externalIncomes = {}
      /\ req = [r \in Requests |-> NoRequest]
  BY DEF Init
<1>2. From(seed) /\ Keys
  BY <1>1 DEF From, Keys
<1>3. NoRequest \in ReqType /\ NoRequest.state = "idle" /\ NoRequest.answer = None
  BY DEF NoRequest, ReqType, AnswerType
<1>4. Served
  BY <1>1, <1>3 DEF Served
<1> QED BY <1>1, <1>2, <1>4 DEF WalletsInv

\* Every step keeps the invariant.
LEMMA WalletsStep ==
    ASSUME WalletsInv, [Next]_vars
    PROVE  WalletsInv'
<1>0. PICK s \in Seeds : From(s)
  BY DEF WalletsInv
<1>1. /\ Keys /\ Served /\ externalIncomes \subseteq TonDeposits \cup JettonDeposits
      /\ seed \in Seeds /\ jettons \in Configs
  BY DEF WalletsInv
<1>2. SUFFICES /\ \E z \in Seeds : From(z)'
               /\ Keys' /\ Served' /\ (externalIncomes \subseteq TonDeposits \cup JettonDeposits)'
  BY ProcessStep DEF WalletsInv
<1>3. ASSUME UNCHANGED walletVars, UNCHANGED externalIncomes
      PROVE  (externalIncomes \subseteq TonDeposits \cup JettonDeposits)'
  BY <1>1, <1>3 DEF walletVars, TonDeposits, JettonDeposits, RowsOf
<1>4. CASE \E z \in Seeds, config \in Configs : Start(z, config)
  <2>1. /\ pc = "down" /\ pc' = "hot" /\ UNCHANGED <<walletVars, req, incomeVars>>
    BY <1>4 DEF Start
  <2>2. From(s)' /\ Keys'
    BY <1>0, <1>1, <2>1, SameWallets
  <2>3. Served'
    BY <1>1, <2>1, SameRequests DEF walletVars
  <2> QED BY <1>3, <2>1, <2>2, <2>3 DEF incomeVars
<1>5. CASE Stop
  <2>1. pc' = "down" /\ UNCHANGED <<walletVars, incomeVars>>
    BY <1>5 DEF Stop
  <2>2. From(s)' /\ Keys'
    BY <1>0, <1>1, <2>1, SameWallets
  <2> QED BY <1>1, <1>3, <1>5, <2>1, <2>2, StopStep DEF incomeVars
<1>6. CASE InitTonHotWallet
  <2>1. /\ pc = "hot" /\ tonWallets \subseteq tonWallets' /\ seed' = seed
        /\ UNCHANGED <<jettonWallets, req, externalIncomes>>
    BY <1>6 DEF InitTonHotWallet, incomeVars
  <2>2. From(seed)' /\ Keys'
    BY <1>0, <1>1, <1>6, HotWalletStep
  <2>3. PICK z \in Seeds : z = seed /\ z = seed'
    BY <1>1, <2>1
  <2>4. From(z)'
    BY <2>2, <2>3
  <2>5. Served'
    BY <1>1, <2>1, SameRequests
  <2> QED BY <1>1, <2>1, <2>2, <2>4, <2>5, DepositsStay
<1>7. ASSUME NEW currency \in todo, InitJettonHotWallet(currency)
      PROVE  /\ \E z \in Seeds : From(z)'
             /\ Keys' /\ Served' /\ (externalIncomes \subseteq TonDeposits \cup JettonDeposits)'
  <2>1. pc = "jettons" /\ UNCHANGED <<tonWallets, req, externalIncomes>>
    BY <1>7 DEF InitJettonHotWallet, incomeVars
  <2>2. From(s)' /\ Keys' /\ jettonWallets \subseteq jettonWallets'
    BY <1>0, <1>1, <1>7, HotJettonStep
  <2>3. Served'
    BY <1>1, <2>1, <2>2, SameRequests
  <2> QED BY <1>1, <2>1, <2>2, <2>3, DepositsStay
<1>8. ASSUME NEW r \in Requests, NEW user \in Users, NEW currency,
             CreateAddress(r, user, currency)
      PROVE  /\ \E z \in Seeds : From(z)'
             /\ Keys' /\ Served' /\ (externalIncomes \subseteq TonDeposits \cup JettonDeposits)'
  <2>1. UNCHANGED <<procVars, walletVars, incomeVars>>
    BY <1>8 DEF CreateAddress
  <2>2. From(s)' /\ Keys'
    BY <1>0, <1>1, <2>1, SameWallets DEF procVars
  <2>3. Served'
    BY <1>0, <1>1, <1>8, CreateStep
  <2> QED BY <1>3, <2>1, <2>2, <2>3 DEF incomeVars
<1>9. ASSUME NEW r \in Requests, NEW answered \in BOOLEAN,
             CreateTonAddress(r, answered) \/ CreateJettonAddress(r, answered)
      PROVE  /\ \E z \in Seeds : From(z)'
             /\ Keys' /\ Served' /\ (externalIncomes \subseteq TonDeposits \cup JettonDeposits)'
  <2>1. /\ tonWallets \subseteq tonWallets' /\ jettonWallets \subseteq jettonWallets'
        /\ UNCHANGED externalIncomes
    BY <1>9 DEF CreateTonAddress, CreateJettonAddress, incomeVars
  <2>2. From(s)' /\ Keys' /\ Served'
    BY <1>0, <1>1, <1>9, TonAddressStep, JettonAddressStep
  <2> QED BY <1>1, <2>1, <2>2, DepositsStay
<1>10. ASSUME NEW r \in Requests, RefuseAddress(r)
      PROVE  /\ \E z \in Seeds : From(z)'
             /\ Keys' /\ Served' /\ (externalIncomes \subseteq TonDeposits \cup JettonDeposits)'
  <2>1. Finish(r, "failed", None) /\ UNCHANGED <<procVars, walletVars, incomeVars>>
    BY <1>10 DEF RefuseAddress
  <2>2. From(s)' /\ Keys'
    BY <1>0, <1>1, <2>1, SameWallets DEF procVars
  <2>3. Served'
    BY <1>1, <2>1, RequestFails DEF procVars, walletVars
  <2> QED BY <1>3, <2>1, <2>2, <2>3 DEF incomeVars
<1>11. CASE (\E to \in TonDeposits \cup JettonDeposits : SaveExternalIncome(to))
              \/ (\E sender \in InternalIncomeSenders : SaveInternalIncome(sender))
              \/ UNCHANGED vars
  <2>1. UNCHANGED <<procVars, walletVars, req>>
    BY <1>11 DEF SaveExternalIncome, SaveInternalIncome, vars
  <2>2. From(s)' /\ Keys' /\ TonDeposits' = TonDeposits /\ JettonDeposits' = JettonDeposits
    BY <1>0, <1>1, <2>1, SameWallets DEF procVars
  <2>3. Served'
    BY <1>1, <2>1, SameRequests DEF procVars, walletVars
  <2>4. externalIncomes' \subseteq TonDeposits \cup JettonDeposits
    BY <1>1, <1>11 DEF SaveExternalIncome, SaveInternalIncome, vars, incomeVars
  <2> QED BY <2>2, <2>3, <2>4
<1> QED BY <1>4, <1>5, <1>6, <1>7, <1>8, <1>9, <1>10, <1>11 DEF Next

\* The invariant holds in every state.
LEMMA WalletsAlways == Spec => []WalletsInv
<1>1. WalletsInv /\ [Next]_vars => WalletsInv'
  BY WalletsStep
<1> QED BY <1>1, WalletsInit, PTL DEF Spec

----------------------------------------------------------------------------
(* The theorems                                                            *)

\* The type invariant: ids and addresses are unique in their tables, however
\* requests overlap and wherever the process dies.
THEOREM WalletsTyped == Spec => []TypeOK
<1>1. WalletsInv => TypeOK
  <2> SUFFICES ASSUME WalletsInv PROVE TypeOK
    OBVIOUS
  <2>0. PICK s \in Seeds : From(s)
    BY DEF WalletsInv
  <2>1. \A w \in tonWallets : w.id \in DefaultSubwallet..(MaxUint32 - 1)
    <3>1. HotRow(s).id = DefaultSubwallet
      BY DEF HotRow
    <3>2. Ids \subseteq DefaultSubwallet..(MaxUint32 - 1)
      BY WalletsAssumption DEF Ids
    <3>3. DefaultSubwallet \in DefaultSubwallet..(MaxUint32 - 1)
      BY WalletsAssumption
    <3> QED BY <2>0, <3>1, <3>2, <3>3 DEF From, IsTonDeposit, IsJettonOwner
  <2>2. \A r \in Requests : req[r].state \in {"idle", "derive", "answered", "failed"}
    BY DEF WalletsInv, Served, ReqType
  <2> QED BY <2>1, <2>2 DEF WalletsInv, TypeOK, Keys
<1> QED BY <1>1, WalletsAlways, PTL

\* Every wallet of the two tables comes from one seed, whatever seeds the service
\* is started with and wherever its start is broken off.
THEOREM SeedIsKept == Spec => []OneSeed
<1>1. WalletsInv => OneSeed
  <2> SUFFICES ASSUME WalletsInv PROVE OneSeed
    OBVIOUS
  <2>1. PICK s \in Seeds : From(s)
    BY DEF WalletsInv
  <2>2. SeedOf(HighloadWallet(s)) = s
    BY DEF SeedOf, HighloadWallet
  <2>3. ASSUME NEW id PROVE SeedOf(GetSubwallet(s, id)) = s
    BY DEF SeedOf, GetSubwallet
  <2>4. ASSUME NEW id PROVE SeedOf(NewJettonProxy(HighloadWallet(s), id)) = s
    BY DEF SeedOf, NewJettonProxy, HighloadWallet
  <2>5. ASSUME NEW t \in tonWallets PROVE SeedOf(t.address) = s
    <3>1. HotRow(s).address = HighloadWallet(s)
      BY DEF HotRow
    <3> QED BY <2>1, <2>2, <2>3, <2>4, <3>1 DEF From, IsTonDeposit, IsJettonOwner
  <2>6. ASSUME NEW j \in jettonWallets PROVE SeedOf(j.address[2]) = s
    <3>1. CASE IsHotJetton(j, s)
      <4>1. j.address[2] = HighloadWallet(s)
        BY <3>1 DEF IsHotJetton, JettonWallet
      <4> QED BY <2>2, <4>1
    <3>2. ASSUME NEW t \in tonWallets, IsJettonDeposit(j, t) PROVE SeedOf(j.address[2]) = s
      <4>1. j.address[2] = t.address
        BY <3>2 DEF IsJettonDeposit, JettonWallet
      <4> QED BY <2>5, <4>1
    <3> QED BY <2>1, <3>1, <3>2 DEF From
  <2> QED BY <2>5, <2>6 DEF OneSeed
<1> QED BY <1>1, WalletsAlways, PTL

\* Which rows the joins find: a Jetton wallet meets one row of ton_wallets, its
\* owner.
LEMMA JoinOfJetton ==
    ASSUME NEW s \in Seeds, From(s), Keys, NEW j \in jettonWallets
    PROVE  \E t \in tonWallets :
              /\ t.id = j.id /\ t.address = j.address[2] /\ \A u \in tonWallets : u.id = j.id => u = t
              /\ (t = HotRow(s) /\ j.type = "JettonHotWallet") \/ IsJettonDeposit(j, t)
<1>1. CASE IsHotJetton(j, s)
  <2>1. HotRow(s) \in tonWallets
    BY DEF From
  <2>2. HotRow(s).id = j.id /\ HotRow(s).address = HighloadWallet(s) /\ j.type = "JettonHotWallet"
    BY <1>1 DEF HotRow, IsHotJetton
  <2>3. j.address[2] = HighloadWallet(s)
    BY <1>1 DEF IsHotJetton, JettonWallet
  <2> QED BY <2>1, <2>2, <2>3 DEF Keys
<1>2. ASSUME NEW t \in tonWallets, IsJettonDeposit(j, t)
      PROVE  \E u \in tonWallets :
              /\ u.id = j.id /\ u.address = j.address[2] /\ \A x \in tonWallets : x.id = j.id => x = u
              /\ (u = HotRow(s) /\ j.type = "JettonHotWallet") \/ IsJettonDeposit(j, u)
  <2>1. t.id = j.id
    BY <1>2 DEF IsJettonDeposit
  <2>2. t.address = j.address[2]
    BY <1>2 DEF IsJettonDeposit, JettonWallet
  <2> QED BY <1>2, <2>1, <2>2 DEF Keys
<1> QED BY <1>1, <1>2 DEF From

\* A row of each table with one id make a member of the join.
LEMMA InJoin ==
    ASSUME NEW t, NEW j
    PROVE  <<t, j>> \in Join <=> t \in tonWallets /\ j \in jettonWallets /\ t.id = j.id
BY DEF Join

\* The members of the join are such pairs.
LEMMA JoinIsPairs ==
    ASSUME NEW p \in Join
    PROVE  p[1] \in tonWallets /\ p[2] \in jettonWallets /\ p[1].id = p[2].id
BY DEF Join

\* The address book finds the owner that a Jetton wallet is derived from.
THEOREM OwnersAreFound == Spec => []OwnersAreRight
<1>1. WalletsInv => OwnersAreRight
  <2> SUFFICES ASSUME WalletsInv, NEW w \in jettonWallets
               PROVE  GetOwners(w.address) = {w.address[2]}
    BY DEF OwnersAreRight
  <2>1. PICK s \in Seeds : From(s)
    BY DEF WalletsInv
  <2>2. Keys
    BY DEF WalletsInv
  <2>3. PICK t \in tonWallets :
           t.id = w.id /\ t.address = w.address[2] /\ \A u \in tonWallets : u.id = w.id => u = t
    BY <2>1, <2>2, JoinOfJetton
  <2>4. PICK p : p = <<t, w>>
    OBVIOUS
  <2>5. p \in Join /\ p[1] = t /\ p[2] = w
    BY <2>3, <2>4, InJoin
  <2>6. ASSUME NEW q \in Join, q[2].address = w.address PROVE q[1] = t
    <3>1. q[1] \in tonWallets /\ q[2] \in jettonWallets /\ q[1].id = q[2].id
      BY JoinIsPairs
    <3>2. q[2] = w
      BY <2>2, <2>6, <3>1 DEF Keys
    <3> QED BY <2>3, <3>1, <3>2
  <2> QED BY <2>3, <2>5, <2>6 DEF GetOwners
<1> QED BY <1>1, WalletsAlways, PTL

\* An address stands in one row only.
LEMMA AddressUnique ==
    ASSUME NEW s, From(s), Keys, NEW v \in tonWallets, NEW w \in tonWallets, v.address = w.address
    PROVE  v = w
<1>1. CASE v = HotRow(s)
  <2>1. v.address = <<"highload", s, DefaultSubwallet>>
    BY <1>1 DEF HotRow, HighloadWallet
  <2> QED BY <1>1, <2>1 DEF From, IsTonDeposit, IsJettonOwner, GetSubwallet, NewJettonProxy
<1>2. CASE w = HotRow(s)
  <2>1. w.address = <<"highload", s, DefaultSubwallet>>
    BY <1>2 DEF HotRow, HighloadWallet
  <2> QED BY <1>2, <2>1 DEF From, IsTonDeposit, IsJettonOwner, GetSubwallet, NewJettonProxy
<1>3. CASE v # HotRow(s) /\ w # HotRow(s)
  <2>1. ASSUME NEW x \in {v, w}
        PROVE  \/ x.address = <<"subwallet", s, x.id>>
               \/ x.address = <<"proxy", HighloadWallet(s), x.id>>
    BY <1>3 DEF From, IsTonDeposit, IsJettonOwner, GetSubwallet, NewJettonProxy
  <2>2. v.address[3] = v.id /\ w.address[3] = w.id
    BY <2>1
  <2> QED BY <2>2 DEF Keys
<1> QED BY <1>1, <1>2, <1>3

\* What is listed for a user is an address of a row of his.
LEMMA ListedIsOwn ==
    ASSUME NEW s \in Seeds, From(s), Keys, NEW u, NEW a, NEW c, <<a, c>> \in GetAddresses(u)
    PROVE  \E t \in tonWallets : t.address = a /\ t.user = u
<1>1. ASSUME NEW w \in RowsOf("TonDepositWallet"), w.user = u, <<a, c>> = <<w.address, TON>>
      PROVE  \E t \in tonWallets : t.address = a /\ t.user = u
  BY <1>1 DEF RowsOf
<1>2. ASSUME NEW p \in Join, p[2].user = u, p[2].type = "JettonDepositWallet",
             <<a, c>> = <<p[1].address, p[2].currency>>
      PROVE  \E t \in tonWallets : t.address = a /\ t.user = u
  <2>1. p[1] \in tonWallets /\ p[2] \in jettonWallets /\ p[1].id = p[2].id
    BY JoinIsPairs
  <2>2. IsJettonDeposit(p[2], p[1])
    BY <1>2, <2>1, JoinOfJetton
  <2>3. p[1].user = u /\ p[1].address = a
    BY <1>2, <2>2 DEF IsJettonDeposit
  <2> QED BY <2>1, <2>3
<1> QED BY <1>1, <1>2 DEF GetAddresses

\* Two requests never get one address, and what a user was given is listed for
\* him, in the currency he asked for, and for nobody else.
THEOREM AddressesAreOwn == Spec => []AnswersAreOwn
<1>1. WalletsInv => AnswersAreOwn
  <2> SUFFICES ASSUME WalletsInv, NEW r \in Requests, req[r].state = "answered"
               PROVE  /\ \A q \in Requests : req[q].answer = req[r].answer => q = r
                      /\ <<req[r].answer, req[r].currency>> \in GetAddresses(req[r].user)
                      /\ \A u \in Users : (\E c \in {TON} \cup DOMAIN jettons :
                            <<req[r].answer, c>> \in GetAddresses(u)) => u = req[r].user
    BY DEF AnswersAreOwn
  <2>1. PICK s \in Seeds : From(s)
    BY DEF WalletsInv
  <2>2. Keys /\ Served
    BY DEF WalletsInv
  <2>3. PICK t \in tonWallets : IsAnswer(req[r], t)
    BY <2>2 DEF Served
  <2>4. req[r].answer = t.address /\ t.user = req[r].user
    BY <2>3 DEF IsAnswer
  <2>5. t.address # None
    <3>1. HotRow(s).address # None
      BY DEF HotRow, HighloadWallet, None
    <3>2. \A x, y, z : <<x, y, z>> # <<>>
      OBVIOUS
    <3>3. IsTonDeposit(t, s) => t.address = <<"subwallet", s, t.id>>
      BY DEF IsTonDeposit, GetSubwallet
    <3>4. IsJettonOwner(t, s) => t.address = <<"proxy", HighloadWallet(s), t.id>>
      BY DEF IsJettonOwner, NewJettonProxy
    <3> QED BY <2>1, <3>1, <3>2, <3>3, <3>4 DEF From, None
  <2>6. \A q \in Requests : req[q].answer = req[r].answer => q = r
    BY <2>2, <2>4, <2>5 DEF Served
  <2>7. <<req[r].answer, req[r].currency>> \in GetAddresses(req[r].user)
    <3>1. CASE req[r].currency = TON /\ t.type = "TonDepositWallet"
      BY <2>4, <3>1 DEF GetAddresses, RowsOf
    <3>2. ASSUME NEW j \in jettonWallets, IsJettonDeposit(j, t), j.currency = req[r].currency
          PROVE  <<req[r].answer, req[r].currency>> \in GetAddresses(req[r].user)
      <4>1. PICK p : p = <<t, j>>
        OBVIOUS
      <4>2. p \in Join /\ p[1] = t /\ p[2] = j
        BY <3>2, <4>1, InJoin DEF IsJettonDeposit
      <4>3. j.user = req[r].user /\ j.type = "JettonDepositWallet"
        BY <2>4, <3>2 DEF IsJettonDeposit
      <4> QED BY <2>4, <3>2, <4>2, <4>3 DEF GetAddresses
    <3> QED BY <2>3, <3>1, <3>2 DEF IsAnswer
  <2>8. ASSUME NEW u \in Users, NEW c, <<req[r].answer, c>> \in GetAddresses(u)
        PROVE  u = req[r].user
    <3>1. PICK x \in tonWallets : x.address = t.address /\ x.user = u
      BY <2>1, <2>2, <2>4, <2>8, ListedIsOwn
    <3>2. x = t
      BY <2>1, <2>2, <3>1, AddressUnique
    <3> QED BY <2>4, <3>1, <3>2
  <2> QED BY <2>6, <2>7, <2>8
<1> QED BY <1>1, WalletsAlways, PTL

\* Where a row of a report comes from.
LEMMA ReportedFrom ==
    ASSUME NEW u, NEW a, NEW d \in ReportRows(u, {a})
    PROVE  \/ \E p \in Join : p[2].address = a /\ d = <<p[1], a>>
           \/ \E w \in tonWallets : w.address = a /\ d = <<w, a>>
BY DEF ReportRows

\* What is reported: the Jetton wallets of an owner, and a deposit that has none.
LEMMA IsReported ==
    ASSUME NEW u, NEW a, NEW w \in tonWallets, w.user = u,
           w.type \in {"TonDepositWallet", "JettonOwner"},
           (w.address = a /\ \A q \in Join : q[1] # w)
              \/ \E p \in Join : p[1] = w /\ p[2].address = a
    PROVE  <<w, a>> \in ReportRows(u, {a})
BY DEF ReportRows

\* The first component of an address says what it is.
LEMMA AddressKinds ==
    ASSUME NEW s \in Seeds, From(s), NEW w \in tonWallets, NEW j \in jettonWallets
    PROVE  w.address # j.address
<1>1. w.address[1] \in {"highload", "subwallet", "proxy"}
  <2>1. HotRow(s).address[1] = "highload"
    BY DEF HotRow, HighloadWallet
  <2>2. IsTonDeposit(w, s) => w.address[1] = "subwallet"
    BY DEF IsTonDeposit, GetSubwallet
  <2>3. IsJettonOwner(w, s) => w.address[1] = "proxy"
    BY DEF IsJettonOwner, NewJettonProxy
  <2> QED BY <2>1, <2>2, <2>3 DEF From
<1>2. j.address[1] = "jetton"
  <2>1. IsHotJetton(j, s) => j.address[1] = "jetton"
    BY DEF IsHotJetton, JettonWallet
  <2>2. \A t : IsJettonDeposit(j, t) => j.address[1] = "jetton"
    BY DEF IsJettonDeposit, JettonWallet
  <2> QED BY <2>1, <2>2 DEF From
<1> QED BY <1>1, <1>2

\* Every external income, and every income of the hot wallet from a TON
\* deposit, is reported to exactly one user, exactly once.
THEOREM IncomesReported == Spec => []IncomeReportedOnce
<1>1. WalletsInv => IncomeReportedOnce
  <2> SUFFICES ASSUME WalletsInv,
                      NEW a \in externalIncomes \cup (internalIncomes \cap TonDeposits)
               PROVE  Cardinality(UNION {ReportRows(u, {a}) : u \in Users}) = 1
    BY DEF IncomeReportedOnce
  <2>1. PICK s \in Seeds : From(s)
    BY DEF WalletsInv
  <2>2. Keys /\ a \in TonDeposits \cup JettonDeposits
    BY DEF WalletsInv
  <2> DEFINE R == UNION {ReportRows(u, {a}) : u \in Users}
  <2>3. CASE a \in TonDeposits
    <3>1. PICK w \in tonWallets : w.type = "TonDepositWallet" /\ w.address = a
      BY <2>3 DEF TonDeposits, RowsOf
    <3>2. w.user \in Users
      <4>1. HotRow(s).type = "TonHotWallet"
        BY DEF HotRow
      <4> QED BY <2>1, <3>1, <4>1 DEF From, IsTonDeposit, IsJettonOwner
    <3>3. \A q \in Join : q[1] # w
      <4> SUFFICES ASSUME NEW q \in Join, q[1] = w PROVE FALSE
        OBVIOUS
      <4>1. q[2] \in jettonWallets /\ w.id = q[2].id
        BY JoinIsPairs
      <4>2. w = HotRow(s) \/ IsJettonDeposit(q[2], w)
        BY <2>1, <2>2, <4>1, JoinOfJetton
      <4>3. HotRow(s).type = "TonHotWallet"
        BY DEF HotRow
      <4> QED BY <3>1, <4>2, <4>3 DEF IsJettonDeposit
    <3>4. <<w, a>> \in ReportRows(w.user, {a})
      BY <3>1, <3>3, IsReported
    <3>5. ASSUME NEW u \in Users, NEW d \in ReportRows(u, {a}) PROVE d = <<w, a>>
      <4>0. \/ \E p \in Join : p[2].address = a /\ d = <<p[1], a>>
            \/ \E x \in tonWallets : x.address = a /\ d = <<x, a>>
        BY ReportedFrom
      <4>1. \A p \in Join : p[2].address # a
        BY <2>1, <3>1, JoinIsPairs, AddressKinds
      <4>2. PICK x \in tonWallets : x.address = a /\ d = <<x, a>>
        BY <4>0, <4>1
      <4>3. x = w
        BY <2>1, <2>2, <3>1, <4>2, AddressUnique
      <4> QED BY <4>2, <4>3
    <3>6. R = {<<w, a>>}
      <4>1. PICK e : e = <<w, a>>
        OBVIOUS
      <4>2. e \in R
        BY <3>2, <3>4, <4>1
      <4>3. \A d \in R : d = e
        BY <3>5, <4>1
      <4> HIDE DEF R
      <4> QED BY <4>1, <4>2, <4>3
    <3> HIDE DEF R
    <3>7. Cardinality(R) = 1
      BY <3>6, FS_Singleton
    <3> QED BY <3>7 DEF R
  <2>4. CASE a \in JettonDeposits
    <3>1. PICK j \in jettonWallets : j.type = "JettonDepositWallet" /\ j.address = a
      BY <2>4 DEF JettonDeposits
    <3>2. PICK t \in tonWallets :
             /\ t.id = j.id /\ \A u \in tonWallets : u.id = j.id => u = t
             /\ IsJettonDeposit(j, t)
      BY <2>1, <2>2, <3>1, JoinOfJetton
    <3>3. t.type = "JettonOwner" /\ t.user \in Users
      <4>1. t.type = "JettonOwner"
        BY <3>2 DEF IsJettonDeposit
      <4>2. HotRow(s).type = "TonHotWallet"
        BY DEF HotRow
      <4> QED BY <2>1, <4>1, <4>2 DEF From, IsTonDeposit, IsJettonOwner
    <3>4. <<t, a>> \in ReportRows(t.user, {a})
      <4>1. PICK p : p = <<t, j>>
        OBVIOUS
      <4>2. p \in Join /\ p[1] = t /\ p[2] = j
        BY <3>2, <4>1, InJoin
      <4> QED BY <3>1, <3>3, <4>2, IsReported
    <3>5. ASSUME NEW u \in Users, NEW d \in ReportRows(u, {a}) PROVE d = <<t, a>>
      <4>0. \/ \E p \in Join : p[2].address = a /\ d = <<p[1], a>>
            \/ \E x \in tonWallets : x.address = a /\ d = <<x, a>>
        BY ReportedFrom
      <4>1. \A x \in tonWallets : x.address # a
        BY <2>1, <3>1, AddressKinds
      <4>2. PICK p \in Join : p[2].address = a /\ d = <<p[1], a>>
        BY <4>0, <4>1
      <4>3. p[1] \in tonWallets /\ p[2] \in jettonWallets /\ p[1].id = p[2].id
        BY JoinIsPairs
      <4>4. p[2] = j
        BY <2>2, <3>1, <4>2, <4>3 DEF Keys
      <4> QED BY <3>2, <4>2, <4>3, <4>4
    <3>6. R = {<<t, a>>}
      <4>1. PICK e : e = <<t, a>>
        OBVIOUS
      <4>2. e \in R
        BY <3>3, <3>4, <4>1
      <4>3. \A d \in R : d = e
        BY <3>5, <4>1
      <4> HIDE DEF R
      <4> QED BY <4>1, <4>2, <4>3
    <3> HIDE DEF R
    <3>7. Cardinality(R) = 1
      BY <3>6, FS_Singleton
    <3> QED BY <3>7 DEF R
  <2> QED BY <2>2, <2>3, <2>4
<1> QED BY <1>1, WalletsAlways, PTL

----------------------------------------------------------------------------
(* ServiceWithdrawals                                                      *)

\* What the two goroutines have taken out of the table and what they have put
\* back: the withdrawals processor holds requests that are open, or, while it
\* saves, recorded but not sent.
HotHoldsOpen ==
    /\ hotPc = "query" => hotTasks = {} /\ batch = {}
    /\ hotPc = "build" => batch \cap (hotTasks \cup filled \cup processed) = {}
    /\ hotPc = "save" => hotTasks \subseteq batch
    /\ hotTasks \cap (filled \cup processed) = {}

HotRecords ==
    hotPc = "save" => \A m \in batch \ hotTasks :
        m \in IF IsFilling(m) THEN filled \cup processed ELSE processed

\* The internal processor holds filled requests of deposits, the one that it is
\* about to send processed.
Sending == IF intPc = "send" THEN {NextOf(intTasks)} ELSE {}

InternalHoldsFilled ==
    /\ intPc = "query" => intTasks = {}
    /\ \A m \in intTasks : from[m] \in Deposits
    /\ Sending \subseteq intTasks
    /\ intTasks \ Sending \subseteq filled
    /\ Sending \subseteq processed

\* Nothing that a goroutine is going to send has been sent.
StillUnsent ==
    /\ \A m \in batch : <<m, KindOf(m)>> \notin Sent
    /\ \A m \in intTasks : <<m, "take">> \notin Sent

ServiceInv ==
    /\ ServiceTypeOK
    /\ HotHoldsOpen
    /\ HotRecords
    /\ InternalHoldsFilled
    /\ StillUnsent
    /\ SentIsRecorded

\* The request that a loop takes next is one of its tasks.
LEMMA NextOfIn ==
    ASSUME ServiceTypeOK, NEW tasks \in SUBSET Rows, tasks # {}
    PROVE  NextOf(tasks) \in tasks
<1> DEFINE B == {from[m] : m \in tasks}
<1>1. \A m \in tasks : from[m] \in Nat
  BY ServiceAssumption DEF ServiceTypeOK, Rows, Owners
<1>2. PICK n \in B : \A k \in B : n <= k
  <2>1. B \in SUBSET Nat /\ B # {}
    BY <1>1
  <2> HIDE DEF B
  <2> QED BY <2>1, LeastSize
<1>3. PICK m \in tasks : n = from[m]
  OBVIOUS
<1>4. \A k \in tasks : from[m] <= from[k]
  BY <1>2, <1>3
<1> QED BY <1>4 DEF NextOf

\* The tables of a step that leaves the requests and their flags alone.
LEMMA CreateRequestStep ==
    ASSUME ServiceInv, NEW m \in Memos, NEW o \in Owners,
           NEW j \in {"none", "own", "foreign"}, CreateServiceWithdrawalRequest(m, o, j)
    PROVE  ServiceInv'
<1> USE DEF CreateServiceWithdrawalRequest, chainVars, hotVars, intVars
<1>1. m \notin Rows /\ o # 0 /\ Rows' = Rows \cup {m}
  BY ServiceAssumption DEF ServiceInv, ServiceTypeOK, Rows, Owners
<1>2. \A n \in Rows : from'[n] = from[n]
  BY <1>1 DEF ServiceInv, ServiceTypeOK, Rows
<1>3. ServiceTypeOK'
  BY <1>1 DEF ServiceInv, ServiceTypeOK, Sent
<1>4. \A n \in Rows : IsFilling(n)' = IsFilling(n) /\ KindOf(n)' = KindOf(n)
  BY <1>2 DEF IsFilling, KindOf
<1>5. HotHoldsOpen' /\ SentIsRecorded'
  BY DEF ServiceInv, HotHoldsOpen, SentIsRecorded, Sent
<1>6. HotRecords'
  BY <1>4 DEF ServiceInv, ServiceTypeOK, HotRecords
<1>7. Sending' = Sending
  <2>1. \A n \in intTasks : from'[n] = from[n]
    BY <1>2 DEF ServiceInv, ServiceTypeOK
  <2>2. NextOf(intTasks)' = NextOf(intTasks)
    BY <2>1 DEF NextOf
  <2> QED BY <2>2 DEF Sending
<1>8. InternalHoldsFilled'
  BY <1>2, <1>7 DEF ServiceInv, ServiceTypeOK, InternalHoldsFilled
<1>9. StillUnsent'
  BY <1>4 DEF ServiceInv, ServiceTypeOK, StillUnsent, Sent
<1> QED BY <1>3, <1>5, <1>6, <1>8, <1>9 DEF ServiceInv

LEMMA HotQueryStep ==
    ASSUME ServiceInv, NEW tasks \in SUBSET Memos, GetServiceHotWithdrawalTasks(tasks)
    PROVE  ServiceInv'
<1> USE DEF GetServiceHotWithdrawalTasks, tableVars, chainVars, intVars, Rows
<1>1. tasks \subseteq OpenForHot
  BY DEF Selected
<1>2. ServiceTypeOK'
  BY <1>1 DEF ServiceInv, ServiceTypeOK, OpenForHot, Sent
<1>3. HotHoldsOpen' /\ SentIsRecorded' /\ HotRecords'
  BY <1>1 DEF ServiceInv, HotHoldsOpen, SentIsRecorded, Sent, HotRecords, OpenForHot
<1>4. InternalHoldsFilled'
  BY DEF ServiceInv, InternalHoldsFilled, Sending, NextOf
<1>5. StillUnsent'
  BY DEF ServiceInv, StillUnsent, Sent, KindOf, IsFilling
<1> QED BY <1>2, <1>3, <1>4, <1>5 DEF ServiceInv

LEMMA DepositQueryStep ==
    ASSUME ServiceInv, NEW tasks \in SUBSET Memos, GetServiceDepositWithdrawalTasks(tasks)
    PROVE  ServiceInv'
<1> USE DEF GetServiceDepositWithdrawalTasks, tableVars, chainVars, hotVars, Rows
<1>1. tasks \subseteq OpenForDeposit
  BY DEF Selected
<1>2. ServiceTypeOK'
  BY <1>1 DEF ServiceInv, ServiceTypeOK, OpenForDeposit, Sent
<1>3. HotHoldsOpen' /\ SentIsRecorded' /\ HotRecords'
  BY DEF ServiceInv, HotHoldsOpen, SentIsRecorded, Sent, HotRecords, IsFilling
<1>4. InternalHoldsFilled'
  BY <1>1 DEF ServiceInv, InternalHoldsFilled, Sending, OpenForDeposit
<1>5. StillUnsent'
  <2>1. \A m \in tasks : <<m, "take">> \notin Sent
    BY <1>1 DEF ServiceInv, SentIsRecorded, OpenForDeposit
  <2> QED BY <2>1 DEF ServiceInv, StillUnsent, Sent, KindOf, IsFilling
<1> QED BY <1>2, <1>3, <1>4, <1>5 DEF ServiceInv

\* buildServiceWithdrawalMessage closes a request that nobody else holds.
LEMMA BuildStep ==
    ASSUME ServiceInv, NEW covered \in BOOLEAN, BuildServiceWithdrawalMessage(covered)
    PROVE  ServiceInv'
<1> DEFINE m == NextOf(hotTasks)
<1> USE DEF chainVars, intVars, Rows
<1>1. /\ hotPc = "build" /\ hotPc' = hotPc
      /\ hotTasks # {} /\ hotTasks' = hotTasks \ {m}
      /\ \/ batch' \in {batch, batch \cup {m}} /\ filled' = filled /\ processed' = processed
         \/ batch' = batch /\ filled' = filled \ {m} /\ processed' = processed \cup {m}
      /\ faults' \in Nat
      /\ UNCHANGED <<from, master, chainVars, hotPc, intVars>>
  <2>1. faults' \in Nat
    BY DEF BuildServiceWithdrawalMessage, ServiceInv, ServiceTypeOK
  <2> HIDE DEF m
  <2> QED BY <2>1 DEF BuildServiceWithdrawalMessage, UpdateServiceWithdrawalRequest, m
<1>2. m \in hotTasks
  BY <1>1, NextOfIn DEF ServiceInv, ServiceTypeOK
<1> HIDE DEF m
<1>3. m \in Memos /\ from[m] # 0 /\ m \notin filled /\ m \notin processed
  BY <1>2 DEF ServiceInv, ServiceTypeOK, HotHoldsOpen
<1>4. ServiceTypeOK'
  BY <1>1, <1>2, <1>3 DEF ServiceInv, ServiceTypeOK, Sent
<1>5. HotHoldsOpen' /\ HotRecords'
  BY <1>1, <1>2, <1>3 DEF ServiceInv, HotHoldsOpen, HotRecords
<1>6. SentIsRecorded'
  BY <1>1, <1>3 DEF ServiceInv, SentIsRecorded, Sent
<1>7. InternalHoldsFilled'
  <2>1. Sending' = Sending
    BY <1>1 DEF Sending, NextOf
  <2> QED BY <1>1, <1>3, <2>1 DEF ServiceInv, InternalHoldsFilled
<1>8. StillUnsent'
  <2>1. <<m, KindOf(m)>> \notin Sent
    BY <1>3 DEF ServiceInv, SentIsRecorded, KindOf
  <2> QED BY <1>1, <2>1 DEF ServiceInv, StillUnsent, Sent, KindOf, IsFilling
<1> QED BY <1>4, <1>5, <1>6, <1>7, <1>8 DEF ServiceInv

LEMMA FinishBuildStep ==
    ASSUME ServiceInv, FinishBuild
    PROVE  ServiceInv'
<1> USE DEF FinishBuild, tableVars, chainVars, intVars, Rows
<1>1. ServiceTypeOK'
  BY DEF ServiceInv, ServiceTypeOK, Sent
<1>2. HotHoldsOpen' /\ SentIsRecorded' /\ HotRecords'
  BY DEF ServiceInv, HotHoldsOpen, SentIsRecorded, Sent, HotRecords
<1>3. InternalHoldsFilled'
  BY DEF ServiceInv, InternalHoldsFilled, Sending, NextOf
<1>4. StillUnsent'
  BY DEF ServiceInv, StillUnsent, Sent, KindOf, IsFilling
<1> QED BY <1>1, <1>2, <1>3, <1>4 DEF ServiceInv

LEMMA SaveStep ==
    ASSUME ServiceInv, SaveService
    PROVE  ServiceInv'
<1> DEFINE m == NextOf(hotTasks)
<1> USE DEF chainVars, intVars, Rows
<1>1. /\ hotPc = "save" /\ hotPc' = hotPc
      /\ hotTasks # {} /\ hotTasks' = hotTasks \ {m}
      /\ filled' = IF IsFilling(m) THEN filled \cup {m} ELSE filled \ {m}
      /\ processed' = IF IsFilling(m) THEN processed \ {m} ELSE processed \cup {m}
      /\ UNCHANGED <<from, master, chainVars, batch, intVars, faults>>
  BY DEF SaveService, UpdateServiceWithdrawalRequest
<1>2. m \in hotTasks
  BY <1>1, NextOfIn DEF ServiceInv, ServiceTypeOK
<1> HIDE DEF m
<1>3. m \in Memos /\ from[m] # 0 /\ m \notin filled /\ m \notin processed
  BY <1>2 DEF ServiceInv, ServiceTypeOK, HotHoldsOpen
<1>4. ServiceTypeOK'
  BY <1>1, <1>3 DEF ServiceInv, ServiceTypeOK, Sent
<1>5. HotHoldsOpen'
  BY <1>1, <1>3 DEF ServiceInv, HotHoldsOpen
<1>6. HotRecords'
  <2> SUFFICES ASSUME NEW n \in batch' \ hotTasks'
               PROVE  n \in IF IsFilling(n)' THEN filled' \cup processed' ELSE processed'
    BY DEF HotRecords
  <2>1. IsFilling(n)' = IsFilling(n)
    BY <1>1 DEF IsFilling
  <2>2. CASE n = m
    BY <1>1, <2>1, <2>2
  <2>3. CASE n # m
    <3>1. n \in batch \ hotTasks
      BY <1>1, <2>3
    <3> QED BY <1>1, <2>1, <2>3, <3>1 DEF ServiceInv, HotRecords
  <2> QED BY <2>2, <2>3
<1>7. SentIsRecorded'
  BY <1>1, <1>3 DEF ServiceInv, SentIsRecorded, Sent
<1>8. InternalHoldsFilled'
  <2>1. Sending' = Sending
    BY <1>1 DEF Sending, NextOf
  <2>2. filled \subseteq filled' /\ processed \subseteq processed'
    BY <1>1, <1>3
  <2> QED BY <1>1, <2>1, <2>2 DEF ServiceInv, InternalHoldsFilled
<1>9. StillUnsent'
  BY <1>1 DEF ServiceInv, StillUnsent, Sent, KindOf, IsFilling
<1> QED BY <1>4, <1>5, <1>6, <1>7, <1>8, <1>9 DEF ServiceInv

LEMMA SendStep ==
    ASSUME ServiceInv, SendExternalMessage
    PROVE  ServiceInv'
<1> USE DEF tableVars, intVars, Rows
<1>1. /\ hotPc = "save" /\ hotTasks = {} /\ hotTasks' = hotTasks
      /\ hotPc' = "query" /\ batch' = {}
      /\ Sent' = Sent \cup {<<m, KindOf(m)>> : m \in batch}
      /\ UNCHANGED <<tableVars, tonFunds, jettonFunds, intVars, faults>>
  BY DEF SendExternalMessage, Sent
<1>2. \A m \in batch : KindOf(m) \in {"fill", "take"}
  BY DEF KindOf
<1>3. ServiceTypeOK'
  BY <1>1, <1>2 DEF ServiceInv, ServiceTypeOK
<1>4. HotHoldsOpen' /\ HotRecords'
  BY <1>1 DEF HotHoldsOpen, HotRecords
<1>5. SentIsRecorded'
  <2> SUFFICES ASSUME NEW s \in Sent'
               PROVE  s[1] \in IF s[2] = "fill" THEN filled \cup processed ELSE processed
    BY <1>1 DEF SentIsRecorded
  <2>1. CASE s \in Sent
    BY <2>1 DEF ServiceInv, SentIsRecorded
  <2>2. ASSUME NEW m \in batch, s = <<m, KindOf(m)>>
        PROVE  s[1] \in IF s[2] = "fill" THEN filled \cup processed ELSE processed
    <3>1. m \in IF IsFilling(m) THEN filled \cup processed ELSE processed
      BY <1>1 DEF ServiceInv, HotRecords
    <3>2. s[1] = m /\ (s[2] = "fill" <=> IsFilling(m))
      BY <2>2 DEF KindOf
    <3> QED BY <3>1, <3>2
  <2> QED BY <1>1, <2>1, <2>2
<1>6. InternalHoldsFilled'
  BY <1>1 DEF ServiceInv, InternalHoldsFilled, Sending, NextOf
<1>7. StillUnsent'
  <2>1. \A m \in intTasks : <<m, "take">> \notin {<<n, KindOf(n)>> : n \in batch}
    BY DEF ServiceInv, InternalHoldsFilled, KindOf, IsFilling
  <2> QED BY <1>1, <2>1 DEF ServiceInv, StillUnsent
<1> QED BY <1>3, <1>4, <1>5, <1>6, <1>7 DEF ServiceInv

LEMMA WithdrawJettonsStep ==
    ASSUME ServiceInv, ServiceWithdrawJettons
    PROVE  ServiceInv'
<1> DEFINE m == NextOf(intTasks)
<1> USE DEF chainVars, hotVars, Rows
<1>1. /\ intPc = "task" /\ intTasks # {}
      /\ \/ /\ intPc' = "send" /\ intTasks' = intTasks
            /\ filled' = filled \ {m} /\ processed' = processed \cup {m}
         \/ /\ intPc' = intPc /\ intTasks' = intTasks \ {m}
            /\ filled' = filled /\ processed' = processed
      /\ UNCHANGED <<from, master, chainVars, hotVars, faults>>
  BY DEF ServiceWithdrawJettons, UpdateServiceWithdrawalRequest
<1>2. m \in intTasks
  BY <1>1, NextOfIn DEF ServiceInv, ServiceTypeOK
<1>3. Sending = {} /\ Sending' = IF intPc' = "send" THEN {m} ELSE {}
  BY <1>1 DEF Sending, NextOf
<1> HIDE DEF m
<1>4. m \in filled /\ m \in Memos /\ from[m] # 0 /\ from[m] \in Deposits
  BY <1>2, <1>3 DEF ServiceInv, ServiceTypeOK, InternalHoldsFilled
<1>5. ServiceTypeOK'
  BY <1>1, <1>4 DEF ServiceInv, ServiceTypeOK, Sent
<1>6. HotHoldsOpen' /\ HotRecords'
  <2>1. filled' \cup processed' = filled \cup processed /\ processed \subseteq processed'
    BY <1>1, <1>4
  <2>2. HotHoldsOpen'
    BY <1>1, <2>1 DEF ServiceInv, HotHoldsOpen
  <2>3. HotRecords'
    BY <1>1, <2>1 DEF ServiceInv, HotRecords, IsFilling
  <2> QED BY <2>2, <2>3
<1>7. SentIsRecorded'
  BY <1>1 DEF ServiceInv, SentIsRecorded, Sent
<1>8. InternalHoldsFilled'
  BY <1>1, <1>2, <1>3, <1>4 DEF ServiceInv, InternalHoldsFilled
<1>9. StillUnsent'
  BY <1>1 DEF ServiceInv, StillUnsent, Sent, KindOf, IsFilling
<1> QED BY <1>5, <1>6, <1>7, <1>8, <1>9 DEF ServiceInv

LEMMA WithdrawJettonStep ==
    ASSUME ServiceInv, WithdrawJetton
    PROVE  ServiceInv'
<1> DEFINE m == NextOf(intTasks)
<1> USE DEF tableVars, hotVars, Rows
<1>1. /\ intPc = "send" /\ intPc' = "task" /\ intTasks' = intTasks \ {m}
      /\ Sent' = Sent \cup {<<m, "take">>}
      /\ UNCHANGED <<tableVars, tonFunds, jettonFunds, hotVars, faults>>
  BY DEF WithdrawJetton, Sent
<1>2. Sending = {m} /\ Sending' = {}
  BY <1>1 DEF Sending
<1> HIDE DEF m
<1>3. m \in intTasks /\ m \in processed /\ from[m] \in Deposits
  BY <1>2 DEF ServiceInv, InternalHoldsFilled
<1>4. ServiceTypeOK'
  BY <1>1, <1>3 DEF ServiceInv, ServiceTypeOK
<1>5. HotHoldsOpen' /\ HotRecords'
  BY <1>1 DEF ServiceInv, HotHoldsOpen, HotRecords, IsFilling
<1>6. SentIsRecorded'
  BY <1>1, <1>3 DEF ServiceInv, SentIsRecorded
<1>7. InternalHoldsFilled'
  BY <1>1, <1>2 DEF ServiceInv, InternalHoldsFilled
<1>8. StillUnsent'
  <2>1. \A n \in batch : <<n, KindOf(n)>> # <<m, "take">>
    BY <1>3 DEF KindOf, IsFilling
  <2>2. \A n \in batch : KindOf(n)' = KindOf(n)
    BY <1>1 DEF KindOf, IsFilling
  <2> QED BY <1>1, <2>1, <2>2 DEF ServiceInv, StillUnsent
<1> QED BY <1>4, <1>5, <1>6, <1>7, <1>8 DEF ServiceInv

LEMMA TaskEndStep ==
    ASSUME ServiceInv, ServiceError \/ EndOfTasks
    PROVE  ServiceInv'
<1> USE DEF tableVars, chainVars, hotVars, Rows
<1>1. /\ intPc = "task" /\ intTasks' \subseteq intTasks /\ faults' \in Nat
      /\ intPc' = "task" \/ (intPc' = "query" /\ intTasks' = {})
      /\ UNCHANGED <<tableVars, chainVars, hotVars>>
  BY DEF ServiceError, EndOfTasks, Fault, ServiceInv, ServiceTypeOK
<1>2. Sending = {} /\ Sending' = {}
  BY <1>1 DEF Sending
<1>3. ServiceTypeOK'
  BY <1>1 DEF ServiceInv, ServiceTypeOK, Sent
<1>4. HotHoldsOpen' /\ SentIsRecorded' /\ HotRecords'
  BY <1>1 DEF ServiceInv, HotHoldsOpen, SentIsRecorded, Sent, HotRecords, IsFilling
<1>5. InternalHoldsFilled'
  BY <1>1, <1>2 DEF ServiceInv, InternalHoldsFilled
<1>6. StillUnsent'
  BY <1>1 DEF ServiceInv, StillUnsent, Sent, KindOf, IsFilling
<1> QED BY <1>3, <1>4, <1>5, <1>6 DEF ServiceInv

\* The chain moves funds and executes or drops messages.
LEMMA ChainStep ==
    ASSUME ServiceInv,
           \/ \E o \in Owners, what \in {"tons", "jettons"} : Arrive(o, what)
           \/ \E m \in Memos, kind \in {"fill", "take"} : Execute(m, kind) \/ Lose(m, kind)
           \/ \E o \in Deposits : Sweep(o)
    PROVE  ServiceInv'
<1> USE DEF tableVars, hotVars, intVars, Rows
<1>1. /\ Sent' \subseteq Sent
      /\ tonFunds' \cup jettonFunds' \subseteq Owners
      /\ faults' \in Nat
      /\ UNCHANGED <<tableVars, hotVars, intVars>>
  <2>1. ASSUME NEW o \in Owners, NEW what \in {"tons", "jettons"}, Arrive(o, what)
        PROVE  <1>1
    BY <2>1 DEF Arrive, Sent, ServiceInv, ServiceTypeOK
  <2>2. ASSUME NEW m \in Memos, NEW kind \in {"fill", "take"}, Execute(m, kind)
        PROVE  <1>1
    <3>1. from[m] \in Owners
      BY <2>2 DEF Execute, Sent, ServiceInv, ServiceTypeOK
    <3>2. tonFunds' \in {tonFunds, tonFunds \cup {from[m]}, tonFunds \ {from[m]}}
      BY <2>2 DEF Execute
    <3>3. jettonFunds' \subseteq jettonFunds
      BY <2>2 DEF Execute
    <3>4. Sent' = Sent /\ faults' = faults /\ UNCHANGED <<tableVars, hotVars, intVars>>
      BY <2>2 DEF Execute, Sent
    <3> QED BY <3>1, <3>2, <3>3, <3>4 DEF ServiceInv, ServiceTypeOK
  <2>3. ASSUME NEW m \in Memos, NEW kind \in {"fill", "take"}, Lose(m, kind)
        PROVE  <1>1
    BY <2>3 DEF Lose, Fault, Sent, ServiceInv, ServiceTypeOK
  <2>4. ASSUME NEW o \in Deposits, Sweep(o)
        PROVE  <1>1
    BY <2>4 DEF Sweep, Fault, Sent, ServiceInv, ServiceTypeOK
  <2> QED BY <2>1, <2>2, <2>3, <2>4
<1>2. ServiceTypeOK'
  BY <1>1 DEF ServiceInv, ServiceTypeOK
<1>3. HotHoldsOpen' /\ SentIsRecorded' /\ HotRecords'
  BY <1>1 DEF ServiceInv, HotHoldsOpen, SentIsRecorded, HotRecords, IsFilling
<1>4. InternalHoldsFilled'
  BY <1>1 DEF ServiceInv, InternalHoldsFilled, Sending, NextOf
<1>5. StillUnsent'
  BY <1>1 DEF ServiceInv, StillUnsent, KindOf, IsFilling
<1> QED BY <1>2, <1>3, <1>4, <1>5 DEF ServiceInv

\* The process dies and starts again with nothing in its hands.
LEMMA DeathStep ==
    ASSUME ServiceInv, Crash \/ FatalTask
    PROVE  ServiceInv'
<1> USE DEF tableVars, chainVars, Rows
<1>1. /\ hotPc' = "query" /\ hotTasks' = {} /\ batch' = {}
      /\ intPc' = "query" /\ intTasks' = {} /\ faults' \in Nat
      /\ UNCHANGED <<tableVars, chainVars>>
  BY DEF Crash, FatalTask, Fault, ServiceInv, ServiceTypeOK
<1>2. ServiceTypeOK'
  BY <1>1 DEF ServiceInv, ServiceTypeOK, Sent
<1>3. HotHoldsOpen' /\ SentIsRecorded' /\ HotRecords'
  BY <1>1 DEF ServiceInv, HotHoldsOpen, SentIsRecorded, Sent, HotRecords
<1>4. InternalHoldsFilled' /\ StillUnsent'
  BY <1>1 DEF InternalHoldsFilled, Sending, StillUnsent
<1> QED BY <1>2, <1>3, <1>4 DEF ServiceInv

LEMMA ServiceInvInit == ServiceInit => ServiceInv
<1> SUFFICES ASSUME ServiceInit PROVE ServiceInv
  OBVIOUS
<1> USE DEF ServiceInit, Sent, Rows
<1>1. ServiceTypeOK
  BY DEF ServiceTypeOK
<1>2. HotHoldsOpen /\ SentIsRecorded /\ HotRecords
  BY DEF HotHoldsOpen, SentIsRecorded, HotRecords
<1>3. InternalHoldsFilled /\ StillUnsent
  BY DEF InternalHoldsFilled, Sending, StillUnsent
<1> QED BY <1>1, <1>2, <1>3 DEF ServiceInv

LEMMA ServiceInvStep == ServiceInv /\ [ServiceNext]_serviceVars => ServiceInv'
<1> SUFFICES ASSUME ServiceInv, [ServiceNext]_serviceVars PROVE ServiceInv'
  OBVIOUS
<1>1. CASE UNCHANGED serviceVars
  <2> USE <1>1 DEF serviceVars, tableVars, chainVars, hotVars, intVars
  <2>1. ServiceTypeOK' /\ HotHoldsOpen' /\ HotRecords'
    BY DEF ServiceInv, ServiceTypeOK, HotHoldsOpen, HotRecords, Sent, Rows, IsFilling
  <2>2. InternalHoldsFilled' /\ StillUnsent' /\ SentIsRecorded'
    BY DEF ServiceInv, InternalHoldsFilled, StillUnsent, SentIsRecorded, Sending,
           NextOf, Sent, KindOf, IsFilling
  <2> QED BY <2>1, <2>2 DEF ServiceInv
<1>2. CASE ServiceNext
  BY <1>2, CreateRequestStep, HotQueryStep, DepositQueryStep, BuildStep, FinishBuildStep,
     SaveStep, SendStep, WithdrawJettonsStep, WithdrawJettonStep, TaskEndStep,
     ChainStep, DeathStep DEF ServiceNext
<1> QED BY <1>1, <1>2

\* The type invariant: the flags, the goroutines' tasks and the messages are
\* about requests of the table, wherever the goroutines and the crashes meet.
THEOREM ServiceTyped == ServiceSpec => []ServiceTypeOK
<1>1. ServiceInv => ServiceTypeOK
  BY DEF ServiceInv
<1> QED BY <1>1, ServiceInvInit, ServiceInvStep, PTL DEF ServiceSpec

\* The flags are never behind the messages: the UPDATE of the processors comes
\* before their send, so a message that was sent has its request filled or
\* processed, whatever crashes, failed updates and lost messages do.
THEOREM RecordedBeforeSent == ServiceSpec => []SentIsRecorded
<1>1. ServiceInv => SentIsRecorded
  BY DEF ServiceInv
<1> QED BY <1>1, ServiceInvInit, ServiceInvStep, PTL DEF ServiceSpec

\* A request is sent once: neither the withdrawals processor nor the internal
\* one sends a message that was already sent for the request, not even when the
\* first one is lost, and although each works from a list it read earlier.
THEOREM NoRequestSentTwice == ServiceSpec => SentOnce
<1>1. ASSUME ServiceInv, SendExternalMessage
      PROVE  {<<m, KindOf(m)>> : m \in batch} \cap Sent = {}
  BY <1>1 DEF ServiceInv, StillUnsent
<1>2. ASSUME ServiceInv, WithdrawJetton
      PROVE  <<NextOf(intTasks), "take">> \notin Sent
  BY <1>2 DEF ServiceInv, StillUnsent, InternalHoldsFilled, Sending, WithdrawJetton
<1> QED BY <1>1, <1>2, ServiceInvInit, ServiceInvStep, PTL DEF ServiceSpec, SentOnce

=============================================================================
