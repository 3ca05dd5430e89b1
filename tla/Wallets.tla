------------------------------ MODULE Wallets ------------------------------
(***************************************************************************)
(* The wallets of the service: how ton_wallets and jetton_wallets come to   *)
(* be, at start (InitWallets) and by concurrent requests for a new deposit  *)
(* address, and what is read out of them by joining the two tables on the   *)
(* subwallet_id: the owner of a Jetton wallet, the addresses of a user, the *)
(* incomes of a user.                                                       *)
(*                                                                         *)
(* An address is the tuple it is derived from, since derivation is a hash.  *)
(* The process dies at any point and is started again, perhaps with another *)
(* configuration.  A request reads the greatest subwallet_id, derives the   *)
(* next one in the shard of the hot wallet, and inserts; only the unique    *)
(* keys stand between two requests.                                         *)
(***************************************************************************)
EXTENDS Integers, FiniteSetsExt

CONSTANTS
    Users, Requests,
    Seeds,              \* seeds the service is started with
    Configs,            \* config.Jettons it is started with, [currency -> master]
    DefaultSubwallet,   \* wallet.DefaultSubwallet
    MaxUint32,          \* math.MaxUint32
    TonInShard,         \* ids whose subwallet lies in the hot wallet's shard
    JettonInShard,      \* JettonInShard[master]: ids whose Jetton wallet does
    MaxStarts           \* bound on the starts of the process

ASSUME WalletsAssumption ==
    /\ DefaultSubwallet \in Nat /\ MaxUint32 \in Nat /\ DefaultSubwallet < MaxUint32
    /\ TonInShard \subseteq Nat /\ MaxStarts \in Nat

TON  == "TON"
None == <<>>

VARIABLES
    seed, jettons,  \* config.Config of the running process
    pc,             \* down, hot and jettons (InitWallets), serving
    todo,           \* currencies whose hot wallet InitWallets has not got to
    starts,
    tonWallets,     \* payments.ton_wallets
    jettonWallets,  \* payments.jetton_wallets
    req,            \* the API requests for a new address
    externalIncomes,  \* deposit_address of the rows of external_incomes
    internalIncomes   \* deposit_address of the rows of internal_incomes

walletVars == <<tonWallets, jettonWallets>>
incomeVars == <<externalIncomes, internalIncomes>>
procVars   == <<seed, jettons, pc, todo, starts>>
vars       == <<procVars, walletVars, req, incomeVars>>

NoRequest == [state |-> "idle", user |-> None, currency |-> TON, last |-> 0, answer |-> None]

Init ==
    /\ seed \in Seeds /\ jettons \in Configs
    /\ pc = "down" /\ todo = {} /\ starts = 0
    /\ tonWallets = {} /\ jettonWallets = {}
    /\ req = [r \in Requests |-> NoRequest]
    /\ externalIncomes = {} /\ internalIncomes = {}

----------------------------------------------------------------------------
(* Addresses                                                               *)

HighloadWallet(s)           == <<"highload", s, DefaultSubwallet>>
GetSubwallet(s, id)         == <<"subwallet", s, id>>
NewJettonProxy(owner, id)   == <<"proxy", owner, id>>
JettonWallet(owner, master) == <<"jetton", owner, master>>

RowsOf(type) == {w \in tonWallets : w.type = type}

----------------------------------------------------------------------------
(* Start and stop                                                          *)

Start(s, config) ==
    /\ pc = "down"
    /\ starts < MaxStarts
    /\ starts' = starts + 1
    /\ seed' = s /\ jettons' = config
    /\ pc' = "hot" /\ todo' = DOMAIN config
    /\ UNCHANGED <<walletVars, req, incomeVars>>

\* InitWallets returns an error (the node, the balance, the deployment, the
\* database), or the process dies; requests under way are gone
Stop ==
    /\ pc # "down"
    /\ pc' = "down" /\ todo' = {}
    /\ req' = [r \in Requests |->
          IF req[r].state = "derive" THEN [req[r] EXCEPT !.state = "failed"] ELSE req[r]]
    /\ UNCHANGED <<seed, jettons, starts, walletVars, incomeVars>>

\* Wrong on purpose: any saved hot wallet will do.
HotWalletUnchecked == TRUE

\* "saved hot wallet not equal generated hot wallet. Maybe seed was being changed"
HotWalletMatches == \A w \in RowsOf("TonHotWallet") : w.address = HighloadWallet(seed)

InitTonHotWallet ==
    /\ pc = "hot"
    /\ HotWalletMatches
    /\ tonWallets' = IF RowsOf("TonHotWallet") = {}
          THEN tonWallets \cup {[id |-> DefaultSubwallet, user |-> None,
                                 type |-> "TonHotWallet", address |-> HighloadWallet(seed)]}
          ELSE tonWallets
    /\ pc' = IF todo = {} THEN "serving" ELSE "jettons"
    /\ UNCHANGED <<seed, jettons, todo, starts, jettonWallets, req, incomeVars>>

\* "jetton hot wallet address duplication"
HotJettonMatches(currency) ==
    \A w \in jettonWallets :
        w.address = JettonWallet(HighloadWallet(seed), jettons[currency])
            => w.currency = currency

InitJettonHotWallet(currency) ==
    LET addr == JettonWallet(HighloadWallet(seed), jettons[currency])
    IN /\ pc = "jettons"
       /\ currency \in todo
       /\ HotJettonMatches(currency)
       /\ jettonWallets' = IF \E w \in jettonWallets : w.address = addr
             THEN jettonWallets
             ELSE jettonWallets \cup
                    {[id |-> DefaultSubwallet, user |-> None, currency |-> currency,
                      type |-> "JettonHotWallet", address |-> addr]}
       /\ todo' = todo \ {currency}
       /\ pc' = IF todo' = {} THEN "serving" ELSE "jettons"
       /\ UNCHANGED <<seed, jettons, starts, tonWallets, req, incomeVars>>

----------------------------------------------------------------------------
(* A new deposit address                                                   *)

GetLastSubwalletID ==
    IF tonWallets = {} THEN DefaultSubwallet ELSE Max({w.id : w \in tonWallets})

\* CreateAddress up to the reading of the last id
CreateAddress(r, user, currency) ==
    /\ pc = "serving"
    /\ req[r].state = "idle"
    /\ currency \in {TON} \cup DOMAIN jettons
    /\ req' = [req EXCEPT ![r] = [state |-> "derive", user |-> user, currency |-> currency,
                                  last |-> GetLastSubwalletID, answer |-> None]]
    /\ UNCHANGED <<procVars, walletVars, incomeVars>>

\* the loops of GenerateSubWallet and GenerateDepositJettonWalletForProxy: ids
\* from the one after the last, a uint32, below MaxUint32, in the shard
Candidates(r) ==
    {id \in (req[r].last + 1) % (MaxUint32 + 1) .. MaxUint32 - 1 :
        id \in IF req[r].currency = TON THEN TonInShard
               ELSE JettonInShard[jettons[req[r].currency]]}

\* Wrong on purpose: subwallet_id is not unique.
IdMayRepeat(id) == TRUE

\* the unique key of ton_wallets
IdIsFree(id) == \A w \in tonWallets : w.id # id

Finish(r, state, answer) ==
    req' = [req EXCEPT ![r].state = state, ![r].answer = answer]

\* createTonAddress; the row may be saved and the answer not arrive
CreateTonAddress(r, answered) ==
    LET id == Min(Candidates(r))
        addr == GetSubwallet(seed, id)
    IN /\ pc = "serving"
       /\ req[r].state = "derive" /\ req[r].currency = TON
       /\ Candidates(r) # {} /\ IdIsFree(id)
       /\ tonWallets' = tonWallets \cup
             {[id |-> id, user |-> req[r].user, type |-> "TonDepositWallet", address |-> addr]}
       /\ IF answered THEN Finish(r, "answered", addr) ELSE Finish(r, "failed", None)
       /\ UNCHANGED <<procVars, jettonWallets, incomeVars>>

\* createJettonAddress: SaveJettonWallet inserts the owner and the Jetton
\* wallet in one transaction; the user is given the owner's address
CreateJettonAddress(r, answered) ==
    LET id == Min(Candidates(r))
        owner == NewJettonProxy(HighloadWallet(seed), id)
        addr == JettonWallet(owner, jettons[req[r].currency])
    IN /\ pc = "serving"
       /\ req[r].state = "derive" /\ req[r].currency # TON
       /\ Candidates(r) # {} /\ IdIsFree(id)
       /\ tonWallets' = tonWallets \cup
             {[id |-> id, user |-> req[r].user, type |-> "JettonOwner", address |-> owner]}
       /\ jettonWallets' = jettonWallets \cup
             {[id |-> id, user |-> req[r].user, currency |-> req[r].currency,
               type |-> "JettonDepositWallet", address |-> addr]}
       /\ IF answered THEN Finish(r, "answered", owner) ELSE Finish(r, "failed", None)
       /\ UNCHANGED <<procVars, incomeVars>>

\* no id left in the shard, a unique key, or an error before anything is saved
RefuseAddress(r) ==
    /\ req[r].state = "derive"
    /\ Finish(r, "failed", None)
    /\ UNCHANGED <<procVars, walletVars, incomeVars>>

----------------------------------------------------------------------------
(* Incomes of the deposits, and the reports                                *)

SaveExternalIncome(to) ==
    /\ to \notin externalIncomes
    /\ externalIncomes' = externalIncomes \cup {to}
    /\ UNCHANGED <<procVars, walletVars, req, internalIncomes>>

\* from is the address of the TON deposit or of the Jetton wallet's owner, and is
\* stored as it is
SaveInternalIncome(from) ==
    /\ from \notin internalIncomes
    /\ internalIncomes' = internalIncomes \cup {from}
    /\ UNCHANGED <<procVars, walletVars, req, externalIncomes>>

TonDeposits    == {w.address : w \in RowsOf("TonDepositWallet")}
JettonDeposits == {w.address : w \in {v \in jettonWallets : v.type = "JettonDepositWallet"}}
JettonOwners   == {w.address : w \in RowsOf("JettonOwner")}

\* processTonHotWalletInternalInMsg: TONs that come from a deposit, Jettons whose
\* notification names the owner of one as the sender
InternalIncomeSenders == TonDeposits \cup JettonOwners

\* Wrong on purpose: joined on the user.
JoinOnUser == {p \in tonWallets \X jettonWallets : p[1].user = p[2].user}

\* ton_wallets tw JOIN jetton_wallets jw ON jw.subwallet_id = tw.subwallet_id
Join == {p \in tonWallets \X jettonWallets : p[1].id = p[2].id}

\* GetTonWalletsAddresses and GetJettonOwnersAddresses of a user
GetAddresses(user) ==
    {<<w.address, TON>> : w \in {v \in RowsOf("TonDepositWallet") : v.user = user}}
        \cup {<<p[1].address, p[2].currency>> :
                p \in {q \in Join : q[2].user = user /\ q[2].type = "JettonDepositWallet"}}

\* loadAddressBook: the owner an address has there
GetOwners(addr) == {p[1].address : p \in {q \in Join : q[2].address = addr}}

\* the rows of getIncome before they are summed up: wallets of the user, each
\* with its Jetton wallets if it has any, and the incomes of that deposit
ReportRows(user, incomes) ==
    LET mine == {w \in tonWallets : w.user = user /\ w.type \in {"TonDepositWallet", "JettonOwner"}}
        joined == {<<p[1], p[2].address>> : p \in {q \in Join : q[1] \in mine}}
                    \cup {<<w, w.address>> : w \in {v \in mine : \A q \in Join : q[1] # v}}
    IN {d \in joined : d[2] \in incomes}

Next ==
    \/ \E s \in Seeds, config \in Configs : Start(s, config)
    \/ Stop
    \/ InitTonHotWallet
    \/ \E currency \in todo : InitJettonHotWallet(currency)
    \/ \E r \in Requests :
          \/ \E user \in Users, currency \in {TON} \cup DOMAIN jettons :
                CreateAddress(r, user, currency)
          \/ \E answered \in BOOLEAN :
                CreateTonAddress(r, answered) \/ CreateJettonAddress(r, answered)
          \/ RefuseAddress(r)
    \/ \E to \in TonDeposits \cup JettonDeposits : SaveExternalIncome(to)
    \/ \E from \in InternalIncomeSenders : SaveInternalIncome(from)

Spec == Init /\ [][Next]_vars

----------------------------------------------------------------------------
(* Properties                                                              *)

\* Type invariant, with the unique keys of the two tables.
TypeOK ==
    /\ pc \in {"down", "hot", "jettons", "serving"}
    /\ \A v, w \in tonWallets : v.id = w.id => v = w
    /\ \A v, w \in jettonWallets : v.address = w.address => v = w
    /\ \A w \in tonWallets : w.id \in DefaultSubwallet..(MaxUint32 - 1)
    /\ \A r \in Requests : req[r].state \in {"idle", "derive", "answered", "failed"}

\* Two requests never get the same address, however they overlap, and what a
\* user was given stays listed as his, in the currency he asked for, and is
\* listed for nobody else.
AnswersAreOwn ==
    \A r \in Requests : req[r].state = "answered" =>
        /\ \A s \in Requests : req[s].answer = req[r].answer => s = r
        /\ <<req[r].answer, req[r].currency>> \in GetAddresses(req[r].user)
        /\ \A u \in Users : (\E c \in {TON} \cup DOMAIN jettons :
              <<req[r].answer, c>> \in GetAddresses(u)) => u = req[r].user

\* The owner that the address book finds for a Jetton wallet is the one the
\* wallet is derived from: the proxy the sweep goes through (GetOwner), the
\* hot wallet for its Jetton wallets.
OwnersAreRight ==
    \A w \in jettonWallets : GetOwners(w.address) = {w.address[2]}

\* the seed that an owner's address is derived from: a subwallet or the hot wallet
\* itself, or a proxy of the hot wallet
SeedOf(owner) == IF owner[1] = "proxy" THEN owner[2][2] ELSE owner[2]

\* A service that was started with another seed hands out no address and saves
\* no wallet: every row of ton_wallets (hot wallet, deposits, Jetton owners) and
\* the owner of every row of jetton_wallets (hot wallets, deposits) come from one
\* seed, wherever a start was broken off.
OneSeed ==
    \A v, w \in {t.address : t \in tonWallets} \cup {j.address[2] : j \in jettonWallets} :
        SeedOf(v) = SeedOf(w)

\* Every external income, and every income of the hot wallet that comes from a
\* TON deposit, is reported to exactly one user, exactly once.
IncomeReportedOnce ==
    \A a \in externalIncomes \cup (internalIncomes \cap TonDeposits) :
        Cardinality(UNION {ReportRows(u, {a}) : u \in Users}) = 1

\* What "by hot wallet incoming" promises of DEPOSIT_SIDE_BALANCE = false: every
\* income of the hot wallet is reported to one user.  The incomes of Jettons are
\* saved under the owner's address and looked up under the Jetton wallet's.
HotIncomeReported ==
    \A a \in internalIncomes :
        Cardinality(UNION {ReportRows(u, {a}) : u \in Users}) = 1
============================================================================
