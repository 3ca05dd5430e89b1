-------------------------- MODULE BatchShardProofs --------------------------
(***************************************************************************)
(* Theorems about WithdrawalBatch and about ShardTracker, for every value   *)
(* of their constants.  The two specifications share no variable; their     *)
(* theorems share one module for the lemmas on finite sets.                 *)
(***************************************************************************)
EXTENDS WithdrawalBatch, ShardTracker, FiniteSums

MsgType == [dest : Nat, cost : [Currencies -> Nat]]

\* The types, and the key of withdrawal_requests.
Types ==
    /\ initial \in [Currencies -> Nat]
    /\ service \subseteq Known /\ incomes \subseteq Proxies
    /\ messages \in Seq(MsgType)
    /\ \A r \in requests : r.id \in Nat /\ r.dest \in Nat /\ r.amount \in Nat
    /\ \A r \in requests : r.currency \in Currencies
    /\ \A r, s \in requests : r.id = s.id => r = s
    /\ pc = "cold" => \A r \in requests : r.id \in QueryIDs
    /\ pc \in {"cold", "service", "internal", "external", "done", "fatal"}

\* What the tasks that are left may still add: destinations that the message
\* does not have, and, in the loop that does not look at the length of the
\* message, no more of them than fit.
TasksFit ==
    /\ pc = "cold" => messages = <<>> /\ used = {}
    /\ pc = "service" =>
          /\ tasks \subseteq service /\ used \cap tasks = {}
          /\ \A i \in 1..Len(messages) : messages[i].dest \in used
          /\ Len(messages) + Cardinality(tasks) <= Limit
    /\ pc = "internal" =>
          /\ tasks \subseteq incomes
          /\ \A i \in 1..Len(messages) : messages[i].dest \notin tasks
    /\ pc \in {"service", "internal"} =>
          \A i \in 1..Len(messages) : messages[i].dest \in Known
    /\ pc = "external" =>
          /\ tasks \subseteq requests
          /\ \A r, s \in tasks : r.dest = s.dest => r = s
          /\ \A r \in tasks : r.dest \in Known
                                \/ \A i \in 1..Len(messages) : messages[i].dest # r.dest

----------------------------------------------------------------------------
(* Sets and sequences                                                      *)

\* A finite set of natural numbers that is not empty has a greatest element.
LEMMA FiniteHasGreatest ==
    ASSUME NEW S \in SUBSET Nat, IsFiniteSet(S), S # {}
    PROVE  \E x \in S : \A y \in S : x >= y
<1> DEFINE Above(x) == {y \in S : y >= x}
           F == {Above(x) : x \in S}
<1>1. PICK s \in F : \A t \in F : t \subseteq s => t = s
  <2>1. \A u \in F : u \subseteq S
    OBVIOUS
  <2>2. F # {}
    OBVIOUS
  <2> HIDE DEF F, Above
  <2> QED BY <2>1, <2>2, SmallestSet
<1>2. PICK x \in S : s = Above(x)
  OBVIOUS
<1>3. ASSUME NEW y \in S, ~ (x >= y) PROVE FALSE
  <2>1. x \in Nat /\ y \in Nat /\ y > x
    BY <1>3
  <2>2. Above(y) \in F
    OBVIOUS
  <2>3. Above(y) \subseteq Above(x)
    <3>1. \A z \in Nat : z >= y => z >= x
      BY <2>1
    <3> QED BY <3>1
  <2>4. x \in Above(x) /\ x \notin Above(y)
    BY <2>1
  <2> HIDE DEF Above, F
  <2> QED BY <1>1, <1>2, <2>2, <2>3, <2>4
<1> QED BY <1>3

\* Max of a finite set of natural numbers is its greatest element.
LEMMA MaxIsGreatest ==
    ASSUME NEW S \in SUBSET Nat, IsFiniteSet(S), S # {}
    PROVE  Max(S) \in S /\ \A y \in S : y <= Max(S)
<1>1. \E x \in S : \A y \in S : x >= y
  BY FiniteHasGreatest
<1> QED BY <1>1 DEF Max

\* Min of a set of natural numbers is its least element.
LEMMA MinIsLeast ==
    ASSUME NEW S \in SUBSET Nat, S # {}
    PROVE  Min(S) \in S /\ \A y \in S : Min(S) <= y
<1>1. \E x \in S : \A y \in S : x <= y
  BY LeastSize
<1> QED BY <1>1 DEF Min

\* LIMIT: of a set of keys at most as many are selected.
LEMMA FirstAreFew ==
    ASSUME NEW S \in SUBSET Nat, IsFiniteSet(S), NEW n \in Nat
    PROVE  LET F == {t \in S : Cardinality({u \in S : u < t}) < n}
           IN  F \subseteq S /\ IsFiniteSet(F) /\ Cardinality(F) <= n
<1> DEFINE F == {t \in S : Cardinality({u \in S : u < t}) < n}
<1> SUFFICES F \subseteq S /\ IsFiniteSet(F) /\ Cardinality(F) <= n
  OBVIOUS
<1>1. F \subseteq S /\ IsFiniteSet(F) /\ Cardinality(F) \in Nat
  <2>1. F \in SUBSET S
    OBVIOUS
  <2> HIDE DEF F
  <2> QED BY <2>1, FS_Subset, FS_CardinalityType
<1>2. CASE F = {}
  <2>1. Cardinality(F) = 0
    <3> HIDE DEF F
    <3> QED BY <1>2, FS_EmptySet
  <2> HIDE DEF F
  <2> QED BY <1>1, <2>1
<1>3. CASE F # {}
  <2>1. PICK t \in F : \A y \in F : t >= y
    <3>1. F \in SUBSET Nat
      BY <1>1
    <3> HIDE DEF F
    <3> QED BY <1>1, <1>3, <3>1, FiniteHasGreatest
  <2> DEFINE B == {u \in S : u < t}
  <2>2. F \ {t} \subseteq B
    <3>1. ASSUME NEW y \in F, y # t PROVE y \in B
      <4>1. y \in S /\ y \in Nat /\ t \in Nat /\ t >= y
        BY <1>1, <2>1
      <4> QED BY <3>1, <4>1
    <3> HIDE DEF F, B
    <3> QED BY <3>1
  <2>3. IsFiniteSet(B) /\ Cardinality(B) \in Nat /\ Cardinality(B) < n
    <3>1. B \in SUBSET S /\ Cardinality(B) < n
      OBVIOUS
    <3> HIDE DEF B
    <3> QED BY <3>1, FS_Subset, FS_CardinalityType
  <2>4. Cardinality(F \ {t}) <= Cardinality(B)
    <3> HIDE DEF F, B
    <3> QED BY <2>2, <2>3, FS_Subset
  <2>5. Cardinality(F \ {t}) = Cardinality(F) - 1
    <3> HIDE DEF F
    <3> QED BY <1>1, <2>1, FS_RemoveElement
  <2> HIDE DEF F, B
  <2> QED BY <1>1, <2>3, <2>4, <2>5
<1> QED BY <1>1, <1>2, <1>3

\* What adding a payment to the message does to it.
LEMMA AddOne ==
    ASSUME NEW dest \in Nat, NEW cost \in [Currencies -> Nat],
           messages \in Seq(MsgType), Add(dest, cost)
    PROVE  /\ messages' \in Seq(MsgType)
           /\ Len(messages) \in Nat /\ Len(messages') = Len(messages) + 1
           /\ messages'[Len(messages) + 1].dest = dest
           /\ messages'[Len(messages) + 1].cost = cost
           /\ \A i \in 1..Len(messages) : messages'[i] = messages[i]
           /\ \A i \in 1..Len(messages) : messages[i] \in MsgType
<1> DEFINE m == [dest |-> dest, cost |-> cost]
<1>1. m \in MsgType /\ m.dest = dest /\ m.cost = cost
  BY DEF MsgType
<1>2. messages' = Append(messages, m)
  BY DEF Add
<1> HIDE DEF m
<1> QED BY <1>1, <1>2

\* A payment to a new destination keeps the destinations apart.
LEMMA AddUnique ==
    ASSUME NEW dest \in Nat, NEW cost \in [Currencies -> Nat],
           messages \in Seq(MsgType), Add(dest, cost), UniqueDestinations,
           \A i \in 1..Len(messages) : messages[i].dest # dest
    PROVE  UniqueDestinations'
<1>1. /\ Len(messages) \in Nat /\ Len(messages') = Len(messages) + 1
      /\ messages'[Len(messages) + 1].dest = dest
      /\ \A i \in 1..Len(messages) : messages'[i] = messages[i]
  BY AddOne
<1>2. ASSUME NEW i \in 1..Len(messages'), NEW j \in 1..Len(messages'),
             messages'[i].dest = messages'[j].dest
      PROVE  i = j
  <2>1. i \in 1..Len(messages) \/ i = Len(messages) + 1
    BY <1>1
  <2>2. j \in 1..Len(messages) \/ j = Len(messages) + 1
    BY <1>1
  <2> QED BY <1>1, <1>2, <2>1, <2>2 DEF UniqueDestinations
<1> QED BY <1>2 DEF UniqueDestinations
----------------------------------------------------------------------------
(* Types                                                                   *)

\* The new requests of the cold wallet: which there may be, and that their ids
\* are greater than all that were there.
LEMMA ColdRequests ==
    ASSUME Types, NEW j \in BOOLEAN, NEW t \in BOOLEAN, cold' = SurplusRequests(j, t)
    PROVE  /\ \A r \in cold' : r.id \in Nat /\ r.dest = Cold /\ r.amount \in Nat
                                 /\ r.currency \in Currencies /\ \A q \in QueryIDs : q < r.id
           /\ \A r, s \in cold' : r.id = s.id => r = s
<1> DEFINE M == Max({0} \cup QueryIDs)
<1>1. M \in Nat /\ \A q \in QueryIDs : q <= M /\ q \in Nat
  <2>1. {0} \cup QueryIDs \in SUBSET Nat /\ IsFiniteSet({0} \cup QueryIDs)
    <3>1. QueryIDs \cup {0} = {0} \cup QueryIDs /\ IsFiniteSet(QueryIDs) /\ QueryIDs \subseteq Nat
      BY BatchAssumption
    <3> QED BY <3>1, FS_AddElement
  <2>2. M \in {0} \cup QueryIDs /\ \A y \in {0} \cup QueryIDs : y <= M
    BY <2>1, MaxIsGreatest
  <2> QED BY <2>1, <2>2
<1> DEFINE ja == initial["JETTON"] - HotWalletMaxCutoff
           jr == IF j \/ ja <= 0 THEN {} ELSE {ColdRequest(1, "JETTON", ja)}
           ta == RemainingTons(jr) - HotWalletMax
           tr == IF t \/ ta <= 0 THEN {} ELSE {ColdRequest(2, "TON", ta)}
<1>2. cold' = jr \cup tr
  BY DEF SurplusRequests
<1>3. ja \in Int /\ ta \in Int
  <2>1. /\ initial["JETTON"] \in Nat /\ initial["TON"] \in Nat /\ HotWalletMaxCutoff \in Nat
        /\ HotWalletMax \in Nat /\ JettonTransferTonAmount \in Nat
    BY BatchAssumption DEF Types, Currencies
  <2>2. Cardinality(jr) \in Nat
    <3>1. jr = {} \/ \E x : jr = {x}
      OBVIOUS
    <3> HIDE DEF jr
    <3>2. CASE jr = {}
      <4>1. Cardinality(jr) = 0
        BY <3>2, FS_EmptySet
      <4> QED BY <4>1
    <3>3. CASE \E x : jr = {x}
      <4>1. PICK x : jr = {x}
        BY <3>3
      <4>2. Cardinality({x}) = 1
        BY FS_Singleton
      <4> QED BY <4>1, <4>2
    <3> QED BY <3>1, <3>2, <3>3
  <2>3. ta = (initial["TON"] - JettonTransferTonAmount * Cardinality(jr)) - HotWalletMax
    BY DEF RemainingTons
  <2> HIDE DEF jr, ta
  <2> QED BY <2>1, <2>2, <2>3
<1>4. \A r \in jr : r.id = M + 1 /\ r.dest = Cold /\ r.amount = ja /\ r.currency = "JETTON" /\ ja > 0
  <2>1. CASE j \/ ja <= 0
    BY <2>1
  <2>2. CASE ~ (j \/ ja <= 0)
    <3> HIDE DEF ja, M
    <3> QED BY <1>3, <2>2 DEF ColdRequest, M
  <2> QED BY <2>1, <2>2
<1>5. \A r \in tr : r.id = M + 2 /\ r.dest = Cold /\ r.amount = ta /\ r.currency = "TON" /\ ta > 0
  <2>1. CASE t \/ ta <= 0
    BY <2>1
  <2>2. CASE ~ (t \/ ta <= 0)
    <3> HIDE DEF ta, M
    <3> QED BY <1>3, <2>2 DEF ColdRequest, M
  <2> QED BY <2>1, <2>2
<1>6. \A r, s \in jr : r = s
  OBVIOUS
<1>7. \A r, s \in tr : r = s
  OBVIOUS
<1> HIDE DEF M, ja, ta, jr, tr
<1> QED BY <1>1, <1>2, <1>3, <1>4, <1>5, <1>6, <1>7 DEF Currencies

\* A payment of a known type keeps the message typed, whichever loop adds it.
LEMMA Costs ==
    /\ ProxyCost \in [Currencies -> Nat]
    /\ \A a, b \in Nat : Cost(a, b) \in [Currencies -> Nat]
BY BatchAssumption DEF ProxyCost, Cost, Currencies

\* Every step keeps the types.
LEMMA TypesStep ==
    ASSUME Types, TasksFit, [Next]_vars
    PROVE  Types'
<1>0. /\ Known \subseteq Nat /\ Proxies \subseteq Known /\ Cold \in Nat
      /\ JettonTransferTonAmount \in Nat
  BY BatchAssumption DEF Known
<1>1. ASSUME NEW j \in BOOLEAN, NEW t \in BOOLEAN, cold' = SurplusRequests(j, t),
             pc = "cold", pc' # "cold", pc' \in {"service", "fatal"},
             requests' = requests \cup cold', UNCHANGED <<initial, service, incomes, messages>>
      PROVE  Types'
  <2>1. /\ \A r \in cold' : r.id \in Nat /\ r.dest = Cold /\ r.amount \in Nat
                              /\ r.currency \in Currencies /\ \A q \in QueryIDs : q < r.id
        /\ \A r, s \in cold' : r.id = s.id => r = s
    BY <1>1, ColdRequests
  <2>2. /\ requests' = requests \cup cold' /\ pc' \in {"service", "fatal"} /\ pc' # "cold"
        /\ UNCHANGED <<initial, service, incomes, messages>>
    BY <1>1
  <2>3. \A r \in requests : r.id \in QueryIDs /\ r.id \in Nat
    BY <1>1 DEF Types
  <2>4. \A r \in requests, s \in cold' : r.id # s.id
    BY <2>1, <2>3
  <2>5. \A r, s \in requests' : r.id = s.id => r = s
    BY <2>1, <2>2, <2>4 DEF Types
  <2> QED BY <1>0, <2>1, <2>2, <2>5 DEF Types
<1>2. ASSUME NEW a \in service, NEW hasFunds \in BOOLEAN, ServiceTask(a, hasFunds) PROVE Types'
  <2>1. /\ UNCHANGED <<initial, service, incomes, requests, pc>>
        /\ messages' = messages \/ Add(a, ProxyCost)
    BY <1>2 DEF ServiceTask, BuildServiceWithdrawalMessage, tables
  <2>2. messages' \in Seq(MsgType)
    BY <1>0, <2>1, AddOne, Costs DEF Types
  <2> QED BY <2>1, <2>2 DEF Types
<1>3. ASSUME NEW a \in incomes, NEW hasFunds \in BOOLEAN, InternalTask(a, hasFunds) PROVE Types'
  <2>1. /\ UNCHANGED <<initial, service, incomes, requests, pc>>
        /\ messages' = messages \/ Add(a, ProxyCost)
    BY <1>3 DEF InternalTask, BuildJettonInternalWithdrawalMessage, tables
  <2>2. messages' \in Seq(MsgType)
    BY <1>0, <2>1, AddOne, Costs DEF Types
  <2> QED BY <2>1, <2>2 DEF Types
<1>4. ASSUME NEW r \in requests, ExternalTask(r) PROVE Types'
  <2>1. /\ UNCHANGED <<initial, service, incomes, requests, pc>>
        /\ \/ messages' = messages
           \/ Add(r.dest, Cost(r.amount, 0)) \/ Add(r.dest, Cost(JettonTransferTonAmount, r.amount))
    BY <1>4 DEF ExternalTask, BuildExternalWithdrawalMessage, tables
  <2>2. r.dest \in Nat /\ r.amount \in Nat /\ messages \in Seq(MsgType)
    BY DEF Types
  <2>3. /\ Cost(r.amount, 0) \in [Currencies -> Nat]
        /\ Cost(JettonTransferTonAmount, r.amount) \in [Currencies -> Nat]
    BY <1>0, <2>2, Costs
  <2>4. messages' \in Seq(MsgType)
    BY <2>1, <2>2, <2>3, AddOne
  <2> QED BY <2>1, <2>4 DEF Types
<1>5. CASE (\E found \in SUBSET incomes : StartInternal(found)) \/ StartExternal \/ Return
             \/ UNCHANGED vars
  BY <1>5 DEF StartInternal, StartExternal, Return, vars, tables, Types
<1>6. CASE BuildError
  <2>1. messages' \in Seq(MsgType)
    BY <1>6 DEF BuildError
  <2> QED BY <1>6, <2>1 DEF BuildError, tables, Types
<1>7. ASSUME NEW j \in BOOLEAN, NEW t \in BOOLEAN, MakeColdWalletWithdrawals(j, t) PROVE Types'
  BY <1>1, <1>7 DEF MakeColdWalletWithdrawals
<1>8. ASSUME NEW saved \in BOOLEAN, ColdWalletError(saved) PROVE Types'
  BY <1>1, <1>8 DEF ColdWalletError
<1> QED BY <1>2, <1>3, <1>4, <1>5, <1>6, <1>7, <1>8 DEF Next, Round

\* The types hold at the start.
LEMMA TypesInit == Init => Types
<1> SUFFICES ASSUME Init PROVE Types
  OBVIOUS
<1>0. PICK Q \in SUBSET QueryIDs :
        \E f \in [Q -> (Outside \cup Known) \X Currencies \X Amounts] :
            requests = {Request(q, f[q]) : q \in Q}
  BY DEF Init
<1>1. PICK f \in [Q -> (Outside \cup Known) \X Currencies \X Amounts] :
         requests = {Request(q, f[q]) : q \in Q}
  BY <1>0
<1>2. \A q \in Q : /\ f[q][1] \in Nat /\ f[q][2] \in Currencies /\ f[q][3] \in Nat
                   /\ q \in QueryIDs /\ q \in Nat
  BY <1>1, BatchAssumption DEF Known
<1>3. \A q \in Q : /\ Request(q, f[q]).id = q /\ Request(q, f[q]).dest = f[q][1]
                   /\ Request(q, f[q]).currency = f[q][2] /\ Request(q, f[q]).amount = f[q][3]
  BY DEF Request
<1>4. /\ \A r \in requests : r.id \in QueryIDs /\ r.id \in Nat /\ r.dest \in Nat /\ r.amount \in Nat
                               /\ r.currency \in Currencies
      /\ \A r, s \in requests : r.id = s.id => r = s
  BY <1>1, <1>2, <1>3
<1>5. initial \in [Currencies -> Nat]
  BY BatchAssumption DEF Init
<1>6. messages \in Seq(MsgType)
  BY DEF Init
<1> QED BY <1>4, <1>5, <1>6 DEF Init, Types

----------------------------------------------------------------------------
(* Destinations and length                                                 *)

\* The service query selects some of the requests, as many as fit into a message.
LEMMA ServiceTasks ==
    ASSUME Types
    PROVE  /\ GetServiceHotWithdrawalTasks \subseteq service
           /\ IsFiniteSet(GetServiceHotWithdrawalTasks)
           /\ Cardinality(GetServiceHotWithdrawalTasks) <= Limit
<1>1. service \in SUBSET Nat /\ IsFiniteSet(service) /\ Limit \in Nat
  <2>1. IsFiniteSet(Known) /\ Known \subseteq Nat /\ Limit \in Nat
    BY BatchAssumption, FS_Union DEF Known
  <2>2. service \in SUBSET Known
    BY DEF Types
  <2> QED BY <2>1, <2>2, FS_Subset
<1>2. GetServiceHotWithdrawalTasks = {t \in service : Cardinality({u \in service : u < t}) < Limit}
  BY DEF GetServiceHotWithdrawalTasks, FirstOf
<1> QED BY <1>1, <1>2, FirstAreFew

\* The query of the external requests selects one request of a destination.
LEMMA ExternalTasks ==
    ASSUME Types
    PROVE  /\ GetExternalWithdrawalTasks \subseteq requests
           /\ \A r, s \in GetExternalWithdrawalTasks : r.dest = s.dest => r = s
<1> DEFINE First(r) == \A s \in requests : s.dest = r.dest => r.id <= s.id
<1>1. GetExternalWithdrawalTasks \subseteq {r \in requests : First(r)}
  BY DEF GetExternalWithdrawalTasks, FirstOf
<1>2. \A r, s \in requests : First(r) /\ First(s) /\ r.dest = s.dest => r = s
  <2> SUFFICES ASSUME NEW r \in requests, NEW s \in requests, First(r), First(s), r.dest = s.dest
               PROVE  r = s
    OBVIOUS
  <2>1. r.id <= s.id /\ s.id <= r.id
    OBVIOUS
  <2>2. r.id \in Nat /\ s.id \in Nat
    BY DEF Types
  <2>3. r.id = s.id
    BY <2>1, <2>2
  <2> QED BY <2>3 DEF Types
<1> QED BY <1>1, <1>2

\* Every step keeps the destinations apart, the length in bounds, and leaves
\* tasks that fit.
LEMMA TasksFitStep ==
    ASSUME Types, TasksFit, UniqueDestinations, MessageFits, [Next]_vars
    PROVE  TasksFit' /\ UniqueDestinations' /\ MessageFits'
<1> DEFINE n == Len(messages)
<1>0. /\ n \in Nat /\ Limit \in Nat /\ messages \in Seq(MsgType)
      /\ Known \subseteq Nat /\ incomes \subseteq Known /\ service \subseteq Known
      /\ n <= Limit + 1
  <2>1. Known \subseteq Nat /\ Limit \in Nat /\ Proxies \subseteq Known
    BY BatchAssumption DEF Known
  <2> QED BY <2>1 DEF Types, MessageFits
<1>1. ASSUME NEW j \in BOOLEAN, NEW t \in BOOLEAN, MakeColdWalletWithdrawals(j, t)
      PROVE  TasksFit' /\ UniqueDestinations' /\ MessageFits'
  <2>1. /\ messages = <<>> /\ messages' = <<>> /\ pc' = "service"
        /\ tasks' = GetServiceHotWithdrawalTasks /\ UNCHANGED <<service, used>>
        /\ used = {}
    BY <1>1 DEF MakeColdWalletWithdrawals, TasksFit
  <2>2. Len(messages') = 0 /\ 1..0 = {}
    BY <2>1
  <2>3. /\ tasks' \subseteq service /\ Cardinality(tasks') <= Limit /\ Cardinality(tasks') \in Nat
    BY <2>1, ServiceTasks, FS_CardinalityType
  <2> QED BY <1>0, <2>1, <2>2, <2>3 DEF TasksFit, UniqueDestinations, MessageFits
<1>2. ASSUME NEW a \in service, NEW hasFunds \in BOOLEAN, ServiceTask(a, hasFunds)
      PROVE  TasksFit' /\ UniqueDestinations' /\ MessageFits'
  <2>1. /\ UNCHANGED <<service, pc>> /\ pc = "service"
        /\ tasks' = tasks \ {a}
        /\ \/ UNCHANGED <<messages, used>>
           \/ Add(a, ProxyCost) /\ used' = used \cup {a}
    BY <1>2 DEF ServiceTask, BuildServiceWithdrawalMessage, tables
  <2>2. a \in tasks
    <3>1. tasks # {} /\ a = Min(tasks)
      BY <1>2 DEF ServiceTask
    <3>2. tasks \in SUBSET Nat
      BY <1>0, <2>1 DEF TasksFit
    <3> QED BY <3>1, <3>2, MinIsLeast
  <2>3. /\ IsFiniteSet(tasks) /\ Cardinality(tasks) \in Nat
        /\ Cardinality(tasks') = Cardinality(tasks) - 1
    <3>1. IsFiniteSet(Known)
      BY BatchAssumption, FS_Union DEF Known
    <3>2. IsFiniteSet(tasks)
      BY <1>0, <2>1, <3>1, FS_Subset DEF TasksFit
    <3> QED BY <2>1, <2>2, <3>2, FS_RemoveElement, FS_CardinalityType
  <2>4. CASE UNCHANGED <<messages, used>>
    BY <1>0, <2>1, <2>3, <2>4 DEF TasksFit, UniqueDestinations, MessageFits
  <2>5. CASE Add(a, ProxyCost) /\ used' = used \cup {a}
    <3>1. /\ Len(messages') = n + 1 /\ messages'[n + 1].dest = a
          /\ \A i \in 1..n : messages'[i] = messages[i]
      BY <1>0, <2>5, AddOne, Costs
    <3>2. UniqueDestinations'
      <4>1. \A i \in 1..n : messages[i].dest # a
        BY <2>1, <2>2 DEF TasksFit
      <4> QED BY <1>0, <2>5, <4>1, AddUnique, Costs
    <3>3. ASSUME NEW i \in 1..Len(messages')
          PROVE  messages'[i].dest \in used' /\ messages'[i].dest \in Known
      <4>1. i \in 1..n \/ i = n + 1
        BY <1>0, <3>1
      <4> QED BY <1>0, <2>1, <2>5, <3>1, <4>1 DEF TasksFit
    <3>4. Len(messages') + Cardinality(tasks') <= Limit
      BY <1>0, <2>1, <2>3, <3>1 DEF TasksFit
    <3>5. MessageFits'
      <4>1. Cardinality(tasks') \in Nat
        BY <2>1, <2>3, FS_RemoveElement, FS_CardinalityType
      <4> QED BY <1>0, <3>1, <3>4, <4>1 DEF MessageFits
    <3> QED BY <2>1, <2>5, <3>2, <3>3, <3>4, <3>5 DEF TasksFit
  <2> QED BY <2>1, <2>4, <2>5
<1>3. ASSUME NEW found \in SUBSET incomes, StartInternal(found)
      PROVE  TasksFit' /\ UniqueDestinations' /\ MessageFits'
  <2>1. /\ UNCHANGED <<incomes, messages>> /\ pc = "service" /\ pc' = "internal"
        /\ tasks' = found /\ found \cap used = {}
    BY <1>3 DEF StartInternal, GetJettonInternalWithdrawalTasks, tables
  <2> QED BY <2>1 DEF TasksFit, UniqueDestinations, MessageFits
<1>4. ASSUME NEW a \in incomes, NEW hasFunds \in BOOLEAN, InternalTask(a, hasFunds)
      PROVE  TasksFit' /\ UniqueDestinations' /\ MessageFits'
  <2>1. /\ UNCHANGED <<incomes, pc>> /\ pc = "internal" /\ ~ Full
        /\ a \in tasks /\ tasks' = tasks \ {a}
        /\ UNCHANGED messages \/ Add(a, ProxyCost)
    BY <1>4 DEF InternalTask, BuildJettonInternalWithdrawalMessage, tables
  <2>2. CASE UNCHANGED messages
    BY <2>1, <2>2 DEF TasksFit, UniqueDestinations, MessageFits
  <2>3. CASE Add(a, ProxyCost)
    <3>1. /\ Len(messages') = n + 1 /\ messages'[n + 1].dest = a
          /\ \A i \in 1..n : messages'[i] = messages[i]
      BY <1>0, <2>3, AddOne, Costs
    <3>2. UniqueDestinations'
      <4>1. \A i \in 1..n : messages[i].dest # a
        BY <2>1 DEF TasksFit
      <4> QED BY <1>0, <2>3, <4>1, AddUnique, Costs
    <3>3. ASSUME NEW i \in 1..Len(messages')
          PROVE  messages'[i].dest \notin tasks' /\ messages'[i].dest \in Known
      <4>1. i \in 1..n \/ i = n + 1
        BY <1>0, <3>1
      <4> QED BY <1>0, <2>1, <3>1, <4>1 DEF TasksFit
    <3>4. MessageFits'
      BY <1>0, <2>1, <3>1 DEF Full, MessageFits
    <3> QED BY <2>1, <3>2, <3>3, <3>4 DEF TasksFit
  <2> QED BY <2>1, <2>2, <2>3
<1>5. CASE StartExternal
  <2>1. /\ UNCHANGED <<messages, requests>> /\ pc = "internal" /\ pc' = "external"
        /\ tasks' = GetExternalWithdrawalTasks
    BY <1>5 DEF StartExternal, tables
  <2>2. /\ tasks' \subseteq requests'
        /\ \A r, s \in tasks' : r.dest = s.dest => r = s
    BY <2>1, ExternalTasks
  <2>3. \A i \in 1..Len(messages') : messages'[i].dest \in Known
    BY <2>1 DEF TasksFit
  <2> QED BY <2>1, <2>2, <2>3 DEF TasksFit, UniqueDestinations, MessageFits
<1>6. ASSUME NEW r \in requests, ExternalTask(r)
      PROVE  TasksFit' /\ UniqueDestinations' /\ MessageFits'
  <2>1. /\ UNCHANGED <<requests, pc>> /\ pc = "external" /\ ~ Full
        /\ r \in tasks /\ tasks' = tasks \ {r}
        /\ \/ UNCHANGED messages
           \/ r.dest \notin Known
                /\ \E cost \in {Cost(r.amount, 0), Cost(JettonTransferTonAmount, r.amount)} :
                      Add(r.dest, cost)
    BY <1>6 DEF ExternalTask, BuildExternalWithdrawalMessage, tables
  <2>2. CASE UNCHANGED messages
    BY <2>1, <2>2 DEF TasksFit, UniqueDestinations, MessageFits
  <2>3. ASSUME NEW cost \in {Cost(r.amount, 0), Cost(JettonTransferTonAmount, r.amount)},
               Add(r.dest, cost), r.dest \notin Known
        PROVE  TasksFit' /\ UniqueDestinations' /\ MessageFits'
    <3>0. r.dest \in Nat /\ cost \in [Currencies -> Nat]
      <4>1. r.dest \in Nat /\ r.amount \in Nat /\ JettonTransferTonAmount \in Nat
        BY BatchAssumption DEF Types
      <4> QED BY <4>1, Costs
    <3>1. /\ Len(messages') = n + 1 /\ messages'[n + 1].dest = r.dest
          /\ \A i \in 1..n : messages'[i] = messages[i]
      BY <1>0, <2>3, <3>0, AddOne
    <3>2. UniqueDestinations'
      <4>1. \A i \in 1..n : messages[i].dest # r.dest
        BY <2>1, <2>3 DEF TasksFit
      <4> QED BY <1>0, <2>3, <3>0, <4>1, AddUnique
    <3>3. ASSUME NEW s \in tasks', s.dest \notin Known, NEW i \in 1..Len(messages')
          PROVE  messages'[i].dest # s.dest
      <4>1. i \in 1..n \/ i = n + 1
        BY <1>0, <3>1
      <4>2. s \in tasks /\ s # r
        BY <2>1, <3>3
      <4> QED BY <2>1, <3>1, <3>3, <4>1, <4>2 DEF TasksFit
    <3>4. MessageFits'
      BY <1>0, <2>1, <3>1 DEF Full, MessageFits
    <3> QED BY <2>1, <3>2, <3>3, <3>4 DEF TasksFit
  <2> QED BY <2>1, <2>2, <2>3
<1>7. CASE Return \/ UNCHANGED vars
  BY <1>7 DEF Return, vars, tables, TasksFit, UniqueDestinations, MessageFits
<1>8. CASE BuildError \/ \E saved \in BOOLEAN : ColdWalletError(saved)
  <2>1. messages' = <<>> /\ pc' = "fatal"
    BY <1>8 DEF BuildError, ColdWalletError, TasksFit
  <2>2. Len(messages') = 0 /\ 1..0 = {}
    BY <2>1
  <2> QED BY <1>0, <2>1, <2>2 DEF TasksFit, UniqueDestinations, MessageFits
<1> QED BY <1>1, <1>2, <1>3, <1>4, <1>5, <1>6, <1>7, <1>8 DEF Next, Round

\* Everything the message relies on holds in every state.
LEMMA BatchAlways == Spec => [](Types /\ TasksFit /\ UniqueDestinations /\ MessageFits)
<1> DEFINE Inv == Types /\ TasksFit /\ UniqueDestinations /\ MessageFits
<1>1. Init => Inv
  <2> SUFFICES ASSUME Init PROVE Inv
    OBVIOUS
  <2>1. messages = <<>> /\ pc = "cold" /\ used = {} /\ Limit \in Nat
    BY BatchAssumption DEF Init
  <2> QED BY <2>1, TypesInit DEF TasksFit, UniqueDestinations, MessageFits
<1>2. Inv /\ [Next]_vars => Inv'
  BY TypesStep, TasksFitStep
<1> QED BY <1>1, <1>2, PTL DEF Spec

\* No destination occurs twice in a message, whatever the three queries find:
\* parseExternalMessage accepts every message that the service builds.
THEOREM DestinationsUnique == Spec => []UniqueDestinations
BY BatchAlways, PTL

\* The message has at most one payment more than the limit, although the first
\* loop never looks at its length: the LIMIT of its query stands in for that.
THEOREM MessageFitsWallet == Spec => []MessageFits
BY BatchAlways, PTL

----------------------------------------------------------------------------
(* Balances                                                                *)

\* what the message asks for
CostsIn(c) == [i \in 1..Len(messages) |-> messages[i].cost[c]]
Asked(c)  == SumFunction(CostsIn(c))

\* The balance sheet never shows more than the message leaves.
SheetIsSafe ==
    /\ balances \in [Currencies -> Nat]
    /\ \A c \in Currencies : Asked(c) \in Nat /\ Asked(c) + balances[c] <= initial[c]

\* A message that stays as it is asks for what it did.
LEMMA AskedSame ==
    ASSUME UNCHANGED messages, NEW c
    PROVE  Asked(c)' = Asked(c)
BY DEF Asked, CostsIn

\* One more payment asks for its cost in addition.
LEMMA AskedMore ==
    ASSUME NEW dest \in Nat, NEW cost \in [Currencies -> Nat],
           messages \in Seq(MsgType), Add(dest, cost), NEW c \in Currencies
    PROVE  Asked(c)' = Asked(c) + cost[c] /\ Asked(c) \in Nat /\ cost[c] \in Nat
<1> DEFINE n == Len(messages)
           f == CostsIn(c)
           g == CostsIn(c)'
<1>1. /\ n \in Nat /\ Len(messages') = n + 1 /\ messages'[n + 1].cost = cost
      /\ \A i \in 1..n : messages'[i] = messages[i] /\ messages[i] \in MsgType
  BY AddOne
<1>2. /\ f = [i \in 1..n |-> messages[i].cost[c]]
      /\ g = [i \in 1..(n + 1) |-> messages'[i].cost[c]]
  BY <1>1 DEF CostsIn
<1>3. \A i \in 1..n : f[i] \in Nat /\ f[i] = g[i]
  <2> SUFFICES ASSUME NEW i \in 1..n PROVE f[i] \in Nat /\ f[i] = g[i]
    OBVIOUS
  <2>1. messages[i].cost[c] \in Nat /\ messages'[i] = messages[i]
    BY <1>1 DEF MsgType
  <2>2. i \in 1..(n + 1)
    BY <1>1
  <2> QED BY <1>2, <2>1, <2>2
<1>4. g[n + 1] = cost[c] /\ cost[c] \in Nat
  BY <1>1, <1>2
<1>5. /\ 1..(n + 1) = (1..n) \cup {n + 1} /\ n + 1 \notin 1..n
      /\ IsFiniteSet(1..n)
  <2>1. n \in Nat
    BY <1>1
  <2>2. IsFiniteSet(1..n)
    BY <2>1, FS_Interval
  <2> HIDE DEF n
  <2> QED BY <2>1, <2>2
<1>6. Asked(c) = SumFunctionOnSet(f, 1..n) /\ Asked(c)' = SumFunctionOnSet(g, 1..(n + 1))
  <2>1. DOMAIN f = 1..n /\ DOMAIN g = 1..(n + 1)
    BY <1>2
  <2> QED BY <2>1 DEF Asked, SumFunction
<1> HIDE DEF f, g, n
<1>7. SumFunctionOnSet(g, 1..(n + 1)) = g[n + 1] + SumFunctionOnSet(g, 1..n)
  <2>1. \A y \in (1..n) \cup {n + 1} : g[y] \in Int
    BY <1>3, <1>4
  <2> QED BY <1>5, <2>1, SumAdd
<1>8. SumFunctionOnSet(g, 1..n) = SumFunctionOnSet(f, 1..n)
  <2>1. PICK S : S = 1..n
    OBVIOUS
  <2>2. IsFiniteSet(S) /\ \A i \in S : g[i] = f[i]
    BY <1>3, <1>5, <2>1
  <2>3. SumFunctionOnSet(g, S) = SumFunctionOnSet(f, S)
    BY <2>2, SumAgree
  <2> QED BY <2>1, <2>3
<1>9. SumFunctionOnSet(f, 1..n) \in Nat
  BY <1>3, <1>5, SumTyped
<1> QED BY <1>4, <1>6, <1>7, <1>8, <1>9

\* The balance sheet is reduced by at least what a payment asks for.
LEMMA SheetAfter ==
    ASSUME Types, SheetIsSafe, NEW currency \in Currencies, NEW amount \in Nat,
           ~ NotCovered(currency, amount), Decrease(currency, amount), UNCHANGED initial,
           \/ UNCHANGED messages
           \/ \E dest \in Nat : Add(dest, IF currency = "TON" THEN Cost(amount, 0)
                                          ELSE Cost(JettonTransferTonAmount, amount))
    PROVE  SheetIsSafe'
<1> DEFINE J == JettonTransferTonAmount
           ton == IF currency = "TON" THEN amount ELSE J
           jetton == IF currency = "TON" THEN 0 ELSE amount
<1>0. /\ J \in Nat /\ ton \in Nat /\ jetton \in Nat /\ messages \in Seq(MsgType)
      /\ initial \in [Currencies -> Nat] /\ balances \in [Currencies -> Nat]
  BY BatchAssumption DEF Types, SheetIsSafe
<1>1. ton <= balances["TON"] /\ jetton <= balances["JETTON"]
  <2>1. balances["TON"] \in Nat /\ balances["JETTON"] \in Nat
    BY <1>0 DEF Currencies
  <2>2. CASE currency = "TON"
    BY <1>0, <2>1, <2>2 DEF NotCovered
  <2>3. CASE currency = "JETTON"
    BY <1>0, <2>1, <2>3 DEF NotCovered
  <2> QED BY <2>2, <2>3 DEF Currencies
<1>2. /\ balances'["TON"] = balances["TON"] - ton
      /\ balances'["JETTON"] = balances["JETTON"] - jetton
      /\ balances' \in [Currencies -> Nat]
  <2> DEFINE b == [balances EXCEPT !["TON"] = @ - ton, !["JETTON"] = @ - jetton]
  <2>1. balances' = b
    BY DEF Decrease
  <2>2. DOMAIN b = Currencies /\ b = [c \in Currencies |-> b[c]]
    BY <1>0
  <2>3. b["TON"] = balances["TON"] - ton /\ b["JETTON"] = balances["JETTON"] - jetton
    <3> HIDE DEF ton, jetton
    <3> QED BY <1>0 DEF Currencies
  <2>4. balances["TON"] \in Nat /\ balances["JETTON"] \in Nat
    BY <1>0 DEF Currencies
  <2>5. balances["TON"] - ton \in Nat /\ balances["JETTON"] - jetton \in Nat
    <3> HIDE DEF ton, jetton
    <3> QED BY <1>0, <1>1, <2>4
  <2> HIDE DEF ton, jetton, b
  <2>6. \A c \in Currencies : b[c] \in Nat
    BY <2>3, <2>5 DEF Currencies
  <2> QED BY <2>1, <2>2, <2>3, <2>6
<1>3. CASE UNCHANGED messages
  <2>1. \A c \in Currencies : Asked(c)' = Asked(c)
    BY <1>3, AskedSame
  <2> HIDE DEF ton, jetton
  <2>2. \A c \in Currencies : balances'[c] <= balances[c]
    BY <1>0, <1>2 DEF Currencies
  <2>3. ASSUME NEW c \in Currencies
        PROVE  Asked(c)' \in Nat /\ Asked(c)' + balances'[c] <= initial'[c]
    <3>1. Asked(c) \in Nat /\ balances[c] \in Nat /\ balances'[c] \in Nat /\ initial[c] \in Nat
      BY <1>0, <1>2 DEF SheetIsSafe
    <3>2. Asked(c) + balances[c] <= initial[c] /\ Asked(c)' = Asked(c)
      BY <2>1 DEF SheetIsSafe
    <3> QED BY <2>2, <3>1, <3>2
  <2> QED BY <1>2, <2>3 DEF SheetIsSafe
<1>4. ASSUME NEW dest \in Nat,
             Add(dest, IF currency = "TON" THEN Cost(amount, 0) ELSE Cost(J, amount))
      PROVE  SheetIsSafe'
  <2> DEFINE cost == IF currency = "TON" THEN Cost(amount, 0) ELSE Cost(J, amount)
  <2>1. cost["TON"] = ton /\ cost["JETTON"] = jetton /\ cost \in [Currencies -> Nat]
    BY <1>0, Costs DEF Cost, Currencies
  <2>2. Add(dest, cost)
    BY <1>4
  <2> HIDE DEF cost
  <2>3. \A c \in Currencies : Asked(c)' = Asked(c) + cost[c] /\ Asked(c) \in Nat
    BY <1>0, <2>1, <2>2, AskedMore
  <2> HIDE DEF ton, jetton
  <2>4. \A c \in Currencies : balances'[c] = balances[c] - cost[c] /\ cost[c] \in Nat
    BY <1>0, <1>2, <2>1 DEF Currencies
  <2>5. ASSUME NEW c \in Currencies
        PROVE  Asked(c)' \in Nat /\ Asked(c)' + balances'[c] <= initial'[c]
    <3>1. Asked(c) \in Nat /\ balances[c] \in Nat /\ initial[c] \in Nat /\ cost[c] \in Nat
      BY <1>0, <2>3, <2>4
    <3>2. Asked(c)' = Asked(c) + cost[c] /\ balances'[c] = balances[c] - cost[c]
      BY <2>3, <2>4
    <3>3. Asked(c) + balances[c] <= initial[c]
      BY DEF SheetIsSafe
    <3> QED BY <3>1, <3>2, <3>3
  <2> QED BY <1>2, <2>5 DEF SheetIsSafe
<1> QED BY <1>3, <1>4

\* Every step keeps the balance sheet safe.
LEMMA SheetStep ==
    ASSUME Types, SheetIsSafe, [Next]_vars
    PROVE  SheetIsSafe'
<1>0. /\ JettonTransferTonAmount \in Nat /\ "TON" \in Currencies
      /\ ProxyCost = Cost(JettonTransferTonAmount, 0)
      /\ Known \subseteq Nat /\ service \subseteq Known /\ incomes \subseteq Known
  BY BatchAssumption DEF ProxyCost, Currencies, Known, Types
<1>1. CASE UNCHANGED <<balances, messages, initial>>
  <2>1. \A c \in Currencies : Asked(c)' = Asked(c)
    BY <1>1, AskedSame
  <2> QED BY <1>1, <2>1 DEF SheetIsSafe
<1>2. ASSUME NEW a \in service, NEW hasFunds \in BOOLEAN, ServiceTask(a, hasFunds)
      PROVE  SheetIsSafe'
  <2>1. CASE NotCovered("TON", JettonTransferTonAmount)
    BY <1>1, <1>2, <2>1 DEF ServiceTask, tables
  <2>2. CASE ~ NotCovered("TON", JettonTransferTonAmount)
    <3>1. /\ Decrease("TON", JettonTransferTonAmount) /\ UNCHANGED initial
          /\ UNCHANGED messages \/ Add(a, Cost(JettonTransferTonAmount, 0))
      BY <1>0, <1>2, <2>2 DEF ServiceTask, BuildServiceWithdrawalMessage, tables
    <3> QED BY <1>0, <2>2, <3>1, SheetAfter
  <2> QED BY <2>1, <2>2
<1>3. ASSUME NEW a \in incomes, NEW hasFunds \in BOOLEAN, InternalTask(a, hasFunds)
      PROVE  SheetIsSafe'
  <2>1. CASE NotCovered("TON", JettonTransferTonAmount)
    BY <1>1, <1>3, <2>1 DEF InternalTask, tables
  <2>2. CASE ~ NotCovered("TON", JettonTransferTonAmount)
    <3>1. /\ Decrease("TON", JettonTransferTonAmount) /\ UNCHANGED initial
          /\ UNCHANGED messages \/ Add(a, Cost(JettonTransferTonAmount, 0))
      BY <1>0, <1>3, <2>2 DEF InternalTask, BuildJettonInternalWithdrawalMessage, tables
    <3> QED BY <1>0, <2>2, <3>1, SheetAfter
  <2> QED BY <2>1, <2>2
<1>4. ASSUME NEW r \in requests, ExternalTask(r) PROVE SheetIsSafe'
  <2>1. CASE r.dest \in Known \/ NotCovered(r.currency, r.amount)
    BY <1>1, <1>4, <2>1 DEF ExternalTask, tables
  <2>2. CASE ~ (r.dest \in Known \/ NotCovered(r.currency, r.amount))
    <3>1. /\ Decrease(r.currency, r.amount) /\ UNCHANGED initial
          /\ Add(r.dest, IF r.currency = "TON" THEN Cost(r.amount, 0)
                         ELSE Cost(JettonTransferTonAmount, r.amount))
      BY <1>4, <2>2 DEF ExternalTask, BuildExternalWithdrawalMessage, tables
    <3>2. r.dest \in Nat /\ r.amount \in Nat /\ r.currency \in Currencies
      BY DEF Types
    <3> QED BY <2>2, <3>1, <3>2, SheetAfter
  <2> QED BY <2>1, <2>2
<1>5. CASE \/ \E j, t \in BOOLEAN : MakeColdWalletWithdrawals(j, t)
           \/ \E found \in SUBSET incomes : StartInternal(found)
           \/ StartExternal \/ Return \/ UNCHANGED vars
  BY <1>1, <1>5 DEF MakeColdWalletWithdrawals, StartInternal, StartExternal, Return, vars, tables
<1>6. CASE \E saved \in BOOLEAN : ColdWalletError(saved)
  BY <1>1, <1>6 DEF ColdWalletError
<1>7. CASE BuildError
  <2>1. messages' = <<>> /\ balances' = initial /\ initial' = initial
    BY <1>7 DEF BuildError, tables
  <2>2. ASSUME NEW c \in Currencies PROVE Asked(c)' = 0
    <3>1. DOMAIN CostsIn(c)' = {}
      BY <2>1 DEF CostsIn
    <3> QED BY <3>1, SumEmpty DEF Asked, SumFunction
  <2>3. initial \in [Currencies -> Nat]
    BY DEF Types
  <2> QED BY <2>1, <2>2, <2>3 DEF SheetIsSafe
<1> QED BY <1>2, <1>3, <1>4, <1>5, <1>6, <1>7 DEF Next, Round

\* The message never asks for more than the hot wallet has, in any currency, for
\* any amounts, balances and order of the tasks.
THEOREM HotWalletCovers == Spec => []NeverOverdrawn
<1>1. Init => SheetIsSafe
  <2> SUFFICES ASSUME Init PROVE SheetIsSafe
    OBVIOUS
  <2>1. messages = <<>> /\ balances = initial /\ initial \in [Currencies -> Nat]
    BY TypesInit DEF Init, Types
  <2>2. ASSUME NEW c \in Currencies PROVE Asked(c) = 0
    <3>1. DOMAIN CostsIn(c) = {}
      BY <2>1 DEF CostsIn
    <3> QED BY <3>1, SumEmpty DEF Asked, SumFunction
  <2>3. \A c \in Currencies : initial[c] \in Nat
    BY <2>1
  <2> QED BY <2>1, <2>2, <2>3 DEF SheetIsSafe
<1>2. (Types /\ SheetIsSafe) /\ [Next]_vars => SheetIsSafe'
  BY SheetStep
<1>3. Types /\ SheetIsSafe => NeverOverdrawn
  <2> SUFFICES ASSUME Types, SheetIsSafe, NEW c \in Currencies
               PROVE  SumFunction([i \in 1..Len(messages) |-> messages[i].cost[c]]) <= initial[c]
    BY DEF NeverOverdrawn
  <2>1. /\ Asked(c) \in Nat /\ balances[c] \in Nat /\ initial[c] \in Nat
        /\ Asked(c) + balances[c] <= initial[c]
    BY DEF Types, SheetIsSafe
  <2>2. Asked(c) <= initial[c]
    BY <2>1
  <2> QED BY <2>2 DEF Asked, CostsIn
<1> QED BY <1>1, <1>2, <1>3, BatchAlways, PTL DEF Spec

----------------------------------------------------------------------------
(* The cold wallet                                                         *)

\* What makeColdWalletWithdrawals asks for leaves the maximum of each currency.
LEMMA ColdStep ==
    ASSUME Types, NEW j \in BOOLEAN, NEW t \in BOOLEAN, cold' = SurplusRequests(j, t),
           initial' = initial
    PROVE  ColdLeavesMaximum'
<1> DEFINE J == JettonTransferTonAmount
           ja == initial["JETTON"] - HotWalletMaxCutoff
           jr == IF j \/ ja <= 0 THEN {} ELSE {ColdRequest(1, "JETTON", ja)}
           ta == RemainingTons(jr) - HotWalletMax
           tr == IF t \/ ta <= 0 THEN {} ELSE {ColdRequest(2, "TON", ta)}
           tons == [r \in cold' |-> IF r.currency = "TON" THEN r.amount ELSE J]
           sum == SumFunctionOnSet(tons, cold')
<1>1. /\ cold' = jr \cup tr /\ initial' = initial
      /\ ta = (initial["TON"] - J * Cardinality(jr)) - HotWalletMax
  BY DEF SurplusRequests, RemainingTons
<1>2. /\ initial["JETTON"] \in Nat /\ initial["TON"] \in Nat /\ J \in Nat
      /\ HotWalletMaxCutoff \in Nat /\ HotWalletMax \in Nat
  BY BatchAssumption DEF Types, Currencies
<1>3. jr = {} \/ \E x : jr = {x} /\ x.currency = "JETTON" /\ x.amount = ja
  <2> HIDE DEF ja
  <2>1. ColdRequest(1, "JETTON", ja).currency = "JETTON" /\ ColdRequest(1, "JETTON", ja).amount = ja
    BY DEF ColdRequest
  <2> QED BY <2>1
<1>4. tr = {} \/ \E y : tr = {y} /\ y.currency = "TON" /\ y.amount = ta
  <2> HIDE DEF ta
  <2>1. ColdRequest(2, "TON", ta).currency = "TON" /\ ColdRequest(2, "TON", ta).amount = ta
    BY DEF ColdRequest
  <2> QED BY <2>1
<1>5. initial["JETTON"] - ja = HotWalletMaxCutoff
  BY <1>2
<1> HIDE DEF ja, jr, ta, tr, J
<1>6. ASSUME tr # {} PROVE initial["TON"] - sum = HotWalletMax
  <2>1. PICK y : tr = {y} /\ y.currency = "TON" /\ y.amount = ta
    BY <1>4, <1>6
  <2>2. CASE jr = {}
    <3>1. Cardinality(jr) = 0
      BY <2>2, FS_EmptySet
    <3>2. ta = initial["TON"] - HotWalletMax /\ ta \in Int
      BY <1>1, <1>2, <3>1
    <3>3. cold' = {} \cup {y} /\ tons[y] = ta
      BY <1>1, <2>1, <2>2
    <3> HIDE DEF tons
    <3>4. sum = ta + SumFunctionOnSet(tons, {})
      <4>1. \A z \in {} \cup {y} : tons[z] \in Int
        BY <3>2, <3>3
      <4> QED BY <3>3, <4>1, SumAdd, FS_EmptySet
    <3>5. SumFunctionOnSet(tons, {}) = 0
      BY SumEmpty
    <3> HIDE DEF sum
    <3> QED BY <1>2, <3>2, <3>4, <3>5
  <2>3. CASE jr # {}
    <3>0. PICK x : jr = {x} /\ x.currency = "JETTON"
      BY <1>3, <2>3
    <3>1. Cardinality(jr) = 1 /\ IsFiniteSet({x})
      BY <3>0, FS_Singleton
    <3>2. ta = (initial["TON"] - J) - HotWalletMax /\ ta \in Int
      <4>1. J * Cardinality(jr) = J
        BY <1>2, <3>1
      <4> QED BY <1>1, <1>2, <4>1
    <3>3. cold' = {x} \cup {y} /\ tons[y] = ta /\ tons[x] = J /\ y \notin {x}
      BY <1>1, <2>1, <3>0
    <3>4. {x} = {} \cup {x} /\ x \notin {} /\ IsFiniteSet({})
      BY FS_EmptySet
    <3> HIDE DEF tons
    <3>5. SumFunctionOnSet(tons, {x}) = J + SumFunctionOnSet(tons, {})
      <4>1. \A z \in {} \cup {x} : tons[z] \in Int
        BY <1>2, <3>3
      <4> QED BY <3>3, <3>4, <4>1, SumAdd
    <3>6. sum = ta + SumFunctionOnSet(tons, {x})
      <4>1. \A z \in {x} \cup {y} : tons[z] \in Int
        BY <1>2, <3>2, <3>3
      <4> QED BY <3>1, <3>3, <4>1, SumAdd
    <3>7. SumFunctionOnSet(tons, {}) = 0
      BY SumEmpty
    <3> HIDE DEF sum
    <3> QED BY <1>2, <3>2, <3>5, <3>6, <3>7
  <2> QED BY <2>2, <2>3
<1>7. ASSUME NEW r \in cold'
      PROVE  IF r.currency = "TON" THEN initial["TON"] - sum >= HotWalletMax
                                   ELSE initial["JETTON"] - r.amount >= HotWalletMaxCutoff
  <2>1. CASE r \in tr
    <3>1. r.currency = "TON" /\ initial["TON"] - sum = HotWalletMax
      BY <1>4, <1>6, <2>1
    <3> HIDE DEF sum
    <3> QED BY <1>2, <3>1
  <2>2. CASE r \in jr
    <3>1. r.currency = "JETTON" /\ initial["JETTON"] - r.amount = HotWalletMaxCutoff
      BY <1>3, <1>5, <2>2
    <3> HIDE DEF sum
    <3> QED BY <1>2, <3>1
  <2> QED BY <1>1, <2>1, <2>2
<1>8. DOMAIN tons = cold' /\ J = JettonTransferTonAmount
  BY DEF J
<1> QED BY <1>1, <1>7, <1>8 DEF ColdLeavesMaximum, SumFunction

\* The cold wallet takes the surplus only, for any balances, maxima and fees.
THEOREM ColdTakesSurplus == Spec => []ColdLeavesMaximum
<1>1. Init => ColdLeavesMaximum
  BY DEF Init, ColdLeavesMaximum
<1>2. Types /\ ColdLeavesMaximum /\ [Next]_vars => ColdLeavesMaximum'
  <2> SUFFICES ASSUME Types, ColdLeavesMaximum, [Next]_vars PROVE ColdLeavesMaximum'
    OBVIOUS
  <2>1. ASSUME NEW j \in BOOLEAN, NEW t \in BOOLEAN, MakeColdWalletWithdrawals(j, t)
        PROVE  ColdLeavesMaximum'
    BY <2>1, ColdStep DEF MakeColdWalletWithdrawals
  <2>2. CASE UNCHANGED <<initial, cold>>
    BY <2>2 DEF ColdLeavesMaximum
  <2>3. CASE \/ \E a \in service, hasFunds \in BOOLEAN : ServiceTask(a, hasFunds)
             \/ \E found \in SUBSET incomes : StartInternal(found)
             \/ \E a \in incomes, hasFunds \in BOOLEAN : InternalTask(a, hasFunds)
             \/ StartExternal
             \/ \E r \in requests : ExternalTask(r)
             \/ Return \/ BuildError \/ UNCHANGED vars
    BY <2>2, <2>3 DEF ServiceTask, StartInternal, InternalTask, StartExternal, ExternalTask,
       Return, BuildError, vars, tables
  <2>4. ASSUME NEW saved \in BOOLEAN, ColdWalletError(saved) PROVE ColdLeavesMaximum'
    <3>1. (~ saved) \in BOOLEAN /\ TRUE \in BOOLEAN
      OBVIOUS
    <3>2. cold' = SurplusRequests(~ saved, TRUE) /\ initial' = initial
      BY <2>4 DEF ColdWalletError
    <3> QED BY <3>1, <3>2, ColdStep
  <2> QED BY <2>1, <2>3, <2>4 DEF Next, Round
<1> QED BY <1>1, <1>2, BatchAlways, PTL DEF Spec

----------------------------------------------------------------------------
(* ShardTracker: powers of two                                             *)

\* the equation of Power up to n
PowersTo(g, n) == g = [k \in 0..n |-> IF k = 0 THEN 1 ELSE 2 * g[k - 1]]

\* The recursion has a solution, so that Power is one.
LEMMA PowersExist ==
    ASSUME NEW n \in Nat
    PROVE  \E g : PowersTo(g, n)
<1> DEFINE B == {k \in Nat : ~ \E g : PowersTo(g, k)}
<1>1. SUFFICES B = {}
  OBVIOUS
<1>2. SUFFICES ASSUME B # {} PROVE FALSE
  OBVIOUS
<1>3. PICK m \in B : \A k \in B : m <= k
  <2>1. B \in SUBSET Nat
    OBVIOUS
  <2> HIDE DEF B
  <2> QED BY <1>2, <2>1, LeastSize
<1>4. CASE m = 0
  <2> DEFINE h == [k \in 0..0 |-> 1]
  <2>1. PowersTo(h, 0)
    BY DEF PowersTo
  <2> QED BY <1>4, <2>1
<1>5. CASE m # 0
  <2>1. m - 1 \in Nat /\ m - 1 \notin B
    BY <1>3, <1>5
  <2>2. PICK g : PowersTo(g, m - 1)
    BY <2>1
  <2> DEFINE h == [k \in 0..m |-> IF k = m THEN 2 * g[m - 1] ELSE g[k]]
  <2>3. \A k \in 0..(m - 1) : g[k] = IF k = 0 THEN 1 ELSE 2 * g[k - 1]
    BY <2>2 DEF PowersTo
  <2>4. \A k \in 0..m : h[k] = IF k = 0 THEN 1 ELSE 2 * h[k - 1]
    BY <1>5, <2>1, <2>3
  <2>5. PowersTo(h, m)
    BY <2>4 DEF PowersTo
  <2> QED BY <2>5
<1> QED BY <1>4, <1>5

LEMMA PowerIs ==
    PowersTo(Power, WordWidth)
BY PowersExist, ShardAssumption DEF Power, PowersTo

LEMMA PowerStep ==
    /\ Power[0] = 1
    /\ \A n \in 0..(WordWidth - 1) : Power[n + 1] = 2 * Power[n]
<1>1. \A k \in 0..WordWidth : Power[k] = IF k = 0 THEN 1 ELSE 2 * Power[k - 1]
  BY PowerIs DEF PowersTo
<1>2. 0 \in 0..WordWidth
  BY ShardAssumption
<1>3. ASSUME NEW n \in 0..(WordWidth - 1) PROVE Power[n + 1] = 2 * Power[n]
  <2>1. n + 1 \in 0..WordWidth /\ n + 1 # 0 /\ (n + 1) - 1 = n
    BY ShardAssumption
  <2> QED BY <1>1, <2>1
<1> QED BY <1>1, <1>2, <1>3

LEMMA PowerPositive ==
    \A n \in 0..WordWidth : Power[n] \in Nat /\ Power[n] > 0
<1> DEFINE B == {n \in 0..WordWidth : ~ (Power[n] \in Nat /\ Power[n] > 0)}
<1>1. SUFFICES ASSUME B # {} PROVE FALSE
  OBVIOUS
<1>2. PICK m \in B : \A k \in B : m <= k
  <2>1. B \in SUBSET Nat
    BY ShardAssumption
  <2> HIDE DEF B
  <2> QED BY <1>1, <2>1, LeastSize
<1>3. m # 0
  BY PowerStep
<1>4. m - 1 \in 0..(WordWidth - 1) /\ (m - 1) + 1 = m /\ m - 1 \notin B
  BY <1>2, <1>3, ShardAssumption
<1>5. Power[m] = 2 * Power[m - 1] /\ Power[m - 1] \in Nat /\ Power[m - 1] > 0
  BY <1>4, PowerStep, ShardAssumption
<1> QED BY <1>5

LEMMA PowerSum ==
    ASSUME NEW m \in Nat, NEW k \in Nat, m + k <= WordWidth
    PROVE  Power[m + k] = Power[m] * Power[k]
<1> DEFINE B == {n \in Nat : m + n <= WordWidth /\ Power[m + n] # Power[m] * Power[n]}
<1>1. SUFFICES ASSUME B # {} PROVE FALSE
  OBVIOUS
<1>2. PICK n \in B : \A i \in B : n <= i
  <2>1. B \in SUBSET Nat
    OBVIOUS
  <2> HIDE DEF B
  <2> QED BY <1>1, <2>1, LeastSize
<1>3. m \in 0..WordWidth /\ Power[m] \in Nat
  BY <1>2, PowerPositive, ShardAssumption
<1>4. n # 0
  BY <1>2, <1>3, PowerStep
<1> DEFINE i == n - 1
<1>5. /\ i \in 0..(WordWidth - 1) /\ i + 1 = n /\ m + i \in 0..(WordWidth - 1)
      /\ (m + i) + 1 = m + n /\ i \notin B
  BY <1>2, <1>4, ShardAssumption
<1>6. Power[m + i] = Power[m] * Power[i]
  BY <1>5, ShardAssumption
<1>7. Power[n] = 2 * Power[i] /\ Power[m + n] = 2 * Power[m + i]
  BY <1>5, PowerStep
<1>8. Power[i] \in Nat
  BY <1>5, PowerPositive, ShardAssumption
<1> HIDE DEF i
<1>9. 2 * (Power[m] * Power[i]) = Power[m] * (2 * Power[i])
  BY <1>3, <1>8
<1> QED BY <1>2, <1>6, <1>7, <1>9

\* Division, as quotient and rest.
LEMMA DivMod ==
    ASSUME NEW a \in Nat, NEW d \in Nat, d > 0
    PROVE  /\ a \div d \in Nat /\ a % d \in Nat /\ a % d < d
           /\ a = d * (a \div d) + (a % d)
OBVIOUS

LEMMA DivModUnique ==
    ASSUME NEW d \in Nat, d > 0, NEW q \in Nat, NEW r \in Nat, r < d
    PROVE  (d * q + r) \div d = q /\ (d * q + r) % d = r
OBVIOUS

\* What divides a multiple: a number of the form d * q has rest 0, and a number
\* with rest 0 has that form.
LEMMA Multiples ==
    ASSUME NEW a \in Nat, NEW d \in Nat, d > 0
    PROVE  a % d = 0 <=> \E q \in Nat : a = d * q
<1>1. ASSUME a % d = 0 PROVE \E q \in Nat : a = d * q
  <2>1. a = d * (a \div d) /\ a \div d \in Nat
    BY <1>1, DivMod
  <2> QED BY <2>1
<1>2. ASSUME NEW q \in Nat, a = d * q PROVE a % d = 0
  <2>1. d * q = d * q + 0
    BY <1>2
  <2> QED BY <1>2, <2>1, DivModUnique
<1> QED BY <1>1, <1>2

\* Two numbers have the same quotient when they lie in the same interval of
\* multiples.
LEMMA SameQuotient ==
    ASSUME NEW a \in Nat, NEW d \in Nat, d > 0, NEW q \in Nat
    PROVE  a \div d = q <=> d * q <= a /\ a < d * (q + 1)
<1>1. d * (q + 1) = d * q + d
  OBVIOUS
<1>2. ASSUME a \div d = q PROVE d * q <= a /\ a < d * (q + 1)
  BY <1>1, <1>2, DivMod
<1>3. ASSUME d * q <= a, a < d * (q + 1) PROVE a \div d = q
  <2> DEFINE r == a - d * q
  <2>1. r \in Nat /\ r < d
    BY <1>1, <1>3
  <2>2. a = d * q + r
    OBVIOUS
  <2> HIDE DEF r
  <2> QED BY <2>1, <2>2, DivModUnique
<1> QED BY <1>2, <1>3

----------------------------------------------------------------------------
(* Shard words                                                             *)

\* A bounded set of numbers has a greatest element, and a least one.
LEMMA MaxIn ==
    ASSUME NEW n \in Nat, NEW S \in SUBSET (0..n), S # {}
    PROVE  Max(S) \in S /\ \A k \in S : k <= Max(S)
<1> DEFINE B == {n - k : k \in S}
<1>0. \A k \in S : k \in Int /\ n - k \in Nat
  OBVIOUS
<1>1. B \in SUBSET Nat /\ B # {}
  BY <1>0
<1>2. PICK b \in B : \A c \in B : b <= c
  <2> HIDE DEF B
  <2> QED BY <1>1, LeastSize
<1>3. PICK m \in S : b = n - m
  OBVIOUS
<1>4. \A k \in S : m >= k
  BY <1>2, <1>3
<1>5. Max(S) \in S /\ \A k \in S : Max(S) >= k
  BY <1>4 DEF Max
<1>6. S \subseteq Int
  OBVIOUS
<1> QED BY <1>5, <1>6

LEMMA MinIn ==
    ASSUME NEW S \in SUBSET Nat, S # {}
    PROVE  Min(S) \in S /\ \A k \in S : Min(S) <= k
<1>1. PICK m \in S : \A k \in S : m <= k
  BY LeastSize
<1> QED BY <1>1 DEF Min

\* the distance from a word to the ends of its interval
Low(w) == Power[TrailingZeros(w)]

\* An odd multiple of a power of two has as many trailing zeros.
LEMMA TrailingZerosOf ==
    ASSUME NEW t \in 0..(WordWidth - 1), NEW q \in Nat
    PROVE  TrailingZeros((2 * q + 1) * Power[t]) = t
<1> DEFINE w == (2 * q + 1) * Power[t]
           S == {n \in 0..WordWidth : w % Power[n] = 0}
<1>1. t \in 0..WordWidth /\ Power[t] \in Nat /\ Power[t] > 0 /\ WordWidth \in Nat
  BY PowerPositive, ShardAssumption
<1>2. w \in Nat
  BY <1>1
<1>3. t \in S
  <2>1. w = Power[t] * (2 * q + 1) /\ 2 * q + 1 \in Nat
    BY <1>1
  <2> HIDE DEF w
  <2> QED BY <1>1, <1>2, <2>1, Multiples
<1>4. ASSUME NEW n \in S PROVE n <= t
  <2> SUFFICES ASSUME n > t PROVE FALSE
    BY <1>1
  <2>1. Power[n] \in Nat /\ Power[n] > 0
    BY PowerPositive
  <2> DEFINE k == n - (t + 1)
  <2>2. k \in 0..WordWidth /\ k \in Nat /\ t + 1 \in Nat /\ (t + 1) + k = n /\ n <= WordWidth
    BY <1>1
  <2>3. Power[n] = Power[t + 1] * Power[k]
    BY <2>2, PowerSum
  <2>4. Power[t + 1] = 2 * Power[t] /\ Power[k] \in Nat
    BY <2>2, PowerStep, PowerPositive
  <2> HIDE DEF k
  <2>5. PICK p \in Nat : w = Power[n] * p
    <3> HIDE DEF w
    <3>1. w % Power[n] = 0
      OBVIOUS
    <3> QED BY <1>2, <2>1, <3>1, Multiples
  <2>6. (2 * q + 1) * Power[t] = (2 * (Power[k] * p)) * Power[t]
    BY <1>1, <2>3, <2>4, <2>5
  <2>7. Power[k] * p \in Nat
    BY <2>4
  <2>8. 2 * q + 1 = 2 * (Power[k] * p)
    BY <1>1, <2>6, <2>7
  <2> QED BY <2>7, <2>8
<1>5. Max(S) = t
  <2>1. S \in SUBSET (0..WordWidth) /\ S # {}
    BY <1>3
  <2> HIDE DEF S
  <2>2. Max(S) \in S /\ \A k \in S : k <= Max(S)
    BY <1>1, <2>1, MaxIn
  <2>3. Max(S) \in 0..WordWidth
    BY <2>1, <2>2
  <2> QED BY <1>1, <1>3, <1>4, <2>2, <2>3
<1> QED BY <1>5 DEF TrailingZeros

\* Every word is such a multiple.
LEMMA WordForm ==
    ASSUME NEW w \in Words
    PROVE  /\ TrailingZeros(w) \in 0..(WordWidth - 1)
           /\ Low(w) \in Nat /\ Low(w) > 0
           /\ \E q \in Nat : w = (2 * q + 1) * Low(w)
<1> DEFINE S == {n \in 0..WordWidth : w % Power[n] = 0}
           t == TrailingZeros(w)
<1>1. WordWidth \in Nat /\ Power[0] = 1 /\ Power[WordWidth] \in Nat /\ Power[WordWidth] > 0
  BY ShardAssumption, PowerStep, PowerPositive
<1>2. w \in Nat /\ w > 0 /\ w < Power[WordWidth]
  BY <1>1 DEF Words
<1>3. 0 \in S
  <2>1. w = 1 * w
    BY <1>2
  <2> QED BY <1>1, <1>2, <2>1, Multiples
<1>4. t \in S /\ \A k \in S : k <= t
  <2>1. S \in SUBSET (0..WordWidth) /\ S # {}
    BY <1>3
  <2>2. t = Max(S)
    BY DEF TrailingZeros
  <2> HIDE DEF S, t
  <2> QED BY <1>1, <2>1, <2>2, MaxIn
<1> HIDE DEF t
<1>5. t # WordWidth
  <2>1. w = Power[WordWidth] * 0 + w
    BY <1>1, <1>2
  <2>2. w % Power[WordWidth] = w
    BY <1>1, <1>2, <2>1, DivModUnique
  <2> QED BY <1>2, <1>4, <2>2
<1>6. t \in 0..(WordWidth - 1) /\ t \in 0..WordWidth /\ t + 1 \in 0..WordWidth
  BY <1>1, <1>4, <1>5
<1>7. Power[t] \in Nat /\ Power[t] > 0 /\ Power[t + 1] = 2 * Power[t]
  BY <1>6, PowerPositive, PowerStep
<1>8. PICK p \in Nat : w = Power[t] * p
  BY <1>2, <1>4, <1>7, Multiples
<1>9. PICK q \in Nat : p = 2 * q \/ p = 2 * q + 1
  <2>1. p = 2 * (p \div 2) \/ p = 2 * (p \div 2) + 1
    OBVIOUS
  <2> QED BY <2>1
<1>10. p # 2 * q
  <2> SUFFICES ASSUME p = 2 * q PROVE FALSE
    OBVIOUS
  <2>1. w = Power[t + 1] * q /\ Power[t + 1] \in Nat /\ Power[t + 1] > 0
    BY <1>7, <1>8
  <2>2. w % Power[t + 1] = 0
    BY <1>2, <2>1, Multiples
  <2>3. t + 1 \in S
    BY <1>6, <2>2
  <2> QED BY <1>4, <1>6, <2>3
<1>11. w = (2 * q + 1) * Power[t]
  BY <1>7, <1>8, <1>9, <1>10
<1> QED BY <1>6, <1>7, <1>11 DEF Low, t

\* Dividing twice is dividing by the product.
LEMMA DivTwice ==
    ASSUME NEW a \in Nat, NEW d \in Nat, d > 0, NEW e \in Nat, e > 0
    PROVE  a \div (d * e) = (a \div d) \div e
<1> DEFINE x == a \div d
           y == x \div e
<1>1. x \in Nat /\ d * x <= a /\ a < d * (x + 1)
  BY DivMod, SameQuotient
<1> HIDE DEF x
<1>2. y \in Nat /\ e * y <= x /\ x < e * (y + 1)
  BY <1>1, DivMod, SameQuotient
<1> HIDE DEF y
<1>3. e * y \in Nat /\ e * (y + 1) \in Nat /\ x + 1 <= e * (y + 1)
  BY <1>1, <1>2
<1>4. d * (e * y) <= d * x /\ d * (x + 1) <= d * (e * (y + 1))
  BY <1>1, <1>2, <1>3
<1>5. d * (e * y) = (d * e) * y /\ d * (e * (y + 1)) = (d * e) * (y + 1)
  BY <1>2
<1>6. d * e \in Nat /\ d * e > 0
  OBVIOUS
<1>7. (d * e) * y <= a /\ a < (d * e) * (y + 1)
  <2>1. /\ d * (e * y) \in Nat /\ d * x \in Nat /\ d * (x + 1) \in Nat
        /\ d * (e * (y + 1)) \in Nat
    BY <1>1, <1>3
  <2> HIDE <1>2, <1>3
  <2> QED BY <1>1, <1>4, <1>5, <2>1
<1>8. a \div (d * e) = y
  BY <1>2, <1>6, <1>7, SameQuotient
<1> QED BY <1>8 DEF x, y

\* The byte at the front of a word is a word.
LEMMA ShiftedRange ==
    ASSUME NEW byte \in Bytes
    PROVE  Shifted(byte) \in Nat /\ Shifted(byte) < Power[WordWidth]
<1> DEFINE k == WordWidth - ByteWidth
<1>1. ByteWidth \in Nat /\ k \in Nat /\ ByteWidth + k = WordWidth
      /\ ByteWidth \in 0..WordWidth /\ k \in 0..WordWidth
  BY ShardAssumption
<1>2. /\ Power[ByteWidth] \in Nat /\ Power[ByteWidth] > 0 /\ Power[k] \in Nat /\ Power[k] > 0
      /\ Power[WordWidth] = Power[ByteWidth] * Power[k]
  <2>1. ByteWidth + k <= WordWidth
    BY <1>1
  <2> HIDE DEF k
  <2> QED BY <1>1, <2>1, PowerPositive, PowerSum
<1>3. byte \in Nat /\ byte + 1 <= Power[ByteWidth]
  BY <1>2 DEF Bytes
<1> HIDE DEF k
<1>4. (byte + 1) * Power[k] <= Power[ByteWidth] * Power[k]
  BY <1>2, <1>3
<1>5. (byte + 1) * Power[k] = byte * Power[k] + Power[k] /\ byte * Power[k] \in Nat
  <2>1. \A P \in Nat : (byte + 1) * P = byte * P + P /\ byte * P \in Nat
    BY <1>3
  <2> QED BY <1>2, <2>1
<1> QED BY <1>2, <1>4, <1>5 DEF Shifted, k

\* What isInShard computes: the byte lies in the interval around the word.
LEMMA InInterval ==
    ASSUME NEW w \in Words, NEW byte \in Bytes
    PROVE  isInShard(w, byte) <=> /\ w - Low(w) <= Shifted(byte)
                                  /\ Shifted(byte) < w + Low(w)
<1> DEFINE a == Shifted(byte)
           t == TrailingZeros(w)
           L == Low(w)
           S == {n \in 0..WordWidth : a \div Power[n] = w \div Power[n]}
<1>1. a \in Nat /\ a < Power[WordWidth]
  BY ShiftedRange
<1>2. WordWidth \in Nat /\ Power[WordWidth] \in Nat /\ Power[WordWidth] > 0
  BY ShardAssumption, PowerPositive
<1>3. w \in Nat /\ w < Power[WordWidth]
  BY <1>2 DEF Words
<1>4. t \in 0..(WordWidth - 1) /\ t \in 0..WordWidth /\ t + 1 \in 0..WordWidth
  BY <1>2, WordForm
<1>5. PICK q \in Nat : w = (2 * q + 1) * L
  BY WordForm
<1>6. L \in Nat /\ L > 0 /\ Power[t + 1] = 2 * L /\ L = Power[t]
  BY <1>4, PowerStep, PowerPositive DEF Low
<1>7. isInShard(w, byte) <=> WordWidth - Min(S) >= WordWidth - 1 - t
  BY DEF isInShard, LeadingZerosXor, PrefixLen
<1> HIDE DEF a, t, L
<1>8. WordWidth \in S
  <2>1. Power[WordWidth] * 0 = 0 /\ Power[WordWidth] * (0 + 1) = Power[WordWidth]
    BY <1>2
  <2>2. a \div Power[WordWidth] = 0 /\ w \div Power[WordWidth] = 0
    BY <1>1, <1>2, <1>3, <2>1, SameQuotient
  <2> QED BY <1>2, <2>2
<1>9. Min(S) \in S /\ \A n \in S : Min(S) <= n
  <2>1. S \in SUBSET Nat /\ S # {}
    BY <1>2, <1>8
  <2> HIDE DEF S
  <2> QED BY <2>1, MinIn
<1>10. Min(S) <= t + 1 <=> t + 1 \in S
  <2>1. ASSUME t + 1 \in S PROVE Min(S) <= t + 1
    BY <1>9, <2>1
  <2>2. ASSUME Min(S) <= t + 1 PROVE t + 1 \in S
    <3>1. PICK n \in S : n = Min(S)
      BY <1>9
    <3> DEFINE k == (t + 1) - n
    <3>2. n \in 0..WordWidth /\ n \in Nat /\ k \in Nat /\ k \in 0..WordWidth /\ n + k = t + 1
      BY <1>2, <1>4, <2>2, <3>1
    <3>3. n + k <= WordWidth
      BY <1>2, <1>4, <3>2
    <3> HIDE DEF k
    <3>4. Power[t + 1] = Power[n] * Power[k]
      BY <3>2, <3>3, PowerSum
    <3>5. Power[n] \in Nat /\ Power[n] > 0 /\ Power[k] \in Nat /\ Power[k] > 0
      BY <3>2, PowerPositive
    <3>6. a \div Power[n] = w \div Power[n]
      OBVIOUS
    <3>7. a \div Power[t + 1] = w \div Power[t + 1]
      BY <1>1, <1>3, <3>4, <3>5, <3>6, DivTwice
    <3> QED BY <1>4, <3>7
  <2> QED BY <2>1, <2>2
<1>11. /\ (2 * L) * q = w - L /\ (2 * L) * (q + 1) = w + L
       /\ 2 * L \in Nat /\ 2 * L > 0 /\ w - L <= w /\ w < w + L
  BY <1>3, <1>5, <1>6
<1>12. w \div (2 * L) = q
  BY <1>3, <1>11, SameQuotient
<1>13. t + 1 \in S <=> a \div (2 * L) = q
  BY <1>4, <1>6, <1>12
<1>14. a \div (2 * L) = q <=> w - L <= a /\ a < w + L
  <2>1. a \div (2 * L) = q <=> (2 * L) * q <= a /\ a < (2 * L) * (q + 1)
    BY <1>1, <1>11, SameQuotient
  <2> QED BY <1>11, <2>1
<1>15. WordWidth - Min(S) >= WordWidth - 1 - t <=> Min(S) <= t + 1
  <2>1. Min(S) \in Int
    BY <1>9
  <2> HIDE DEF S
  <2> QED BY <1>2, <1>4, <2>1
<1> QED BY <1>7, <1>10, <1>13, <1>14, <1>15 DEF a, L

\* The whole workchain contains every byte.
LEMMA RootCovers ==
    Root \in Words /\ PrefixLen(Root) = 0 /\ \A byte \in Bytes : isInShard(Root, byte)
<1> DEFINE t == WordWidth - 1
<1>1. WordWidth \in Nat /\ t \in 0..(WordWidth - 1) /\ t \in 0..WordWidth /\ t + 1 = WordWidth
  BY ShardAssumption
<1>2. Power[t] \in Nat /\ Power[t] > 0 /\ Power[WordWidth] = 2 * Power[t]
  BY <1>1, PowerStep, PowerPositive
<1>3. Root = Power[t] /\ Root = (2 * 0 + 1) * Power[t]
  BY <1>2 DEF Root
<1>4. Root \in Words
  BY <1>2, <1>3 DEF Words
<1>5. TrailingZeros(Root) = t
  <2> HIDE DEF t
  <2> QED BY <1>1, <1>3, TrailingZerosOf
<1>6. ASSUME NEW byte \in Bytes PROVE isInShard(Root, byte)
  <2>1. Low(Root) = Power[t]
    BY <1>5 DEF Low
  <2>2. Shifted(byte) \in Nat /\ Shifted(byte) < Power[WordWidth]
    BY ShiftedRange
  <2> HIDE DEF t
  <2>3. Root - Low(Root) <= Shifted(byte) /\ Shifted(byte) < Root + Low(Root)
    BY <1>2, <1>3, <2>1, <2>2
  <2> QED BY <1>4, <2>3, InInterval
<1> QED BY <1>1, <1>4, <1>5, <1>6 DEF PrefixLen

\* A split shares the bytes of a shard out to its halves, each byte to one.
LEMMA HalvesShare ==
    ASSUME NEW w \in Words, PrefixLen(w) < ByteWidth
    PROVE  /\ Half(w, -1) \in Words /\ Half(w, 1) \in Words
           /\ Half(w, -1) # Half(w, 1)
           /\ Union(Half(w, -1), Half(w, 1)) = w
           /\ \A byte \in Bytes :
                /\ isInShard(w, byte) <=> isInShard(Half(w, -1), byte) \/ isInShard(Half(w, 1), byte)
                /\ ~ (isInShard(Half(w, -1), byte) /\ isInShard(Half(w, 1), byte))
<1> DEFINE t == TrailingZeros(w)
           s == t - 1
           v == Half(w, -1)
           u == Half(w, 1)
<1>1. WordWidth \in Nat /\ ByteWidth \in Nat /\ ByteWidth < WordWidth
  BY ShardAssumption
<1>2. t \in 0..(WordWidth - 1) /\ t >= 1
  BY <1>1, WordForm DEF PrefixLen
<1>3. PICK q \in Nat : w = (2 * q + 1) * Low(w)
  BY WordForm
<1>4. s \in 0..(WordWidth - 1) /\ s \in 0..WordWidth /\ s + 1 = t
  BY <1>1, <1>2
<1> DEFINE H == Power[s]
<1>5. H \in Nat /\ H > 0 /\ Low(w) = 2 * H
  BY <1>4, PowerStep, PowerPositive DEF Low
<1>6. v = w - H /\ u = w + H
  BY <1>5, DivMod DEF Half, Words
<1> HIDE DEF H, s, v, u, t
<1>7. w = (2 * q + 1) * (2 * H) /\ w \in Nat
  BY <1>3, <1>5
<1>8. /\ v = (2 * (2 * q) + 1) * H /\ u = (2 * (2 * q + 1) + 1) * H
      /\ 2 * q \in Nat /\ 2 * q + 1 \in Nat
  BY <1>5, <1>6, <1>7
<1>9. TrailingZeros(v) = s /\ TrailingZeros(u) = s
  BY <1>4, <1>8, TrailingZerosOf DEF H
<1>10. Low(v) = H /\ Low(u) = H
  BY <1>9 DEF Low, H
<1>11. v \in Words /\ u \in Words
  <2>1. /\ Power[WordWidth] \in Nat /\ w < Power[WordWidth] /\ w >= 1
    BY <1>1, PowerPositive DEF Words
  <2>2. v \in Nat /\ v >= 1 /\ v < Power[WordWidth]
    <3>1. 2 * (2 * q) + 1 >= 1 /\ (2 * (2 * q) + 1) * H >= H
      BY <1>5
    <3> QED BY <1>5, <1>6, <1>7, <1>8, <2>1, <3>1
  <2>3. u \in Nat /\ u >= 1 /\ u < Power[WordWidth]
    <3> DEFINE k == WordWidth - t
    <3>1. /\ k \in Nat /\ t \in Nat /\ t + k <= WordWidth /\ t + k = WordWidth /\ k \in 0..WordWidth
          /\ k >= 1
      BY <1>1, <1>2
    <3> HIDE DEF k
    <3>2. Power[WordWidth] = Low(w) * Power[k] /\ Power[k] \in Nat
      BY <3>1, PowerSum, PowerPositive DEF Low, t
    <3>3. (2 * q + 1) * (2 * H) < (2 * H) * Power[k]
      BY <1>5, <1>7, <2>1, <3>2
    <3>4. 2 * q + 1 < Power[k]
      BY <1>5, <3>2, <3>3
    <3>5. (2 * q + 2) * (2 * H) <= (2 * H) * Power[k]
      BY <1>5, <3>2, <3>4
    <3>6. (2 * q + 2) * (2 * H) = w + 2 * H
      BY <1>5, <1>7
    <3> QED BY <1>5, <1>6, <1>7, <2>1, <3>2, <3>5, <3>6
  <2> QED BY <2>1, <2>2, <2>3 DEF Words
<1>12. v # u /\ (v + u) \div 2 = w
  BY <1>5, <1>6, <1>7
<1>13. ASSUME NEW byte \in Bytes
       PROVE  /\ isInShard(w, byte) <=> isInShard(v, byte) \/ isInShard(u, byte)
              /\ ~ (isInShard(v, byte) /\ isInShard(u, byte))
  <2> DEFINE a == Shifted(byte)
  <2>1. a \in Nat
    BY ShiftedRange
  <2>2. /\ isInShard(w, byte) <=> w - 2 * H <= a /\ a < w + 2 * H
        /\ isInShard(v, byte) <=> v - H <= a /\ a < v + H
        /\ isInShard(u, byte) <=> u - H <= a /\ a < u + H
    BY <1>5, <1>10, <1>11, InInterval
  <2> HIDE DEF a
  <2> QED BY <1>5, <1>6, <1>7, <2>1, <2>2
<1> QED BY <1>11, <1>12, <1>13 DEF v, u, Union

----------------------------------------------------------------------------
(* The chain                                                               *)

\* the newest block of the line
Newest == line[Len(line)]

BlocksTyped ==
    /\ heads \subseteq DOMAIN parents
    /\ \A b \in DOMAIN parents :
          b = Block(b.shard, b.seqno) /\ b.shard \in Words /\ b.seqno \in Nat
    /\ \A b \in DOMAIN parents : parents[b] \subseteq DOMAIN parents
    /\ line \in Seq(DOMAIN parents) /\ Len(line) \in 1..MaxBlocks

\* The line consists of blocks that contain the byte, with increasing seqnos,
\* and ends in the head that contains it.
LineInOrder ==
    /\ \A i \in 1..Len(line) : OnLine(line[i])
    /\ \A i, j \in 1..Len(line) : i < j => line[i].seqno < line[j].seqno
    /\ {h \in heads : OnLine(h)} = {Newest}

\* The only parent that contains the byte is the block before on the line.
ParentOnLine ==
    \A i \in 2..Len(line) : {p \in parents[line[i]] : OnLine(p)} = {line[i - 1]}

ChainInv == BlocksTyped /\ ExactlyOneShard /\ LineInOrder /\ ParentOnLine

\* The blocks new take the bytes of the blocks old over and have greater seqnos.
TakesOver(old, new) ==
    /\ \A n \in new : n = Block(n.shard, n.seqno) /\ n.shard \in Words /\ n.seqno \in Nat
    /\ \A n \in new, o \in old : o.seqno < n.seqno
    /\ \A byte \in Bytes :
          /\ (\E o \in old : isInShard(o.shard, byte)) <=> (\E n \in new : isInShard(n.shard, byte))
          /\ \A m, n \in new : isInShard(m.shard, byte) /\ isInShard(n.shard, byte) => m = n

\* Commit, seen from the line.
LEMMA CommitLine ==
    ASSUME ChainInv, NEW old \in SUBSET heads, NEW new, TakesOver(old, new), Commit(old, new)
    PROVE  \/ /\ \A n \in new : ~ OnLine(n)
              /\ Newest \notin old
              /\ line' = line
           \/ \E n \in new :
                /\ OnLine(n) /\ \A m \in new : OnLine(m) => m = n
                /\ Newest.seqno < n.seqno
                /\ {o \in old : OnLine(o)} = {Newest}
                /\ line' = Append(line, n)
<1>1. Shard \in Bytes
  BY ShardAssumption
<1>2. \A o \in old : OnLine(o) <=> o = Newest
  BY DEF ChainInv, LineInOrder
<1>3. OnLine(Newest)
  BY DEF ChainInv, LineInOrder
<1>4. Newest \in old <=> \E n \in new : OnLine(n)
  BY <1>1, <1>2, <1>3 DEF TakesOver, OnLine
<1>5. CASE Newest \notin old
  BY <1>4, <1>5 DEF Commit
<1>6. CASE Newest \in old
  <2>1. PICK n \in new : OnLine(n)
    BY <1>4, <1>6
  <2>2. \A m \in new : OnLine(m) => m = n
    BY <1>1, <2>1 DEF TakesOver, OnLine
  <2>3. (CHOOSE b \in new : OnLine(b)) = n
    BY <2>1, <2>2
  <2>4. line' = Append(line, n)
    BY <2>1, <2>3 DEF Commit
  <2>5. Newest.seqno < n.seqno
    BY <1>6 DEF TakesOver
  <2> QED BY <1>2, <1>3, <1>6, <2>1, <2>2, <2>4, <2>5
<1> QED BY <1>5, <1>6

\* What Append does, by elements.
LEMMA LineAppended ==
    ASSUME NEW S, NEW s \in Seq(S), NEW e
    PROVE  /\ Append(s, e) \in Seq(S \cup {e})
           /\ Len(Append(s, e)) = Len(s) + 1
           /\ Append(s, e)[Len(s) + 1] = e
           /\ \A i \in 1..Len(s) : Append(s, e)[i] = s[i]
<1>1. s \in Seq(S \cup {e})
  OBVIOUS
<1> QED BY <1>1

\* A masterchain block keeps the parts of the workchain disjoint and the line
\* whole.
LEMMA CommitStep ==
    ASSUME ChainInv, NEW old \in SUBSET heads, NEW new, TakesOver(old, new), Commit(old, new)
    PROVE  ChainInv'
<1>1. /\ Len(line) < MaxBlocks
      /\ heads' = (heads \ old) \cup new
      /\ DOMAIN parents' = DOMAIN parents \cup new
      /\ \A b \in new : parents'[b] = old
      /\ \A b \in DOMAIN parents \ new : parents'[b] = parents[b]
  BY DEF Commit
<1>2. /\ heads \subseteq DOMAIN parents
      /\ line \in Seq(DOMAIN parents) /\ Len(line) \in 1..MaxBlocks /\ MaxBlocks \in Nat
      /\ \A i \in 1..Len(line) : line[i] \in DOMAIN parents /\ line[i].seqno \in Nat
  BY ShardAssumption DEF ChainInv, BlocksTyped
<1>3. \A n \in new : n.seqno \in Nat
  BY DEF TakesOver
<1>4. Newest \in heads /\ Newest.seqno \in Nat /\ OnLine(Newest)
  BY <1>2 DEF ChainInv, LineInOrder, Newest
<1>5. \A i \in 1..Len(line) : OnLine(line[i]) /\ line[i].seqno <= Newest.seqno
  BY <1>2 DEF ChainInv, LineInOrder, Newest
<1>6. ExactlyOneShard'
  <2> SUFFICES ASSUME NEW byte \in Bytes
               PROVE  \E h \in heads' : {g \in heads' : isInShard(g.shard, byte)} = {h}
    BY DEF ExactlyOneShard
  <2>1. PICK h \in heads : {g \in heads : isInShard(g.shard, byte)} = {h}
    BY DEF ChainInv, ExactlyOneShard
  <2>2. CASE h \in old
    <3>1. PICK n \in new : isInShard(n.shard, byte)
      BY <2>1, <2>2 DEF TakesOver
    <3>2. \A m \in new : isInShard(m.shard, byte) => m = n
      BY <3>1 DEF TakesOver
    <3>3. {g \in heads' : isInShard(g.shard, byte)} = {n}
      BY <1>1, <2>1, <2>2, <3>1, <3>2
    <3> QED BY <1>1, <3>3
  <2>3. CASE h \notin old
    <3>1. \A n \in new : ~ isInShard(n.shard, byte)
      BY <2>1, <2>3 DEF TakesOver
    <3>2. {g \in heads' : isInShard(g.shard, byte)} = {h}
      BY <1>1, <2>1, <2>3, <3>1
    <3> QED BY <1>1, <2>3, <3>2
  <2> QED BY <2>2, <2>3
<1>7. /\ heads' \subseteq DOMAIN parents'
      /\ \A b \in DOMAIN parents' :
            b = Block(b.shard, b.seqno) /\ b.shard \in Words /\ b.seqno \in Nat
      /\ \A b \in DOMAIN parents' : parents'[b] \subseteq DOMAIN parents'
  <2>1. heads' \subseteq DOMAIN parents'
    BY <1>1, <1>2
  <2>2. \A b \in DOMAIN parents' :
            b = Block(b.shard, b.seqno) /\ b.shard \in Words /\ b.seqno \in Nat
    BY <1>1 DEF ChainInv, BlocksTyped, TakesOver
  <2>3. ASSUME NEW b \in DOMAIN parents' PROVE parents'[b] \subseteq DOMAIN parents'
    <3>1. CASE b \in new
      BY <1>1, <1>2, <3>1
    <3>2. CASE b \notin new
      BY <1>1, <3>2 DEF ChainInv, BlocksTyped
    <3> QED BY <3>1, <3>2
  <2> QED BY <2>1, <2>2, <2>3
<1>8. ASSUME \A n \in new : ~ OnLine(n), Newest \notin old, line' = line
      PROVE  ChainInv'
  <2>1. BlocksTyped'
    <3>1. line \in Seq(DOMAIN parents')
      BY <1>1, <1>2
    <3> QED BY <1>2, <1>7, <1>8, <3>1 DEF BlocksTyped
  <2>2. LineInOrder'
    <3>1. \A b \in heads' : OnLine(b)' <=> b = Newest
      BY <1>1, <1>8 DEF ChainInv, LineInOrder, OnLine
    <3>2. Newest \in heads' /\ Newest' = Newest
      BY <1>1, <1>4, <1>8 DEF Newest
    <3> QED BY <1>8, <3>1, <3>2 DEF ChainInv, LineInOrder, OnLine
  <2>3. ParentOnLine'
    <3>1. \A i \in 1..Len(line) : line[i] \notin new
      BY <1>5, <1>8
    <3>2. \A i \in 2..Len(line) : parents'[line[i]] = parents[line[i]]
      BY <1>1, <1>2, <3>1
    <3> QED BY <1>8, <3>2 DEF ChainInv, ParentOnLine, OnLine
  <2> QED BY <1>6, <2>1, <2>2, <2>3 DEF ChainInv
<1>9. ASSUME NEW n \in new, OnLine(n), \A m \in new : OnLine(m) => m = n,
             Newest.seqno < n.seqno, {o \in old : OnLine(o)} = {Newest},
             line' = Append(line, n)
      PROVE  ChainInv'
  <2> DEFINE k == Len(line)
  <2>1. /\ line' \in Seq(DOMAIN parents \cup {n}) /\ Len(line') = k + 1 /\ line'[k + 1] = n
        /\ \A i \in 1..k : line'[i] = line[i]
    BY <1>2, <1>9, LineAppended
  <2>2. k \in Nat /\ k >= 1
    BY <1>2
  <2>3. Newest' = n
    BY <2>1 DEF Newest
  <2>4. BlocksTyped'
    <3>1. line' \in Seq(DOMAIN parents')
      BY <1>1, <2>1
    <3> QED BY <1>1, <1>2, <1>7, <2>1, <3>1 DEF BlocksTyped
  <2> HIDE DEF k
  <2>5. \A i \in 1..(k + 1) : i \in 1..k \/ i = k + 1
    BY <2>2
  <2>6. \A i \in 1..k : line[i].seqno < n.seqno /\ line[i] # n /\ line[i] \notin new
    BY <1>2, <1>3, <1>4, <1>5, <1>9 DEF k
  <2>7. LineInOrder'
    <3>1. \A i \in 1..Len(line') : OnLine(line'[i])
      BY <1>5, <1>9, <2>1, <2>5 DEF k
    <3>2. ASSUME NEW i \in 1..Len(line'), NEW j \in 1..Len(line'), i < j
          PROVE  line'[i].seqno < line'[j].seqno
      <4>1. i \in 1..k
        BY <2>1, <2>2, <3>2
      <4>2. CASE j \in 1..k
        BY <2>1, <3>2, <4>1, <4>2 DEF ChainInv, LineInOrder, k
      <4>3. CASE j = k + 1
        BY <2>1, <2>6, <4>1, <4>3
      <4> QED BY <2>1, <2>5, <4>2, <4>3
    <3>3. {h \in heads' : OnLine(h)} = {n}
      <4>1. \A h \in heads \ old : ~ OnLine(h)
        BY <1>9 DEF ChainInv, LineInOrder
      <4> QED BY <1>1, <1>9, <4>1
    <3> QED BY <2>3, <3>1, <3>2, <3>3 DEF LineInOrder, OnLine
  <2>8. ParentOnLine'
    <3> SUFFICES ASSUME NEW i \in 2..Len(line')
                 PROVE  {p \in parents'[line'[i]] : OnLine(p)} = {line'[i - 1]}
      BY DEF ParentOnLine, OnLine
    <3>1. CASE i \in 2..k
      <4>1. i \in 1..k /\ i - 1 \in 1..k
        BY <2>2, <3>1
      <4>2. parents'[line[i]] = parents[line[i]]
        BY <1>1, <1>2, <2>6, <4>1 DEF k
      <4> QED BY <2>1, <3>1, <4>1, <4>2 DEF ChainInv, ParentOnLine, k
    <3>2. CASE i = k + 1
      <4>1. i - 1 = k /\ k \in 1..k
        BY <2>2, <3>2
      <4>2. line'[i] = n /\ line'[i - 1] = Newest
        BY <2>1, <3>2, <4>1 DEF Newest, k
      <4> QED BY <1>1, <1>9, <4>2
    <3> QED BY <2>1, <2>2, <3>1, <3>2
  <2> QED BY <1>6, <2>4, <2>7, <2>8 DEF ChainInv
<1> QED BY <1>8, <1>9, CommitLine

\* The three ways in which the workchain goes on.
LEMMA ExtendTakesOver ==
    ASSUME ChainInv, NEW h \in heads
    PROVE  TakesOver({h}, {Block(h.shard, h.seqno + 1)})
<1>1. h.shard \in Words /\ h.seqno \in Nat
  BY DEF ChainInv, BlocksTyped
<1> QED BY <1>1 DEF TakesOver, Block

LEMMA SplitTakesOver ==
    ASSUME ChainInv, NEW h \in heads, PrefixLen(h.shard) < ByteWidth
    PROVE  TakesOver({h}, {Block(Half(h.shard, sign), h.seqno + 1) : sign \in {-1, 1}})
<1> DEFINE a == Block(Half(h.shard, -1), h.seqno + 1)
           b == Block(Half(h.shard, 1), h.seqno + 1)
<1>1. h.shard \in Words /\ h.seqno \in Nat
  BY DEF ChainInv, BlocksTyped
<1>2. {Block(Half(h.shard, sign), h.seqno + 1) : sign \in {-1, 1}} = {a, b}
  OBVIOUS
<1>3. /\ a = Block(a.shard, a.seqno) /\ b = Block(b.shard, b.seqno)
      /\ a.shard = Half(h.shard, -1) /\ b.shard = Half(h.shard, 1)
      /\ a.seqno = h.seqno + 1 /\ b.seqno = h.seqno + 1
  BY DEF Block
<1> HIDE DEF a, b
<1>4. TakesOver({h}, {a, b})
  BY <1>1, <1>3, HalvesShare DEF TakesOver
<1> QED BY <1>2, <1>4

LEMMA MergeTakesOver ==
    ASSUME ChainInv, NEW g \in heads, NEW h \in heads, Siblings(g.shard, h.shard)
    PROVE  TakesOver({g, h}, {Block(Union(g.shard, h.shard), Max({g.seqno, h.seqno}) + 1)})
<1> DEFINE n == Block(Union(g.shard, h.shard), Max({g.seqno, h.seqno}) + 1)
<1>1. g.seqno \in Nat /\ h.seqno \in Nat
  BY DEF ChainInv, BlocksTyped
<1>2. PICK p \in Words :
         PrefixLen(p) < ByteWidth /\ g.shard = Half(p, -1) /\ h.shard = Half(p, 1)
  BY DEF Siblings
<1>3. Union(g.shard, h.shard) = p
  BY <1>2, HalvesShare
<1>4. Max({g.seqno, h.seqno}) \in Nat /\ Max({g.seqno, h.seqno}) >= g.seqno
      /\ Max({g.seqno, h.seqno}) >= h.seqno
  <2>1. \E x \in {g.seqno, h.seqno} : \A y \in {g.seqno, h.seqno} : x >= y
    BY <1>1
  <2> QED BY <1>1, <2>1 DEF Max
<1>5. n = Block(n.shard, n.seqno) /\ n.shard = p /\ n.seqno = Max({g.seqno, h.seqno}) + 1
  BY <1>3 DEF Block
<1> HIDE DEF n
<1>6. TakesOver({g, h}, {n})
  BY <1>1, <1>2, <1>4, <1>5, HalvesShare DEF TakesOver
<1> QED BY <1>6 DEF n

\* a masterchain block with new blocks of the workchain
NewBlocks ==
    \/ \E h \in heads : Extend(h) \/ Split(h)
    \/ \E g, h \in heads : Merge(g, h)

LEMMA NewBlocksCommit ==
    ASSUME ChainInv, NewBlocks
    PROVE  \E old, new : old \in SUBSET heads /\ TakesOver(old, new) /\ Commit(old, new)
<1>1. ASSUME NEW h \in heads, Extend(h)
      PROVE  \E old, new : old \in SUBSET heads /\ TakesOver(old, new) /\ Commit(old, new)
  <2>1. {h} \in SUBSET heads
    OBVIOUS
  <2> QED BY <1>1, <2>1, ExtendTakesOver DEF Extend
<1>2. ASSUME NEW h \in heads, Split(h)
      PROVE  \E old, new : old \in SUBSET heads /\ TakesOver(old, new) /\ Commit(old, new)
  <2>1. {h} \in SUBSET heads
    OBVIOUS
  <2> QED BY <1>2, <2>1, SplitTakesOver DEF Split
<1>3. ASSUME NEW g \in heads, NEW h \in heads, Merge(g, h)
      PROVE  \E old, new : old \in SUBSET heads /\ TakesOver(old, new) /\ Commit(old, new)
  <2>1. {g, h} \in SUBSET heads
    OBVIOUS
  <2> QED BY <1>3, <2>1, MergeTakesOver DEF Merge
<1> QED BY <1>1, <1>2, <1>3 DEF NewBlocks

LEMMA ChainInvStays ==
    ASSUME ChainInv, UNCHANGED <<heads, parents, line>>
    PROVE  ChainInv'
<1>1. BlocksTyped' /\ ExactlyOneShard'
  BY DEF ChainInv, BlocksTyped, ExactlyOneShard
<1>2. LineInOrder' /\ ParentOnLine'
  BY DEF ChainInv, LineInOrder, ParentOnLine, Newest, OnLine
<1> QED BY <1>1, <1>2 DEF ChainInv

LEMMA ChainInvInit == TrackerInit => ChainInv
<1> SUFFICES ASSUME TrackerInit PROVE ChainInv
  OBVIOUS
<1>1. /\ Start.shard = Root /\ Start.seqno = 1 /\ Start = Block(Start.shard, Start.seqno)
      /\ Root \in Words
  BY RootCovers DEF Start, Block
<1>2. OnLine(Start)
  BY <1>1, RootCovers, ShardAssumption DEF OnLine
<1>3. Len(line) = 1 /\ line[1] = Start /\ Newest = Start /\ line \in Seq({Start})
  BY DEF TrackerInit, Newest
<1>4. heads = {Start} /\ DOMAIN parents = {Start} /\ parents[Start] = {}
  BY DEF TrackerInit
<1>5. BlocksTyped
  BY <1>1, <1>3, <1>4, ShardAssumption DEF BlocksTyped
<1>6. ExactlyOneShard
  BY <1>1, <1>4, RootCovers DEF ExactlyOneShard
<1>7. LineInOrder /\ ParentOnLine
  BY <1>1, <1>2, <1>3, <1>4 DEF LineInOrder, ParentOnLine
<1> QED BY <1>5, <1>6, <1>7 DEF ChainInv

LEMMA ChainInvStep == ChainInv /\ [TrackerNext]_shardVars => ChainInv'
<1> SUFFICES ASSUME ChainInv, [TrackerNext]_shardVars PROVE ChainInv'
  OBVIOUS
<1>1. CASE NewBlocks
  BY <1>1, NewBlocksCommit, CommitStep
<1>2. CASE UNCHANGED <<heads, parents, line>>
  BY <1>2, ChainInvStays
<1>3. CASE UNCHANGED shardVars
  BY <1>3, <1>2 DEF shardVars
<1>4. CASE EmptyMaster \/ Poll \/ FetchError \/ ScanBlock \/ ScanError \/ Restart
  BY <1>2, <1>4 DEF EmptyMaster, Poll, FetchError, ScanBlock, ScanError, Restart
<1>5. ASSUME NEW b \in current, Send(b) PROVE ChainInv'
  BY <1>2, <1>5 DEF Send
<1> QED BY <1>1, <1>3, <1>4, <1>5 DEF TrackerNext, NewBlocks

\* The parent that convertBlockToShardHeader selects.
LEMMA ParentIsPrevious ==
    ASSUME ChainInv, NEW i \in 2..Len(line)
    PROVE  filterByShard(parents[line[i]], Shard) = line[i - 1]
<1>1. {p \in parents[line[i]] : OnLine(p)} = {line[i - 1]}
  BY DEF ChainInv, ParentOnLine
<1> QED BY <1>1 DEF filterByShard, OnLine

\* The block that getCurrentMasterBlock selects.
LEMMA HeadIsNewest ==
    ASSUME ChainInv
    PROVE  filterByShard(heads, Shard) = Newest
<1>1. {h \in heads : OnLine(h)} = {Newest}
  BY DEF ChainInv, LineInOrder
<1> QED BY <1>1 DEF filterByShard, OnLine

\* isInShard's test is true of exactly one block of a masterchain block, however
\* shards have split and merged: for any widths of byte and word.
THEOREM ShardsPartitionBytes == TrackerSpec => []ExactlyOneShard
<1>1. ChainInv => ExactlyOneShard
  BY DEF ChainInv
<1> QED BY <1>1, ChainInvInit, ChainInvStep, PTL DEF TrackerSpec

\* filterByShard finds, among the parents of every block on the line, the block
\* before it, and seqnos increase, also where a merge has two parents and jumps
\* in seqno: the walk from parent to parent never leaves the line.
THEOREM ParentsFormTheLine == TrackerSpec => []WalkFollowsLine
<1>1. ASSUME ChainInv PROVE WalkFollowsLine
  <2>1. \A i \in 2..Len(line) : line[i - 1].seqno < line[i].seqno
    <3> SUFFICES ASSUME NEW i \in 2..Len(line) PROVE line[i - 1].seqno < line[i].seqno
      OBVIOUS
    <3>1. Len(line) \in Nat
      BY <1>1, ShardAssumption DEF ChainInv, BlocksTyped
    <3>2. i \in 1..Len(line) /\ i - 1 \in 1..Len(line) /\ i - 1 < i
      BY <3>1
    <3> QED BY <1>1, <3>2 DEF ChainInv, LineInOrder
  <2> QED BY <1>1, <2>1, ParentIsPrevious DEF WalkFollowsLine
<1> QED BY <1>1, ChainInvInit, ChainInvStep, PTL DEF TrackerSpec

----------------------------------------------------------------------------
(* The walk                                                                *)

\* The position of a block of the line.
LEMMA PositionOf ==
    ASSUME ChainInv, NEW i \in 1..Len(line)
    PROVE  PosIn({line[i]}) = i
<1>1. \A j \in 1..Len(line) : line[j].seqno \in Nat /\ j \in Nat
  BY ShardAssumption DEF ChainInv, BlocksTyped
<1>2. ASSUME NEW j \in 1..Len(line), line[j] = line[i] PROVE j = i
  BY <1>1, <1>2 DEF ChainInv, LineInOrder
<1>3. PosIn({line[i]}) = CHOOSE j \in 1..Len(line) : line[j] \in {line[i]}
  BY DEF PosIn
<1> QED BY <1>2, <1>3

\* Where the walk is, in positions of the line.
WalkAt(k, c, g, s) ==
    /\ k \in 1..Len(line) /\ lastKnown = line[k]
    /\ c \in 0..Len(line) /\ current = (IF c = 0 THEN {} ELSE {line[c]})
    /\ g \in 0..Len(line) /\ target = (IF g = 0 THEN {} ELSE {line[g]})
    /\ s \in 0..Len(line) /\ scanning = (IF s = 0 THEN {} ELSE {line[s]})
    /\ c = 0 <=> g = 0
    /\ c # 0 => k < c /\ c <= g

\* The table holds blocks of the line, among them the first.
RowsOnLine ==
    /\ line[1] \in blockData
    /\ \A b \in blockData : \E i \in 1..Len(line) : b = line[i]

WalkInv ==
    /\ \E k, c, g, s \in 0..Len(line) : WalkAt(k, c, g, s)
    /\ RowsOnLine
    /\ faults \in Nat

\* The positions of the refinement mapping, in a state and in the next.
WalkMapped ==
    \A k, c, g, s : ChainInv /\ WalkAt(k, c, g, s) =>
        /\ PosIn({lastKnown}) = k /\ PosIn(current) = c
        /\ PosIn(target) = g /\ PosIn(scanning) = s

LEMMA WalkPositions == WalkMapped
<1> SUFFICES ASSUME ChainInv, NEW k, NEW c, NEW g, NEW s, WalkAt(k, c, g, s)
             PROVE  /\ PosIn({lastKnown}) = k /\ PosIn(current) = c
                    /\ PosIn(target) = g /\ PosIn(scanning) = s
  BY DEF WalkMapped
<1>1. \A i \in 0..Len(line) : PosIn(IF i = 0 THEN {} ELSE {line[i]}) = i
  <2> SUFFICES ASSUME NEW i \in 0..Len(line)
               PROVE  PosIn(IF i = 0 THEN {} ELSE {line[i]}) = i
    OBVIOUS
  <2>1. CASE i = 0
    BY <2>1 DEF PosIn
  <2>2. CASE i # 0
    <3>1. i \in 1..Len(line)
      BY <2>2, ShardAssumption DEF ChainInv, BlocksTyped
    <3> QED BY <2>2, <3>1, PositionOf
  <2> QED BY <2>1, <2>2
<1> QED BY <1>1, PositionOf DEF WalkAt

LEMMA WalkPositionsNext == WalkMapped'
BY WalkPositions, PTL

\* The line only grows at its end.
LineGrows ==
    /\ Len(line) \in Nat /\ Len(line') \in Nat /\ 1 <= Len(line) /\ Len(line) <= Len(line')
    /\ \A i \in 1..Len(line) : line'[i] = line[i]

\* A new block moves nothing of the tracker.
LEMMA WalkAtStays ==
    ASSUME LineGrows, NEW k, NEW c, NEW g, NEW s, WalkAt(k, c, g, s),
           UNCHANGED <<lastKnown, current, target, scanning>>
    PROVE  WalkAt(k, c, g, s)'
<1>1. ASSUME NEW i \in 0..Len(line)
      PROVE  /\ i \in 0..Len(line')
             /\ (IF i = 0 THEN {} ELSE {line'[i]}) = (IF i = 0 THEN {} ELSE {line[i]})
  <2>1. i \in 0..Len(line') /\ (i = 0 \/ i \in 1..Len(line))
    BY DEF LineGrows
  <2> QED BY <2>1 DEF LineGrows
<1>2. k \in 1..Len(line') /\ line'[k] = line[k]
  BY DEF LineGrows, WalkAt
<1> QED BY <1>1, <1>2 DEF WalkAt

LEMMA RowsStay ==
    ASSUME LineGrows, RowsOnLine, UNCHANGED blockData
    PROVE  RowsOnLine'
BY DEF LineGrows, RowsOnLine

\* The chain of the feed is as long as the line.
LEMMA FeedChain ==
    ASSUME ChainInv
    PROVE  Feed!Tip = Len(line) /\ Len(line) \in Nat /\ Len(line) >= 1
<1>1. Len(line) \in Nat /\ Len(line) >= 1
  BY ShardAssumption DEF ChainInv, BlocksTyped
<1>2. [i \in 1..Len(line) |-> 0] \in Seq({0})
  BY <1>1
<1>3. Len([i \in 1..Len(line) |-> 0]) = Len(line)
  BY <1>1
<1> QED BY <1>1, <1>3 DEF Feed!Tip

\* The start of the tracker is the start of the feed.
LEMMA FeedStarts == TrackerInit => WalkInv /\ Feed!FeedInit
<1> SUFFICES ASSUME TrackerInit PROVE WalkInv /\ Feed!FeedInit
  OBVIOUS
<1>0. ChainInv
  BY ChainInvInit
<1>1. Len(line) = 1 /\ line[1] = Start
  BY DEF TrackerInit
<1>2. WalkAt(1, 0, 0, 0)
  BY <1>1 DEF TrackerInit, WalkAt
<1>3. RowsOnLine /\ faults \in Nat
  BY <1>1 DEF TrackerInit, RowsOnLine
<1>4. WalkInv
  <2>1. 0 \in 0..Len(line) /\ 1 \in 0..Len(line)
    BY <1>1
  <2> QED BY <1>2, <1>3, <2>1 DEF WalkInv
<1>5. PosIn({lastKnown}) = 1 /\ PosIn(current) = 0 /\ PosIn(target) = 0 /\ PosIn(scanning) = 0
  BY <1>0, <1>2, WalkPositions DEF WalkMapped
<1>6. Positions = {1}
  BY <1>1 DEF Positions, TrackerInit
<1>7. [i \in 1..Len(line) |-> 0] = <<0>>
  BY <1>1
<1>8. faults = 0
  BY DEF TrackerInit
<1> QED BY <1>4, <1>5, <1>6, <1>7, <1>8 DEF Feed!FeedInit

\* Nothing of the feed moves.
LEMMA FeedStutters ==
    ASSUME UNCHANGED <<line, blockData, lastKnown, target, current, scanning, faults>>
    PROVE  UNCHANGED Feed!feedVars
<1>1. PosIn({lastKnown})' = PosIn({lastKnown}) /\ PosIn(target)' = PosIn(target)
      /\ PosIn(current)' = PosIn(current) /\ PosIn(scanning)' = PosIn(scanning)
  BY DEF PosIn
<1>2. Positions' = Positions
  BY DEF Positions
<1> QED BY <1>1, <1>2 DEF Feed!feedVars

LEMMA WalkInvStays ==
    ASSUME WalkInv, UNCHANGED <<line, blockData, lastKnown, target, current, scanning, faults>>
    PROVE  WalkInv'
<1>1. RowsOnLine' /\ faults' \in Nat
  BY DEF WalkInv, RowsOnLine
<1>2. ASSUME NEW k, NEW c, NEW g, NEW s, WalkAt(k, c, g, s)
      PROVE  WalkAt(k, c, g, s)'
  BY <1>2 DEF WalkAt
<1> QED BY <1>1, <1>2 DEF WalkInv

\* A new block of the line is a new block of the feed.
LEMMA NewBlocksStep ==
    ASSUME ChainInv, ChainInv', WalkInv, NewBlocks
    PROVE  WalkInv' /\ [Feed!FeedNext]_Feed!feedVars
<1>1. PICK old, new : old \in SUBSET heads /\ TakesOver(old, new) /\ Commit(old, new)
  BY NewBlocksCommit
<1>2. UNCHANGED <<blockData, lastKnown, target, current, scanning, faults>> /\ Len(line) < MaxBlocks
  BY <1>1 DEF Commit, trackerVars
<1>3. CASE line' = line
  BY <1>2, <1>3, FeedStutters, WalkInvStays
<1>4. ASSUME NEW n \in new, Newest.seqno < n.seqno, line' = Append(line, n)
      PROVE  WalkInv' /\ [Feed!FeedNext]_Feed!feedVars
  <2> DEFINE k == Len(line)
             zeros == [i \in 1..Len(line) |-> 0]
  <2>1. /\ Len(line') = k + 1 /\ line'[k + 1] = n /\ k \in Nat /\ k >= 1
        /\ \A i \in 1..k : line'[i] = line[i]
    <3>1. line \in Seq(DOMAIN parents)
      BY DEF ChainInv, BlocksTyped
    <3> QED BY <1>4, <3>1, LineAppended, FeedChain
  <2>2. LineGrows
    BY <2>1 DEF LineGrows
  <2>3. PICK a, c, g, s \in 0..Len(line) : WalkAt(a, c, g, s)
    BY DEF WalkInv
  <2>4. WalkAt(a, c, g, s)'
    BY <1>2, <2>2, <2>3, WalkAtStays
  <2>5. WalkInv'
    <3>1. RowsOnLine' /\ faults' \in Nat
      BY <1>2, <2>2, RowsStay DEF WalkInv
    <3>2. a \in 0..Len(line)' /\ c \in 0..Len(line)' /\ g \in 0..Len(line)' /\ s \in 0..Len(line)'
      BY <2>1
    <3> QED BY <2>4, <3>1, <3>2 DEF WalkInv
  <2>6. /\ PosIn({lastKnown})' = PosIn({lastKnown}) /\ PosIn(target)' = PosIn(target)
        /\ PosIn(current)' = PosIn(current) /\ PosIn(scanning)' = PosIn(scanning)
    <3>1. /\ PosIn({lastKnown}) = a /\ PosIn(current) = c
          /\ PosIn(target) = g /\ PosIn(scanning) = s
      BY <2>3, WalkPositions DEF WalkMapped
    <3>2. /\ PosIn({lastKnown})' = a /\ PosIn(current)' = c
          /\ PosIn(target)' = g /\ PosIn(scanning)' = s
      BY <2>4, WalkPositionsNext DEF WalkMapped
    <3> QED BY <3>1, <3>2
  <2>7. Positions' = Positions
    <3>1. n \notin blockData
      <4> SUFFICES ASSUME NEW i \in 1..k, n = line[i] PROVE FALSE
        BY DEF WalkInv, RowsOnLine
      <4>1. i \in 1..Len(line') /\ k + 1 \in 1..Len(line') /\ i < k + 1
        BY <2>1
      <4>2. line'[i].seqno < line'[k + 1].seqno /\ line'[i].seqno \in Nat
        BY <4>1 DEF ChainInv, LineInOrder, BlocksTyped
      <4> QED BY <2>1, <4>2
    <3>2. \A i \in 1..Len(line') : i \in 1..k \/ i = k + 1
      BY <2>1
    <3>3. \A i \in 1..k : i \in 1..Len(line')
      BY <2>1
    <3> QED BY <1>2, <2>1, <3>1, <3>2, <3>3 DEF Positions
  <2>8. zeros' = Append(zeros, 0) /\ zeros[k] = 0
    <3>1. zeros \in Seq({0}) /\ Len(zeros) = k
      BY <2>1
    <3>2. zeros' = [i \in 1..(k + 1) |-> 0]
      BY <2>1
    <3>3. Append(zeros, 0) = [i \in 1..(k + 1) |-> 0]
      BY <2>1, <3>1
    <3> QED BY <2>1, <3>2, <3>3
  <2>9. Feed!ProduceBlock(0)
    BY <1>2, <2>6, <2>7, <2>8, FeedChain DEF Feed!ProduceBlock
  <2> QED BY <2>5, <2>9 DEF Feed!FeedNext
<1> QED BY <1>1, <1>3, <1>4, CommitLine

LEMMA WalkReached ==
    ASSUME RowsOnLine', faults' \in Nat,
           NEW k, NEW c, NEW g, NEW s, WalkAt(k, c, g, s)'
    PROVE  WalkInv'
<1>1. k \in 0..Len(line)' /\ c \in 0..Len(line)' /\ g \in 0..Len(line)' /\ s \in 0..Len(line)'
  BY DEF WalkAt
<1> QED BY <1>1 DEF WalkInv

\* A step of the tracker or of the scanner, from one place of the walk to another.
LEMMA WalkMoves ==
    ASSUME ChainInv, ChainInv', UNCHANGED line, RowsOnLine', faults' \in Nat,
           NEW k, NEW c, NEW g, NEW s, WalkAt(k, c, g, s),
           NEW k2, NEW c2, NEW g2, NEW s2, WalkAt(k2, c2, g2, s2)'
    PROVE  /\ WalkInv'
           /\ PosIn({lastKnown}) = k /\ PosIn({lastKnown})' = k2
           /\ PosIn(current) = c /\ PosIn(current)' = c2
           /\ PosIn(target) = g /\ PosIn(target)' = g2
           /\ PosIn(scanning) = s /\ PosIn(scanning)' = s2
           /\ UNCHANGED [i \in 1..Len(line) |-> 0]
           /\ Feed!Tip = Len(line) /\ Len(line) \in Nat /\ Len(line) >= 1
<1>1. WalkInv'
  BY WalkReached
<1>2. /\ PosIn({lastKnown}) = k /\ PosIn(current) = c
      /\ PosIn(target) = g /\ PosIn(scanning) = s
  BY WalkPositions DEF WalkMapped
<1>3. /\ PosIn({lastKnown})' = k2 /\ PosIn(current)' = c2
      /\ PosIn(target)' = g2 /\ PosIn(scanning)' = s2
  BY WalkPositionsNext DEF WalkMapped
<1> QED BY <1>1, <1>2, <1>3, FeedChain

LEMMA PollStep ==
    ASSUME ChainInv, ChainInv', WalkInv, Poll
    PROVE  WalkInv' /\ [Feed!FeedNext]_Feed!feedVars
<1>1. UNCHANGED <<line, blockData, lastKnown, scanning, faults>> /\ current = {}
  BY DEF Poll
<1>2. CASE Newest = lastKnown
  <2>1. UNCHANGED <<target, current>>
    BY <1>2, HeadIsNewest DEF Poll
  <2> QED BY <1>1, <2>1, FeedStutters, WalkInvStays
<1>3. CASE Newest # lastKnown
  <2>1. target' = {Newest} /\ current' = {Newest}
    BY <1>3, HeadIsNewest DEF Poll
  <2>2. PICK k, c, g, s \in 0..Len(line) : WalkAt(k, c, g, s)
    BY DEF WalkInv
  <2>3. c = 0 /\ g = 0
    BY <1>1, <2>2 DEF WalkAt
  <2>n. PICK n : n = Len(line)
    OBVIOUS
  <2>4. n \in Nat /\ n >= 1
    BY <2>n, FeedChain
  <2>5. k \in 1..n /\ k # n
    BY <1>3, <2>2, <2>n DEF WalkAt, Newest
  <2>6. WalkAt(k, n, n, s)'
    <3>1. k < n /\ n # 0 /\ n <= n /\ n \in 0..n
      BY <2>4, <2>5
    <3> QED BY <1>1, <2>1, <2>2, <2>n, <3>1 DEF WalkAt, Newest
  <2>7. RowsOnLine' /\ faults' \in Nat
    BY <1>1 DEF WalkInv, RowsOnLine
  <2>8. WalkInv' /\ Feed!TrackerPoll
    <3>1. Positions' = Positions
      BY <1>1 DEF Positions
    <3>2. /\ WalkInv'
          /\ PosIn({lastKnown}) = k /\ PosIn({lastKnown})' = k
          /\ PosIn(current) = c /\ PosIn(current)' = n
          /\ PosIn(target) = g /\ PosIn(target)' = n
          /\ PosIn(scanning) = s /\ PosIn(scanning)' = s
          /\ UNCHANGED [i \in 1..Len(line) |-> 0]
          /\ Feed!Tip = Len(line)
      <4>1. /\ PosIn({lastKnown}) = k /\ PosIn(current) = c
            /\ PosIn(target) = g /\ PosIn(scanning) = s
        BY <2>2, WalkPositions DEF WalkMapped
      <4>2. /\ PosIn({lastKnown})' = k /\ PosIn(current)' = n
            /\ PosIn(target)' = n /\ PosIn(scanning)' = s
        BY <2>6, WalkPositionsNext DEF WalkMapped
      <4>3. WalkInv'
        BY <2>6, <2>7, WalkReached
      <4> QED BY <1>1, <4>1, <4>2, <4>3, FeedChain
    <3> QED BY <1>1, <2>3, <2>5, <2>n, <3>1, <3>2 DEF Feed!TrackerPoll
  <2> QED BY <2>8 DEF Feed!FeedNext
<1> QED BY <1>2, <1>3

LEMMA SendStep ==
    ASSUME ChainInv, ChainInv', WalkInv, NEW b \in current, Send(b)
    PROVE  WalkInv' /\ [Feed!FeedNext]_Feed!feedVars
<1>1. UNCHANGED <<line, blockData, faults>> /\ scanning = {} /\ scanning' = {b} /\ current = {b}
  BY DEF Send
<1>2. PICK k, c, g, s \in 0..Len(line) : WalkAt(k, c, g, s)
  BY DEF WalkInv
<1>3. Len(line) \in Nat /\ Len(line) >= 1
  BY FeedChain
<1>4. /\ s = 0 /\ c # 0 /\ b = line[c] /\ g # 0 /\ target = {line[g]}
      /\ k \in 1..Len(line) /\ lastKnown = line[k] /\ k < c /\ c <= g
  BY <1>1, <1>2 DEF WalkAt
<1>5. c \in 2..Len(line) /\ c - 1 \in 1..Len(line)
  BY <1>3, <1>4
<1>6. filterByShard(parents[b], Shard) = line[c - 1]
  BY <1>4, <1>5, ParentIsPrevious
<1>7. line[c - 1] = line[k] <=> c - 1 = k
  BY <1>4, <1>5, PositionOf
<1>8. RowsOnLine' /\ faults' \in Nat /\ Positions' = Positions
  BY <1>1 DEF WalkInv, RowsOnLine, Positions
<1>9. CASE c - 1 = k
  <2>1. lastKnown' = line[g] /\ target' = {} /\ current' = {}
    BY <1>4, <1>6, <1>7, <1>9 DEF Send
  <2>2. WalkAt(g, 0, 0, c)'
    <3>1. g \in 1..Len(line) /\ 0 \in 0..Len(line)
      BY <1>3, <1>4
    <3> QED BY <1>1, <1>4, <2>1, <3>1 DEF WalkAt
  <2>3. /\ WalkInv'
        /\ PosIn({lastKnown}) = k /\ PosIn({lastKnown})' = g
        /\ PosIn(current) = c /\ PosIn(current)' = 0
        /\ PosIn(target) = g /\ PosIn(target)' = 0
        /\ PosIn(scanning) = s /\ PosIn(scanning)' = c
        /\ UNCHANGED [i \in 1..Len(line) |-> 0]
    <3>1. /\ PosIn({lastKnown}) = k /\ PosIn(current) = c
          /\ PosIn(target) = g /\ PosIn(scanning) = s
      BY <1>2, WalkPositions DEF WalkMapped
    <3>2. /\ PosIn({lastKnown})' = g /\ PosIn(current)' = 0
          /\ PosIn(target)' = 0 /\ PosIn(scanning)' = c
      BY <2>2, WalkPositionsNext DEF WalkMapped
    <3>3. WalkInv'
      BY <1>8, <2>2, WalkReached
    <3> QED BY <1>1, <3>1, <3>2, <3>3
  <2>4. Feed!TrackerSend
    BY <1>1, <1>4, <1>8, <1>9, <2>3 DEF Feed!TrackerSend
  <2> QED BY <2>3, <2>4 DEF Feed!FeedNext
<1>10. CASE c - 1 # k
  <2>1. lastKnown' = lastKnown /\ target' = target /\ current' = {line[c - 1]}
    BY <1>4, <1>6, <1>7, <1>10 DEF Send
  <2>2. WalkAt(k, c - 1, g, c)'
    <3>1. c - 1 \in 0..Len(line) /\ c - 1 # 0 /\ k < c - 1 /\ c - 1 <= g
      BY <1>3, <1>4, <1>5, <1>10
    <3> QED BY <1>1, <1>2, <1>4, <2>1, <3>1 DEF WalkAt
  <2>3. /\ WalkInv'
        /\ PosIn({lastKnown}) = k /\ PosIn({lastKnown})' = k
        /\ PosIn(current) = c /\ PosIn(current)' = c - 1
        /\ PosIn(target) = g /\ PosIn(target)' = g
        /\ PosIn(scanning) = s /\ PosIn(scanning)' = c
        /\ UNCHANGED [i \in 1..Len(line) |-> 0]
    <3>1. /\ PosIn({lastKnown}) = k /\ PosIn(current) = c
          /\ PosIn(target) = g /\ PosIn(scanning) = s
      BY <1>2, WalkPositions DEF WalkMapped
    <3>2. /\ PosIn({lastKnown})' = k /\ PosIn(current)' = c - 1
          /\ PosIn(target)' = g /\ PosIn(scanning)' = c
      BY <2>2, WalkPositionsNext DEF WalkMapped
    <3>3. WalkInv'
      BY <1>8, <2>2, WalkReached
    <3> QED BY <1>1, <3>1, <3>2, <3>3
  <2>4. Feed!TrackerSend
    BY <1>1, <1>4, <1>8, <1>10, <2>3 DEF Feed!TrackerSend
  <2> QED BY <2>3, <2>4 DEF Feed!FeedNext
<1> QED BY <1>9, <1>10

LEMMA FetchErrorStep ==
    ASSUME ChainInv, ChainInv', WalkInv, FetchError
    PROVE  WalkInv' /\ [Feed!FeedNext]_Feed!feedVars
<1>1. /\ UNCHANGED <<line, blockData, lastKnown, scanning>> /\ current # {} /\ Fault("fetch")
      /\ target' = {} /\ current' = {}
  BY DEF FetchError
<1>2. PICK k, c, g, s \in 0..Len(line) : WalkAt(k, c, g, s)
  BY DEF WalkInv
<1>3. c # 0
  BY <1>1, <1>2 DEF WalkAt
<1>4. WalkAt(k, 0, 0, s)'
  <2>1. 0 \in 0..Len(line)
    BY FeedChain
  <2> QED BY <1>1, <1>2, <2>1 DEF WalkAt
<1>5. RowsOnLine' /\ faults' \in Nat /\ Positions' = Positions
  BY <1>1 DEF WalkInv, RowsOnLine, Positions, Fault
<1>6. /\ WalkInv'
      /\ PosIn({lastKnown}) = k /\ PosIn({lastKnown})' = k
      /\ PosIn(current) = c /\ PosIn(current)' = 0
      /\ PosIn(target)' = 0
      /\ PosIn(scanning) = s /\ PosIn(scanning)' = s
      /\ UNCHANGED [i \in 1..Len(line) |-> 0]
  BY <1>1, <1>2, <1>4, <1>5, WalkMoves
<1>7. Feed!TrackerFetchError
  BY <1>1, <1>3, <1>5, <1>6 DEF Feed!TrackerFetchError, Feed!Fault, Fault
<1> QED BY <1>6, <1>7 DEF Feed!FeedNext

\* The scanner is through with a block: the row is there, or the error logged.
LEMMA ScanStep ==
    ASSUME ChainInv, ChainInv', WalkInv, ScanBlock \/ ScanError
    PROVE  WalkInv' /\ [Feed!FeedNext]_Feed!feedVars
<1>1. /\ UNCHANGED <<line, lastKnown, target, current>> /\ scanning # {} /\ scanning' = {}
      /\ blockData' = blockData \cup scanning \/ blockData' = blockData
  BY DEF ScanBlock, ScanError
<1>2. PICK k, c, g, s \in 0..Len(line) : WalkAt(k, c, g, s)
  BY DEF WalkInv
<1>3. s # 0 /\ s \in 1..Len(line) /\ scanning = {line[s]}
  BY <1>1, <1>2, FeedChain DEF WalkAt
<1>4. WalkAt(k, c, g, 0)'
  <2>1. 0 \in 0..Len(line)
    BY FeedChain
  <2> QED BY <1>1, <1>2, <2>1 DEF WalkAt
<1>5. RowsOnLine'
  BY <1>1, <1>3 DEF WalkInv, RowsOnLine
<1>6. faults' \in Nat
  BY DEF WalkInv, ScanBlock, ScanError, Fault
<1>7. /\ WalkInv'
      /\ PosIn({lastKnown}) = k /\ PosIn({lastKnown})' = k
      /\ PosIn(current) = c /\ PosIn(current)' = c
      /\ PosIn(target) = g /\ PosIn(target)' = g
      /\ PosIn(scanning) = s /\ PosIn(scanning)' = 0
      /\ UNCHANGED [i \in 1..Len(line) |-> 0]
  BY <1>1, <1>2, <1>4, <1>5, <1>6, WalkMoves
<1>8. CASE ScanBlock
  <2>1. blockData' = blockData \cup {line[s]} /\ UNCHANGED faults
    BY <1>3, <1>8 DEF ScanBlock
  <2>2. \A i \in 1..Len(line) : line[i] = line[s] <=> i = s
    BY <1>3, PositionOf
  <2>3. Positions' = Positions \cup {s}
    BY <1>1, <1>3, <2>1, <2>2 DEF Positions
  <2>4. Feed!ScanBlock
    BY <1>3, <1>7, <2>1, <2>3 DEF Feed!ScanBlock, Feed!ScanDone, Feed!NotSavedYet
  <2> QED BY <1>7, <2>4 DEF Feed!FeedNext
<1>9. CASE ScanError
  <2>1. Positions' = Positions
    BY <1>9 DEF Positions, ScanError
  <2>2. Feed!ScanError
    BY <1>3, <1>7, <1>9, <2>1 DEF Feed!ScanError, Feed!ScanDone, Feed!Fault, ScanError, Fault
  <2> QED BY <1>7, <2>2 DEF Feed!FeedNext
<1> QED BY <1>8, <1>9

\* The row with the greatest seqno, of whatever shard, is the newest saved block
\* of the line.
LEMMA LastSavedOnLine ==
    ASSUME ChainInv, RowsOnLine
    PROVE  \E m \in 1..Len(line) : GetLastSavedBlock = line[m] /\ Feed!GetLastSavedBlock = m
<1>1. Len(line) \in Nat /\ Len(line) >= 1 /\ \A i \in 1..Len(line) : line[i].seqno \in Nat
  BY FeedChain DEF ChainInv, BlocksTyped
<1>2. 1 \in Positions /\ Positions \in SUBSET (0..Len(line)) /\ Positions \in SUBSET (1..Len(line))
  BY <1>1 DEF Positions, RowsOnLine
<1> DEFINE m == Max(Positions)
<1>3. m \in Positions /\ \A i \in Positions : i <= m
  BY <1>1, <1>2, MaxIn
<1> HIDE DEF m
<1>4. m \in 1..Len(line) /\ line[m] \in blockData
  BY <1>3 DEF Positions
<1>5. \A b \in blockData : b.seqno \in Nat /\ (b = line[m] \/ b.seqno < line[m].seqno)
  <2> SUFFICES ASSUME NEW i \in 1..Len(line), line[i] \in blockData
               PROVE  i = m \/ line[i].seqno < line[m].seqno
    BY <1>1 DEF RowsOnLine
  <2>1. i \in Positions
    BY DEF Positions
  <2>2. i = m \/ i < m
    BY <1>1, <1>3, <1>4, <2>1
  <2> QED BY <1>4, <2>2 DEF ChainInv, LineInOrder
<1>6. line[m].seqno \in Nat
  BY <1>1, <1>4
<1>7. GetLastSavedBlock = line[m]
  <2>1. \A c \in blockData : c.seqno <= line[m].seqno
    BY <1>5, <1>6
  <2>2. ASSUME NEW b \in blockData, \A c \in blockData : c.seqno <= b.seqno PROVE b = line[m]
    BY <1>4, <1>5, <1>6, <2>2
  <2> QED BY <1>4, <2>1, <2>2 DEF GetLastSavedBlock
<1>8. Feed!GetLastSavedBlock = m
  <2>1. ASSUME NEW b \in Positions, \A i \in Positions : i <= b PROVE b = m
    BY <1>1, <1>2, <1>3, <2>1
  <2> QED BY <1>3, <2>1 DEF Feed!GetLastSavedBlock
<1> QED BY <1>4, <1>7, <1>8

LEMMA RestartStep ==
    ASSUME ChainInv, ChainInv', WalkInv, Restart
    PROVE  WalkInv' /\ [Feed!FeedNext]_Feed!feedVars
<1>1. /\ UNCHANGED <<line, blockData>> /\ Fault("crash") /\ lastKnown' = GetLastSavedBlock
      /\ target' = {} /\ current' = {} /\ scanning' = {}
  BY DEF Restart
<1>2. PICK k, c, g, s \in 0..Len(line) : WalkAt(k, c, g, s)
  BY DEF WalkInv
<1>3. PICK m \in 1..Len(line) : GetLastSavedBlock = line[m] /\ Feed!GetLastSavedBlock = m
  BY LastSavedOnLine DEF WalkInv
<1>4. WalkAt(m, 0, 0, 0)'
  <2>1. 0 \in 0..Len(line)
    BY FeedChain
  <2> QED BY <1>1, <1>3, <2>1 DEF WalkAt
<1>5. RowsOnLine' /\ faults' \in Nat /\ Positions' = Positions
  BY <1>1 DEF WalkInv, RowsOnLine, Positions, Fault
<1>6. /\ WalkInv'
      /\ PosIn({lastKnown})' = m /\ PosIn(current)' = 0
      /\ PosIn(target)' = 0 /\ PosIn(scanning)' = 0
      /\ UNCHANGED [i \in 1..Len(line) |-> 0]
  BY <1>1, <1>2, <1>4, <1>5, WalkMoves
<1>7. Feed!Restart
  BY <1>1, <1>3, <1>5, <1>6 DEF Feed!Restart, Feed!Fault, Fault
<1> QED BY <1>6, <1>7 DEF Feed!FeedNext

\* Every step of the tracker is a step of the feed, or none.
LEMMA TrackerStepIsFeedStep ==
    ASSUME ChainInv, WalkInv, [TrackerNext]_shardVars
    PROVE  WalkInv' /\ [Feed!FeedNext]_Feed!feedVars
<1>1. ChainInv'
  BY ChainInvStep
<1>2. CASE NewBlocks
  BY <1>1, <1>2, NewBlocksStep
<1>3. CASE EmptyMaster \/ UNCHANGED shardVars
  <2>1. UNCHANGED <<line, blockData, lastKnown, target, current, scanning, faults>>
    BY <1>3 DEF EmptyMaster, shardVars, trackerVars
  <2> QED BY <2>1, FeedStutters, WalkInvStays
<1>4. CASE Poll
  BY <1>1, <1>4, PollStep
<1>5. CASE \E b \in current : Send(b)
  BY <1>1, <1>5, SendStep
<1>6. CASE FetchError
  BY <1>1, <1>6, FetchErrorStep
<1>7. CASE ScanBlock \/ ScanError
  BY <1>1, <1>7, ScanStep
<1>8. CASE Restart
  BY <1>1, <1>8, RestartStep
<1> QED BY <1>2, <1>3, <1>4, <1>5, <1>6, <1>7, <1>8 DEF TrackerNext, NewBlocks

\* The type invariant: what the tracker, the scanner and block_data hold are
\* blocks of the workchain.
THEOREM TrackerTyped == TrackerSpec => []TypeOK
<1>1. ASSUME ChainInv, WalkInv PROVE TypeOK
  <2>1. \A i \in 1..Len(line) : line[i] \in DOMAIN parents
    BY <1>1 DEF ChainInv, BlocksTyped
  <2>2. PICK k, c, g, s \in 0..Len(line) : WalkAt(k, c, g, s)
    BY <1>1 DEF WalkInv
  <2>3. ASSUME NEW i \in 0..Len(line) PROVE (IF i = 0 THEN {} ELSE {line[i]}) \subseteq DOMAIN parents
    <3>1. i = 0 \/ i \in 1..Len(line)
      BY <1>1, FeedChain
    <3> QED BY <2>1, <3>1
  <2>4. {lastKnown} \cup target \cup current \cup scanning \subseteq DOMAIN parents
    BY <2>1, <2>2, <2>3 DEF WalkAt
  <2>5. blockData \subseteq DOMAIN parents
    BY <1>1, <2>1 DEF WalkInv, RowsOnLine
  <2>6. Len(line) <= MaxBlocks
    BY <1>1, ShardAssumption DEF ChainInv, BlocksTyped
  <2> QED BY <1>1, <2>4, <2>5, <2>6 DEF TypeOK, ChainInv, BlocksTyped
<1>2. ChainInv /\ WalkInv /\ [TrackerNext]_shardVars => ChainInv' /\ WalkInv'
  BY ChainInvStep, TrackerStepIsFeedStep
<1> QED BY <1>1, <1>2, ChainInvInit, FeedStarts, PTL DEF TrackerSpec

\* The tracker over splits and merges implements the feed of one shard, with a
\* block mapped to its position on the line: every poll, send, failed fetch, scan
\* and restart is the same step of BlockFeed, so what is proved of the feed holds
\* of the tracker.
THEOREM TrackerImplementsFeed == TrackerSpec => ImplementsBlockFeed
<1>1. ChainInv /\ WalkInv /\ [TrackerNext]_shardVars
         => ChainInv' /\ WalkInv' /\ [Feed!FeedNext]_Feed!feedVars
  BY ChainInvStep, TrackerStepIsFeedStep
<1> QED BY <1>1, ChainInvInit, FeedStarts, PTL DEF TrackerSpec, ImplementsBlockFeed, Feed!FeedSpec

=============================================================================
