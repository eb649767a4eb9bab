----------------------------- MODULE Tm2cSafety -----------------------------
(***************************************************************************)
(* The safety of Tm2c, for every number of nodes and words, every          *)
(* contention manager and every set of transactions: type correctness, the *)
(* inductive invariant of Tm2cInv (the messages, the locks and what is     *)
(* held), two-phase locking, isolation of the write-back, consistent       *)
(* snapshots, and serializability: Tm2c implements SerialMemory; and the   *)
(* second part: no lock is left behind, priorities are current and only an *)
(* elder aborts.                                                           *)
(***************************************************************************)
EXTENDS Tm2cInv, TLAPS, WellFoundedInduction

\* A set of naturals that is not empty has a least element: the order in which
\* tm2c_rpc_rls_all and the contention manager go through a set of nodes is defined.
LEMMA MinIsIn ==
  ASSUME NEW S \in SUBSET Nat, S # {}
  PROVE  Min(S) \in S
<1>1. PICK x \in S : \A y \in S : <<y, x>> \notin OpToRel(<, Nat)
  BY NatLessThanWellFounded, WFMin, Zenon
<1>2. \A y \in S : ~(y < x)
  BY <1>1, Zenon DEF OpToRel
<1>3. \A y \in S : x =< y
  BY <1>2
<1> QED
  BY <1>3 DEF Min

-----------------------------------------------------------------------------
(* Type correctness.                                                         *)

LEMMA OpType ==
  ASSUME TypeOK, NEW p \in Apps, ~BodyDone(p)
  PROVE  Op(p) \in Operation
BY DEF TypeOK, BodyDone, Op, Transactions

LEMMA LockAddrType ==
  ASSUME TypeOK, NEW p \in Apps, NeedsLock(p)
  PROVE  LockAddr(p) \in Addrs
<1>1. CASE BodyDone(p)
  <2>1. wset[p] \in Seq(Entry) /\ nw[p] \in Nat /\ nw[p] < Len(wset[p])
    BY <1>1 DEF TypeOK, NeedsLock, LocksMissing
  <2>2. wset[p][nw[p] + 1] \in Entry
    BY <2>1
  <2> QED
    BY <1>1, <2>2 DEF LockAddr, Entry
<1>2. CASE ~BodyDone(p)
  BY <1>2, OpType DEF LockAddr, Operation
<1> QED
  BY <1>1, <1>2

LEMMA TypeInit == Init => TypeInv
BY NodesAssumption DEF Init, TypeInv, TypeOK, Asking, Transactions, NoTransaction, Stores,
   Values, NoMsg, NoJob

\* Asking is about the variables of the node alone, and only Contact enters.
LEMMA AskingStep ==
  ASSUME Asking, NEW p \in Apps,
         \A q \in Apps \ {p} : /\ pc'[q] = pc[q] /\ body'[q] = body[q] /\ ip'[q] = ip[q]
                               /\ nw'[q] = nw[q] /\ wset'[q] = wset[q],
         pc'[p] \in {"send", "wait"} => NeedsLock(p)'
  PROVE  Asking'
<1> SUFFICES ASSUME NEW q \in Apps, q # p, pc'[q] \in {"send", "wait"}
             PROVE  NeedsLock(q)'
  BY DEF Asking
<1>1. NeedsLock(q)
  BY DEF Asking
<1>2. /\ body'[q] = body[q] /\ ip'[q] = ip[q]
      /\ nw'[q] = nw[q] /\ wset'[q] = wset[q]
  OBVIOUS
<1>3. NeedsLock(q)' = NeedsLock(q)
  BY <1>2 DEF NeedsLock, OwnLoad, BufferedStore, LocksMissing, BodyDone, Op, WrittenAddrs
<1> QED
  BY <1>1, <1>3

LEMMA TypeBegin ==
  ASSUME TypeInv, NEW p \in Apps, Begin(p)
  PROVE  TypeInv'
<1> USE DEF TypeInv, Begin, dslVars
<1>1. pc' \in [Apps -> {"idle", "start", "body", "send", "wait", "persist", "release", "abort"}]
  BY DEF TypeOK
<1>2. body' \in [Apps -> Transactions]
  <2>1. PICK b \in Bodies[p] : body' = [body EXCEPT ![p] = b]
    BY BodiesAssumption
  <2>2. b \in Transactions
    BY BodiesAssumption
  <2> QED
    BY <2>1, <2>2 DEF TypeOK
<1>3. prio' \in [Apps -> Nat] /\ clock' \in Nat
  <2>1. CASE CM = "GREEDY"
    BY <2>1 DEF TypeOK
  <2>2. CASE CM # "GREEDY"
    BY <2>2 DEF TypeOK
  <2> QED
    BY <2>1, <2>2
<1>4. TypeOK'
  BY <1>1, <1>2, <1>3 DEF TypeOK
<1>5. Asking'
  <2>1. PICK b \in Bodies[p] : body' = [body EXCEPT ![p] = b]
    BY BodiesAssumption
  <2> QED
    BY <2>1, AskingStep DEF TypeOK
<1> QED
  BY <1>4, <1>5

LEMMA TypeRunning ==
  ASSUME TypeInv, NEW p \in Apps, Running(p)
  PROVE  TypeInv'
<1> USE DEF TypeInv, Running, dslVars
<1>1. pc' \in [Apps -> {"idle", "start", "body", "send", "wait", "persist", "release", "abort"}]
  BY DEF TypeOK
<1>2. flag' \in [Apps -> {"NO_CONFLICT", "CONFLICT", "PERSISTING_WRITES", "TX_COMMITTED"}]
  BY DEF TypeOK
<1>3. TypeOK'
  BY <1>1, <1>2 DEF TypeOK
<1>4. Asking'
  BY AskingStep DEF TypeOK
<1> QED
  BY <1>3, <1>4

LEMMA TypeLoadOwn ==
  ASSUME TypeInv, NEW p \in Apps, LoadOwn(p)
  PROVE  TypeInv'
<1> USE DEF TypeInv, LoadOwn, dslVars
<1>1. ip' \in [Apps -> Nat \ {0}]
  BY DEF TypeOK
<1>2. TypeOK'
  BY <1>1 DEF TypeOK
<1>3. Asking'
  BY AskingStep DEF TypeOK
<1> QED
  BY <1>2, <1>3

LEMMA TypeStore ==
  ASSUME TypeInv, NEW p \in Apps, Store(p)
  PROVE  TypeInv'
<1> USE DEF TypeInv, Store, dslVars
<1>1. wset' \in [Apps -> Seq(Entry)]
  <2>1. [addr |-> Op(p).addr, val |-> <<p, ntx[p] + 1>>] \in Entry
    <3>1. Op(p).addr \in Addrs
      BY OpType DEF BufferedStore, Operation
    <3>2. <<p, ntx[p] + 1>> \in Values
      BY DEF TypeOK, Values
    <3> QED
      BY <3>1, <3>2 DEF Entry
  <2> QED
    BY <2>1 DEF TypeOK
<1>2. ip' \in [Apps -> Nat \ {0}]
  BY DEF TypeOK
<1>3. TypeOK'
  BY <1>1, <1>2 DEF TypeOK
<1>4. Asking'
  BY AskingStep DEF TypeOK
<1> QED
  BY <1>3, <1>4

LEMMA TypeContact ==
  ASSUME TypeInv, NEW p \in Apps, Contact(p)
  PROVE  TypeInv'
<1> USE DEF TypeInv, Contact, dslVars
<1>1. pc' \in [Apps -> {"idle", "start", "body", "send", "wait", "persist", "release", "abort"}]
  BY DEF TypeOK
<1>2. contacted' \in [Apps -> SUBSET Dsls]
  <2>1. LockDsl(p) \in Dsls
    BY LockAddrType, ResponsibleAssumption DEF LockDsl
  <2> QED
    BY <2>1 DEF TypeOK
<1>3. TypeOK'
  BY <1>1, <1>2 DEF TypeOK
<1>4. Asking'
  <2>1. NeedsLock(p)' = NeedsLock(p)
    BY DEF NeedsLock, OwnLoad, BufferedStore, LocksMissing, BodyDone, Op, WrittenAddrs
  <2>2. NeedsLock(p)
    BY DEF Asking
  <2> QED
    BY <2>1, <2>2, AskingStep DEF TypeOK
<1> QED
  BY <1>3, <1>4

LEMMA TypeNoticeAbort ==
  ASSUME TypeInv, NEW p \in Apps, NoticeAbort(p)
  PROVE  TypeInv'
<1> USE DEF TypeInv, NoticeAbort, dslVars
<1>1. pc' \in [Apps -> {"idle", "start", "body", "send", "wait", "persist", "release", "abort"}]
  BY DEF TypeOK
<1>2. TypeOK'
  BY <1>1 DEF TypeOK
<1>3. Asking'
  BY AskingStep DEF TypeOK
<1> QED
  BY <1>2, <1>3

LEMMA TypeSend ==
  ASSUME TypeInv, NEW p \in Apps, Send(p)
  PROVE  TypeInv'
<1> USE DEF TypeInv, Send, dslVars
<1>1. pc' \in [Apps -> {"idle", "start", "body", "send", "wait", "persist", "release", "abort"}]
  BY DEF TypeOK
<1>2. chan' \in [Dsls -> [Apps -> Request \cup Release \cup {NoMsg}]]
  <2>1. LockAddr(p) \in Addrs /\ LockType(p) \in {"LOAD", "STORE"} /\ prio[p] \in Nat
    BY LockAddrType DEF TypeOK, Asking, LockType
  <2>2. [type |-> LockType(p), addr |-> LockAddr(p), meta |-> prio[p]] \in Request
    BY <2>1 DEF Request
  <2> QED
    BY <2>2 DEF TypeOK
<1>3. TypeOK'
  BY <1>1, <1>2 DEF TypeOK
<1>4. Asking'
  <2>1. NeedsLock(p)' = NeedsLock(p)
    BY DEF NeedsLock, OwnLoad, BufferedStore, LocksMissing, BodyDone, Op, WrittenAddrs
  <2>2. NeedsLock(p)
    BY DEF Asking
  <2> QED
    BY <2>1, <2>2, AskingStep DEF TypeOK
<1> QED
  BY <1>3, <1>4

LEMMA TypeGranted ==
  ASSUME TypeInv, NEW p \in Apps, Granted(p)
  PROVE  TypeInv'
<1> USE DEF TypeInv, Granted, dslVars
<1>1. pc' \in [Apps -> {"idle", "start", "body", "send", "wait", "persist", "release", "abort"}]
  BY DEF TypeOK
<1>2. resp' \in [Apps -> {"NONE", "NO_CONFLICT", "CONFLICT"}]
  BY DEF TypeOK
<1>3. nw' \in [Apps -> Nat] /\ ip' \in [Apps -> Nat \ {0}]
  <2>1. CASE BodyDone(p)
    BY <2>1 DEF TypeOK
  <2>2. CASE ~BodyDone(p)
    <3>1. nw' = nw /\ ip' = [ip EXCEPT ![p] = @ + 1]
      BY <2>2
    <3> QED
      BY <3>1 DEF TypeOK
  <2> QED
    BY <2>1, <2>2
<1>4. reads' \in [Apps -> SUBSET (Addrs \X Values)]
  <2>1. LockAddr(p) \in Addrs
    BY LockAddrType DEF Asking
  <2>2. mem[LockAddr(p)] \in Values
    BY <2>1 DEF TypeOK
  <2>3. CASE BodyDone(p)
    BY <2>3 DEF TypeOK
  <2>4. CASE ~BodyDone(p)
    <3>1. reads' = [reads EXCEPT ![p] = @ \cup {<<LockAddr(p), mem[LockAddr(p)]>>}]
      BY <2>4
    <3> QED
      BY <2>1, <2>2, <3>1 DEF TypeOK
  <2> QED
    BY <2>3, <2>4
<1>5. wset' \in [Apps -> Seq(Entry)]
  <2>1. LockAddr(p) \in Addrs
    BY LockAddrType DEF Asking
  <2>2. [addr |-> LockAddr(p), val |-> <<p, ntx[p] + 1>>] \in Entry
    BY <2>1 DEF TypeOK, Entry, Values
  <2>3. CASE BodyDone(p) \/ Op(p).op = "LOAD"
    BY <2>3 DEF TypeOK
  <2>4. CASE ~BodyDone(p) /\ Op(p).op # "LOAD"
    <3>1. wset' = [wset EXCEPT ![p] =
                     Append(@, [addr |-> LockAddr(p), val |-> <<p, ntx[p] + 1>>])]
      BY <2>4
    <3> QED
      BY <2>2, <3>1 DEF TypeOK
  <2> QED
    BY <2>3, <2>4
<1>6. TypeOK'
  BY <1>1, <1>2, <1>3, <1>4, <1>5 DEF TypeOK
<1>7. Asking'
  BY AskingStep DEF TypeOK
<1> QED
  BY <1>6, <1>7

LEMMA TypeRefused ==
  ASSUME TypeInv, NEW p \in Apps, Refused(p)
  PROVE  TypeInv'
<1> USE DEF TypeInv, Refused, dslVars
<1>1. pc' \in [Apps -> {"idle", "start", "body", "send", "wait", "persist", "release", "abort"}]
  BY DEF TypeOK
<1>2. resp' \in [Apps -> {"NONE", "NO_CONFLICT", "CONFLICT"}]
  BY DEF TypeOK
<1>3. contacted' \in [Apps -> SUBSET Dsls]
  BY DEF TypeOK
<1>4. TypeOK'
  BY <1>1, <1>2, <1>3 DEF TypeOK
<1>5. Asking'
  BY AskingStep DEF TypeOK
<1> QED
  BY <1>4, <1>5

LEMMA TypeSetPersisting ==
  ASSUME TypeInv, NEW p \in Apps, SetPersisting(p)
  PROVE  TypeInv'
<1> USE DEF TypeInv, SetPersisting, dslVars
<1>1. pc' \in [Apps -> {"idle", "start", "body", "send", "wait", "persist", "release", "abort"}]
  BY DEF TypeOK
<1>2. flag' \in [Apps -> {"NO_CONFLICT", "CONFLICT", "PERSISTING_WRITES", "TX_COMMITTED"}]
  BY DEF TypeOK
<1>3. nw' \in [Apps -> Nat]
  BY DEF TypeOK
<1>4. TypeOK'
  BY <1>1, <1>2, <1>3 DEF TypeOK
<1>5. Asking'
  BY AskingStep DEF TypeOK
<1> QED
  BY <1>4, <1>5

LEMMA TypePersistEntry ==
  ASSUME TypeInv, NEW p \in Apps, PersistEntry(p)
  PROVE  TypeInv'
<1> USE DEF TypeInv, PersistEntry, dslVars
<1>1. nw' \in [Apps -> Nat]
  BY DEF TypeOK
<1>2. mem' \in [Addrs -> Values]
  <2>1. wset[p][nw[p] + 1] \in Entry
    BY DEF TypeOK
  <2> QED
    BY <2>1 DEF TypeOK, Entry
<1>3. TypeOK'
  BY <1>1, <1>2 DEF TypeOK
<1>4. Asking'
  BY AskingStep DEF TypeOK
<1> QED
  BY <1>3, <1>4

LEMMA TypeSetCommitted ==
  ASSUME TypeInv, NEW p \in Apps, SetCommitted(p)
  PROVE  TypeInv'
<1> USE DEF TypeInv, SetCommitted, dslVars
<1>1. pc' \in [Apps -> {"idle", "start", "body", "send", "wait", "persist", "release", "abort"}]
  BY DEF TypeOK
<1>2. flag' \in [Apps -> {"NO_CONFLICT", "CONFLICT", "PERSISTING_WRITES", "TX_COMMITTED"}]
  BY DEF TypeOK
<1>3. TypeOK'
  BY <1>1, <1>2 DEF TypeOK
<1>4. Asking'
  BY AskingStep DEF TypeOK
<1> QED
  BY <1>3, <1>4

LEMMA TypeSendRelease ==
  ASSUME TypeInv, NEW p \in Apps, SendRelease(p)
  PROVE  TypeInv'
<1> USE DEF TypeInv, SendRelease, dslVars
<1>1. chan' \in [Dsls -> [Apps -> Request \cup Release \cup {NoMsg}]]
  <2>1. [type |-> "RMV_NODE", meta |-> prio[p]] \in Release
    BY DEF TypeOK, Release
  <2> QED
    BY <2>1 DEF TypeOK
<1>2. contacted' \in [Apps -> SUBSET Dsls]
  BY DEF TypeOK
<1>3. TypeOK'
  BY <1>1, <1>2 DEF TypeOK
<1>4. Asking'
  BY AskingStep DEF TypeOK
<1> QED
  BY <1>3, <1>4

LEMMA TypeCommitted ==
  ASSUME TypeInv, NEW p \in Apps, Committed(p)
  PROVE  TypeInv'
<1> USE DEF TypeInv, Committed, dslVars, ClearAttempt
<1>1. pc' \in [Apps -> {"idle", "start", "body", "send", "wait", "persist", "release", "abort"}]
  BY DEF TypeOK
<1>2. ip' \in [Apps -> Nat \ {0}]
  BY DEF TypeOK
<1>3. nw' \in [Apps -> Nat]
  BY DEF TypeOK
<1>4. wset' \in [Apps -> Seq(Entry)]
  BY DEF TypeOK
<1>5. reads' \in [Apps -> SUBSET (Addrs \X Values)]
  BY DEF TypeOK
<1>6. ntx' \in [Apps -> Nat]
  BY DEF TypeOK
<1>7. prio' \in [Apps -> Nat]
  <2>1. PICK t \in Nat : prio' = [prio EXCEPT ![p] = @ + t] \/ prio' = prio
    BY BoundsAssumption
  <2>2. prio \in [Apps -> Nat]
    BY DEF TypeOK
  <2> QED
    BY <2>1, <2>2
<1>8. TypeOK'
  BY <1>1, <1>2, <1>3, <1>4, <1>5, <1>6, <1>7 DEF TypeOK
<1>9. Asking'
  BY AskingStep DEF TypeOK
<1> QED
  BY <1>8, <1>9

LEMMA TypeRetry ==
  ASSUME TypeInv, NEW p \in Apps, Retry(p)
  PROVE  TypeInv'
<1> USE DEF TypeInv, Retry, dslVars, ClearAttempt
<1>1. pc' \in [Apps -> {"idle", "start", "body", "send", "wait", "persist", "release", "abort"}]
  BY DEF TypeOK
<1>2. ip' \in [Apps -> Nat \ {0}]
  BY DEF TypeOK
<1>3. nw' \in [Apps -> Nat]
  BY DEF TypeOK
<1>4. wset' \in [Apps -> Seq(Entry)]
  BY DEF TypeOK
<1>5. reads' \in [Apps -> SUBSET (Addrs \X Values)]
  BY DEF TypeOK
<1>6. TypeOK'
  BY <1>1, <1>2, <1>3, <1>4, <1>5 DEF TypeOK
<1>7. Asking'
  BY AskingStep DEF TypeOK
<1> QED
  BY <1>6, <1>7

\* The DSL node: Asking is about the application nodes only.
LEMMA AskingSame ==
  ASSUME Asking, UNCHANGED appVars
  PROVE  Asking'
BY DEF Asking, NeedsLock, OwnLoad, BufferedStore, LocksMissing, BodyDone, Op, WrittenAddrs, appVars

\* The slot of a request holds one, and the slot of a release a release.
LEMMA MessageType ==
  ASSUME TypeOK, NEW d \in Dsls, NEW p \in Apps
  PROVE  /\ IsRequest(chan[d][p]) => chan[d][p] \in Request
         /\ chan[d][p].type = "RMV_NODE" => chan[d][p] \in Release
<1>1. chan[d][p] \in Request \cup Release \cup {NoMsg}
  BY DEF TypeOK
<1> QED
  BY <1>1 DEF IsRequest, Request, Release, NoMsg

LEMMA TakeType ==
  ASSUME TypeOK, NEW d \in Dsls, NEW p \in Apps, Take(d, p)
  PROVE  chan' \in [Dsls -> [Apps -> Request \cup Release \cup {NoMsg}]]
BY DEF TypeOK, Take

LEMMA NotedType ==
  ASSUME TypeOK, NEW d \in Dsls, NEW p \in Apps, chan[d][p] \in Request \cup Release
  PROVE  /\ NotedTs(d, p) \in Nat /\ Forgotten(d, p) \in Nat
         /\ Noted(d, p) \in [Apps -> Nat]
<1>1. chan[d][p].meta \in Nat /\ ts[d] \in [Apps -> Nat]
  BY DEF TypeOK, Request, Release
<1>2. NotedTs(d, p) \in Nat
  BY <1>1, CMAssumption DEF NotedTs
<1> QED
  BY <1>1, <1>2 DEF Noted, Forgotten

LEMMA DeleteNodeType ==
  ASSUME TypeOK, NEW d, NEW v, DeleteNode(d, v)
  PROVE  /\ readers' \in [Addrs -> SUBSET Apps]
         /\ writer' \in [Addrs -> Apps \cup {NoNode}]
BY DEF TypeOK, DeleteNode

LEMMA DefendersType ==
  ASSUME TypeOK, NEW p \in Apps, NEW m \in Request, Conflict(p, m) # "NO_CONFLICT"
  PROVE  Defenders(p, m) \subseteq Apps
<1>1. m.addr \in Addrs /\ m.type \in {"LOAD", "STORE"}
  BY DEF Request
<1>2. readers[m.addr] \subseteq Apps /\ writer[m.addr] \in Apps \cup {NoNode}
  BY <1>1 DEF TypeOK
<1> QED
  BY <1>1, <1>2 DEF Defenders, Conflict

LEMMA AcquireType ==
  ASSUME TypeOK, NEW p \in Apps, NEW m, m.addr \in Addrs, Acquire(p, m)
  PROVE  /\ readers' \in [Addrs -> SUBSET Apps]
         /\ writer' \in [Addrs -> Apps \cup {NoNode}]
         /\ resp' \in [Apps -> {"NONE", "NO_CONFLICT", "CONFLICT"}]
BY DEF TypeOK, Acquire

LEMMA TypeGrant ==
  ASSUME TypeInv, NEW d \in Dsls, NEW p \in Apps, Grant(d, p)
  PROVE  TypeInv'
<1> USE DEF TypeInv, Grant
<1>1. chan[d][p] \in Request
  BY MessageType
<1>2. chan' \in [Dsls -> [Apps -> Request \cup Release \cup {NoMsg}]]
  BY TakeType
<1>3. ts' \in [Dsls -> [Apps -> Nat]]
  BY <1>1, NotedType DEF TypeOK
<1>4. /\ readers' \in [Addrs -> SUBSET Apps]
      /\ writer' \in [Addrs -> Apps \cup {NoNode}]
      /\ resp' \in [Apps -> {"NONE", "NO_CONFLICT", "CONFLICT"}]
  BY <1>1, AcquireType DEF Request
<1>5. TypeOK'
  BY <1>2, <1>3, <1>4 DEF TypeOK, appVars
<1> QED
  BY <1>5, AskingSame

LEMMA TypeRefuse ==
  ASSUME TypeInv, NEW d \in Dsls, NEW p \in Apps, Refuse(d, p)
  PROVE  TypeInv'
<1> USE DEF TypeInv, Refuse
<1>1. chan[d][p] \in Request
  BY MessageType
<1>2. chan' \in [Dsls -> [Apps -> Request \cup Release \cup {NoMsg}]]
  BY TakeType
<1>3. ts' \in [Dsls -> [Apps -> Nat]]
  BY <1>1, NotedType DEF TypeOK
<1>4. /\ readers' \in [Addrs -> SUBSET Apps]
      /\ writer' \in [Addrs -> Apps \cup {NoNode}]
  BY DeleteNodeType
<1>5. resp' \in [Apps -> {"NONE", "NO_CONFLICT", "CONFLICT"}]
  BY DEF TypeOK
<1>6. TypeOK'
  BY <1>2, <1>3, <1>4, <1>5 DEF TypeOK, appVars
<1> QED
  BY <1>6, AskingSame

LEMMA TypeContend ==
  ASSUME TypeInv, NEW d \in Dsls, NEW p \in Apps, Contend(d, p)
  PROVE  TypeInv'
<1> USE DEF TypeInv, Contend
<1>1. chan[d][p] \in Request
  BY MessageType
<1>2. chan' \in [Dsls -> [Apps -> Request \cup Release \cup {NoMsg}]]
  BY TakeType
<1>3. ts' \in [Dsls -> [Apps -> Nat]]
  BY <1>1, NotedType DEF TypeOK
<1>4. serving' \in [Dsls -> Job \cup {NoJob}]
  <2>1. [app |-> p, type |-> chan[d][p].type, addr |-> chan[d][p].addr] \in Job
    BY <1>1 DEF Request, Job
  <2> QED
    BY <2>1 DEF TypeOK
<1>5. victims' \in [Dsls -> SUBSET Apps]
  BY <1>1, DefendersType DEF TypeOK
<1>6. TypeOK'
  BY <1>2, <1>3, <1>4, <1>5 DEF TypeOK, appVars
<1> QED
  BY <1>6, AskingSame

LEMMA TypeAbortVictim ==
  ASSUME TypeInv, NEW d \in Dsls, AbortVictim(d)
  PROVE  TypeInv'
<1> USE DEF TypeInv, AbortVictim
<1>1. /\ readers' \in [Addrs -> SUBSET Apps]
      /\ writer' \in [Addrs -> Apps \cup {NoNode}]
  BY DeleteNodeType
<1>2. flag' \in [Apps -> {"NO_CONFLICT", "CONFLICT", "PERSISTING_WRITES", "TX_COMMITTED"}]
  BY DEF TypeOK, AbortNode
<1>3. victims' \in [Dsls -> SUBSET Apps]
  BY DEF TypeOK
<1>4. TypeOK'
  BY <1>1, <1>2, <1>3 DEF TypeOK, appVars
<1> QED
  BY <1>4, AskingSame

LEMMA TypeGrantContended ==
  ASSUME TypeInv, NEW d \in Dsls, GrantContended(d)
  PROVE  TypeInv'
<1> USE DEF TypeInv, GrantContended
<1>1. serving[d] \in Job
  BY DEF TypeOK, Idle
<1>2. /\ readers' \in [Addrs -> SUBSET Apps]
      /\ writer' \in [Addrs -> Apps \cup {NoNode}]
      /\ resp' \in [Apps -> {"NONE", "NO_CONFLICT", "CONFLICT"}]
  BY <1>1, AcquireType DEF Job
<1>3. serving' \in [Dsls -> Job \cup {NoJob}]
  BY DEF TypeOK
<1>4. TypeOK'
  BY <1>2, <1>3 DEF TypeOK, appVars
<1> QED
  BY <1>4, AskingSame

LEMMA TypeRemoveNode ==
  ASSUME TypeInv, NEW d \in Dsls, NEW p \in Apps, RemoveNode(d, p)
  PROVE  TypeInv'
<1> USE DEF TypeInv, RemoveNode
<1>1. chan[d][p] \in Release
  BY MessageType
<1>2. chan' \in [Dsls -> [Apps -> Request \cup Release \cup {NoMsg}]]
  BY TakeType
<1>3. ts' \in [Dsls -> [Apps -> Nat]]
  BY <1>1, NotedType DEF TypeOK
<1>4. /\ readers' \in [Addrs -> SUBSET Apps]
      /\ writer' \in [Addrs -> Apps \cup {NoNode}]
  BY DeleteNodeType
<1>5. TypeOK'
  BY <1>2, <1>3, <1>4 DEF TypeOK, appVars
<1> QED
  BY <1>5, AskingSame

LEMMA TypeStep ==
  ASSUME TypeInv, [Next]_vars
  PROVE  TypeInv'
<1>1. CASE UNCHANGED vars
  BY <1>1, AskingSame DEF TypeInv, TypeOK, vars, appVars, dslVars
<1>2. CASE \E p \in Apps : Begin(p) \/ AppStep(p)
  BY <1>2, TypeBegin, TypeRunning, TypeLoadOwn, TypeStore, TypeContact, TypeNoticeAbort,
     TypeSend, TypeGranted, TypeRefused, TypeSetPersisting, TypePersistEntry,
     TypeSetCommitted, TypeSendRelease, TypeCommitted, TypeRetry DEF AppStep
<1>3. CASE \E d \in Dsls : DslNext(d)
  BY <1>3, TypeGrant, TypeRefuse, TypeContend, TypeRemoveNode, TypeAbortVictim,
     TypeGrantContended DEF DslNext, Serve
<1> QED
  BY <1>1, <1>2, <1>3 DEF Next, Terminated

\* The variables of the application nodes, the DSL nodes and the message slots
\* always have the types TypeOK says, and a node that asks has a lock to ask for.
THEOREM TypeCorrect == Spec => []TypeInv
<1>1. Init => TypeInv
  BY TypeInit
<1>2. TypeInv /\ [Next]_vars => TypeInv'
  BY TypeStep
<1> QED
  BY <1>1, <1>2, PTL DEF Spec

\* Every variable of the protocol keeps its type, for every instance.
THEOREM TypeSafety == Spec => []TypeOK
<1>1. TypeInv => TypeOK
  BY DEF TypeInv
<1> QED
  BY <1>1, TypeCorrect, PTL

-----------------------------------------------------------------------------
(* Steps and what they leave alone.                                          *)

\* What a node asks for depends on its own variables.
LEMMA AskedSame ==
  ASSUME NEW q, body'[q] = body[q], ip'[q] = ip[q], nw'[q] = nw[q], wset'[q] = wset[q]
  PROVE  /\ LockAddr(q)' = LockAddr(q)
         /\ LockType(q)' = LockType(q)
         /\ LockDsl(q)' = LockDsl(q)
BY DEF LockAddr, LockType, LockDsl, BodyDone, Op

\* A step of p is none of q.
Elsewhere(p) == \A q \in Apps \ {p} :
  /\ pc'[q] = pc[q] /\ body'[q] = body[q] /\ ip'[q] = ip[q] /\ nw'[q] = nw[q]
  /\ wset'[q] = wset[q] /\ reads'[q] = reads[q] /\ resp'[q] = resp[q]
  /\ flag'[q] = flag[q] /\ contacted'[q] = contacted[q]
  /\ \A d \in Dsls : chan'[d][q] = chan[d][q]

LEMMA AppElsewhere ==
  ASSUME TypeInv, NEW p \in Apps, Begin(p) \/ AppStep(p)
  PROVE  Elsewhere(p) /\ UNCHANGED dslVars
<1> USE DEF TypeInv, TypeOK, Elsewhere, dslVars
<1>1. CASE Begin(p)
  BY <1>1 DEF Begin
<1>2. CASE Running(p)
  BY <1>2 DEF Running
<1>3. CASE LoadOwn(p)
  BY <1>3 DEF LoadOwn
<1>4. CASE Store(p)
  BY <1>4 DEF Store
<1>5. CASE Contact(p)
  BY <1>5 DEF Contact
<1>6. CASE NoticeAbort(p)
  BY <1>6 DEF NoticeAbort
<1>7. CASE Send(p)
  BY <1>7 DEF Send
<1>8. CASE Granted(p)
  BY <1>8 DEF Granted
<1>9. CASE Refused(p)
  BY <1>9 DEF Refused
<1>10. CASE SetPersisting(p)
  BY <1>10 DEF SetPersisting
<1>11. CASE PersistEntry(p)
  BY <1>11 DEF PersistEntry
<1>12. CASE SetCommitted(p)
  BY <1>12 DEF SetCommitted
<1>13. CASE SendRelease(p)
  BY <1>13 DEF SendRelease
<1>14. CASE Committed(p)
  BY <1>14 DEF Committed, ClearAttempt
<1>15. CASE Retry(p)
  BY <1>15 DEF Retry, ClearAttempt
<1> QED
  BY <1>1, <1>2, <1>3, <1>4, <1>5, <1>6, <1>7, <1>8, <1>9, <1>10, <1>11, <1>12, <1>13,
     <1>14, <1>15 DEF AppStep

-----------------------------------------------------------------------------
(* Where the request of a node is.                                           *)

\* A step of a node that sends no request; if it waits, it takes the reply.
LEMMA QuietMsg ==
  ASSUME TypeInv, MsgInv, NEW p \in Apps, Elsewhere(p), UNCHANGED <<chan, dslVars>>,
         pc[p] = "wait" => resp[p] # "NONE", pc'[p] # "wait", resp'[p] = "NONE"
  PROVE  Requested' /\ Served' /\ Answered' /\ Overtaken'
<1> USE DEF TypeInv, MsgInv, Elsewhere, dslVars
<1>1. Requested'
  <2> SUFFICES ASSUME NEW d \in Dsls, NEW q \in Apps, IsRequest(chan[d][q])
               PROVE  /\ Awaits(q, d, chan[d][q])'
                      /\ Idle(d)' \/ serving'[d].app # q
    BY DEF Requested, IsRequest
  <2>1. Awaits(q, d, chan[d][q]) /\ (~Idle(d) => serving[d].app # q)
    BY DEF Requested
  <2>2. q # p
    BY <2>1 DEF Awaits
  <2> QED
    BY <2>1, <2>2, AskedSame DEF Awaits, Idle
<1>2. Served'
  <2> SUFFICES ASSUME NEW d \in Dsls, ~Idle(d)
               PROVE  Awaits(serving[d].app, d, serving[d])'
    BY DEF Served, Idle
  <2>1. Awaits(serving[d].app, d, serving[d]) /\ serving[d].app \in Apps
    BY DEF Served, Idle, TypeOK, Job
  <2>2. serving[d].app # p
    BY <2>1 DEF Awaits
  <2> QED
    BY <2>1, <2>2, AskedSame DEF Awaits
<1>3. Answered'
  BY DEF Answered
<1>4. Overtaken'
  <2> SUFFICES ASSUME NEW q \in Apps, pc'[q] = "wait"
               PROVE  (chan[LockDsl(q)][q].type # "RMV_NODE")'
    BY DEF Overtaken
  <2> QED
    BY AskedSame DEF Overtaken
<1> QED
  BY <1>1, <1>2, <1>3, <1>4

\* The write set and its counters, for a step of p.
LEMMA CleanStep ==
  ASSUME MsgInv, NEW p \in Apps, Elsewhere(p),
         pc'[p] \in {"idle", "start"} =>
           reads'[p] = {} /\ wset'[p] = <<>> /\ nw'[p] = 0 /\ ip'[p] = 1,
         nw'[p] =< Len(wset'[p])
  PROVE  Clean' /\ Counted'
BY DEF MsgInv, Clean, Counted, Elsewhere

LEMMA MsgBegin ==
  ASSUME TypeInv, MsgInv, NEW p \in Apps, Begin(p)
  PROVE  MsgInv'
<1>1. Elsewhere(p) /\ UNCHANGED dslVars
  BY AppElsewhere DEF AppStep
<1>2. pc[p] # "wait" /\ pc'[p] # "wait" /\ resp'[p] = "NONE" /\ UNCHANGED chan
  BY DEF MsgInv, Answered, Begin, TypeInv, TypeOK
<1>3. Requested' /\ Served' /\ Answered' /\ Overtaken'
  BY <1>1, <1>2, QuietMsg
<1>4. Clean' /\ Counted'
  BY <1>1, CleanStep DEF Begin, TypeInv, TypeOK, MsgInv, Clean, Counted
<1> QED
  BY <1>3, <1>4 DEF MsgInv

LEMMA MsgRunning ==
  ASSUME TypeInv, MsgInv, NEW p \in Apps, Running(p)
  PROVE  MsgInv'
<1>1. Elsewhere(p) /\ UNCHANGED dslVars
  BY AppElsewhere DEF AppStep
<1>2. pc[p] # "wait" /\ pc'[p] # "wait" /\ resp'[p] = "NONE" /\ UNCHANGED chan
  BY DEF MsgInv, Answered, Running, TypeInv, TypeOK
<1>3. Requested' /\ Served' /\ Answered' /\ Overtaken'
  BY <1>1, <1>2, QuietMsg
<1>4. Clean' /\ Counted'
  BY <1>1, CleanStep DEF Running, TypeInv, TypeOK, MsgInv, Clean, Counted
<1> QED
  BY <1>3, <1>4 DEF MsgInv

LEMMA MsgLoadOwn ==
  ASSUME TypeInv, MsgInv, NEW p \in Apps, LoadOwn(p)
  PROVE  MsgInv'
<1>1. Elsewhere(p) /\ UNCHANGED dslVars
  BY AppElsewhere DEF AppStep
<1>2. pc[p] # "wait" /\ pc'[p] # "wait" /\ resp'[p] = "NONE" /\ UNCHANGED chan
  BY DEF MsgInv, Answered, LoadOwn, TypeInv, TypeOK
<1>3. Requested' /\ Served' /\ Answered' /\ Overtaken'
  BY <1>1, <1>2, QuietMsg
<1>4. Clean' /\ Counted'
  BY <1>1, CleanStep DEF LoadOwn, TypeInv, TypeOK, MsgInv, Clean, Counted
<1> QED
  BY <1>3, <1>4 DEF MsgInv

LEMMA MsgStore ==
  ASSUME TypeInv, MsgInv, NEW p \in Apps, Store(p)
  PROVE  MsgInv'
<1>1. Elsewhere(p) /\ UNCHANGED dslVars
  BY AppElsewhere DEF AppStep
<1>2. pc[p] # "wait" /\ pc'[p] # "wait" /\ resp'[p] = "NONE" /\ UNCHANGED chan
  BY DEF MsgInv, Answered, Store, TypeInv, TypeOK
<1>3. Requested' /\ Served' /\ Answered' /\ Overtaken'
  BY <1>1, <1>2, QuietMsg
<1>4. Clean' /\ Counted'
  <2>1. wset'[p] = Append(wset[p], [addr |-> Op(p).addr, val |-> <<p, ntx[p] + 1>>])
    BY DEF Store, TypeInv, TypeOK
  <2>2. wset[p] \in Seq(Entry) /\ nw'[p] = nw[p] /\ nw[p] \in Nat /\ nw[p] =< Len(wset[p])
    BY DEF Store, TypeInv, TypeOK, MsgInv, Counted
  <2>3. nw'[p] =< Len(wset'[p])
    BY <2>1, <2>2
  <2> QED
    BY <1>1, <1>2, <2>3, CleanStep DEF Store, TypeInv, TypeOK
<1> QED
  BY <1>3, <1>4 DEF MsgInv

LEMMA MsgContact ==
  ASSUME TypeInv, MsgInv, NEW p \in Apps, Contact(p)
  PROVE  MsgInv'
<1>1. Elsewhere(p) /\ UNCHANGED dslVars
  BY AppElsewhere DEF AppStep
<1>2. pc[p] # "wait" /\ pc'[p] # "wait" /\ resp'[p] = "NONE" /\ UNCHANGED chan
  BY DEF MsgInv, Answered, Contact, TypeInv, TypeOK
<1>3. Requested' /\ Served' /\ Answered' /\ Overtaken'
  BY <1>1, <1>2, QuietMsg
<1>4. Clean' /\ Counted'
  BY <1>1, CleanStep DEF Contact, TypeInv, TypeOK, MsgInv, Clean, Counted
<1> QED
  BY <1>3, <1>4 DEF MsgInv

LEMMA MsgNoticeAbort ==
  ASSUME TypeInv, MsgInv, NEW p \in Apps, NoticeAbort(p)
  PROVE  MsgInv'
<1>1. Elsewhere(p) /\ UNCHANGED dslVars
  BY AppElsewhere DEF AppStep
<1>2. pc[p] # "wait" /\ pc'[p] # "wait" /\ resp'[p] = "NONE" /\ UNCHANGED chan
  BY DEF MsgInv, Answered, NoticeAbort, TypeInv, TypeOK
<1>3. Requested' /\ Served' /\ Answered' /\ Overtaken'
  BY <1>1, <1>2, QuietMsg
<1>4. Clean' /\ Counted'
  BY <1>1, CleanStep DEF NoticeAbort, TypeInv, TypeOK, MsgInv, Clean, Counted
<1> QED
  BY <1>3, <1>4 DEF MsgInv

LEMMA MsgSetPersisting ==
  ASSUME TypeInv, MsgInv, NEW p \in Apps, SetPersisting(p)
  PROVE  MsgInv'
<1>1. Elsewhere(p) /\ UNCHANGED dslVars
  BY AppElsewhere DEF AppStep
<1>2. pc[p] # "wait" /\ pc'[p] # "wait" /\ resp'[p] = "NONE" /\ UNCHANGED chan
  BY DEF MsgInv, Answered, SetPersisting, TypeInv, TypeOK
<1>3. Requested' /\ Served' /\ Answered' /\ Overtaken'
  BY <1>1, <1>2, QuietMsg
<1>4. Clean' /\ Counted'
  BY <1>1, CleanStep DEF SetPersisting, TypeInv, TypeOK, MsgInv, Clean, Counted
<1> QED
  BY <1>3, <1>4 DEF MsgInv

LEMMA MsgPersistEntry ==
  ASSUME TypeInv, MsgInv, NEW p \in Apps, PersistEntry(p)
  PROVE  MsgInv'
<1>1. Elsewhere(p) /\ UNCHANGED dslVars
  BY AppElsewhere DEF AppStep
<1>2. pc[p] # "wait" /\ pc'[p] # "wait" /\ resp'[p] = "NONE" /\ UNCHANGED chan
  BY DEF MsgInv, Answered, PersistEntry, TypeInv, TypeOK
<1>3. Requested' /\ Served' /\ Answered' /\ Overtaken'
  BY <1>1, <1>2, QuietMsg
<1>4. Clean' /\ Counted'
  BY <1>1, CleanStep DEF PersistEntry, TypeInv, TypeOK, MsgInv, Clean, Counted
<1> QED
  BY <1>3, <1>4 DEF MsgInv

LEMMA MsgSetCommitted ==
  ASSUME TypeInv, MsgInv, NEW p \in Apps, SetCommitted(p)
  PROVE  MsgInv'
<1>1. Elsewhere(p) /\ UNCHANGED dslVars
  BY AppElsewhere DEF AppStep
<1>2. pc[p] # "wait" /\ pc'[p] # "wait" /\ resp'[p] = "NONE" /\ UNCHANGED chan
  BY DEF MsgInv, Answered, SetCommitted, TypeInv, TypeOK
<1>3. Requested' /\ Served' /\ Answered' /\ Overtaken'
  BY <1>1, <1>2, QuietMsg
<1>4. Clean' /\ Counted'
  BY <1>1, CleanStep DEF SetCommitted, TypeInv, TypeOK, MsgInv, Clean, Counted
<1> QED
  BY <1>3, <1>4 DEF MsgInv

LEMMA MsgCommitted ==
  ASSUME TypeInv, MsgInv, NEW p \in Apps, Committed(p)
  PROVE  MsgInv'
<1>1. Elsewhere(p) /\ UNCHANGED dslVars
  BY AppElsewhere DEF AppStep
<1>2. pc[p] # "wait" /\ pc'[p] # "wait" /\ resp'[p] = "NONE" /\ UNCHANGED chan
  BY DEF MsgInv, Answered, Committed, TypeInv, TypeOK
<1>3. Requested' /\ Served' /\ Answered' /\ Overtaken'
  BY <1>1, <1>2, QuietMsg
<1>4. Clean' /\ Counted'
  BY <1>1, CleanStep DEF Committed, ClearAttempt, TypeInv, TypeOK, MsgInv, Clean, Counted
<1> QED
  BY <1>3, <1>4 DEF MsgInv

LEMMA MsgRetry ==
  ASSUME TypeInv, MsgInv, NEW p \in Apps, Retry(p)
  PROVE  MsgInv'
<1>1. Elsewhere(p) /\ UNCHANGED dslVars
  BY AppElsewhere DEF AppStep
<1>2. pc[p] # "wait" /\ pc'[p] # "wait" /\ resp'[p] = "NONE" /\ UNCHANGED chan
  BY DEF MsgInv, Answered, Retry, TypeInv, TypeOK
<1>3. Requested' /\ Served' /\ Answered' /\ Overtaken'
  BY <1>1, <1>2, QuietMsg
<1>4. Clean' /\ Counted'
  BY <1>1, CleanStep DEF Retry, ClearAttempt, TypeInv, TypeOK, MsgInv, Clean, Counted
<1> QED
  BY <1>3, <1>4 DEF MsgInv

LEMMA MsgSend ==
  ASSUME TypeInv, MsgInv, NEW p \in Apps, Send(p)
  PROVE  MsgInv'
<1> DEFINE e == LockDsl(p)
<1>1. Elsewhere(p) /\ UNCHANGED dslVars
  BY AppElsewhere DEF AppStep
<1>2. e \in Dsls
  BY LockAddrType, ResponsibleAssumption DEF LockDsl, TypeInv, Asking, Send
<1>3. /\ LockAddr(p)' = LockAddr(p) /\ LockType(p)' = LockType(p) /\ LockDsl(p)' = LockDsl(p)
      /\ pc'[p] = "wait" /\ resp'[p] = resp[p]
  BY AskedSame DEF Send, TypeInv, TypeOK
<1>4. /\ chan'[e][p] = [type |-> LockType(p), addr |-> LockAddr(p), meta |-> prio[p]]
      /\ \A d \in Dsls \ {e} : chan'[d][p] = chan[d][p]
  BY <1>2 DEF Send, TypeInv, TypeOK
<1>5. resp[p] = "NONE" /\ \A d \in Dsls : ~IsRequest(chan[d][p])
  BY DEF Send, MsgInv, Answered, Requested, Awaits, TypeInv, TypeOK
<1>6. \A d \in Dsls : ~Idle(d) => serving[d].app # p /\ serving[d].app \in Apps
  BY DEF Send, MsgInv, Served, Awaits, Idle, TypeInv, TypeOK, Job
<1>7. Requested'
  <2> SUFFICES ASSUME NEW d \in Dsls, NEW q \in Apps, IsRequest(chan'[d][q])
               PROVE  /\ Awaits(q, d, chan[d][q])'
                      /\ Idle(d)' \/ serving'[d].app # q
    BY DEF Requested, IsRequest
  <2>1. CASE q = p
    <3>1. d = e
      BY <1>4, <1>5, <2>1
    <3> QED
      BY <1>1, <1>3, <1>4, <1>5, <1>6, <2>1, <3>1 DEF Awaits, Idle, dslVars
  <2>2. CASE q # p
    <3>1. chan'[d][q] = chan[d][q] /\ pc'[q] = pc[q] /\ resp'[q] = resp[q]
      BY <1>1, <2>2 DEF Elsewhere
    <3>2. LockAddr(q)' = LockAddr(q) /\ LockType(q)' = LockType(q) /\ LockDsl(q)' = LockDsl(q)
      BY <1>1, <2>2, AskedSame DEF Elsewhere
    <3>3. Awaits(q, d, chan[d][q]) /\ (~Idle(d) => serving[d].app # q)
      BY <3>1 DEF MsgInv, Requested, IsRequest
    <3> QED
      BY <1>1, <3>1, <3>2, <3>3 DEF Awaits, Idle, dslVars
  <2> QED
    BY <2>1, <2>2
<1>8. Served'
  <2> SUFFICES ASSUME NEW d \in Dsls, ~Idle(d)
               PROVE  Awaits(serving[d].app, d, serving[d])'
    BY <1>1 DEF Served, Idle, dslVars
  <2>1. PICK q \in Apps : q = serving[d].app /\ q # p /\ Awaits(q, d, serving[d])
    BY <1>6 DEF MsgInv, Served
  <2>2. pc'[q] = pc[q] /\ resp'[q] = resp[q]
    BY <1>1, <2>1 DEF Elsewhere
  <2>3. LockAddr(q)' = LockAddr(q) /\ LockType(q)' = LockType(q) /\ LockDsl(q)' = LockDsl(q)
    BY <1>1, <2>1, AskedSame DEF Elsewhere
  <2> QED
    BY <1>1, <2>1, <2>2, <2>3 DEF Awaits, dslVars
<1>9. Answered'
  BY <1>1, <1>5, <1>3 DEF MsgInv, Answered, Elsewhere
<1>10. Overtaken'
  <2> SUFFICES ASSUME NEW q \in Apps, pc'[q] = "wait"
               PROVE  (chan[LockDsl(q)][q].type # "RMV_NODE")'
    BY DEF Overtaken
  <2>1. CASE q = p
    BY <1>3, <1>4, <2>1 DEF LockType
  <2>2. CASE q # p
    <3>1. chan[LockDsl(q)][q].type # "RMV_NODE" /\ pc[q] = "wait"
      BY <1>1, <2>2 DEF MsgInv, Overtaken, Elsewhere
    <3>2. LockDsl(q) \in Dsls
      BY <3>1, LockAddrType, ResponsibleAssumption DEF LockDsl, TypeInv, Asking
    <3>3. LockDsl(q)' = LockDsl(q)
      BY <1>1, <2>2, AskedSame DEF Elsewhere
    <3> QED
      BY <1>1, <2>2, <3>1, <3>2, <3>3 DEF Elsewhere
  <2> QED
    BY <2>1, <2>2
<1>11. Clean' /\ Counted'
  BY <1>1, <1>3, CleanStep DEF Send, MsgInv, Counted
<1> QED
  BY <1>7, <1>8, <1>9, <1>10, <1>11 DEF MsgInv

LEMMA MsgGranted ==
  ASSUME TypeInv, MsgInv, NEW p \in Apps, Granted(p)
  PROVE  MsgInv'
<1>1. Elsewhere(p) /\ UNCHANGED dslVars
  BY AppElsewhere DEF AppStep
<1>2. resp[p] # "NONE" /\ resp'[p] = "NONE" /\ pc'[p] = "body" /\ UNCHANGED chan
  BY DEF Granted, TypeInv, TypeOK
<1>3. Requested' /\ Served' /\ Answered' /\ Overtaken'
  BY <1>1, <1>2, QuietMsg
<1>4. nw'[p] =< Len(wset'[p])
  <2>1. wset[p] \in Seq(Entry) /\ nw[p] \in Nat /\ nw[p] =< Len(wset[p])
    BY DEF TypeInv, TypeOK, MsgInv, Counted
  <2>2. CASE BodyDone(p)
    <3>1. wset' = wset /\ nw'[p] = nw[p] + 1 /\ nw[p] < Len(wset[p])
      BY <2>2 DEF Granted, TypeInv, TypeOK, Asking, NeedsLock, LocksMissing
    <3> QED
      BY <2>1, <3>1
  <2>3. CASE ~BodyDone(p)
    <3>1. nw' = nw
      BY <2>3 DEF Granted
    <3>2. CASE Op(p).op = "LOAD"
      BY <2>1, <2>3, <3>1, <3>2 DEF Granted
    <3>3. CASE Op(p).op # "LOAD"
      <4>1. wset' = [wset EXCEPT ![p] =
                       Append(@, [addr |-> LockAddr(p), val |-> <<p, ntx[p] + 1>>])]
        BY <2>3, <3>3 DEF Granted
      <4>2. wset'[p] = Append(wset[p], [addr |-> LockAddr(p), val |-> <<p, ntx[p] + 1>>])
        BY <4>1 DEF TypeInv, TypeOK
      <4> QED
        BY <2>1, <3>1, <4>2
    <3> QED
      BY <3>2, <3>3
  <2> QED
    BY <2>2, <2>3
<1>5. Clean' /\ Counted'
  BY <1>1, <1>2, <1>4, CleanStep
<1> QED
  BY <1>3, <1>5 DEF MsgInv

LEMMA MsgRefused ==
  ASSUME TypeInv, MsgInv, NEW p \in Apps, Refused(p)
  PROVE  MsgInv'
<1>1. Elsewhere(p) /\ UNCHANGED dslVars
  BY AppElsewhere DEF AppStep
<1>2. resp[p] # "NONE" /\ resp'[p] = "NONE" /\ pc'[p] = "abort" /\ UNCHANGED chan
  BY DEF Refused, TypeInv, TypeOK
<1>3. Requested' /\ Served' /\ Answered' /\ Overtaken'
  BY <1>1, <1>2, QuietMsg
<1>4. Clean' /\ Counted'
  BY <1>1, <1>2, CleanStep DEF Refused, MsgInv, Counted
<1> QED
  BY <1>3, <1>4 DEF MsgInv

LEMMA MsgSendRelease ==
  ASSUME TypeInv, MsgInv, NEW p \in Apps, SendRelease(p)
  PROVE  MsgInv'
<1>1. Elsewhere(p) /\ UNCHANGED dslVars
  BY AppElsewhere DEF AppStep
<1>2. pc[p] \in {"release", "abort"} /\ UNCHANGED <<pc, body, ip, nw, wset, reads, resp>>
  BY DEF SendRelease
<1>3. \A d \in Dsls : chan'[d][p] = chan[d][p] \/ chan'[d][p] = [type |-> "RMV_NODE", meta |-> prio[p]]
  BY DEF SendRelease, TypeInv, TypeOK
<1>4. \A d \in Dsls : ~IsRequest(chan'[d][p])
  BY <1>2, <1>3 DEF MsgInv, Requested, Awaits, IsRequest
<1>5. Requested'
  <2> SUFFICES ASSUME NEW d \in Dsls, NEW q \in Apps, IsRequest(chan'[d][q])
               PROVE  /\ Awaits(q, d, chan[d][q])'
                      /\ Idle(d)' \/ serving'[d].app # q
    BY DEF Requested, IsRequest
  <2>1. q # p
    BY <1>4
  <2>2. chan'[d][q] = chan[d][q]
    BY <1>1, <2>1 DEF Elsewhere
  <2>3. Awaits(q, d, chan[d][q]) /\ (~Idle(d) => serving[d].app # q)
    BY <2>2 DEF MsgInv, Requested, IsRequest
  <2> QED
    BY <1>1, <1>2, <2>2, <2>3, AskedSame DEF Awaits, Idle, dslVars
<1>6. Served'
  BY <1>1, <1>2, AskedSame DEF MsgInv, Served, Awaits, Idle, dslVars
<1>7. Answered'
  BY <1>2 DEF MsgInv, Answered
<1>8. Overtaken'
  <2> SUFFICES ASSUME NEW q \in Apps, pc[q] = "wait"
               PROVE  (chan[LockDsl(q)][q].type # "RMV_NODE")'
    BY <1>2 DEF Overtaken
  <2>1. q # p /\ chan[LockDsl(q)][q].type # "RMV_NODE"
    BY <1>2 DEF MsgInv, Overtaken
  <2>2. LockDsl(q) \in Dsls /\ LockDsl(q)' = LockDsl(q)
    BY <1>2, LockAddrType, ResponsibleAssumption, AskedSame DEF LockDsl, TypeInv, Asking
  <2> QED
    BY <1>1, <2>1, <2>2 DEF Elsewhere
<1>9. Clean' /\ Counted'
  BY <1>2 DEF MsgInv, Clean, Counted
<1> QED
  BY <1>5, <1>6, <1>7, <1>8, <1>9 DEF MsgInv

\* The DSL node changes nothing of what a node asks for.
LEMMA AskedKept ==
  ASSUME UNCHANGED appVars
  PROVE  /\ \A q : /\ LockAddr(q)' = LockAddr(q) /\ LockType(q)' = LockType(q)
                   /\ LockDsl(q)' = LockDsl(q)
         /\ (Clean /\ Counted) => (Clean /\ Counted)'
BY AskedSame DEF appVars, Clean, Counted

LEMMA WaitDsl ==
  ASSUME TypeInv, NEW p \in Apps, pc[p] = "wait"
  PROVE  LockDsl(p) \in Dsls
BY LockAddrType, ResponsibleAssumption DEF LockDsl, TypeInv, Asking

LEMMA TakeFacts ==
  ASSUME TypeInv, NEW d \in Dsls, NEW p \in Apps, Take(d, p)
  PROVE  /\ chan'[d][p] = NoMsg
         /\ \A e \in Dsls, q \in Apps : (e # d \/ q # p) => chan'[e][q] = chan[e][q]
BY DEF Take, TypeInv, TypeOK

\* A request leaves its slot and is answered.
LEMMA AnswerMsg ==
  ASSUME TypeInv, MsgInv, NEW d \in Dsls, NEW p \in Apps, Idle(d), IsRequest(chan[d][p]),
         Take(d, p), NEW x, resp' = [resp EXCEPT ![p] = x], UNCHANGED <<appVars, serving>>
  PROVE  MsgInv'
<1>1. Awaits(p, d, chan[d][p])
  BY DEF MsgInv, Requested
<1>2. /\ pc' = pc /\ resp \in [Apps -> {"NONE", "NO_CONFLICT", "CONFLICT"}]
      /\ \A q : /\ LockAddr(q)' = LockAddr(q) /\ LockType(q)' = LockType(q)
                /\ LockDsl(q)' = LockDsl(q)
  BY AskedKept DEF appVars, TypeInv, TypeOK
<1>3. Requested'
  <2> SUFFICES ASSUME NEW e \in Dsls, NEW q \in Apps, IsRequest(chan'[e][q])
               PROVE  /\ Awaits(q, e, chan[e][q])'
                      /\ Idle(e)' \/ serving'[e].app # q
    BY DEF Requested, IsRequest
  <2>1. e # d \/ q # p
    BY TakeFacts DEF IsRequest, NoMsg
  <2>2. chan'[e][q] = chan[e][q]
    BY <2>1, TakeFacts
  <2>3. Awaits(q, e, chan[e][q]) /\ (~Idle(e) => serving[e].app # q)
    BY <2>2 DEF MsgInv, Requested, IsRequest
  <2>4. q # p
    BY <1>1, <2>1, <2>3 DEF Awaits
  <2> QED
    BY <1>2, <2>2, <2>3, <2>4 DEF Awaits, Idle
<1>4. Served'
  <2> SUFFICES ASSUME NEW e \in Dsls, ~Idle(e)
               PROVE  Awaits(serving[e].app, e, serving[e])'
    BY DEF Served, Idle
  <2>1. PICK q \in Apps : q = serving[e].app /\ Awaits(q, e, serving[e])
    BY DEF MsgInv, Served, Idle, TypeInv, TypeOK, Job
  <2>2. q # p
    BY <1>1, <2>1 DEF MsgInv, Requested, Awaits
  <2> QED
    BY <1>2, <2>1, <2>2 DEF Awaits
<1>5. Answered'
  BY <1>1, <1>2 DEF MsgInv, Answered, Awaits
<1>6. Overtaken'
  <2> SUFFICES ASSUME NEW q \in Apps, pc[q] = "wait"
               PROVE  (chan[LockDsl(q)][q].type # "RMV_NODE")'
    BY <1>2 DEF Overtaken
  <2>1. chan[LockDsl(q)][q].type # "RMV_NODE" /\ LockDsl(q) \in Dsls
    BY WaitDsl DEF MsgInv, Overtaken
  <2> QED
    BY <1>2, <2>1, TakeFacts DEF NoMsg
<1> QED
  BY <1>3, <1>4, <1>5, <1>6, AskedKept DEF MsgInv

LEMMA MsgContend ==
  ASSUME TypeInv, MsgInv, NEW d \in Dsls, NEW p \in Apps, Contend(d, p)
  PROVE  MsgInv'
<1>1. /\ Idle(d) /\ IsRequest(chan[d][p]) /\ Take(d, p) /\ UNCHANGED <<appVars, resp>>
      /\ serving' = [serving EXCEPT ![d] =
                       [app |-> p, type |-> chan[d][p].type, addr |-> chan[d][p].addr]]
  BY DEF Contend
<1>2. Awaits(p, d, chan[d][p])
  BY <1>1 DEF MsgInv, Requested
<1>3. /\ pc' = pc /\ resp' = resp
      /\ \A q : /\ LockAddr(q)' = LockAddr(q) /\ LockType(q)' = LockType(q)
                /\ LockDsl(q)' = LockDsl(q)
  BY <1>1, AskedKept DEF appVars
<1>4. /\ serving'[d] = [app |-> p, type |-> chan[d][p].type, addr |-> chan[d][p].addr]
      /\ \A e \in Dsls \ {d} : serving'[e] = serving[e]
  BY <1>1 DEF TypeInv, TypeOK
<1>5. Requested'
  <2> SUFFICES ASSUME NEW e \in Dsls, NEW q \in Apps, IsRequest(chan'[e][q])
               PROVE  /\ Awaits(q, e, chan[e][q])'
                      /\ Idle(e)' \/ serving'[e].app # q
    BY DEF Requested, IsRequest
  <2>1. e # d \/ q # p
    BY <1>1, TakeFacts DEF IsRequest, NoMsg
  <2>2. chan'[e][q] = chan[e][q]
    BY <1>1, <2>1, TakeFacts
  <2>3. Awaits(q, e, chan[e][q]) /\ (~Idle(e) => serving[e].app # q)
    BY <2>2 DEF MsgInv, Requested, IsRequest
  <2>4. q # p
    BY <1>2, <2>1, <2>3 DEF Awaits
  <2>5. Awaits(q, e, chan[e][q])'
    BY <1>3, <2>2, <2>3 DEF Awaits
  <2>6. Idle(e)' \/ serving'[e].app # q
    BY <1>4, <2>3, <2>4 DEF Idle
  <2> QED
    BY <2>5, <2>6
<1>6. Served'
  <2> SUFFICES ASSUME NEW e \in Dsls, ~Idle(e)'
               PROVE  Awaits(serving[e].app, e, serving[e])'
    BY DEF Served
  <2>1. CASE e = d
    BY <1>2, <1>3, <1>4, <2>1 DEF Awaits
  <2>2. CASE e # d
    <3>1. Awaits(serving[e].app, e, serving[e]) /\ serving'[e] = serving[e]
      BY <1>4, <2>2 DEF MsgInv, Served, Idle
    <3> QED
      BY <1>3, <3>1 DEF Awaits
  <2> QED
    BY <2>1, <2>2
<1>7. Answered'
  BY <1>3 DEF MsgInv, Answered
<1>8. Overtaken'
  <2> SUFFICES ASSUME NEW q \in Apps, pc[q] = "wait"
               PROVE  (chan[LockDsl(q)][q].type # "RMV_NODE")'
    BY <1>3 DEF Overtaken
  <2>1. chan[LockDsl(q)][q].type # "RMV_NODE" /\ LockDsl(q) \in Dsls
    BY WaitDsl DEF MsgInv, Overtaken
  <2> QED
    BY <1>1, <1>3, <2>1, TakeFacts DEF NoMsg
<1> QED
  BY <1>1, <1>5, <1>6, <1>7, <1>8, AskedKept DEF MsgInv

LEMMA MsgGrantContended ==
  ASSUME TypeInv, MsgInv, NEW d \in Dsls, GrantContended(d)
  PROVE  MsgInv'
<1>1. PICK p \in Apps : p = serving[d].app
  BY DEF GrantContended, Idle, TypeInv, TypeOK, Job
<1>2. /\ Awaits(p, d, serving[d]) /\ UNCHANGED <<appVars, chan>>
      /\ resp' = [resp EXCEPT ![p] = "NO_CONFLICT"]
      /\ serving' = [serving EXCEPT ![d] = NoJob]
  BY <1>1 DEF GrantContended, Acquire, MsgInv, Served
<1>3. /\ pc' = pc
      /\ \A q : /\ LockAddr(q)' = LockAddr(q) /\ LockType(q)' = LockType(q)
                /\ LockDsl(q)' = LockDsl(q)
  BY <1>2, AskedKept DEF appVars
<1>4. /\ serving'[d] = NoJob /\ \A e \in Dsls \ {d} : serving'[e] = serving[e]
      /\ \A q \in Apps \ {p} : resp'[q] = resp[q]
  BY <1>2 DEF TypeInv, TypeOK
<1>5. Requested'
  <2> SUFFICES ASSUME NEW e \in Dsls, NEW q \in Apps, IsRequest(chan[e][q])
               PROVE  /\ Awaits(q, e, chan[e][q])'
                      /\ Idle(e)' \/ serving'[e].app # q
    BY <1>2 DEF Requested, IsRequest
  <2>1. Awaits(q, e, chan[e][q]) /\ (~Idle(e) => serving[e].app # q)
    BY DEF MsgInv, Requested
  <2>2. q # p
    BY <1>1, <1>2, <2>1 DEF Awaits, GrantContended
  <2>3. Awaits(q, e, chan[e][q])'
    BY <1>2, <1>3, <1>4, <2>1, <2>2 DEF Awaits
  <2>4. Idle(e)' \/ serving'[e].app # q
    BY <1>4, <2>1 DEF Idle
  <2> QED
    BY <2>3, <2>4
<1>6. Served'
  <2> SUFFICES ASSUME NEW e \in Dsls, ~Idle(e)'
               PROVE  Awaits(serving[e].app, e, serving[e])'
    BY DEF Served
  <2>1. e # d /\ serving'[e] = serving[e] /\ ~Idle(e)
    BY <1>4 DEF Idle
  <2>2. PICK q \in Apps : q = serving[e].app /\ Awaits(q, e, serving[e])
    BY <2>1 DEF MsgInv, Served, Idle, TypeInv, TypeOK, Job
  <2>3. q # p
    BY <1>2, <2>1, <2>2 DEF Awaits
  <2> QED
    BY <1>3, <1>4, <2>1, <2>2, <2>3 DEF Awaits
<1>7. Answered'
  BY <1>2, <1>3, <1>4 DEF MsgInv, Answered, Awaits
<1>8. Overtaken'
  BY <1>2, <1>3 DEF MsgInv, Overtaken
<1> QED
  BY <1>2, <1>5, <1>6, <1>7, <1>8, AskedKept DEF MsgInv

LEMMA MsgRemoveNode ==
  ASSUME TypeInv, MsgInv, NEW d \in Dsls, NEW p \in Apps, RemoveNode(d, p)
  PROVE  MsgInv'
<1>1. Take(d, p) /\ UNCHANGED <<appVars, resp, serving>>
  BY DEF RemoveNode
<1>2. /\ pc' = pc
      /\ \A q : /\ LockAddr(q)' = LockAddr(q) /\ LockType(q)' = LockType(q)
                /\ LockDsl(q)' = LockDsl(q)
  BY <1>1, AskedKept DEF appVars
<1>3. Requested'
  <2> SUFFICES ASSUME NEW e \in Dsls, NEW q \in Apps, IsRequest(chan'[e][q])
               PROVE  /\ Awaits(q, e, chan[e][q])'
                      /\ Idle(e)' \/ serving'[e].app # q
    BY DEF Requested, IsRequest
  <2>1. chan'[e][q] = chan[e][q]
    BY <1>1, TakeFacts DEF IsRequest, NoMsg
  <2>2. Awaits(q, e, chan[e][q]) /\ (~Idle(e) => serving[e].app # q)
    BY <2>1 DEF MsgInv, Requested, IsRequest
  <2> QED
    BY <1>1, <1>2, <2>1, <2>2 DEF Awaits, Idle
<1>4. Served'
  BY <1>1, <1>2 DEF MsgInv, Served, Awaits, Idle
<1>5. Answered'
  BY <1>1, <1>2 DEF MsgInv, Answered
<1>6. Overtaken'
  <2> SUFFICES ASSUME NEW q \in Apps, pc[q] = "wait"
               PROVE  (chan[LockDsl(q)][q].type # "RMV_NODE")'
    BY <1>2 DEF Overtaken
  <2>1. chan[LockDsl(q)][q].type # "RMV_NODE" /\ LockDsl(q) \in Dsls
    BY WaitDsl DEF MsgInv, Overtaken
  <2> QED
    BY <1>1, <1>2, <2>1, TakeFacts DEF NoMsg
<1> QED
  BY <1>1, <1>3, <1>4, <1>5, <1>6, AskedKept DEF MsgInv

\* A step that leaves the nodes and all messages alone.
LEMMA MsgKept ==
  ASSUME MsgInv, UNCHANGED <<appVars, chan, resp, serving>>
  PROVE  MsgInv'
<1>1. /\ pc' = pc
      /\ \A q : /\ LockAddr(q)' = LockAddr(q) /\ LockType(q)' = LockType(q)
                /\ LockDsl(q)' = LockDsl(q)
  BY AskedKept DEF appVars
<1>2. Requested' /\ Served' /\ Answered' /\ Overtaken'
  BY <1>1 DEF MsgInv, Requested, Served, Answered, Overtaken, Awaits, Idle
<1> QED
  BY <1>2, AskedKept DEF MsgInv

LEMMA MsgStep ==
  ASSUME TypeInv, MsgInv, [Next]_vars
  PROVE  MsgInv'
<1>1. CASE UNCHANGED vars
  BY <1>1, MsgKept DEF vars, dslVars
<1>2. CASE \E p \in Apps : Begin(p) \/ AppStep(p)
  BY <1>2, MsgBegin, MsgRunning, MsgLoadOwn, MsgStore, MsgContact, MsgNoticeAbort, MsgSend,
     MsgGranted, MsgRefused, MsgSetPersisting, MsgPersistEntry, MsgSetCommitted,
     MsgSendRelease, MsgCommitted, MsgRetry DEF AppStep
<1>3. CASE \E d \in Dsls : DslNext(d)
  <2> SUFFICES ASSUME NEW d \in Dsls, DslNext(d)
               PROVE  MsgInv'
    BY <1>3
  <2>1. CASE AbortVictim(d)
    BY <2>1, MsgKept DEF AbortVictim
  <2>2. CASE GrantContended(d)
    BY <2>2, MsgGrantContended
  <2>3. ASSUME NEW p \in Apps, Grant(d, p)
        PROVE  MsgInv'
    BY <2>3, AnswerMsg DEF Grant, Acquire
  <2>4. ASSUME NEW p \in Apps, Refuse(d, p)
        PROVE  MsgInv'
    BY <2>4, AnswerMsg DEF Refuse
  <2> QED
    BY <2>1, <2>2, <2>3, <2>4, MsgContend, MsgRemoveNode DEF DslNext, Serve
<1> QED
  BY <1>1, <1>2, <1>3 DEF Next, Terminated

-----------------------------------------------------------------------------
(* The locks at the DSL nodes.                                               *)

\* A DSL node gets, and serves, requests for its own words only.
LEMMA OwnWord ==
  ASSUME TypeInv, MsgInv, NEW d \in Dsls
  PROVE  /\ \A p \in Apps : IsRequest(chan[d][p]) =>
              /\ chan[d][p] \in Request /\ chan[d][p].addr \in Addrs
              /\ Responsible[chan[d][p].addr] = d
         /\ ~Idle(d) => /\ serving[d] \in Job /\ serving[d].addr \in Addrs
                        /\ serving[d].app \in Apps /\ Responsible[serving[d].addr] = d
<1>1. ASSUME NEW p \in Apps, IsRequest(chan[d][p])
      PROVE  /\ chan[d][p] \in Request /\ chan[d][p].addr \in Addrs
             /\ Responsible[chan[d][p].addr] = d
  BY <1>1, MessageType DEF TypeInv, MsgInv, Requested, Awaits, LockDsl, Request
<1>2. ~Idle(d) => /\ serving[d] \in Job /\ serving[d].addr \in Addrs
                  /\ serving[d].app \in Apps /\ Responsible[serving[d].addr] = d
  BY DEF TypeInv, TypeOK, Idle, Job, MsgInv, Served, Awaits, LockDsl
<1> QED
  BY <1>1, <1>2

\* Locks that go disturb nobody's exclusion.
LEMMA FewerLocks ==
  ASSUME TypeOK, Excl, NEW d \in Dsls, NEW v, DeleteNode(d, v)
  PROVE  /\ Excl'
         /\ \A a \in Addrs : /\ writer'[a] \in {writer[a], NoNode}
                             /\ readers'[a] \subseteq readers[a]
         /\ \A a \in Addrs : Responsible[a] = d => v \notin readers'[a] /\ (writer'[a] = v => v = NoNode)
<1>1. \A a \in Addrs : /\ writer'[a] = IF Responsible[a] = d /\ writer[a] = v THEN NoNode ELSE writer[a]
                       /\ readers'[a] = IF Responsible[a] = d THEN readers[a] \ {v} ELSE readers[a]
  BY DEF DeleteNode
<1> QED
  BY <1>1 DEF Excl

\* A node that is granted a lock without a conflict excludes, or joins, nobody.
LEMMA NoConflict ==
  ASSUME NEW p \in Apps, NEW m \in Request, Conflict(p, m) = "NO_CONFLICT"
  PROVE  /\ m.type = "LOAD" => writer[m.addr] = NoNode
         /\ m.type = "STORE" => writer[m.addr] \in {NoNode, p} /\ readers[m.addr] \subseteq {p}
<1>1. m.type \in {"LOAD", "STORE"}
  BY DEF Request
<1> QED
  BY <1>1 DEF Conflict

\* The holders a winner has aborted are all those in its way.
LEMMA WinnerEvicts ==
  ASSUME TypeOK, Excl, NEW p \in Apps, NEW m \in Request, NEW t \in [Apps -> Nat],
         Conflict(p, m) # "NO_CONFLICT", Wins(t, p, m)
  PROVE  LET V == Defenders(p, m) \ {p} IN
         /\ writer[m.addr] \in V \cup {NoNode} \/ (m.type = "STORE" /\ writer[m.addr] = p)
         /\ m.type = "STORE" => readers[m.addr] \subseteq V \cup {p}
<1>1. m.type \in {"LOAD", "STORE"} /\ m.addr \in Addrs
  BY DEF Request
<1>2. CASE Conflict(p, m) = "WRITE_AFTER_READ"
  <2>1. m.type = "STORE" /\ writer[m.addr] \in {NoNode, p}
    BY <1>1, <1>2 DEF Conflict
  <2> QED
    BY <1>2, <2>1 DEF Defenders
<1>3. CASE Conflict(p, m) # "WRITE_AFTER_READ"
  <2>1. Defenders(p, m) = {writer[m.addr]} /\ Beats(t, p, writer[m.addr])
    BY <1>3 DEF Defenders, Wins
  <2>2. writer[m.addr] # NoNode
    BY <1>1, <1>3 DEF Conflict
  <2>3. writer[m.addr] # p
    <3>1. t[p] \in Nat /\ p \in Nat
      BY NodesAssumption
    <3>2. ~Beats(t, p, p)
      BY <3>1 DEF Beats
    <3> QED
      BY <2>1, <3>2
  <2>4. readers[m.addr] \subseteq {writer[m.addr]}
    BY <1>1, <2>2 DEF Excl
  <2> QED
    BY <2>1, <2>3, <2>4
<1> QED
  BY <1>2, <1>3

LEMMA LockGrant ==
  ASSUME TypeInv, MsgInv, LockInv, NEW d \in Dsls, NEW p \in Apps, Grant(d, p)
  PROVE  LockInv'
<1> DEFINE m == chan[d][p]
<1>1. /\ Idle(d) /\ Conflict(p, m) = "NO_CONFLICT" /\ Acquire(p, m)
      /\ UNCHANGED <<serving, victims>> /\ IsRequest(m)
  BY DEF Grant
<1>2. m \in Request /\ m.addr \in Addrs /\ Responsible[m.addr] = d /\ m.type \in {"LOAD", "STORE"}
  BY <1>1, OwnWord DEF Request
<1>3. /\ \A a \in Addrs \ {m.addr} : readers'[a] = readers[a] /\ writer'[a] = writer[a]
      /\ m.type = "LOAD" => /\ readers'[m.addr] = readers[m.addr] \cup {p}
                            /\ writer'[m.addr] = writer[m.addr]
      /\ m.type = "STORE" => readers'[m.addr] = readers[m.addr] /\ writer'[m.addr] = p
  BY <1>1, <1>2 DEF Acquire, TypeInv, TypeOK
<1>4. Excl'
  BY <1>1, <1>2, <1>3, NoConflict DEF LockInv, Excl
<1>5. Evicting'
  <2> SUFFICES ASSUME NEW e \in Dsls, ~Idle(e)
               PROVE  /\ \/ writer'[serving[e].addr] \in victims[e] \cup {NoNode}
                         \/ serving[e].type = "STORE" /\ writer'[serving[e].addr] = serving[e].app
                      /\ serving[e].type = "STORE" =>
                           readers'[serving[e].addr] \subseteq victims[e] \cup {serving[e].app}
    BY <1>1 DEF Evicting, Idle
  <2>1. serving[e].addr \in Addrs /\ serving[e].addr # m.addr
    BY <1>1, <1>2, OwnWord
  <2> QED
    BY <1>3, <2>1 DEF LockInv, Evicting
<1> QED
  BY <1>4, <1>5 DEF LockInv

\* A step that takes all locks of v at d from the table and starts no job
LEMMA LockDelete ==
  ASSUME TypeInv, MsgInv, LockInv, NEW d \in Dsls, NEW v, DeleteNode(d, v), v # NoNode,
         UNCHANGED serving,
         victims' = victims \/ victims' = [victims EXCEPT ![d] = @ \ {v}]
  PROVE  LockInv'
<1>1. Excl'
  BY FewerLocks DEF TypeInv, LockInv
<1>2. Evicting'
  <2> SUFFICES ASSUME NEW e \in Dsls, ~Idle(e)
               PROVE  /\ \/ writer'[serving[e].addr] \in victims'[e] \cup {NoNode}
                         \/ serving[e].type = "STORE" /\ writer'[serving[e].addr] = serving[e].app
                      /\ serving[e].type = "STORE" =>
                           readers'[serving[e].addr] \subseteq victims'[e] \cup {serving[e].app}
    BY DEF Evicting, Idle
  <2> DEFINE a == serving[e].addr
  <2>1. a \in Addrs /\ Responsible[a] = e
    BY OwnWord
  <2>2. writer'[a] \in {writer[a], NoNode} /\ readers'[a] \subseteq readers[a]
    BY <2>1, FewerLocks DEF TypeInv, LockInv
  <2>3. /\ writer[a] \in victims[e] \cup {NoNode}
             \/ (serving[e].type = "STORE" /\ writer[a] = serving[e].app)
        /\ serving[e].type = "STORE" => readers[a] \subseteq victims[e] \cup {serving[e].app}
    BY DEF LockInv, Evicting
  <2>4. CASE victims'[e] = victims[e]
    BY <2>2, <2>3, <2>4
  <2>5. CASE victims'[e] # victims[e]
    <3>1. e = d /\ victims'[e] = victims[e] \ {v}
      BY <2>5 DEF TypeInv, TypeOK
    <3>2. v \notin readers'[a] /\ writer'[a] # v
      BY <2>1, <3>1, FewerLocks DEF TypeInv, LockInv
    <3> QED
      BY <2>2, <2>3, <3>1, <3>2
  <2> QED
    BY <2>4, <2>5
<1> QED
  BY <1>1, <1>2 DEF LockInv

LEMMA LockContend ==
  ASSUME TypeInv, MsgInv, LockInv, NEW d \in Dsls, NEW p \in Apps, Contend(d, p)
  PROVE  LockInv'
<1> DEFINE m == chan[d][p]
<1>1. /\ Idle(d) /\ Conflict(p, m) # "NO_CONFLICT" /\ Wins(Noted(d, p), p, m)
      /\ UNCHANGED <<readers, writer>> /\ IsRequest(m)
  BY DEF Contend
<1>2. m \in Request /\ m.addr \in Addrs /\ Noted(d, p) \in [Apps -> Nat]
  BY <1>1, OwnWord, NotedType DEF TypeInv
<1>3. /\ serving'[d] = [app |-> p, type |-> m.type, addr |-> m.addr]
      /\ victims'[d] = Defenders(p, m) \ {p}
      /\ \A e \in Dsls \ {d} : serving'[e] = serving[e] /\ victims'[e] = victims[e]
  BY DEF Contend, TypeInv, TypeOK
<1>4. /\ writer[m.addr] \in victims'[d] \cup {NoNode} \/ (m.type = "STORE" /\ writer[m.addr] = p)
      /\ m.type = "STORE" => readers[m.addr] \subseteq victims'[d] \cup {p}
  BY <1>1, <1>2, <1>3, WinnerEvicts DEF TypeInv, LockInv
<1>5. Evicting'
  <2> SUFFICES ASSUME NEW e \in Dsls, serving'[e] # NoJob
               PROVE  /\ \/ writer[serving'[e].addr] \in victims'[e] \cup {NoNode}
                         \/ serving'[e].type = "STORE" /\ writer[serving'[e].addr] = serving'[e].app
                      /\ serving'[e].type = "STORE" =>
                           readers[serving'[e].addr] \subseteq victims'[e] \cup {serving'[e].app}
    BY <1>1 DEF Evicting, Idle
  <2>1. CASE e = d
    BY <1>3, <1>4, <2>1
  <2>2. CASE e # d
    BY <1>3, <2>2 DEF LockInv, Evicting, Idle
  <2> QED
    BY <2>1, <2>2
<1> QED
  BY <1>1, <1>5 DEF LockInv, Excl

LEMMA LockGrantContended ==
  ASSUME TypeInv, MsgInv, LockInv, NEW d \in Dsls, GrantContended(d)
  PROVE  LockInv'
<1>1. PICK j \in Job : j = serving[d]
  BY DEF GrantContended, TypeInv, TypeOK, Idle
<1>2. /\ ~Idle(d) /\ victims[d] = {} /\ Acquire(j.app, j) /\ victims' = victims
      /\ serving'[d] = NoJob /\ \A e \in Dsls \ {d} : serving'[e] = serving[e]
  BY <1>1 DEF GrantContended, TypeInv, TypeOK
<1>3. j.app \in Apps /\ j.addr \in Addrs /\ Responsible[j.addr] = d /\ j.type \in {"LOAD", "STORE"}
  BY <1>1, <1>2, OwnWord DEF Job
<1>4. /\ \A a \in Addrs \ {j.addr} : readers'[a] = readers[a] /\ writer'[a] = writer[a]
      /\ j.type = "LOAD" => /\ readers'[j.addr] = readers[j.addr] \cup {j.app}
                            /\ writer'[j.addr] = writer[j.addr]
      /\ j.type = "STORE" => readers'[j.addr] = readers[j.addr] /\ writer'[j.addr] = j.app
  BY <1>2, <1>3 DEF Acquire, TypeInv, TypeOK
<1>5. /\ j.type = "LOAD" => writer[j.addr] = NoNode
      /\ j.type = "STORE" => readers[j.addr] \subseteq {j.app}
  BY <1>1, <1>2, <1>3 DEF LockInv, Evicting
<1>6. Excl'
  BY <1>3, <1>4, <1>5 DEF LockInv, Excl
<1>7. Evicting'
  <2> SUFFICES ASSUME NEW e \in Dsls, e # d, ~Idle(e)
               PROVE  /\ \/ writer'[serving[e].addr] \in victims[e] \cup {NoNode}
                         \/ serving[e].type = "STORE" /\ writer'[serving[e].addr] = serving[e].app
                      /\ serving[e].type = "STORE" =>
                           readers'[serving[e].addr] \subseteq victims[e] \cup {serving[e].app}
    BY <1>2 DEF Evicting, Idle
  <2>1. serving[e].addr \in Addrs /\ serving[e].addr # j.addr
    BY <1>3, OwnWord
  <2> QED
    BY <1>4, <2>1 DEF LockInv, Evicting
<1> QED
  BY <1>6, <1>7 DEF LockInv

\* The locks change with the steps of the DSL nodes only.
LEMMA LockKept ==
  ASSUME LockInv, UNCHANGED dslVars
  PROVE  LockInv'
BY DEF LockInv, Excl, Evicting, Idle, dslVars

LEMMA LockStep ==
  ASSUME TypeInv, MsgInv, LockInv, [Next]_vars
  PROVE  LockInv'
<1>1. CASE UNCHANGED vars
  BY <1>1, LockKept DEF vars
<1>2. CASE \E p \in Apps : Begin(p) \/ AppStep(p)
  BY <1>2, AppElsewhere, LockKept
<1>3. CASE \E d \in Dsls : DslNext(d)
  <2> SUFFICES ASSUME NEW d \in Dsls, DslNext(d)
               PROVE  LockInv'
    BY <1>3
  <2>1. CASE AbortVictim(d)
    <3>1. victims[d] \in SUBSET Nat /\ victims[d] # {} /\ victims[d] \subseteq Apps
      BY <2>1, NodesAssumption DEF AbortVictim, TypeInv, TypeOK
    <3>2. Min(victims[d]) \in Apps
      BY <3>1, MinIsIn
    <3> QED
      BY <2>1, <3>2, NodesAssumption, LockDelete DEF AbortVictim
  <2>2. CASE GrantContended(d)
    BY <2>2, LockGrantContended
  <2>3. ASSUME NEW p \in Apps, Refuse(d, p) \/ RemoveNode(d, p)
        PROVE  LockInv'
    BY <2>3, NodesAssumption, LockDelete DEF Refuse, RemoveNode
  <2> QED
    BY <2>1, <2>2, <2>3, LockGrant, LockContend DEF DslNext, Serve
<1> QED
  BY <1>1, <1>2, <1>3 DEF Next, Terminated

-----------------------------------------------------------------------------
(* The locks an attempt relies on.                                           *)

\* HoldInv, for one node.
HoldAt(p) == Live(p) =>
  /\ \A a \in Relied(p) : chan[Responsible[a]][p].type # "RMV_NODE"
  /\ pc[p] = "wait" /\ resp[p] = "NO_CONFLICT" =>
       IF LockType(p) = "LOAD" THEN p \in readers[LockAddr(p)] ELSE writer[LockAddr(p)] = p
  /\ \A a \in ReadAddrs(p) : p \in readers[a] \/ writer[a] = p
  /\ \A a \in LockedAddrs(p) : writer[a] = p

LEMMA HoldNodewise == /\ HoldInv <=> \A p \in Apps : HoldAt(p)
                      /\ HoldInv' <=> \A p \in Apps : HoldAt(p)'
BY DEF HoldInv, HoldAt, NotReleasing, Promised, HoldsLocks

LEMMA ReliedType ==
  ASSUME TypeInv, NEW p \in Apps
  PROVE  /\ ReadAddrs(p) \subseteq Addrs /\ WrittenAddrs(p) \subseteq Addrs
         /\ Counted => LockedAddrs(p) \subseteq WrittenAddrs(p)
<1>1. ReadAddrs(p) \subseteq Addrs
  BY DEF TypeInv, TypeOK, ReadAddrs
<1>2. wset[p] \in Seq(Entry) /\ nw[p] \in Nat
  BY DEF TypeInv, TypeOK
<1>3. WrittenAddrs(p) \subseteq Addrs
  <2>1. \A i \in DOMAIN wset[p] : wset[p][i] \in Entry
    BY <1>2
  <2> QED
    BY <2>1 DEF WrittenAddrs, Entry
<1>4. ASSUME Counted
      PROVE  LockedAddrs(p) \subseteq WrittenAddrs(p)
  BY <1>2, <1>4 DEF LockedAddrs, WrittenAddrs, Counted
<1> QED
  BY <1>1, <1>3, <1>4

\* What a node relies on depends on its own variables.
LEMMA ReliedSame ==
  ASSUME NEW q, pc'[q] = pc[q], body'[q] = body[q], ip'[q] = ip[q], nw'[q] = nw[q],
         wset'[q] = wset[q], reads'[q] = reads[q]
  PROVE  /\ ReadAddrs(q)' = ReadAddrs(q) /\ LockedAddrs(q)' = LockedAddrs(q)
         /\ Relied(q)' = Relied(q)
BY DEF ReadAddrs, LockedAddrs, WrittenAddrs, Relied

\* A step of p concerns what p relies on.
LEMMA HoldStepOf ==
  ASSUME TypeInv, MsgInv, HoldInv, NEW p \in Apps, Begin(p) \/ AppStep(p), HoldAt(p)'
  PROVE  HoldInv'
<1>1. Elsewhere(p) /\ UNCHANGED dslVars
  BY AppElsewhere
<1> SUFFICES ASSUME NEW q \in Apps, q # p
             PROVE  HoldAt(q)'
  BY HoldNodewise
<1>2. HoldAt(q)
  BY HoldNodewise
<1>3. /\ ReadAddrs(q)' = ReadAddrs(q) /\ LockedAddrs(q)' = LockedAddrs(q)
      /\ Relied(q)' = Relied(q)
      /\ LockAddr(q)' = LockAddr(q) /\ LockType(q)' = LockType(q)
  BY <1>1, ReliedSame, AskedSame DEF Elsewhere
<1>4. /\ Live(q)' = Live(q) /\ pc'[q] = pc[q] /\ resp'[q] = resp[q]
      /\ readers' = readers /\ writer' = writer
  BY <1>1 DEF Elsewhere, Live, dslVars
<1>5. \A a \in Relied(q) : Responsible[a] \in Dsls
  BY ReliedType, ResponsibleAssumption DEF Relied, MsgInv
<1>6. \A a \in Relied(q) : chan'[Responsible[a]][q] = chan[Responsible[a]][q]
  BY <1>1, <1>5 DEF Elsewhere
<1> QED
  BY <1>2, <1>3, <1>4, <1>6 DEF HoldAt

\* An attempt that is over relies on nothing.
LEMMA HoldOver ==
  ASSUME TypeInv, MsgInv, HoldInv, NEW p \in Apps, Begin(p) \/ AppStep(p),
         pc'[p] \notin {"body", "send", "wait", "persist"}
  PROVE  HoldInv'
BY HoldStepOf DEF HoldAt, Live

LEMMA HoldRunning ==
  ASSUME TypeInv, MsgInv, HoldInv, NEW p \in Apps, Running(p)
  PROVE  HoldInv'
<1>1. reads'[p] = {} /\ wset'[p] = <<>> /\ nw'[p] = 0 /\ pc'[p] = "body"
  BY DEF Running, MsgInv, Clean, TypeInv, TypeOK
<1>2. ReadAddrs(p)' = {} /\ LockedAddrs(p)' = {}
  BY <1>1 DEF ReadAddrs, LockedAddrs, WrittenAddrs
<1>3. HoldAt(p)'
  BY <1>1, <1>2 DEF HoldAt, Relied
<1> QED
  BY <1>3, HoldStepOf DEF AppStep

\* A step after which p is live if it was, relies on the same locks and awaits no reply.
LEMMA HoldSame ==
  ASSUME TypeInv, MsgInv, HoldInv, NEW p \in Apps, Begin(p) \/ AppStep(p),
         Live(p)' => Live(p), ReadAddrs(p)' = ReadAddrs(p), LockedAddrs(p)' = LockedAddrs(p),
         pc'[p] # "wait" \/ resp'[p] # "NO_CONFLICT",
         \A d \in Dsls : chan'[d][p].type = "RMV_NODE" => chan[d][p].type = "RMV_NODE"
  PROVE  HoldInv'
<1>1. HoldAt(p) /\ readers' = readers /\ writer' = writer
  BY HoldNodewise, AppElsewhere DEF dslVars
<1>2. \A a \in Relied(p) : Responsible[a] \in Dsls
  BY ReliedType, ResponsibleAssumption DEF Relied, MsgInv
<1>3. HoldAt(p)'
  BY <1>1, <1>2 DEF HoldAt, Relied
<1> QED
  BY <1>3, HoldStepOf

LEMMA HoldLoadOwn ==
  ASSUME TypeInv, MsgInv, HoldInv, NEW p \in Apps, LoadOwn(p)
  PROVE  HoldInv'
<1>1. /\ (Live(p)' => Live(p)) /\ pc'[p] = "body" /\ chan' = chan
  BY DEF LoadOwn, Live
<1>2. ReadAddrs(p)' = ReadAddrs(p) /\ LockedAddrs(p)' = LockedAddrs(p)
  BY DEF LoadOwn, ReadAddrs, LockedAddrs, WrittenAddrs
<1> QED
  BY <1>1, <1>2, HoldSame DEF AppStep

\* A buffered store is not locked yet.
LEMMA StoreRelied ==
  ASSUME TypeInv, MsgInv, NEW p \in Apps, Store(p)
  PROVE  ReadAddrs(p)' = ReadAddrs(p) /\ LockedAddrs(p)' = LockedAddrs(p)
<1>1. pc[p] = "body" /\ pc'[p] = "body" /\ ReadAddrs(p)' = ReadAddrs(p)
  BY DEF Store, ReadAddrs
<1>2. body'[p].pub /\ body[p].pub
  <2>1. ip[p] \in Stores(body[p]) /\ body[p].ops[ip[p]].op = "STORE"
    BY DEF Store, BufferedStore, BodyDone, Op, Stores, TypeInv, TypeOK, Transactions
  <2> QED
    BY <2>1 DEF TypeInv, TypeOK, Transactions, Store
<1>3. LockedAddrs(p)' = LockedAddrs(p)
  <2>1. /\ wset[p] \in Seq(Entry) /\ nw[p] \in Nat /\ nw[p] =< Len(wset[p]) /\ nw' = nw
        /\ wset'[p] = Append(wset[p], [addr |-> Op(p).addr, val |-> <<p, ntx[p] + 1>>])
    BY DEF Store, TypeInv, TypeOK, MsgInv, Counted
  <2>2. \A i \in 1 .. nw[p] : wset'[p][i] = wset[p][i]
    BY <2>1
  <2>3. /\ LockedAddrs(p) = {wset[p][i].addr : i \in 1 .. nw[p]}
        /\ LockedAddrs(p)' = {wset'[p][i].addr : i \in 1 .. nw[p]}
    BY <1>1, <1>2, <2>1 DEF LockedAddrs
  <2> QED
    BY <2>2, <2>3
<1> QED
  BY <1>1, <1>3

LEMMA HoldStore ==
  ASSUME TypeInv, MsgInv, HoldInv, NEW p \in Apps, Store(p)
  PROVE  HoldInv'
<1>1. (Live(p)' => Live(p)) /\ pc'[p] = "body" /\ chan' = chan
  BY DEF Store, Live
<1> QED
  BY <1>1, StoreRelied, HoldSame DEF AppStep

LEMMA HoldContact ==
  ASSUME TypeInv, MsgInv, HoldInv, NEW p \in Apps, Contact(p)
  PROVE  HoldInv'
<1>1. /\ (Live(p)' => Live(p)) /\ pc'[p] = "send" /\ pc[p] = "body" /\ chan' = chan
  BY DEF Contact, Live, TypeInv, TypeOK
<1>2. ReadAddrs(p)' = ReadAddrs(p) /\ LockedAddrs(p)' = LockedAddrs(p)
  BY <1>1 DEF Contact, ReadAddrs, LockedAddrs, WrittenAddrs
<1> QED
  BY <1>1, <1>2, HoldSame DEF AppStep

LEMMA HoldSend ==
  ASSUME TypeInv, MsgInv, HoldInv, NEW p \in Apps, Send(p)
  PROVE  HoldInv'
<1>1. /\ (Live(p)' => Live(p)) /\ pc'[p] = "wait" /\ pc[p] = "send" /\ resp'[p] = "NONE"
  BY DEF Send, Live, TypeInv, TypeOK, MsgInv, Answered
<1>2. ReadAddrs(p)' = ReadAddrs(p) /\ LockedAddrs(p)' = LockedAddrs(p)
  BY <1>1 DEF Send, ReadAddrs, LockedAddrs, WrittenAddrs
<1>3. \A d \in Dsls : chan'[d][p].type = "RMV_NODE" => chan[d][p].type = "RMV_NODE"
  BY DEF Send, TypeInv, TypeOK, LockType
<1> QED
  BY <1>1, <1>2, <1>3, HoldSame DEF AppStep

\* A reply that grants a lock adds its word to those the attempt relies on.
LEMMA GrantedRelied ==
  ASSUME TypeInv, MsgInv, NEW p \in Apps, Granted(p)
  PROVE  /\ ReadAddrs(p)' \subseteq ReadAddrs(p) \cup {LockAddr(p)}
         /\ \/ LockedAddrs(p)' \subseteq LockedAddrs(p)
            \/ LockedAddrs(p)' \subseteq LockedAddrs(p) \cup {LockAddr(p)} /\ LockType(p) = "STORE"
<1> DEFINE a == LockAddr(p)
<1>1. pc[p] = "wait" /\ pc'[p] = "body" /\ body' = body
  BY DEF Granted, TypeInv, TypeOK
<1>2. NeedsLock(p)
  BY <1>1 DEF TypeInv, Asking
<1>3. ReadAddrs(p)' \subseteq ReadAddrs(p) \cup {a}
  <2>1. CASE BodyDone(p)
    BY <2>1 DEF Granted, ReadAddrs
  <2>2. CASE ~BodyDone(p)
    <3>1. reads'[p] = reads[p] \cup {<<a, mem[a]>>}
      BY <2>2 DEF Granted, TypeInv, TypeOK
    <3> QED
      BY <2>2, <3>1 DEF ReadAddrs
  <2> QED
    BY <2>1, <2>2
<1>4. \/ LockedAddrs(p)' \subseteq LockedAddrs(p)
      \/ LockedAddrs(p)' \subseteq LockedAddrs(p) \cup {a} /\ LockType(p) = "STORE"
  <2>1. /\ wset[p] \in Seq(Entry) /\ nw[p] \in Nat /\ nw[p] =< Len(wset[p])
    BY DEF TypeInv, TypeOK, MsgInv, Counted
  <2>2. CASE BodyDone(p)
    <3>1. /\ body[p].pub /\ wset' = wset /\ nw'[p] = nw[p] + 1 /\ a = wset[p][nw[p] + 1].addr
          /\ LockType(p) = "STORE"
      BY <1>2, <2>2 DEF Granted, NeedsLock, LocksMissing, LockAddr, LockType, TypeInv, TypeOK
    <3>2. /\ LockedAddrs(p) = {wset[p][i].addr : i \in 1 .. nw[p]}
          /\ LockedAddrs(p)' = {wset[p][i].addr : i \in 1 .. nw[p] + 1}
      BY <1>1, <3>1 DEF LockedAddrs
    <3> QED
      BY <2>1, <3>1, <3>2
  <2>3. CASE ~BodyDone(p) /\ Op(p).op = "LOAD"
    <3>1. UNCHANGED <<wset, nw>>
      BY <2>3 DEF Granted
    <3> QED
      BY <1>1, <3>1 DEF LockedAddrs, WrittenAddrs
  <2>4. CASE ~BodyDone(p) /\ Op(p).op # "LOAD"
    <3>1. ip[p] \in Stores(body[p]) /\ body[p].ops[ip[p]].op # "STORE"
      BY <1>2, <2>4, OpType DEF NeedsLock, BufferedStore, BodyDone, Op, Stores, Operation,
         TypeInv, TypeOK, Transactions
    <3>2. ~body[p].pub /\ LockType(p) = "STORE"
      BY <2>4, <3>1 DEF TypeInv, TypeOK, Transactions, LockType
    <3>3. wset' = [wset EXCEPT ![p] = Append(@, [addr |-> a, val |-> <<p, ntx[p] + 1>>])]
      BY <2>4 DEF Granted
    <3>4. wset'[p] = Append(wset[p], [addr |-> a, val |-> <<p, ntx[p] + 1>>])
      BY <3>3 DEF TypeInv, TypeOK
    <3>5. WrittenAddrs(p)' \subseteq WrittenAddrs(p) \cup {a}
      BY <2>1, <3>4 DEF WrittenAddrs
    <3> QED
      BY <1>1, <3>2, <3>5 DEF LockedAddrs
  <2> QED
    BY <2>2, <2>3, <2>4
<1> QED
  BY <1>3, <1>4

LEMMA HoldGranted ==
  ASSUME TypeInv, MsgInv, HoldInv, NEW p \in Apps, Granted(p)
  PROVE  HoldInv'
<1> DEFINE a == LockAddr(p)
<1>1. /\ pc[p] = "wait" /\ resp[p] = "NO_CONFLICT" /\ pc'[p] = "body"
      /\ (Live(p)' => Live(p)) /\ UNCHANGED <<chan, readers, writer, body>>
  BY DEF Granted, Live, TypeInv, TypeOK, dslVars
<1>2. NeedsLock(p) /\ a \in Addrs /\ chan[Responsible[a]][p].type # "RMV_NODE"
  BY <1>1, LockAddrType DEF TypeInv, Asking, MsgInv, Overtaken, LockDsl
<1>3. HoldAt(p)'
  <2> SUFFICES ASSUME Live(p)'
               PROVE  /\ \A b \in Relied(p)' : chan[Responsible[b]][p].type # "RMV_NODE"
                      /\ \A b \in ReadAddrs(p)' : p \in readers[b] \/ writer[b] = p
                      /\ \A b \in LockedAddrs(p)' : writer[b] = p
    BY <1>1 DEF HoldAt
  <2>1. HoldAt(p) /\ Live(p)
    BY <1>1, HoldNodewise
  <2>2. IF LockType(p) = "LOAD" THEN p \in readers[a] ELSE writer[a] = p
    BY <1>1, <2>1 DEF HoldAt
  <2>3. \A b \in Relied(p)' : b = a \/ b \in Relied(p)
    BY GrantedRelied DEF Relied
  <2>4. \A b \in Relied(p)' : chan[Responsible[b]][p].type # "RMV_NODE"
    BY <1>2, <2>1, <2>3 DEF HoldAt
  <2>5. \A b \in ReadAddrs(p)' : p \in readers[b] \/ writer[b] = p
    BY GrantedRelied, <2>1, <2>2 DEF HoldAt
  <2>6. \A b \in LockedAddrs(p)' : writer[b] = p
    BY GrantedRelied, <2>1, <2>2 DEF HoldAt
  <2> QED
    BY <2>4, <2>5, <2>6
<1> QED
  BY <1>3, HoldStepOf DEF AppStep

\* Who is ready to persist has locked all it will write.
LEMMA PersistingRelied ==
  ASSUME TypeInv, MsgInv, Unabortable, NEW p \in Apps, SetPersisting(p)
  PROVE  /\ Live(p) /\ pc'[p] = "persist" /\ chan' = chan
         /\ ReadAddrs(p)' = ReadAddrs(p) /\ LockedAddrs(p)' = LockedAddrs(p)
<1>1. Live(p) /\ pc'[p] = "persist" /\ pc[p] = "body" /\ chan' = chan
  BY DEF SetPersisting, Live, TypeInv, TypeOK, MsgInv, Answered, Unabortable, MayPersist, Aborted
<1>2. ReadAddrs(p)' = ReadAddrs(p) /\ LockedAddrs(p)' = WrittenAddrs(p)
  BY <1>1 DEF SetPersisting, ReadAddrs, LockedAddrs, WrittenAddrs
<1>3. LockedAddrs(p) = WrittenAddrs(p)
  <2>1. wset[p] \in Seq(Entry) /\ nw[p] \in Nat /\ nw[p] =< Len(wset[p])
    BY DEF TypeInv, TypeOK, MsgInv, Counted
  <2>2. CASE body[p].pub
    <3>1. nw[p] = Len(wset[p]) /\ DOMAIN wset[p] = 1 .. Len(wset[p])
      BY <2>1, <2>2 DEF SetPersisting, ReadyToPersist, LocksMissing
    <3> QED
      BY <1>1, <2>2, <3>1 DEF LockedAddrs, WrittenAddrs
  <2>3. CASE ~body[p].pub
    BY <2>3 DEF LockedAddrs
  <2> QED
    BY <2>2, <2>3
<1> QED
  BY <1>1, <1>2, <1>3

LEMMA HoldSetPersisting ==
  ASSUME TypeInv, MsgInv, HoldInv, Unabortable, NEW p \in Apps, SetPersisting(p)
  PROVE  HoldInv'
BY PersistingRelied, HoldSame DEF AppStep

LEMMA HoldPersistEntry ==
  ASSUME TypeInv, MsgInv, HoldInv, NEW p \in Apps, PersistEntry(p)
  PROVE  HoldInv'
<1>1. /\ (Live(p)' => Live(p)) /\ pc'[p] = "persist" /\ pc[p] = "persist" /\ chan' = chan
  BY DEF PersistEntry, Live
<1>2. ReadAddrs(p)' = ReadAddrs(p) /\ LockedAddrs(p)' = LockedAddrs(p)
  BY <1>1 DEF PersistEntry, ReadAddrs, LockedAddrs, WrittenAddrs
<1> QED
  BY <1>1, <1>2, HoldSame DEF AppStep

LEMMA HoldApp ==
  ASSUME TypeInv, MsgInv, HoldInv, Unabortable, NEW p \in Apps, Begin(p) \/ AppStep(p)
  PROVE  HoldInv'
<1>1. CASE Begin(p) \/ NoticeAbort(p) \/ Refused(p) \/ SetCommitted(p) \/ SendRelease(p)
           \/ Committed(p) \/ Retry(p)
  <2>1. pc'[p] \notin {"body", "send", "wait", "persist"}
    BY <1>1 DEF Begin, NoticeAbort, Refused, SetCommitted, SendRelease, Committed, Retry,
       TypeInv, TypeOK
  <2> QED
    BY <2>1, HoldOver
<1> QED
  BY <1>1, HoldRunning, HoldLoadOwn, HoldStore, HoldContact, HoldSend, HoldGranted,
     HoldSetPersisting, HoldPersistEntry DEF AppStep

\* The step takes no lock on a from q.
Keeps(q, a) == (q \in readers[a] => q \in readers'[a]) /\ (writer[a] = q => writer'[a] = q)

\* The DSL node: what the nodes rely on is kept, and nobody revives.
LEMMA HoldDsl ==
  ASSUME TypeInv, MsgInv, NEW q \in Apps, HoldAt(q), UNCHANGED appVars,
         Live(q)' => Live(q),
         \A d \in Dsls : chan'[d][q].type = "RMV_NODE" => chan[d][q].type = "RMV_NODE",
         Live(q) => \A a \in Relied(q) : Keeps(q, a),
         (Live(q)' /\ pc[q] = "wait" /\ resp'[q] = "NO_CONFLICT") =>
           IF LockType(q) = "LOAD" THEN q \in readers'[LockAddr(q)] ELSE writer'[LockAddr(q)] = q
  PROVE  HoldAt(q)'
<1>1. /\ ReadAddrs(q)' = ReadAddrs(q) /\ LockedAddrs(q)' = LockedAddrs(q)
      /\ Relied(q)' = Relied(q) /\ pc' = pc
  BY ReliedSame DEF appVars
<1>2. LockAddr(q)' = LockAddr(q) /\ LockType(q)' = LockType(q)
  BY AskedKept
<1>3. \A a \in Relied(q) : Responsible[a] \in Dsls
  BY ReliedType, ResponsibleAssumption DEF Relied, MsgInv
<1>4. ASSUME Live(q)', NEW a \in Relied(q)
      PROVE  /\ chan'[Responsible[a]][q].type # "RMV_NODE"
             /\ Keeps(q, a)
  BY <1>3, <1>4 DEF HoldAt
<1>5. ASSUME Live(q)', NEW a \in ReadAddrs(q)
      PROVE  q \in readers'[a] \/ writer'[a] = q
  <2>1. a \in Relied(q)
    BY DEF Relied
  <2>2. q \in readers[a] \/ writer[a] = q
    BY <1>5 DEF HoldAt
  <2> QED
    BY <1>4, <1>5, <2>1, <2>2 DEF Keeps
<1>6. ASSUME Live(q)', NEW a \in LockedAddrs(q)
      PROVE  writer'[a] = q
  <2>1. a \in Relied(q)
    BY DEF Relied
  <2>2. writer[a] = q
    BY <1>6 DEF HoldAt
  <2> QED
    BY <1>4, <1>6, <2>1, <2>2 DEF Keeps
<1> QED
  BY <1>1, <1>2, <1>4, <1>5, <1>6 DEF HoldAt

\* A lock granted to p takes none from anybody else.
LEMMA AcquireKeeps ==
  ASSUME TypeOK, NEW p \in Apps, NEW m, m.addr \in Addrs, m.type \in {"LOAD", "STORE"},
         Acquire(p, m), m.type = "STORE" => writer[m.addr] \in {NoNode, p}
  PROVE  /\ \A a \in Addrs, q \in Apps : Keeps(q, a)
         /\ IF m.type = "LOAD" THEN p \in readers'[m.addr] ELSE writer'[m.addr] = p
         /\ resp'[p] = "NO_CONFLICT" /\ \A q \in Apps \ {p} : resp'[q] = resp[q]
BY NodesAssumption DEF Acquire, TypeOK, Keeps

\* A node that is granted the lock it asked for
LEMMA HoldAcquire ==
  ASSUME TypeInv, MsgInv, HoldInv, NEW d \in Dsls, NEW p \in Apps, NEW m,
         m.addr \in Addrs, m.type \in {"LOAD", "STORE"}, Acquire(p, m), Awaits(p, d, m),
         m.type = "STORE" => writer[m.addr] \in {NoNode, p},
         UNCHANGED <<appVars, flag>>,
         \A e \in Dsls, q \in Apps : chan'[e][q].type = "RMV_NODE" => chan[e][q].type = "RMV_NODE"
  PROVE  HoldInv'
<1> SUFFICES ASSUME NEW q \in Apps
             PROVE  HoldAt(q)'
  BY HoldNodewise
<1>1. HoldAt(q) /\ pc' = pc
  BY HoldNodewise DEF appVars
<1>2. Live(q)' => Live(q)
  BY <1>1, AcquireKeeps DEF Live, Awaits, TypeInv
<1>3. Relied(q) \subseteq Addrs
  BY ReliedType DEF Relied, MsgInv
<1>4. \A a \in Relied(q) : Keeps(q, a)
  <2>1. \A a \in Addrs : Keeps(q, a)
    BY AcquireKeeps DEF TypeInv
  <2> QED
    BY <1>3, <2>1
<1>5. (Live(q)' /\ pc[q] = "wait" /\ resp'[q] = "NO_CONFLICT") =>
        IF LockType(q) = "LOAD" THEN q \in readers'[LockAddr(q)] ELSE writer'[LockAddr(q)] = q
  <2>1. CASE q = p
    BY <2>1, AcquireKeeps DEF Awaits, TypeInv
  <2>2. CASE q # p
    <3>1. resp'[q] = resp[q]
      BY <2>2, AcquireKeeps DEF TypeInv
    <3>2. pc[q] = "wait" => LockAddr(q) \in Addrs
      BY LockAddrType DEF TypeInv, Asking
    <3>3. pc[q] = "wait" => Keeps(q, LockAddr(q))
      BY <3>2, AcquireKeeps DEF TypeInv
    <3> QED
      BY <1>1, <1>2, <3>1, <3>3 DEF HoldAt, Keeps
  <2> QED
    BY <2>1, <2>2
<1> QED
  BY <1>1, <1>2, <1>4, <1>5, HoldDsl

LEMMA HoldGrant ==
  ASSUME TypeInv, MsgInv, HoldInv, NEW d \in Dsls, NEW p \in Apps, Grant(d, p)
  PROVE  HoldInv'
<1> DEFINE m == chan[d][p]
<1>1. /\ IsRequest(m) /\ Conflict(p, m) = "NO_CONFLICT" /\ Acquire(p, m) /\ Take(d, p)
      /\ UNCHANGED <<appVars, flag>>
  BY DEF Grant
<1>2. m \in Request /\ m.addr \in Addrs /\ m.type \in {"LOAD", "STORE"}
  BY <1>1, OwnWord DEF Request
<1>3. Awaits(p, d, m)
  BY <1>1 DEF MsgInv, Requested
<1>4. m.type = "STORE" => writer[m.addr] \in {NoNode, p}
  BY <1>1, <1>2, NoConflict
<1>5. \A e \in Dsls, q \in Apps : chan'[e][q].type = "RMV_NODE" => chan[e][q].type = "RMV_NODE"
  BY <1>1, TakeFacts DEF NoMsg
<1> QED
  BY <1>1, <1>2, <1>3, <1>4, <1>5, HoldAcquire

LEMMA HoldGrantContended ==
  ASSUME TypeInv, MsgInv, LockInv, HoldInv, NEW d \in Dsls, GrantContended(d)
  PROVE  HoldInv'
<1>1. PICK j \in Job : j = serving[d]
  BY DEF GrantContended, TypeInv, TypeOK, Idle
<1>2. /\ ~Idle(d) /\ victims[d] = {} /\ Acquire(j.app, j) /\ UNCHANGED <<appVars, flag, chan>>
  BY <1>1 DEF GrantContended
<1>3. j.app \in Apps /\ j.addr \in Addrs /\ j.type \in {"LOAD", "STORE"}
  BY DEF Job
<1>4. Awaits(j.app, d, j)
  BY <1>1, <1>2 DEF MsgInv, Served
<1>5. j.type = "STORE" => writer[j.addr] \in {NoNode, j.app}
  BY <1>1, <1>2, <1>3 DEF LockInv, Evicting
<1> QED
  BY <1>2, <1>3, <1>4, <1>5, HoldAcquire

\* The locks of the others survive when those of v are deleted.
LEMMA DeleteKeeps ==
  ASSUME TypeOK, NEW d \in Dsls, NEW v, DeleteNode(d, v), NEW q \in Apps
  PROVE  \A a \in Addrs : (q # v \/ Responsible[a] # d) =>
           Keeps(q, a)
<1>1. \A a \in Addrs : /\ writer'[a] = IF Responsible[a] = d /\ writer[a] = v THEN NoNode ELSE writer[a]
                       /\ readers'[a] = IF Responsible[a] = d THEN readers[a] \ {v} ELSE readers[a]
  BY DEF DeleteNode
<1> QED
  BY <1>1 DEF Keeps

\* Locks of v are deleted: v is not live afterwards, or relied on none of them.
LEMMA HoldDelete ==
  ASSUME TypeInv, MsgInv, HoldInv, NEW d \in Dsls, NEW v \in Apps, DeleteNode(d, v),
         UNCHANGED appVars,
         \A q \in Apps \ {v} : (Live(q)' => Live(q)) /\ resp'[q] = resp[q],
         \/ ~Live(v)'
         \/ chan[d][v].type = "RMV_NODE" /\ (Live(v)' => Live(v)) /\ resp' = resp,
         \A e \in Dsls, q \in Apps : chan'[e][q].type = "RMV_NODE" => chan[e][q].type = "RMV_NODE"
  PROVE  HoldInv'
<1> SUFFICES ASSUME NEW q \in Apps
             PROVE  HoldAt(q)'
  BY HoldNodewise
<1>1. HoldAt(q) /\ pc' = pc
  BY HoldNodewise DEF appVars
<1>2. CASE q = v /\ ~Live(v)'
  BY <1>2 DEF HoldAt
<1>3. CASE q # v \/ Live(v)'
  <2>1. (Live(q)' => Live(q)) /\ resp'[q] = resp[q]
    BY <1>3
  <2>2. Relied(q) \subseteq Addrs /\ (pc[q] = "wait" => LockAddr(q) \in Addrs)
    BY ReliedType, LockAddrType DEF Relied, MsgInv, TypeInv, Asking
  <2>3. q = v => chan[d][q].type = "RMV_NODE"
    BY <1>3
  <2>4. Live(q) => \A a \in Relied(q) : q # v \/ Responsible[a] # d
    BY <1>1, <2>3 DEF HoldAt
  <2>5. Live(q) => \A a \in Relied(q) : Keeps(q, a)
    BY <2>2, <2>4, DeleteKeeps DEF TypeInv
  <2>6. pc[q] = "wait" => q # v \/ Responsible[LockAddr(q)] # d
    BY <2>3 DEF MsgInv, Overtaken, LockDsl
  <2>7. (Live(q)' /\ pc[q] = "wait" /\ resp'[q] = "NO_CONFLICT") =>
        IF LockType(q) = "LOAD" THEN q \in readers'[LockAddr(q)] ELSE writer'[LockAddr(q)] = q
    BY <1>1, <2>1, <2>2, <2>6, DeleteKeeps DEF HoldAt, TypeInv, Keeps
  <2> QED
    BY <1>1, <2>1, <2>5, <2>7, HoldDsl
<1> QED
  BY <1>2, <1>3

LEMMA HoldRefuse ==
  ASSUME TypeInv, MsgInv, HoldInv, NEW d \in Dsls, NEW p \in Apps, Refuse(d, p)
  PROVE  HoldInv'
<1>1. /\ DeleteNode(d, p) /\ Take(d, p) /\ UNCHANGED <<appVars, flag>>
      /\ resp' = [resp EXCEPT ![p] = "CONFLICT"]
  BY DEF Refuse
<1>2. ~Live(p)' /\ \A q \in Apps \ {p} : (Live(q)' => Live(q)) /\ resp'[q] = resp[q]
  BY <1>1 DEF Live, appVars, TypeInv, TypeOK
<1>3. \A e \in Dsls, q \in Apps : chan'[e][q].type = "RMV_NODE" => chan[e][q].type = "RMV_NODE"
  BY <1>1, TakeFacts DEF NoMsg
<1> QED
  BY <1>1, <1>2, <1>3, HoldDelete

LEMMA HoldRemoveNode ==
  ASSUME TypeInv, MsgInv, HoldInv, NEW d \in Dsls, NEW p \in Apps, RemoveNode(d, p)
  PROVE  HoldInv'
<1>1. /\ DeleteNode(d, p) /\ Take(d, p) /\ UNCHANGED <<appVars, flag, resp>>
      /\ chan[d][p].type = "RMV_NODE"
  BY DEF RemoveNode
<1>2. \A q \in Apps : (Live(q)' => Live(q))
  BY <1>1 DEF Live, appVars
<1>3. \A e \in Dsls, q \in Apps : chan'[e][q].type = "RMV_NODE" => chan[e][q].type = "RMV_NODE"
  BY <1>1, TakeFacts DEF NoMsg
<1> QED
  BY <1>1, <1>2, <1>3, HoldDelete

LEMMA HoldAbortVictim ==
  ASSUME TypeInv, MsgInv, HoldInv, NEW d \in Dsls, AbortVictim(d)
  PROVE  HoldInv'
<1>1. PICK v \in Apps : v = Min(victims[d])
  BY MinIsIn, NodesAssumption DEF AbortVictim, TypeInv, TypeOK
<1>2. DeleteNode(d, v) /\ AbortNode(v) /\ UNCHANGED <<appVars, chan, resp>>
  BY <1>1 DEF AbortVictim
<1>3. ~Live(v)' /\ \A q \in Apps \ {v} : (Live(q)' => Live(q))
  BY <1>2 DEF AbortNode, Live, appVars, TypeInv, TypeOK
<1> QED
  BY <1>2, <1>3, HoldDelete

LEMMA HoldContend ==
  ASSUME TypeInv, MsgInv, HoldInv, NEW d \in Dsls, NEW p \in Apps, Contend(d, p)
  PROVE  HoldInv'
<1> SUFFICES ASSUME NEW q \in Apps
             PROVE  HoldAt(q)'
  BY HoldNodewise
<1>1. HoldAt(q) /\ Take(d, p) /\ UNCHANGED <<appVars, flag, resp, readers, writer>>
  BY HoldNodewise DEF Contend
<1>2. (Live(q)' => Live(q)) /\ pc' = pc
  BY <1>1 DEF Live, appVars
<1>3. \A e \in Dsls : chan'[e][q].type = "RMV_NODE" => chan[e][q].type = "RMV_NODE"
  BY <1>1, TakeFacts DEF NoMsg
<1>4. (Live(q)' /\ pc[q] = "wait" /\ resp'[q] = "NO_CONFLICT") =>
        IF LockType(q) = "LOAD" THEN q \in readers'[LockAddr(q)] ELSE writer'[LockAddr(q)] = q
  BY <1>1, <1>2 DEF HoldAt
<1> QED
  BY <1>1, <1>2, <1>3, <1>4, HoldDsl DEF Keeps

LEMMA HoldKept ==
  ASSUME HoldInv, UNCHANGED vars
  PROVE  HoldInv'
<1>1. \A q : /\ ReadAddrs(q)' = ReadAddrs(q) /\ LockedAddrs(q)' = LockedAddrs(q)
             /\ Relied(q)' = Relied(q) /\ Live(q)' = Live(q)
             /\ LockAddr(q)' = LockAddr(q) /\ LockType(q)' = LockType(q)
  BY ReliedSame, AskedSame DEF vars, appVars, Live
<1> QED
  BY <1>1 DEF HoldInv, NotReleasing, Promised, HoldsLocks, vars, appVars, dslVars

LEMMA HoldStep ==
  ASSUME TypeInv, MsgInv, LockInv, HoldInv, Unabortable, [Next]_vars
  PROVE  HoldInv'
<1>1. CASE UNCHANGED vars
  BY <1>1, HoldKept
<1>2. CASE \E p \in Apps : Begin(p) \/ AppStep(p)
  BY <1>2, HoldApp
<1>3. CASE \E d \in Dsls : DslNext(d)
  BY <1>3, HoldGrant, HoldRefuse, HoldContend, HoldRemoveNode, HoldAbortVictim,
     HoldGrantContended DEF DslNext, Serve
<1> QED
  BY <1>1, <1>2, <1>3 DEF Next, Terminated

-----------------------------------------------------------------------------
(* A transaction that writes back cannot be aborted.                         *)

LEMMA UnabortableApp ==
  ASSUME TypeInv, Unabortable, NEW p \in Apps, Begin(p) \/ AppStep(p)
  PROVE  Unabortable'
<1> USE DEF TypeInv, TypeOK
<1>1. Elsewhere(p) /\ UNCHANGED dslVars
  BY AppElsewhere
<1>2. (HasCM /\ pc'[p] = "persist") => flag'[p] = "PERSISTING_WRITES"
  <2>1. CASE SetPersisting(p)
    BY <2>1 DEF SetPersisting
  <2>2. CASE PersistEntry(p)
    BY <2>2 DEF PersistEntry, Unabortable
  <2>3. CASE Begin(p) \/ Running(p) \/ LoadOwn(p) \/ Store(p) \/ Contact(p)
    BY <2>3 DEF Begin, Running, LoadOwn, Store, Contact
  <2>4. CASE NoticeAbort(p) \/ Send(p) \/ Granted(p) \/ Refused(p)
    BY <2>4 DEF NoticeAbort, Send, Granted, Refused
  <2>5. CASE SetCommitted(p) \/ SendRelease(p) \/ Committed(p) \/ Retry(p)
    BY <2>5 DEF SetCommitted, SendRelease, Committed, Retry
  <2> QED
    BY <2>1, <2>2, <2>3, <2>4, <2>5 DEF AppStep
<1>3. HasCM => \A q \in Apps : pc'[q] = "persist" => flag'[q] = "PERSISTING_WRITES"
  BY <1>1, <1>2 DEF Elsewhere, Unabortable
<1>4. ~HasCM => flag' = flag
  BY DEF Begin, AppStep, Running, LoadOwn, Store, Contact, NoticeAbort, Send, Granted,
     Refused, SetPersisting, PersistEntry, SetCommitted, SendRelease, Committed, Retry
<1>5. \A d : Idle(d)' <=> Idle(d)
  BY <1>1 DEF dslVars, Idle
<1> QED
  BY <1>3, <1>4, <1>5 DEF Unabortable

LEMMA UnabortableDsl ==
  ASSUME TypeInv, Unabortable, NEW d \in Dsls, DslNext(d)
  PROVE  Unabortable'
<1> USE DEF TypeInv, TypeOK
<1>1. CASE AbortVictim(d)
  <2>1. AbortNode(Min(victims[d])) /\ pc' = pc /\ HasCM
    BY <1>1 DEF AbortVictim, appVars, Unabortable
  <2>2. \A p \in Apps : flag[p] = "PERSISTING_WRITES" => flag'[p] = "PERSISTING_WRITES"
    BY <2>1 DEF AbortNode
  <2> QED
    BY <2>1, <2>2 DEF Unabortable
<1>2. CASE GrantContended(d)
  <2>1. flag' = flag /\ pc' = pc /\ HasCM
    BY <1>2 DEF GrantContended, appVars, Unabortable
  <2> QED
    BY <2>1 DEF Unabortable
<1>3. ASSUME NEW p \in Apps, Contend(d, p)
      PROVE  Unabortable'
  <2>1. flag' = flag /\ pc' = pc /\ HasCM
    BY <1>3 DEF Contend, Wins, appVars
  <2> QED
    BY <2>1 DEF Unabortable
<1>4. ASSUME NEW p \in Apps, Grant(d, p) \/ Refuse(d, p) \/ RemoveNode(d, p)
      PROVE  Unabortable'
  <2>1. flag' = flag /\ pc' = pc /\ serving' = serving
    BY <1>4 DEF Grant, Refuse, RemoveNode, appVars
  <2> QED
    BY <2>1 DEF Unabortable, Idle
<1> QED
  BY <1>1, <1>2, <1>3, <1>4 DEF DslNext, Serve

LEMMA UnabortableStep ==
  ASSUME TypeInv, Unabortable, [Next]_vars
  PROVE  Unabortable'
<1>1. CASE UNCHANGED vars
  BY <1>1 DEF vars, appVars, dslVars, Unabortable, Idle
<1> QED
  BY <1>1, UnabortableApp, UnabortableDsl DEF Next, Terminated

-----------------------------------------------------------------------------
(* Isolation follows from the locks.                                         *)

LEMMA PersistLive ==
  ASSUME MsgInv, Unabortable, TypeInv, NEW p \in Apps, pc[p] = "persist"
  PROVE  Live(p)
BY DEF MsgInv, Answered, Unabortable, Live

LEMMA IsolatedByLocks ==
  ASSUME TypeInv, MsgInv, LockInv, HoldInv, Unabortable
  PROVE  Isolated
<1> SUFFICES ASSUME NEW p \in Apps, NEW q \in Apps, p # q, pc[p] = "persist", Live(q),
                    NEW a \in WrittenAddrs(p)
             PROVE  /\ a \notin ReadAddrs(q)
                    /\ pc[q] = "persist" => a \notin WrittenAddrs(q)
  BY DEF Isolated
<1>1. a \in Addrs /\ LockedAddrs(p) = WrittenAddrs(p)
  BY ReliedType DEF LockedAddrs
<1>2. writer[a] = p
  BY <1>1, PersistLive DEF HoldInv, HoldsLocks
<1>3. readers[a] \subseteq {p}
  BY <1>1, <1>2, NodesAssumption DEF LockInv, Excl
<1>4. a \notin ReadAddrs(q)
  BY <1>2, <1>3 DEF HoldInv, HoldsLocks
<1>5. pc[q] = "persist" => a \notin WrittenAddrs(q)
  BY <1>2 DEF HoldInv, HoldsLocks, LockedAddrs
<1> QED
  BY <1>4, <1>5

-----------------------------------------------------------------------------
(* Snapshots.                                                                *)

SnapshotAt(p) == (Live(p) /\ pc[p] # "persist") => \A r \in reads[p] : mem[r[1]] = r[2]

LEMMA SnapshotNodewise == /\ Snapshot <=> \A p \in Apps : SnapshotAt(p)
                          /\ Snapshot' <=> \A p \in Apps : SnapshotAt(p)'
BY DEF Snapshot, SnapshotAt

\* A step that leaves the memory, the reads of p alone, and does not revive p
LEMMA SnapshotKept ==
  ASSUME NEW p, SnapshotAt(p), mem' = mem, reads'[p] = reads[p],
         (Live(p)' /\ pc'[p] # "persist") => (Live(p) /\ pc[p] # "persist")
  PROVE  SnapshotAt(p)'
BY DEF SnapshotAt

\* The owner of the words writes one back.
LEMMA SnapshotPersistEntry ==
  ASSUME TypeInv, Isolated, Snapshot, NEW p \in Apps, PersistEntry(p)
  PROVE  Snapshot'
<1> USE DEF TypeInv, TypeOK
<1> SUFFICES ASSUME NEW q \in Apps
             PROVE  SnapshotAt(q)'
  BY SnapshotNodewise
<1> DEFINE a == wset[p][nw[p] + 1].addr
<1>1. /\ pc[p] = "persist" /\ UNCHANGED <<pc, reads, resp, flag>>
      /\ a \in WrittenAddrs(p)
      /\ \A b \in Addrs \ {a} : mem'[b] = mem[b]
  BY DEF PersistEntry, WrittenAddrs
<1>2. CASE q = p
  BY <1>1, <1>2 DEF SnapshotAt
<1>3. CASE q # p
  <2> SUFFICES ASSUME Live(q), pc[q] # "persist", NEW r \in reads[q]
               PROVE  mem'[r[1]] = r[2]
    BY <1>1 DEF SnapshotAt, Live
  <2>1. r[1] \in ReadAddrs(q) /\ r[1] \in Addrs
    BY DEF ReadAddrs
  <2>2. r[1] # a
    BY <1>1, <1>3, <2>1 DEF Isolated
  <2> QED
    BY <1>1, <2>1, <2>2 DEF Snapshot
<1> QED
  BY <1>2, <1>3

LEMMA SnapshotApp ==
  ASSUME TypeInv, MsgInv, Isolated, Snapshot, NEW p \in Apps, Begin(p) \/ AppStep(p)
  PROVE  Snapshot'
<1> USE DEF TypeInv, TypeOK
<1>1. CASE PersistEntry(p)
  BY <1>1, SnapshotPersistEntry
<1>2. CASE ~PersistEntry(p)
  <2>1. mem' = mem
    BY <1>2 DEF Begin, AppStep, Running, LoadOwn, Store, Contact, NoticeAbort, Send, Granted,
       Refused, SetPersisting, PersistEntry, SetCommitted, SendRelease, Committed, Retry
  <2>2. SnapshotAt(p)'
    <3>1. CASE Running(p)
      <4>1. reads'[p] = {}
        BY <3>1 DEF Running, MsgInv, Clean
      <4> QED
        BY <4>1 DEF SnapshotAt
    <3>2. CASE Granted(p)
      <4>1. Live(p) <=> flag[p] \in {"NO_CONFLICT", "PERSISTING_WRITES"}
        BY <3>2 DEF Granted, Live
      <4>2. reads'[p] \subseteq reads[p] \cup {<<LockAddr(p), mem[LockAddr(p)]>>}
        BY <3>2 DEF Granted
      <4>3. (Live(p)' => Live(p)) /\ pc[p] # "persist"
        BY <3>2, <4>1 DEF Granted, Live
      <4> QED
        BY <2>1, <4>2, <4>3, SnapshotNodewise DEF SnapshotAt
    <3>3. CASE Begin(p) \/ NoticeAbort(p) \/ Refused(p) \/ SetPersisting(p)
               \/ SetCommitted(p) \/ SendRelease(p) \/ Committed(p) \/ Retry(p)
      <4>1. pc'[p] \notin {"body", "send", "wait"}
        BY <3>3 DEF Begin, NoticeAbort, Refused, SetPersisting, SetCommitted, SendRelease,
           Committed, Retry
      <4> QED
        BY <4>1 DEF SnapshotAt, Live
    <3>4. CASE LoadOwn(p) \/ Store(p) \/ Contact(p) \/ Send(p)
      <4>1. /\ reads' = reads /\ pc[p] \in {"body", "send"} /\ UNCHANGED <<flag, resp>>
        BY <3>4 DEF LoadOwn, Store, Contact, Send
      <4> QED
        BY <2>1, <4>1, SnapshotNodewise, SnapshotKept DEF Live
    <3> QED
      BY <1>2, <3>1, <3>2, <3>3, <3>4 DEF AppStep
  <2>3. ASSUME NEW q \in Apps, q # p
        PROVE  SnapshotAt(q)'
    <3>1. Elsewhere(p)
      BY AppElsewhere
    <3>2. reads'[q] = reads[q] /\ pc'[q] = pc[q] /\ resp'[q] = resp[q] /\ flag'[q] = flag[q]
      BY <2>3, <3>1 DEF Elsewhere
    <3> QED
      BY <2>1, <3>2, SnapshotNodewise, SnapshotKept DEF Live
  <2> QED
    BY <2>2, <2>3, SnapshotNodewise
<1> QED
  BY <1>1, <1>2

\* The DSL nodes do not touch the memory; they may only end an attempt.
LEMMA SnapshotDsl ==
  ASSUME TypeInv, MsgInv, Snapshot, NEW d \in Dsls, DslNext(d)
  PROVE  Snapshot'
<1> USE DEF TypeInv, TypeOK
<1>1. mem' = mem /\ pc' = pc /\ reads' = reads
  BY DEF DslNext, Serve, Grant, Refuse, Contend, RemoveNode, AbortVictim, GrantContended,
     appVars
<1>2. ASSUME NEW q \in Apps
      PROVE  Live(q)' => Live(q)
  <2>1. CASE AbortVictim(d)
    BY <1>1, <2>1 DEF AbortVictim, AbortNode, Live
  <2>2. CASE GrantContended(d)
    <3>1. flag' = flag /\ Acquire(serving[d].app, serving[d])
      BY <2>2 DEF GrantContended
    <3>2. resp[serving[d].app] = "NONE"
      BY <2>2 DEF GrantContended, MsgInv, Served, Awaits
    <3> QED
      BY <1>1, <3>1, <3>2 DEF Acquire, Live
  <2>3. ASSUME NEW p \in Apps, Grant(d, p)
        PROVE  Live(q)' => Live(q)
    <3>1. flag' = flag /\ Acquire(p, chan[d][p])
      BY <2>3 DEF Grant
    <3>2. resp[p] = "NONE"
      BY <2>3 DEF Grant, MsgInv, Requested, Awaits
    <3> QED
      BY <1>1, <3>1, <3>2 DEF Acquire, Live
  <2>4. ASSUME NEW p \in Apps, Refuse(d, p) \/ Contend(d, p) \/ RemoveNode(d, p)
        PROVE  Live(q)' => Live(q)
    BY <1>1, <2>4 DEF Refuse, Contend, RemoveNode, MsgInv, Requested, Awaits, Live
  <2> QED
    BY <2>1, <2>2, <2>3, <2>4 DEF DslNext, Serve
<1> QED
  BY <1>1, <1>2, SnapshotNodewise, SnapshotKept

LEMMA SnapshotStep ==
  ASSUME TypeInv, MsgInv, Isolated, Snapshot, [Next]_vars
  PROVE  Snapshot'
<1>1. CASE UNCHANGED vars
  BY <1>1 DEF vars, appVars, Snapshot, Live
<1> QED
  BY <1>1, SnapshotApp, SnapshotDsl DEF Next, Terminated

-----------------------------------------------------------------------------
(* The theorems.                                                             *)

LEMMA IInvInit == Init => IInv
<1> SUFFICES ASSUME Init
             PROVE  IInv
  OBVIOUS
<1> USE DEF Init
<1>1. TypeInv
  BY TypeInit
<1>2. MsgInv
  BY DEF MsgInv, Requested, Served, Answered, Overtaken, Clean, Counted, IsRequest, NoMsg,
     NoJob, Idle
<1>3. LockInv
  BY DEF LockInv, Excl, Evicting, Idle
<1>4. \A p \in Apps : ~Live(p)
  BY DEF Live
<1>5. HoldInv /\ Snapshot
  BY <1>4 DEF HoldInv, NotReleasing, Promised, HoldsLocks, Snapshot
<1>6. Unabortable
  BY DEF Unabortable, Idle
<1> QED
  BY <1>1, <1>2, <1>3, <1>5, <1>6 DEF IInv

LEMMA IInvStep == IInv /\ [Next]_vars => IInv'
<1> SUFFICES ASSUME IInv, [Next]_vars
             PROVE  IInv'
  OBVIOUS
<1>1. TypeInv /\ MsgInv /\ LockInv /\ HoldInv /\ Unabortable /\ Snapshot
  BY DEF IInv
<1>2. Isolated
  BY <1>1, IsolatedByLocks
<1>3. TypeInv' /\ MsgInv' /\ LockInv'
  BY <1>1, TypeStep, MsgStep, LockStep
<1>4. HoldInv' /\ Unabortable' /\ Snapshot'
  BY <1>1, <1>2, HoldStep, UnabortableStep, SnapshotStep
<1> QED
  BY <1>3, <1>4 DEF IInv

\* The protocol keeps its inductive invariant: requests and replies, locks,
\* abort flags and the memory stay related as Tm2cInv says.
THEOREM Invariance == Spec => []IInv
BY IInvInit, IInvStep, PTL DEF Spec

\* Two-phase locking: an attempt that no DSL node has aborted holds every lock it
\* was granted by dsl_service, whatever the other nodes ask for meanwhile.
THEOREM TwoPhaseLocking == Spec => []HoldsLocks
<1>1. IInv => HoldsLocks
  BY DEF IInv, HoldInv
<1> QED
  BY <1>1, Invariance, PTL

\* While write_set_persist writes a word back, no other transaction that can still
\* commit has read the word or is writing it back.
THEOREM Isolation == Spec => []Isolated
<1>1. IInv => Isolated
  BY IsolatedByLocks DEF IInv
<1> QED
  BY <1>1, Invariance, PTL

\* What tx_load returned to an attempt that can still commit is what the memory
\* holds: the attempt sees a consistent snapshot.
THEOREM ConsistentSnapshot == Spec => []Snapshot
<1>1. IInv => Snapshot
  BY DEF IInv
<1> QED
  BY <1>1, Invariance, PTL

-----------------------------------------------------------------------------
(* Serializability.  A transaction takes effect at the compare-and-swap of   *)
(* TXPERSISTING, before it has written any word; its write-back and          *)
(* everything else stutters.  Isolation makes the memory seen by the         *)
(* committed transactions (Effective) well defined: no two nodes write the   *)
(* same word back.                                                           *)

(* What the refinement needs beside IInv, node by node.                      *)

\* The value of the transaction p runs: Store and Granted buffer no other.
Stored(p) == <<p, ntx[p] + 1>>

\* The write set holds values of this transaction; what has been written back
\* is in the memory; last is the transaction that has taken effect.
WritesAt(p) ==
  /\ \A i \in DOMAIN wset[p] : wset[p][i].val = Stored(p)
  /\ pc[p] = "persist" => \A i \in 1 .. nw[p] : mem[wset[p][i].addr] = Stored(p)
  /\ last[p].n = IF pc[p] \in {"persist", "release"} THEN ntx[p] + 1 ELSE ntx[p]

WriteInv == /\ last \in [Apps -> Serial!Transaction]
            /\ \A p \in Apps : WritesAt(p)

LEMMA WriteInvInit == Init => WriteInv
BY DEF Init, WriteInv, WritesAt, Serial!Transaction

\* A step of another node that leaves the memory alone
LEMMA WritesKept ==
  ASSUME NEW q, WritesAt(q), pc'[q] = pc[q], nw'[q] = nw[q], wset'[q] = wset[q],
         ntx'[q] = ntx[q], last'[q] = last[q], mem' = mem
  PROVE  WritesAt(q)'
BY DEF WritesAt, Stored

\* A step of p that does not write the memory.
LEMMA WritesOwn ==
  ASSUME TypeInv, WriteInv, NEW p \in Apps, Begin(p) \/ AppStep(p), ~PersistEntry(p)
  PROVE  WritesAt(p)'
<1> USE DEF TypeInv, TypeOK
<1>1. WritesAt(p)
  BY DEF WriteInv
<1>2. CASE Store(p)
  BY <1>1, <1>2 DEF Store, WritesAt, Stored
<1>3. CASE Granted(p)
  <2>1. \A i \in DOMAIN wset'[p] : wset'[p][i].val = Stored(p)
    <3>1. CASE wset' = wset
      BY <1>1, <3>1 DEF WritesAt
    <3>2. CASE wset' # wset
      <4>1. wset'[p] = Append(wset[p], [addr |-> LockAddr(p), val |-> Stored(p)])
        BY <1>3, <3>2 DEF Granted, Stored
      <4> QED
        BY <1>1, <4>1 DEF WritesAt
    <3> QED
      BY <3>1, <3>2
  <2> QED
    BY <1>1, <1>3, <2>1 DEF Granted, WritesAt, Stored
<1>4. CASE SetPersisting(p)
  BY <1>1, <1>4 DEF SetPersisting, WritesAt, Stored, WriteInv
<1>5. CASE Committed(p) \/ Retry(p)
  BY <1>1, <1>5 DEF Committed, Retry, ClearAttempt, WritesAt, Stored
<1>6. CASE Begin(p) \/ Running(p) \/ LoadOwn(p) \/ Contact(p) \/ NoticeAbort(p) \/ Send(p)
           \/ Refused(p) \/ SetCommitted(p) \/ SendRelease(p)
  <2>1. /\ wset' = wset /\ ntx' = ntx /\ last' = last /\ pc'[p] # "persist"
        /\ pc'[p] \in {"persist", "release"} <=> pc[p] \in {"persist", "release"}
    BY <1>6 DEF Begin, Running, LoadOwn, Contact, NoticeAbort, Send, Refused, SetCommitted,
       SendRelease
  <2> QED
    BY <1>1, <2>1 DEF WritesAt, Stored
<1> QED
  BY <1>2, <1>3, <1>4, <1>5, <1>6 DEF AppStep

\* No step of p changes the transactions of another node.
LEMMA CountElsewhere ==
  ASSUME TypeInv, WriteInv, NEW p \in Apps, Begin(p) \/ AppStep(p)
  PROVE  /\ \A q \in Apps \ {p} : ntx'[q] = ntx[q] /\ last'[q] = last[q]
         /\ last' \in [Apps -> Serial!Transaction]
<1> USE DEF TypeInv, TypeOK, WriteInv
<1>1. CASE Committed(p)
  BY <1>1 DEF Committed
<1>2. CASE SetPersisting(p)
  <2>1. ntx' = ntx /\ ntx[p] + 1 \in Nat /\ reads[p] \in SUBSET (Addrs \X Values)
    BY <1>2 DEF SetPersisting
  <2> DEFINE w == {<<wset[p][i].addr, wset[p][i].val>> : i \in DOMAIN wset[p]}
             t == [n |-> ntx[p] + 1, reads |-> reads[p], writes |-> w]
  <2>2. w \in SUBSET (Addrs \X Values)
    <3>1. \A i \in DOMAIN wset[p] : wset[p][i] \in Entry
      OBVIOUS
    <3> QED
      BY <3>1 DEF Entry
  <2>3. last' = [last EXCEPT ![p] = t]
    BY <1>2 DEF SetPersisting
  <2> HIDE DEF w
  <2>4. t \in Serial!Transaction
    BY <2>1, <2>2 DEF Serial!Transaction
  <2> HIDE DEF t
  <2> QED
    BY <2>1, <2>3, <2>4
<1>3. CASE ~Committed(p) /\ ~SetPersisting(p)
  <2>1. ntx' = ntx /\ last' = last
    BY <1>3 DEF Begin, AppStep, Running, LoadOwn, Store, Contact, NoticeAbort, Send, Granted,
       Refused, PersistEntry, SetCommitted, SendRelease, Retry
  <2> QED
    BY <2>1
<1> QED
  BY <1>1, <1>2, <1>3

\* The word p writes back is written back by nobody else.
LEMMA WritesPersistEntry ==
  ASSUME IInv, WriteInv, NEW p \in Apps, PersistEntry(p), NEW q \in Apps
  PROVE  WritesAt(q)'
<1> USE DEF IInv
<1> DEFINE k == nw[p] + 1
           a == wset[p][k].addr
<1>1. /\ pc[p] = "persist" /\ UNCHANGED <<pc, wset, ntx, last>>
      /\ nw'[p] = k /\ k \in DOMAIN wset[p] /\ a \in Addrs
      /\ mem'[a] = wset[p][k].val /\ \A b \in Addrs \ {a} : mem'[b] = mem[b]
      /\ q # p => nw'[q] = nw[q]
  <2>1. wset[p] \in Seq(Entry) /\ nw[p] \in Nat /\ nw[p] < Len(wset[p])
    BY DEF PersistEntry, TypeInv, TypeOK
  <2>2. k \in DOMAIN wset[p] /\ wset[p][k] \in Entry
    BY <2>1
  <2> QED
    BY <2>2 DEF PersistEntry, TypeInv, TypeOK, Entry
<1>2. mem'[a] = Stored(p) /\ WritesAt(q) /\ WritesAt(p)
  BY <1>1 DEF WriteInv, WritesAt
<1>3. nw[q] \in Nat /\ nw[q] =< Len(wset[q]) /\ wset[q] \in Seq(Entry)
  BY DEF TypeInv, TypeOK, MsgInv, Counted
<1>4. \A i \in 1 .. nw[q] : wset[q][i].addr \in WrittenAddrs(q) /\ wset[q][i].addr \in Addrs
  <2>1. \A i \in 1 .. nw[q] : i \in DOMAIN wset[q]
    BY <1>3
  <2> QED
    BY <2>1, ReliedType DEF WrittenAddrs
<1>5. pc[q] = "persist" => \A i \in 1 .. nw'[q] : mem'[wset[q][i].addr] = Stored(q)
  <2>1. CASE q = p
    BY <1>1, <1>2, <1>3, <1>4, <2>1 DEF WritesAt
  <2>2. CASE q # p /\ pc[q] = "persist"
    <3>1. a \in WrittenAddrs(p)
      BY <1>1 DEF WrittenAddrs
    <3>2. a \notin WrittenAddrs(q)
      BY <1>1, <2>2, <3>1, IsolatedByLocks, PersistLive DEF Isolated
    <3> QED
      BY <1>1, <1>2, <1>4, <2>2, <3>2 DEF WritesAt
  <2> QED
    BY <2>1, <2>2
<1> QED
  BY <1>1, <1>2, <1>5 DEF WritesAt, Stored

LEMMA WriteInvStep ==
  ASSUME IInv, WriteInv, [Next]_vars
  PROVE  WriteInv'
<1>1. CASE UNCHANGED vars
  BY <1>1 DEF vars, appVars, WriteInv, WritesAt, Stored
<1>2. ASSUME NEW p \in Apps, Begin(p) \/ AppStep(p)
      PROVE  WriteInv'
  <2>1. last' \in [Apps -> Serial!Transaction]
    BY <1>2, CountElsewhere DEF IInv
  <2>2. CASE PersistEntry(p)
    BY <2>1, <2>2, WritesPersistEntry DEF WriteInv
  <2>3. CASE ~PersistEntry(p)
    <3>1. mem' = mem
      BY <1>2, <2>3 DEF Begin, AppStep, Running, LoadOwn, Store, Contact, NoticeAbort, Send,
         Granted, Refused, SetPersisting, SetCommitted, SendRelease, Committed, Retry
    <3>2. ASSUME NEW q \in Apps \ {p}
          PROVE  WritesAt(q)'
      <4>1. pc'[q] = pc[q] /\ nw'[q] = nw[q] /\ wset'[q] = wset[q]
        BY <1>2, AppElsewhere DEF IInv, Elsewhere
      <4>2. ntx'[q] = ntx[q] /\ last'[q] = last[q]
        BY <1>2, CountElsewhere DEF IInv
      <4> QED
        BY <3>1, <4>1, <4>2, WritesKept DEF WriteInv
    <3>3. WritesAt(p)'
      BY <1>2, <2>3, WritesOwn DEF IInv
    <3> QED
      BY <2>1, <3>2, <3>3 DEF WriteInv
  <2> QED
    BY <2>2, <2>3
<1>3. ASSUME NEW d \in Dsls, DslNext(d)
      PROVE  WriteInv'
  <2>1. UNCHANGED <<appVars, mem, last>>
    BY <1>3 DEF DslNext, Serve, Grant, Refuse, Contend, RemoveNode, AbortVictim,
       GrantContended
  <2> QED
    BY <2>1 DEF appVars, WriteInv, WritesAt, Stored
<1> QED
  BY <1>1, <1>2, <1>3 DEF Next, Terminated

-----------------------------------------------------------------------------
(* The memory as the committed transactions see it.                          *)

WritesBack(p, a) == pc[p] = "persist" /\ a \in WrittenAddrs(p)

\* What Effective holds: the value of the one node that writes the word back, or
\* what the memory holds.
EffectiveIs ==
  \A a \in Addrs :
    /\ \A p \in Apps : WritesBack(p, a) => Effective[a] = Stored(p)
    /\ (\A p \in Apps : ~WritesBack(p, a)) => Effective[a] = mem[a]

LEMMA EffectiveWord ==
  ASSUME Isolated, WriteInv, \A p \in Apps : pc[p] = "persist" => Live(p)
  PROVE  EffectiveIs
<1> SUFFICES ASSUME NEW a \in Addrs
             PROVE  /\ \A p \in Apps : WritesBack(p, a) => Effective[a] = Stored(p)
                    /\ (\A p \in Apps : ~WritesBack(p, a)) => Effective[a] = mem[a]
  BY DEF EffectiveIs
<1> DEFINE q == CHOOSE q \in Apps : pc[q] = "persist" /\ a \in WrittenAddrs(q)
           i == CHOOSE i \in DOMAIN wset[q] : wset[q][i].addr = a
<1>1. ASSUME NEW p \in Apps, WritesBack(p, a)
      PROVE  Effective[a] = Stored(p)
  <2>1. pc[p] = "persist" /\ a \in WrittenAddrs(p)
    BY <1>1 DEF WritesBack
  <2>2. q \in Apps /\ pc[q] = "persist" /\ a \in WrittenAddrs(q)
    BY <2>1
  <2>3. q = p
    BY <2>1, <2>2 DEF Isolated
  <2>4. \E j \in DOMAIN wset[q] : wset[q][j].addr = a
    BY <2>2 DEF WrittenAddrs
  <2>5. i \in DOMAIN wset[q]
    BY <2>4
  <2>6. Effective[a] = wset[q][i].val
    BY <2>1 DEF Effective
  <2> HIDE DEF q, i
  <2> QED
    BY <2>3, <2>5, <2>6 DEF WriteInv, WritesAt
<1>2. ASSUME \A p \in Apps : ~WritesBack(p, a)
      PROVE  Effective[a] = mem[a]
  BY <1>2 DEF Effective, WritesBack
<1> QED
  BY <1>1, <1>2

LEMMA EffectiveNow == IInv /\ WriteInv => EffectiveIs
BY EffectiveWord, IsolatedByLocks, PersistLive DEF IInv

LEMMA EffectiveDomain ==
  /\ Effective = [a \in Addrs |-> Effective[a]] /\ DOMAIN Effective = Addrs
  /\ Effective' = [a \in Addrs |-> Effective'[a]] /\ DOMAIN Effective' = Addrs
BY DEF Effective

LEMMA EffectiveNext == (IInv /\ WriteInv)' => EffectiveIs'
BY EffectiveNow, PTL

\* The words with the same writers and, where there are none, the same contents
LEMMA EffectiveSame ==
  ASSUME EffectiveIs, EffectiveIs',
         \A a \in Addrs, p \in Apps : WritesBack(p, a)' <=> WritesBack(p, a),
         \A p \in Apps : pc[p] = "persist" => ntx'[p] = ntx[p],
         \A a \in Addrs : (\A p \in Apps : ~WritesBack(p, a)) => mem'[a] = mem[a]
  PROVE  Effective' = Effective
<1>1. ASSUME NEW a \in Addrs
      PROVE  Effective'[a] = Effective[a]
  <2>1. CASE \E p \in Apps : WritesBack(p, a)
    <3>1. PICK p \in Apps : WritesBack(p, a)
      BY <2>1
    <3>2. Effective[a] = Stored(p) /\ Effective'[a] = Stored(p)' /\ ntx'[p] = ntx[p]
      BY <3>1 DEF EffectiveIs, WritesBack
    <3> QED
      BY <3>2 DEF Stored
  <2>2. CASE \A p \in Apps : ~WritesBack(p, a)
    BY <2>2 DEF EffectiveIs
  <2> QED
    BY <2>1, <2>2
<1> QED
  BY <1>1, EffectiveDomain

-----------------------------------------------------------------------------
(* The steps.                                                                *)

\* TXPERSISTING: the transaction takes effect.
LEMMA CommitSetPersisting ==
  ASSUME IInv, WriteInv, EffectiveIs, EffectiveIs', WriteInv',
         NEW p \in Apps, SetPersisting(p)
  PROVE  Serial!ACommit(p)
<1> DEFINE t == last'[p]
<1>1. /\ pc[p] = "body" /\ pc'[p] = "persist" /\ \A q \in Apps \ {p} : pc'[q] = pc[q]
      /\ UNCHANGED <<wset, ntx, mem>>
  BY DEF SetPersisting, IInv, TypeInv, TypeOK
<1>2. /\ t.n = ntx[p] + 1 /\ t.reads = reads[p]
      /\ t.writes = {<<wset[p][i].addr, wset[p][i].val>> : i \in DOMAIN wset[p]}
      /\ last' = [last EXCEPT ![p] = t]
  BY DEF SetPersisting, WriteInv
<1>3. t.n = last[p].n + 1
  BY <1>1, <1>2 DEF WriteInv, WritesAt
<1>4. Live(p)
  <2>1. resp[p] = "NONE"
    BY <1>1 DEF IInv, MsgInv, Answered
  <2>2. flag[p] = "NO_CONFLICT"
    BY DEF SetPersisting, MayPersist, Aborted, IInv, Unabortable
  <2> QED
    BY <1>1, <2>1, <2>2 DEF Live
<1>5. \A r \in t.reads : Effective[r[1]] = r[2]
  <2> SUFFICES ASSUME NEW r \in reads[p]
               PROVE  Effective[r[1]] = r[2]
    BY <1>2
  <2>1. mem[r[1]] = r[2]
    BY <1>1, <1>4 DEF IInv, Snapshot
  <2>2. r[1] \in ReadAddrs(p) /\ r[1] \in Addrs
    BY ReliedType DEF ReadAddrs, IInv
  <2>3. \A q \in Apps : ~WritesBack(q, r[1])
    BY <1>1, <1>4, <2>2, IsolatedByLocks DEF IInv, WritesBack, Isolated
  <2> QED
    BY <2>1, <2>2, <2>3 DEF EffectiveIs
<1>6. \A q \in Apps, a \in Addrs :
        WritesBack(q, a)' <=> IF q = p THEN a \in WrittenAddrs(p) ELSE WritesBack(q, a)
  BY <1>1 DEF WritesBack, WrittenAddrs
<1>7. ASSUME NEW a \in Addrs
      PROVE  Effective'[a] = IF \E w \in t.writes : w[1] = a
                             THEN (CHOOSE w \in t.writes : w[1] = a)[2] ELSE Effective[a]
  <2>1. CASE a \in WrittenAddrs(p)
    <3>1. \E w \in t.writes : w[1] = a
      <4>1. PICK i \in DOMAIN wset[p] : wset[p][i].addr = a
        BY <2>1 DEF WrittenAddrs
      <4>2. <<wset[p][i].addr, wset[p][i].val>> \in t.writes
        BY <1>2, Zenon
      <4> QED
        BY <4>1, <4>2
    <3>2. \A w \in t.writes : w[2] = Stored(p)
      BY <1>2 DEF WriteInv, WritesAt
    <3>3. (CHOOSE w \in t.writes : w[1] = a)[2] = Stored(p)
      BY <3>1, <3>2
    <3>4. Effective'[a] = Stored(p)
      BY <1>1, <1>6, <2>1 DEF EffectiveIs, Stored
    <3> QED
      BY <3>1, <3>3, <3>4
  <2>2. CASE a \notin WrittenAddrs(p)
    <3>1. ~\E w \in t.writes : w[1] = a
      BY <1>2, <2>2 DEF WrittenAddrs
    <3>2. ~WritesBack(p, a)
      BY <1>1 DEF WritesBack
    <3>3. Effective'[a] = Effective[a]
      <4>1. CASE \E q \in Apps : WritesBack(q, a)
        <5>1. PICK q \in Apps : WritesBack(q, a)
          BY <4>1
        <5>2. WritesBack(q, a)'
          BY <1>6, <3>2, <5>1
        <5>3. Effective[a] = Stored(q) /\ Effective'[a] = Stored(q)'
          BY <5>1, <5>2 DEF EffectiveIs
        <5> QED
          BY <1>1, <5>3 DEF Stored
      <4>2. CASE \A q \in Apps : ~WritesBack(q, a)
        <5>1. \A q \in Apps : ~WritesBack(q, a)'
          BY <1>6, <2>2, <4>2
        <5> QED
          BY <1>1, <4>2, <5>1 DEF EffectiveIs
      <4> QED
        BY <4>1, <4>2
    <3> QED
      BY <3>1, <3>3
  <2> QED
    BY <2>1, <2>2
<1>8. Effective' = Serial!Written(t, Effective)
  <2> HIDE DEF t
  <2> QED
    BY <1>7, EffectiveDomain DEF Serial!Written
<1> QED
  BY <1>2, <1>3, <1>5, <1>8 DEF Serial!ACommit

\* One word is written back: its value was visible already.
LEMMA StutterPersistEntry ==
  ASSUME IInv, WriteInv, EffectiveIs, EffectiveIs', NEW p \in Apps, PersistEntry(p)
  PROVE  Effective' = Effective
<1> DEFINE k == nw[p] + 1
           a == wset[p][k].addr
<1>1. /\ pc[p] = "persist" /\ UNCHANGED <<pc, wset, ntx>>
      /\ \A b \in Addrs \ {a} : mem'[b] = mem[b]
  BY DEF PersistEntry, IInv, TypeInv, TypeOK
<1>2. a \in WrittenAddrs(p)
  <2>1. wset[p] \in Seq(Entry) /\ nw[p] \in Nat /\ nw[p] < Len(wset[p])
    BY DEF PersistEntry, IInv, TypeInv, TypeOK
  <2> QED
    BY <2>1 DEF WrittenAddrs
<1>3. \A q \in Apps, b \in Addrs : WritesBack(q, b)' <=> WritesBack(q, b)
  BY <1>1 DEF WritesBack, WrittenAddrs
<1>4. \A b \in Addrs : (\A q \in Apps : ~WritesBack(q, b)) => mem'[b] = mem[b]
  BY <1>1, <1>2 DEF WritesBack
<1> QED
  BY <1>1, <1>3, <1>4, EffectiveSame

\* TXCOMMITTED: all words have been written back.
LEMMA StutterSetCommitted ==
  ASSUME IInv, WriteInv, EffectiveIs, EffectiveIs', NEW p \in Apps, SetCommitted(p)
  PROVE  Effective' = Effective
<1>1. /\ pc[p] = "persist" /\ pc'[p] = "release" /\ \A q \in Apps \ {p} : pc'[q] = pc[q]
      /\ UNCHANGED <<wset, ntx, mem>> /\ nw[p] = Len(wset[p])
  BY DEF SetCommitted, IInv, TypeInv, TypeOK
<1>2. \A q \in Apps, b \in Addrs : WritesBack(q, b)' <=> (q # p /\ WritesBack(q, b))
  BY <1>1 DEF WritesBack, WrittenAddrs
<1>3. ASSUME NEW b \in Addrs
      PROVE  Effective'[b] = Effective[b]
  <2>1. CASE b \in WrittenAddrs(p)
    <3>1. PICK i \in DOMAIN wset[p] : wset[p][i].addr = b
      BY <2>1 DEF WrittenAddrs
    <3>2. i \in 1 .. nw[p]
      BY <1>1 DEF IInv, TypeInv, TypeOK
    <3>3. mem[b] = Stored(p)
      BY <1>1, <3>1, <3>2 DEF WriteInv, WritesAt
    <3>4. Effective[b] = Stored(p)
      BY <1>1, <2>1 DEF EffectiveIs, WritesBack
    <3>5. \A q \in Apps : ~WritesBack(q, b)'
      BY <1>1, <1>2, <2>1, IsolatedByLocks, PersistLive DEF IInv, Isolated, WritesBack
    <3> QED
      BY <1>1, <3>3, <3>4, <3>5 DEF EffectiveIs
  <2>2. CASE b \notin WrittenAddrs(p)
    <3>1. \A q \in Apps : WritesBack(q, b)' <=> WritesBack(q, b)
      BY <1>2, <2>2 DEF WritesBack
    <3>2. CASE \E q \in Apps : WritesBack(q, b)
      <4>1. PICK q \in Apps : WritesBack(q, b)
        BY <3>2
      <4>2. Effective[b] = Stored(q) /\ Effective'[b] = Stored(q)'
        BY <3>1, <4>1 DEF EffectiveIs
      <4> QED
        BY <1>1, <4>2 DEF Stored
    <3>3. CASE \A q \in Apps : ~WritesBack(q, b)
      BY <1>1, <3>1, <3>3 DEF EffectiveIs
    <3> QED
      BY <3>2, <3>3
  <2> QED
    BY <2>1, <2>2
<1> QED
  BY <1>3, EffectiveDomain

\* A step of p that is not about its write-back
LEMMA StutterApp ==
  ASSUME IInv, WriteInv, EffectiveIs, EffectiveIs', NEW p \in Apps, Begin(p) \/ AppStep(p),
         ~SetPersisting(p), ~PersistEntry(p), ~SetCommitted(p)
  PROVE  Effective' = Effective /\ last' = last
<1> USE DEF IInv
<1>1. /\ mem' = mem /\ last' = last /\ pc[p] # "persist" /\ pc'[p] # "persist"
  BY DEF Begin, AppStep, Running, LoadOwn, Store, Contact, NoticeAbort, Send, Granted,
     Refused, SendRelease, Committed, Retry, TypeInv, TypeOK
<1>2. \A q \in Apps \ {p} : pc'[q] = pc[q] /\ wset'[q] = wset[q] /\ ntx'[q] = ntx[q]
  BY AppElsewhere, CountElsewhere DEF Elsewhere
<1>3. \A a \in Addrs, q \in Apps : WritesBack(q, a)' <=> WritesBack(q, a)
  BY <1>1, <1>2 DEF WritesBack, WrittenAddrs
<1> QED
  BY <1>1, <1>2, <1>3, EffectiveSame

LEMMA SerialStep ==
  ASSUME IInv, WriteInv, [Next]_vars, IInv', WriteInv'
  PROVE  [Serial!ANext]_Serial!avars
<1>1. EffectiveIs /\ EffectiveIs'
  BY EffectiveNow, EffectiveNext
<1>2. ASSUME NEW p \in Apps, Begin(p) \/ AppStep(p)
      PROVE  [Serial!ANext]_Serial!avars
  <2>1. CASE SetPersisting(p)
    BY <1>1, <2>1, CommitSetPersisting DEF Serial!ANext
  <2>2. CASE PersistEntry(p) \/ SetCommitted(p)
    <3>1. last' = last
      BY <2>2 DEF PersistEntry, SetCommitted
    <3> QED
      BY <1>1, <2>2, <3>1, StutterPersistEntry, StutterSetCommitted DEF Serial!avars
  <2>3. CASE ~(SetPersisting(p) \/ PersistEntry(p) \/ SetCommitted(p))
    BY <1>1, <1>2, <2>3, StutterApp DEF Serial!avars
  <2> QED
    BY <2>1, <2>2, <2>3
<1>3. ASSUME UNCHANGED <<appVars, mem, last>>
      PROVE  UNCHANGED Serial!avars
  BY <1>3 DEF appVars, Serial!avars, Effective, WrittenAddrs
<1>4. ASSUME NEW d \in Dsls, DslNext(d)
      PROVE  UNCHANGED <<appVars, mem, last>>
  BY <1>4 DEF DslNext, Serve, Grant, Refuse, Contend, RemoveNode, AbortVictim, GrantContended
<1> QED
  BY <1>2, <1>3, <1>4 DEF Next, Terminated, vars

LEMMA SerialInit == Init => Serial!AInit
BY DEF Init, Serial!AInit, Serial!NoTransaction, Effective

\* The transactions that commit are serializable: TM2C is a memory on which
\* each reads and writes at one instant, the compare-and-swap of TXPERSISTING.
THEOREM Serializability == Spec => Serializable
<1>1. IInv /\ WriteInv /\ [Next]_vars => WriteInv'
  BY WriteInvStep
<1>2. IInv /\ WriteInv /\ [Next]_vars /\ IInv' /\ WriteInv' => [Serial!ANext]_Serial!avars
  BY SerialStep
<1> QED
  BY <1>1, <1>2, WriteInvInit, SerialInit, Invariance, PTL
     DEF Spec, Serializable, Serial!ASpec

-----------------------------------------------------------------------------
(* No lock is lost, the DSL nodes compare current priorities, and whoever is  *)
(* aborted is aborted for an elder: the invariants ReleaseInv and            *)
(* PriorityInv of Tm2cInv are inductive on top of IInv.                      *)

-----------------------------------------------------------------------------
(* Releases, node by node.                                                   *)

ReleaseAt(p) ==
  /\ pc[p] \in {"idle", "start"} => contacted[p] = {}
  /\ pc[p] \in {"send", "wait"} => LockDsl(p) \in contacted[p]
  /\ resp[p] = "CONFLICT" => \A a \in Addrs : Responsible[a] = LockDsl(p) => ~Holds(p, a)
  /\ \A a \in Addrs : Holds(p, a) =>
       Responsible[a] \in contacted[p] \/ chan[Responsible[a]][p].type = "RMV_NODE"

LEMMA ReleaseNodewise == /\ ReleaseInv <=> \A p \in Apps : ReleaseAt(p)
                         /\ ReleaseInv' <=> \A p \in Apps : ReleaseAt(p)'
BY DEF ReleaseInv, ReleaseAt, Contacts, Stripped, NoLostLock, Holds

\* A step of p leaves the others as they are.
LEMMA ReleaseOthers ==
  ASSUME TypeInv, ReleaseInv, NEW p \in Apps, Begin(p) \/ AppStep(p), ReleaseAt(p)'
  PROVE  ReleaseInv'
<1>1. Elsewhere(p) /\ UNCHANGED dslVars
  BY AppElsewhere
<1> SUFFICES ASSUME NEW q \in Apps, q # p
             PROVE  ReleaseAt(q)'
  BY ReleaseNodewise
<1>2. ReleaseAt(q) /\ LockDsl(q)' = LockDsl(q)
  BY <1>1, ReleaseNodewise, AskedSame DEF Elsewhere
<1>3. \A a \in Addrs : /\ Holds(q, a)' <=> Holds(q, a)
                       /\ chan'[Responsible[a]][q] = chan[Responsible[a]][q]
  BY <1>1, ResponsibleAssumption DEF Holds, dslVars, Elsewhere
<1> QED
  BY <1>1, <1>2, <1>3 DEF ReleaseAt, Elsewhere

\* A step that sends nothing, awaits nothing and releases nobody
LEMMA ReleaseQuiet ==
  ASSUME TypeInv, MsgInv, ReleaseInv, NEW p \in Apps, Begin(p) \/ AppStep(p),
         UNCHANGED <<chan, resp, contacted>>, pc'[p] \notin {"send", "wait"}, pc[p] # "wait",
         pc'[p] \in {"idle", "start"} => contacted[p] = {}
  PROVE  ReleaseInv'
<1>1. UNCHANGED dslVars /\ ReleaseAt(p) /\ resp[p] = "NONE"
  BY AppElsewhere, ReleaseNodewise DEF MsgInv, Answered, TypeInv, TypeOK
<1>2. ReleaseAt(p)'
  BY <1>1 DEF ReleaseAt, Holds, dslVars
<1> QED
  BY <1>2, ReleaseOthers

LEMMA ReleaseSend ==
  ASSUME TypeInv, MsgInv, ReleaseInv, NEW p \in Apps, Send(p)
  PROVE  ReleaseInv'
<1> DEFINE d == LockDsl(p)
<1>1. /\ ReleaseAt(p) /\ pc[p] = "send" /\ pc'[p] = "wait" /\ resp' = resp
      /\ chan[d][p] = NoMsg /\ UNCHANGED <<contacted, readers, writer>>
  BY ReleaseNodewise DEF Send, dslVars, TypeInv, TypeOK
<1>2. d' = d /\ d \in Dsls
  BY LockAddrType, ResponsibleAssumption, AskedSame, <1>1 DEF Send, LockDsl, TypeInv, Asking
<1>3. resp[p] = "NONE"
  BY <1>1 DEF MsgInv, Answered, TypeInv, TypeOK
<1>4. \A e \in Dsls \ {d} : chan'[e][p] = chan[e][p]
  BY <1>2 DEF Send, TypeInv, TypeOK
<1>5. ASSUME NEW a \in Addrs, Holds(p, a)'
      PROVE  Responsible[a] \in contacted[p] \/ chan'[Responsible[a]][p].type = "RMV_NODE"
  <2>1. Holds(p, a) /\ Responsible[a] \in Dsls
    BY <1>1, <1>5, ResponsibleAssumption DEF Holds
  <2>2. Responsible[a] \in contacted[p] \/ chan[Responsible[a]][p].type = "RMV_NODE"
    BY <1>1, <2>1 DEF ReleaseAt
  <2>3. CASE Responsible[a] = d
    BY <1>1, <2>2, <2>3 DEF NoMsg
  <2>4. CASE Responsible[a] # d
    BY <1>4, <2>1, <2>2, <2>4
  <2> QED
    BY <2>3, <2>4
<1>6. ReleaseAt(p)'
  BY <1>1, <1>2, <1>3, <1>5 DEF ReleaseAt
<1> QED
  BY <1>6, ReleaseOthers DEF AppStep

LEMMA ReleaseContact ==
  ASSUME TypeInv, MsgInv, ReleaseInv, NEW p \in Apps, Contact(p)
  PROVE  ReleaseInv'
<1>1. /\ ReleaseAt(p) /\ pc[p] = "body" /\ pc'[p] = "send"
      /\ contacted'[p] = contacted[p] \cup {LockDsl(p)}
      /\ UNCHANGED <<chan, resp, readers, writer>>
  BY ReleaseNodewise DEF Contact, dslVars, TypeInv, TypeOK
<1>2. LockDsl(p)' = LockDsl(p) /\ resp[p] = "NONE"
  BY <1>1, AskedSame DEF Contact, MsgInv, Answered, TypeInv, TypeOK
<1>3. ReleaseAt(p)'
  BY <1>1, <1>2 DEF ReleaseAt, Holds
<1> QED
  BY <1>3, ReleaseOthers DEF AppStep

\* The DSL node has kept no lock of a node that it refused.
LEMMA ReleaseRefused ==
  ASSUME TypeInv, MsgInv, ReleaseInv, NEW p \in Apps, Refused(p)
  PROVE  ReleaseInv'
<1>1. /\ ReleaseAt(p) /\ resp[p] = "CONFLICT" /\ resp'[p] = "NONE" /\ pc'[p] = "abort"
      /\ contacted'[p] = contacted[p] \ {LockDsl(p)}
      /\ UNCHANGED <<chan, readers, writer>>
  BY ReleaseNodewise DEF Refused, dslVars, TypeInv, TypeOK
<1>2. ReleaseAt(p)'
  BY <1>1 DEF ReleaseAt, Holds
<1> QED
  BY <1>2, ReleaseOthers DEF AppStep

LEMMA ReleaseGranted ==
  ASSUME TypeInv, MsgInv, ReleaseInv, NEW p \in Apps, Granted(p)
  PROVE  ReleaseInv'
<1>1. /\ ReleaseAt(p) /\ resp'[p] = "NONE" /\ pc'[p] = "body"
      /\ UNCHANGED <<chan, contacted, readers, writer>>
  BY ReleaseNodewise DEF Granted, dslVars, TypeInv, TypeOK
<1>2. ReleaseAt(p)'
  BY <1>1 DEF ReleaseAt, Holds
<1> QED
  BY <1>2, ReleaseOthers DEF AppStep

LEMMA ReleaseSendRelease ==
  ASSUME TypeInv, MsgInv, ReleaseInv, NEW p \in Apps, SendRelease(p)
  PROVE  ReleaseInv'
<1> DEFINE d == Min(contacted[p])
<1>1. d \in Dsls
  BY MinIsIn, NodesAssumption DEF SendRelease, TypeInv, TypeOK
<1>2. /\ ReleaseAt(p) /\ pc'[p] \in {"release", "abort"} /\ contacted'[p] = contacted[p] \ {d}
      /\ chan'[d][p].type = "RMV_NODE" /\ \A e \in Dsls \ {d} : chan'[e][p] = chan[e][p]
      /\ UNCHANGED <<resp, readers, writer>>
  BY <1>1, ReleaseNodewise DEF SendRelease, dslVars, TypeInv, TypeOK
<1>3. resp[p] = "NONE"
  BY DEF SendRelease, MsgInv, Answered, TypeInv, TypeOK
<1>4. \A a \in Addrs : Holds(p, a)' =>
        Responsible[a] \in contacted'[p] \/ chan'[Responsible[a]][p].type = "RMV_NODE"
  BY <1>2, ResponsibleAssumption DEF ReleaseAt, Holds
<1>5. ReleaseAt(p)'
  BY <1>2, <1>3, <1>4 DEF ReleaseAt
<1> QED
  BY <1>5, ReleaseOthers DEF AppStep

LEMMA ReleaseApp ==
  ASSUME TypeInv, MsgInv, ReleaseInv, NEW p \in Apps, Begin(p) \/ AppStep(p)
  PROVE  ReleaseInv'
<1>1. CASE Begin(p) \/ Running(p) \/ LoadOwn(p) \/ Store(p) \/ NoticeAbort(p)
  <2>1. /\ UNCHANGED <<chan, resp, contacted>> /\ pc[p] # "wait"
        /\ pc'[p] \notin {"send", "wait"}
        /\ pc'[p] \in {"idle", "start"} => pc[p] = "idle"
    BY <1>1 DEF Begin, Running, LoadOwn, Store, NoticeAbort, TypeInv, TypeOK
  <2>2. pc[p] = "idle" => contacted[p] = {}
    BY DEF ReleaseInv, Contacts
  <2> QED
    BY <2>1, <2>2, ReleaseQuiet
<1>2. CASE SetPersisting(p) \/ PersistEntry(p) \/ SetCommitted(p) \/ Committed(p) \/ Retry(p)
  <2>1. /\ UNCHANGED <<chan, resp, contacted>> /\ pc[p] # "wait"
        /\ pc'[p] \notin {"send", "wait"}
        /\ pc'[p] \in {"idle", "start"} => contacted[p] = {}
    BY <1>2 DEF SetPersisting, PersistEntry, SetCommitted, Committed, Retry, TypeInv, TypeOK
  <2> QED
    BY <2>1, ReleaseQuiet
<1> QED
  BY <1>1, <1>2, ReleaseSend, ReleaseContact, ReleaseRefused, ReleaseGranted,
     ReleaseSendRelease DEF AppStep

\* A step of a DSL node changes the locks, the replies and the slots.
LEMMA ReleaseDsl ==
  ASSUME ReleaseInv, UNCHANGED appVars, NEW q \in Apps,
         resp'[q] = "CONFLICT" =>
           \A a \in Addrs : Responsible[a] = LockDsl(q) => ~Holds(q, a)',
         \A a \in Addrs : Holds(q, a)' =>
           Responsible[a] \in contacted[q] \/ chan'[Responsible[a]][q].type = "RMV_NODE"
  PROVE  ReleaseAt(q)'
<1>1. LockDsl(q)' = LockDsl(q) /\ UNCHANGED <<pc, contacted>> /\ ReleaseAt(q)
  BY AskedKept, ReleaseNodewise DEF appVars
<1> QED
  BY <1>1 DEF ReleaseAt

\* A lock granted: the node that gets it counts its DSL node as contacted.
LEMMA ReleaseAcquire ==
  ASSUME TypeInv, ReleaseInv, UNCHANGED appVars, NEW d \in Dsls, NEW p \in Apps, NEW m,
         Awaits(p, d, m), m.addr \in Addrs, m.type \in {"LOAD", "STORE"}, Acquire(p, m),
         \A e \in Dsls, q \in Apps : chan[e][q].type = "RMV_NODE" => chan'[e][q] = chan[e][q]
  PROVE  ReleaseInv'
<1> SUFFICES ASSUME NEW q \in Apps
             PROVE  ReleaseAt(q)'
  BY ReleaseNodewise
<1>1. ReleaseAt(q)
  BY ReleaseNodewise
<1>2. /\ Responsible[m.addr] \in contacted[p] /\ Responsible \in [Addrs -> Dsls]
      /\ p # NoNode
  BY NodesAssumption, ResponsibleAssumption DEF ReleaseInv, Contacts, Awaits, LockDsl
<1>3. resp'[p] = "NO_CONFLICT" /\ (q # p => resp'[q] = resp[q])
  BY DEF Acquire, TypeInv, TypeOK
<1>4. ASSUME NEW a \in Addrs, Holds(q, a)', ~(q = p /\ a = m.addr)
      PROVE  Holds(q, a)
  <2>1. readers'[a] = readers[a] \/ (a = m.addr /\ readers'[a] = readers[a] \cup {p})
    BY DEF Acquire, TypeInv, TypeOK
  <2>2. writer'[a] = writer[a] \/ (a = m.addr /\ writer'[a] = p)
    BY DEF Acquire, TypeInv, TypeOK
  <2> QED
    BY <1>4, <2>1, <2>2 DEF Holds
<1>5. \A a \in Addrs : Holds(q, a)' =>
        Responsible[a] \in contacted[q] \/ chan'[Responsible[a]][q].type = "RMV_NODE"
  BY <1>1, <1>2, <1>4 DEF ReleaseAt
<1>6. resp'[q] = "CONFLICT" => \A a \in Addrs : Responsible[a] = LockDsl(q) => ~Holds(q, a)'
  BY <1>1, <1>3, <1>4 DEF ReleaseAt
<1> QED
  BY <1>5, <1>6, ReleaseDsl

\* The locks of v at d are gone, and nobody has got one.
LEMMA DeleteHolds ==
  ASSUME TypeOK, NEW d \in Dsls, NEW v \in Apps, DeleteNode(d, v), NEW q \in Apps
  PROVE  \A a \in Addrs : Holds(q, a)' => Holds(q, a) /\ ~(q = v /\ Responsible[a] = d)
<1>1. \A a \in Addrs : /\ writer'[a] = IF Responsible[a] = d /\ writer[a] = v THEN NoNode ELSE writer[a]
                       /\ readers'[a] = IF Responsible[a] = d THEN readers[a] \ {v} ELSE readers[a]
  BY DEF DeleteNode
<1> QED
  BY <1>1, NodesAssumption DEF Holds

LEMMA ReleaseDelete ==
  ASSUME TypeInv, ReleaseInv, UNCHANGED appVars, NEW d \in Dsls, NEW v \in Apps, DeleteNode(d, v),
         \A q \in Apps : resp'[q] = "CONFLICT" => resp[q] = "CONFLICT" \/ (q = v /\ d = LockDsl(v)),
         \A e \in Dsls, q \in Apps : chan[e][q].type = "RMV_NODE" =>
           chan'[e][q] = chan[e][q] \/ (e = d /\ q = v)
  PROVE  ReleaseInv'
<1> SUFFICES ASSUME NEW q \in Apps
             PROVE  ReleaseAt(q)'
  BY ReleaseNodewise
<1>1. ReleaseAt(q) /\ Responsible \in [Addrs -> Dsls]
  BY ReleaseNodewise, ResponsibleAssumption
<1>2. \A a \in Addrs : Holds(q, a)' => Holds(q, a) /\ ~(q = v /\ Responsible[a] = d)
  BY DeleteHolds DEF TypeInv
<1>3. \A a \in Addrs : Holds(q, a)' =>
        Responsible[a] \in contacted[q] \/ chan'[Responsible[a]][q].type = "RMV_NODE"
  BY <1>1, <1>2 DEF ReleaseAt
<1>4. resp'[q] = "CONFLICT" => \A a \in Addrs : Responsible[a] = LockDsl(q) => ~Holds(q, a)'
  BY <1>1, <1>2 DEF ReleaseAt
<1> QED
  BY <1>3, <1>4, ReleaseDsl

LEMMA ReleaseServe ==
  ASSUME TypeInv, MsgInv, ReleaseInv, NEW d \in Dsls, NEW p \in Apps, Serve(d, p)
  PROVE  ReleaseInv'
<1>1. /\ UNCHANGED appVars /\ Take(d, p)
      /\ \A e \in Dsls, q \in Apps : (e # d \/ q # p) => chan'[e][q] = chan[e][q]
  BY TakeFacts DEF Serve, Grant, Refuse, Contend, RemoveNode
<1>2. CASE Grant(d, p)
  <2>1. /\ Awaits(p, d, chan[d][p]) /\ Acquire(p, chan[d][p]) /\ chan[d][p].addr \in Addrs
        /\ chan[d][p].type \in {"LOAD", "STORE"}
    BY <1>2, OwnWord DEF Grant, MsgInv, Requested, IsRequest
  <2>2. \A e \in Dsls, q \in Apps : chan[e][q].type = "RMV_NODE" => chan'[e][q] = chan[e][q]
    BY <1>1, <2>1
  <2> QED
    BY <1>1, <2>1, <2>2, ReleaseAcquire
<1>3. CASE Refuse(d, p)
  <2>1. d = LockDsl(p) /\ DeleteNode(d, p) /\ resp' = [resp EXCEPT ![p] = "CONFLICT"]
    BY <1>3 DEF Refuse, MsgInv, Requested, Awaits
  <2>2. \A q \in Apps : q # p => resp'[q] = resp[q]
    BY <2>1 DEF TypeInv, TypeOK
  <2> QED
    BY <1>1, <2>1, <2>2, ReleaseDelete
<1>4. CASE RemoveNode(d, p)
  <2>1. DeleteNode(d, p) /\ resp' = resp
    BY <1>4 DEF RemoveNode
  <2> QED
    BY <1>1, <2>1, ReleaseDelete
<1>5. CASE Contend(d, p)
  <2>1. UNCHANGED <<resp, readers, writer>> /\ chan[d][p].type # "RMV_NODE"
    BY <1>5 DEF Contend, IsRequest
  <2>2. ASSUME NEW q \in Apps
        PROVE  ReleaseAt(q)'
    <3>1. ReleaseAt(q) /\ \A a \in Addrs : Holds(q, a)' <=> Holds(q, a)
      BY <2>1, ReleaseNodewise DEF Holds
    <3>2. \A a \in Addrs : chan[Responsible[a]][q].type = "RMV_NODE" =>
            chan'[Responsible[a]][q].type = "RMV_NODE"
      BY <1>1, <2>1, ResponsibleAssumption
    <3> QED
      BY <1>1, <2>1, <3>1, <3>2, ReleaseDsl DEF ReleaseAt
  <2> QED
    BY <2>2, ReleaseNodewise
<1> QED
  BY <1>2, <1>3, <1>4, <1>5 DEF Serve

LEMMA ReleaseKept ==
  ASSUME ReleaseInv, UNCHANGED vars
  PROVE  ReleaseInv'
<1>1. UNCHANGED appVars /\ \A q : LockDsl(q)' = LockDsl(q)
  BY AskedKept DEF vars
<1> QED
  BY <1>1 DEF ReleaseInv, Contacts, Stripped, NoLostLock, Holds, vars, appVars, dslVars

LEMMA ReleaseStep ==
  ASSUME TypeInv, MsgInv, ReleaseInv, [Next]_vars
  PROVE  ReleaseInv'
<1>1. CASE UNCHANGED vars
  BY <1>1, ReleaseKept
<1>2. CASE \E p \in Apps : Begin(p) \/ AppStep(p)
  BY <1>2, ReleaseApp
<1>3. ASSUME NEW d \in Dsls, GrantContended(d)
      PROVE  ReleaseInv'
  <2>1. PICK j \in Job : j = serving[d]
    BY <1>3 DEF GrantContended, TypeInv, TypeOK, Idle
  <2>2. /\ Awaits(j.app, d, j) /\ Acquire(j.app, j) /\ UNCHANGED <<appVars, chan>>
        /\ j.app \in Apps /\ j.addr \in Addrs /\ j.type \in {"LOAD", "STORE"}
    BY <1>3, <2>1 DEF GrantContended, MsgInv, Served, Job
  <2> QED
    BY <2>2, ReleaseAcquire
<1>4. ASSUME NEW d \in Dsls, AbortVictim(d)
      PROVE  ReleaseInv'
  <2>1. PICK v \in Apps : v = Min(victims[d])
    BY <1>4, MinIsIn, NodesAssumption DEF AbortVictim, TypeInv, TypeOK
  <2>2. DeleteNode(d, v) /\ UNCHANGED <<appVars, chan, resp>>
    BY <1>4, <2>1 DEF AbortVictim
  <2> QED
    BY <2>2, ReleaseDelete
<1> QED
  BY <1>1, <1>2, <1>3, <1>4, ReleaseServe DEF Next, Terminated, DslNext

LEMMA ReleaseInit == Init => ReleaseInv
BY NodesAssumption, ResponsibleAssumption DEF Init, ReleaseInv, Contacts, Stripped, NoLostLock

-----------------------------------------------------------------------------
(* Priorities, node by node.                                                 *)

StampedAt(p) == \A d \in Dsls :
  /\ IsRequest(chan[d][p]) => chan[d][p].meta = prio[p]
  /\ chan[d][p].type = "RMV_NODE" => chan[d][p].meta =< prio[p]

NotAheadAt(p) ==
  /\ \A d \in Dsls : ts[d][p] =< prio[p]
  /\ CM = "GREEDY" =>
       /\ prio[p] =< clock
       /\ resp[p] = "CONFLICT" => ts[LockDsl(p)][p] = 0
       /\ \A d \in Dsls : ts[d][p] # 0 =>
            \/ ts[d][p] = prio[p] /\ d \in contacted[p]
            \/ chan[d][p].type = "RMV_NODE"

NoticedAt(p) == HasCM =>
  /\ \A d \in Dsls : (~Idle(d) /\ serving[d].app = p) => ts[d][p] = prio[p]
  /\ resp[p] = "NO_CONFLICT" => ts[LockDsl(p)][p] = prio[p]

CurrentAt(p) == (HasCM /\ Live(p)) => \A a \in Relied(p) : ts[Responsible[a]][p] = prio[p]

PriorityAt(p) == StampedAt(p) /\ NotAheadAt(p) /\ NoticedAt(p) /\ CurrentAt(p)

Priorities == \A p \in Apps : PriorityAt(p)

LEMMA PriorityNodewise ==
  TypeInv /\ MsgInv => (PriorityInv <=> Rightful /\ Priorities)
<1> SUFFICES ASSUME TypeInv, MsgInv
             PROVE  PriorityInv <=> Rightful /\ Priorities
  OBVIOUS
<1>1. Stamped <=> \A p \in Apps : StampedAt(p)
  BY DEF Stamped, StampedAt
<1>2. NotAhead <=> \A p \in Apps : NotAheadAt(p)
  BY DEF NotAhead, NotAheadAt
<1>3. Noticed <=> \A p \in Apps : NoticedAt(p)
  <2>1. \A d \in Dsls : ~Idle(d) => serving[d].app \in Apps
    BY OwnWord
  <2> QED
    BY <2>1 DEF Noticed, NoticedAt
<1>4. PriorityCurrent <=> \A p \in Apps : CurrentAt(p)
  <2>1. \A p \in Apps : Relied(p) \subseteq Addrs
    BY ReliedType DEF Relied, MsgInv
  <2> QED
    BY <2>1 DEF PriorityCurrent, CurrentAt, Relied
<1> QED
  BY <1>1, <1>2, <1>3, <1>4 DEF PriorityInv, Priorities, PriorityAt

LEMMA PriorityNodewiseNext ==
  (TypeInv /\ MsgInv)' => (PriorityInv' <=> Rightful' /\ Priorities')
BY PriorityNodewise, PTL

\* Priorities only grow, and only between two attempts.
LEMMA PrioGrows ==
  ASSUME TypeInv, NEW p \in Apps, Begin(p) \/ AppStep(p)
  PROVE  /\ \A q \in Apps \ {p} : prio'[q] = prio[q]
         /\ clock =< clock'
         /\ Begin(p) \/ Committed(p) \/ prio'[p] = prio[p]
<1>1. prio \in [Apps -> Nat] /\ clock \in Nat
  BY DEF TypeInv, TypeOK
<1>2. CASE Begin(p)
  <2>1. \/ UNCHANGED <<clock, prio>>
        \/ CM = "GREEDY" /\ clock' = clock + 1 /\ prio' = [prio EXCEPT ![p] = clock + 1]
    BY <1>2 DEF Begin
  <2> QED
    BY <1>1, <1>2, <2>1
<1>3. CASE Committed(p)
  <2>1. CASE CM = "FAIRCM"
    <3>1. PICK t \in Durations : prio' = [prio EXCEPT ![p] = @ + t]
      BY <1>3, <2>1 DEF Committed
    <3>2. t \in Nat /\ clock' = clock
      BY <1>3, BoundsAssumption DEF Committed
    <3> QED
      BY <1>1, <1>3, <3>1, <3>2
  <2> QED
    BY <1>1, <1>3, <2>1 DEF Committed
<1>4. CASE AppStep(p) /\ ~Committed(p)
  BY <1>1, <1>4 DEF AppStep, Running, LoadOwn, Store, Contact, NoticeAbort, Send, Granted,
     Refused, SetPersisting, PersistEntry, SetCommitted, SendRelease, Retry
<1> QED
  BY <1>2, <1>3, <1>4

LEMMA PriorityOthers ==
  ASSUME TypeInv, MsgInv, (TypeInv /\ MsgInv)', PriorityInv, NEW p \in Apps,
         Begin(p) \/ AppStep(p), PriorityAt(p)'
  PROVE  PriorityInv'
<1>1. Elsewhere(p) /\ UNCHANGED dslVars
  BY AppElsewhere
<1>2. Rightful'
  BY <1>1 DEF PriorityInv, Rightful, dslVars, Idle
<1> SUFFICES ASSUME NEW q \in Apps, q # p
             PROVE  PriorityAt(q)'
  BY <1>2, PriorityNodewiseNext DEF Priorities
<1>3. /\ PriorityAt(q) /\ prio'[q] = prio[q] /\ prio[q] \in Nat
      /\ clock \in Nat /\ clock' \in Nat /\ clock =< clock'
  <2>1. PriorityAt(q)
    BY PriorityNodewise DEF Priorities
  <2>2. prio[q] \in Nat /\ clock \in Nat /\ clock' \in Nat
    BY DEF TypeInv, TypeOK
  <2> QED
    BY <2>1, <2>2, PrioGrows
<1>4. /\ LockDsl(q)' = LockDsl(q) /\ Relied(q)' = Relied(q) /\ Live(q)' = Live(q)
      /\ resp'[q] = resp[q] /\ contacted'[q] = contacted[q]
      /\ \A d \in Dsls : chan'[d][q] = chan[d][q]
  BY <1>1, AskedSame, ReliedSame DEF Elsewhere, Live
<1>5. StampedAt(q)'
  BY <1>3, <1>4 DEF PriorityAt, StampedAt
<1>6. NotAheadAt(q)'
  <2>1. ts' = ts
    BY <1>1 DEF dslVars
  <2> QED
    BY <1>3, <1>4, <2>1 DEF PriorityAt, NotAheadAt
<1>7. NoticedAt(q)' /\ CurrentAt(q)'
  BY <1>1, <1>3, <1>4 DEF PriorityAt, NoticedAt, CurrentAt, dslVars, Idle
<1> QED
  BY <1>5, <1>6, <1>7 DEF PriorityAt

\* The words an attempt relies on, over the steps of its node.
LEMMA ReliedStep ==
  ASSUME TypeInv, MsgInv, Unabortable, NEW p \in Apps, AppStep(p), Live(p)'
  PROVE  /\ Relied(p)' # {} => Live(p)
         /\ \/ Relied(p)' \subseteq Relied(p)
            \/ Granted(p) /\ Relied(p)' \subseteq Relied(p) \cup {LockAddr(p)}
<1>1. pc'[p] \in {"body", "send", "wait", "persist"}
  BY DEF Live
<1>2. CASE Running(p)
  <2>1. reads'[p] = {} /\ wset'[p] = <<>> /\ nw'[p] = 0 /\ pc'[p] = "body"
    BY <1>2 DEF Running, MsgInv, Clean, TypeInv, TypeOK
  <2>2. Relied(p)' = {}
    BY <2>1 DEF Relied, ReadAddrs, LockedAddrs, WrittenAddrs
  <2> QED
    BY <2>2
<1>3. CASE LoadOwn(p)
  <2>1. Live(p)
    BY <1>3 DEF LoadOwn, Live
  <2>2. Relied(p)' = Relied(p)
    BY <1>3 DEF LoadOwn, Relied, ReadAddrs, LockedAddrs, WrittenAddrs
  <2> QED
    BY <2>1, <2>2
<1>4. CASE Store(p)
  <2>1. Live(p)
    BY <1>4 DEF Store, Live
  <2> QED
    BY <1>4, <2>1, StoreRelied DEF Relied
<1>5. CASE Contact(p) \/ Send(p)
  <2>1. /\ pc[p] \in {"body", "send"} /\ pc'[p] \in {"send", "wait"}
        /\ UNCHANGED <<body, nw, wset, reads, flag, resp>>
    BY <1>5 DEF Contact, Send, TypeInv, TypeOK
  <2>2. Live(p)
    BY <2>1 DEF Live
  <2>3. ReadAddrs(p)' = ReadAddrs(p) /\ LockedAddrs(p)' = LockedAddrs(p)
    BY <2>1 DEF ReadAddrs, LockedAddrs, WrittenAddrs
  <2> QED
    BY <2>2, <2>3 DEF Relied
<1>6. CASE Granted(p)
  <2>1. Live(p)
    BY <1>6 DEF Granted, Live
  <2> QED
    BY <1>6, <2>1, GrantedRelied DEF Relied
<1>7. CASE SetPersisting(p)
  BY <1>7, PersistingRelied DEF Relied
<1>8. CASE PersistEntry(p)
  <2>1. Live(p)
    BY <1>8 DEF PersistEntry, Live
  <2>2. pc[p] = "persist" /\ pc' = pc
    BY <1>8 DEF PersistEntry
  <2>3. Relied(p)' = Relied(p)
    BY <1>8, <2>2 DEF PersistEntry, Relied, ReadAddrs, LockedAddrs, WrittenAddrs
  <2> QED
    BY <2>1, <2>3
<1>9. ~(NoticeAbort(p) \/ Refused(p) \/ SetCommitted(p) \/ SendRelease(p) \/ Committed(p)
        \/ Retry(p))
  BY <1>1 DEF NoticeAbort, Refused, SetCommitted, SendRelease, Committed, Retry, TypeInv, TypeOK
<1> QED
  BY <1>2, <1>3, <1>4, <1>5, <1>6, <1>7, <1>8, <1>9 DEF AppStep

\* What a DSL node serves or has answered belongs to a node that waits.
LEMMA Waiting ==
  ASSUME TypeInv, MsgInv, NEW p \in Apps, pc[p] # "wait"
  PROVE  /\ resp[p] = "NONE"
         /\ \A d \in Dsls : ~IsRequest(chan[d][p]) /\ (~Idle(d) => serving[d].app # p)
BY DEF TypeInv, TypeOK, MsgInv, Requested, Served, Answered, Awaits

\* Between two attempts, the priority grows or stays.
LEMMA PriorityBetween ==
  ASSUME TypeInv, MsgInv, ReleaseInv, PriorityInv, NEW p \in Apps, Begin(p) \/ Committed(p)
  PROVE  PriorityAt(p)'
<1>1. /\ pc[p] # "wait" /\ pc'[p] \in {"start", "idle"} /\ contacted[p] = {}
      /\ UNCHANGED <<chan, resp, contacted>> /\ UNCHANGED dslVars
  BY DEF Begin, Committed, TypeInv, TypeOK, ReleaseInv, Contacts
<1>2. PriorityAt(p) /\ resp[p] = "NONE"
      /\ \A d \in Dsls : ~IsRequest(chan[d][p]) /\ (~Idle(d) => serving[d].app # p)
  BY <1>1, PriorityNodewise, Waiting DEF Priorities
<1>3. /\ prio[p] \in Nat /\ clock \in Nat /\ prio[p] =< prio'[p] /\ prio'[p] \in Nat
      /\ CM = "GREEDY" => prio'[p] =< clock'
  <2>1. prio \in [Apps -> Nat] /\ clock \in Nat /\ (CM = "GREEDY" => prio[p] =< clock)
    BY <1>2 DEF TypeInv, TypeOK, PriorityAt, NotAheadAt
  <2>2. CASE Begin(p)
    BY <2>1, <2>2 DEF Begin
  <2>3. CASE Committed(p)
    <3>1. CASE CM = "FAIRCM"
      <4>1. PICK t \in Durations : prio' = [prio EXCEPT ![p] = @ + t]
        BY <2>3, <3>1 DEF Committed
      <4>2. t \in Nat /\ clock' = clock
        BY <2>3, BoundsAssumption DEF Committed
      <4> QED
        BY <2>1, <3>1, <4>1, <4>2
    <3>2. CASE CM # "FAIRCM"
      BY <2>1, <2>3, <3>2 DEF Committed
    <3> QED
      BY <3>1, <3>2
  <2> QED
    BY <2>2, <2>3
<1>4. \A d \in Dsls : /\ ts[d][p] \in Nat
                      /\ chan[d][p].type = "RMV_NODE" => chan[d][p].meta \in Nat
  BY MessageType DEF TypeInv, TypeOK, Release
<1>5. StampedAt(p)'
  <2>1. ASSUME NEW d \in Dsls, chan[d][p].type = "RMV_NODE"
        PROVE  chan[d][p].meta =< prio'[p]
    <3>1. chan[d][p].meta =< prio[p]
      BY <1>2, <2>1 DEF PriorityAt, StampedAt
    <3>2. chan[d][p].meta \in Nat
      BY <1>4, <2>1
    <3> QED
      BY <1>3, <3>1, <3>2
  <2> QED
    BY <1>1, <1>2, <2>1 DEF StampedAt
<1>6. NotAheadAt(p)'
  <2>1. ts' = ts
    BY <1>1 DEF dslVars
  <2>2. ASSUME NEW d \in Dsls
        PROVE  ts[d][p] =< prio'[p]
    <3>1. ts[d][p] =< prio[p]
      BY <1>2 DEF PriorityAt, NotAheadAt
    <3>2. ts[d][p] \in Nat
      BY <1>4
    <3> QED
      BY <1>3, <3>1, <3>2
  <2>3. CM = "GREEDY" => \A d \in Dsls : ts[d][p] # 0 => chan[d][p].type = "RMV_NODE"
    BY <1>1, <1>2 DEF PriorityAt, NotAheadAt
  <2> QED
    BY <1>1, <1>2, <1>3, <2>1, <2>2, <2>3 DEF NotAheadAt
<1>7. NoticedAt(p)' /\ CurrentAt(p)'
  BY <1>1, <1>2 DEF NoticedAt, CurrentAt, Live, dslVars, Idle
<1> QED
  BY <1>5, <1>6, <1>7 DEF PriorityAt

\* The attempt goes on, and relies on nothing new.
LEMMA CurrentStep ==
  ASSUME TypeInv, MsgInv, Unabortable, NEW p \in Apps, AppStep(p), ~Granted(p), CurrentAt(p),
         prio'[p] = prio[p]
  PROVE  CurrentAt(p)'
<1>1. ts' = ts
  BY AppElsewhere DEF dslVars
<1>2. Live(p)' /\ Relied(p)' # {} => Live(p) /\ Relied(p)' \subseteq Relied(p)
  BY ReliedStep
<1> QED
  BY <1>1, <1>2 DEF CurrentAt

LEMMA PriorityQuiet ==
  ASSUME TypeInv, MsgInv, Unabortable, PriorityInv, NEW p \in Apps, AppStep(p), pc[p] # "wait",
         UNCHANGED <<prio, clock, chan, resp>>, contacted[p] \subseteq contacted'[p]
  PROVE  PriorityAt(p)'
<1>1. /\ PriorityAt(p) /\ resp[p] = "NONE" /\ UNCHANGED dslVars
      /\ \A d \in Dsls : ~Idle(d) => serving[d].app # p
  BY PriorityNodewise, Waiting, AppElsewhere DEF Priorities
<1>2. StampedAt(p)'
  BY <1>1 DEF PriorityAt, StampedAt
<1>3. NotAheadAt(p)'
  BY <1>1 DEF PriorityAt, NotAheadAt, dslVars
<1>4. NoticedAt(p)'
  BY <1>1 DEF NoticedAt, dslVars, Idle
<1>5. ~Granted(p)
  BY DEF Granted
<1>6. CurrentAt(p)'
  BY <1>1, <1>5, CurrentStep DEF PriorityAt
<1> QED
  BY <1>2, <1>3, <1>4, <1>6 DEF PriorityAt

LEMMA PrioritySend ==
  ASSUME TypeInv, MsgInv, Unabortable, PriorityInv, NEW p \in Apps, Send(p)
  PROVE  PriorityAt(p)'
<1> DEFINE d == LockDsl(p)
<1>1. /\ PriorityAt(p) /\ resp[p] = "NONE" /\ UNCHANGED dslVars
      /\ \A e \in Dsls : ~Idle(e) => serving[e].app # p
  BY PriorityNodewise, Waiting, AppElsewhere DEF Priorities, Send, AppStep
<1>2. /\ d \in Dsls /\ chan[d][p] = NoMsg /\ UNCHANGED <<prio, clock, resp, contacted>>
      /\ chan'[d][p] = [type |-> LockType(p), addr |-> LockAddr(p), meta |-> prio[p]]
      /\ \A e \in Dsls \ {d} : chan'[e][p] = chan[e][p]
  BY LockAddrType, ResponsibleAssumption DEF Send, LockDsl, TypeInv, TypeOK, Asking
<1> HIDE DEF d
<1>3. StampedAt(p)'
  BY <1>1, <1>2 DEF PriorityAt, StampedAt, LockType
<1>4. NotAheadAt(p)'
  <2>1. \A e \in Dsls : chan[e][p].type = "RMV_NODE" => chan'[e][p].type = "RMV_NODE"
    BY <1>2 DEF NoMsg
  <2> QED
    BY <1>1, <1>2, <2>1 DEF PriorityAt, NotAheadAt, dslVars
<1>5. NoticedAt(p)'
  BY <1>1, <1>2 DEF NoticedAt, dslVars, Idle
<1>6. ~Granted(p) /\ AppStep(p)
  BY DEF Granted, Send, AppStep
<1>7. CurrentAt(p)'
  BY <1>1, <1>2, <1>6, CurrentStep DEF PriorityAt
<1> QED
  BY <1>3, <1>4, <1>5, <1>7 DEF PriorityAt

LEMMA PrioritySendRelease ==
  ASSUME TypeInv, MsgInv, Unabortable, PriorityInv, NEW p \in Apps, SendRelease(p)
  PROVE  PriorityAt(p)'
<1> DEFINE d == Min(contacted[p])
<1>1. /\ PriorityAt(p) /\ resp[p] = "NONE" /\ UNCHANGED dslVars
      /\ \A e \in Dsls : ~Idle(e) => serving[e].app # p
  BY PriorityNodewise, Waiting, AppElsewhere DEF Priorities, SendRelease, AppStep
<1>2. d \in Dsls
  BY MinIsIn, NodesAssumption DEF SendRelease, TypeInv, TypeOK
<1>3. /\ UNCHANGED <<prio, clock, resp>> /\ contacted'[p] = contacted[p] \ {d}
      /\ chan'[d][p] = [type |-> "RMV_NODE", meta |-> prio[p]] /\ prio[p] \in Nat
      /\ \A e \in Dsls \ {d} : chan'[e][p] = chan[e][p]
  BY <1>2 DEF SendRelease, TypeInv, TypeOK
<1> HIDE DEF d
<1>4. StampedAt(p)'
  BY <1>1, <1>3 DEF PriorityAt, StampedAt, IsRequest
<1>5. NotAheadAt(p)'
  <2>1. ts' = ts
    BY <1>1 DEF dslVars
  <2>2. CM = "GREEDY" => \A e \in Dsls : ts[e][p] # 0 =>
          \/ ts[e][p] = prio[p] /\ e \in contacted'[p]
          \/ chan'[e][p].type = "RMV_NODE"
    BY <1>1, <1>3 DEF PriorityAt, NotAheadAt
  <2> QED
    BY <1>1, <1>3, <2>1, <2>2 DEF PriorityAt, NotAheadAt
<1>6. NoticedAt(p)'
  BY <1>1, <1>3 DEF NoticedAt, dslVars, Idle
<1>7. ~Granted(p) /\ AppStep(p)
  BY DEF Granted, SendRelease, AppStep
<1>8. CurrentAt(p)'
  BY <1>1, <1>3, <1>7, CurrentStep DEF PriorityAt
<1> QED
  BY <1>4, <1>5, <1>6, <1>8 DEF PriorityAt

\* p reads its reply: a DSL node that refused p under GREEDY has forgotten it.
LEMMA PriorityAnswered ==
  ASSUME TypeInv, MsgInv, Unabortable, PriorityInv, NEW p \in Apps, Granted(p) \/ Refused(p)
  PROVE  PriorityAt(p)'
<1>1. /\ PriorityAt(p) /\ UNCHANGED dslVars /\ LockDsl(p) \in Dsls
      /\ \A e \in Dsls : ~Idle(e) => serving[e].app # p
  BY PriorityNodewise, AppElsewhere, WaitDsl
     DEF Priorities, Granted, Refused, AppStep, MsgInv, Served, Awaits
<1>2. /\ UNCHANGED <<prio, clock, chan>> /\ resp'[p] = "NONE"
      /\ Granted(p) => resp[p] = "NO_CONFLICT" /\ contacted' = contacted
      /\ Refused(p) => /\ resp[p] = "CONFLICT" /\ contacted'[p] = contacted[p] \ {LockDsl(p)}
                       /\ pc'[p] = "abort"
  BY DEF Granted, Refused, TypeInv, TypeOK
<1>3. StampedAt(p)'
  BY <1>1, <1>2 DEF PriorityAt, StampedAt
<1>4. NotAheadAt(p)'
  <2>1. ts' = ts
    BY <1>1 DEF dslVars
  <2>2. CM = "GREEDY" => \A e \in Dsls : ts[e][p] # 0 =>
          \/ ts[e][p] = prio[p] /\ e \in contacted'[p]
          \/ chan'[e][p].type = "RMV_NODE"
    BY <1>1, <1>2 DEF PriorityAt, NotAheadAt
  <2> QED
    BY <1>1, <1>2, <2>1, <2>2 DEF PriorityAt, NotAheadAt
<1>5. NoticedAt(p)'
  BY <1>1, <1>2 DEF NoticedAt, dslVars, Idle
<1>6. CurrentAt(p)'
  <2>1. CASE Refused(p)
    BY <1>2, <2>1 DEF CurrentAt, Live
  <2>2. CASE Granted(p)
    <3>1. ts' = ts /\ (Live(p)' => Live(p))
      BY <1>1, <2>2 DEF dslVars, Granted, Live
    <3>2. Relied(p)' \subseteq Relied(p) \cup {LockAddr(p)}
      BY <2>2, GrantedRelied DEF Relied
    <3>3. HasCM => ts[Responsible[LockAddr(p)]][p] = prio[p]
      BY <1>1, <1>2, <2>2 DEF PriorityAt, NoticedAt, LockDsl
    <3> QED
      BY <1>1, <1>2, <3>1, <3>2, <3>3 DEF PriorityAt, CurrentAt
  <2> QED
    BY <2>1, <2>2
<1> QED
  BY <1>3, <1>4, <1>5, <1>6 DEF PriorityAt

LEMMA PriorityApp ==
  ASSUME TypeInv, MsgInv, (TypeInv /\ MsgInv)', Unabortable, ReleaseInv, PriorityInv,
         NEW p \in Apps, Begin(p) \/ AppStep(p)
  PROVE  PriorityInv'
<1>1. CASE Running(p) \/ LoadOwn(p) \/ Store(p) \/ Contact(p) \/ NoticeAbort(p)
  <2>1. /\ UNCHANGED <<prio, clock, chan, resp>> /\ contacted[p] \subseteq contacted'[p]
        /\ pc[p] # "wait"
    BY <1>1 DEF Running, LoadOwn, Store, Contact, NoticeAbort, TypeInv, TypeOK
  <2> QED
    BY <1>1, <2>1, PriorityQuiet, PriorityOthers DEF AppStep
<1>2. CASE SetPersisting(p) \/ PersistEntry(p) \/ SetCommitted(p) \/ Retry(p)
  <2>1. UNCHANGED <<prio, clock, chan, resp, contacted>> /\ pc[p] # "wait"
    BY <1>2 DEF SetPersisting, PersistEntry, SetCommitted, Retry
  <2> QED
    BY <1>2, <2>1, PriorityQuiet, PriorityOthers DEF AppStep
<1> QED
  BY <1>1, <1>2, PriorityBetween, PrioritySend, PrioritySendRelease, PriorityAnswered,
     PriorityOthers DEF AppStep

\* A step of a DSL node, for a node about which it learns nothing new.
LEMMA PriorityDsl ==
  ASSUME UNCHANGED appVars, NEW q \in Apps, PriorityAt(q), Live(q)' => Live(q),
         \A e \in Dsls : ts'[e][q] = ts[e][q] /\ chan'[e][q] = chan[e][q],
         \A e \in Dsls : (~Idle(e)' /\ serving'[e].app = q) => ~Idle(e) /\ serving[e].app = q,
         LockDsl(q) \in Dsls \/ resp'[q] = "NONE", Relied(q) \subseteq Addrs,
         \/ resp'[q] = resp[q]
         \/ resp'[q] = "NO_CONFLICT" /\ (HasCM => ts[LockDsl(q)][q] = prio[q])
  PROVE  PriorityAt(q)'
<1>1. /\ UNCHANGED <<prio, clock, contacted>>
      /\ LockDsl(q)' = LockDsl(q) /\ Relied(q)' = Relied(q)
  BY AskedKept, ReliedSame DEF appVars
<1>2. StampedAt(q)'
  BY <1>1 DEF PriorityAt, StampedAt
<1>3. NotAheadAt(q)'
  BY <1>1 DEF PriorityAt, NotAheadAt
<1>4. NoticedAt(q)'
  BY <1>1 DEF PriorityAt, NoticedAt
<1>5. CurrentAt(q)'
  BY <1>1, ResponsibleAssumption DEF PriorityAt, CurrentAt
<1> QED
  BY <1>2, <1>3, <1>4, <1>5 DEF PriorityAt

LEMMA AnswerDsl ==
  ASSUME TypeInv, MsgInv, NEW q \in Apps
  PROVE  /\ LockDsl(q) \in Dsls \/ resp[q] = "NONE"
         /\ Relied(q) \subseteq Addrs
BY WaitDsl, ReliedType DEF Relied, MsgInv, Answered

\* The metadata of a request is the priority of the requester, and GREEDY, which keeps
\* what it noted first, has noted the same.
LEMMA NotedPrio ==
  ASSUME TypeInv, MsgInv, PriorityInv, NEW d \in Dsls, NEW p \in Apps, IsRequest(chan[d][p]), HasCM
  PROVE  NotedTs(d, p) = prio[p]
<1>1. StampedAt(p) /\ NotAheadAt(p)
  BY PriorityNodewise DEF Priorities, PriorityAt
<1>2. chan[d][p].meta = prio[p] /\ chan[d][p].type # "RMV_NODE"
  BY <1>1 DEF StampedAt, IsRequest
<1>3. CASE CM = "GREEDY"
  BY <1>1, <1>2, <1>3 DEF NotAheadAt, NotedTs
<1>4. CASE CM # "GREEDY"
  BY <1>2, <1>4 DEF NotedTs, HasCM
<1> QED
  BY <1>3, <1>4

\* What d notes is the priority of a request, and not ahead of the node for a release.
LEMMA NotedBehind ==
  ASSUME TypeInv, MsgInv, PriorityInv, NEW d \in Dsls, NEW p \in Apps,
         IsRequest(chan[d][p]) \/ chan[d][p].type = "RMV_NODE"
  PROVE  NotedTs(d, p) =< prio[p] /\ Forgotten(d, p) =< prio[p]
<1>1. /\ StampedAt(p) /\ NotAheadAt(p) /\ prio[p] \in Nat
      /\ (CM = "NOCM" => ts[d][p] =< prio[p])
  BY PriorityNodewise DEF Priorities, PriorityAt, NotAheadAt, TypeInv, TypeOK
<1>2. chan[d][p].meta =< prio[p] /\ ts[d][p] =< prio[p]
  BY <1>1 DEF StampedAt, NotAheadAt
<1>3. NotedTs(d, p) =< prio[p]
  BY <1>2 DEF NotedTs
<1> QED
  BY <1>1, <1>3 DEF Forgotten

\* The node whose message d takes
LEMMA PriorityServed ==
  ASSUME TypeInv, MsgInv, HoldInv, ReleaseInv, PriorityInv, NEW d \in Dsls, NEW p \in Apps,
         Serve(d, p)
  PROVE  PriorityAt(p)'
<1>1. /\ UNCHANGED appVars /\ chan'[d][p] = NoMsg /\ PriorityAt(p) /\ Idle(d)
      /\ \A e \in Dsls \ {d} : chan'[e][p] = chan[e][p] /\ ts'[e] = ts[e] /\ serving'[e] = serving[e]
  <2>1. /\ UNCHANGED appVars /\ Take(d, p) /\ Idle(d)
        /\ \A e \in Dsls \ {d} : ts'[e] = ts[e] /\ serving'[e] = serving[e]
    BY DEF Serve, Grant, Refuse, Contend, RemoveNode, TypeInv, TypeOK
  <2>2. PriorityAt(p)
    BY PriorityNodewise DEF Priorities
  <2> QED
    BY <2>1, <2>2, TakeFacts
<1>2. /\ UNCHANGED <<prio, clock, contacted, pc>> /\ prio[p] \in Nat
      /\ LockDsl(p)' = LockDsl(p) /\ Relied(p)' = Relied(p) /\ Relied(p) \subseteq Addrs
  BY <1>1, AskedKept, ReliedSame, AnswerDsl DEF appVars, TypeInv, TypeOK
<1>3. /\ ts'[d][p] =< prio[p]
      /\ Grant(d, p) \/ Contend(d, p) => ts'[d][p] = NotedTs(d, p)
      /\ Refuse(d, p) \/ RemoveNode(d, p) => ts'[d][p] = Forgotten(d, p)
  <2>1. /\ Grant(d, p) \/ Contend(d, p) => ts'[d][p] = NotedTs(d, p)
        /\ Refuse(d, p) \/ RemoveNode(d, p) => ts'[d][p] = Forgotten(d, p)
    BY DEF Grant, Contend, Refuse, RemoveNode, Noted, TypeInv, TypeOK
  <2>2. IsRequest(chan[d][p]) \/ chan[d][p].type = "RMV_NODE"
    BY DEF Serve, Grant, Contend, Refuse, RemoveNode
  <2> QED
    BY <2>1, <2>2, NotedBehind DEF Serve
<1>4. ~RemoveNode(d, p) => /\ d = LockDsl(p) /\ d \in contacted[p] /\ resp[p] = "NONE"
                           /\ HasCM => NotedTs(d, p) = prio[p]
  BY NotedPrio DEF Serve, Grant, Contend, Refuse, MsgInv, Requested, Awaits, ReleaseInv, Contacts
<1>5. RemoveNode(d, p) => /\ resp' = resp /\ serving' = serving /\ flag' = flag
                          /\ resp[p] = "NONE" \/ d # LockDsl(p)
                          /\ Live(p) => \A a \in Relied(p) : Responsible[a] # d
  BY Waiting, HoldNodewise DEF RemoveNode, MsgInv, Overtaken, HoldAt
<1>6. StampedAt(p)'
  BY <1>1, <1>2 DEF PriorityAt, StampedAt, IsRequest, NoMsg
<1>7. NotAheadAt(p)'
  <2>1. \A e \in Dsls : ts'[e][p] =< prio[p]
    BY <1>1, <1>3 DEF PriorityAt, NotAheadAt
  <2>2. ASSUME CM = "GREEDY", NEW e \in Dsls, ts'[e][p] # 0
        PROVE  \/ ts'[e][p] = prio[p] /\ e \in contacted[p]
               \/ chan'[e][p].type = "RMV_NODE"
    <3>1. CASE e # d
      BY <1>1, <2>2, <3>1 DEF PriorityAt, NotAheadAt
    <3>2. CASE e = d
      <4>1. Grant(d, p) \/ Contend(d, p)
        BY <1>3, <2>2, <3>2 DEF Serve, Forgotten
      <4>2. ~RemoveNode(d, p)
        BY <4>1 DEF Grant, Contend, RemoveNode, IsRequest
      <4> QED
        BY <1>3, <1>4, <2>2, <3>2, <4>1, <4>2 DEF HasCM
    <3> QED
      BY <3>1, <3>2
  <2>3. CM = "GREEDY" => prio[p] =< clock
    BY <1>1 DEF PriorityAt, NotAheadAt
  <2>4. ASSUME CM = "GREEDY", resp'[p] = "CONFLICT"
        PROVE  ts'[LockDsl(p)][p] = 0
    <3>1. CASE Refuse(d, p)
      <4>1. ~RemoveNode(d, p)
        BY <3>1 DEF Refuse, RemoveNode, IsRequest
      <4> QED
        BY <1>3, <1>4, <2>4, <3>1, <4>1 DEF Forgotten
    <3>2. CASE RemoveNode(d, p)
      <4>1. resp[p] = "CONFLICT" /\ LockDsl(p) \in Dsls \ {d}
        BY <1>5, <2>4, <3>2, AnswerDsl
      <4> QED
        BY <1>1, <2>4, <4>1 DEF PriorityAt, NotAheadAt
    <3>3. CASE Grant(d, p)
      BY <2>4, <3>3 DEF Grant, Acquire, TypeInv, TypeOK
    <3>4. CASE Contend(d, p)
      <4>1. ~RemoveNode(d, p) /\ resp' = resp
        BY <3>4 DEF Contend, RemoveNode, IsRequest
      <4> QED
        BY <1>4, <2>4, <4>1
    <3> QED
      BY <3>1, <3>2, <3>3, <3>4 DEF Serve
  <2> QED
    BY <1>2, <2>1, <2>2, <2>3, <2>4 DEF NotAheadAt
<1>8. NoticedAt(p)' /\ CurrentAt(p)'
  <2>1. CASE RemoveNode(d, p)
    <3>1. NoticedAt(p)'
      BY <1>1, <1>2, <1>5, <2>1, AnswerDsl DEF PriorityAt, NoticedAt, Idle
    <3>2. Live(p)' => Live(p)
      BY <1>2, <1>5, <2>1 DEF Live
    <3>3. CurrentAt(p)'
      BY <1>1, <1>2, <1>5, <2>1, <3>2, ResponsibleAssumption DEF PriorityAt, CurrentAt
    <3> QED
      BY <3>1, <3>3
  <2>2. CASE Refuse(d, p)
    <3>1. resp'[p] = "CONFLICT" /\ serving' = serving /\ ~RemoveNode(d, p)
      BY <2>2 DEF Refuse, RemoveNode, IsRequest, TypeInv, TypeOK
    <3>2. NoticedAt(p)'
      BY <1>1, <1>2, <3>1 DEF PriorityAt, NoticedAt, Idle
    <3> QED
      BY <3>1, <3>2 DEF CurrentAt, Live
  <2>3. CASE Grant(d, p) \/ Contend(d, p)
    <3>1. /\ ~RemoveNode(d, p) /\ flag' = flag
          /\ serving'[d].app = p \/ serving' = serving
      BY <2>3 DEF Grant, Contend, RemoveNode, IsRequest, TypeInv, TypeOK
    <3>2. HasCM => ts'[d][p] = prio[p]
      BY <1>3, <1>4, <2>3, <3>1
    <3>3. NoticedAt(p)'
      BY <1>1, <1>2, <1>4, <3>1, <3>2 DEF PriorityAt, NoticedAt, Idle
    <3>4. Live(p)' => Live(p)
      BY <1>2, <1>4, <3>1 DEF Live
    <3>5. CurrentAt(p)'
      BY <1>1, <1>2, <3>2, <3>4, ResponsibleAssumption DEF PriorityAt, CurrentAt
    <3> QED
      BY <3>3, <3>5
  <2> QED
    BY <2>1, <2>2, <2>3 DEF Serve
<1> QED
  BY <1>6, <1>7, <1>8 DEF PriorityAt

\* The requester that wins comes before all the holders.
LEMMA RightfulContend ==
  ASSUME TypeInv, MsgInv, Rightful, NEW d \in Dsls, NEW p \in Apps, Contend(d, p)
  PROVE  Rightful'
<1> DEFINE m == chan[d][p]
           t == Noted(d, p)
<1>1. m \in Request /\ Conflict(p, m) # "NO_CONFLICT" /\ Wins(t, p, m)
  BY OwnWord DEF Contend
<1>2. Defenders(p, m) \subseteq Apps /\ t \in [Apps -> Nat] /\ Apps \subseteq Nat
  BY <1>1, DefendersType, NotedType, NodesAssumption DEF TypeInv
<1>3. ASSUME NEW v \in Defenders(p, m) \ {p}
      PROVE  Beats(t, p, v)
  <2>1. v \in Apps /\ t[v] \in Nat /\ t[p] \in Nat /\ v \in Nat /\ p \in Nat /\ v # p
    BY <1>2
  <2>2. Beats(t, p, v) \/ ~Beats(t, v, p)
    BY <1>1 DEF Wins
  <2> QED
    BY <2>1, <2>2 DEF Beats
<1>4. /\ ts'[d] = t /\ serving'[d].app = p /\ victims'[d] = Defenders(p, m) \ {p}
      /\ \A e \in Dsls \ {d} : ts'[e] = ts[e] /\ serving'[e] = serving[e] /\ victims'[e] = victims[e]
  BY DEF Contend, TypeInv, TypeOK
<1> HIDE DEF m, t
<1> SUFFICES ASSUME NEW e \in Dsls, ~Idle(e)'
             PROVE  \A v \in victims'[e] : v # serving'[e].app /\ Beats(ts'[e], serving'[e].app, v)
  BY DEF Rightful
<1>5. CASE e = d
  BY <1>3, <1>4, <1>5
<1>6. CASE e # d
  BY <1>4, <1>6 DEF Rightful, Idle
<1> QED
  BY <1>5, <1>6

LEMMA PriorityServe ==
  ASSUME TypeInv, MsgInv, (TypeInv /\ MsgInv)', HoldInv, ReleaseInv, PriorityInv,
         NEW d \in Dsls, NEW p \in Apps, Serve(d, p)
  PROVE  PriorityInv'
<1>1. /\ UNCHANGED <<appVars, flag>> /\ Idle(d) /\ Take(d, p)
      /\ \A e \in Dsls, q \in Apps \ {p} : ts'[e][q] = ts[e][q]
      /\ \A e \in Dsls \ {d} : ts'[e] = ts[e] /\ serving'[e] = serving[e]
      /\ serving'[d].app = p \/ serving' = serving
      /\ \A q \in Apps \ {p} : resp'[q] = resp[q]
  <2>1. ts \in [Dsls -> [Apps -> Nat]] /\ serving \in [Dsls -> Job \cup {NoJob}]
    BY DEF TypeInv, TypeOK
  <2>2. CASE Grant(d, p)
    BY <2>1, <2>2 DEF Grant, Noted, Acquire, TypeInv, TypeOK
  <2>3. CASE Refuse(d, p)
    BY <2>1, <2>3 DEF Refuse, TypeInv, TypeOK
  <2>4. CASE Contend(d, p)
    BY <2>1, <2>4 DEF Contend, Noted
  <2>5. CASE RemoveNode(d, p)
    BY <2>1, <2>5 DEF RemoveNode
  <2> QED
    BY <2>2, <2>3, <2>4, <2>5 DEF Serve
<1>2. Rightful'
  <2>1. Rightful
    BY DEF PriorityInv
  <2>2. CASE Contend(d, p)
    BY <2>1, <2>2, RightfulContend
  <2>3. CASE ~Contend(d, p)
    <3>1. UNCHANGED <<serving, victims>>
      BY <2>3 DEF Serve, Grant, Refuse, RemoveNode
    <3> QED
      BY <1>1, <2>1, <3>1 DEF Rightful, Idle
  <2> QED
    BY <2>2, <2>3
<1>3. ASSUME NEW q \in Apps
      PROVE  PriorityAt(q)'
  <2>1. CASE q = p
    BY <2>1, PriorityServed
  <2>2. CASE q # p
    <3>1. PriorityAt(q) /\ (Live(q)' => Live(q))
      BY <1>1, <2>2, PriorityNodewise DEF Priorities, Live, appVars
    <3>2. \A e \in Dsls : ts'[e][q] = ts[e][q] /\ chan'[e][q] = chan[e][q]
      BY <1>1, <2>2, TakeFacts
    <3>3. \A e \in Dsls : (~Idle(e)' /\ serving'[e].app = q) => ~Idle(e) /\ serving[e].app = q
      BY <1>1, <2>2 DEF Idle
    <3>4. LockDsl(q) \in Dsls \/ resp'[q] = "NONE"
      BY <1>1, <2>2, AnswerDsl
    <3> QED
      BY <1>1, <2>2, <3>1, <3>2, <3>3, <3>4, AnswerDsl, PriorityDsl
  <2> QED
    BY <2>1, <2>2
<1> QED
  BY <1>2, <1>3, PriorityNodewiseNext DEF Priorities

LEMMA PriorityGrantContended ==
  ASSUME TypeInv, MsgInv, (TypeInv /\ MsgInv)', PriorityInv, NEW d \in Dsls, GrantContended(d)
  PROVE  PriorityInv'
<1>1. PICK p \in Apps : p = serving[d].app /\ Awaits(p, d, serving[d])
  BY OwnWord DEF GrantContended, MsgInv, Served
<1>2. /\ UNCHANGED <<appVars, flag, chan, ts, victims>> /\ ~Idle(d)
      /\ resp'[p] = "NO_CONFLICT" /\ \A q \in Apps \ {p} : resp'[q] = resp[q]
      /\ Idle(d)' /\ \A e \in Dsls \ {d} : serving'[e] = serving[e]
  BY <1>1 DEF GrantContended, Acquire, Idle, TypeInv, TypeOK
<1>3. Rightful'
  BY <1>2 DEF PriorityInv, Rightful, Idle
<1>4. ASSUME NEW q \in Apps
      PROVE  PriorityAt(q)'
  <2>1. PriorityAt(q) /\ \A e \in Dsls : (~Idle(e)' /\ serving'[e].app = q) => ~Idle(e) /\ serving[e].app = q
    BY <1>2, PriorityNodewise DEF Priorities, Idle
  <2>2. \/ resp'[q] = resp[q]
        \/ /\ resp'[q] = "NO_CONFLICT" /\ (HasCM => ts[LockDsl(q)][q] = prio[q])
           /\ LockDsl(q) \in Dsls
    BY <1>1, <1>2, <2>1 DEF PriorityAt, NoticedAt, Awaits
  <2>3. (LockDsl(q) \in Dsls \/ resp'[q] = "NONE") /\ Relied(q) \subseteq Addrs
    BY <2>2, AnswerDsl
  <2>4. Live(q)' => Live(q)
    BY <1>1, <1>2 DEF Live, Awaits, appVars
  <2> QED
    BY <1>2, <2>1, <2>2, <2>3, <2>4, PriorityDsl
<1> QED
  BY <1>3, <1>4, PriorityNodewiseNext DEF Priorities

LEMMA PriorityAbortVictim ==
  ASSUME TypeInv, MsgInv, (TypeInv /\ MsgInv)', PriorityInv, NEW d \in Dsls, AbortVictim(d)
  PROVE  PriorityInv'
<1>1. PICK v \in Apps : v = Min(victims[d])
  BY MinIsIn, NodesAssumption DEF AbortVictim, TypeInv, TypeOK
<1>2. /\ UNCHANGED <<appVars, chan, resp, ts, serving>> /\ AbortNode(v)
      /\ \A e \in Dsls : victims'[e] \subseteq victims[e]
  BY <1>1 DEF AbortVictim, TypeInv, TypeOK
<1>3. Rightful'
  BY <1>2 DEF PriorityInv, Rightful, Idle
<1>4. ASSUME NEW q \in Apps
      PROVE  PriorityAt(q)'
  <2>1. PriorityAt(q) /\ \A e \in Dsls : (~Idle(e)' /\ serving'[e].app = q) => ~Idle(e) /\ serving[e].app = q
    BY <1>2, PriorityNodewise DEF Priorities, Idle
  <2>2. Live(q)' => Live(q)
    BY <1>2 DEF Live, AbortNode, appVars, TypeInv, TypeOK
  <2>3. (LockDsl(q) \in Dsls \/ resp'[q] = "NONE") /\ Relied(q) \subseteq Addrs
    BY <1>2, AnswerDsl
  <2> QED
    BY <1>2, <2>1, <2>2, <2>3, PriorityDsl
<1> QED
  BY <1>3, <1>4, PriorityNodewiseNext DEF Priorities

LEMMA PriorityKept ==
  ASSUME PriorityInv, UNCHANGED vars
  PROVE  PriorityInv'
<1>1. UNCHANGED appVars /\ \A q : LockDsl(q)' = LockDsl(q)
  BY AskedKept DEF vars
<1>2. \A q : ReadAddrs(q)' = ReadAddrs(q) /\ LockedAddrs(q)' = LockedAddrs(q) /\ Live(q)' = Live(q)
  BY <1>1, ReliedSame DEF vars, appVars, Live
<1> USE <1>1 DEF vars, appVars, dslVars, Idle
<1>3. Stamped' /\ NotAhead' /\ Noticed' /\ Rightful'
  BY DEF PriorityInv, Stamped, NotAhead, Noticed, Rightful
<1>4. PriorityCurrent'
  BY <1>2 DEF PriorityInv, PriorityCurrent
<1> QED
  BY <1>3, <1>4 DEF PriorityInv

LEMMA PriorityStep ==
  ASSUME TypeInv, MsgInv, (TypeInv /\ MsgInv)', HoldInv, Unabortable, ReleaseInv, PriorityInv,
         [Next]_vars
  PROVE  PriorityInv'
<1>1. CASE UNCHANGED vars
  BY <1>1, PriorityKept
<1>2. CASE \E p \in Apps : Begin(p) \/ AppStep(p)
  BY <1>2, PriorityApp
<1>3. CASE \E d \in Dsls : DslNext(d)
  BY <1>3, PriorityServe, PriorityGrantContended, PriorityAbortVictim DEF DslNext
<1> QED
  BY <1>1, <1>2, <1>3 DEF Next, Terminated

LEMMA PriorityInit == Init => PriorityInv
BY DEF Init, PriorityInv, Stamped, NotAhead, Noticed, Rightful, PriorityCurrent, Live, Idle,
   IsRequest, NoMsg, NoJob

-----------------------------------------------------------------------------
(* The theorems.                                                             *)

Relations == IInv /\ ReleaseInv /\ PriorityInv

LEMMA RelationsStep == Relations /\ [Next]_vars => Relations'
<1> SUFFICES ASSUME Relations, [Next]_vars
             PROVE  Relations'
  OBVIOUS
<1>1. IInv /\ ReleaseInv /\ PriorityInv
  BY DEF Relations
<1>2. TypeInv /\ MsgInv /\ HoldInv /\ Unabortable
  BY <1>1 DEF IInv
<1>3. IInv' /\ (TypeInv /\ MsgInv)'
  <2>1. IInv'
    BY <1>1, IInvStep
  <2> QED
    BY <2>1 DEF IInv
<1>4. ReleaseInv' /\ PriorityInv'
  BY <1>1, <1>2, <1>3, ReleaseStep, PriorityStep
<1> QED
  BY <1>3, <1>4 DEF Relations

\* The relations between locks, releases, contacts and priorities that the
\* three theorems below rest on hold in every reachable state.
THEOREM Related == Spec => []Relations
<1>1. Init => Relations
  BY IInvInit, ReleaseInit, PriorityInit DEF Relations
<1> QED
  BY <1>1, RelationsStep, PTL DEF Spec

\* No lock is lost: for every lock of a node, tm2c_rpc_rls_all still counts its DSL node
\* in nodes_contacted, or the RMV_NODE that frees it is in the slot.
THEOREM LocksReleased == Spec => []NoLostLock
<1>1. Relations => NoLostLock
  BY DEF Relations, ReleaseInv
<1> QED
  BY <1>1, Related, PTL

\* The timestamp in cm_metadata_core of a node that holds a lock is that of the
\* transaction that holds it.
THEOREM PrioritiesCurrent == Spec => []PriorityCurrent
<1>1. Relations => PriorityCurrent
  BY DEF Relations, PriorityInv
<1> QED
  BY <1>1, Related, PTL

\* abort_node aborts a transaction only for one of higher priority, by the priorities
\* the two nodes have at that moment and not only by what the DSL node knows of them.
THEOREM AbortedByElder == Spec => KilledByElder
<1>1. Relations /\ [Next]_vars =>
        [\A p \in Apps : (flag[p] = "NO_CONFLICT" /\ flag'[p] = "CONFLICT") =>
           \E d \in Dsls : /\ serving[d] # NoJob /\ p \in victims[d]
                           /\ Elder(serving[d].app, p)]_vars
  <2> SUFFICES ASSUME Relations, Next, NEW v \in Apps, flag[v] = "NO_CONFLICT",
                      flag'[v] = "CONFLICT"
               PROVE  \E d \in Dsls : /\ serving[d] # NoJob /\ v \in victims[d]
                                      /\ Elder(serving[d].app, v)
    OBVIOUS
  <2>1. TypeInv /\ MsgInv /\ Unabortable /\ PriorityInv
    BY DEF Relations, IInv
  <2>2. ~\E p \in Apps : Begin(p) \/ AppStep(p)
    <3> SUFFICES ASSUME NEW p \in Apps, Begin(p) \/ AppStep(p)
                 PROVE  FALSE
      OBVIOUS
    <3>1. flag'[v] = flag[v] \/ flag'[v] \in {"NO_CONFLICT", "PERSISTING_WRITES", "TX_COMMITTED"}
      BY <2>1 DEF TypeInv, TypeOK, Begin, AppStep, Running, LoadOwn, Store, Contact, NoticeAbort,
         Send, Granted, Refused, SetPersisting, PersistEntry, SetCommitted, SendRelease,
         Committed, Retry
    <3> QED
      BY <3>1
  <2>3. PICK d \in Dsls : AbortVictim(d)
    BY <2>2 DEF Next, DslNext, Serve, GrantContended, Grant, Refuse, Contend, RemoveNode,
       Terminated, vars
  <2> DEFINE q == serving[d].app
  <2>4. ~Idle(d) /\ Min(victims[d]) \in victims[d] /\ victims[d] \subseteq Apps
    BY <2>1, <2>3, MinIsIn, NodesAssumption DEF AbortVictim, TypeInv, TypeOK
  <2>5. v = Min(victims[d])
    BY <2>1, <2>3, <2>4 DEF AbortVictim, AbortNode, TypeInv, TypeOK
  <2>6. HasCM /\ q \in Apps
    <3>1. q \in Apps
      BY <2>1, <2>4, OwnWord
    <3>2. HasCM
      BY <2>1, <2>4 DEF Unabortable
    <3> QED
      BY <3>1, <3>2
  <2>7. /\ Beats(ts[d], q, v) /\ ts[d][q] = prio[q] /\ ts[d][v] =< prio[v]
        /\ {prio[q], prio[v], ts[d][v], q, v} \subseteq Nat
    <3>1. Beats(ts[d], q, v)
      BY <2>1, <2>4, <2>5 DEF PriorityInv, Rightful
    <3>2. ts[d][q] = prio[q] /\ ts[d][v] =< prio[v]
      BY <2>1, <2>4, <2>6 DEF PriorityInv, Noticed, NotAhead
    <3>3. prio \in [Apps -> Nat] /\ ts[d] \in [Apps -> Nat] /\ Apps \subseteq Nat
      BY <2>1, NodesAssumption DEF TypeInv, TypeOK
    <3> QED
      BY <2>6, <3>1, <3>2, <3>3
  <2>8. Elder(q, v)
    BY <2>7 DEF Beats, Elder
  <2> QED
    BY <2>4, <2>5, <2>8 DEF Idle
<1> QED
  BY <1>1, Related, PTL DEF Spec, KilledByElder
=============================================================================
