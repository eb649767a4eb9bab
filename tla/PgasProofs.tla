----------------------------- MODULE PgasProofs -----------------------------
(***************************************************************************)
(* Theorems about the PGAS build, for any number of application nodes,     *)
(* DSL nodes and accounts, any transactions that use a word once, and all  *)
(* platforms and contention managers: a commit takes effect at once, and   *)
(* what a live attempt has read is current, but for the words it got by    *)
(* winning against their writer.  The total printed at the end is the sum  *)
(* of the accounts that the committed transactions leave.                  *)
(***************************************************************************)
EXTENDS Pgas, Sums

(* The inductive invariant, by node and by DSL node. *)

InAttempt(p) == pc[p] \in {"body", "send", "wait"}
HomeOf(p, i) == Responsible[body[p][i].addr]

\* Where the program of p is: the transactions of the stage "run", the code around them
\* in the others.  A word that is stored without a transaction is loaded later on.
Control(p) ==
  /\ stage = "run" => pc[p] \notin {"plain", "wait_plain", "end"}
  /\ stage \in {"reset", "warm", "total"} => pc[p] \in {"idle", "plain", "wait_plain", "barrier"}
  /\ stage = "end" => pc[p] = "end"
  /\ pc[p] \in {"start", "body", "send", "wait", "commit", "abort"} =>
       body[p] \in Bodies[p] /\ ntx[p] < MaxTx
  /\ pc[p] \in {"plain", "wait_plain"} => \A i \in DOMAIN body[p] :
       /\ body[p][i].op \in {"LOAD_NONTX", "STORE_NONTX"}
       /\ body[p][i].op = "STORE_NONTX" => \E k \in DOMAIN body[p] :
            k > i /\ body[p][k].op = "LOAD_NONTX" /\ body[p][k].addr = body[p][i].addr
  /\ pc[p] \in {"idle", "start", "barrier"} => ip[p] = 1
  /\ pc[p] \in {"send", "wait", "wait_plain"} => ip[p] \in DOMAIN body[p]

\* The DSL nodes an attempt has contacted are those of its words.
Contacts(p) ==
  /\ pc[p] \notin {"body", "send", "wait", "commit", "abort"} => contacted[p] = {} /\ seen[p] = {}
  /\ pc[p] \in {"send", "wait"} => Home(p) \in contacted[p]
  /\ pc[p] \in {"commit", "abort"} => unsent[p] \subseteq contacted[p]
  /\ \A d \in contacted[p] : \E i \in DOMAIN body[p] : HomeOf(p, i) = d

\* m, at d, is the request whose reply p awaits.
Asks(p, d, m) ==
  /\ pc[p] \in {"wait", "wait_plain"} /\ resp[p] = NoResp /\ d = Home(p)
  /\ m.type = Op(p).op /\ m.addr = Op(p).addr /\ m.val = Op(p).val

\* The message of p in the slot of d: a request p waits for, a store without a transaction
\* that a load at the same DSL node follows, or a release.  That of an aborted attempt is for a DSL
\* node that the next one has to reach before it can commit.
Requested(d, p) ==
  chan[d][p].type \in {"LOAD", "STORE", "STORE_INC", "LOAD_NONTX"} =>
    Asks(p, d, chan[d][p]) /\ (~Idle(d) => serving[d].app # p)
LoadFollows(d, p) ==
  chan[d][p].type = "STORE_NONTX" =>
    /\ pc[p] \in {"plain", "wait_plain"}
    /\ \E k \in DOMAIN body[p] : /\ k >= ip[p] /\ (pc[p] = "wait_plain" => k > ip[p])
                                 /\ body[p][k].op = "LOAD_NONTX" /\ HomeOf(p, k) = d
Releases(d, p) ==
  chan[d][p].type = "RMV_NODE" =>
    /\ InAttempt(p) => \A i \in DOMAIN body[p] :
         i < ip[p] \/ (i = ip[p] /\ pc[p] = "wait") => HomeOf(p, i) # d
    /\ ~chan[d][p].commit => /\ InAttempt(p) \/ pc[p] \in {"start", "abort"}
                             /\ \E i \in DOMAIN body[p] : HomeOf(p, i) = d
Slot(d, p) == Requested(d, p) /\ LoadFollows(d, p) /\ Releases(d, p)

Served(d) == ~Idle(d) => Asks(serving[d].app, d, serving[d].req)
Answered(p) == /\ resp[p] # NoResp => pc[p] \in {"wait", "wait_plain"}
               /\ resp[p].type = "CONFLICT" => pc[p] = "wait"

\* Where holders are aborted, a committed node waits until its release has been taken.
Waited(d, p) ==
  HasCM /\ chan[d][p].type = "RMV_NODE" /\ chan[d][p].commit => pc[p] = "commit" /\ d \in contacted[p]

\* The flag of p tells the DSL nodes whether p commits.
Flagged(p) == IF HasCM THEN pc[p] = "commit" <=> flag[p] = "PERSISTING_WRITES"
              ELSE flag[p] = "NO_CONFLICT"
Aborting(d) == ~Idle(d) => HasCM

\* What p has buffered at d is about words of d that p has locked for writing; it is there
\* as long as p runs, and until its release has been served.
Locked(d, p) ==
  \A j \in DOMAIN wsets[d][p] : Responsible[wsets[d][p][j].addr] = d /\ writer[wsets[d][p][j].addr] = p
ToBeReleased(d, p) ==
  wsets[d][p] # <<>> =>
    \/ chan[d][p].type = "RMV_NODE"
    \/ pc[p] \in {"commit", "abort"} /\ d \in unsent[p]
    \/ InAttempt(p) /\ d \in contacted[p] /\ ~(pc[p] = "wait" /\ resp[p].type = "CONFLICT" /\ d = Home(p))
Buffers(d, p) == Locked(d, p) /\ ToBeReleased(d, p)

\* The operations of the attempt that have been granted
GrantedOps(p) == {i \in DOMAIN body[p] : i < ip[p] \/ (i = ip[p] /\ pc[p] = "wait" /\ resp[p].type = "NO_CONFLICT")}

\* What an attempt has buffered at a DSL node it does not release is what it has stored.
Own(d, p) ==
  InAttempt(p) /\ chan[d][p].type # "RMV_NODE" =>
    \A j \in DOMAIN wsets[d][p] : \E i \in GrantedOps(p) :
      body[p][i].op \in Stores /\ body[p][i].addr = wsets[d][p][j].addr

\* A DSL node that aborts holders for a store has the writer, and the live readers, on its list.
Losing(d) ==
  ~Idle(d) /\ serving[d].req.type \in Stores =>
    LET a == serving[d].req.addr  w == writer[a] IN
    w \in {NoNode, serving[d].app} \cup victims[d] \/ wsets[d][w] = <<>>

\* p relies on the word a that it has read.
Relies(p, a) == /\ Live(p) /\ a \notin passed[p]
                /\ \E i \in GrantedOps(p) : body[p][i].op = "LOAD" /\ body[p][i].addr = a
Doomed(d) ==
  ~Idle(d) /\ serving[d].req.type \in Stores =>
    \A p \in readers[serving[d].req.addr] :
      p \in victims[d] \/ p = serving[d].app \/ ~Relies(p, serving[d].req.addr)

\* A live attempt has buffered what it has stored, computed from the memory as it is.
Stored(p) ==
  Live(p) => \A i \in GrantedOps(p) : body[p][i].op \in Stores =>
    LET o == body[p][i]  s == wsets[HomeOf(p, i)][p] IN
    /\ \E j \in DOMAIN s : s[j].addr = o.addr
    /\ \A j \in DOMAIN s : s[j].addr = o.addr =>
         s[j].val = IF o.op = "STORE" THEN o.val ELSE mem[o.addr] + o.val

\* What a live attempt has read, and not by winning, nobody has written or locked for writing.
ReadLocked(p) == \A a \in Accounts : Relies(p, a) => p \in readers[a] /\ writer[a] = NoNode
SeenCurrent(p) ==
  Live(p) => \A r \in seen[p] :
    /\ \E i \in GrantedOps(p) : body[p][i].op = "LOAD" /\ body[p][i].addr = r[1]
    /\ r[1] \in passed[p] \/ mem[r[1]] = r[2]
ReplyCurrent(p) ==
  Live(p) /\ pc[p] = "wait" /\ resp[p].type = "NO_CONFLICT" /\ Op(p).op = "LOAD" =>
    Op(p).addr \in passed[p] \/ mem[Op(p).addr] = resp[p].val
Read(p) == ReadLocked(p) /\ SeenCurrent(p) /\ ReplyCurrent(p)

NodeInv(p) == Control(p) /\ Contacts(p) /\ Answered(p) /\ Flagged(p)
DslInv(d) == Served(d) /\ Aborting(d)
SlotInv == \A d \in Dsls, p \in Apps : Slot(d, p)
WaitInv == \A d \in Dsls, p \in Apps : Waited(d, p)
BufferInv == \A d \in Dsls, p \in Apps : Buffers(d, p) /\ Own(d, p)
ValueInv == /\ \A p \in Apps : Stored(p) /\ Read(p)
            /\ \A d \in Dsls : Losing(d) /\ Doomed(d)

PgasInv == /\ TypeOK /\ (\A p \in Apps : NodeInv(p)) /\ (\A d \in Dsls : DslInv(d))
           /\ SlotInv /\ WaitInv /\ BufferInv /\ ValueInv

-----------------------------------------------------------------------------
(* Positions, and what is written back.                                      *)

LEMMA MinIn ==
  ASSUME NEW S \in SUBSET Nat, S # {}
  PROVE  Min(S) \in S /\ \A y \in S : Min(S) =< y
<1>1. PICK x \in S : \A y \in S : x =< y
  BY LeastIn
<1> QED
  BY <1>1 DEF Min

\* The last of some positions: SelectLastInSeq finds it.
LEMMA LastIn ==
  ASSUME NEW n \in Nat, NEW S \in SUBSET (1 .. n), S # {}
  PROVE  Max(S) \in S
<1> DEFINE T == {n - x : x \in S}
<1>1. T \in SUBSET Nat /\ T # {}
  <2>1. \A x \in S : x \in 1 .. n /\ n - x \in Nat
    OBVIOUS
  <2> QED
    BY <2>1
<1>2. PICK m : m = Min(T)
  OBVIOUS
<1>3. m \in T /\ \A y \in T : m =< y
  BY <1>1, <1>2, MinIn
<1>4. PICK x \in S : m = n - x
  BY <1>3
<1>5. \A y \in S : x >= y
  <2> SUFFICES ASSUME NEW y \in S PROVE x >= y
    OBVIOUS
  <2>1. n - y \in T
    OBVIOUS
  <2>2. n - x =< n - y
    BY <1>3, <1>4, <2>1
  <2> QED
    BY <2>2
<1> QED
  BY <1>5 DEF Max

LEMMA Joined ==
  ASSUME NEW S, NEW s \in Seq(S), NEW l \in Seq(S)
  PROVE  /\ s \o l \in Seq(S) /\ Len(s \o l) = Len(s) + Len(l)
         /\ \A i \in 1 .. Len(s) : (s \o l)[i] = s[i]
         /\ \A i \in 1 .. Len(l) : (s \o l)[Len(s) + i] = l[i]
OBVIOUS

Entries == [addr : Accounts, val : Int]
Buffered(s, a) == \E j \in DOMAIN s : s[j].addr = a

\* A word takes the value of one of its entries.
LEMMA WrittenBack ==
  ASSUME NEW s \in Seq(Entries), NEW a \in Accounts
  PROVE  /\ ~Buffered(s, a) => WriteBack(s)[a] = mem[a]
         /\ Buffered(s, a) => \E j \in DOMAIN s : s[j].addr = a /\ WriteBack(s)[a] = s[j].val
<1>1. CASE ~Buffered(s, a)
  BY <1>1 DEF WriteBack, Buffered
<1>2. CASE Buffered(s, a)
  <2> DEFINE I == {i \in 1 .. Len(s) : s[i].addr = a}
  <2>1. I # {} /\ I \in SUBSET (1 .. Len(s)) /\ Len(s) \in Nat
    BY <1>2 DEF Buffered
  <2>2. PICK j : j = Max(I)
    OBVIOUS
  <2>3. j \in I
    BY <2>1, <2>2, LastIn
  <2>4. WriteBack(s)[a] = s[IF I # {} THEN Max(I) ELSE 0].val
    BY <1>2 DEF WriteBack, Buffered, SelectLastInSeq
  <2>5. WriteBack(s)[a] = s[j].val
    BY <2>1, <2>2, <2>4
  <2> QED
    BY <1>2, <2>3, <2>5
<1> QED
  BY <1>1, <1>2

LEMMA WrittenBackTyped ==
  ASSUME NEW s \in Seq(Entries), mem \in [Accounts -> Int]
  PROVE  WriteBack(s) \in [Accounts -> Int]
<1>1. \A a \in Accounts : WriteBack(s)[a] \in Int
  <2> SUFFICES ASSUME NEW a \in Accounts PROVE WriteBack(s)[a] \in Int
    OBVIOUS
  <2>1. \A j \in DOMAIN s : s[j] \in Entries
    OBVIOUS
  <2> QED
    BY <2>1, WrittenBack DEF Entries
<1>2. WriteBack(s) = [a \in Accounts |-> WriteBack(s)[a]]
  BY DEF WriteBack
<1> QED
  BY <1>1, <1>2

-----------------------------------------------------------------------------
(* Types.                                                                    *)

LEMMA OpTyped ==
  ASSUME TypeOK, NEW p \in Apps, ip[p] \in DOMAIN body[p]
  PROVE  /\ Op(p) \in Operation /\ Op(p).addr \in Accounts /\ Op(p).val \in Int /\ Home(p) \in Dsls
         /\ Op(p).op \in {"LOAD", "STORE", "STORE_INC", "LOAD_NONTX", "STORE_NONTX"}
<1>1. Op(p) \in Operation
  BY DEF TypeOK, Op
<1> QED
  BY <1>1, PgasAssumption DEF Operation, TxOperation, Home

LEMMA InitTyped == Init => TypeOK
BY PgasAssumption DEF Init, TypeOK, NoMsg, NoResp

LEMMA OnceTyped == Once \in Apps
BY PgasAssumption, MinIn DEF Once

LEMMA EachTyped ==
  ASSUME NEW op \in {"LOAD_NONTX", "STORE_NONTX"}
  PROVE  /\ Each(op) \in Seq(Operation) /\ Len(Each(op)) = Size /\ DOMAIN Each(op) = 1 .. Size
         /\ \A i \in 1 .. Size : Each(op)[i].op = op /\ Each(op)[i].addr = i - 1
<1>1. \A i \in 1 .. Size : [op |-> op, addr |-> i - 1, val |-> 0] \in Operation
  BY PgasAssumption DEF Operation, Accounts
<1>2. Each(op) \in [1 .. Size -> Operation]
  BY <1>1 DEF Each
<1>3. Each(op) \in Seq(Operation) /\ Len(Each(op)) = Size
  BY <1>2, PgasAssumption
<1> QED
  BY <1>2, <1>3 DEF Each

LEMMA PlainTyped ==
  ASSUME NEW p \in Apps
  PROVE  /\ Plain(p) \in Seq(Operation)
         /\ \A i \in DOMAIN Plain(p) : Plain(p)[i].op \in {"LOAD_NONTX", "STORE_NONTX"}
         /\ \A i \in DOMAIN Plain(p) : Plain(p)[i].op = "STORE_NONTX" =>
              \E k \in DOMAIN Plain(p) :
                k > i /\ Plain(p)[k].op = "LOAD_NONTX" /\ Plain(p)[k].addr = Plain(p)[i].addr
<1>1. PICK l, s : l = Each("LOAD_NONTX") /\ s = Each("STORE_NONTX")
  OBVIOUS
<1>2. /\ l \in Seq(Operation) /\ Len(l) = Size /\ DOMAIN l = 1 .. Size
      /\ s \in Seq(Operation) /\ Len(s) = Size /\ DOMAIN s = 1 .. Size
      /\ \A i \in 1 .. Size : /\ l[i].op = "LOAD_NONTX" /\ l[i].addr = i - 1
                              /\ s[i].op = "STORE_NONTX" /\ s[i].addr = i - 1
  BY <1>1, EachTyped
<1>3. PICK b : b = s \o l
  OBVIOUS
<1>4. /\ b \in Seq(Operation) /\ DOMAIN b = 1 .. Size + Size
      /\ \A i \in 1 .. Size : b[i] = s[i] /\ b[Size + i] = l[i]
      /\ \A i \in 1 .. Size + Size : i \in 1 .. Size \/ i - Size \in 1 .. Size
  <2>1. Size \in Nat
    BY PgasAssumption
  <2>2. /\ b \in Seq(Operation) /\ Len(b) = Size + Size
        /\ \A i \in 1 .. Size : b[i] = s[i] /\ b[Size + i] = l[i]
    <3>1. s \in Seq(Operation) /\ l \in Seq(Operation)
      BY <1>2
    <3>2. /\ s \o l \in Seq(Operation) /\ Len(s \o l) = Len(s) + Len(l)
          /\ \A i \in 1 .. Len(s) : (s \o l)[i] = s[i]
          /\ \A i \in 1 .. Len(l) : (s \o l)[Len(s) + i] = l[i]
      BY <3>1, Joined
    <3> QED
      BY <1>2, <1>3, <3>2
  <2>3. DOMAIN b = 1 .. Size + Size
    BY <2>1, <2>2
  <2> QED
    BY <2>1, <2>2, <2>3
<1>5. \A i \in DOMAIN b : i \in 1 .. Size \/ (i > Size /\ b[i] = l[i - Size] /\ i - Size \in 1 .. Size)
  <2>1. Size \in Nat
    BY PgasAssumption
  <2>2. \A i \in DOMAIN b : i \in 1 .. Size \/ (i > Size /\ i - Size \in 1 .. Size)
    BY <1>4, <2>1
  <2>3. \A i \in DOMAIN b : i - Size \in 1 .. Size => b[i] = l[i - Size]
    <3> SUFFICES ASSUME NEW i \in DOMAIN b, i - Size \in 1 .. Size PROVE b[i] = l[i - Size]
      OBVIOUS
    <3>1. Size + (i - Size) = i
      BY <1>4, <2>1
    <3> QED
      BY <1>4, <3>1
  <2> QED
    BY <2>2, <2>3
<1>6. \A i \in DOMAIN b : b[i].op = "STORE_NONTX" =>
        \E k \in DOMAIN b : k > i /\ b[k].op = "LOAD_NONTX" /\ b[k].addr = b[i].addr
  <2> SUFFICES ASSUME NEW i \in DOMAIN b, b[i].op = "STORE_NONTX"
               PROVE \E k \in DOMAIN b : k > i /\ b[k].op = "LOAD_NONTX" /\ b[k].addr = b[i].addr
    OBVIOUS
  <2>1. i \in 1 .. Size
    BY <1>2, <1>5
  <2>2. Size + i \in DOMAIN b /\ Size + i > i /\ b[Size + i] = l[i] /\ b[i] = s[i]
    BY <1>4, <2>1, PgasAssumption
  <2> QED
    BY <1>2, <2>1, <2>2
<1>7. \A i \in DOMAIN b : b[i].op \in {"LOAD_NONTX", "STORE_NONTX"}
  BY <1>2, <1>4, <1>5
<1>8. Plain(p) = b \/ Plain(p) = l \/ Plain(p) = << >>
  BY <1>1, <1>3 DEF Plain, Reset, Total
<1>9. CASE Plain(p) = b
  BY <1>4, <1>6, <1>7, <1>9
<1>10. CASE Plain(p) = l
  <2>1. \A i \in DOMAIN l : l[i].op = "LOAD_NONTX"
    BY <1>2
  <2> QED
    BY <1>2, <1>10, <2>1
<1>11. CASE Plain(p) = << >>
  BY <1>11
<1> QED
  BY <1>8, <1>9, <1>10, <1>11

\* The program counters, the operations, the messages and the replies one at a time
LEMMA Typed ==
  ASSUME TypeOK, NEW p \in Apps
  PROVE  /\ ip[p] \in Nat \ {0} /\ prio[p] \in Nat /\ contacted[p] \in SUBSET Dsls
         /\ unsent[p] \in SUBSET Dsls /\ seen[p] \in SUBSET (Accounts \X Int)
         /\ resp[p].type \in {"NO_CONFLICT", "CONFLICT"} => resp[p].val \in Int
         /\ resp[p].type \in {"NONE", "NO_CONFLICT", "CONFLICT"} /\ (resp[p] = NoResp <=> resp[p].type = "NONE")
BY DEF TypeOK, Reply, NoResp

LEMMA MessageTyped ==
  ASSUME TypeOK, NEW p \in Apps, NEW d \in Dsls
  PROVE  /\ chan[d][p].type \in {"LOAD", "STORE", "STORE_INC"} => chan[d][p] \in Request
         /\ chan[d][p].type \in {"LOAD_NONTX", "STORE_NONTX"} => chan[d][p] \in PlainRequest
         /\ chan[d][p].type = "RMV_NODE" => chan[d][p] \in Release
         /\ chan[d][p].type \in {"NONE", "LOAD", "STORE", "STORE_INC", "LOAD_NONTX", "STORE_NONTX", "RMV_NODE"}
         /\ chan[d][p] # NoMsg => chan[d][p].meta \in Nat /\ chan[d][p].type # "NONE"
BY DEF TypeOK, Request, PlainRequest, Release, NoMsg

LEMMA BodyTyped ==
  ASSUME NEW p \in Apps, NEW b \in Bodies[p]
  PROVE  /\ b \in Seq(Operation) /\ \A i \in DOMAIN b : b[i].op \in {"LOAD", "STORE", "STORE_INC"}
         /\ \A i, j \in DOMAIN b : b[i].addr = b[j].addr => i = j
<1>1. b \in Seq(TxOperation) /\ \A i, j \in DOMAIN b : b[i].addr = b[j].addr => i = j
  BY PgasAssumption
<1>2. b \in Seq(Operation)
  BY <1>1 DEF Operation
<1>3. \A i \in DOMAIN b : b[i] \in TxOperation
  BY <1>1
<1> QED
  BY <1>1, <1>2, <1>3 DEF TxOperation

\* The types of the application nodes, of the messages and of the DSL nodes
TypesApp ==
  /\ build \in Builds /\ stage \in {"reset", "warm", "run", "total", "end"}
  /\ pc \in [Apps -> {"idle", "plain", "wait_plain", "barrier", "end", "start", "body", "send",
                      "wait", "commit", "abort"}]
  /\ body \in [Apps -> Seq(Operation)] /\ ip \in [Apps -> Nat \ {0}]
  /\ seen \in [Apps -> SUBSET (Accounts \X Int)]
  /\ contacted \in [Apps -> SUBSET Dsls] /\ unsent \in [Apps -> SUBSET Dsls]
  /\ prio \in [Apps -> Nat] /\ ntx \in [Apps -> 0 .. MaxTx] /\ clock \in Nat /\ sum \in [Apps -> Int]
TypesMsg ==
  /\ flag \in [Apps -> {"NO_CONFLICT", "CONFLICT", "PERSISTING_WRITES", "TX_COMMITTED"}]
  /\ chan \in [Dsls -> [Apps -> Request \cup PlainRequest \cup Release \cup {NoMsg}]]
  /\ resp \in [Apps -> Reply \cup {NoResp}]
TypesDsl ==
  /\ serving \in [Dsls -> [app : Apps, req : Request] \cup {NoMsg}]
  /\ mem \in [Accounts -> Int] /\ passed \in [Apps -> SUBSET Accounts]
  /\ wsets \in [Dsls -> [Apps -> Seq([addr : Accounts, val : Int])]]
  /\ readers \in [Accounts -> SUBSET Apps] /\ writer \in [Accounts -> Apps \cup {NoNode}]
  /\ ts \in [Dsls -> [Apps -> Nat]] /\ victims \in [Dsls -> SUBSET Apps]

LEMMA TypesAre == TypeOK <=> TypesApp /\ TypesMsg /\ TypesDsl
BY DEF TypeOK, TypesApp, TypesMsg, TypesDsl

LEMMA TypesNext == TypeOK' <=> (TypesApp /\ TypesMsg /\ TypesDsl)'
BY TypesAre, PTL

LEMMA TypedPlain ==
  ASSUME TypeOK, NEW p \in Apps, BeginPlain(p) \/ Begin(p) \/ ToBarrier(p)
  PROVE  TypeOK'
<1> USE TypesAre
<1>1. (TypesMsg /\ TypesDsl)'
  BY DEF TypesMsg, TypesDsl, BeginPlain, Begin, ToBarrier, dslVars, lockVars
<1>2. CASE BeginPlain(p)
  <2>1. Plain(p) \in Seq(Operation)
    BY PlainTyped
  <2>2. TypesApp'
    BY <1>2, <2>1 DEF TypesApp, BeginPlain
  <2> QED
    BY <1>1, <2>2, TypesNext
<1>3. CASE Begin(p)
  <2>1. PICK b \in Bodies[p] : body' = [body EXCEPT ![p] = b]
    BY <1>3 DEF Begin
  <2>2. b \in Seq(Operation)
    BY BodyTyped
  <2>4. clock' \in Nat /\ prio' \in [Apps -> Nat]
    BY <1>3 DEF TypesApp, Begin
  <2>5. body' \in [Apps -> Seq(Operation)]
    BY <2>1, <2>2 DEF TypesApp
  <2>6. /\ UNCHANGED <<build, stage, ip, seen, contacted, unsent, ntx, sum>>
        /\ pc' = [pc EXCEPT ![p] = "start"]
    BY <1>3 DEF Begin
  <2>3. TypesApp'
    BY <2>4, <2>5, <2>6 DEF TypesApp
  <2> QED
    BY <1>1, <2>3, TypesNext
<1>4. CASE ToBarrier(p)
  <2>1. TypesApp'
    BY <1>4 DEF TypesApp, ToBarrier
  <2> QED
    BY <1>1, <2>1, TypesNext
<1> QED
  BY <1>2, <1>3, <1>4

LEMMA TypedBarrier ==
  ASSUME TypeOK, \A p \in Apps : Control(p), Barrier
  PROVE  TypeOK'
<1> USE TypesAre
<1>1. stage # "end"
  BY PgasAssumption DEF Barrier, Control
<1>2. stage' \in {"reset", "warm", "run", "total", "end"}
  BY <1>1 DEF Barrier, TypesApp
<1>3. (TypesMsg /\ TypesDsl)'
  BY DEF TypesMsg, TypesDsl, Barrier, dslVars, lockVars
<1>4. TypesApp'
  BY <1>2 DEF TypesApp, Barrier
<1> QED
  BY <1>3, <1>4, TypesNext

LEMMA TypedSend ==
  ASSUME TypeOK, NEW p \in Apps, Control(p), Send(p)
  PROVE  TypeOK'
<1>1. ip[p] \in DOMAIN body[p]
  <2>1. body[p] \in Seq(Operation) /\ ip[p] \in Nat \ {0}
    BY DEF TypeOK
  <2> QED
    BY <2>1 DEF Send, Control, BodyDone
<1>2. PICK d, m : /\ d = Home(p) /\ m = [type |-> Op(p).op, addr |-> Op(p).addr, val |-> Op(p).val, meta |-> prio[p]]
                  /\ chan' = [chan EXCEPT ![d][p] = m]
  BY DEF Send
<1>3. d \in Dsls /\ m \in Request \cup PlainRequest
  BY <1>1, <1>2, OpTyped, Typed DEF Request, PlainRequest
<1> USE TypesAre
<1>4. TypesMsg'
  <2>1. chan' \in [Dsls -> [Apps -> Request \cup PlainRequest \cup Release \cup {NoMsg}]]
    BY <1>2, <1>3 DEF TypesMsg
  <2> QED
    BY <2>1 DEF TypesMsg, Send
<1>5. TypesDsl'
  BY DEF TypesDsl, Send, dslVars, lockVars
<1>6. TypesApp'
  <2>1. UNCHANGED <<build, stage, body, seen, contacted, unsent, prio, ntx, clock, sum>>
    BY DEF Send
  <2>2. ip' \in [Apps -> Nat \ {0}]
    <3>1. CASE Op(p).op = "STORE_NONTX"
      <4>1. ip' = [ip EXCEPT ![p] = @ + 1]
        BY <3>1 DEF Send
      <4> QED
        BY <4>1 DEF TypesApp
    <3>2. CASE Op(p).op # "STORE_NONTX"
      BY <3>2 DEF TypesApp, Send
    <3> QED
      BY <3>1, <3>2
  <2>3. \/ pc' = [pc EXCEPT ![p] = "wait"] \/ pc' = [pc EXCEPT ![p] = "wait_plain"] \/ pc' = pc
    BY DEF Send
  <2> QED
    BY <2>1, <2>2, <2>3 DEF TypesApp
<1> QED
  BY <1>4, <1>5, <1>6, TypesNext

LEMMA TypedReply ==
  ASSUME TypeOK, NEW p \in Apps, Control(p), Granted(p) \/ GotPlain(p) \/ Refused(p)
  PROVE  TypeOK'
<1>1. /\ Op(p).addr \in Accounts /\ resp[p].val \in Int
  BY OpTyped, Typed DEF Control, Granted, GotPlain, Refused
<1> USE TypesAre
<1>2. TypesMsg'
  BY DEF TypesMsg, Granted, GotPlain, Refused
<1>3. TypesDsl'
  BY DEF TypesDsl, Granted, GotPlain, Refused, dslVars, lockVars
<1>4. CASE Granted(p)
  <2>1. seen' \in [Apps -> SUBSET (Accounts \X Int)]
    BY <1>1, <1>4 DEF TypesApp, Granted
  <2>2. TypesApp'
    BY <1>4, <2>1 DEF TypesApp, Granted
  <2> QED
    BY <1>2, <1>3, <2>2, TypesNext
<1>5. CASE GotPlain(p)
  <2>1. TypesApp'
    BY <1>1, <1>5 DEF TypesApp, GotPlain
  <2> QED
    BY <1>2, <1>3, <2>1, TypesNext
<1>6. CASE Refused(p)
  <2>1. TypesApp'
    BY <1>6 DEF TypesApp, Refused
  <2> QED
    BY <1>2, <1>3, <2>1, TypesNext
<1> QED
  BY <1>4, <1>5, <1>6

LEMMA TypedSendRelease ==
  ASSUME TypeOK, NEW p \in Apps, SendRelease(p)
  PROVE  TypeOK'
<1>1. PICK d, m : /\ d = Min(unsent[p]) /\ m = [type |-> "RMV_NODE", commit |-> pc[p] = "commit", meta |-> prio[p]]
                  /\ chan' = [chan EXCEPT ![d][p] = m] /\ unsent' = [unsent EXCEPT ![p] = @ \ {d}]
  BY DEF SendRelease
<1>2. unsent[p] \in SUBSET Nat /\ unsent[p] \in SUBSET Dsls /\ unsent[p] # {}
  BY PgasAssumption DEF TypeOK, SendRelease
<1>3. d \in Dsls
  BY <1>1, <1>2, MinIn
<1>4. m \in Release
  BY <1>1, Typed DEF Release
<1> USE TypesAre
<1>5. TypesMsg'
  <2>1. chan' \in [Dsls -> [Apps -> Request \cup PlainRequest \cup Release \cup {NoMsg}]]
    BY <1>1, <1>3, <1>4 DEF TypesMsg
  <2> QED
    BY <2>1 DEF TypesMsg, SendRelease
<1>6. TypesDsl'
  BY DEF TypesDsl, SendRelease, dslVars, lockVars
<1>7. TypesApp'
  BY <1>1 DEF TypesApp, SendRelease
<1> QED
  BY <1>5, <1>6, <1>7, TypesNext

LEMMA TypedEnd ==
  ASSUME TypeOK, NEW p \in Apps, Control(p), Committed(p) \/ Retry(p)
  PROVE  TypeOK'
<1> USE TypesAre
<1>1. TypesMsg'
  BY DEF TypesMsg, Committed, Retry
<1>2. TypesDsl'
  BY DEF TypesDsl, Committed, Retry, lockVars
<1>3. CASE Committed(p)
  <2>1. ntx[p] + 1 \in 0 .. MaxTx
    BY <1>3, PgasAssumption DEF Committed, Control, TypesApp
  <2>2. TypesApp'
    BY <1>3, <2>1 DEF TypesApp, Committed, ClearAttempt
  <2> QED
    BY <1>1, <1>2, <2>2, TypesNext
<1>4. CASE Retry(p)
  <2>1. TypesApp'
    BY <1>4 DEF TypesApp, Retry, ClearAttempt
  <2> QED
    BY <1>1, <1>2, <2>1, TypesNext
<1> QED
  BY <1>3, <1>4

LEMMA TypedApp ==
  ASSUME TypeOK, NEW p \in Apps, Control(p), AppStep(p)
  PROVE  TypeOK'
<1>1. CASE Running(p) \/ NoticeAbort(p) \/ SetPersisting(p)
  <2> USE TypesAre
  <2>1. TypesApp'
    BY <1>1 DEF TypesApp, Running, NoticeAbort, SetPersisting
  <2>2. TypesMsg'
    BY <1>1 DEF TypesMsg, Running, NoticeAbort, SetPersisting
  <2>3. TypesDsl'
    BY <1>1 DEF TypesDsl, Running, NoticeAbort, SetPersisting, dslVars, lockVars
  <2> QED
    BY <2>1, <2>2, <2>3, TypesNext
<1>2. CASE Contact(p)
  <2>1. Home(p) \in Dsls
    <3>1. body[p] \in Seq(Operation) /\ ip[p] \in Nat \ {0}
      BY DEF TypeOK
    <3> QED
      BY <1>2, <3>1, OpTyped DEF Contact, BodyDone
  <2> USE TypesAre
  <2>2. TypesApp'
    BY <1>2, <2>1 DEF TypesApp, Contact
  <2>3. (TypesMsg /\ TypesDsl)'
    BY <1>2 DEF TypesMsg, TypesDsl, Contact, dslVars, lockVars
  <2> QED
    BY <2>2, <2>3, TypesNext
<1> QED
  BY <1>1, <1>2, TypedPlain, TypedSend, TypedReply, TypedSendRelease, TypedEnd DEF AppStep

-----------------------------------------------------------------------------
(* What a DSL node does with the request m of p: it grants it, takes it up   *)
(* to abort the holders, or refuses it.                                      *)

Kept == UNCHANGED <<build, stage, appVars, flag>>

Accept(d, p, m) ==
  /\ m = chan[d][p] /\ Idle(d) /\ m.type \in {"LOAD", "STORE", "STORE_INC"} /\ Take(d, p)
  /\ Conflict(p, m) = {} /\ Grant(d, p, m)
  /\ Kept /\ UNCHANGED <<mem, passed, serving, victims>>
Contest(d, p, m) ==
  /\ m = chan[d][p] /\ Idle(d) /\ m.type \in {"LOAD", "STORE", "STORE_INC"} /\ Take(d, p)
  /\ HasCM /\ serving' = [serving EXCEPT ![d] = [app |-> p, req |-> m]]
  /\ victims' = [victims EXCEPT ![d] = Conflict(p, m)]
  /\ Kept /\ UNCHANGED <<mem, passed, resp, wsets, lockVars>>
Reject(d, p, m) ==
  /\ m = chan[d][p] /\ Idle(d) /\ m.type \in {"LOAD", "STORE", "STORE_INC"} /\ Take(d, p)
  /\ resp' = [resp EXCEPT ![p] = [type |-> "CONFLICT", val |-> 0]]
  /\ DeleteNode(d, p) /\ Emptied(d, p)
  /\ Kept /\ UNCHANGED <<mem, passed, serving, victims>>

LEMMA NotedTyped ==
  ASSUME TypeOK, NEW d \in Dsls, NEW p \in Apps, chan[d][p] # NoMsg
  PROVE  Noted(d, p) \in [Apps -> Nat] /\ NotedTs(d, p) \in Nat /\ Forgotten(d, p) \in Nat
<1>1. ts[d][p] \in Nat /\ ts[d] \in [Apps -> Nat] /\ chan[d][p].meta \in Nat
  BY MessageTyped DEF TypeOK
<1>2. NotedTs(d, p) \in Nat
  BY <1>1 DEF NotedTs
<1>3. Noted(d, p) \in [Apps -> Nat]
  BY <1>1, <1>2 DEF Noted
<1>4. Forgotten(d, p) \in Nat
  BY <1>2 DEF Forgotten
<1> QED
  BY <1>2, <1>3, <1>4

LEMMA ServeIs ==
  ASSUME TypeOK, NEW d \in Dsls, NEW p \in Apps, NEW type \in {"LOAD", "STORE", "STORE_INC"},
         NEW resets \in BOOLEAN, Serve(d, p, type, resets)
  PROVE  /\ \E m : Accept(d, p, m) \/ Contest(d, p, m) \/ Reject(d, p, m)
         /\ ts' \in [Dsls -> [Apps -> Nat]]
<1>1. PICK m : m = chan[d][p]
  OBVIOUS
<1>2. m.type \in {"LOAD", "STORE", "STORE_INC"} /\ Idle(d) /\ Take(d, p) /\ Kept /\ UNCHANGED <<mem, passed>>
  BY <1>1 DEF Serve, Kept
<1>3. /\ Noted(d, p) \in [Apps -> Nat] /\ Forgotten(d, p) \in Nat
  BY <1>1, <1>2, NotedTyped DEF NoMsg
<1>4. ts \in [Dsls -> [Apps -> Nat]]
  BY DEF TypeOK
<1>5. CASE Conflict(p, m) = {}
  <2>1. /\ Grant(d, p, m) /\ UNCHANGED <<serving, victims>> /\ ts' = [ts EXCEPT ![d] = Noted(d, p)]
    BY <1>1, <1>5 DEF Serve
  <2>2. Accept(d, p, m)
    BY <1>1, <1>2, <1>5, <2>1 DEF Accept
  <2> QED
    BY <1>3, <1>4, <2>1, <2>2
<1>6. CASE Conflict(p, m) # {} /\ Wins(Noted(d, p), p, m)
  <2>1. /\ serving' = [serving EXCEPT ![d] = [app |-> p, req |-> m]]
        /\ victims' = [victims EXCEPT ![d] = Conflict(p, m)] /\ ts' = [ts EXCEPT ![d] = Noted(d, p)]
        /\ UNCHANGED <<resp, wsets, lockVars>>
    BY <1>1, <1>6 DEF Serve
  <2>2. Contest(d, p, m)
    BY <1>1, <1>2, <1>6, <2>1 DEF Contest, Wins
  <2> QED
    BY <1>3, <1>4, <2>1, <2>2
<1>7. CASE Conflict(p, m) # {} /\ ~Wins(Noted(d, p), p, m)
  <2>1. /\ resp' = [resp EXCEPT ![p] = [type |-> "CONFLICT", val |-> 0]]
        /\ DeleteNode(d, p) /\ Emptied(d, p) /\ UNCHANGED <<serving, victims>>
        /\ ts' = [ts EXCEPT ![d] = IF resets THEN [ts[d] EXCEPT ![p] = Forgotten(d, p)] ELSE Noted(d, p)]
    BY <1>1, <1>7 DEF Serve
  <2>2. Reject(d, p, m)
    BY <1>1, <1>2, <2>1 DEF Reject
  <2>3. [ts[d] EXCEPT ![p] = Forgotten(d, p)] \in [Apps -> Nat]
    BY <1>3, <1>4
  <2> QED
    BY <1>3, <1>4, <2>1, <2>2, <2>3
<1> QED
  BY <1>5, <1>6, <1>7

\* The same on every platform
LEMMA DslIs ==
  ASSUME TypeOK, NEW d \in Dsls, NEW p \in Apps, dsl_service(d, p)
  PROVE  /\ (\E m : Accept(d, p, m) \/ Contest(d, p, m) \/ Reject(d, p, m))
              \/ ServeLoadNontx(d, p) \/ ServeStoreNontx(d, p) \/ RemoveNode(d, p)
         /\ ts' \in [Dsls -> [Apps -> Nat]]
<1>1. (\E resets \in BOOLEAN : Requests(d, p, resets)) \/ Others(d, p)
  BY DEF dsl_service, RequestsDefault, RequestsOpteron, RequestsNiagara, RequestsXeon, RequestsTilera,
     RequestsScc, OthersDefault, OthersOpteron, OthersNiagara, OthersXeon, OthersTilera, OthersScc
<1>2. CASE \E resets \in BOOLEAN : Requests(d, p, resets)
  <2>1. PICK resets \in BOOLEAN, type \in {"LOAD", "STORE", "STORE_INC"} : Serve(d, p, type, resets)
    BY <1>2 DEF Requests
  <2> QED
    BY <2>1, ServeIs
<1>3. CASE Others(d, p)
  <2>1. chan[d][p] # NoMsg
    BY <1>3 DEF Others, ServeLoadNontx, ServeStoreNontx, RemoveNode, NoMsg
  <2>2. Noted(d, p) \in [Apps -> Nat] /\ Forgotten(d, p) \in Nat /\ ts \in [Dsls -> [Apps -> Nat]]
    BY <2>1, NotedTyped DEF TypeOK
  <2>3. ts' = [ts EXCEPT ![d] = Noted(d, p)] \/ ts' = [ts EXCEPT ![d][p] = Forgotten(d, p)]
    BY <1>3 DEF Others, ServeLoadNontx, ServeStoreNontx, RemoveNode
  <2>4. ts' \in [Dsls -> [Apps -> Nat]]
    BY <2>2, <2>3
  <2> QED
    BY <1>3, <2>4 DEF Others
<1> QED
  BY <1>1, <1>2, <1>3

-----------------------------------------------------------------------------
(* Types of the DSL nodes.                                                   *)

LEMMA TakeTyped ==
  ASSUME TypeOK, NEW d \in Dsls, NEW p \in Apps, Take(d, p)
  PROVE  chan' \in [Dsls -> [Apps -> Request \cup PlainRequest \cup Release \cup {NoMsg}]]
BY DEF TypeOK, Take

LEMMA ConflictTyped ==
  ASSUME TypeOK, NEW p, NEW m, m.addr \in Accounts
  PROVE  Conflict(p, m) \in SUBSET Apps
BY DEF TypeOK, Conflict

LEMMA DeleteTyped ==
  ASSUME TypeOK, NEW d, NEW p, DeleteNode(d, p)
  PROVE  readers' \in [Accounts -> SUBSET Apps] /\ writer' \in [Accounts -> Apps \cup {NoNode}]
BY DEF TypeOK, DeleteNode

LEMMA EmptiedTyped ==
  ASSUME TypeOK, NEW d \in Dsls, NEW p \in Apps, Emptied(d, p)
  PROVE  wsets' \in [Dsls -> [Apps -> Seq([addr : Accounts, val : Int])]]
<1>1. << >> \in Seq([addr : Accounts, val : Int])
  OBVIOUS
<1> QED
  BY <1>1 DEF TypeOK, Emptied

LEMMA Added ==
  ASSUME NEW S, NEW s \in Seq(S), NEW e \in S
  PROVE  /\ Append(s, e) \in Seq(S) /\ DOMAIN Append(s, e) = DOMAIN s \cup {Len(s) + 1}
         /\ \A i \in DOMAIN s : Append(s, e)[i] = s[i]
         /\ Len(s) + 1 \notin DOMAIN s /\ Append(s, e)[Len(s) + 1] = e
OBVIOUS

LEMMA PutTyped ==
  ASSUME NEW A, NEW B, NEW S, NEW f \in [A -> [B -> S]], NEW a \in A, NEW b \in B, NEW s \in S,
         NEW g, g = [f EXCEPT ![a][b] = s]
  PROVE  g \in [A -> [B -> S]]
OBVIOUS

LEMMA GrantTyped ==
  ASSUME TypeOK, NEW d \in Dsls, NEW p \in Apps, NEW m \in Request, Grant(d, p, m)
  PROVE  /\ readers' \in [Accounts -> SUBSET Apps] /\ writer' \in [Accounts -> Apps \cup {NoNode}]
         /\ wsets' \in [Dsls -> [Apps -> Seq([addr : Accounts, val : Int])]]
         /\ resp' \in [Apps -> Reply \cup {NoResp}]
<1>1. /\ m.addr \in Accounts /\ m.val \in Int /\ m.type \in {"LOAD", "STORE", "STORE_INC"} /\ mem[m.addr] \in Int
  BY DEF Request, TypeOK
<1>2. readers' \in [Accounts -> SUBSET Apps] /\ writer' \in [Accounts -> Apps \cup {NoNode}]
  BY <1>1 DEF TypeOK, Grant
<1>3. PICK v \in Int : UNCHANGED wsets \/ wsets' = [wsets EXCEPT ![d][p] = Append(wsets[d][p], [addr |-> m.addr, val |-> v])]
  <2>1. mem[m.addr] + m.val \in Int
    BY <1>1
  <2> QED
    BY <1>1, <2>1 DEF Grant, Insert
<1>4. PICK e \in Entries : e = [addr |-> m.addr, val |-> v]
  BY <1>1 DEF Entries
<1>5. wsets' \in [Dsls -> [Apps -> Seq([addr : Accounts, val : Int])]]
  <2>1. wsets \in [Dsls -> [Apps -> Seq(Entries)]]
    BY DEF TypeOK, Entries
  <2>2. UNCHANGED wsets \/ wsets' = [wsets EXCEPT ![d][p] = Append(wsets[d][p], e)]
    BY <1>3, <1>4, Zenon
  <2>7. wsets[d][p] \in Seq(Entries)
    BY <2>1
  <2>3. PICK t : t = Append(wsets[d][p], e)
    OBVIOUS
  <2>6. t \in Seq(Entries)
    BY <2>3, <2>7, Added
  <2>5. UNCHANGED wsets \/ wsets' = [wsets EXCEPT ![d][p] = t]
    BY <2>2, <2>3
  <2>4. wsets' \in [Dsls -> [Apps -> Seq(Entries)]]
    <3>1. CASE UNCHANGED wsets
      BY <2>1, <3>1
    <3>2. PICK T : T = Seq(Entries)
      OBVIOUS
    <3>3. CASE wsets' = [wsets EXCEPT ![d][p] = t]
      <4>1. wsets \in [Dsls -> [Apps -> T]] /\ t \in T
        BY <2>1, <2>6, <3>2
      <4>2. wsets' \in [Dsls -> [Apps -> T]]
        BY <3>3, <4>1, PutTyped
      <4> QED
        BY <3>2, <4>2
    <3> QED
      BY <2>5, <3>1, <3>3
  <2> QED
    BY <2>4 DEF Entries
<1>6. PICK r : /\ r = [type |-> "NO_CONFLICT", val |-> IF m.type = "LOAD" THEN mem[m.addr] ELSE 0]
               /\ resp' = [resp EXCEPT ![p] = r]
  <2>1. resp' = [resp EXCEPT ![p] = [type |-> "NO_CONFLICT", val |-> IF m.type = "LOAD" THEN mem[m.addr] ELSE 0]]
    BY Zenon DEF Grant
  <2> QED
    BY <2>1
<1>7. resp' \in [Apps -> Reply \cup {NoResp}]
  <2>1. (IF m.type = "LOAD" THEN mem[m.addr] ELSE 0) \in Int
    BY <1>1
  <2>2. r \in Reply
    BY <1>6, <2>1 DEF Reply
  <2> QED
    BY <1>6, <2>2 DEF TypeOK
<1> QED
  BY <1>2, <1>5, <1>7

LEMMA TypedServe ==
  ASSUME TypeOK, NEW d \in Dsls, NEW p \in Apps, NEW m, ts' \in [Dsls -> [Apps -> Nat]],
         Accept(d, p, m) \/ Contest(d, p, m) \/ Reject(d, p, m)
  PROVE  TypeOK'
<1>1. m \in Request /\ m.addr \in Accounts
  BY MessageTyped DEF Accept, Contest, Reject, Request
<1>2. chan' \in [Dsls -> [Apps -> Request \cup PlainRequest \cup Release \cup {NoMsg}]]
  BY TakeTyped DEF Accept, Contest, Reject
<1> USE TypesAre
<1>3. TypesApp'
  BY DEF TypesApp, Accept, Contest, Reject, Kept, appVars
<1>4. resp' \in [Apps -> Reply \cup {NoResp}]
  <2>1. CASE Accept(d, p, m)
    BY <1>1, <2>1, GrantTyped DEF Accept
  <2>2. CASE Contest(d, p, m)
    BY <2>2 DEF Contest, TypesMsg
  <2>3. CASE Reject(d, p, m)
    BY <2>3 DEF Reject, TypesMsg, Reply
  <2> QED
    BY <2>1, <2>2, <2>3
<1>5. TypesMsg'
  BY <1>2, <1>4 DEF TypesMsg, Accept, Contest, Reject, Kept
<1>6. CASE Accept(d, p, m)
  <2>1. TypesDsl'
    BY <1>1, <1>6, GrantTyped DEF TypesDsl, Accept
  <2> QED
    BY <1>3, <1>5, <2>1, TypesNext
<1>7. CASE Contest(d, p, m)
  <2>1. Conflict(p, m) \in SUBSET Apps
    BY <1>1, ConflictTyped
  <2>2. victims' \in [Dsls -> SUBSET Apps]
    BY <1>7, <2>1 DEF Contest, TypesDsl
  <2>3. serving' \in [Dsls -> [app : Apps, req : Request] \cup {NoMsg}]
    BY <1>1, <1>7 DEF Contest, TypesDsl
  <2>4. TypesDsl'
    BY <1>7, <2>2, <2>3 DEF TypesDsl, Contest, lockVars
  <2> QED
    BY <1>3, <1>5, <2>4, TypesNext
<1>8. CASE Reject(d, p, m)
  <2>1. TypesDsl'
    BY <1>8, DeleteTyped, EmptiedTyped DEF TypesDsl, Reject
  <2> QED
    BY <1>3, <1>5, <2>1, TypesNext
<1> QED
  BY <1>6, <1>7, <1>8

LEMMA TypedOthers ==
  ASSUME TypeOK, NEW d \in Dsls, NEW p \in Apps, ts' \in [Dsls -> [Apps -> Nat]],
         ServeLoadNontx(d, p) \/ ServeStoreNontx(d, p) \/ RemoveNode(d, p)
  PROVE  TypeOK'
<1>1. chan' \in [Dsls -> [Apps -> Request \cup PlainRequest \cup Release \cup {NoMsg}]]
  BY TakeTyped DEF ServeLoadNontx, ServeStoreNontx, RemoveNode
<1>2. PICK m : m = chan[d][p]
  OBVIOUS
<1>3. m.type \in {"LOAD_NONTX", "STORE_NONTX"} => m.addr \in Accounts /\ m.val \in Int
  BY <1>2, MessageTyped DEF PlainRequest
<1>4. wsets[d][p] \in Seq(Entries) /\ mem \in [Accounts -> Int]
  BY DEF TypeOK, Entries
<1> USE TypesAre
<1>5. TypesApp'
  BY DEF TypesApp, ServeLoadNontx, ServeStoreNontx, RemoveNode, appVars
<1>6. CASE ServeLoadNontx(d, p)
  <2>1. PICK r : /\ r = [type |-> "NO_CONFLICT", val |-> mem[m.addr]] /\ resp' = [resp EXCEPT ![p] = r]
    BY <1>2, <1>6 DEF ServeLoadNontx
  <2>2. r \in Reply
    BY <1>2, <1>3, <1>4, <1>6, <2>1 DEF ServeLoadNontx, Reply
  <2>3. TypesMsg'
    BY <1>1, <1>6, <2>1, <2>2 DEF TypesMsg, ServeLoadNontx
  <2>4. TypesDsl'
    BY <1>6 DEF TypesDsl, ServeLoadNontx, lockVars
  <2> QED
    BY <1>5, <2>3, <2>4, TypesNext
<1>7. CASE ServeStoreNontx(d, p)
  <2>1. TypesMsg'
    BY <1>1, <1>7 DEF TypesMsg, ServeStoreNontx
  <2>2. mem' \in [Accounts -> Int]
    BY <1>2, <1>3, <1>4, <1>7 DEF ServeStoreNontx
  <2>3. TypesDsl'
    BY <1>7, <2>2 DEF TypesDsl, ServeStoreNontx, lockVars
  <2> QED
    BY <1>5, <2>1, <2>3, TypesNext
<1>8. CASE RemoveNode(d, p)
  <2>1. TypesMsg'
    BY <1>1, <1>8 DEF TypesMsg, RemoveNode
  <2>2. mem' \in [Accounts -> Int]
    BY <1>4, <1>8, WrittenBackTyped DEF RemoveNode
  <2>3. TypesDsl'
    BY <1>8, <2>2, DeleteTyped, EmptiedTyped DEF TypesDsl, RemoveNode
  <2> QED
    BY <1>5, <2>1, <2>3, TypesNext
<1> QED
  BY <1>6, <1>7, <1>8

\* The node a DSL node is aborting
LEMMA VictimTyped ==
  ASSUME TypeOK, NEW d \in Dsls, victims[d] # {}
  PROVE  Min(victims[d]) \in victims[d] /\ Min(victims[d]) \in Apps
<1>1. victims[d] \in SUBSET Apps /\ Apps \in SUBSET Nat
  BY PgasAssumption DEF TypeOK
<1> QED
  BY <1>1, MinIn

LEMMA TypedAbort ==
  ASSUME TypeOK, NEW d \in Dsls, AbortVictim(d) \/ GrantContended(d)
  PROVE  TypeOK'
<1> USE TypesAre
<1>1. TypesApp'
  BY DEF TypesApp, AbortVictim, GrantContended, appVars
<1>2. CASE AbortVictim(d)
  <2>1. PICK v \in Apps : v = Min(victims[d])
    BY <1>2, VictimTyped DEF AbortVictim
  <2>2. /\ flag' = [flag EXCEPT ![v] = IF @ = "NO_CONFLICT" THEN "CONFLICT" ELSE @]
        /\ mem' = (IF SavesPersisting(v) THEN WriteBack(wsets[d][v]) ELSE mem)
        /\ Emptied(d, v) /\ victims' = [victims EXCEPT ![d] = @ \ {v}]
    BY <1>2, <2>1 DEF AbortVictim
  <2>3. wsets[d][v] \in Seq(Entries) /\ mem \in [Accounts -> Int]
    BY DEF TypeOK, Entries
  <2>4. mem' \in [Accounts -> Int]
    BY <2>2, <2>3, WrittenBackTyped
  <2>5. TypesMsg'
    BY <1>2, <2>2 DEF TypesMsg, AbortVictim
  <2>6. TypesDsl'
    BY <1>2, <2>2, <2>4, EmptiedTyped DEF TypesDsl, AbortVictim, lockVars
  <2> QED
    BY <1>1, <2>5, <2>6, TypesNext
<1>3. CASE GrantContended(d)
  <2>1. serving[d] \in [app : Apps, req : Request]
    BY <1>3 DEF GrantContended, Idle, TypeOK
  <2>2. PICK p \in Apps, m \in Request : p = serving[d].app /\ m = serving[d].req
    BY <2>1
  <2>3. /\ Grant(d, p, m)
        /\ passed' = (IF m.type = "LOAD" THEN [passed EXCEPT ![p] = @ \cup {m.addr}] ELSE passed)
        /\ serving' = [serving EXCEPT ![d] = NoMsg]
    BY <1>3, <2>2 DEF GrantContended
  <2>4. TypesMsg'
    BY <1>3, <2>3, GrantTyped DEF TypesMsg, GrantContended
  <2>5. m.addr \in Accounts
    BY DEF Request
  <2>6. passed' \in [Apps -> SUBSET Accounts] /\ serving' \in [Dsls -> [app : Apps, req : Request] \cup {NoMsg}]
    BY <2>3, <2>5 DEF TypesDsl
  <2>7. TypesDsl'
    BY <1>3, <2>3, <2>6, GrantTyped DEF TypesDsl, GrantContended
  <2> QED
    BY <1>1, <2>4, <2>7, TypesNext
<1> QED
  BY <1>2, <1>3

LEMMA TypeStep ==
  ASSUME TypeOK, \A p \in Apps : Control(p), [Next]_vars
  PROVE  TypeOK'
<1>1. CASE UNCHANGED vars
  BY <1>1 DEF TypeOK, vars, appVars, dslVars, lockVars
<1>2. CASE \E p \in Apps : AppStep(p)
  BY <1>2, TypedApp
<1>3. CASE Barrier
  BY <1>3, TypedBarrier
<1>4. CASE \E d \in Dsls : AbortVictim(d) \/ GrantContended(d)
  BY <1>4, TypedAbort
<1>5. CASE \E d \in Dsls, p \in Apps : dsl_service(d, p)
  BY <1>5, DslIs, TypedServe, TypedOthers
<1> QED
  BY <1>1, <1>2, <1>3, <1>4, <1>5 DEF Next, Terminated

-----------------------------------------------------------------------------
(* What a step leaves alone.                                                 *)

SameNode(q) ==
  /\ pc'[q] = pc[q] /\ body'[q] = body[q] /\ ip'[q] = ip[q] /\ ntx'[q] = ntx[q]
  /\ contacted'[q] = contacted[q] /\ unsent'[q] = unsent[q] /\ seen'[q] = seen[q]
SameMail(q) ==
  /\ flag'[q] = flag[q] /\ resp'[q] = resp[q] /\ passed'[q] = passed[q]
  /\ \A d \in Dsls : chan'[d][q] = chan[d][q]
SameTables == UNCHANGED <<build, stage, mem, wsets, readers, writer, serving, victims>>

\* A step of p is about p, and about nothing the DSL nodes keep.
LEMMA Elsewhere ==
  ASSUME TypeOK, NEW p \in Apps, AppStep(p), NEW q \in Apps, q # p
  PROVE  SameNode(q) /\ SameMail(q)
<1> USE TypesAre
<1>1. pc'[q] = pc[q]
  BY DEF TypesApp, AppStep, BeginPlain, Begin, ToBarrier, Running, Contact, NoticeAbort, Send, Granted,
     GotPlain, Refused, SetPersisting, SendRelease, Committed, Retry
<1>2. body'[q] = body[q]
  BY DEF TypesApp, AppStep, BeginPlain, Begin, ToBarrier, Running, Contact, NoticeAbort, Send, Granted,
     GotPlain, Refused, SetPersisting, SendRelease, Committed, Retry
<1>3. ip'[q] = ip[q] /\ seen'[q] = seen[q]
  BY DEF TypesApp, AppStep, BeginPlain, Begin, ToBarrier, Running, Contact, NoticeAbort, Send, Granted,
     GotPlain, Refused, SetPersisting, SendRelease, Committed, Retry, ClearAttempt
<1>4. ntx'[q] = ntx[q]
  BY DEF TypesApp, AppStep, BeginPlain, Begin, ToBarrier, Running, Contact, NoticeAbort, Send, Granted,
     GotPlain, Refused, SetPersisting, SendRelease, Committed, Retry
<1>5. contacted'[q] = contacted[q] /\ unsent'[q] = unsent[q]
  BY DEF TypesApp, AppStep, BeginPlain, Begin, ToBarrier, Running, Contact, NoticeAbort, Send, Granted,
     GotPlain, Refused, SetPersisting, SendRelease, Committed, Retry, ClearAttempt
<1>6. flag'[q] = flag[q] /\ resp'[q] = resp[q] /\ passed'[q] = passed[q]
  BY DEF TypesMsg, TypesDsl, AppStep, BeginPlain, Begin, ToBarrier, Running, Contact, NoticeAbort, Send, Granted,
     GotPlain, Refused, SetPersisting, SendRelease, Committed, Retry, dslVars
<1>7. \A d \in Dsls : chan'[d][q] = chan[d][q]
  <2>1. CASE Send(p)
    <3>1. PICK d, m : chan' = [chan EXCEPT ![d][p] = m]
      BY <2>1 DEF Send
    <3> QED
      BY <3>1 DEF TypesMsg
  <2>2. CASE SendRelease(p)
    <3>1. PICK d, m : chan' = [chan EXCEPT ![d][p] = m]
      BY <2>2 DEF SendRelease
    <3> QED
      BY <3>1 DEF TypesMsg
  <2>3. CASE ~Send(p) /\ ~SendRelease(p)
    BY <2>3 DEF AppStep, BeginPlain, Begin, ToBarrier, Running, Contact, NoticeAbort, Granted,
       GotPlain, Refused, SetPersisting, Committed, Retry
  <2> QED
    BY <2>1, <2>2, <2>3
<1> QED
  BY <1>1, <1>2, <1>3, <1>4, <1>5, <1>6, <1>7 DEF SameNode, SameMail

LEMMA TablesKept ==
  ASSUME NEW p, AppStep(p)
  PROVE  SameTables
BY DEF SameTables, AppStep, BeginPlain, Begin, ToBarrier, Running, Contact, NoticeAbort, Send, Granted,
   GotPlain, Refused, SetPersisting, SendRelease, Committed, Retry, dslVars, lockVars

\* A step of a DSL node for p leaves all other nodes alone, and the programs of all.
LEMMA DslElsewhere ==
  ASSUME TypeOK, NEW d \in Dsls, NEW p \in Apps, dsl_service(d, p)
  PROVE  /\ UNCHANGED <<build, stage, appVars, flag, passed>>
         /\ \A q \in Apps : SameNode(q) /\ (q # p => SameMail(q))
         /\ \A e \in Dsls : e # d => chan'[e] = chan[e]
<1>1. CASE \E m : Accept(d, p, m) \/ Contest(d, p, m) \/ Reject(d, p, m)
  <2>1. PICK m : Accept(d, p, m) \/ Contest(d, p, m) \/ Reject(d, p, m)
    BY <1>1
  <2>2. /\ UNCHANGED <<build, stage, appVars, flag, passed>> /\ Take(d, p)
        /\ \A q \in Apps : q # p => resp'[q] = resp[q]
    <3>1. \A q \in Apps : q # p => resp'[q] = resp[q]
      BY <2>1, TypesAre DEF Accept, Contest, Reject, Grant, TypesMsg
    <3> QED
      BY <2>1, <3>1 DEF Accept, Contest, Reject, Kept
  <2> QED
    BY <2>2, TypesAre DEF Take, TypesMsg, SameNode, SameMail, appVars
<1>2. CASE ServeLoadNontx(d, p) \/ ServeStoreNontx(d, p) \/ RemoveNode(d, p)
  <2>1. /\ UNCHANGED <<build, stage, appVars, flag, passed>> /\ Take(d, p)
        /\ \E r : resp' = [resp EXCEPT ![p] = r]
    BY <1>2, TypesAre DEF ServeLoadNontx, ServeStoreNontx, RemoveNode, TypesMsg
  <2> QED
    BY <2>1, TypesAre DEF Take, TypesMsg, SameNode, SameMail, appVars
<1> QED
  BY <1>1, <1>2, DslIs

LEMMA AbortElsewhere ==
  ASSUME TypeOK, NEW d, AbortVictim(d) \/ GrantContended(d)
  PROVE  UNCHANGED <<build, stage, appVars, chan>> /\ \A q \in Apps : SameNode(q)
BY DEF AbortVictim, GrantContended, SameNode, appVars

-----------------------------------------------------------------------------
(* The programs.                                                             *)

LEMMA ControlSame ==
  ASSUME NEW q, Control(q), SameNode(q), UNCHANGED stage
  PROVE  Control(q)'
BY DEF Control, SameNode

\* The position of the next operation
LEMMA NextOp ==
  ASSUME TypeOK, NEW p \in Apps
  PROVE  BodyDone(p) <=> ip[p] \notin DOMAIN body[p]
<1>1. body[p] \in Seq(Operation) /\ ip[p] \in Nat \ {0}
  BY DEF TypeOK
<1> QED
  BY <1>1 DEF BodyDone

LEMMA ControlOwn ==
  ASSUME TypeOK, NEW p \in Apps, Control(p), AppStep(p)
  PROVE  Control(p)'
<1>0. stage' = stage
  BY TablesKept DEF SameTables
<1>a. stage \in {"reset", "warm", "run", "total", "end"} /\ ip[p] \in Nat \ {0}
  BY DEF TypeOK
<1> USE TypesAre DEF TypesApp
<1>1. CASE BeginPlain(p)
  <2>1. /\ pc'[p] = "plain" /\ body'[p] = Plain(p) /\ pc[p] = "idle" /\ Plain(p) # << >>
    BY <1>1 DEF BeginPlain
  <2>2. stage # "run" /\ stage # "end"
    BY <2>1 DEF Plain, Control
  <2> QED
    BY <1>0, <1>a, <2>1, <2>2, PlainTyped DEF Control
<1>2. CASE Begin(p)
  BY <1>0, <1>a, <1>2 DEF Begin, Control
<1>3. CASE ToBarrier(p)
  BY <1>0, <1>a, <1>3 DEF ToBarrier, Control
<1>4. CASE Running(p)
  BY <1>0, <1>a, <1>4 DEF Running, Control
<1>5. CASE Contact(p)
  BY <1>0, <1>a, <1>5, NextOp DEF Contact, Control
<1>6. CASE NoticeAbort(p)
  BY <1>0, <1>a, <1>6 DEF NoticeAbort, Control
<1>7. CASE Send(p)
  <2>1. /\ pc[p] = "send" \/ (pc[p] = "plain" /\ ip[p] \in DOMAIN body[p])
        /\ body'[p] = body[p] /\ ntx'[p] = ntx[p]
    BY <1>7, NextOp DEF Send
  <2>2. pc[p] = "send" => stage = "run"
    BY <1>a DEF Control
  <2>3. CASE Op(p).op = "STORE_NONTX"
    <3>1. pc'[p] = pc[p]
      BY <1>7, <2>3 DEF Send
    <3>2. pc[p] = "plain"
      <4>1. pc[p] = "send" => Op(p).op \in {"LOAD", "STORE", "STORE_INC"}
        BY BodyTyped DEF Control, Op
      <4> QED
        BY <2>1, <2>3, <4>1
    <3> QED
      BY <1>0, <2>1, <3>1, <3>2 DEF Control
  <2>4. CASE Op(p).op # "STORE_NONTX"
    <3>1. pc'[p] = (IF stage = "run" THEN "wait" ELSE "wait_plain") /\ ip'[p] = ip[p]
      BY <1>7, <2>4 DEF Send, InTx
    <3> QED
      BY <1>0, <1>a, <2>1, <2>2, <3>1 DEF Control
  <2> QED
    BY <2>3, <2>4
<1>8. CASE Granted(p)
  BY <1>0, <1>a, <1>8 DEF Granted, Control
<1>9. CASE GotPlain(p)
  BY <1>0, <1>a, <1>9 DEF GotPlain, Control
<1>10. CASE Refused(p)
  BY <1>0, <1>a, <1>10 DEF Refused, Control
<1>11. CASE SetPersisting(p)
  BY <1>0, <1>a, <1>11 DEF SetPersisting, Control
<1>12. CASE SendRelease(p)
  BY <1>0, <1>a, <1>12 DEF SendRelease, Control
<1>13. CASE Committed(p)
  BY <1>0, <1>a, <1>13 DEF Committed, ClearAttempt, Control
<1>14. CASE Retry(p)
  BY <1>0, <1>a, <1>14 DEF Retry, ClearAttempt, Control
<1> QED
  BY <1>1, <1>2, <1>3, <1>4, <1>5, <1>6, <1>7, <1>8, <1>9, <1>10, <1>11, <1>12, <1>13, <1>14 DEF AppStep

LEMMA ControlBarrier ==
  ASSUME TypeOK, NEW p \in Apps, Control(p), Barrier
  PROVE  Control(p)'
<1>1. pc[p] = "barrier" /\ stage \in {"reset", "warm", "run", "total", "end"} /\ ip'[p] = ip[p]
  BY DEF Barrier, TypeOK
<1>2. stage # "end" /\ ip[p] = 1
  BY <1>1 DEF Control
<1>3. \/ stage' \in {"warm", "run", "total"} /\ pc'[p] = "idle"
      \/ stage' = "end" /\ pc'[p] = "end"
  BY <1>1, <1>2 DEF Barrier
<1> QED
  BY <1>1, <1>2, <1>3 DEF Control

LEMMA ControlStep ==
  ASSUME TypeOK, \A p \in Apps : Control(p), [Next]_vars
  PROVE  \A p \in Apps : Control(p)'
<1> SUFFICES ASSUME NEW q \in Apps PROVE Control(q)'
  OBVIOUS
<1>1. CASE UNCHANGED vars
  BY <1>1, ControlSame DEF vars, appVars, SameNode
<1>2. CASE \E p \in Apps : AppStep(p)
  <2>1. PICK p \in Apps : AppStep(p)
    BY <1>2
  <2>2. CASE q = p
    BY <2>1, <2>2, ControlOwn
  <2>3. CASE q # p
    BY <2>1, <2>3, Elsewhere, TablesKept, ControlSame DEF SameTables
  <2> QED
    BY <2>2, <2>3
<1>3. CASE Barrier
  BY <1>3, ControlBarrier
<1>4. CASE \E d \in Dsls : AbortVictim(d) \/ GrantContended(d)
  BY <1>4, AbortElsewhere, ControlSame
<1>5. CASE \E d \in Dsls, p \in Apps : dsl_service(d, p)
  BY <1>5, DslElsewhere, ControlSame
<1> QED
  BY <1>1, <1>2, <1>3, <1>4, <1>5 DEF Next, Terminated

LEMMA ContactsSame ==
  ASSUME NEW q, Contacts(q), SameNode(q)
  PROVE  Contacts(q)'
BY DEF Contacts, SameNode, Home, HomeOf, Op

LEMMA ContactsOwn ==
  ASSUME TypeOK, NEW p \in Apps, Control(p), Contacts(p), AppStep(p)
  PROVE  Contacts(p)'
<1> USE TypesAre DEF TypesApp, Contacts, Home, HomeOf, Op
<1>1. CASE BeginPlain(p) \/ Begin(p) \/ ToBarrier(p)
  BY <1>1 DEF BeginPlain, Begin, ToBarrier
<1>2. CASE Running(p) \/ NoticeAbort(p) \/ SetPersisting(p)
  <2>1. /\ UNCHANGED <<body, ip, seen, contacted>> /\ pc[p] \in {"start", "body"}
        /\ pc'[p] \in {"body", "commit", "abort"}
        /\ pc'[p] = "body" \/ unsent'[p] = contacted[p]
    BY <1>2 DEF Running, NoticeAbort, SetPersisting
  <2> QED
    BY <2>1
<1>3. CASE Contact(p)
  <2>1. /\ ip[p] \in DOMAIN body[p] /\ UNCHANGED <<body, ip, seen, unsent>> /\ pc'[p] = "send"
        /\ contacted'[p] = contacted[p] \cup {Home(p)}
    BY <1>3, NextOp DEF Contact
  <2> QED
    BY <2>1
<1>4. CASE Send(p)
  <2>1. /\ pc[p] \in {"send", "plain"} /\ UNCHANGED <<body, seen, contacted, unsent>>
        /\ pc[p] = "send" => stage = "run" /\ Op(p).op \in {"LOAD", "STORE", "STORE_INC"} /\ ip[p] \in DOMAIN body[p]
        /\ pc[p] = "plain" => stage # "run"
    BY <1>4, BodyTyped DEF Send, Control, Op
  <2>2. CASE Op(p).op = "STORE_NONTX"
    BY <1>4, <2>1, <2>2 DEF Send
  <2>3. CASE Op(p).op # "STORE_NONTX"
    <3>1. pc'[p] = (IF stage = "run" THEN "wait" ELSE "wait_plain") /\ ip' = ip
      BY <1>4, <2>3 DEF Send, InTx
    <3> QED
      BY <2>1, <3>1
  <2> QED
    BY <2>2, <2>3
<1>5. CASE Granted(p)
  <2>1. pc[p] = "wait" /\ pc'[p] = "body" /\ UNCHANGED <<body, contacted, unsent>>
    BY <1>5 DEF Granted
  <2> QED
    BY <2>1
<1>6. CASE GotPlain(p)
  BY <1>6 DEF GotPlain
<1>7. CASE Refused(p)
  <2>1. /\ pc'[p] = "abort" /\ UNCHANGED <<body, ip, seen>> /\ pc[p] = "wait"
        /\ contacted'[p] = contacted[p] \ {Home(p)} /\ unsent'[p] = contacted[p] \ {Home(p)}
    BY <1>7 DEF Refused
  <2> QED
    BY <2>1
<1>8. CASE SendRelease(p)
  BY <1>8 DEF SendRelease
<1>9. CASE Committed(p) \/ Retry(p)
  BY <1>9 DEF Committed, Retry, ClearAttempt
<1> QED
  BY <1>1, <1>2, <1>3, <1>4, <1>5, <1>6, <1>7, <1>8, <1>9 DEF AppStep

LEMMA ContactsStep ==
  ASSUME TypeOK, \A p \in Apps : Control(p) /\ Contacts(p), [Next]_vars
  PROVE  \A p \in Apps : Contacts(p)'
<1> SUFFICES ASSUME NEW q \in Apps PROVE Contacts(q)'
  OBVIOUS
<1>1. CASE UNCHANGED vars
  BY <1>1, ContactsSame DEF vars, appVars, SameNode
<1>2. CASE \E p \in Apps : AppStep(p)
  <2>1. PICK p \in Apps : AppStep(p)
    BY <1>2
  <2>2. CASE q = p
    BY <2>1, <2>2, ContactsOwn
  <2>3. CASE q # p
    BY <2>1, <2>3, Elsewhere, ContactsSame
  <2> QED
    BY <2>2, <2>3
<1>3. CASE Barrier
  <2>1. /\ pc[q] = "barrier" /\ pc'[q] \in {"end", "idle"}
        /\ UNCHANGED <<body, contacted, seen>>
    BY <1>3 DEF Barrier
  <2> QED
    BY <2>1 DEF Contacts, HomeOf
<1>4. CASE \E d \in Dsls : AbortVictim(d) \/ GrantContended(d)
  BY <1>4, AbortElsewhere, ContactsSame
<1>5. CASE \E d \in Dsls, p \in Apps : dsl_service(d, p)
  BY <1>5, DslElsewhere, ContactsSame
<1> QED
  BY <1>1, <1>2, <1>3, <1>4, <1>5 DEF Next, Terminated

-----------------------------------------------------------------------------
(* The flags.                                                                *)

LEMMA FlaggedOwn ==
  ASSUME TypeOK, NEW p \in Apps, Flagged(p), AppStep(p)
  PROVE  Flagged(p)'
<1>0. build' = build
  BY TablesKept DEF SameTables
<1>1. HasCM' <=> HasCM
  BY <1>0 DEF HasCM
<1> USE TypesAre DEF TypesApp, TypesMsg, Flagged
<1>2. CASE Running(p) \/ SetPersisting(p) \/ Committed(p)
  <2>1. CASE HasCM
    BY <1>1, <1>2, <2>1 DEF Running, SetPersisting, Committed
  <2>2. CASE ~HasCM
    BY <1>1, <1>2, <2>2 DEF Running, SetPersisting, Committed
  <2> QED
    BY <2>1, <2>2
<1>3. CASE ~(Running(p) \/ SetPersisting(p) \/ Committed(p))
  <2>1. flag'[p] = flag[p]
    BY <1>3 DEF AppStep, BeginPlain, Begin, ToBarrier, Contact, NoticeAbort, Send, Granted,
       GotPlain, Refused, SendRelease, Retry
  <2>2. pc'[p] = "commit" <=> pc[p] = "commit"
    BY <1>3 DEF AppStep, BeginPlain, Begin, ToBarrier, Contact, NoticeAbort, Send, Granted,
       GotPlain, Refused, SendRelease, Retry
  <2> QED
    BY <1>1, <2>1, <2>2
<1> QED
  BY <1>2, <1>3

LEMMA FlaggedStep ==
  ASSUME TypeOK, \A p \in Apps : Flagged(p), \A d \in Dsls : Aborting(d), [Next]_vars
  PROVE  \A p \in Apps : Flagged(p)'
<1> SUFFICES ASSUME NEW q \in Apps PROVE Flagged(q)'
  OBVIOUS
<1>1. CASE UNCHANGED vars
  BY <1>1 DEF vars, appVars, Flagged, HasCM
<1>2. CASE \E p \in Apps : AppStep(p)
  <2>1. PICK p \in Apps : AppStep(p)
    BY <1>2
  <2>2. CASE q = p
    BY <2>1, <2>2, FlaggedOwn
  <2>3. CASE q # p
    BY <2>1, <2>3, Elsewhere, TablesKept DEF SameTables, SameNode, SameMail, Flagged, HasCM
  <2> QED
    BY <2>2, <2>3
<1>3. CASE Barrier
  <2>1. pc[q] = "barrier" /\ pc'[q] \in {"end", "idle"} /\ UNCHANGED <<build, flag>>
    BY <1>3 DEF Barrier
  <2> QED
    BY <2>1 DEF Flagged, HasCM
<1>4. CASE \E d \in Dsls : AbortVictim(d)
  <2>1. PICK d \in Dsls : AbortVictim(d)
    BY <1>4
  <2>2. HasCM
    BY <2>1 DEF AbortVictim, Aborting
  <2>3. /\ UNCHANGED <<build, pc>>
        /\ flag'[q] # flag[q] => flag[q] = "NO_CONFLICT" /\ flag'[q] = "CONFLICT"
    BY <2>1, TypesAre DEF AbortVictim, TypesMsg, appVars
  <2> QED
    BY <2>2, <2>3 DEF Flagged, HasCM
<1>5. CASE \E d \in Dsls : GrantContended(d)
  BY <1>5 DEF GrantContended, Flagged, HasCM, appVars
<1>6. CASE \E d \in Dsls, p \in Apps : dsl_service(d, p)
  BY <1>6, DslElsewhere DEF Flagged, HasCM, appVars
<1> QED
  BY <1>1, <1>2, <1>3, <1>4, <1>5, <1>6 DEF Next, Terminated

\* Only a contention manager aborts holders.
LEMMA AbortingStep ==
  ASSUME TypeOK, \A d \in Dsls : Aborting(d), [Next]_vars
  PROVE  \A d \in Dsls : Aborting(d)'
<1> SUFFICES ASSUME NEW e \in Dsls PROVE Aborting(e)'
  OBVIOUS
<1> USE DEF Aborting, Idle, HasCM
<1>1. CASE UNCHANGED vars
  BY <1>1 DEF vars, dslVars
<1>2. CASE (\E p \in Apps : AppStep(p)) \/ Barrier
  <2>1. UNCHANGED <<build, serving>>
    BY <1>2, TablesKept DEF SameTables, Barrier, dslVars
  <2> QED
    BY <2>1
<1>3. CASE \E d \in Dsls : AbortVictim(d)
  BY <1>3 DEF AbortVictim
<1>4. CASE \E d \in Dsls : GrantContended(d)
  BY <1>4, TypesAre DEF GrantContended, TypesDsl
<1>5. CASE \E d \in Dsls, p \in Apps : dsl_service(d, p)
  <2>1. PICK d \in Dsls, p \in Apps : dsl_service(d, p)
    BY <1>5
  <2>2. build' = build
    BY <2>1, DslElsewhere
  <2>3. CASE \E m : Contest(d, p, m)
    BY <2>2, <2>3, TypesAre DEF Contest, TypesDsl
  <2>4. CASE ~\E m : Contest(d, p, m)
    <3>1. serving' = serving
      BY <2>1, <2>4, DslIs DEF Accept, Reject, ServeLoadNontx, ServeStoreNontx, RemoveNode
    <3> QED
      BY <2>2, <3>1
  <2> QED
    BY <2>3, <2>4
<1> QED
  BY <1>1, <1>2, <1>3, <1>4, <1>5 DEF Next, Terminated

-----------------------------------------------------------------------------
(* The messages.                                                             *)

Awaits(p) == pc[p] \in {"wait", "wait_plain"} /\ resp[p] = NoResp

\* A node that waits for its reply does nothing.
LEMMA AwaitsStill ==
  ASSUME TypeOK, NEW p \in Apps, Awaits(p), AppStep(p)
  PROVE  FALSE
BY Typed DEF Awaits, NoResp, AppStep, BeginPlain, Begin, ToBarrier, Running, Contact, NoticeAbort, Send, Granted,
   GotPlain, Refused, SetPersisting, SendRelease, Committed, Retry

\* What the DSL nodes do to the replies
LEMMA DslReplies ==
  ASSUME TypeOK, NEW d \in Dsls, NEW p \in Apps, dsl_service(d, p)
  PROVE  /\ Idle(d) /\ chan' = [chan EXCEPT ![d][p] = NoMsg] /\ chan[d][p] # NoMsg
         /\ resp'[p] # resp[p] => chan[d][p].type \in {"LOAD", "STORE", "STORE_INC", "LOAD_NONTX"}
         /\ resp'[p] # resp[p] => resp'[p].type \in {"NO_CONFLICT", "CONFLICT"}
         /\ resp'[p].type = "CONFLICT" /\ resp[p].type # "CONFLICT" => chan[d][p].type \in {"LOAD", "STORE", "STORE_INC"}
         /\ \/ UNCHANGED serving
            \/ /\ chan[d][p].type \in {"LOAD", "STORE", "STORE_INC"} /\ resp'[p] = resp[p]
               /\ serving' = [serving EXCEPT ![d] = [app |-> p, req |-> chan[d][p]]]
<1> USE TypesAre DEF TypesMsg, Take, NoMsg
<1>1. CASE \E m : Accept(d, p, m)
  <2>1. PICK m, v : /\ m = chan[d][p] /\ Idle(d) /\ m.type \in {"LOAD", "STORE", "STORE_INC"} /\ Take(d, p)
                    /\ resp' = [resp EXCEPT ![p] = [type |-> "NO_CONFLICT", val |-> v]] /\ UNCHANGED serving
    BY <1>1 DEF Accept, Grant
  <2>2. resp'[p].type = "NO_CONFLICT"
    BY <2>1
  <2> QED
    BY <2>1, <2>2
<1>2. CASE \E m : Contest(d, p, m)
  BY <1>2 DEF Contest
<1>3. CASE \E m : Reject(d, p, m)
  BY <1>3 DEF Reject
<1>4. CASE ServeLoadNontx(d, p)
  BY <1>4 DEF ServeLoadNontx
<1>5. CASE ServeStoreNontx(d, p) \/ RemoveNode(d, p)
  BY <1>5 DEF ServeStoreNontx, RemoveNode
<1> QED
  BY <1>1, <1>2, <1>3, <1>4, <1>5, DslIs

LEMMA GrantReplies ==
  ASSUME TypeOK, NEW d \in Dsls, GrantContended(d)
  PROVE  /\ ~Idle(d) /\ serving[d].app \in Apps /\ serving[d].req \in Request
         /\ serving' = [serving EXCEPT ![d] = NoMsg] /\ UNCHANGED <<chan, flag>>
         /\ resp'[serving[d].app].type = "NO_CONFLICT"
         /\ \A q \in Apps : q # serving[d].app => resp'[q] = resp[q] /\ passed'[q] = passed[q]
<1>1. serving[d] \in [app : Apps, req : Request] /\ ~Idle(d)
  BY DEF GrantContended, Idle, TypeOK
<1>2. PICK p \in Apps, m \in Request : p = serving[d].app /\ m = serving[d].req
  BY <1>1
<1>3. PICK v : resp' = [resp EXCEPT ![p] = [type |-> "NO_CONFLICT", val |-> v]]
  BY <1>2 DEF GrantContended, Grant
<1>4. \E S : passed' = [passed EXCEPT ![p] = S] \/ passed' = passed
  BY <1>2 DEF GrantContended
<1> USE TypesAre DEF TypesMsg, TypesDsl
<1>5. \A q \in Apps : q # p => resp'[q] = resp[q] /\ passed'[q] = passed[q]
  BY <1>3, <1>4
<1>6. resp'[p].type = "NO_CONFLICT"
  BY <1>3
<1> QED
  BY <1>1, <1>2, <1>5, <1>6 DEF GrantContended

LEMMA ServedStep ==
  ASSUME TypeOK, SlotInv, \A d \in Dsls : Served(d), [Next]_vars
  PROVE  \A d \in Dsls : Served(d)'
<1> SUFFICES ASSUME NEW d \in Dsls, ~Idle(d)' PROVE Asks(serving[d].app, d, serving[d].req)'
  BY DEF Served
<1> DEFINE q == serving[d].app
<1>0. ~Idle(d) => q \in Apps /\ Asks(q, d, serving[d].req) /\ Awaits(q)
  BY DEF TypeOK, Idle, Served, Asks, Awaits
<1>1. CASE UNCHANGED <<serving, pc, body, ip, resp>>
  <2>1. Asks(q, d, serving[d].req)
    BY <1>0, <1>1 DEF Idle
  <2> QED
    BY <1>1, <2>1 DEF Asks, Home, Op
<1>2. CASE \E p \in Apps : AppStep(p)
  <2>1. PICK p \in Apps : AppStep(p)
    BY <1>2
  <2>2. serving' = serving /\ ~Idle(d)
    BY <2>1, TablesKept DEF SameTables, Idle
  <2>3. q # p
    BY <1>0, <2>1, <2>2, AwaitsStill
  <2>4. SameNode(q) /\ resp'[q] = resp[q]
    BY <1>0, <2>1, <2>2, <2>3, Elsewhere DEF SameMail
  <2> QED
    BY <1>0, <2>2, <2>4 DEF Asks, SameNode, Home, Op
<1>3. CASE Barrier
  <2>1. serving' = serving /\ ~Idle(d)
    BY <1>3 DEF Barrier, dslVars, Idle
  <2> QED
    BY <1>0, <1>3, <2>1 DEF Barrier, Awaits
<1>4. CASE \E e \in Dsls : GrantContended(e)
  <2>1. PICK e \in Dsls : GrantContended(e)
    BY <1>4
  <2>2. d # e
    BY <2>1, GrantReplies, TypesAre DEF Idle, TypesDsl
  <2>3. serving'[d] = serving[d] /\ ~Idle(d)
    BY <2>1, <2>2, GrantReplies, TypesAre DEF Idle, TypesDsl
  <2>4. q # serving[e].app
    BY <1>0, <2>1, <2>2, <2>3, GrantReplies DEF Served, Asks
  <2>5. SameNode(q) /\ resp'[q] = resp[q]
    BY <1>0, <2>1, <2>3, <2>4, GrantReplies, AbortElsewhere
  <2> QED
    BY <1>0, <2>3, <2>5 DEF Asks, SameNode, Home, Op
<1>5. CASE \E e \in Dsls, p \in Apps : dsl_service(e, p)
  <2>1. PICK e \in Dsls, p \in Apps : dsl_service(e, p)
    BY <1>5
  <2>2. \A r \in Apps : SameNode(r) /\ (r # p => SameMail(r))
    BY <2>1, DslElsewhere
  <2>3. CASE ~Idle(d)
    <3>1. serving'[d] = serving[d]
      BY <2>1, <2>3, DslReplies, TypesAre DEF TypesDsl
    <3>2. d # e
      BY <2>1, <2>3, DslReplies
    <3>3. resp'[q] = resp[q]
      <4>1. CASE q = p
        <5>1. chan[e][p].type \notin {"LOAD", "STORE", "STORE_INC", "LOAD_NONTX"}
          BY <1>0, <2>3, <3>2, <4>1 DEF SlotInv, Slot, Requested, Asks
        <5> QED
          BY <2>1, <4>1, <5>1, DslReplies
      <4> QED
        BY <1>0, <2>2, <2>3, <4>1 DEF SameMail
    <3> QED
      BY <1>0, <2>2, <2>3, <3>1, <3>3 DEF Asks, SameNode, Home, Op
  <2>4. CASE Idle(d)
    <3>1. /\ chan[d][p].type \in {"LOAD", "STORE", "STORE_INC"} /\ resp'[p] = resp[p] /\ e = d
          /\ serving'[d] = [app |-> p, req |-> chan[d][p]]
      <4>1. serving'[d] # serving[d]
        BY <2>4 DEF Idle
      <4>2. /\ chan[e][p].type \in {"LOAD", "STORE", "STORE_INC"} /\ resp'[p] = resp[p]
            /\ serving' = [serving EXCEPT ![e] = [app |-> p, req |-> chan[e][p]]]
        BY <2>1, <4>1, DslReplies
      <4>3. e = d
        BY <4>1, <4>2, TypesAre DEF TypesDsl
      <4> QED
        BY <4>2, <4>3, TypesAre DEF TypesDsl
    <3>2. Asks(p, d, chan[d][p])
      BY <3>1 DEF SlotInv, Slot, Requested
    <3>3. SameNode(p)
      BY <2>2
    <3>4. serving'[d].app = p /\ serving'[d].req = chan[d][p]
      BY <3>1
    <3> QED
      BY <3>1, <3>2, <3>3, <3>4 DEF Asks, SameNode, Home, Op
  <2> QED
    BY <2>3, <2>4
<1>6. CASE \E e \in Dsls : AbortVictim(e)
  <2>1. UNCHANGED <<serving, pc, body, ip, resp>>
    BY <1>6 DEF AbortVictim, appVars
  <2> QED
    BY <1>1, <2>1
<1>7. CASE UNCHANGED vars
  BY <1>1, <1>7 DEF vars, appVars, dslVars
<1> QED
  BY <1>2, <1>3, <1>4, <1>5, <1>6, <1>7 DEF Next, Terminated

\* A transactional request is not one of the code outside transactions.
LEMMA AsksTx ==
  ASSUME TypeOK, NEW p \in Apps, Control(p), NEW d, NEW m, Asks(p, d, m)
  PROVE  /\ m.type \in {"LOAD", "STORE", "STORE_INC"} <=> pc[p] = "wait"
         /\ Awaits(p) /\ d = Home(p) /\ ip[p] \in DOMAIN body[p]
<1>1. CASE pc[p] = "wait"
  BY <1>1, BodyTyped DEF Asks, Control, Op, Awaits
<1>2. CASE pc[p] = "wait_plain"
  BY <1>2 DEF Asks, Control, Op, Awaits
<1> QED
  BY <1>1, <1>2 DEF Asks

LEMMA AnsweredStep ==
  ASSUME TypeOK, SlotInv, \A p \in Apps : NodeInv(p), \A d \in Dsls : DslInv(d), [Next]_vars
  PROVE  \A p \in Apps : Answered(p)'
<1> SUFFICES ASSUME NEW q \in Apps PROVE Answered(q)'
  OBVIOUS
<1>0. Answered(q) /\ Control(q)
  BY DEF NodeInv
<1>1. CASE UNCHANGED <<pc, resp>>
  BY <1>0, <1>1 DEF Answered
<1>2. CASE \E p \in Apps : AppStep(p)
  <2>1. PICK p \in Apps : AppStep(p)
    BY <1>2
  <2>2. CASE q # p
    BY <1>0, <2>1, <2>2, Elsewhere DEF SameNode, SameMail, Answered
  <2>3. CASE q = p /\ (Granted(p) \/ GotPlain(p) \/ Refused(p))
    <3>1. resp'[p] = NoResp
      BY <2>3, TypesAre DEF Granted, GotPlain, Refused, TypesMsg
    <3> QED
      BY <2>3, <3>1 DEF Answered, NoResp
  <2>4. CASE q = p /\ ~(Granted(p) \/ GotPlain(p) \/ Refused(p))
    <3>1. resp' = resp /\ pc[p] \notin {"wait", "wait_plain"}
      BY <2>1, <2>4 DEF AppStep, BeginPlain, Begin, ToBarrier, Running, Contact, NoticeAbort, Send,
         SetPersisting, SendRelease, Committed, Retry
    <3> QED
      BY <1>0, <2>4, <3>1 DEF Answered, NoResp
  <2> QED
    BY <2>1, <2>2, <2>3, <2>4
<1>3. CASE Barrier
  BY <1>0, <1>3 DEF Barrier, Answered, NoResp
<1>4. CASE \E e \in Dsls : GrantContended(e)
  <2>1. PICK e \in Dsls : GrantContended(e)
    BY <1>4
  <2>2. CASE q = serving[e].app
    <3>1. Asks(q, e, serving[e].req)
      BY <2>1, <2>2, GrantReplies DEF DslInv, Served
    <3> QED
      BY <2>1, <2>2, <3>1, GrantReplies, AbortElsewhere DEF Asks, Answered, SameNode
  <2>3. CASE q # serving[e].app
    BY <1>0, <2>1, <2>3, GrantReplies, AbortElsewhere DEF Answered, SameNode
  <2> QED
    BY <2>2, <2>3
<1>5. CASE \E e \in Dsls, p \in Apps : dsl_service(e, p)
  <2>1. PICK e \in Dsls, p \in Apps : dsl_service(e, p)
    BY <1>5
  <2>2. pc'[q] = pc[q] /\ (q # p => resp'[q] = resp[q])
    BY <2>1, DslElsewhere DEF SameNode, SameMail
  <2>3. CASE resp'[q] = resp[q]
    BY <1>0, <2>2, <2>3 DEF Answered
  <2>4. CASE resp'[q] # resp[q]
    <3>1. /\ q = p /\ chan[e][p].type \in {"LOAD", "STORE", "STORE_INC", "LOAD_NONTX"}
          /\ resp'[p].type = "CONFLICT" /\ resp[p].type # "CONFLICT" => chan[e][p].type \in {"LOAD", "STORE", "STORE_INC"}
      BY <2>1, <2>2, <2>4, DslReplies
    <3>2. Asks(p, e, chan[e][p])
      BY <3>1 DEF SlotInv, Slot, Requested
    <3>3. /\ chan[e][p].type \in {"LOAD", "STORE", "STORE_INC"} <=> pc[p] = "wait"
          /\ pc[p] \in {"wait", "wait_plain"} /\ resp[p] = NoResp
      BY <1>0, <3>1, <3>2, AsksTx DEF Awaits
    <3> QED
      BY <2>2, <3>1, <3>3 DEF Answered, NoResp
  <2> QED
    BY <2>3, <2>4
<1>6. CASE \E e \in Dsls : AbortVictim(e)
  <2>1. UNCHANGED <<pc, resp>>
    BY <1>6 DEF AbortVictim, appVars
  <2> QED
    BY <1>1, <2>1
<1>7. CASE UNCHANGED vars
  BY <1>1, <1>7 DEF vars, appVars
<1> QED
  BY <1>2, <1>3, <1>4, <1>5, <1>6, <1>7 DEF Next, Terminated

LEMMA SlotKept ==
  ASSUME NEW d, NEW q, Slot(d, q), SameNode(q), chan'[d][q] = chan[d][q],
         chan[d][q].type \in {"LOAD", "STORE", "STORE_INC", "LOAD_NONTX"} => resp'[q] = resp[q],
         Idle(d)' \/ serving'[d] = serving[d] \/ serving'[d].app # q
  PROVE  Slot(d, q)'
<1>1. /\ pc'[q] = pc[q] /\ body'[q] = body[q] /\ ip'[q] = ip[q]
      /\ InAttempt(q)' <=> InAttempt(q)
      /\ \A i : HomeOf(q, i)' = HomeOf(q, i)
  BY DEF SameNode, InAttempt, HomeOf
<1>2. Requested(d, q)'
  BY <1>1 DEF Slot, Requested, Asks, Home, Op, Idle
<1>3. LoadFollows(d, q)'
  BY <1>1 DEF Slot, LoadFollows
<1>4. Releases(d, q)'
  BY <1>1 DEF Slot, Releases
<1> QED
  BY <1>2, <1>3, <1>4 DEF Slot

LEMMA RequestedOwn ==
  ASSUME TypeOK, NEW p \in Apps, NEW d \in Dsls, NodeInv(p), DslInv(d), Slot(d, p), AppStep(p)
  PROVE  Requested(d, p)'
<1>1. chan[d][p].type \notin {"LOAD", "STORE", "STORE_INC", "LOAD_NONTX"}
  BY AwaitsStill DEF Slot, Requested, Asks, Awaits
<1>2. ~Idle(d) => serving[d].app # p
  BY AwaitsStill DEF DslInv, Served, Asks, Awaits
<1>3. serving' = serving
  BY TablesKept DEF SameTables
<1>4. CASE chan'[d][p] = chan[d][p]
  BY <1>1, <1>4 DEF Requested
<1>5. CASE Send(p) /\ chan'[d][p] # chan[d][p]
  <2>1. PICK m : /\ m = [type |-> Op(p).op, addr |-> Op(p).addr, val |-> Op(p).val, meta |-> prio[p]]
                 /\ chan' = [chan EXCEPT ![Home(p)][p] = m]
    BY <1>5 DEF Send
  <2>2. d = Home(p) /\ chan'[d][p] = m /\ m.type = Op(p).op /\ m.addr = Op(p).addr /\ m.val = Op(p).val
    BY <1>5, <2>1, TypesAre DEF TypesMsg
  <2>3. m.type # "STORE_NONTX" => pc'[p] \in {"wait", "wait_plain"} /\ ip' = ip
    BY <1>5, <2>2, TypesAre DEF Send, TypesApp
  <2>4. resp'[p] = NoResp /\ body' = body
    BY <1>5 DEF Send, NodeInv, Answered
  <2> QED
    BY <1>2, <1>3, <2>2, <2>3, <2>4 DEF Requested, Asks, Home, Op, Idle
<1>6. CASE SendRelease(p) /\ chan'[d][p] # chan[d][p]
  <2>1. PICK m : /\ m = [type |-> "RMV_NODE", commit |-> pc[p] = "commit", meta |-> prio[p]]
                 /\ chan' = [chan EXCEPT ![Min(unsent[p])][p] = m]
    BY <1>6 DEF SendRelease
  <2>2. chan'[d][p] = m /\ m.type = "RMV_NODE"
    BY <1>6, <2>1, TypesAre DEF TypesMsg
  <2> QED
    BY <2>2 DEF Requested
<1> QED
  BY <1>4, <1>5, <1>6 DEF AppStep, BeginPlain, Begin, ToBarrier, Running, Contact, NoticeAbort, Granted,
     GotPlain, Refused, SetPersisting, Committed, Retry

LEMMA LoadFollowsOwn ==
  ASSUME TypeOK, NEW p \in Apps, NEW d \in Dsls, NodeInv(p), Slot(d, p), AppStep(p)
  PROVE  LoadFollows(d, p)'
<1>0. ip[p] \in Nat \ {0} /\ body[p] \in Seq(Operation) /\ DOMAIN body[p] \subseteq Nat
  BY DEF TypeOK
<1> DEFINE Follows(k, n, w) == /\ k \in DOMAIN body[p] /\ k >= n /\ (w => k > n)
                               /\ body[p][k].op = "LOAD_NONTX" /\ HomeOf(p, k) = d
<1>1. chan[d][p].type = "STORE_NONTX" => pc[p] \in {"plain", "wait_plain"} /\ \E k : Follows(k, ip[p], pc[p] = "wait_plain")
  BY DEF Slot, LoadFollows
<1>2. ASSUME body'[p] = body[p], pc'[p] \in {"plain", "wait_plain"}, \E k : Follows(k, ip'[p], pc'[p] = "wait_plain")
      PROVE  LoadFollows(d, p)'
  BY <1>2 DEF LoadFollows, HomeOf
<1>3. CASE GotPlain(p)
  <2>1. ip'[p] = ip[p] + 1 /\ pc'[p] = "plain" /\ pc[p] = "wait_plain" /\ body' = body /\ chan' = chan
    BY <1>3, TypesAre DEF GotPlain, TypesApp
  <2>2. CASE chan[d][p].type = "STORE_NONTX"
    <3>1. PICK k : Follows(k, ip[p], TRUE)
      BY <1>1, <2>1, <2>2
    <3>2. Follows(k, ip'[p], pc'[p] = "wait_plain")
      BY <1>0, <2>1, <3>1
    <3> QED
      BY <1>2, <2>1, <3>2
  <2> QED
    BY <2>1, <2>2 DEF LoadFollows
<1>4. CASE Send(p)
  <2>1. PICK m : /\ m = [type |-> Op(p).op, addr |-> Op(p).addr, val |-> Op(p).val, meta |-> prio[p]]
                 /\ chan' = [chan EXCEPT ![Home(p)][p] = m]
    BY <1>4 DEF Send
  <2>2. /\ m.type = Op(p).op /\ (d = Home(p) => chan'[d][p] = m) /\ (d # Home(p) => chan'[d][p] = chan[d][p])
        /\ body' = body /\ ip[p] \in DOMAIN body[p] /\ pc[p] \in {"send", "plain"}
    BY <1>4, <2>1, TypesAre, NextOp DEF Send, TypesMsg, NodeInv, Control
  <2>3. /\ Op(p).op = "STORE_NONTX" => ip'[p] = ip[p] + 1 /\ pc' = pc
        /\ Op(p).op # "STORE_NONTX" => pc'[p] = (IF stage = "run" THEN "wait" ELSE "wait_plain") /\ ip' = ip
    BY <1>4, TypesAre DEF Send, TypesApp, InTx
  <2>4. pc[p] = "send" => Op(p).op \in {"LOAD", "STORE", "STORE_INC"}
    BY <2>2, BodyTyped DEF NodeInv, Control, Op
  <2>5. stage \in {"reset", "warm", "run", "total", "end"}
    BY DEF TypeOK
  <2>6. CASE d = Home(p) /\ Op(p).op = "STORE_NONTX"
    <3>1. pc[p] = "plain"
      BY <2>2, <2>4, <2>6
    <3>2. PICK k \in DOMAIN body[p] : k > ip[p] /\ body[p][k].op = "LOAD_NONTX" /\ body[p][k].addr = Op(p).addr
      BY <2>2, <2>6, <3>1 DEF NodeInv, Control, Op
    <3>3. Follows(k, ip'[p], pc'[p] = "wait_plain")
      BY <1>0, <2>3, <2>6, <3>1, <3>2 DEF HomeOf, Home
    <3> QED
      BY <1>2, <2>2, <2>3, <2>6, <3>1, <3>3
  <2>7. CASE d = Home(p) /\ Op(p).op # "STORE_NONTX"
    BY <2>2, <2>7 DEF LoadFollows
  <2>8. CASE d # Home(p) /\ chan[d][p].type = "STORE_NONTX"
    <3>1. pc[p] = "plain" /\ stage # "run"
      BY <1>1, <2>2, <2>8 DEF NodeInv, Control
    <3>2. PICK k : Follows(k, ip[p], FALSE)
      BY <1>1, <2>8
    <3>3. k # ip[p]
      BY <2>8, <3>2 DEF HomeOf, Home, Op
    <3>4. Follows(k, ip'[p], pc'[p] = "wait_plain")
      BY <1>0, <2>3, <3>1, <3>2, <3>3
    <3>5. pc'[p] \in {"plain", "wait_plain"} /\ body'[p] = body[p]
      BY <2>2, <2>3, <3>1
    <3> QED
      BY <1>2, <3>4, <3>5
  <2>9. CASE d # Home(p) /\ chan[d][p].type # "STORE_NONTX"
    BY <2>2, <2>9 DEF LoadFollows
  <2> QED
    BY <2>6, <2>7, <2>8, <2>9
<1>5. CASE SendRelease(p)
  <2>1. PICK m : /\ m = [type |-> "RMV_NODE", commit |-> pc[p] = "commit", meta |-> prio[p]]
                 /\ chan' = [chan EXCEPT ![Min(unsent[p])][p] = m]
    BY <1>5 DEF SendRelease
  <2>2. chan'[d][p] = m \/ chan'[d][p] = chan[d][p]
    BY <2>1, TypesAre DEF TypesMsg
  <2>3. m.type = "RMV_NODE"
    BY <2>1
  <2>4. pc[p] \in {"commit", "abort"}
    BY <1>5 DEF SendRelease
  <2> QED
    BY <1>1, <2>2, <2>3, <2>4 DEF LoadFollows
<1>6. CASE ToBarrier(p)
  <2>1. chan' = chan /\ (pc[p] = "idle" \/ (pc[p] = "plain" /\ ip[p] \notin DOMAIN body[p] /\ ip[p] > Len(body[p])))
    BY <1>0, <1>6 DEF ToBarrier
  <2>2. ASSUME chan[d][p].type = "STORE_NONTX" PROVE FALSE
    <3>1. PICK k : Follows(k, ip[p], FALSE)
      BY <1>1, <2>2
    <3> QED
      BY <1>0, <1>1, <2>1, <2>2, <3>1
  <2> QED
    BY <2>1, <2>2 DEF LoadFollows
<1>7. CASE ~(GotPlain(p) \/ Send(p) \/ SendRelease(p) \/ ToBarrier(p))
  <2>1. chan' = chan /\ pc[p] \notin {"plain", "wait_plain"}
    BY <1>7 DEF AppStep, BeginPlain, Begin, Running, Contact, NoticeAbort, Granted, Refused,
       SetPersisting, Committed, Retry
  <2> QED
    BY <1>1, <2>1 DEF LoadFollows
<1> QED
  BY <1>3, <1>4, <1>5, <1>6, <1>7

LEMMA ReleasesOwn ==
  ASSUME TypeOK, NEW p \in Apps, NEW d \in Dsls, NodeInv(p), Slot(d, p), AppStep(p)
  PROVE  Releases(d, p)'
<1>0. ip[p] \in Nat \ {0} /\ body[p] \in Seq(Operation) /\ DOMAIN body[p] \subseteq Nat \ {0}
  BY DEF TypeOK
<1> USE TypesAre DEF TypesApp, InAttempt
<1> DEFINE Old == chan'[d][p] = chan[d][p] /\ chan[d][p].type = "RMV_NODE"
           Reached(i) == i < ip[p] \/ (i = ip[p] /\ pc[p] = "wait")
           Somewhere == \E i \in DOMAIN body[p] : HomeOf(p, i) = d
<1>1. chan[d][p].type = "RMV_NODE" =>
        /\ InAttempt(p) => \A i \in DOMAIN body[p] : Reached(i) => HomeOf(p, i) # d
        /\ ~chan[d][p].commit => (InAttempt(p) \/ pc[p] \in {"start", "abort"}) /\ Somewhere
  BY DEF Slot, Releases
<1>2. body'[p] = body[p] => (\A i : HomeOf(p, i)' = HomeOf(p, i)) /\ DOMAIN body'[p] = DOMAIN body[p]
  BY DEF HomeOf
<1>3. CASE BeginPlain(p) \/ Begin(p) \/ ToBarrier(p) \/ GotPlain(p) \/ Committed(p)
  <2>1. /\ chan' = chan /\ pc[p] \in {"idle", "plain", "wait_plain", "commit"}
        /\ pc'[p] \in {"plain", "start", "barrier", "idle"}
    BY <1>3 DEF BeginPlain, Begin, ToBarrier, GotPlain, Committed
  <2> QED
    BY <1>1, <2>1 DEF Releases
<1>4. CASE Running(p)
  <2>1. UNCHANGED <<chan, body, ip>> /\ pc'[p] = "body" /\ ip[p] = 1
    BY <1>4 DEF Running, NodeInv, Control
  <2> QED
    BY <1>0, <1>1, <1>2, <2>1 DEF Releases
<1>5. CASE Contact(p)
  <2>1. UNCHANGED <<chan, body, ip>> /\ pc[p] = "body" /\ pc'[p] = "send"
    BY <1>5 DEF Contact
  <2> QED
    BY <1>1, <1>2, <2>1 DEF Releases
<1>6. CASE NoticeAbort(p) \/ Refused(p) \/ Retry(p)
  <2>1. /\ UNCHANGED <<chan, body>> /\ pc'[p] \in {"abort", "start"}
    BY <1>6 DEF NoticeAbort, Refused, Retry
  <2> QED
    BY <1>1, <1>2, <2>1 DEF Releases
<1>7. CASE Granted(p)
  <2>1. UNCHANGED <<chan, body>> /\ pc[p] = "wait" /\ pc'[p] = "body" /\ ip'[p] = ip[p] + 1
    BY <1>7 DEF Granted
  <2>2. \A i \in DOMAIN body[p] : i < ip'[p] => Reached(i)
    BY <1>0, <2>1
  <2> QED
    BY <1>1, <1>2, <2>1, <2>2 DEF Releases
<1>8. CASE SetPersisting(p)
  <2>1. UNCHANGED <<chan, body>> /\ pc[p] = "body" /\ pc'[p] = "commit" /\ ip[p] \notin DOMAIN body[p]
    BY <1>8, NextOp DEF SetPersisting
  <2>2. \A i \in DOMAIN body[p] : Reached(i)
    BY <1>0, <2>1
  <2> QED
    BY <1>1, <1>2, <2>1, <2>2 DEF Releases
<1>9. CASE Send(p)
  <2>1. PICK m : /\ m = [type |-> Op(p).op, addr |-> Op(p).addr, val |-> Op(p).val, meta |-> prio[p]]
                 /\ chan' = [chan EXCEPT ![Home(p)][p] = m]
    BY <1>9 DEF Send
  <2>2. /\ m.type = Op(p).op /\ (d = Home(p) => chan'[d][p] = m) /\ (d # Home(p) => chan'[d][p] = chan[d][p])
        /\ body' = body /\ ip[p] \in DOMAIN body[p] /\ pc[p] \in {"send", "plain"}
    BY <1>9, <2>1, NextOp DEF Send, TypesMsg, NodeInv, Control
  <2>3. Op(p) \in Operation /\ Op(p).op # "RMV_NODE"
    BY <2>2, OpTyped
  <2>4. pc[p] = "send" => stage = "run" /\ Op(p).op # "STORE_NONTX"
    <3>1. pc[p] = "send" => stage = "run" /\ body[p] \in Bodies[p]
      BY DEF NodeInv, Control
    <3>2. body[p] \in Bodies[p] => Op(p).op # "STORE_NONTX"
      BY <2>2, BodyTyped DEF Op
    <3> QED
      BY <3>1, <3>2
  <2>5. pc[p] = "plain" => stage # "run"
    BY DEF NodeInv, Control
  <2>6. pc[p] = "send" => pc'[p] = "wait" /\ ip' = ip
    BY <1>9, <2>4 DEF Send, InTx
  <2>7. pc[p] = "plain" => pc'[p] \in {"plain", "wait_plain"}
    BY <1>9, <2>5 DEF Send, InTx
  <2>8. CASE d = Home(p)
    BY <2>2, <2>3, <2>8 DEF Releases
  <2>9. CASE d # Home(p) /\ pc[p] = "send"
    <3>1. HomeOf(p, ip[p]) # d
      BY <2>9 DEF HomeOf, Home, Op
    <3> QED
      BY <1>1, <1>2, <2>2, <2>6, <2>9, <3>1 DEF Releases
  <2>10. CASE d # Home(p) /\ pc[p] = "plain"
    BY <1>1, <2>2, <2>7, <2>10 DEF Releases
  <2> QED
    BY <2>2, <2>8, <2>9, <2>10
<1>10. CASE SendRelease(p)
  <2>1. PICK m, e : /\ m = [type |-> "RMV_NODE", commit |-> pc[p] = "commit", meta |-> prio[p]]
                    /\ e = Min(unsent[p]) /\ chan' = [chan EXCEPT ![e][p] = m]
    BY <1>10 DEF SendRelease
  <2>2. /\ (d = e => chan'[d][p] = m) /\ (d # e => chan'[d][p] = chan[d][p])
        /\ UNCHANGED <<pc, body, ip>> /\ pc[p] \in {"commit", "abort"}
    BY <1>10, <2>1 DEF SendRelease, TypesMsg
  <2>5. m.commit <=> pc[p] = "commit"
    BY <2>1
  <2>3. e \in contacted[p]
    <3>1. unsent[p] \in SUBSET Nat /\ unsent[p] # {}
      BY <1>10, PgasAssumption DEF SendRelease
    <3>2. e \in unsent[p]
      BY <2>1, <3>1, MinIn
    <3> QED
      BY <2>2, <3>2 DEF NodeInv, Contacts
  <2>4. d = e => Somewhere
    BY <2>3 DEF NodeInv, Contacts
  <2> QED
    BY <1>1, <1>2, <2>2, <2>4, <2>5 DEF Releases
<1> QED
  BY <1>3, <1>4, <1>5, <1>6, <1>7, <1>8, <1>9, <1>10 DEF AppStep

LEMMA SlotStep ==
  ASSUME TypeOK, \A p \in Apps : NodeInv(p), \A d \in Dsls : DslInv(d), SlotInv, [Next]_vars
  PROVE  SlotInv'
<1> SUFFICES ASSUME NEW d \in Dsls, NEW q \in Apps PROVE Slot(d, q)'
  BY DEF SlotInv
<1>0. Slot(d, q) /\ NodeInv(q) /\ DslInv(d)
  BY DEF SlotInv
<1>1. CASE UNCHANGED <<appVars, chan, serving, resp>>
  BY <1>0, <1>1, SlotKept DEF appVars, SameNode
<1>2. CASE \E p \in Apps : AppStep(p)
  <2>1. PICK p \in Apps : AppStep(p)
    BY <1>2
  <2>2. CASE q # p
    <3>1. SameNode(q) /\ chan'[d][q] = chan[d][q] /\ resp'[q] = resp[q] /\ serving' = serving
      BY <2>1, <2>2, Elsewhere, TablesKept DEF SameTables, SameMail
    <3> QED
      BY <1>0, <3>1, SlotKept
  <2>3. CASE q = p
    BY <1>0, <2>1, <2>3, RequestedOwn, LoadFollowsOwn, ReleasesOwn DEF Slot
  <2> QED
    BY <2>2, <2>3
<1>3. CASE Barrier
  <2>1. UNCHANGED <<chan, serving, body, ip, resp>> /\ pc[q] = "barrier" /\ pc'[q] \in {"end", "idle"}
    BY <1>3 DEF Barrier, dslVars
  <2>2. Requested(d, q)'
    BY <1>0, <2>1 DEF Slot, Requested, Asks
  <2>3. LoadFollows(d, q)'
    BY <1>0, <2>1 DEF Slot, LoadFollows
  <2>4. Releases(d, q)'
    BY <1>0, <2>1 DEF Slot, Releases, InAttempt
  <2> QED
    BY <2>2, <2>3, <2>4 DEF Slot
<1>4. CASE \E e \in Dsls : GrantContended(e)
  <2>1. PICK e \in Dsls : GrantContended(e)
    BY <1>4
  <2>2. /\ chan' = chan /\ SameNode(q)
        /\ q # serving[e].app => resp'[q] = resp[q]
        /\ serving' = [serving EXCEPT ![e] = NoMsg] /\ ~Idle(e)
    BY <2>1, GrantReplies, AbortElsewhere
  <2>3. Idle(d)' \/ serving'[d] = serving[d]
    BY <2>2, TypesAre DEF TypesDsl, Idle
  <2>4. q = serving[e].app => chan[d][q].type \notin {"LOAD", "STORE", "STORE_INC", "LOAD_NONTX"}
    BY <1>0, <2>2 DEF DslInv, Served, Slot, Requested, Asks
  <2> QED
    BY <1>0, <2>2, <2>3, <2>4, SlotKept
<1>5. CASE \E e \in Dsls, p \in Apps : dsl_service(e, p)
  <2>1. PICK e \in Dsls, p \in Apps : dsl_service(e, p)
    BY <1>5
  <2>2. SameNode(q) /\ (q # p => SameMail(q))
    BY <2>1, DslElsewhere
  <2>3. CASE d = e /\ q = p
    <3>1. chan'[d][q].type = "NONE"
      BY <2>1, <2>3, DslReplies, TypesAre DEF TypesMsg, NoMsg
    <3> QED
      BY <3>1 DEF Slot, Requested, LoadFollows, Releases
  <2>4. CASE ~(d = e /\ q = p)
    <3>1. chan'[d][q] = chan[d][q]
      BY <2>1, <2>4, DslReplies, TypesAre DEF TypesMsg
    <3>2. chan[d][q].type \in {"LOAD", "STORE", "STORE_INC", "LOAD_NONTX"} => resp'[q] = resp[q]
      <4>1. CASE q # p
        BY <2>2, <4>1 DEF SameMail
      <4>2. CASE q = p /\ d # e
        <5>1. Slot(e, p)
          BY DEF SlotInv
        <5>2. resp'[p] # resp[p] => chan[e][p].type \in {"LOAD", "STORE", "STORE_INC", "LOAD_NONTX"}
          BY <2>1, DslReplies
        <5> QED
          BY <1>0, <4>2, <5>1, <5>2 DEF Slot, Requested, Asks
      <4> QED
        BY <2>4, <4>1, <4>2
    <3>3. Idle(d)' \/ serving'[d] = serving[d] \/ serving'[d].app # q
      <4>1. \/ UNCHANGED serving
            \/ serving' = [serving EXCEPT ![e] = [app |-> p, req |-> chan[e][p]]]
        BY <2>1, DslReplies
      <4> QED
        BY <2>4, <4>1, TypesAre DEF TypesDsl
    <3> QED
      BY <1>0, <2>2, <3>1, <3>2, <3>3, SlotKept
  <2> QED
    BY <2>3, <2>4
<1>6. CASE \E e \in Dsls : AbortVictim(e)
  <2>1. UNCHANGED <<appVars, chan, serving, resp>>
    BY <1>6 DEF AbortVictim
  <2> QED
    BY <1>1, <2>1
<1>7. CASE UNCHANGED vars
  BY <1>1, <1>7 DEF vars, dslVars
<1> QED
  BY <1>2, <1>3, <1>4, <1>5, <1>6, <1>7 DEF Next, Terminated

-----------------------------------------------------------------------------
(* The write sets.                                                           *)

\* The request m of p is granted at d, at once or after the holders have lost.
Granting(d, p, m) == Accept(d, p, m) \/ (GrantContended(d) /\ p = serving[d].app /\ m = serving[d].req)
\* Everything of p at d goes.
Clearing(d, p) == Emptied(d, p) /\ DeleteNode(d, p)

Entry(m) == [addr |-> m.addr, val |-> IF m.type = "STORE" THEN m.val ELSE mem[m.addr] + m.val]

LEMMA EmptiedIs ==
  ASSUME TypeOK, NEW d \in Dsls, NEW p \in Apps, Emptied(d, p)
  PROVE  /\ wsets'[d][p] = <<>>
         /\ \A e \in Dsls, q \in Apps : e # d \/ q # p => wsets'[e][q] = wsets[e][q]
BY DEF TypeOK, Emptied

LEMMA DeleteIs ==
  ASSUME NEW d \in Dsls, NEW p \in Apps, DeleteNode(d, p), NEW a \in Accounts
  PROVE  /\ writer'[a] = (IF Responsible[a] = d /\ writer[a] = p THEN NoNode ELSE writer[a])
         /\ readers'[a] = (IF Responsible[a] = d THEN readers[a] \ {p} ELSE readers[a])
BY DEF DeleteNode

LEMMA GrantIs ==
  ASSUME TypeOK, NEW d \in Dsls, NEW p \in Apps, NEW m \in Request, Grant(d, p, m)
  PROVE  /\ \A e \in Dsls, q \in Apps : e # d \/ q # p \/ m.type = "LOAD" => wsets'[e][q] = wsets[e][q]
         /\ m.type # "LOAD" =>
              /\ \A j \in DOMAIN wsets'[d][p] : \/ wsets'[d][p][j] = Entry(m)
                                                \/ j \in DOMAIN wsets[d][p] /\ wsets'[d][p][j] = wsets[d][p][j]
              /\ \A j \in DOMAIN wsets[d][p] : j \in DOMAIN wsets'[d][p] /\ wsets'[d][p][j] = wsets[d][p][j]
              /\ \E j \in DOMAIN wsets'[d][p] : wsets'[d][p][j] = Entry(m)
         /\ \A a \in Accounts : writer'[a] = IF m.type # "LOAD" /\ a = m.addr THEN p ELSE writer[a]
         /\ \A a \in Accounts : readers'[a] = IF m.type = "LOAD" /\ a = m.addr THEN readers[a] \cup {p} ELSE readers[a]
         /\ resp'[p].type = "NO_CONFLICT" /\ (m.type = "LOAD" => resp'[p].val = mem[m.addr])
         /\ \A q \in Apps : q # p => resp'[q] = resp[q]
<1>1. /\ m.addr \in Accounts /\ m.val \in Int /\ m.type \in {"LOAD", "STORE", "STORE_INC"} /\ mem[m.addr] \in Int
      /\ wsets[d][p] \in Seq(Entries) /\ wsets \in [Dsls -> [Apps -> Seq(Entries)]]
  <2>1. m.addr \in Accounts /\ m.val \in Int /\ m.type \in {"LOAD", "STORE", "STORE_INC"}
    BY DEF Request
  <2>2. mem \in [Accounts -> Int] /\ wsets \in [Dsls -> [Apps -> Seq(Entries)]]
    BY DEF TypeOK, Entries
  <2> QED
    BY <2>1, <2>2
<1>2. PICK e : e = Entry(m)
  OBVIOUS
<1>3. e \in Entries
  BY <1>1, <1>2 DEF Entry, Entries
<1>4. PICK s, t : s = wsets[d][p] /\ t = Append(s, e)
  OBVIOUS
<1>5. /\ DOMAIN t = DOMAIN s \cup {Len(s) + 1} /\ t[Len(s) + 1] = e
      /\ \A i \in DOMAIN s : t[i] = s[i]
  BY <1>1, <1>3, <1>4, Added
<1>6. m.type # "LOAD" => wsets' = [wsets EXCEPT ![d][p] = t]
  <2>1. CASE m.type = "STORE"
    <3>1. Insert(d, p, m.addr, m.val) /\ e = [addr |-> m.addr, val |-> m.val]
      BY <1>2, <2>1 DEF Grant, Entry
    <3> QED
      BY <1>4, <3>1, Zenon DEF Insert
  <2>2. CASE m.type = "STORE_INC"
    <3>1. Insert(d, p, m.addr, mem[m.addr] + m.val) /\ e = [addr |-> m.addr, val |-> mem[m.addr] + m.val]
      BY <1>2, <2>2 DEF Grant, Entry
    <3> QED
      BY <1>4, <3>1, Zenon DEF Insert
  <2> QED
    BY <1>1, <2>1, <2>2
<1>7. m.type # "LOAD" => wsets'[d][p] = t
  BY <1>1, <1>6
<1>8. \A c \in Dsls, q \in Apps : c # d \/ q # p \/ m.type = "LOAD" => wsets'[c][q] = wsets[c][q]
  <2>1. m.type = "LOAD" => wsets' = wsets
    BY DEF Grant
  <2> QED
    BY <1>1, <1>6, <2>1
<1>9. m.type # "LOAD" =>
         /\ \A j \in DOMAIN wsets'[d][p] : \/ wsets'[d][p][j] = Entry(m)
                                           \/ j \in DOMAIN wsets[d][p] /\ wsets'[d][p][j] = wsets[d][p][j]
         /\ \A j \in DOMAIN wsets[d][p] : j \in DOMAIN wsets'[d][p] /\ wsets'[d][p][j] = wsets[d][p][j]
         /\ \E j \in DOMAIN wsets'[d][p] : wsets'[d][p][j] = Entry(m)
  BY <1>2, <1>4, <1>5, <1>7
<1>10. /\ \A a \in Accounts : writer'[a] = IF m.type # "LOAD" /\ a = m.addr THEN p ELSE writer[a]
       /\ \A a \in Accounts : readers'[a] = IF m.type = "LOAD" /\ a = m.addr THEN readers[a] \cup {p} ELSE readers[a]
  BY <1>1 DEF Grant, Loads, Stores, TypeOK
<1>11. PICK r : /\ r = [type |-> "NO_CONFLICT", val |-> IF m.type = "LOAD" THEN mem[m.addr] ELSE 0]
                /\ resp' = [resp EXCEPT ![p] = r]
  <2>1. resp' = [resp EXCEPT ![p] = [type |-> "NO_CONFLICT", val |-> IF m.type = "LOAD" THEN mem[m.addr] ELSE 0]]
    BY Zenon DEF Grant
  <2> QED
    BY <2>1
<1>12. /\ resp'[p].type = "NO_CONFLICT" /\ (m.type = "LOAD" => resp'[p].val = mem[m.addr])
       /\ \A q \in Apps : q # p => resp'[q] = resp[q]
  BY <1>11 DEF TypeOK
<1> QED
  BY <1>8, <1>9, <1>10, <1>12

LEMMA GrantLocks ==
  ASSUME TypeOK, NEW m, m \in Request, NEW d \in Dsls, NEW p \in Apps, Grant(d, p, m), NEW a \in Accounts
  PROVE  /\ m.type = "LOAD" \/ a # m.addr => writer'[a] = writer[a]
         /\ m.type # "LOAD" /\ a = m.addr => writer'[a] = p
         /\ m.type # "LOAD" \/ a # m.addr => readers'[a] = readers[a]
         /\ m.type = "LOAD" /\ a = m.addr => readers'[a] = readers[a] \cup {p}
<1>1. m.addr \in Accounts /\ m.type \in {"LOAD", "STORE", "STORE_INC"}
  BY DEF Request
<1>2. readers \in [Accounts -> SUBSET Apps] /\ writer \in [Accounts -> Apps \cup {NoNode}]
  BY DEF TypeOK
<1>3. PICK c : c = m.addr
  OBVIOUS
<1>4. /\ m.type = "LOAD" => readers' = [readers EXCEPT ![c] = readers[c] \cup {p}] /\ writer' = writer
      /\ m.type # "LOAD" => writer' = [writer EXCEPT ![c] = p] /\ readers' = readers
  BY <1>1, <1>3 DEF Grant, Loads, Stores
<1> QED
  BY <1>1, <1>2, <1>3, <1>4

\* Who is granted a request awaits it, and the word is free for it.
LEMMA GrantingIs ==
  ASSUME PgasInv, NEW d \in Dsls, NEW p \in Apps, NEW m, Granting(d, p, m)
  PROVE  /\ m \in Request /\ m.addr \in Accounts /\ m.type \in {"LOAD", "STORE", "STORE_INC"} /\ Grant(d, p, m)
         /\ pc[p] = "wait" /\ resp[p] = NoResp /\ ip[p] \in DOMAIN body[p] /\ d = Home(p) /\ d \in contacted[p]
         /\ m.type = Op(p).op /\ m.addr = Op(p).addr /\ m.val = Op(p).val /\ Responsible[m.addr] = d
         /\ m.type # "LOAD" => \/ writer[m.addr] \in {NoNode, p} \/ wsets[d][writer[m.addr]] = <<>>
         /\ UNCHANGED <<build, stage, flag, mem, pc, body, ip, seen, contacted, unsent, ntx>>
         /\ \A q \in Apps : SameNode(q)
         /\ \A e \in Dsls, q \in Apps : chan'[e][q].type = "RMV_NODE" <=> chan[e][q].type = "RMV_NODE"
         /\ \A e \in Dsls, q \in Apps : chan'[e][q] = chan[e][q] \/ (chan[e][q].type # "RMV_NODE" /\ chan'[e][q].type # "RMV_NODE")
<1> USE DEF PgasInv
<1>1. CASE Accept(d, p, m)
  <2>1. /\ m = chan[d][p] /\ Idle(d) /\ m.type \in {"LOAD", "STORE", "STORE_INC"} /\ Take(d, p)
        /\ Conflict(p, m) = {} /\ Grant(d, p, m)
        /\ UNCHANGED <<build, stage, appVars, flag, mem>>
    BY <1>1 DEF Accept, Kept
  <2>2. m \in Request /\ m.addr \in Accounts
    BY <2>1, MessageTyped DEF Request
  <2>3. Asks(p, d, m)
    BY <2>1 DEF SlotInv, Slot, Requested
  <2>4. pc[p] = "wait" /\ resp[p] = NoResp /\ ip[p] \in DOMAIN body[p] /\ d = Home(p)
    BY <2>1, <2>3, AsksTx DEF NodeInv, Awaits
  <2>5. d \in contacted[p]
    BY <2>4 DEF NodeInv, Contacts
  <2>6. m.type = Op(p).op /\ m.addr = Op(p).addr /\ m.val = Op(p).val /\ Responsible[m.addr] = d
    BY <2>3 DEF Asks, Home
  <2>7. m.type # "LOAD" => writer[m.addr] \in {NoNode, p}
    BY <2>1 DEF Conflict, Loads
  <2>8. \A e \in Dsls, q \in Apps : chan'[e][q] = chan[e][q] \/ (chan[e][q].type # "RMV_NODE" /\ chan'[e][q].type # "RMV_NODE")
    BY <2>1, TypesAre DEF Take, TypesMsg, NoMsg
  <2> QED
    BY <2>1, <2>2, <2>4, <2>5, <2>6, <2>7, <2>8 DEF appVars, SameNode
<1>2. CASE GrantContended(d) /\ p = serving[d].app /\ m = serving[d].req
  <2>1. /\ ~Idle(d) /\ victims[d] = {} /\ Grant(d, p, m) /\ m \in Request /\ chan' = chan
        /\ UNCHANGED <<build, stage, appVars, flag, mem>>
    BY <1>2, GrantReplies DEF GrantContended
  <2>2. m.addr \in Accounts /\ m.type \in {"LOAD", "STORE", "STORE_INC"}
    BY <2>1 DEF Request
  <2>3. Asks(p, d, m)
    BY <1>2, <2>1 DEF DslInv, Served
  <2>4. pc[p] = "wait" /\ resp[p] = NoResp /\ ip[p] \in DOMAIN body[p] /\ d = Home(p)
    BY <2>2, <2>3, AsksTx DEF NodeInv, Awaits
  <2>5. d \in contacted[p]
    BY <2>4 DEF NodeInv, Contacts
  <2>6. m.type = Op(p).op /\ m.addr = Op(p).addr /\ m.val = Op(p).val /\ Responsible[m.addr] = d
    BY <2>3 DEF Asks, Home
  <2>7. m.type # "LOAD" => writer[m.addr] \in {NoNode, p} \/ wsets[d][writer[m.addr]] = <<>>
    <3>1. Losing(d)
      BY DEF ValueInv
    <3> QED
      BY <1>2, <2>1, <2>2, <3>1 DEF Losing, Stores
  <2> QED
    BY <2>1, <2>2, <2>4, <2>5, <2>6, <2>7 DEF appVars, SameNode
<1> QED
  BY <1>1, <1>2 DEF Granting

\* What the steps of the DSL nodes do to what they keep
LEMMA DslTables ==
  ASSUME PgasInv, NEW d \in Dsls, NEW p \in Apps, dsl_service(d, p)
  PROVE  \/ \E m : Granting(d, p, m)
         \/ /\ Clearing(d, p)
            /\ resp'[p].type = "CONFLICT" \/ chan[d][p].type = "RMV_NODE"
         \/ /\ UNCHANGED <<wsets, readers, writer>>
            /\ \/ chan[d][p].type \in {"LOAD_NONTX", "STORE_NONTX"}
               \/ UNCHANGED <<mem, resp>> /\ chan[d][p].type \in {"LOAD", "STORE", "STORE_INC"}
<1>0. TypeOK
  BY DEF PgasInv
<1>1. CASE \E m : Accept(d, p, m)
  BY <1>1 DEF Granting
<1>2. CASE \E m : Contest(d, p, m)
  BY <1>2 DEF Contest, lockVars
<1>3. CASE \E m : Reject(d, p, m)
  <2>1. resp'[p].type = "CONFLICT"
    BY <1>0, <1>3, TypesAre DEF Reject, TypesMsg
  <2> QED
    BY <1>3, <2>1 DEF Reject, Clearing
<1>4. CASE ServeLoadNontx(d, p) \/ ServeStoreNontx(d, p)
  BY <1>4 DEF ServeLoadNontx, ServeStoreNontx, lockVars
<1>5. CASE RemoveNode(d, p)
  BY <1>5 DEF RemoveNode, Clearing
<1> QED
  BY <1>0, <1>1, <1>2, <1>3, <1>4, <1>5, DslIs

LEMMA EntryTyped ==
  ASSUME TypeOK, NEW d \in Dsls, NEW q \in Apps, NEW j \in DOMAIN wsets[d][q]
  PROVE  wsets[d][q][j].addr \in Accounts /\ wsets[d][q][j].val \in Int
<1>1. wsets[d][q] \in Seq(Entries)
  <2>1. wsets \in [Dsls -> [Apps -> Seq(Entries)]]
    BY DEF TypeOK, Entries
  <2> QED
    BY <2>1
<1>2. PICK s : s = wsets[d][q]
  OBVIOUS
<1>3. s \in Seq(Entries) /\ j \in DOMAIN s
  BY <1>1, <1>2
<1>4. s[j] \in Entries
  BY <1>3
<1> QED
  BY <1>2, <1>4 DEF Entries

LEMMA LockedGranting ==
  ASSUME PgasInv, NEW e \in Dsls, NEW r \in Apps, NEW m, Granting(e, r, m), NEW d \in Dsls, NEW q \in Apps
  PROVE  Locked(d, q)'
<1>1. /\ m \in Request /\ m.addr \in Accounts /\ Grant(e, r, m) /\ Responsible[m.addr] = e
      /\ m.type # "LOAD" => writer[m.addr] \in {NoNode, r} \/ wsets[e][writer[m.addr]] = <<>>
  BY GrantingIs
<1>2. Locked(d, q)
  BY DEF PgasInv, BufferInv, Buffers
<1>3. TypeOK
  BY DEF PgasInv
<1>4. NoNode \notin Apps
  BY PgasAssumption
<1>5. Entry(m).addr = m.addr
  BY DEF Entry
<1> SUFFICES ASSUME NEW j \in DOMAIN wsets'[d][q]
             PROVE  Responsible[wsets'[d][q][j].addr] = d /\ writer'[wsets'[d][q][j].addr] = q
  BY DEF Locked
<1>6. CASE m.type # "LOAD" /\ d = e /\ q = r /\ wsets'[d][q][j] = Entry(m)
  <2>1. writer'[m.addr] = r
    BY <1>1, <1>3, <1>6, GrantIs
  <2> QED
    BY <1>1, <1>5, <1>6, <2>1
<1>7. CASE j \in DOMAIN wsets[d][q] /\ wsets'[d][q][j] = wsets[d][q][j]
  <2>1. PICK a \in Accounts : a = wsets[d][q][j].addr
    BY <1>3, <1>7, EntryTyped
  <2>2. Responsible[a] = d /\ writer[a] = q
    BY <1>2, <1>7, <2>1 DEF Locked
  <2>3. ASSUME m.type # "LOAD", a = m.addr PROVE q = r
    <3>1. wsets[d][q] # <<>>
      BY <1>7
    <3> QED
      BY <1>1, <1>4, <2>2, <2>3, <3>1
  <2>4. writer'[a] = q
    BY <1>1, <1>3, <2>2, <2>3, GrantIs
  <2> QED
    BY <1>7, <2>1, <2>2, <2>4
<1> QED
  BY <1>1, <1>3, <1>6, <1>7, GrantIs

LEMMA LockedClearing ==
  ASSUME PgasInv, NEW e \in Dsls, NEW r \in Apps, Clearing(e, r), NEW d \in Dsls, NEW q \in Apps
  PROVE  Locked(d, q)'
<1>1. TypeOK /\ Locked(d, q)
  BY DEF PgasInv, BufferInv, Buffers
<1>3. CASE d = e /\ q = r
  BY <1>1, <1>3, EmptiedIs DEF Clearing, Locked
<1>4. CASE ~(d = e /\ q = r)
  <2>1. wsets'[d][q] = wsets[d][q]
    BY <1>1, <1>4, EmptiedIs DEF Clearing
  <2>2. ASSUME NEW j \in DOMAIN wsets[d][q]
        PROVE  Responsible[wsets[d][q][j].addr] = d /\ writer'[wsets[d][q][j].addr] = q
    <3>1. PICK a \in Accounts : a = wsets[d][q][j].addr
      BY <1>1, <2>2, EntryTyped
    <3>2. Responsible[a] = d /\ writer[a] = q
      BY <1>1, <2>2, <3>1 DEF Locked
    <3>3. writer'[a] = (IF Responsible[a] = e /\ writer[a] = r THEN NoNode ELSE writer[a])
      BY DeleteIs DEF Clearing
    <3> QED
      BY <1>4, <3>1, <3>2, <3>3
  <2> QED
    BY <2>1, <2>2 DEF Locked
<1> QED
  BY <1>3, <1>4

LEMMA LockedStep ==
  ASSUME PgasInv, [Next]_vars, NEW d \in Dsls, NEW q \in Apps
  PROVE  Locked(d, q)'
<1>0. TypeOK /\ Locked(d, q)
  BY DEF PgasInv, BufferInv, Buffers
<1>1. CASE UNCHANGED <<wsets, writer>>
  BY <1>0, <1>1 DEF Locked
<1>2. CASE (\E p \in Apps : AppStep(p)) \/ Barrier \/ UNCHANGED vars
  <2>1. UNCHANGED <<wsets, writer>>
    BY <1>2, TablesKept DEF SameTables, Barrier, vars, dslVars, lockVars
  <2> QED
    BY <1>1, <2>1
<1>3. CASE \E e \in Dsls : AbortVictim(e)
  <2>1. PICK e \in Dsls : AbortVictim(e)
    BY <1>3
  <2>2. PICK v \in Apps : Emptied(e, v) /\ writer' = writer
    BY <1>0, <2>1, VictimTyped DEF AbortVictim, lockVars
  <2> QED
    BY <1>0, <2>2, EmptiedIs DEF Locked
<1>4. CASE \E e \in Dsls : GrantContended(e)
  <2>1. PICK e \in Dsls : GrantContended(e)
    BY <1>4
  <2>2. PICK r \in Apps : \E m : Granting(e, r, m)
    BY <1>0, <2>1, GrantReplies DEF Granting
  <2> QED
    BY <2>2, LockedGranting
<1>5. CASE \E e \in Dsls, p \in Apps : dsl_service(e, p)
  <2>1. PICK e \in Dsls, p \in Apps : dsl_service(e, p)
    BY <1>5
  <2> QED
    BY <1>1, <2>1, DslTables, LockedGranting, LockedClearing
<1> QED
  BY <1>2, <1>3, <1>4, <1>5 DEF Next, Terminated

\* A step of p that leaves its message at d
LEMMA ToBeReleasedOwn ==
  ASSUME PgasInv, NEW p \in Apps, AppStep(p), NEW d \in Dsls
  PROVE  ToBeReleased(d, p)'
<1>0. /\ TypeOK /\ ToBeReleased(d, p) /\ Slot(d, p) /\ Answered(p) /\ Contacts(p) /\ Control(p)
  BY DEF PgasInv, BufferInv, Buffers, SlotInv, NodeInv
<1>1. wsets' = wsets
  BY TablesKept DEF SameTables
<1> USE TypesAre DEF TypesApp, InAttempt
<1>2. CASE BeginPlain(p) \/ Begin(p) \/ ToBarrier(p) \/ Running(p) \/ GotPlain(p)
  <2>1. chan' = chan /\ pc[p] \in {"idle", "plain", "start", "wait_plain"}
    BY <1>2 DEF BeginPlain, Begin, ToBarrier, Running, GotPlain
  <2> QED
    BY <1>0, <1>1, <2>1 DEF ToBeReleased
<1>3. CASE Contact(p) \/ Granted(p)
  <2>1. chan' = chan /\ InAttempt(p) /\ pc'[p] \in {"body", "send"} /\ contacted[p] \subseteq contacted'[p]
    BY <1>0, <1>3 DEF Contact, Granted
  <2> QED
    BY <1>0, <1>1, <2>1 DEF ToBeReleased
<1>4. CASE NoticeAbort(p) \/ SetPersisting(p)
  <2>1. chan' = chan /\ pc[p] = "body" /\ pc'[p] \in {"abort", "commit"} /\ unsent'[p] = contacted[p]
    BY <1>0, <1>4 DEF NoticeAbort, SetPersisting
  <2> QED
    BY <1>0, <1>1, <2>1 DEF ToBeReleased
<1>5. CASE Refused(p)
  <2>1. /\ chan' = chan /\ pc[p] = "wait" /\ resp[p].type = "CONFLICT" /\ pc'[p] = "abort"
        /\ unsent'[p] = contacted[p] \ {Home(p)}
    BY <1>0, <1>5 DEF Refused
  <2> QED
    BY <1>0, <1>1, <2>1 DEF ToBeReleased
<1>6. CASE Send(p)
  <2>1. PICK m : chan' = [chan EXCEPT ![Home(p)][p] = m] /\ chan[Home(p)][p] = NoMsg
    BY <1>6 DEF Send
  <2>2. /\ d = Home(p) => chan[d][p].type = "NONE"
        /\ d # Home(p) => chan'[d][p] = chan[d][p]
    BY <1>0, <2>1 DEF TypesMsg, NoMsg
  <2>3. UNCHANGED <<contacted, unsent, resp>> /\ pc[p] \in {"send", "plain"} /\ resp[p] = NoResp
    BY <1>0, <1>6 DEF Send, Answered
  <2>4. pc[p] = "send" => pc'[p] = "wait"
    <3>1. pc[p] = "send" => stage = "run" /\ ip[p] \in DOMAIN body[p] /\ body[p] \in Bodies[p]
      BY <1>0 DEF Control
    <3>2. pc[p] = "send" => Op(p).op # "STORE_NONTX"
      BY <3>1, BodyTyped DEF Op
    <3> QED
      BY <1>0, <1>6, <3>1, <3>2 DEF Send, InTx
  <2>5. resp'[p].type # "CONFLICT"
    BY <2>3 DEF NoResp
  <2> QED
    BY <1>0, <1>1, <2>2, <2>3, <2>4, <2>5 DEF ToBeReleased
<1>7. CASE SendRelease(p)
  <2>1. PICK e, m : /\ m = [type |-> "RMV_NODE", commit |-> pc[p] = "commit", meta |-> prio[p]]
                    /\ chan' = [chan EXCEPT ![e][p] = m] /\ unsent' = [unsent EXCEPT ![p] = @ \ {e}]
    BY <1>7 DEF SendRelease
  <2>2. /\ d = e => chan'[d][p].type = "RMV_NODE"
        /\ d # e => chan'[d][p] = chan[d][p] /\ (d \in unsent[p] => d \in unsent'[p])
        /\ pc' = pc /\ pc[p] \in {"commit", "abort"}
    BY <1>0, <1>7, <2>1 DEF SendRelease, TypesMsg
  <2> QED
    BY <1>0, <1>1, <2>2 DEF ToBeReleased
<1>8. CASE Committed(p) \/ Retry(p)
  <2>1. chan' = chan /\ pc[p] \in {"commit", "abort"} /\ unsent[p] = {}
    BY <1>8 DEF Committed, Retry, Released
  <2> QED
    BY <1>0, <1>1, <2>1 DEF ToBeReleased
<1> QED
  BY <1>2, <1>3, <1>4, <1>5, <1>6, <1>7, <1>8 DEF AppStep

LEMMA ToBeReleasedStep ==
  ASSUME PgasInv, [Next]_vars, NEW d \in Dsls, NEW q \in Apps
  PROVE  ToBeReleased(d, q)'
<1>0. TypeOK /\ ToBeReleased(d, q)
  BY DEF PgasInv, BufferInv, Buffers
<1>1. ASSUME wsets'[d][q] = <<>> \/ wsets'[d][q] = wsets[d][q], SameNode(q), chan'[d][q] = chan[d][q],
             resp'[q] = resp[q] \/ resp'[q].type # "CONFLICT"
      PROVE  ToBeReleased(d, q)'
  BY <1>0, <1>1 DEF ToBeReleased, SameNode, InAttempt, Home, Op
<1>2. CASE \E p \in Apps : AppStep(p)
  <2>1. PICK p \in Apps : AppStep(p)
    BY <1>2
  <2>2. CASE q # p
    <3>1. wsets' = wsets /\ SameNode(q) /\ SameMail(q)
      BY <1>0, <2>1, <2>2, Elsewhere, TablesKept DEF SameTables
    <3> QED
      BY <1>1, <3>1 DEF SameMail
  <2> QED
    BY <2>1, <2>2, ToBeReleasedOwn
<1>3. CASE Barrier
  <2>1. UNCHANGED <<wsets, chan>> /\ pc[q] = "barrier"
    BY <1>3 DEF Barrier, dslVars
  <2> QED
    BY <1>0, <2>1 DEF ToBeReleased, InAttempt
<1>4. CASE UNCHANGED vars
  BY <1>1, <1>4 DEF vars, appVars, dslVars, SameNode
<1>5. CASE \E e \in Dsls : AbortVictim(e)
  <2>1. PICK e \in Dsls : AbortVictim(e)
    BY <1>5
  <2>2. PICK v \in Apps : Emptied(e, v) /\ UNCHANGED <<chan, resp>>
    BY <1>0, <2>1, VictimTyped DEF AbortVictim
  <2>3. SameNode(q)
    BY <1>0, <2>1, AbortElsewhere
  <2>4. wsets'[d][q] = <<>> \/ wsets'[d][q] = wsets[d][q]
    BY <1>0, <2>2, EmptiedIs
  <2> QED
    BY <1>1, <2>2, <2>3, <2>4
<1>6. ASSUME NEW e \in Dsls, NEW r \in Apps, NEW m, Granting(e, r, m)
      PROVE  ToBeReleased(d, q)'
  <2>1. /\ m \in Request /\ Grant(e, r, m) /\ SameNode(q) /\ pc[r] = "wait" /\ e = Home(r) /\ e \in contacted[r]
        /\ chan'[d][q].type = "RMV_NODE" <=> chan[d][q].type = "RMV_NODE"
    BY <1>6, GrantingIs
  <2>2. resp'[r].type = "NO_CONFLICT" /\ (q # r => resp'[q] = resp[q])
        /\ (e # d \/ q # r => wsets'[d][q] = wsets[d][q])
    BY <1>0, <2>1, GrantIs
  <2>3. CASE d = e /\ q = r
    BY <2>1, <2>2, <2>3 DEF ToBeReleased, SameNode, InAttempt
  <2>4. CASE ~(d = e /\ q = r)
    BY <1>0, <2>1, <2>2, <2>4 DEF ToBeReleased, SameNode, InAttempt, Home, Op
  <2> QED
    BY <2>3, <2>4
<1>7. CASE \E e \in Dsls : GrantContended(e)
  <2>1. PICK e \in Dsls, r \in Apps : \E m : Granting(e, r, m)
    BY <1>0, <1>7, GrantReplies DEF Granting
  <2> QED
    BY <1>6, <2>1
<1>8. CASE \E e \in Dsls, p \in Apps : dsl_service(e, p)
  <2>1. PICK e \in Dsls, p \in Apps : dsl_service(e, p)
    BY <1>8
  <2>2. /\ SameNode(q) /\ (q # p => resp'[q] = resp[q])
        /\ d # e \/ q # p => chan'[d][q] = chan[d][q]
    BY <1>0, <2>1, DslElsewhere, DslReplies, TypesAre DEF SameMail, TypesMsg
  <2>3. CASE \E m : Granting(e, p, m)
    BY <1>6, <2>3
  <2>4. CASE Clearing(e, p) /\ (resp'[p].type = "CONFLICT" \/ chan[e][p].type = "RMV_NODE")
    <3>1. CASE d = e /\ q = p
      BY <1>0, <2>4, <3>1, EmptiedIs DEF Clearing, ToBeReleased
    <3>2. CASE q # p
      BY <1>0, <1>1, <2>2, <2>4, <3>2, EmptiedIs DEF Clearing
    <3>3. CASE q = p /\ d # e
      <4>1. wsets'[d][q] = wsets[d][q] /\ chan'[d][q] = chan[d][q]
        BY <1>0, <2>2, <2>4, <3>3, EmptiedIs DEF Clearing
      <4>2. resp'[q] = resp[q] \/ e = Home(q)
        <5>1. resp'[p] # resp[p] => chan[e][p].type \in {"LOAD", "STORE", "STORE_INC", "LOAD_NONTX"}
          BY <1>0, <2>1, DslReplies
        <5> QED
          BY <3>3, <5>1 DEF PgasInv, SlotInv, Slot, Requested, Asks
      <4> QED
        BY <1>0, <2>2, <3>3, <4>1, <4>2 DEF ToBeReleased, SameNode, InAttempt, Home, Op
    <3> QED
      BY <3>1, <3>2, <3>3
  <2>5. CASE /\ UNCHANGED <<wsets, readers, writer>>
             /\ \/ chan[e][p].type \in {"LOAD_NONTX", "STORE_NONTX"}
                \/ UNCHANGED <<mem, resp>> /\ chan[e][p].type \in {"LOAD", "STORE", "STORE_INC"}
    <3>1. chan[e][p].type # "RMV_NODE"
      BY <2>5
    <3>2. resp'[q] = resp[q] \/ resp'[q].type # "CONFLICT" \/ resp[q].type = "CONFLICT"
      BY <1>0, <2>1, <2>2, <2>5, DslReplies
    <3> QED
      BY <1>0, <2>2, <2>5, <3>1, <3>2 DEF ToBeReleased, SameNode, InAttempt, Home, Op
  <2> QED
    BY <2>1, <2>3, <2>4, <2>5, DslTables
<1> QED
  BY <1>2, <1>3, <1>4, <1>5, <1>7, <1>8 DEF Next, Terminated

\* The operations granted stay granted while the attempt lasts.
LEMMA GrantedOpsGrow ==
  ASSUME TypeOK, NEW q, SameNode(q), resp'[q] = resp[q] \/ resp[q].type # "NO_CONFLICT"
  PROVE  \A i \in GrantedOps(q) : i \in GrantedOps(q)' /\ body'[q][i] = body[q][i]
BY DEF GrantedOps, SameNode

LEMMA GrantedOpsKept ==
  ASSUME TypeOK, NEW q, SameNode(q), resp'[q] = resp[q]
  PROVE  GrantedOps(q)' = GrantedOps(q) /\ body'[q] = body[q]
BY DEF GrantedOps, SameNode

\* In an attempt, the steps of the node itself do not count as grants.
LEMMA GrantedOpsOwn ==
  ASSUME TypeOK, NEW p \in Apps, Control(p), Answered(p), AppStep(p), InAttempt(p), InAttempt(p)'
  PROVE  GrantedOps(p)' = GrantedOps(p) /\ body'[p] = body[p]
<1> USE TypesAre DEF TypesApp, InAttempt
<1>0. ip[p] \in Nat \ {0} /\ body[p] \in Seq(Operation) /\ DOMAIN body[p] \subseteq Nat
  BY DEF TypeOK
<1>1. CASE Contact(p)
  <2>1. UNCHANGED <<body, ip, resp>> /\ pc[p] # "wait" /\ pc'[p] # "wait"
    BY <1>1 DEF Contact
  <2> QED
    BY <2>1 DEF GrantedOps
<1>2. CASE Send(p)
  <2>1. UNCHANGED <<body, resp>> /\ pc[p] = "send" /\ resp[p] = NoResp
    BY <1>2 DEF Send, Answered
  <2>2. ip' = ip
    <3>1. body[p] \in Bodies[p] /\ ip[p] \in DOMAIN body[p]
      BY <2>1 DEF Control
    <3>2. Op(p).op # "STORE_NONTX"
      BY <3>1, BodyTyped DEF Op
    <3> QED
      BY <1>2, <3>2 DEF Send
  <2>3. resp[p].type # "NO_CONFLICT"
    BY <2>1 DEF NoResp
  <2> QED
    BY <2>1, <2>2, <2>3 DEF GrantedOps
<1>3. CASE Granted(p)
  <2>1. /\ body' = body /\ ip'[p] = ip[p] + 1 /\ pc[p] = "wait" /\ resp[p].type = "NO_CONFLICT" /\ pc'[p] # "wait"
    BY <1>3 DEF Granted
  <2>2. \A i \in DOMAIN body[p] : i < ip[p] \/ i = ip[p] <=> i < ip'[p]
    BY <1>0, <2>1
  <2> QED
    BY <2>1, <2>2 DEF GrantedOps
<1>4. CASE ~(Contact(p) \/ Send(p) \/ Granted(p))
  BY <1>4 DEF AppStep, BeginPlain, Begin, ToBarrier, Running, NoticeAbort,
     GotPlain, Refused, SetPersisting, SendRelease, Committed, Retry
<1> QED
  BY <1>1, <1>2, <1>3, <1>4

LEMMA OwnOwn ==
  ASSUME PgasInv, NEW p \in Apps, AppStep(p), NEW d \in Dsls
  PROVE  Own(d, p)'
<1>0. /\ TypeOK /\ Own(d, p) /\ Buffers(d, p) /\ Answered(p) /\ Contacts(p) /\ Control(p)
  BY DEF PgasInv, BufferInv, NodeInv
<1>1. wsets' = wsets
  BY TablesKept DEF SameTables
<1> SUFFICES ASSUME InAttempt(p)', chan'[d][p].type # "RMV_NODE"
             PROVE  \A j \in DOMAIN wsets[d][p] : \E i \in GrantedOps(p)' :
                      body'[p][i].op \in Stores /\ body'[p][i].addr = wsets[d][p][j].addr
  BY <1>1 DEF Own
<1>2. CASE InAttempt(p)
  <2>1. chan[d][p].type # "RMV_NODE"
    <3>1. CASE Send(p)
      <4>1. PICK m, e : chan' = [chan EXCEPT ![e][p] = m] /\ chan[e][p] = NoMsg
        BY <3>1 DEF Send
      <4>2. chan[e][p].type = "NONE"
        BY <4>1 DEF NoMsg
      <4>3. d = e \/ chan'[d][p] = chan[d][p]
        BY <1>0, <4>1, TypesAre DEF TypesMsg
      <4> QED
        BY <4>2, <4>3
    <3>2. CASE ~Send(p)
      <4>1. ~SendRelease(p)
        BY <1>2 DEF InAttempt, SendRelease
      <4>2. chan' = chan
        BY <3>2, <4>1 DEF AppStep, BeginPlain, Begin, ToBarrier, Running, Contact, NoticeAbort, Granted,
           GotPlain, Refused, SetPersisting, Committed, Retry
      <4> QED
        BY <4>2
    <3> QED
      BY <3>1, <3>2
  <2>2. GrantedOps(p)' = GrantedOps(p) /\ body'[p] = body[p]
    BY <1>0, <1>2, GrantedOpsOwn
  <2> QED
    BY <1>0, <1>2, <2>1, <2>2 DEF Own
<1>3. CASE ~InAttempt(p)
  <2>1. chan' = chan /\ pc[p] \notin {"commit", "abort"}
    BY <1>0, <1>3, TypesAre DEF TypesApp, InAttempt, Control, AppStep, BeginPlain, Begin, ToBarrier, Running, Contact,
       NoticeAbort, Send, InTx, Granted, GotPlain, Refused, SetPersisting, SendRelease, Committed, Retry
  <2>2. wsets[d][p] = <<>>
    BY <1>0, <1>3, <2>1 DEF Buffers, ToBeReleased
  <2> QED
    BY <2>2
<1> QED
  BY <1>2, <1>3

LEMMA OwnGranting ==
  ASSUME PgasInv, NEW e \in Dsls, NEW r \in Apps, NEW m, Granting(e, r, m), NEW d \in Dsls, NEW q \in Apps
  PROVE  Own(d, q)'
<1>0. TypeOK /\ Own(d, q)
  BY DEF PgasInv, BufferInv
<1>1. /\ m \in Request /\ Grant(e, r, m) /\ SameNode(q) /\ pc[r] = "wait" /\ resp[r] = NoResp /\ ip[r] \in DOMAIN body[r]
      /\ m.type \in {"LOAD", "STORE", "STORE_INC"} /\ m.type = Op(r).op /\ m.addr = Op(r).addr
      /\ chan'[d][q].type = "RMV_NODE" <=> chan[d][q].type = "RMV_NODE"
  BY GrantingIs
<1>2. resp'[r].type = "NO_CONFLICT" /\ (q # r => resp'[q] = resp[q])
  BY <1>0, <1>1, GrantIs
<1>3. \A i \in GrantedOps(q) : i \in GrantedOps(q)' /\ body'[q][i] = body[q][i]
  BY <1>0, <1>1, <1>2, GrantedOpsGrow DEF NoResp
<1>4. Entry(m).addr = m.addr
  BY DEF Entry
<1> SUFFICES ASSUME InAttempt(q), chan[d][q].type # "RMV_NODE", NEW j \in DOMAIN wsets'[d][q]
             PROVE  \E i \in GrantedOps(q)' : body'[q][i].op \in Stores /\ body'[q][i].addr = wsets'[d][q][j].addr
  BY <1>1 DEF Own, SameNode, InAttempt
<1>5. CASE m.type # "LOAD" /\ d = e /\ q = r /\ wsets'[d][q][j] = Entry(m)
  <2>1. ip[r] \in GrantedOps(r)' /\ body'[r][ip[r]] = Op(r)
    BY <1>1, <1>2, <1>5 DEF GrantedOps, SameNode, Op
  <2> QED
    BY <1>1, <1>4, <1>5, <2>1 DEF Stores
<1>6. CASE j \in DOMAIN wsets[d][q] /\ wsets'[d][q][j] = wsets[d][q][j]
  <2>1. PICK i \in GrantedOps(q) : body[q][i].op \in Stores /\ body[q][i].addr = wsets[d][q][j].addr
    BY <1>0, <1>6 DEF Own
  <2> QED
    BY <1>3, <1>6, <2>1
<1> QED
  BY <1>0, <1>1, <1>5, <1>6, GrantIs

\* A node sends requests without a transaction outside its transactions only.
LEMMA NontxPlain ==
  ASSUME PgasInv, NEW e \in Dsls, NEW p \in Apps, chan[e][p].type \in {"LOAD_NONTX", "STORE_NONTX"}
  PROVE  pc[p] \in {"plain", "wait_plain"}
<1>1. TypeOK /\ Slot(e, p) /\ Control(p)
  BY DEF PgasInv, SlotInv, NodeInv
<1>2. CASE chan[e][p].type = "STORE_NONTX"
  BY <1>1, <1>2 DEF Slot, LoadFollows
<1>3. CASE chan[e][p].type = "LOAD_NONTX"
  BY <1>1, <1>3, AsksTx DEF Slot, Requested, Asks
<1> QED
  BY <1>2, <1>3

LEMMA OwnStep ==
  ASSUME PgasInv, [Next]_vars, NEW d \in Dsls, NEW q \in Apps
  PROVE  Own(d, q)'
<1>0. TypeOK /\ Own(d, q)
  BY DEF PgasInv, BufferInv
<1>1. ASSUME wsets'[d][q] = <<>> \/ wsets'[d][q] = wsets[d][q], SameNode(q), resp'[q] = resp[q],
             chan'[d][q] = chan[d][q] \/ chan[d][q].type # "RMV_NODE"
      PROVE  Own(d, q)'
  <2>1. GrantedOps(q)' = GrantedOps(q) /\ body'[q] = body[q]
    BY <1>0, <1>1, GrantedOpsKept
  <2> QED
    BY <1>0, <1>1, <2>1 DEF Own, SameNode, InAttempt
<1>2. CASE \E p \in Apps : AppStep(p)
  <2>1. PICK p \in Apps : AppStep(p)
    BY <1>2
  <2>2. CASE q # p
    BY <1>0, <1>1, <2>1, <2>2, Elsewhere, TablesKept DEF SameTables, SameMail
  <2> QED
    BY <2>1, <2>2, OwnOwn
<1>3. CASE Barrier
  <2>1. pc'[q] \in {"end", "idle"}
    BY <1>3 DEF Barrier
  <2> QED
    BY <2>1 DEF Own, InAttempt
<1>4. CASE UNCHANGED vars
  BY <1>1, <1>4 DEF vars, appVars, dslVars, SameNode
<1>5. CASE \E e \in Dsls : AbortVictim(e)
  <2>1. PICK e \in Dsls : AbortVictim(e)
    BY <1>5
  <2>2. PICK v \in Apps : Emptied(e, v) /\ UNCHANGED <<chan, resp>>
    BY <1>0, <2>1, VictimTyped DEF AbortVictim
  <2>3. SameNode(q) /\ (wsets'[d][q] = <<>> \/ wsets'[d][q] = wsets[d][q])
    BY <1>0, <2>1, <2>2, AbortElsewhere, EmptiedIs
  <2> QED
    BY <1>1, <2>2, <2>3
<1>7. CASE \E e \in Dsls : GrantContended(e)
  <2>1. PICK e \in Dsls, r \in Apps : \E m : Granting(e, r, m)
    BY <1>0, <1>7, GrantReplies DEF Granting
  <2> QED
    BY <2>1, OwnGranting
<1>8. CASE \E e \in Dsls, p \in Apps : dsl_service(e, p)
  <2>1. PICK e \in Dsls, p \in Apps : dsl_service(e, p)
    BY <1>8
  <2>2. /\ SameNode(q) /\ (q # p => resp'[q] = resp[q])
        /\ d # e \/ q # p => chan'[d][q] = chan[d][q]
    BY <1>0, <2>1, DslElsewhere, DslReplies, TypesAre DEF SameMail, TypesMsg
  <2>3. CASE \E m : Granting(e, p, m)
    BY <2>3, OwnGranting
  <2>4. CASE Clearing(e, p)
    <3>1. CASE d = e /\ q = p
      BY <1>0, <2>4, <3>1, EmptiedIs DEF Clearing, Own
    <3>2. CASE q # p
      BY <1>0, <1>1, <2>2, <2>4, <3>2, EmptiedIs DEF Clearing
    <3>3. CASE q = p /\ d # e
      <4>1. wsets'[d][q] = wsets[d][q] /\ chan'[d][q] = chan[d][q]
        BY <1>0, <2>2, <2>4, <3>3, EmptiedIs DEF Clearing
      <4>2. resp'[q] = resp[q] \/ resp[q] = NoResp
        <5>1. resp'[p] # resp[p] => chan[e][p].type \in {"LOAD", "STORE", "STORE_INC", "LOAD_NONTX"}
          BY <1>0, <2>1, DslReplies
        <5> QED
          BY <3>3, <5>1 DEF PgasInv, SlotInv, Slot, Requested, Asks
      <4>3. \A i \in GrantedOps(q) : i \in GrantedOps(q)' /\ body'[q][i] = body[q][i]
        BY <1>0, <2>2, <4>2, GrantedOpsGrow DEF NoResp
      <4> QED
        BY <1>0, <2>2, <4>1, <4>3 DEF Own, SameNode, InAttempt
    <3> QED
      BY <3>1, <3>2, <3>3
  <2>5. CASE UNCHANGED wsets /\ chan[e][p].type \in {"LOAD_NONTX", "STORE_NONTX"}
    <3>1. pc[p] \in {"plain", "wait_plain"}
      BY <2>5, NontxPlain
    <3>2. CASE q = p
      BY <2>2, <3>1, <3>2 DEF Own, SameNode, InAttempt
    <3> QED
      BY <1>1, <2>2, <2>5, <3>2
  <2>6. CASE UNCHANGED <<wsets, resp>> /\ chan[e][p].type \in {"LOAD", "STORE", "STORE_INC"}
    BY <1>1, <2>2, <2>6
  <2> QED
    BY <2>1, <2>3, <2>4, <2>5, <2>6, DslTables
<1> QED
  BY <1>2, <1>3, <1>4, <1>5, <1>7, <1>8 DEF Next, Terminated

LEMMA WaitedOwn ==
  ASSUME PgasInv, NEW p \in Apps, AppStep(p), NEW d \in Dsls
  PROVE  Waited(d, p)'
<1>0. /\ TypeOK /\ Waited(d, p) /\ Contacts(p) /\ build' = build
  BY TablesKept DEF PgasInv, WaitInv, NodeInv, SameTables
<1> SUFFICES ASSUME HasCM, chan'[d][p].type = "RMV_NODE", chan'[d][p].commit
             PROVE  pc'[p] = "commit" /\ d \in contacted'[p]
  BY <1>0 DEF Waited, HasCM
<1> USE TypesAre DEF TypesApp, TypesMsg
<1>1. build.platform # "TILERA"
  BY <1>0, PgasAssumption DEF HasCM
<1>2. CASE Committed(p)
  <2>1. chan' = chan /\ pc[p] = "commit" /\ \A e \in contacted[p] : chan[e][p] = NoMsg
    BY <1>1, <1>2 DEF Committed, Released, IsProcessed
  <2>2. chan[d][p].type # "NONE" /\ d \in contacted[p]
    BY <1>0, <2>1 DEF Waited
  <2> QED
    BY <2>1, <2>2 DEF NoMsg
<1>3. CASE SendRelease(p)
  <2>1. PICK e, m : /\ m = [type |-> "RMV_NODE", commit |-> pc[p] = "commit", meta |-> prio[p]]
                    /\ e = Min(unsent[p]) /\ chan' = [chan EXCEPT ![e][p] = m]
    BY <1>3 DEF SendRelease
  <2>2. /\ UNCHANGED <<pc, contacted>> /\ pc[p] \in {"commit", "abort"} /\ (d # e => chan'[d][p] = chan[d][p])
        /\ (d = e => chan'[d][p] = m)
    BY <1>0, <1>3, <2>1 DEF SendRelease
  <2>3. m.commit <=> pc[p] = "commit"
    BY <2>1
  <2>4. e \in contacted[p]
    <3>1. unsent[p] \in SUBSET Nat /\ unsent[p] # {}
      BY <1>0, <1>3, PgasAssumption DEF SendRelease
    <3>2. e \in unsent[p]
      BY <2>1, <3>1, MinIn
    <3> QED
      BY <1>0, <2>2, <3>2 DEF Contacts
  <2> QED
    BY <1>0, <2>2, <2>3, <2>4 DEF Waited
<1>4. CASE Send(p)
  <2>1. PICK m, e : /\ m = [type |-> Op(p).op, addr |-> Op(p).addr, val |-> Op(p).val, meta |-> prio[p]]
                    /\ e = Home(p) /\ chan' = [chan EXCEPT ![e][p] = m]
    BY <1>4 DEF Send
  <2>2. /\ d # e => chan'[d][p] = chan[d][p]
        /\ d = e => chan'[d][p] = m
        /\ pc[p] \in {"send", "plain"}
    BY <1>0, <1>4, <2>1 DEF Send
  <2>3. m.type # "RMV_NODE"
    <3>1. ip[p] \in DOMAIN body[p]
      BY <1>0, <1>4, NextOp DEF PgasInv, NodeInv, Control, Send
    <3> QED
      BY <1>0, <2>1, <3>1, OpTyped
  <2> QED
    BY <1>0, <2>2, <2>3 DEF Waited
<1>5. CASE ~(Committed(p) \/ SendRelease(p) \/ Send(p))
  <2>1. chan' = chan
    BY <1>5 DEF AppStep, BeginPlain, Begin, ToBarrier, Running, Contact, NoticeAbort, Granted,
       GotPlain, Refused, SetPersisting, Retry
  <2>2. pc[p] = "commit"
    BY <1>0, <2>1 DEF Waited
  <2> QED
    BY <1>5, <2>2 DEF AppStep, BeginPlain, Begin, ToBarrier, Running, Contact, NoticeAbort, Granted,
       GotPlain, Refused, SetPersisting, Retry
<1> QED
  BY <1>2, <1>3, <1>4, <1>5

LEMMA WaitedStep ==
  ASSUME PgasInv, [Next]_vars, NEW d \in Dsls, NEW q \in Apps
  PROVE  Waited(d, q)'
<1>0. TypeOK /\ Waited(d, q)
  BY DEF PgasInv, WaitInv
<1>1. ASSUME build' = build, SameNode(q), chan'[d][q] = chan[d][q] \/ chan'[d][q] = NoMsg
      PROVE  Waited(d, q)'
  BY <1>0, <1>1 DEF Waited, SameNode, HasCM, NoMsg
<1>2. CASE \E p \in Apps : AppStep(p)
  <2>1. PICK p \in Apps : AppStep(p)
    BY <1>2
  <2>2. CASE q # p
    BY <1>0, <1>1, <2>1, <2>2, Elsewhere, TablesKept DEF SameTables, SameMail
  <2> QED
    BY <2>1, <2>2, WaitedOwn
<1>3. CASE Barrier
  <2>1. UNCHANGED <<build, chan>> /\ pc[q] = "barrier"
    BY <1>3 DEF Barrier
  <2> QED
    BY <1>0, <2>1 DEF Waited, HasCM
<1>4. CASE UNCHANGED vars
  BY <1>1, <1>4 DEF vars, appVars, SameNode
<1>5. CASE \E e \in Dsls : AbortVictim(e) \/ GrantContended(e)
  BY <1>0, <1>1, <1>5, AbortElsewhere
<1>6. CASE \E e \in Dsls, p \in Apps : dsl_service(e, p)
  <2>1. PICK e \in Dsls, p \in Apps : dsl_service(e, p)
    BY <1>6
  <2>2. build' = build /\ SameNode(q) /\ chan' = [chan EXCEPT ![e][p] = NoMsg]
    BY <1>0, <2>1, DslElsewhere, DslReplies
  <2>3. chan'[d][q] = chan[d][q] \/ chan'[d][q] = NoMsg
    BY <1>0, <2>2, TypesAre DEF TypesMsg
  <2> QED
    BY <1>1, <2>2, <2>3
<1> QED
  BY <1>2, <1>3, <1>4, <1>5, <1>6 DEF Next, Terminated

-----------------------------------------------------------------------------
(* The attempts that are live, and the words they rely on.                   *)

LEMMA LiveOwn ==
  ASSUME PgasInv, NEW p \in Apps, AppStep(p), Live(p)'
  PROVE  \/ Running(p) /\ GrantedOps(p)' = {} /\ seen'[p] = {}
         \/ Live(p) /\ GrantedOps(p)' = GrantedOps(p) /\ body'[p] = body[p] /\ passed'[p] = passed[p]
<1>0. /\ TypeOK /\ Control(p) /\ Contacts(p) /\ Answered(p) /\ UNCHANGED <<build, stage>>
  BY TablesKept DEF PgasInv, NodeInv, SameTables
<1>1. stage = "run" /\ InAttempt(p)' /\ resp'[p].type # "CONFLICT" /\ (HasCM => flag'[p] = "NO_CONFLICT")
  BY <1>0 DEF Live, InAttempt, HasCM
<1>2. CASE Running(p)
  <2>1. ip'[p] = 1 /\ pc'[p] = "body" /\ seen'[p] = {}
    BY <1>0, <1>2, TypesAre DEF Running, Control, Contacts, TypesApp
  <2>2. body'[p] \in Seq(Operation)
    BY <1>0, <1>2 DEF Running, TypeOK
  <2>3. \A i \in DOMAIN body'[p] : ~(i < ip'[p])
    BY <2>1, <2>2
  <2> QED
    BY <1>2, <2>1, <2>3 DEF GrantedOps
<1>3. CASE ~Running(p)
  <2>1. InAttempt(p)
    BY <1>0, <1>1, <1>3, TypesAre DEF InAttempt, TypesApp, Control, AppStep, BeginPlain, Begin, ToBarrier, Contact, NoticeAbort,
       Send, InTx, Granted, GotPlain, Refused, SetPersisting, SendRelease, Committed, Retry
  <2>2. GrantedOps(p)' = GrantedOps(p) /\ body'[p] = body[p]
    BY <1>0, <1>1, <2>1, GrantedOpsOwn
  <2>5. Contact(p) \/ Send(p) \/ Granted(p)
    BY <1>0, <1>1, <1>3, <2>1, TypesAre DEF InAttempt, TypesApp, AppStep, BeginPlain, Begin, ToBarrier, NoticeAbort,
       GotPlain, Refused, SetPersisting, SendRelease, Committed, Retry
  <2>3. passed'[p] = passed[p] /\ flag'[p] = flag[p]
    BY <2>5 DEF Contact, Send, Granted, dslVars
  <2>4. resp[p].type # "CONFLICT"
    <3>1. CASE resp'[p] = resp[p]
      BY <1>1, <3>1
    <3>2. CASE Granted(p)
      BY <3>2 DEF Granted
    <3>3. CASE resp'[p] # resp[p] /\ ~Granted(p)
      BY <2>5, <3>3 DEF Contact, Send
    <3> QED
      BY <3>1, <3>2, <3>3
  <2> QED
    BY <1>0, <1>1, <2>1, <2>2, <2>3, <2>4 DEF Live, InAttempt, HasCM
<1> QED
  BY <1>2, <1>3

LEMMA GrantedOpsGranting ==
  ASSUME PgasInv, NEW e \in Dsls, NEW r \in Apps, NEW m, Granting(e, r, m)
  PROVE  /\ GrantedOps(r)' = GrantedOps(r) \cup {ip[r]} /\ body'[r] = body[r]
         /\ ip[r] \notin GrantedOps(r) /\ body[r][ip[r]] = Op(r)
<1>1. /\ m \in Request /\ Grant(e, r, m) /\ SameNode(r) /\ pc[r] = "wait" /\ resp[r] = NoResp /\ ip[r] \in DOMAIN body[r]
      /\ TypeOK
  BY GrantingIs DEF PgasInv
<1>2. resp'[r].type = "NO_CONFLICT" /\ resp[r].type # "NO_CONFLICT" /\ ip[r] \in Nat
  BY <1>1, GrantIs, Typed DEF NoResp
<1> QED
  BY <1>1, <1>2 DEF GrantedOps, SameNode, Op

LEMMA GrantingReads ==
  ASSUME PgasInv, NEW e \in Dsls, NEW r \in Apps, NEW m, Granting(e, r, m)
  PROVE  \/ Accept(e, r, m) /\ passed' = passed
         \/ /\ ~Accept(e, r, m) /\ (m.type # "LOAD" => passed' = passed)
            /\ m.type = "LOAD" => /\ passed'[r] = passed[r] \cup {m.addr}
                                  /\ \A q \in Apps : q # r => passed'[q] = passed[q]
<1>1. CASE Accept(e, r, m)
  BY <1>1 DEF Accept
<1>2. CASE GrantContended(e) /\ r = serving[e].app /\ m = serving[e].req
  <2>1. passed \in [Apps -> SUBSET Accounts] /\ ~Accept(e, r, m)
    BY <1>2 DEF PgasInv, TypeOK, Accept, GrantContended
  <2> QED
    BY <1>2, <2>1 DEF GrantContended
<1> QED
  BY <1>1, <1>2 DEF Granting

\* An attempt that is live after a step was live before, or has just begun; only a step of its
\* own and a grant concern it.
LEMMA LiveNext ==
  ASSUME PgasInv, [Next]_vars, NEW q \in Apps, Live(q)'
  PROVE  /\ stage = "run"
         /\ \/ Running(q) /\ GrantedOps(q)' = {} /\ seen'[q] = {}
            \/ /\ AppStep(q) /\ Live(q)
               /\ GrantedOps(q)' = GrantedOps(q) /\ body'[q] = body[q] /\ passed'[q] = passed[q]
            \/ /\ Live(q) /\ SameNode(q) /\ resp'[q] = resp[q] /\ passed'[q] = passed[q]
               /\ GrantedOps(q)' = GrantedOps(q) /\ body'[q] = body[q]
            \/ Live(q) /\ SameNode(q) /\ \E e \in Dsls : \E m : Granting(e, q, m)
<1>0. TypeOK /\ stage' = "run" /\ InAttempt(q)' /\ resp'[q].type # "CONFLICT" /\ (HasCM' => flag'[q] = "NO_CONFLICT")
  BY DEF PgasInv, Live, InAttempt
<1>1. ~Barrier
  BY <1>0 DEF Barrier, InAttempt
<1>2. UNCHANGED <<build, stage>>
  <2>1. CASE \E p \in Apps : AppStep(p)
    BY <2>1, TablesKept DEF SameTables
  <2>2. CASE \E e \in Dsls : AbortVictim(e) \/ GrantContended(e)
    BY <1>0, <2>2, AbortElsewhere
  <2>3. CASE \E e \in Dsls, p \in Apps : dsl_service(e, p)
    BY <1>0, <2>3, DslElsewhere
  <2> QED
    BY <1>1, <2>1, <2>2, <2>3 DEF Next, Terminated, vars
<1>3. ASSUME SameNode(q), resp'[q] = resp[q] \/ resp[q] = NoResp, HasCM => flag'[q] = flag[q] \/ flag[q] = "NO_CONFLICT"
      PROVE  Live(q)
  BY <1>0, <1>2, <1>3 DEF Live, SameNode, InAttempt, HasCM, NoResp
<1>4. ASSUME SameNode(q), resp'[q] = resp[q]
      PROVE  GrantedOps(q)' = GrantedOps(q) /\ body'[q] = body[q]
  BY <1>0, <1>4, GrantedOpsKept
<1>5. CASE \E p \in Apps : AppStep(p)
  <2>1. PICK p \in Apps : AppStep(p)
    BY <1>5
  <2>2. CASE q = p
    BY <1>2, <1>0, <2>1, <2>2, LiveOwn
  <2>3. CASE q # p
    <3>1. SameNode(q) /\ SameMail(q)
      BY <1>0, <2>1, <2>3, Elsewhere
    <3> QED
      BY <1>0, <1>2, <1>3, <1>4, <3>1 DEF SameMail
  <2> QED
    BY <2>2, <2>3
<1>6. CASE \E e \in Dsls : AbortVictim(e)
  <2>1. PICK e \in Dsls : AbortVictim(e)
    BY <1>6
  <2>2. UNCHANGED <<resp, passed>> /\ SameNode(q)
    BY <1>0, <2>1, AbortElsewhere DEF AbortVictim
  <2>3. flag'[q] = flag[q] \/ flag[q] = "NO_CONFLICT"
    BY <1>0, <2>1, TypesAre DEF AbortVictim, TypesMsg
  <2> QED
    BY <1>0, <1>2, <1>3, <1>4, <2>2, <2>3
<1>7. CASE \E e \in Dsls : GrantContended(e)
  <2>1. PICK e \in Dsls : GrantContended(e)
    BY <1>7
  <2>2. /\ SameNode(q) /\ flag' = flag
        /\ q # serving[e].app => resp'[q] = resp[q] /\ passed'[q] = passed[q]
    BY <1>0, <2>1, AbortElsewhere, GrantReplies
  <2>3. CASE q # serving[e].app
    BY <1>0, <1>2, <1>3, <1>4, <2>2, <2>3
  <2>4. CASE q = serving[e].app
    <3>1. \E m : Granting(e, q, m)
      BY <2>1, <2>4 DEF Granting
    <3>2. resp[q] = NoResp
      BY <3>1, GrantingIs
    <3> QED
      BY <1>0, <1>2, <1>3, <2>2, <3>1, <3>2
  <2> QED
    BY <2>3, <2>4
<1>8. CASE \E e \in Dsls, p \in Apps : dsl_service(e, p)
  <2>1. PICK e \in Dsls, p \in Apps : dsl_service(e, p)
    BY <1>8
  <2>2. SameNode(q) /\ (q # p => resp'[q] = resp[q]) /\ UNCHANGED <<flag, passed>>
    BY <1>0, <2>1, DslElsewhere DEF SameMail
  <2>3. CASE resp'[q] = resp[q]
    BY <1>0, <1>2, <1>3, <1>4, <2>2, <2>3
  <2>4. CASE resp'[q] # resp[q]
    <3>1. /\ q = p /\ chan[e][p].type \in {"LOAD", "STORE", "STORE_INC", "LOAD_NONTX"}
          /\ chan[e][p].type # "LOAD_NONTX"
      BY <1>0, <2>1, <2>2, <2>4, DslReplies, NontxPlain DEF SameNode, InAttempt
    <3>2. \E m : Granting(e, q, m)
      BY <1>0, <2>1, <2>4, <3>1, DslTables
    <3>3. resp[q] = NoResp
      BY <3>2, GrantingIs
    <3> QED
      BY <1>0, <1>2, <1>3, <2>2, <3>2, <3>3
  <2> QED
    BY <2>3, <2>4
<1>9. CASE UNCHANGED vars
  <2>1. SameNode(q) /\ UNCHANGED <<resp, flag, passed>>
    BY <1>9 DEF vars, appVars, dslVars, SameNode
  <2> QED
    BY <1>0, <1>2, <1>3, <1>4, <2>1
<1> QED
  BY <1>1, <1>5, <1>6, <1>7, <1>8, <1>9 DEF Next, Terminated

LEMMA ReliesNext ==
  ASSUME PgasInv, [Next]_vars, NEW q \in Apps, NEW a \in Accounts, Relies(q, a)'
  PROVE  Relies(q, a) \/ \E e \in Dsls : \E m : Accept(e, q, m) /\ m.type = "LOAD" /\ m.addr = a
<1>1. Live(q)' /\ a \notin passed'[q]
  BY DEF Relies
<1>2. PICK i \in GrantedOps(q)' : body'[q][i].op = "LOAD" /\ body'[q][i].addr = a
  BY DEF Relies
<1>3. CASE Running(q) /\ GrantedOps(q)' = {}
  BY <1>2, <1>3
<1>4. CASE Live(q) /\ GrantedOps(q)' = GrantedOps(q) /\ body'[q] = body[q] /\ passed'[q] = passed[q]
  BY <1>1, <1>2, <1>4 DEF Relies
<1>5. CASE Live(q) /\ \E e \in Dsls : \E m : Granting(e, q, m)
  <2>1. PICK e \in Dsls : \E m : Granting(e, q, m)
    BY <1>5
  <2>2. PICK m : Granting(e, q, m)
    BY <2>1
  <2>3. /\ GrantedOps(q)' = GrantedOps(q) \cup {ip[q]} /\ body'[q] = body[q] /\ body[q][ip[q]] = Op(q)
        /\ m.type = Op(q).op /\ m.addr = Op(q).addr
    BY <2>2, GrantedOpsGranting, GrantingIs
  <2>4. passed[q] \subseteq passed'[q] /\ (Accept(e, q, m) \/ m.type # "LOAD" \/ m.addr \in passed'[q])
    BY <2>2, GrantingReads
  <2>5. CASE i \in GrantedOps(q)
    BY <1>1, <1>2, <1>5, <2>3, <2>4, <2>5 DEF Relies
  <2>6. CASE i = ip[q]
    BY <1>1, <1>2, <2>3, <2>4, <2>6
  <2> QED
    BY <1>2, <2>3, <2>5, <2>6
<1> QED
  BY <1>1, <1>3, <1>4, <1>5, LiveNext

\* What a node has buffered at d for a word
LEMMA BufferedIs ==
  ASSUME PgasInv, NEW d \in Dsls, NEW v \in Apps, NEW a, Buffered(wsets[d][v], a)
  PROVE  Responsible[a] = d /\ writer[a] = v
BY DEF PgasInv, BufferInv, Buffers, Locked, Buffered

LEMMA WriteBackChanges ==
  ASSUME PgasInv, NEW d \in Dsls, NEW v \in Apps, NEW a \in Accounts, mem' = WriteBack(wsets[d][v]), mem'[a] # mem[a]
  PROVE  Buffered(wsets[d][v], a)
<1>1. wsets[d][v] \in Seq(Entries)
  <2>1. wsets \in [Dsls -> [Apps -> Seq(Entries)]]
    BY DEF PgasInv, TypeOK, Entries
  <2> QED
    BY <2>1
<1> QED
  BY <1>1, WrittenBack

\* In the stage "run", only what a node that releases has buffered gets into the memory.
LEMMA MemNext ==
  ASSUME PgasInv, [Next]_vars, stage = "run", NEW a \in Accounts, mem'[a] # mem[a]
  PROVE  \E v \in Apps : /\ writer[a] = v /\ Buffered(wsets[Responsible[a]][v], a)
                         /\ pc[v] = "commit" \/ chan[Responsible[a]][v].type = "RMV_NODE"
<1>0. TypeOK
  BY DEF PgasInv
<1>1. CASE \E e \in Dsls : AbortVictim(e)
  <2>1. PICK e \in Dsls : AbortVictim(e)
    BY <1>1
  <2>2. PICK v \in Apps : mem' = IF SavesPersisting(v) THEN WriteBack(wsets[e][v]) ELSE mem
    BY <1>0, <2>1, VictimTyped DEF AbortVictim
  <2>3. SavesPersisting(v) /\ Buffered(wsets[e][v], a)
    BY <2>2, WriteBackChanges
  <2>4. HasCM /\ Flagged(v)
    BY <2>1 DEF PgasInv, DslInv, NodeInv, Aborting, AbortVictim
  <2>5. pc[v] = "commit"
    BY <2>3, <2>4 DEF Flagged, SavesPersisting
  <2>6. Responsible[a] = e /\ writer[a] = v
    BY <2>3, BufferedIs
  <2> QED
    BY <2>3, <2>5, <2>6
<1>2. CASE \E e \in Dsls, p \in Apps : dsl_service(e, p)
  <2>1. PICK e \in Dsls, p \in Apps : dsl_service(e, p)
    BY <1>2
  <2>2. ~ServeStoreNontx(e, p)
    <3>1. ServeStoreNontx(e, p) => pc[p] \in {"plain", "wait_plain"}
      BY NontxPlain DEF ServeStoreNontx
    <3> QED
      BY <3>1 DEF PgasInv, NodeInv, Control
  <2>3. RemoveNode(e, p)
    BY <1>0, <2>1, <2>2, DslIs DEF Accept, Contest, Reject, ServeLoadNontx
  <2>4. mem' = WriteBack(wsets[e][p]) /\ chan[e][p].type = "RMV_NODE"
    BY <2>3 DEF RemoveNode
  <2>5. Buffered(wsets[e][p], a)
    BY <2>4, WriteBackChanges
  <2>6. Responsible[a] = e /\ writer[a] = p
    BY <2>5, BufferedIs
  <2> QED
    BY <2>4, <2>5, <2>6
<1>3. CASE (\E p \in Apps : AppStep(p)) \/ Barrier \/ (\E e \in Dsls : GrantContended(e)) \/ UNCHANGED vars
  <2>1. mem' = mem
    BY <1>3, TablesKept DEF SameTables, Barrier, GrantContended, vars, dslVars
  <2> QED
    BY <2>1
<1> QED
  BY <1>1, <1>2, <1>3 DEF Next, Terminated

\* A word that a live attempt has locked, or relies on, does not change meanwhile.
LEMMA MemKept ==
  ASSUME PgasInv, [Next]_vars, stage = "run", NEW a \in Accounts, NEW q \in Apps,
         Live(q), writer[a] = NoNode \/ (writer[a] = q /\ \E i \in GrantedOps(q) : body[q][i].addr = a)
  PROVE  mem'[a] = mem[a]
<1> SUFFICES ASSUME mem'[a] # mem[a] PROVE FALSE
  OBVIOUS
<1>1. PICK v \in Apps : /\ writer[a] = v
                        /\ pc[v] = "commit" \/ chan[Responsible[a]][v].type = "RMV_NODE"
  BY MemNext
<1>2. v = q /\ \E i \in GrantedOps(q) : body[q][i].addr = a
  BY <1>1, PgasAssumption
<1>3. PICK i \in GrantedOps(q) : body[q][i].addr = a
  BY <1>2
<1>4. InAttempt(q) /\ chan[Responsible[a]][q].type = "RMV_NODE"
  BY <1>1, <1>2 DEF Live, InAttempt
<1>5. Responsible[a] \in Dsls
  BY PgasAssumption
<1>6. Slot(Responsible[a], q)
  BY <1>5 DEF PgasInv, SlotInv
<1> QED
  BY <1>3, <1>4, <1>6 DEF Slot, Releases, GrantedOps, HomeOf

\* A DSL node that clears what a live attempt has there has not got there yet.
LEMMA GrantedElsewhere ==
  ASSUME PgasInv, NEW q \in Apps, NEW e \in Dsls, InAttempt(q), chan[e][q].type = "RMV_NODE", NEW i \in GrantedOps(q)
  PROVE  HomeOf(q, i) # e
BY DEF PgasInv, SlotInv, Slot, Releases, GrantedOps

\* The operations of a live attempt are those of a transaction, with their words at their DSL nodes.
LEMMA GrantedTyped ==
  ASSUME PgasInv, NEW q \in Apps, Live(q), NEW i \in DOMAIN body[q]
  PROVE  /\ body[q][i].addr \in Accounts /\ body[q][i].val \in Int /\ body[q][i].op \in {"LOAD", "STORE", "STORE_INC"}
         /\ HomeOf(q, i) \in Dsls /\ HomeOf(q, i) = Responsible[body[q][i].addr]
         /\ \A k \in DOMAIN body[q] : body[q][k].addr = body[q][i].addr => k = i
<1>1. body[q] \in Bodies[q]
  BY DEF PgasInv, NodeInv, Control, Live
<1>2. body[q] \in Seq(TxOperation) /\ \A j, k \in DOMAIN body[q] : body[q][j].addr = body[q][k].addr => j = k
  BY <1>1, PgasAssumption
<1>3. PICK b : b = body[q]
  OBVIOUS
<1>4. b \in Seq(TxOperation) /\ i \in DOMAIN b
  BY <1>2, <1>3
<1>5. b[i] \in TxOperation
  BY <1>4
<1>6. body[q][i].addr \in Accounts /\ body[q][i].val \in Int /\ body[q][i].op \in {"LOAD", "STORE", "STORE_INC"}
  BY <1>3, <1>5 DEF TxOperation
<1>7. HomeOf(q, i) = Responsible[body[q][i].addr] /\ HomeOf(q, i) \in Dsls
  BY <1>6, PgasAssumption DEF HomeOf
<1> QED
  BY <1>2, <1>6, <1>7

-----------------------------------------------------------------------------
(* What a live attempt has stored and read.                                  *)

\* No step but the grant of its next operation touches what a live attempt has buffered.
LEMMA WsetsLive ==
  ASSUME PgasInv, [Next]_vars, NEW q \in Apps, Live(q)', Live(q),
         ~\E e \in Dsls : \E m : Granting(e, q, m), NEW i \in GrantedOps(q)
  PROVE  wsets'[HomeOf(q, i)][q] = wsets[HomeOf(q, i)][q]
<1>0. TypeOK /\ InAttempt(q) /\ HomeOf(q, i) \in Dsls /\ i \in DOMAIN body[q]
  <2>1. i \in DOMAIN body[q]
    BY DEF GrantedOps
  <2> QED
    BY <2>1, GrantedTyped DEF PgasInv, Live, InAttempt
<1>1. CASE (\E p \in Apps : AppStep(p)) \/ Barrier \/ UNCHANGED vars
  <2>1. wsets' = wsets
    BY <1>1, TablesKept DEF SameTables, Barrier, vars, dslVars
  <2> QED
    BY <2>1
<1>2. CASE \E e \in Dsls : AbortVictim(e)
  <2>1. PICK e \in Dsls : AbortVictim(e)
    BY <1>2
  <2>2. PICK v \in Apps : /\ Emptied(e, v) /\ flag' = [flag EXCEPT ![v] = IF @ = "NO_CONFLICT" THEN "CONFLICT" ELSE @]
    BY <1>0, <2>1, VictimTyped DEF AbortVictim
  <2>3. HasCM /\ build' = build
    BY <2>1 DEF PgasInv, DslInv, Aborting, AbortVictim
  <2>4. flag'[q] = "NO_CONFLICT"
    BY <2>3 DEF Live, HasCM
  <2>5. v # q
    BY <1>0, <2>2, <2>4, TypesAre DEF TypesMsg
  <2> QED
    BY <1>0, <2>2, <2>5, EmptiedIs
<1>3. ASSUME NEW e \in Dsls, NEW r \in Apps, NEW m, Granting(e, r, m)
      PROVE  wsets'[HomeOf(q, i)][q] = wsets[HomeOf(q, i)][q]
  <2>1. r # q /\ m \in Request /\ Grant(e, r, m)
    BY <1>3, GrantingIs
  <2> QED
    BY <1>0, <2>1, GrantIs
<1>4. CASE \E e \in Dsls : GrantContended(e)
  <2>1. PICK e \in Dsls, r \in Apps : \E m : Granting(e, r, m)
    BY <1>0, <1>4, GrantReplies DEF Granting
  <2> QED
    BY <1>3, <2>1
<1>5. CASE \E e \in Dsls, p \in Apps : dsl_service(e, p)
  <2>1. PICK e \in Dsls, p \in Apps : dsl_service(e, p)
    BY <1>5
  <2>2. CASE Clearing(e, p) /\ (resp'[p].type = "CONFLICT" \/ chan[e][p].type = "RMV_NODE")
    <3>1. CASE p # q
      BY <1>0, <2>2, <3>1, EmptiedIs DEF Clearing
    <3>2. CASE p = q
      <4>1. chan[e][q].type = "RMV_NODE"
        BY <2>2, <3>2 DEF Live
      <4>2. HomeOf(q, i) # e
        BY <1>0, <4>1, GrantedElsewhere
      <4> QED
        BY <1>0, <2>2, <4>2, EmptiedIs DEF Clearing
    <3> QED
      BY <3>1, <3>2
  <2>3. CASE UNCHANGED wsets
    BY <2>3
  <2>4. CASE \E m : Granting(e, p, m)
    BY <1>3, <2>4
  <2> QED
    BY <2>1, <2>2, <2>3, <2>4, DslTables
<1> QED
  BY <1>1, <1>2, <1>4, <1>5 DEF Next, Terminated

\* The operation i of p is in its write set, computed from the memory as it is.
StoredOp(p, i) ==
  LET o == body[p][i]  s == wsets[HomeOf(p, i)][p] IN
  /\ \E j \in DOMAIN s : s[j].addr = o.addr
  /\ \A j \in DOMAIN s : s[j].addr = o.addr =>
       s[j].val = IF o.op = "STORE" THEN o.val ELSE mem[o.addr] + o.val

LEMMA StoredIs ==
  ASSUME NEW p
  PROVE  Stored(p) <=> (Live(p) => \A i \in GrantedOps(p) : body[p][i].op \in Stores => StoredOp(p, i))
BY DEF Stored, StoredOp

LEMMA StoredIsNext ==
  \A p : Stored(p)' <=> (Live(p) => \A i \in GrantedOps(p) : body[p][i].op \in Stores => StoredOp(p, i))'
BY DEF Stored, StoredOp

LEMMA StoredGranting ==
  ASSUME PgasInv, NEW e \in Dsls, NEW q \in Apps, NEW m, Granting(e, q, m), Live(q), NEW i \in GrantedOps(q)',
         body[q][i].op \in Stores
  PROVE  StoredOp(q, i)'
<1>0. /\ TypeOK /\ body'[q] = body[q] /\ GrantedOps(q)' = GrantedOps(q) \cup {ip[q]} /\ ip[q] \notin GrantedOps(q)
      /\ body[q][ip[q]] = Op(q) /\ HomeOf(q, i)' = HomeOf(q, i)
  BY GrantedOpsGranting DEF PgasInv, HomeOf
<1>1. /\ m \in Request /\ m.addr \in Accounts /\ Grant(e, q, m) /\ mem' = mem /\ e = Home(q) /\ ip[q] \in DOMAIN body[q]
      /\ m.type = Op(q).op /\ m.addr = Op(q).addr /\ m.val = Op(q).val /\ pc[q] = "wait"
  BY GrantingIs
<1>2. i \in DOMAIN body[q]
  BY <1>0, <1>1 DEF GrantedOps
<1>3. Entry(m).addr = m.addr /\ Entry(m).val = IF m.type = "STORE" THEN m.val ELSE mem[m.addr] + m.val
  BY DEF Entry
<1>4. chan[e][q].type # "RMV_NODE"
  <2>1. Slot(e, q) /\ HomeOf(q, ip[q]) = e
    BY <1>0, <1>1 DEF PgasInv, SlotInv, HomeOf, Home
  <2> QED
    BY <1>1, <2>1 DEF Slot, Releases, InAttempt
<1>5. CASE i \in GrantedOps(q)
  <2>1. StoredOp(q, i) /\ HomeOf(q, i) \in Dsls
    BY <1>2, <1>5, StoredIs, GrantedTyped DEF PgasInv, ValueInv
  <2>2. body[q][i].addr # m.addr
    BY <1>0, <1>1, <1>2, <1>5, GrantedTyped
  <2>3. CASE wsets'[HomeOf(q, i)][q] = wsets[HomeOf(q, i)][q]
    BY <1>0, <1>1, <2>1, <2>3 DEF StoredOp
  <2>4. CASE HomeOf(q, i) = e /\ m.type # "LOAD"
    <3>1. /\ \A j \in DOMAIN wsets'[e][q] : \/ wsets'[e][q][j].addr = m.addr
                                            \/ j \in DOMAIN wsets[e][q] /\ wsets'[e][q][j] = wsets[e][q][j]
          /\ \A j \in DOMAIN wsets[e][q] : j \in DOMAIN wsets'[e][q] /\ wsets'[e][q][j] = wsets[e][q][j]
      BY <1>0, <1>1, <1>3, <2>4, GrantIs
    <3> QED
      BY <1>0, <1>1, <2>1, <2>2, <2>4, <3>1 DEF StoredOp
  <2> QED
    BY <1>0, <1>1, <2>1, <2>3, <2>4, GrantIs
<1>6. CASE i = ip[q]
  <2>1. m.type # "LOAD" /\ HomeOf(q, i) = e
    BY <1>0, <1>1, <1>6 DEF Stores, HomeOf, Home
  <2>2. ASSUME NEW j \in DOMAIN wsets[e][q] PROVE wsets[e][q][j].addr # m.addr
    <3>1. InAttempt(q) /\ Own(e, q)
      BY DEF Live, InAttempt, PgasInv, BufferInv
    <3>2. PICK k \in GrantedOps(q) : body[q][k].addr = wsets[e][q][j].addr
      BY <1>4, <3>1 DEF Own
    <3>3. k \in DOMAIN body[q] /\ k # ip[q]
      BY <1>0, <3>2 DEF GrantedOps
    <3> QED
      BY <1>0, <1>1, <3>2, <3>3, GrantedTyped
  <2>3. /\ \A j \in DOMAIN wsets'[e][q] : \/ wsets'[e][q][j] = Entry(m)
                                          \/ j \in DOMAIN wsets[e][q] /\ wsets'[e][q][j] = wsets[e][q][j]
        /\ \E j \in DOMAIN wsets'[e][q] : wsets'[e][q][j] = Entry(m)
    BY <1>0, <1>1, <2>1, GrantIs
  <2>4. \A j \in DOMAIN wsets'[e][q] : wsets'[e][q][j].addr = m.addr => wsets'[e][q][j] = Entry(m)
    BY <2>2, <2>3
  <2> QED
    BY <1>0, <1>1, <1>3, <1>6, <2>1, <2>3, <2>4 DEF StoredOp
<1> QED
  BY <1>0, <1>5, <1>6

LEMMA StoredStep ==
  ASSUME PgasInv, [Next]_vars, NEW q \in Apps
  PROVE  Stored(q)'
<1> SUFFICES ASSUME Live(q)', NEW i \in GrantedOps(q)', body'[q][i].op \in Stores
             PROVE  StoredOp(q, i)'
  BY StoredIsNext
<1>0. TypeOK /\ stage = "run"
  BY LiveNext DEF PgasInv
<1>1. CASE Running(q) /\ GrantedOps(q)' = {}
  BY <1>1
<1>2. CASE Live(q) /\ \E e \in Dsls : \E m : Granting(e, q, m)
  <2>1. PICK e \in Dsls : \E m : Granting(e, q, m)
    BY <1>2
  <2>2. body'[q] = body[q]
    BY <2>1, GrantingIs DEF SameNode
  <2> QED
    BY <1>2, <2>1, <2>2, StoredGranting
<1>3. CASE /\ Live(q) /\ ~\E e \in Dsls : \E m : Granting(e, q, m)
           /\ GrantedOps(q)' = GrantedOps(q) /\ body'[q] = body[q]
  <2>1. wsets'[HomeOf(q, i)][q] = wsets[HomeOf(q, i)][q] /\ HomeOf(q, i)' = HomeOf(q, i)
    BY <1>3, WsetsLive DEF HomeOf
  <2>2. StoredOp(q, i) /\ i \in GrantedOps(q)
    BY <1>3, StoredIs DEF PgasInv, ValueInv
  <2>3. i \in DOMAIN body[q]
    BY <2>2 DEF GrantedOps
  <2>4. PICK a \in Accounts : a = body[q][i].addr
    BY <1>3, <2>3, GrantedTyped
  <2>5. HomeOf(q, i) \in Dsls
    BY <1>3, <2>3, GrantedTyped
  <2>6. Buffered(wsets[HomeOf(q, i)][q], a)
    BY <2>2, <2>4 DEF StoredOp, Buffered
  <2>7. writer[a] = q
    BY <2>5, <2>6, BufferedIs
  <2>8. mem'[a] = mem[a]
    BY <1>0, <1>3, <2>2, <2>4, <2>7, MemKept
  <2> QED
    BY <1>3, <2>1, <2>2, <2>4, <2>8 DEF StoredOp
<1> QED
  BY <1>1, <1>2, <1>3, LiveNext

\* A store that is granted does not touch the words others rely on.
LEMMA NotReliedOn ==
  ASSUME PgasInv, NEW e \in Dsls, NEW r \in Apps, NEW m, Granting(e, r, m), m.type # "LOAD",
         NEW q \in Apps, Relies(q, m.addr)
  PROVE  FALSE
<1>0. /\ TypeOK /\ m.addr \in Accounts /\ m.type \in Stores /\ Live(q) /\ q \in readers[m.addr] /\ writer[m.addr] = NoNode
  <2>1. m.addr \in Accounts /\ m.type \in Stores
    BY GrantingIs DEF Stores
  <2> QED
    BY <2>1 DEF PgasInv, ValueInv, Read, ReadLocked, Relies
<1>1. CASE q = r
  <2>1. PICK i \in GrantedOps(q) : body[q][i].addr = m.addr
    BY DEF Relies
  <2>2. /\ ip[q] \notin GrantedOps(q) /\ ip[q] \in DOMAIN body[q] /\ body[q][ip[q]].addr = m.addr
    BY <1>1, GrantingIs, GrantedOpsGranting
  <2>3. i \in DOMAIN body[q]
    BY DEF GrantedOps
  <2> QED
    BY <1>0, <2>1, <2>2, <2>3, GrantedTyped
<1>2. CASE q # r /\ Accept(e, r, m)
  <2>1. Conflict(r, m) = readers[m.addr] \ {r}
    BY <1>0 DEF Conflict, Loads
  <2> QED
    BY <1>0, <1>2, <2>1 DEF Accept
<1>3. CASE q # r /\ GrantContended(e) /\ r = serving[e].app /\ m = serving[e].req
  <2>1. Doomed(e)
    BY DEF PgasInv, ValueInv
  <2>2. ~Idle(e) /\ victims[e] = {}
    BY <1>3 DEF GrantContended
  <2> QED
    BY <1>0, <1>3, <2>1, <2>2 DEF Doomed
<1> QED
  BY <1>1, <1>2, <1>3 DEF Granting

LEMMA ReadLockedStep ==
  ASSUME PgasInv, [Next]_vars, NEW q \in Apps
  PROVE  ReadLocked(q)'
<1> SUFFICES ASSUME NEW a \in Accounts, Relies(q, a)' PROVE q \in readers'[a] /\ writer'[a] = NoNode
  BY DEF ReadLocked
<1>0. TypeOK
  BY DEF PgasInv
<1>1. ASSUME NEW e \in Dsls, NEW m, Accept(e, q, m), m.type = "LOAD", m.addr = a
      PROVE  q \in readers'[a] /\ writer'[a] = NoNode
  <2>1. Granting(e, q, m) /\ m \in Request /\ Grant(e, q, m)
    BY <1>1, GrantingIs DEF Granting
  <2>2. writer[a] = NoNode
    BY <1>1 DEF Accept, Conflict, Loads
  <2>3. writer'[a] = writer[a] /\ readers'[a] = readers[a] \cup {q}
    BY <1>0, <1>1, <2>1, GrantLocks
  <2> QED
    BY <2>2, <2>3
<1> SUFFICES ASSUME Relies(q, a) PROVE q \in readers'[a] /\ writer'[a] = NoNode
  BY <1>1, ReliesNext
<1>2. q \in readers[a] /\ writer[a] = NoNode /\ Live(q)
  BY DEF PgasInv, ValueInv, Read, ReadLocked, Relies
<1>3. ASSUME NEW e \in Dsls, NEW r \in Apps, NEW m, Granting(e, r, m)
      PROVE  q \in readers'[a] /\ writer'[a] = NoNode
  <2>1. m \in Request /\ Grant(e, r, m) /\ (m.type # "LOAD" => m.addr # a)
    BY <1>3, GrantingIs, NotReliedOn
  <2>2. writer'[a] = writer[a] /\ (readers'[a] = readers[a] \/ readers'[a] = readers[a] \cup {r})
    BY <1>0, <2>1, GrantLocks
  <2> QED
    BY <1>2, <2>2
<1>4. CASE \E e \in Dsls, p \in Apps : dsl_service(e, p)
  <2>1. PICK e \in Dsls, p \in Apps : dsl_service(e, p)
    BY <1>4
  <2>2. CASE Clearing(e, p) /\ (resp'[p].type = "CONFLICT" \/ chan[e][p].type = "RMV_NODE")
    <3>1. p = q => Responsible[a] # e
      <4>1. SUFFICES ASSUME p = q PROVE Responsible[a] # e
        OBVIOUS
      <4>2. chan[e][q].type = "RMV_NODE" /\ InAttempt(q)
        BY <1>2, <2>2, <4>1 DEF Relies, Live, InAttempt
      <4>3. PICK i \in GrantedOps(q) : body[q][i].addr = a
        BY DEF Relies
      <4> QED
        BY <4>2, <4>3, GrantedElsewhere DEF HomeOf
    <3>2. /\ writer'[a] = (IF Responsible[a] = e /\ writer[a] = p THEN NoNode ELSE writer[a])
          /\ readers'[a] = (IF Responsible[a] = e THEN readers[a] \ {p} ELSE readers[a])
      BY <2>2, DeleteIs DEF Clearing
    <3>3. readers'[a] = readers[a] \/ (readers'[a] = readers[a] \ {p} /\ p # q)
      BY <3>1, <3>2
    <3> QED
      BY <1>2, <3>2, <3>3
  <2>3. CASE UNCHANGED <<readers, writer>>
    BY <1>2, <2>3
  <2>4. CASE \E m : Granting(e, p, m)
    BY <1>3, <2>4
  <2> QED
    BY <2>1, <2>2, <2>3, <2>4, DslTables
<1>5. CASE \E e \in Dsls : GrantContended(e)
  <2>1. PICK e \in Dsls, r \in Apps : \E m : Granting(e, r, m)
    BY <1>0, <1>5, GrantReplies DEF Granting
  <2> QED
    BY <1>3, <2>1
<1>6. CASE (\E p \in Apps : AppStep(p)) \/ Barrier \/ (\E e \in Dsls : AbortVictim(e)) \/ UNCHANGED vars
  <2>1. UNCHANGED <<readers, writer>>
    BY <1>6, TablesKept DEF SameTables, Barrier, AbortVictim, lockVars, vars, dslVars
  <2> QED
    BY <1>2, <2>1
<1> QED
  BY <1>4, <1>5, <1>6 DEF Next, Terminated

\* A word that a live attempt has read, and not by winning, does not change.
LEMMA ReadKept ==
  ASSUME PgasInv, [Next]_vars, stage = "run", NEW q \in Apps, Live(q), NEW i \in GrantedOps(q),
         body[q][i].op = "LOAD", body[q][i].addr \notin passed[q]
  PROVE  mem'[body[q][i].addr] = mem[body[q][i].addr]
<1>1. i \in DOMAIN body[q]
  BY DEF GrantedOps
<1>2. PICK a \in Accounts : a = body[q][i].addr
  BY <1>1, GrantedTyped
<1>3. Relies(q, a)
  BY <1>2 DEF Relies
<1>4. writer[a] = NoNode
  BY <1>3 DEF PgasInv, ValueInv, Read, ReadLocked
<1> QED
  BY <1>2, <1>4, MemKept

LEMMA SeenCurrentStep ==
  ASSUME PgasInv, [Next]_vars, NEW q \in Apps
  PROVE  SeenCurrent(q)'
<1> SUFFICES ASSUME Live(q)', NEW r \in seen'[q]
             PROVE  /\ \E i \in GrantedOps(q)' : body'[q][i].op = "LOAD" /\ body'[q][i].addr = r[1]
                    /\ r[1] \in passed'[q] \/ mem'[r[1]] = r[2]
  BY DEF SeenCurrent
<1>0. TypeOK /\ stage = "run" /\ SeenCurrent(q) /\ ReplyCurrent(q)
  BY LiveNext DEF PgasInv, ValueInv, Read
<1>1. CASE Running(q) /\ seen'[q] = {}
  BY <1>1
<1>2. CASE Live(q) /\ r \in seen[q]
  <2>1. PICK i \in GrantedOps(q) : body[q][i].op = "LOAD" /\ body[q][i].addr = r[1]
    BY <1>0, <1>2 DEF SeenCurrent
  <2>2. r[1] \in passed[q] \/ mem[r[1]] = r[2]
    BY <1>0, <1>2 DEF SeenCurrent
  <2>3. r[1] \in passed[q] \/ mem'[r[1]] = r[2]
    BY <1>0, <1>2, <2>1, <2>2, ReadKept
  <2>4. i \in GrantedOps(q)' /\ body'[q] = body[q] /\ passed[q] \subseteq passed'[q]
    <3>1. CASE GrantedOps(q)' = GrantedOps(q) /\ body'[q] = body[q] /\ passed'[q] = passed[q]
      BY <3>1
    <3>2. CASE Running(q)
      BY <1>2, <3>2 DEF Live, Running
    <3>3. CASE \E e \in Dsls : \E m : Granting(e, q, m)
      <4>1. PICK e \in Dsls : \E m : Granting(e, q, m)
        BY <3>3
      <4> QED
        BY <4>1, GrantedOpsGranting, GrantingReads
    <3> QED
      BY <3>1, <3>2, <3>3, LiveNext
  <2> QED
    BY <2>1, <2>3, <2>4
<1>3. CASE Live(q) /\ r \notin seen[q]
  <2>1. AppStep(q)
    BY <1>3, LiveNext DEF SameNode, Running, Live
  <2>2. Granted(q) /\ Op(q).op = "LOAD" /\ r = <<Op(q).addr, resp[q].val>>
    <3>1. Granted(q)
      BY <1>0, <1>3, <2>1, TypesAre DEF TypesApp, AppStep, BeginPlain, Begin, ToBarrier, Running, Contact, NoticeAbort,
         Send, GotPlain, Refused, SetPersisting, SendRelease, Committed, Retry, ClearAttempt
    <3> QED
      BY <1>0, <1>3, <3>1, TypesAre DEF TypesApp, Granted
  <2>3. /\ pc[q] = "wait" /\ resp[q].type = "NO_CONFLICT" /\ mem' = mem /\ body' = body
    BY <2>1, <2>2, TablesKept DEF SameTables, Granted
  <2>4. Op(q).addr \in passed[q] \/ mem[Op(q).addr] = resp[q].val
    BY <1>0, <1>3, <2>2, <2>3 DEF ReplyCurrent
  <2>5. passed'[q] = passed[q] /\ GrantedOps(q)' = GrantedOps(q)
    BY <2>1, <2>3, LiveOwn DEF Running
  <2>6. ip[q] \in GrantedOps(q)
    BY <2>3 DEF PgasInv, NodeInv, Control, GrantedOps
  <2> QED
    BY <2>2, <2>3, <2>4, <2>5, <2>6 DEF Op
<1> QED
  BY <1>1, <1>2, <1>3, LiveNext DEF SameNode

LEMMA ReplyCurrentStep ==
  ASSUME PgasInv, [Next]_vars, NEW q \in Apps
  PROVE  ReplyCurrent(q)'
<1> SUFFICES ASSUME Live(q)', pc'[q] = "wait", resp'[q].type = "NO_CONFLICT", Op(q)'.op = "LOAD"
             PROVE  Op(q)'.addr \in passed'[q] \/ mem'[Op(q)'.addr] = resp'[q].val
  BY DEF ReplyCurrent
<1>0. TypeOK /\ stage = "run" /\ ReplyCurrent(q)
  BY LiveNext DEF PgasInv, ValueInv, Read
<1>1. CASE AppStep(q)
  <2>2. Send(q)
    BY <1>0, <1>1, TypesAre DEF TypesApp, AppStep, BeginPlain, Begin, ToBarrier, Running, Contact, NoticeAbort,
       Granted, GotPlain, Refused, SetPersisting, SendRelease, Committed, Retry
  <2>3. resp'[q] = NoResp
    BY <2>2 DEF PgasInv, NodeInv, Answered, Send
  <2> QED
    BY <2>3 DEF NoResp
<1>2. CASE Live(q) /\ SameNode(q) /\ resp'[q] = resp[q] /\ passed'[q] = passed[q]
  <2>1. Op(q)' = Op(q) /\ pc[q] = "wait"
    BY <1>2 DEF SameNode, Op
  <2>2. ip[q] \in GrantedOps(q) /\ body[q][ip[q]] = Op(q)
    BY <1>2, <2>1 DEF PgasInv, NodeInv, Control, GrantedOps, Op
  <2>3. Op(q).addr \in passed[q] \/ mem[Op(q).addr] = resp[q].val
    BY <1>0, <1>2, <2>1 DEF ReplyCurrent
  <2> QED
    BY <1>0, <1>2, <2>1, <2>2, <2>3, ReadKept
<1>3. CASE SameNode(q) /\ \E e \in Dsls : \E m : Granting(e, q, m)
  <2>1. PICK e \in Dsls : \E m : Granting(e, q, m)
    BY <1>3
  <2>2. PICK m : Granting(e, q, m)
    BY <2>1
  <2>3. Op(q)' = Op(q)
    BY <1>3 DEF SameNode, Op
  <2>4. m \in Request /\ Grant(e, q, m) /\ m.type = "LOAD" /\ m.addr = Op(q).addr /\ mem' = mem
    BY <2>2, <2>3, GrantingIs
  <2> QED
    BY <1>0, <2>3, <2>4, GrantIs
<1> QED
  BY <1>1, <1>2, <1>3, LiveNext DEF AppStep

-----------------------------------------------------------------------------
(* The holders a DSL node aborts before it grants a store.                   *)

LEMMA ServedTyped ==
  ASSUME PgasInv, NEW d \in Dsls, ~Idle(d)
  PROVE  /\ serving[d].app \in Apps /\ serving[d].req \in Request /\ serving[d].req.addr \in Accounts
         /\ Responsible[serving[d].req.addr] = d /\ HasCM
<1>1. serving[d] \in [app : Apps, req : Request]
  BY DEF PgasInv, TypeOK, Idle
<1>2. Served(d) /\ Aborting(d)
  BY DEF PgasInv, DslInv
<1> QED
  BY <1>1, <1>2 DEF Served, Aborting, Asks, Home, Request

\* A grant at another DSL node
LEMMA GrantingElsewhere ==
  ASSUME PgasInv, NEW d \in Dsls, NEW a \in Accounts, Responsible[a] = d,
         NEW e \in Dsls, e # d, NEW r \in Apps, NEW m, Granting(e, r, m)
  PROVE  readers'[a] = readers[a] /\ writer'[a] = writer[a] /\ \A q \in Apps : wsets'[d][q] = wsets[d][q]
<1>1. TypeOK /\ m \in Request /\ Grant(e, r, m) /\ Responsible[m.addr] = e
  BY GrantingIs DEF PgasInv
<1>2. a # m.addr
  BY <1>1
<1>3. readers'[a] = readers[a] /\ writer'[a] = writer[a]
  BY <1>1, <1>2, GrantLocks
<1>4. \A q \in Apps : wsets'[d][q] = wsets[d][q]
  BY <1>1, GrantIs
<1> QED
  BY <1>3, <1>4

\* A DSL node that aborts holders has just taken the request up, or is at the same word as
\* before, whose entry nobody has touched.
LEMMA ServingNext ==
  ASSUME PgasInv, [Next]_vars, NEW d \in Dsls, ~Idle(d)'
  PROVE  \/ \E p \in Apps : \E m : Contest(d, p, m)
         \/ /\ ~Idle(d) /\ serving'[d] = serving[d]
            /\ AbortVictim(d) \/ (victims'[d] = victims[d] /\ \A q \in Apps : wsets'[d][q] = wsets[d][q])
            /\ readers'[serving[d].req.addr] = readers[serving[d].req.addr]
            /\ writer'[serving[d].req.addr] = writer[serving[d].req.addr]
<1>0. TypeOK /\ TypesDsl
  BY TypesAre DEF PgasInv
<1>1. CASE (\E p \in Apps : AppStep(p)) \/ Barrier \/ UNCHANGED vars
  <2>1. UNCHANGED <<serving, victims, wsets, readers, writer>>
    BY <1>1, TablesKept DEF SameTables, Barrier, vars, dslVars, lockVars
  <2> QED
    BY <2>1 DEF Idle
<1>2. CASE \E e \in Dsls : AbortVictim(e)
  <2>1. PICK e \in Dsls : AbortVictim(e)
    BY <1>2
  <2>2. UNCHANGED <<serving, readers, writer>>
    BY <2>1 DEF AbortVictim, lockVars
  <2>3. CASE e = d
    BY <2>1, <2>2, <2>3 DEF Idle
  <2>4. CASE e # d
    <3>1. PICK v \in Apps : Emptied(e, v) /\ victims' = [victims EXCEPT ![e] = @ \ {v}]
      BY <1>0, <2>1, VictimTyped DEF AbortVictim
    <3>2. victims'[d] = victims[d] /\ \A q \in Apps : wsets'[d][q] = wsets[d][q]
      BY <1>0, <2>4, <3>1, EmptiedIs DEF TypesDsl
    <3> QED
      BY <2>2, <3>2 DEF Idle
  <2> QED
    BY <2>3, <2>4
<1>3. CASE \E e \in Dsls : GrantContended(e)
  <2>1. PICK e \in Dsls : GrantContended(e)
    BY <1>3
  <2>2. serving' = [serving EXCEPT ![e] = NoMsg] /\ victims' = victims
    BY <1>0, <2>1, GrantReplies DEF GrantContended
  <2>3. e # d /\ serving'[d] = serving[d] /\ ~Idle(d)
    BY <1>0, <2>2 DEF TypesDsl, Idle
  <2>4. PICK r \in Apps : \E m : Granting(e, r, m)
    BY <1>0, <2>1, GrantReplies DEF Granting
  <2>5. PICK a \in Accounts : a = serving[d].req.addr /\ Responsible[a] = d
    BY <2>3, ServedTyped
  <2>6. readers'[a] = readers[a] /\ writer'[a] = writer[a] /\ \A q \in Apps : wsets'[d][q] = wsets[d][q]
    BY <2>3, <2>4, <2>5, GrantingElsewhere
  <2> QED
    BY <2>2, <2>3, <2>5, <2>6
<1>4. CASE \E e \in Dsls, p \in Apps : dsl_service(e, p)
  <2>1. PICK e \in Dsls, p \in Apps : dsl_service(e, p)
    BY <1>4
  <2>2. CASE \E m : Contest(e, p, m)
    <3>1. CASE e = d
      BY <2>2, <3>1
    <3>2. CASE e # d
      <4>1. serving'[d] = serving[d] /\ victims'[d] = victims[d] /\ UNCHANGED <<wsets, readers, writer>>
        BY <1>0, <2>2, <3>2 DEF Contest, TypesDsl, lockVars
      <4> QED
        BY <4>1 DEF Idle
    <3> QED
      BY <3>1, <3>2
  <2>3. CASE ~\E m : Contest(e, p, m)
    <3>1. UNCHANGED <<serving, victims>> /\ ~Idle(d) /\ Idle(e)
      <4>1. UNCHANGED <<serving, victims>> /\ Idle(e)
        BY <1>0, <2>1, <2>3, DslIs DEF Accept, Reject, ServeLoadNontx, ServeStoreNontx, RemoveNode
      <4> QED
        BY <4>1 DEF Idle
    <3>2. PICK a \in Accounts : a = serving[d].req.addr /\ Responsible[a] = d
      BY <3>1, ServedTyped
    <3>3. readers'[a] = readers[a] /\ writer'[a] = writer[a] /\ \A q \in Apps : wsets'[d][q] = wsets[d][q]
      <4>0. e # d
        BY <3>1
      <4>1. CASE Clearing(e, p)
        <5>1. DeleteNode(e, p) /\ Emptied(e, p)
          BY <4>1 DEF Clearing
        <5>2. readers'[a] = readers[a] /\ writer'[a] = writer[a]
          BY <3>2, <4>0, <5>1, DeleteIs
        <5>3. \A q \in Apps : wsets'[d][q] = wsets[d][q]
          BY <1>0, <4>0, <5>1, EmptiedIs
        <5> QED
          BY <5>2, <5>3
      <4>2. CASE UNCHANGED <<wsets, readers, writer>>
        BY <4>2
      <4>3. CASE \E m : Granting(e, p, m)
        BY <3>2, <4>0, <4>3, GrantingElsewhere
      <4> QED
        BY <2>1, <4>1, <4>2, <4>3, DslTables
    <3> QED
      BY <3>1, <3>2, <3>3
  <2> QED
    BY <2>2, <2>3
<1> QED
  BY <1>1, <1>2, <1>3, <1>4 DEF Next, Terminated

LEMMA ContestIs ==
  ASSUME PgasInv, NEW d \in Dsls, NEW p \in Apps, NEW m, Contest(d, p, m)
  PROVE  /\ m \in Request /\ m.addr \in Accounts /\ serving'[d].app = p /\ serving'[d].req = m
         /\ victims'[d] = Conflict(p, m) /\ UNCHANGED <<readers, writer, resp>>
<1>1. m \in Request
  BY MessageTyped DEF PgasInv, Contest
<1>2. serving' = [serving EXCEPT ![d] = [app |-> p, req |-> m]] /\ victims' = [victims EXCEPT ![d] = Conflict(p, m)]
  BY DEF Contest
<1>3. serving'[d] = [app |-> p, req |-> m] /\ victims'[d] = Conflict(p, m)
  BY <1>2, TypesAre DEF PgasInv, TypesDsl
<1> QED
  BY <1>1, <1>3 DEF Request, Contest, lockVars

LEMMA LosingStep ==
  ASSUME PgasInv, [Next]_vars, NEW d \in Dsls
  PROVE  Losing(d)'
<1> SUFFICES ASSUME ~Idle(d)', serving'[d].req.type \in Stores
             PROVE  \/ writer'[serving'[d].req.addr] \in {NoNode, serving'[d].app} \cup victims'[d]
                    \/ wsets'[d][writer'[serving'[d].req.addr]] = <<>>
  BY DEF Losing
<1>0. TypeOK
  BY DEF PgasInv
<1>1. CASE \E p \in Apps : \E m : Contest(d, p, m)
  <2>1. PICK p \in Apps : \E m : Contest(d, p, m)
    BY <1>1
  <2>2. PICK m : Contest(d, p, m)
    BY <2>1
  <2>3. /\ serving'[d].app = p /\ serving'[d].req = m
        /\ victims'[d] = Conflict(p, m) /\ writer' = writer
    BY <2>2, ContestIs
  <2>4. writer[m.addr] \notin {NoNode, p} => Conflict(p, m) = {writer[m.addr]}
    BY <2>3 DEF Conflict, Loads, Stores
  <2> QED
    BY <2>3, <2>4
<1>2. CASE /\ ~Idle(d) /\ serving'[d] = serving[d]
           /\ AbortVictim(d) \/ (victims'[d] = victims[d] /\ \A q \in Apps : wsets'[d][q] = wsets[d][q])
           /\ writer'[serving[d].req.addr] = writer[serving[d].req.addr]
  <2>1. PICK w \in Apps \cup {NoNode} : w = writer[serving[d].req.addr]
    <3>1. serving[d].req.addr \in Accounts
      BY <1>2, ServedTyped
    <3> QED
      BY <1>0, <3>1 DEF TypeOK
  <2>2. w \in {NoNode, serving[d].app} \cup victims[d] \/ wsets[d][w] = <<>>
    BY <1>2, <2>1 DEF PgasInv, ValueInv, Losing
  <2>3. CASE AbortVictim(d)
    <3>1. PICK v \in Apps : Emptied(d, v) /\ victims' = [victims EXCEPT ![d] = @ \ {v}]
      BY <1>0, <2>3, VictimTyped DEF AbortVictim
    <3>2. victims'[d] = victims[d] \ {v}
      BY <1>0, <3>1, TypesAre DEF TypesDsl
    <3>3. wsets'[d][v] = <<>> /\ \A q \in Apps : q # v => wsets'[d][q] = wsets[d][q]
      BY <1>0, <3>1, EmptiedIs
    <3> QED
      BY <1>2, <2>1, <2>2, <3>2, <3>3
  <2>4. CASE victims'[d] = victims[d] /\ \A q \in Apps : wsets'[d][q] = wsets[d][q]
    BY <1>2, <2>1, <2>2, <2>4
  <2> QED
    BY <1>2, <2>3, <2>4
<1> QED
  BY <1>1, <1>2, ServingNext

LEMMA DoomedStep ==
  ASSUME PgasInv, [Next]_vars, NEW d \in Dsls
  PROVE  Doomed(d)'
<1> SUFFICES ASSUME ~Idle(d)', serving'[d].req.type \in Stores, NEW a, a = serving'[d].req.addr,
                    NEW q \in readers'[a], Relies(q, a)'
             PROVE  q \in victims'[d] \/ q = serving'[d].app
  BY DEF Doomed
<1>0. TypeOK /\ TypeOK'
  BY TypeStep DEF PgasInv, NodeInv
<1>1. CASE \E p \in Apps : \E m : Contest(d, p, m)
  <2>1. PICK p \in Apps : \E m : Contest(d, p, m)
    BY <1>1
  <2>2. PICK m : Contest(d, p, m)
    BY <2>1
  <2>3. /\ serving'[d].app = p /\ serving'[d].req = m /\ a = m.addr /\ a \in Accounts
        /\ victims'[d] = Conflict(p, m) /\ UNCHANGED <<readers, resp>>
    BY <2>2, ContestIs
  <2>4. q \in Apps
    BY <1>0, <2>3 DEF TypeOK
  <2>5. ASSUME NEW e \in Dsls, NEW n, Accept(e, q, n) PROVE FALSE
    <3>1. resp[q] = NoResp /\ Grant(e, q, n) /\ n \in Request
      BY <2>4, <2>5, GrantingIs DEF Granting
    <3>2. resp'[q].type = "NO_CONFLICT"
      BY <1>0, <2>4, <3>1, GrantIs
    <3> QED
      BY <2>3, <3>1, <3>2 DEF NoResp
  <2>6. Relies(q, a)
    BY <2>3, <2>4, <2>5, ReliesNext
  <2>7. writer[a] = NoNode
    BY <2>3, <2>4, <2>6 DEF PgasInv, ValueInv, Read, ReadLocked
  <2>8. Conflict(p, m) = readers[a] \ {p}
    BY <2>3, <2>7 DEF Conflict, Loads, Stores
  <2> QED
    BY <2>3, <2>8
<1>2. CASE /\ ~Idle(d) /\ serving'[d] = serving[d]
           /\ AbortVictim(d) \/ victims'[d] = victims[d]
           /\ readers'[serving[d].req.addr] = readers[serving[d].req.addr]
  <2>1. a = serving[d].req.addr /\ a \in Accounts /\ Responsible[a] = d /\ HasCM /\ q \in readers[a]
    BY <1>2, ServedTyped
  <2>2. q \in Apps
    BY <1>0, <2>1 DEF TypeOK
  <2>3. ASSUME NEW e \in Dsls, NEW n, Accept(e, q, n), n.addr = a PROVE FALSE
    <3>1. Responsible[n.addr] = e /\ Idle(e)
      BY <2>2, <2>3, GrantingIs DEF Granting, Accept
    <3> QED
      BY <1>2, <2>1, <2>3, <3>1
  <2>4. Relies(q, a)
    BY <2>1, <2>2, <2>3, ReliesNext
  <2>5. q \in victims[d] \/ q = serving[d].app
    BY <1>2, <2>1, <2>4 DEF PgasInv, ValueInv, Doomed
  <2>6. CASE AbortVictim(d)
    <3>1. PICK v \in Apps : /\ victims' = [victims EXCEPT ![d] = @ \ {v}] /\ build' = build
                            /\ flag' = [flag EXCEPT ![v] = IF @ = "NO_CONFLICT" THEN "CONFLICT" ELSE @]
      BY <1>0, <2>6, VictimTyped DEF AbortVictim
    <3>2. victims'[d] = victims[d] \ {v}
      BY <1>0, <3>1, TypesAre DEF TypesDsl
    <3>3. flag'[v] # "NO_CONFLICT"
      BY <1>0, <3>1, TypesAre DEF TypesMsg
    <3>4. q # v
      BY <2>1, <3>1, <3>3 DEF Relies, Live, HasCM
    <3> QED
      BY <1>2, <2>5, <3>2, <3>4
  <2>7. CASE victims'[d] = victims[d]
    BY <1>2, <2>5, <2>7
  <2> QED
    BY <1>2, <2>6, <2>7
<1> QED
  BY <1>1, <1>2, ServingNext

-----------------------------------------------------------------------------
(* The invariant.                                                            *)

LEMMA InitInv == Init => PgasInv
<1> SUFFICES ASSUME Init PROVE PgasInv
  OBVIOUS
<1>1. TypeOK
  BY InitTyped
<1>2. /\ stage = "reset" /\ \A p \in Apps : /\ pc[p] = "idle" /\ body[p] = <<>> /\ ip[p] = 1 /\ seen[p] = {}
                                            /\ contacted[p] = {} /\ resp[p] = NoResp /\ flag[p] = "NO_CONFLICT"
      /\ \A d \in Dsls : serving[d] = NoMsg /\ \A p \in Apps : chan[d][p] = NoMsg /\ wsets[d][p] = <<>>
  BY DEF Init
<1>3. \A p \in Apps : Control(p) /\ Contacts(p)
  BY <1>2 DEF Control, Contacts
<1>4. \A p \in Apps : Answered(p) /\ Flagged(p)
  BY <1>2 DEF Answered, Flagged, NoResp
<1>5. \A d \in Dsls : Served(d) /\ Aborting(d) /\ Losing(d) /\ Doomed(d)
  BY <1>2 DEF Served, Aborting, Losing, Doomed, Idle
<1>6. \A d \in Dsls, p \in Apps : Slot(d, p) /\ Waited(d, p)
  BY <1>2 DEF Slot, Requested, LoadFollows, Releases, Waited, NoMsg
<1>7. \A d \in Dsls, p \in Apps : Buffers(d, p) /\ Own(d, p)
  BY <1>2 DEF Buffers, Locked, ToBeReleased, Own
<1>8. \A p \in Apps : Stored(p) /\ Read(p)
  BY <1>2 DEF Stored, Read, ReadLocked, Relies, SeenCurrent, ReplyCurrent, Live
<1> QED
  BY <1>1, <1>3, <1>4, <1>5, <1>6, <1>7, <1>8
  DEF PgasInv, NodeInv, DslInv, SlotInv, WaitInv, BufferInv, ValueInv

LEMMA InvStep == PgasInv /\ [Next]_vars => PgasInv'
<1> SUFFICES ASSUME PgasInv, [Next]_vars PROVE PgasInv'
  OBVIOUS
<1>1. TypeOK /\ (\A p \in Apps : NodeInv(p)) /\ (\A d \in Dsls : DslInv(d)) /\ SlotInv
  BY DEF PgasInv
<1>2. /\ \A p \in Apps : Control(p) /\ Contacts(p) /\ Answered(p) /\ Flagged(p)
      /\ \A d \in Dsls : Served(d) /\ Aborting(d)
  BY <1>1 DEF NodeInv, DslInv
<1>3. TypeOK'
  BY <1>1, <1>2, TypeStep
<1>4. \A p \in Apps : NodeInv(p)'
  <2>1. (\A p \in Apps : Control(p)') /\ (\A p \in Apps : Contacts(p)')
    BY <1>1, <1>2, ControlStep, ContactsStep
  <2>2. (\A p \in Apps : Answered(p)') /\ (\A p \in Apps : Flagged(p)')
    BY <1>1, <1>2, AnsweredStep, FlaggedStep
  <2> QED
    BY <2>1, <2>2 DEF NodeInv
<1>5. \A d \in Dsls : DslInv(d)'
  <2>1. (\A d \in Dsls : Served(d)') /\ (\A d \in Dsls : Aborting(d)')
    BY <1>1, <1>2, ServedStep, AbortingStep
  <2> QED
    BY <2>1 DEF DslInv
<1>6. SlotInv' /\ WaitInv'
  <2>1. \A d \in Dsls, q \in Apps : Waited(d, q)'
    BY WaitedStep
  <2> QED
    BY <1>1, <2>1, SlotStep DEF WaitInv
<1>7. BufferInv'
  <2>1. \A d \in Dsls, q \in Apps : Locked(d, q)' /\ ToBeReleased(d, q)' /\ Own(d, q)'
    BY LockedStep, ToBeReleasedStep, OwnStep
  <2> QED
    BY <2>1 DEF BufferInv, Buffers
<1>8. ValueInv'
  <2>1. \A q \in Apps : Stored(q)' /\ ReadLocked(q)' /\ SeenCurrent(q)' /\ ReplyCurrent(q)'
    BY StoredStep, ReadLockedStep, SeenCurrentStep, ReplyCurrentStep
  <2>2. \A d \in Dsls : Losing(d)' /\ Doomed(d)'
    BY LosingStep, DoomedStep
  <2> QED
    BY <2>1, <2>2 DEF ValueInv, Read
<1> QED
  BY <1>3, <1>4, <1>5, <1>6, <1>7, <1>8 DEF PgasInv

LEMMA Inductive == Spec => []PgasInv
<1>1. Init => PgasInv
  BY InitInv
<1>2. PgasInv /\ [Next]_vars => PgasInv'
  BY InvStep
<1> QED
  BY <1>1, <1>2, PTL DEF Spec

\* The variables keep their types, and a slot holds a message of dsl_service, in a network of
\* any size and on every platform.
THEOREM TypeCorrect == Spec => []TypeOK
<1>1. PgasInv => TypeOK
  BY DEF PgasInv
<1> QED
  BY <1>1, Inductive, PTL

-----------------------------------------------------------------------------
(* The memory as the committed transactions see it, a word at a time.        *)

\* The value of the newest entry of a word
Newest(s, a) == s[Max({i \in 1 .. Len(s) : s[i].addr = a})].val

LEMMA NewestIs ==
  ASSUME NEW s \in Seq(Entries), NEW a \in Accounts, Buffered(s, a)
  PROVE  /\ WriteBack(s)[a] = Newest(s, a) /\ (WriteBack(s)[a])' = Newest(s, a)
         /\ \E j \in DOMAIN s : s[j].addr = a /\ Newest(s, a) = s[j].val
<1> DEFINE I == {i \in 1 .. Len(s) : s[i].addr = a}
<1>1. I # {} /\ I \in SUBSET (1 .. Len(s)) /\ Len(s) \in Nat
  BY DEF Buffered
<1>2. PICK j : j = Max(I)
  OBVIOUS
<1>3. j \in I /\ Newest(s, a) = s[j].val
  BY <1>1, <1>2, LastIn DEF Newest
<1>4. WriteBack(s)[a] = s[IF I # {} THEN Max(I) ELSE 0].val
  BY DEF WriteBack, Buffered, SelectLastInSeq
<1>5. (WriteBack(s)[a])' = s[IF I # {} THEN Max(I) ELSE 0].val
  BY DEF WriteBack, Buffered, SelectLastInSeq
<1>6. s[IF I # {} THEN Max(I) ELSE 0].val = s[j].val
  BY <1>1, <1>2
<1>7. WriteBack(s)[a] = s[j].val
  BY <1>4, <1>6, Zenon
<1>8. (WriteBack(s)[a])' = s[j].val
  BY <1>5, <1>6, Zenon
<1>9. j \in DOMAIN s /\ s[j].addr = a
  BY <1>3
<1> QED
  BY <1>3, <1>7, <1>8, <1>9

\* p is past its compare-and-swap, and what it has buffered at d takes effect.
Past(d, p) == pc[p] = "commit" \/ (chan[d][p].type = "RMV_NODE" /\ chan[d][p].commit)
Share(p, a) == wsets[Responsible[a]][p]

\* At most one node has a word to write back, and it has locked it.
WordIs(a) ==
  /\ \A p \in Apps : p \in Owners(a) <=> Past(Responsible[a], p) /\ Buffered(Share(p, a), a)
  /\ Owners(a) \subseteq Apps
  /\ \A p \in Apps : Buffered(Share(p, a), a) => writer[a] = p /\ Share(p, a) \in Seq(Entries)
  /\ \A p \in Owners(a) : Effective[a] = Newest(Share(p, a), a)
  /\ Owners(a) = {} => Effective[a] = mem[a]

LEMMA EffectiveIs == PgasInv => \A a \in Accounts : WordIs(a)
<1> SUFFICES ASSUME PgasInv, NEW a \in Accounts PROVE WordIs(a)
  OBVIOUS
<1>1. Responsible[a] \in Dsls
  BY PgasAssumption
<1>2. wsets \in [Dsls -> [Apps -> Seq(Entries)]]
  BY DEF PgasInv, TypeOK, Entries
<1>3. \A p \in Apps : p \in Owners(a) <=> Past(Responsible[a], p) /\ Buffered(Share(p, a), a)
  BY DEF Owners, Past, Buffered, Share
<1>4. Owners(a) \subseteq Apps
  BY DEF Owners
<1>5. \A p \in Apps : Buffered(Share(p, a), a) => writer[a] = p /\ Share(p, a) \in Seq(Entries)
  BY <1>1, <1>2, BufferedIs DEF Share
<1>6. Owners(a) = {} => Effective[a] = mem[a]
  BY DEF Effective
<1>7. ASSUME NEW p \in Owners(a) PROVE Effective[a] = Newest(Share(p, a), a)
  <2>1. PICK q : q = CHOOSE r \in Owners(a) : TRUE
    OBVIOUS
  <2>2. q \in Owners(a)
    BY <1>7, <2>1
  <2>3. q = p
    BY <1>3, <1>4, <1>5, <2>2
  <2>4. Effective[a] = WriteBack(Share(q, a))[a]
    BY <2>1, <2>2 DEF Effective, Share
  <2>5. Share(p, a) \in Seq(Entries) /\ Buffered(Share(p, a), a)
    BY <1>3, <1>4, <1>5
  <2>6. PICK s \in Seq(Entries) : s = Share(p, a)
    BY <2>5
  <2>7. WriteBack(s)[a] = Newest(s, a)
    BY <2>5, <2>6, NewestIs
  <2> QED
    BY <2>3, <2>4, <2>6, <2>7
<1> QED
  BY <1>3, <1>4, <1>5, <1>6, <1>7 DEF WordIs

LEMMA EffectiveNext == PgasInv' => (\A a \in Accounts : WordIs(a))'
BY EffectiveIs, PTL

\* What a live attempt has read is still current, but for the words it got by winning against
\* their writer: a committed write that is not yet in the memory is none of them.
THEOREM ReadsCurrentHolds == Spec => []ReadsCurrent
<1>1. PgasInv => ReadsCurrent
  <2> SUFFICES ASSUME PgasInv, NEW p \in Apps, Live(p), NEW r \in seen[p], r[1] \notin passed[p]
               PROVE  Effective[r[1]] = r[2]
    BY DEF ReadsCurrent
  <2>1. mem[r[1]] = r[2] /\ \E i \in GrantedOps(p) : body[p][i].op = "LOAD" /\ body[p][i].addr = r[1]
    BY DEF PgasInv, ValueInv, Read, SeenCurrent
  <2>2. PICK i \in GrantedOps(p) : body[p][i].op = "LOAD" /\ body[p][i].addr = r[1]
    BY <2>1
  <2>3. i \in DOMAIN body[p]
    BY DEF GrantedOps
  <2>4. PICK a \in Accounts : a = r[1]
    BY <2>2, <2>3, GrantedTyped
  <2>5. Relies(p, a)
    BY <2>2, <2>4 DEF Relies
  <2>6. writer[a] = NoNode
    BY <2>5 DEF PgasInv, ValueInv, Read, ReadLocked
  <2>7. WordIs(a)
    BY EffectiveIs
  <2>8. Owners(a) = {}
    BY <2>6, <2>7, PgasAssumption DEF WordIs
  <2> QED
    BY <2>1, <2>4, <2>7, <2>8 DEF WordIs
<1> QED
  BY <1>1, Inductive, PTL

-----------------------------------------------------------------------------
(* A commit takes effect at once.                                            *)

\* The step adds no owner of the word and takes none away.
SameOwners(a) ==
  \A q \in Apps : \/ q \in Owners(a)' /\ q \in Owners(a) /\ Share(q, a)' = Share(q, a)
                  \/ q \notin Owners(a)' /\ q \notin Owners(a)

LEMMA WordSame ==
  ASSUME PgasInv, PgasInv', NEW a \in Accounts, mem'[a] = mem[a], SameOwners(a)
  PROVE  Effective'[a] = Effective[a]
<1>1. WordIs(a) /\ WordIs(a)'
  BY EffectiveIs, EffectiveNext
<1>2. CASE Owners(a) = {}
  <2>1. Owners(a)' = {}
    BY <1>1, <1>2 DEF SameOwners, WordIs
  <2> QED
    BY <1>1, <1>2, <2>1 DEF WordIs
<1>3. CASE Owners(a) # {}
  <2>1. PICK q \in Apps : q \in Owners(a)
    BY <1>1, <1>3 DEF WordIs
  <2>2. q \in Owners(a)' /\ Share(q, a)' = Share(q, a)
    BY <2>1 DEF SameOwners
  <2>3. Effective[a] = Newest(Share(q, a), a) /\ Effective'[a] = Newest(Share(q, a), a)'
    BY <1>1, <2>1, <2>2 DEF WordIs
  <2> QED
    BY <2>2, <2>3 DEF Newest
<1> QED
  BY <1>2, <1>3

\* v's share of a word is written back and gone.
LEMMA WordWritten ==
  ASSUME PgasInv, PgasInv', NEW a \in Accounts, NEW v \in Apps, v \in Owners(a), ~Buffered(Share(v, a)', a),
         \A q \in Apps : q # v => Share(q, a)' = Share(q, a),
         mem' = WriteBack(Share(v, a))
  PROVE  Effective'[a] = Effective[a]
<1>1. WordIs(a) /\ WordIs(a)'
  BY EffectiveIs, EffectiveNext
<1>2. Owners(a)' = {}
  <2> SUFFICES ASSUME NEW q \in Apps, q \in Owners(a)' PROVE FALSE
    BY <1>1 DEF WordIs
  <2>1. Buffered(Share(q, a)', a)
    BY <1>1 DEF WordIs, Buffered
  <2>2. q # v /\ Buffered(Share(q, a), a)
    BY <2>1
  <2> QED
    BY <1>1, <2>2 DEF WordIs
<1>3. PICK s \in Seq(Entries) : s = Share(v, a)
  BY <1>1 DEF WordIs
<1>4. WriteBack(s)[a] = Newest(s, a)
  BY <1>1, <1>3, NewestIs DEF WordIs
<1> QED
  BY <1>1, <1>2, <1>3, <1>4 DEF WordIs

\* Without a commit, what the application nodes do does not matter: a node that is done has
\* sent its releases.
LEMMA AppWord ==
  ASSUME PgasInv, PgasInv', NEW p \in Apps, AppStep(p), ~SetPersisting(p), NEW a \in Accounts
  PROVE  Effective'[a] = Effective[a]
<1>0. /\ TypeOK /\ Responsible[a] \in Dsls /\ UNCHANGED <<mem, wsets>>
      /\ \A q \in Apps : Share(q, a)' = Share(q, a)
  BY TablesKept, PgasAssumption DEF PgasInv, SameTables, Share
<1>1. WordIs(a) /\ WordIs(a)'
  BY EffectiveIs, EffectiveNext
<1>2. PICK d \in Dsls : d = Responsible[a]
  BY <1>0
<1>3. ASSUME NEW q \in Apps, q # p PROVE Past(d, q)' <=> Past(d, q)
  <2>1. SameNode(q) /\ SameMail(q)
    BY <1>0, <1>3, Elsewhere
  <2> QED
    BY <2>1 DEF SameNode, SameMail, Past
<1>4. ASSUME Buffered(Share(p, a), a) PROVE Past(d, p)' <=> Past(d, p)
  <2>1. CASE Committed(p)
    <3>1. /\ pc[p] = "commit" /\ unsent[p] = {} /\ chan' = chan
      BY <2>1 DEF Committed, Released
    <3>2. wsets[d][p] # <<>>
      BY <1>2, <1>4 DEF Buffered, Share
    <3>3. ToBeReleased(d, p) /\ Slot(d, p)
      BY DEF PgasInv, BufferInv, Buffers, SlotInv
    <3>4. chan[d][p].type = "RMV_NODE"
      BY <3>1, <3>2, <3>3 DEF ToBeReleased, InAttempt
    <3>5. chan[d][p] \in Release
      BY <1>0, <3>4, MessageTyped
    <3>6. chan[d][p].commit
      BY <3>1, <3>3, <3>4, <3>5 DEF Slot, Releases, InAttempt, Release
    <3> QED
      BY <3>1, <3>4, <3>6 DEF Past
  <2>2. CASE SendRelease(p)
    <3>c. PICK c : c = (pc[p] = "commit")
      OBVIOUS
    <3>1. PICK e \in Dsls : /\ chan[e][p] = NoMsg
                            /\ chan' = [chan EXCEPT ![e][p] = [type |-> "RMV_NODE", commit |-> c, meta |-> prio[p]]]
      <4>1. Min(unsent[p]) \in Dsls
        <5>1. unsent[p] \in SUBSET Nat /\ unsent[p] # {} /\ unsent[p] \in SUBSET Dsls
          BY <1>0, <2>2, Typed, PgasAssumption DEF SendRelease
        <5> QED
          BY <5>1, MinIn
      <4> QED
        BY <2>2, <3>c, <4>1, Zenon DEF SendRelease
    <3>2. pc' = pc /\ (c = FALSE \/ pc[p] = "commit")
      BY <2>2, <3>c DEF SendRelease
    <3>3. CASE e = d
      <4>1. chan[d][p] = NoMsg
        BY <3>1, <3>3
      <4>2. chan'[d][p] = [type |-> "RMV_NODE", commit |-> c, meta |-> prio[p]]
        BY <1>0, <3>1, <3>3, TypesAre DEF TypesMsg
      <4>3. chan'[d][p].commit = FALSE \/ pc[p] = "commit"
        BY <3>2, <4>2
      <4> QED
        BY <3>2, <4>1, <4>3 DEF Past, NoMsg
    <3>4. CASE e # d
      <4>1. chan'[d][p] = chan[d][p]
        BY <1>0, <3>1, <3>4, TypesAre DEF TypesMsg
      <4> QED
        BY <3>2, <4>1 DEF Past
    <3> QED
      BY <3>3, <3>4
  <2>3. CASE Send(p)
    <3>1. PICK m : /\ m = [type |-> Op(p).op, addr |-> Op(p).addr, val |-> Op(p).val, meta |-> prio[p]]
                   /\ chan[Home(p)][p] = NoMsg /\ chan' = [chan EXCEPT ![Home(p)][p] = m]
      BY <2>3 DEF Send
    <3>2. ip[p] \in DOMAIN body[p]
      BY <1>0, <2>3, TypesAre DEF PgasInv, NodeInv, Control, Send, BodyDone, TypesApp
    <3>3. m.type # "RMV_NODE" /\ Home(p) \in Dsls
      BY <1>0, <3>1, <3>2, OpTyped
    <3>4. chan'[d][p] = chan[d][p] \/ (chan[d][p].type # "RMV_NODE" /\ chan'[d][p].type # "RMV_NODE")
      BY <1>0, <3>1, <3>3, TypesAre DEF TypesMsg, NoMsg
    <3>5. pc'[p] = "commit" <=> pc[p] = "commit"
      BY <1>0, <2>3, TypesAre DEF TypesApp, Send
    <3> QED
      BY <3>4, <3>5 DEF Past
  <2>4. CASE ~Committed(p) /\ ~SendRelease(p) /\ ~Send(p)
    <3>1. chan' = chan
      BY <2>4 DEF AppStep, BeginPlain, Begin, ToBarrier, Running, Contact, NoticeAbort, Granted,
         GotPlain, Refused, SetPersisting, Retry
    <3>2. pc'[p] = "commit" <=> pc[p] = "commit"
      BY <1>0, <2>4, TypesAre DEF TypesApp, AppStep, BeginPlain, Begin, ToBarrier, Running, Contact, NoticeAbort, Granted,
         GotPlain, Refused, SetPersisting, Retry
    <3> QED
      BY <3>1, <3>2 DEF Past
  <2> QED
    BY <2>1, <2>2, <2>3, <2>4
<1>5. SameOwners(a)
  <2> SUFFICES ASSUME NEW q \in Apps
               PROVE  \/ q \in Owners(a)' /\ q \in Owners(a)
                      \/ q \notin Owners(a)' /\ q \notin Owners(a)
    BY <1>0 DEF SameOwners
  <2>1. q \in Owners(a) <=> Past(d, q) /\ Buffered(Share(q, a), a)
    BY <1>1, <1>2 DEF WordIs
  <2>2. q \in Owners(a)' <=> Past(d, q)' /\ Buffered(Share(q, a), a)
    BY <1>0, <1>1, <1>2 DEF WordIs
  <2> QED
    BY <1>3, <1>4, <2>1, <2>2
<1> QED
  BY <1>0, <1>5, WordSame

\* The compare-and-swap: all the node has stored takes effect.
LEMMA CommitWord ==
  ASSUME PgasInv, PgasInv', NEW p \in Apps, SetPersisting(p), stage = "run", NEW a \in Accounts
  PROVE  Effective'[a] = After(body[p], Effective)[a]
<1>0. /\ TypeOK /\ Responsible[a] \in Dsls /\ UNCHANGED <<mem, wsets, chan>>
      /\ \A q \in Apps : Share(q, a)' = Share(q, a)
  BY PgasAssumption DEF PgasInv, Share, SetPersisting, dslVars
<1>1. WordIs(a) /\ WordIs(a)'
  BY EffectiveIs, EffectiveNext
<1>2. PICK d \in Dsls : d = Responsible[a]
  BY <1>0
<1>3. pc[p] = "body" /\ pc'[p] = "commit" /\ InAttempt(p) /\ Live(p)
  <2>1. pc[p] = "body" /\ pc'[p] = "commit"
    BY <1>0, TypesAre DEF SetPersisting, TypesApp
  <2>2. resp[p].type # "CONFLICT"
    BY <2>1 DEF PgasInv, NodeInv, Answered
  <2> QED
    BY <2>1, <2>2 DEF InAttempt, Live, SetPersisting, Aborted
<1>4. GrantedOps(p) = DOMAIN body[p] /\ \A i \in DOMAIN body[p] : i < ip[p]
  <2>1. body[p] \in Seq(Operation) /\ ip[p] \in Nat /\ ip[p] > Len(body[p])
    BY <1>0 DEF TypeOK, SetPersisting, BodyDone
  <2>2. \A i \in DOMAIN body[p] : i < ip[p]
    BY <2>1
  <2> QED
    BY <2>2 DEF GrantedOps
<1>5. ASSUME NEW q \in Apps, q # p PROVE Past(d, q)' <=> Past(d, q)
  <2>1. SameNode(q) /\ SameMail(q)
    BY <1>0, <1>5, Elsewhere DEF AppStep
  <2> QED
    BY <2>1 DEF SameNode, SameMail, Past
<1>6. \A q \in Apps : /\ q \in Owners(a) <=> Past(d, q) /\ Buffered(Share(q, a), a)
                      /\ q \in Owners(a)' <=> Past(d, q)' /\ Buffered(Share(q, a), a)
  BY <1>0, <1>1, <1>2 DEF WordIs
<1>7. CASE \E i \in DOMAIN body[p] : body[p][i].addr = a /\ body[p][i].op \in Stores
  <2>1. PICK i \in DOMAIN body[p] : body[p][i].addr = a /\ body[p][i].op \in Stores
    BY <1>7
  <2>2. HomeOf(p, i) = d /\ \A k \in DOMAIN body[p] : body[p][k].addr = a => k = i
    BY <1>2, <1>3, <2>1, GrantedTyped
  <2>3. StoredOp(p, i)
    BY <1>3, <1>4, <2>1, StoredIs DEF PgasInv, ValueInv
  <2>4. PICK v : v = IF body[p][i].op = "STORE" THEN body[p][i].val ELSE mem[a] + body[p][i].val
    OBVIOUS
  <2>5. PICK s : s = Share(p, a)
    OBVIOUS
  <2>6. Buffered(s, a) /\ \A j \in DOMAIN s : s[j].addr = a => s[j].val = v
    BY <1>2, <2>1, <2>2, <2>3, <2>4, <2>5 DEF StoredOp, Buffered, Share
  <2>7. s \in Seq(Entries) /\ writer[a] = p
    BY <1>1, <2>5, <2>6 DEF WordIs
  <2>8. Newest(s, a) = v
    BY <2>6, <2>7, NewestIs
  <2>9. p \in Owners(a)'
    BY <1>3, <1>6, <2>5, <2>6 DEF Past
  <2>10. Effective'[a] = v
    <3>1. Effective'[a] = Newest(Share(p, a), a)'
      BY <1>1, <2>9 DEF WordIs
    <3>2. Share(p, a)' = s
      BY <1>0, <2>5
    <3> QED
      BY <2>8, <3>1, <3>2 DEF Newest
  <2>11. Owners(a) = {}
    <3> SUFFICES ASSUME NEW q \in Owners(a) PROVE FALSE
      OBVIOUS
    <3>1. q = p /\ Past(d, p)
      BY <1>1, <1>6, <2>7 DEF WordIs
    <3>2. chan[d][p].type = "RMV_NODE"
      BY <1>3, <3>1 DEF Past
    <3> QED
      BY <1>3, <1>4, <2>2, <3>2, GrantedElsewhere
  <2>12. Effective[a] = mem[a]
    BY <1>1, <2>11 DEF WordIs
  <2>13. PICK o : o = body[p][CHOOSE k \in DOMAIN body[p] : body[p][k].addr = a]
    OBVIOUS
  <2>14. o = body[p][i]
    <3>1. (CHOOSE k \in DOMAIN body[p] : body[p][k].addr = a) = i
      BY <2>1, <2>2
    <3> QED
      BY <2>13, <3>1
  <2>15. After(body[p], Effective)[a] = IF o.op = "STORE" THEN o.val ELSE Effective[a] + o.val
    BY <1>7, <2>13 DEF After
  <2> QED
    BY <2>4, <2>10, <2>12, <2>14, <2>15
<1>8. CASE ~\E i \in DOMAIN body[p] : body[p][i].addr = a /\ body[p][i].op \in Stores
  <2>1. After(body[p], Effective)[a] = Effective[a]
    BY <1>8 DEF After
  <2>2. ASSUME Buffered(Share(p, a), a) PROVE Past(d, p)
    <3>1. chan[d][p].type = "RMV_NODE"
      <4>1. Own(d, p)
        BY DEF PgasInv, BufferInv
      <4>2. PICK j \in DOMAIN wsets[d][p] : wsets[d][p][j].addr = a
        BY <1>2, <2>2 DEF Buffered, Share
      <4> QED
        BY <1>3, <1>4, <1>8, <4>1, <4>2 DEF Own
    <3>2. \A i \in DOMAIN body[p] : HomeOf(p, i) # d
      BY <1>3, <1>4, <3>1, GrantedElsewhere
    <3>3. Slot(d, p)
      BY DEF PgasInv, SlotInv
    <3>4. chan[d][p].commit
      BY <3>1, <3>2, <3>3 DEF Slot, Releases
    <3> QED
      BY <3>1, <3>4 DEF Past
  <2>3. Past(d, p)'
    BY <1>3 DEF Past
  <2>4. SameOwners(a)
    <3> SUFFICES ASSUME NEW q \in Apps
                 PROVE  \/ q \in Owners(a)' /\ q \in Owners(a)
                        \/ q \notin Owners(a)' /\ q \notin Owners(a)
      BY <1>0 DEF SameOwners
    <3> QED
      BY <1>5, <1>6, <2>2, <2>3
  <2>5. Effective'[a] = Effective[a]
    BY <1>0, <2>4, WordSame
  <2> QED
    BY <2>1, <2>5
<1> QED
  BY <1>7, <1>8

\* What a node that releases, or loses, has buffered is written back by the time it is gone.
LEMMA ClearedWord ==
  ASSUME PgasInv, PgasInv', NEW e \in Dsls, NEW v \in Apps, Emptied(e, v),
         mem' = IF Past(e, v) THEN WriteBack(wsets[e][v]) ELSE mem,
         \A d \in Dsls, q \in Apps : d # e \/ q # v => (Past(d, q)' <=> Past(d, q)),
         NEW a \in Accounts
  PROVE  Effective'[a] = Effective[a]
<1>0. TypeOK /\ Responsible[a] \in Dsls
  BY PgasAssumption DEF PgasInv
<1>1. WordIs(a) /\ WordIs(a)'
  BY EffectiveIs, EffectiveNext
<1>2. PICK d \in Dsls : d = Responsible[a]
  BY <1>0
<1>3. /\ wsets'[e][v] = <<>>
      /\ \A q \in Apps : d # e \/ q # v => wsets'[d][q] = wsets[d][q]
  BY <1>0, EmptiedIs
<1>4. \A q \in Apps : d # e \/ q # v => Share(q, a)' = Share(q, a)
  BY <1>2, <1>3 DEF Share
<1>5. CASE d = e /\ v \in Owners(a)
  <2>1. Past(e, v)
    BY <1>1, <1>2, <1>5 DEF WordIs
  <2>2. mem' = WriteBack(Share(v, a))
    BY <1>2, <1>5, <2>1 DEF Share
  <2>3. ~Buffered(Share(v, a)', a)
    BY <1>2, <1>3, <1>5 DEF Share, Buffered
  <2> QED
    BY <1>4, <1>5, <2>2, <2>3, WordWritten
<1>6. CASE ~(d = e /\ v \in Owners(a))
  <2>1. mem'[a] = mem[a]
    <3>1. CASE Past(e, v) /\ mem'[a] # mem[a]
      <4>1. Buffered(wsets[e][v], a)
        BY <3>1, WriteBackChanges
      <4>2. d = e
        BY <1>2, <4>1, BufferedIs
      <4> QED
        BY <1>1, <1>2, <1>6, <3>1, <4>1, <4>2 DEF WordIs, Share
    <3> QED
      BY <3>1
  <2>2. SameOwners(a)
    <3> SUFFICES ASSUME NEW q \in Apps
                 PROVE  \/ q \in Owners(a)' /\ q \in Owners(a) /\ Share(q, a)' = Share(q, a)
                        \/ q \notin Owners(a)' /\ q \notin Owners(a)
      BY DEF SameOwners
    <3>1. CASE d = e /\ q = v
      <4>1. ~Buffered(Share(v, a)', a)
        BY <1>2, <1>3, <3>1 DEF Share, Buffered
      <4>2. q \in Owners(a)' => Buffered(Share(v, a)', a)
        BY <1>1, <3>1 DEF WordIs, Buffered
      <4> QED
        BY <1>6, <3>1, <4>1, <4>2
    <3>2. CASE ~(d = e /\ q = v)
      <4>1. Share(q, a)' = Share(q, a) /\ (Past(d, q)' <=> Past(d, q))
        BY <1>4, <3>2
      <4>2. /\ q \in Owners(a) <=> Past(d, q) /\ Buffered(Share(q, a), a)
            /\ q \in Owners(a)' <=> Past(d, q)' /\ Buffered(Share(q, a), a)
        BY <1>1, <1>2, <4>1 DEF WordIs
      <4> QED
        BY <4>1, <4>2
    <3> QED
      BY <3>1, <3>2
  <2> QED
    BY <2>1, <2>2, WordSame
<1> QED
  BY <1>5, <1>6

\* Whoever is granted a request, or refused, has nothing at the DSL node that takes effect.
LEMMA GrantingWord ==
  ASSUME PgasInv, PgasInv', NEW e \in Dsls, NEW r \in Apps, NEW m, Granting(e, r, m), NEW a \in Accounts
  PROVE  Effective'[a] = Effective[a]
<1>0. /\ TypeOK /\ m \in Request /\ Grant(e, r, m) /\ pc' = pc /\ mem' = mem /\ Responsible[a] \in Dsls
      /\ pc[r] = "wait" /\ ip[r] \in DOMAIN body[r] /\ e = Home(r)
      /\ \A c \in Dsls, q \in Apps : chan'[c][q] = chan[c][q] \/ (chan[c][q].type # "RMV_NODE" /\ chan'[c][q].type # "RMV_NODE")
  BY GrantingIs, PgasAssumption DEF PgasInv
<1>1. WordIs(a) /\ WordIs(a)'
  BY EffectiveIs, EffectiveNext
<1>2. PICK d \in Dsls : d = Responsible[a]
  BY <1>0
<1>3. \A c \in Dsls, q \in Apps : Past(c, q)' <=> Past(c, q)
  BY <1>0 DEF Past
<1>4. ~Past(e, r)
  <2>1. Slot(e, r) /\ HomeOf(r, ip[r]) = e
    BY <1>0 DEF PgasInv, SlotInv, HomeOf, Home, Op
  <2> QED
    BY <1>0, <2>1 DEF Past, Slot, Releases, InAttempt
<1>5. SameOwners(a)
  <2> SUFFICES ASSUME NEW q \in Apps
               PROVE  \/ q \in Owners(a)' /\ q \in Owners(a) /\ Share(q, a)' = Share(q, a)
                      \/ q \notin Owners(a)' /\ q \notin Owners(a)
    BY DEF SameOwners
  <2>1. CASE d = e /\ q = r
    BY <1>1, <1>2, <1>3, <1>4, <2>1 DEF WordIs
  <2>2. CASE ~(d = e /\ q = r)
    <3>1. Share(q, a)' = Share(q, a)
      BY <1>0, <1>2, <2>2, GrantIs DEF Share
    <3>2. /\ q \in Owners(a) <=> Past(d, q) /\ Buffered(Share(q, a), a)
          /\ q \in Owners(a)' <=> Past(d, q)' /\ Buffered(Share(q, a), a)
      BY <1>1, <1>2, <3>1 DEF WordIs
    <3> QED
      BY <1>3, <3>1, <3>2
  <2> QED
    BY <2>1, <2>2
<1> QED
  BY <1>0, <1>5, WordSame

LEMMA AbortWord ==
  ASSUME PgasInv, PgasInv', NEW e \in Dsls, AbortVictim(e), NEW a \in Accounts
  PROVE  Effective'[a] = Effective[a]
<1>0. TypeOK /\ HasCM /\ UNCHANGED <<pc, chan>>
  BY DEF PgasInv, DslInv, Aborting, AbortVictim, appVars
<1>1. PICK v \in Apps : Emptied(e, v) /\ mem' = IF SavesPersisting(v) THEN WriteBack(wsets[e][v]) ELSE mem
  BY <1>0, VictimTyped DEF AbortVictim
<1>2. SavesPersisting(v) <=> Past(e, v)
  <2>1. Flagged(v) /\ Waited(e, v)
    BY DEF PgasInv, NodeInv, WaitInv
  <2> QED
    BY <1>0, <2>1 DEF Flagged, Waited, Past, SavesPersisting
<1>3. \A d \in Dsls, q \in Apps : Past(d, q)' <=> Past(d, q)
  BY <1>0 DEF Past
<1>4. mem' = IF Past(e, v) THEN WriteBack(wsets[e][v]) ELSE mem
  BY <1>1, <1>2, Zenon
<1> QED
  BY <1>1, <1>3, <1>4, ClearedWord

LEMMA DslWord ==
  ASSUME PgasInv, PgasInv', NEW e \in Dsls, NEW p \in Apps, dsl_service(e, p), stage = "run", NEW a \in Accounts
  PROVE  Effective'[a] = Effective[a]
<1>0. /\ TypeOK /\ pc' = pc /\ chan' = [chan EXCEPT ![e][p] = NoMsg]
      /\ Slot(e, p) /\ Control(p)
  BY DslElsewhere, DslReplies DEF PgasInv, SlotInv, NodeInv, appVars
<1>1. /\ chan'[e][p] = NoMsg
      /\ \A d \in Dsls, q \in Apps : d # e \/ q # p => (Past(d, q)' <=> Past(d, q))
  <2>1. chan'[e][p] = NoMsg /\ \A d \in Dsls, q \in Apps : d # e \/ q # p => chan'[d][q] = chan[d][q]
    BY <1>0, TypesAre DEF TypesMsg
  <2> QED
    BY <1>0, <2>1 DEF Past
<1>2. CASE \E m : Granting(e, p, m)
  BY <1>2, GrantingWord
<1>3. CASE \E m : Reject(e, p, m)
  <2>1. chan[e][p].type \in {"LOAD", "STORE", "STORE_INC"} /\ Emptied(e, p) /\ mem' = mem
    BY <1>3 DEF Reject
  <2>2. pc[p] = "wait"
    BY <1>0, <2>1, AsksTx DEF Slot, Requested
  <2>3. ~Past(e, p)
    BY <2>1, <2>2 DEF Past
  <2>4. mem' = IF Past(e, p) THEN WriteBack(wsets[e][p]) ELSE mem
    BY <2>1, <2>3, Zenon
  <2> QED
    BY <1>1, <2>1, <2>4, ClearedWord
<1>4. CASE RemoveNode(e, p)
  <2>1. /\ chan[e][p].type = "RMV_NODE" /\ Emptied(e, p)
        /\ mem' = IF chan[e][p].commit THEN WriteBack(wsets[e][p]) ELSE mem
    BY <1>4 DEF RemoveNode
  <2>2. chan[e][p].commit <=> Past(e, p)
    BY <1>0, <2>1 DEF Past, Slot, Releases, InAttempt
  <2>3. mem' = IF Past(e, p) THEN WriteBack(wsets[e][p]) ELSE mem
    BY <2>1, <2>2, Zenon
  <2> QED
    BY <1>1, <2>1, <2>3, ClearedWord
<1>5. CASE ServeLoadNontx(e, p) \/ \E m : Contest(e, p, m)
  <2>1. UNCHANGED <<mem, wsets>> /\ chan[e][p].type # "RMV_NODE"
    BY <1>5 DEF ServeLoadNontx, Contest
  <2>2. \A d \in Dsls, q \in Apps : Past(d, q)' <=> Past(d, q)
    BY <1>0, <1>1, <2>1 DEF Past, NoMsg
  <2>3. WordIs(a) /\ WordIs(a)' /\ Responsible[a] \in Dsls
    BY EffectiveIs, EffectiveNext, PgasAssumption
  <2>4. \A q \in Apps : Share(q, a)' = Share(q, a)
    BY <2>1 DEF Share
  <2>5. SameOwners(a)
    BY <2>2, <2>3, <2>4 DEF SameOwners, WordIs
  <2> QED
    BY <2>1, <2>5, WordSame
<1>6. ~ServeStoreNontx(e, p)
  BY <1>0, NontxPlain DEF ServeStoreNontx, Control
<1> QED
  BY <1>0, <1>2, <1>3, <1>4, <1>5, <1>6, DslIs DEF Granting

LEMMA StillWord ==
  ASSUME PgasInv, PgasInv', Barrier \/ UNCHANGED vars, stage = "run", NEW a \in Accounts
  PROVE  Effective'[a] = Effective[a]
<1>1. UNCHANGED <<mem, wsets, chan>> /\ \A q \in Apps : pc'[q] = "commit" <=> pc[q] = "commit"
  <2>1. CASE Barrier
    BY <2>1 DEF Barrier, dslVars
  <2>2. CASE UNCHANGED vars
    BY <2>2 DEF vars, dslVars, appVars
  <2> QED
    BY <2>1, <2>2
<1>2. WordIs(a) /\ WordIs(a)' /\ Responsible[a] \in Dsls
  BY EffectiveIs, EffectiveNext, PgasAssumption
<1>3. \A q \in Apps : Share(q, a)' = Share(q, a) /\ (Past(Responsible[a], q)' <=> Past(Responsible[a], q))
  BY <1>1 DEF Share, Past
<1>4. SameOwners(a)
  BY <1>2, <1>3 DEF SameOwners, WordIs
<1> QED
  BY <1>1, <1>4, WordSame

\* Two functions of the accounts
LEMMA SameWords ==
  ASSUME NEW f, NEW g, f = [a \in Accounts |-> f[a]], g = [a \in Accounts |-> g[a]],
         \A a \in Accounts : f[a] = g[a]
  PROVE  f = g
<1>1. [a \in Accounts |-> f[a]] = [a \in Accounts |-> g[a]]
  OBVIOUS
<1> QED
  BY <1>1

LEMMA CommitStep ==
  ASSUME PgasInv, PgasInv', [Next]_vars, stage = "run"
  PROVE  Effective' = IF \E p \in Apps : Committing(p)
                      THEN After(body[CHOOSE p \in Apps : Committing(p)], Effective) ELSE Effective
<1>0. TypeOK
  BY DEF PgasInv
<1>1. /\ Effective = [a \in Accounts |-> Effective[a]] /\ Effective' = [a \in Accounts |-> Effective'[a]]
      /\ \A b : After(b, Effective) = [a \in Accounts |-> After(b, Effective)[a]]
  BY DEF Effective, After
<1>2. CASE \E p \in Apps : SetPersisting(p)
  <2>1. PICK p \in Apps : SetPersisting(p)
    BY <1>2
  <2>2. Committing(p) /\ \A q \in Apps : Committing(q) => q = p
    BY <1>0, <2>1, TypesAre DEF TypesApp, SetPersisting, Committing
  <2>3. (CHOOSE q \in Apps : Committing(q)) = p
    BY <2>2
  <2>4. \A a \in Accounts : Effective'[a] = After(body[p], Effective)[a]
    BY <2>1, CommitWord
  <2>5. Effective' = After(body[p], Effective)
    BY <1>1, <2>4, SameWords
  <2> QED
    BY <2>2, <2>3, <2>5
<1>3. CASE ~\E p \in Apps : SetPersisting(p)
  <2>1. \A q \in Apps : ~Committing(q)
    <3> SUFFICES ASSUME NEW q \in Apps, pc[q] = "body", pc'[q] = "commit" PROVE FALSE
      BY DEF Committing
    <3>1. CASE \E p \in Apps : AppStep(p)
      <4>1. PICK p \in Apps : AppStep(p)
        BY <3>1
      <4>2. q = p
        BY <1>0, <4>1, Elsewhere DEF SameNode
      <4> QED
        BY <1>0, <1>3, <4>1, <4>2, TypesAre DEF TypesApp, AppStep, BeginPlain, Begin, ToBarrier, Running, Contact, NoticeAbort,
           Send, InTx, Granted, GotPlain, Refused, SendRelease, Committed, Retry
    <3>2. CASE Barrier
      BY <3>2 DEF Barrier
    <3>3. CASE \E e \in Dsls : AbortVictim(e) \/ GrantContended(e)
      BY <1>0, <3>3, AbortElsewhere DEF SameNode
    <3>4. CASE \E e \in Dsls, p \in Apps : dsl_service(e, p)
      BY <1>0, <3>4, DslElsewhere DEF SameNode
    <3>5. CASE UNCHANGED vars
      BY <3>5 DEF vars, appVars
    <3> QED
      BY <3>1, <3>2, <3>3, <3>4, <3>5 DEF Next, Terminated
  <2>2. ASSUME NEW a \in Accounts PROVE Effective'[a] = Effective[a]
    <3>1. CASE \E p \in Apps : AppStep(p)
      BY <1>3, <3>1, AppWord
    <3>2. CASE Barrier \/ UNCHANGED vars
      BY <3>2, StillWord
    <3>3. CASE \E e \in Dsls : AbortVictim(e)
      BY <3>3, AbortWord
    <3>4. CASE \E e \in Dsls : GrantContended(e)
      <4>1. PICK e \in Dsls : GrantContended(e)
        BY <3>4
      <4>2. PICK r \in Apps : \E m : Granting(e, r, m)
        BY <1>0, <4>1, GrantReplies DEF Granting
      <4> QED
        BY <4>2, GrantingWord
    <3>5. CASE \E e \in Dsls, p \in Apps : dsl_service(e, p)
      BY <3>5, DslWord
    <3> QED
      BY <3>1, <3>2, <3>3, <3>4, <3>5 DEF Next, Terminated
  <2>3. Effective' = Effective
    BY <1>1, <2>2, SameWords
  <2> QED
    BY <2>1, <2>3
<1> QED
  BY <1>2, <1>3

\* A commit takes effect at the compare-and-swap and at all DSL nodes at once, and nothing else
\* changes an account: whoever writes a share back, the owner's release or the DSL node that
\* aborts it, writes what the owner has stored, and once.
THEOREM CommitsAtOnceHolds == Spec => CommitsAtOnce
<1>1. PgasInv /\ PgasInv' /\ [Next]_vars =>
        [stage = "run" =>
           Effective' = IF \E p \in Apps : Committing(p)
                        THEN After(body[CHOOSE p \in Apps : Committing(p)], Effective) ELSE Effective]_vars
  BY CommitStep
<1> QED
  BY <1>1, Inductive, PTL DEF Spec, CommitsAtOnce
-----------------------------------------------------------------------------
(* The total at the end.                                                     *)

\* Where releases are waited for, a node goes on after the DSL nodes have taken its releases.
Parked(d, p) ==
  build.platform # "TILERA" /\ chan[d][p].type = "RMV_NODE" => pc[p] \in {"commit", "abort"} /\ d \in contacted[p]

\* The transactions are over when the last stages begin.
Finished(p) == stage \in {"total", "end"} \/ (stage = "run" /\ pc[p] = "barrier") => ntx[p] = MaxTx

\* In the stage "total", ONCE loads all accounts, and no store is on its way.
Totals(p) ==
  stage = "total" => /\ pc[p] \in {"plain", "wait_plain"} => p = Once /\ body[p] = Total
                     /\ \A d \in Dsls : chan[d][p].type # "STORE_NONTX"

\* What ONCE has added up is the sum of the accounts it has loaded, as they are in the memory.
Taken(i) == {a \in Accounts : a < i - 1}
SumsUp(f) ==
  /\ stage = "total" /\ pc[Once] \in {"plain", "wait_plain"} => sum[Once] = f[Taken(ip[Once])]
  /\ stage = "end" \/ (stage = "total" /\ pc[Once] = "barrier") => sum[Once] = f[Accounts]
Summed == \A f : IsSum(Accounts, mem, f) => SumsUp(f)
ReplyIs == stage = "total" /\ pc[Once] = "wait_plain" /\ resp[Once].type = "NO_CONFLICT" =>
             resp[Once].val = mem[Op(Once).addr]
NothingToSum(p) == Size = 0 => sum[p] = 0

TotalInv == /\ \A d \in Dsls, p \in Apps : Parked(d, p)
            /\ \A p \in Apps : Finished(p) /\ Totals(p) /\ NothingToSum(p)
            /\ build.platform # "TILERA" => ReplyIs /\ Summed

LEMMA ParkedOwn ==
  ASSUME PgasInv, NEW p \in Apps, AppStep(p), NEW d \in Dsls, Parked(d, p)
  PROVE  Parked(d, p)'
<1>0. /\ TypeOK /\ Contacts(p) /\ Control(p) /\ build' = build
  BY TablesKept DEF PgasInv, NodeInv, SameTables
<1> SUFFICES ASSUME build.platform # "TILERA", chan'[d][p].type = "RMV_NODE"
             PROVE  pc'[p] \in {"commit", "abort"} /\ d \in contacted'[p]
  BY <1>0 DEF Parked
<1> USE TypesAre DEF TypesApp, TypesMsg
<1>2. CASE Committed(p) \/ Retry(p)
  <2>1. chan' = chan /\ \A e \in contacted[p] : chan[e][p] = NoMsg
    BY <1>2 DEF Committed, Retry, Released, IsProcessed
  <2>2. chan[d][p].type # "NONE" /\ d \in contacted[p]
    BY <1>0, <2>1 DEF Parked
  <2> QED
    BY <2>1, <2>2 DEF NoMsg
<1>3. CASE SendRelease(p)
  <2>1. PICK e, m : /\ e = Min(unsent[p]) /\ chan' = [chan EXCEPT ![e][p] = m]
    BY <1>3 DEF SendRelease
  <2>2. UNCHANGED <<pc, contacted>> /\ pc[p] \in {"commit", "abort"} /\ (d # e => chan'[d][p] = chan[d][p])
    BY <1>0, <1>3, <2>1 DEF SendRelease
  <2>4. e \in contacted[p]
    <3>1. unsent[p] \in SUBSET Nat /\ unsent[p] # {}
      BY <1>0, <1>3, PgasAssumption DEF SendRelease
    <3>2. e \in unsent[p]
      BY <2>1, <3>1, MinIn
    <3> QED
      BY <1>0, <2>2, <3>2 DEF Contacts
  <2> QED
    BY <1>0, <2>2, <2>4 DEF Parked
<1>4. CASE Send(p)
  <2>1. PICK m, e : /\ m = [type |-> Op(p).op, addr |-> Op(p).addr, val |-> Op(p).val, meta |-> prio[p]]
                    /\ e = Home(p) /\ chan' = [chan EXCEPT ![e][p] = m]
    BY <1>4 DEF Send
  <2>2. /\ d # e => chan'[d][p] = chan[d][p]
        /\ d = e => chan'[d][p] = m
        /\ pc[p] \in {"send", "plain"}
    BY <1>0, <1>4, <2>1 DEF Send
  <2>3. m.type # "RMV_NODE"
    <3>1. ip[p] \in DOMAIN body[p]
      BY <1>0, <1>4, NextOp DEF Control, Send
    <3> QED
      BY <1>0, <2>1, <3>1, OpTyped
  <2> QED
    BY <1>0, <2>2, <2>3 DEF Parked
<1>5. CASE ~(Committed(p) \/ Retry(p) \/ SendRelease(p) \/ Send(p))
  <2>1. chan' = chan
    BY <1>5 DEF AppStep, BeginPlain, Begin, ToBarrier, Running, Contact, NoticeAbort, Granted,
       GotPlain, Refused, SetPersisting
  <2>2. pc[p] \in {"commit", "abort"}
    BY <1>0, <2>1 DEF Parked
  <2> QED
    BY <1>5, <2>2 DEF AppStep, BeginPlain, Begin, ToBarrier, Running, Contact, NoticeAbort, Granted,
       GotPlain, Refused, SetPersisting
<1> QED
  BY <1>2, <1>3, <1>4, <1>5

LEMMA ParkedStep ==
  ASSUME PgasInv, [Next]_vars, NEW d \in Dsls, NEW q \in Apps, Parked(d, q)
  PROVE  Parked(d, q)'
<1>0. TypeOK
  BY DEF PgasInv
<1>1. ASSUME build' = build, SameNode(q), chan'[d][q] = chan[d][q] \/ chan'[d][q] = NoMsg
      PROVE  Parked(d, q)'
  BY <1>1 DEF Parked, SameNode, NoMsg
<1>2. CASE \E p \in Apps : AppStep(p)
  <2>1. PICK p \in Apps : AppStep(p)
    BY <1>2
  <2>2. CASE q # p
    BY <1>0, <1>1, <2>1, <2>2, Elsewhere, TablesKept DEF SameTables, SameMail
  <2> QED
    BY <2>1, <2>2, ParkedOwn
<1>3. CASE Barrier
  <2>1. UNCHANGED <<build, chan>> /\ pc[q] = "barrier"
    BY <1>3 DEF Barrier
  <2> QED
    BY <2>1 DEF Parked
<1>4. CASE UNCHANGED vars
  BY <1>1, <1>4 DEF vars, appVars, SameNode
<1>5. CASE \E e \in Dsls : AbortVictim(e) \/ GrantContended(e)
  BY <1>0, <1>1, <1>5, AbortElsewhere
<1>6. CASE \E e \in Dsls, p \in Apps : dsl_service(e, p)
  <2>1. PICK e \in Dsls, p \in Apps : dsl_service(e, p)
    BY <1>6
  <2>2. build' = build /\ SameNode(q) /\ chan' = [chan EXCEPT ![e][p] = NoMsg]
    BY <1>0, <2>1, DslElsewhere, DslReplies
  <2>3. chan'[d][q] = chan[d][q] \/ chan'[d][q] = NoMsg
    BY <1>0, <2>2, TypesAre DEF TypesMsg
  <2> QED
    BY <1>1, <2>2, <2>3
<1> QED
  BY <1>2, <1>3, <1>4, <1>5, <1>6 DEF Next, Terminated

LEMMA FinishedStep ==
  ASSUME PgasInv, [Next]_vars, NEW q \in Apps, Finished(q)
  PROVE  Finished(q)'
<1>0. TypeOK /\ Control(q)
  BY DEF PgasInv, NodeInv
<1>1. ASSUME SameNode(q), stage' = stage
      PROVE  Finished(q)'
  BY <1>1 DEF Finished, SameNode
<1>2. CASE \E p \in Apps : AppStep(p)
  <2>1. PICK p \in Apps : AppStep(p)
    BY <1>2
  <2>2. stage' = stage
    BY <2>1, TablesKept DEF SameTables
  <2>3. CASE q # p
    BY <1>0, <1>1, <2>1, <2>2, <2>3, Elsewhere
  <2>4. CASE ToBarrier(q)
    BY <2>2, <2>4, <1>0 DEF ToBarrier, Finished, Control
  <2>5. CASE Committed(q)
    BY <2>2, <2>5, <1>0, TypesAre DEF Committed, Finished, Control, TypesApp
  <2>6. CASE ~ToBarrier(p) /\ ~Committed(p) /\ p = q
    <3>1. ntx'[q] = ntx[q] /\ (pc'[q] = "barrier" => pc[q] = "barrier")
      BY <2>1, <2>6, <1>0, TypesAre DEF TypesApp, AppStep, BeginPlain, Begin, Running, Contact, NoticeAbort, Send, Granted,
         GotPlain, Refused, SetPersisting, SendRelease, Retry
    <3> QED
      BY <2>2, <3>1 DEF Finished
  <2> QED
    BY <2>1, <2>3, <2>4, <2>5, <2>6
<1>3. CASE Barrier
  BY <1>3, <1>0 DEF Barrier, Finished, TypeOK, Control
<1>4. CASE UNCHANGED vars
  BY <1>1, <1>4 DEF vars, appVars, SameNode
<1>5. CASE \E e \in Dsls : AbortVictim(e) \/ GrantContended(e)
  BY <1>0, <1>1, <1>5, AbortElsewhere
<1>6. CASE \E e \in Dsls, p \in Apps : dsl_service(e, p)
  BY <1>0, <1>1, <1>6, DslElsewhere
<1> QED
  BY <1>2, <1>3, <1>4, <1>5, <1>6 DEF Next, Terminated
\* What a node runs outside transactions in the stage "total"
LEMMA PlainTotal ==
  ASSUME stage = "total", NEW p \in Apps, Plain(p) # << >>
  PROVE  p = Once /\ Plain(p) = Total
BY DEF Plain

LEMMA TotalLoads ==
  /\ Total \in Seq(Operation) /\ DOMAIN Total = 1 .. Size /\ Len(Total) = Size
  /\ \A i \in 1 .. Size : Total[i].op = "LOAD_NONTX" /\ Total[i].addr = i - 1
BY EachTyped DEF Total

LEMMA TotalsStep ==
  ASSUME PgasInv, [Next]_vars, NEW q \in Apps, Totals(q)
  PROVE  Totals(q)'
<1>0. TypeOK /\ Control(q) /\ \A d \in Dsls : LoadFollows(d, q)
  BY DEF PgasInv, NodeInv, SlotInv, Slot
<1>1. ASSUME SameNode(q), stage' = stage, \A d \in Dsls : chan'[d][q] = NoMsg \/ chan'[d][q] = chan[d][q]
      PROVE  Totals(q)'
  <2>1. \A d \in Dsls : chan'[d][q].type = "STORE_NONTX" => chan[d][q].type = "STORE_NONTX"
    BY <1>1 DEF NoMsg
  <2> QED
    BY <1>1, <2>1 DEF Totals, SameNode
<1>2. CASE \E p \in Apps : AppStep(p)
  <2>1. PICK p \in Apps : AppStep(p)
    BY <1>2
  <2>2. stage' = stage
    BY <2>1, TablesKept DEF SameTables
  <2>3. CASE q # p
    <3>1. SameNode(q) /\ \A d \in Dsls : chan'[d][q] = chan[d][q]
      BY <1>0, <2>1, <2>3, Elsewhere DEF SameMail
    <3> QED
      BY <3>1, <2>2, <1>1
  <2>4. CASE q = p /\ stage = "total"
    <3>0. pc[p] \in {"idle", "plain", "wait_plain", "barrier"}
      BY <1>0, <2>4 DEF Control
    <3>1. CASE BeginPlain(p)
      <4>1. Plain(p) # << >> /\ body'[p] = Plain(p) /\ chan' = chan
        BY <1>0, <3>1, TypesAre DEF BeginPlain, TypesApp
      <4> QED
        BY <4>1, <2>2, <2>4, PlainTotal DEF Totals, Total, Each
    <3>2. CASE Send(p)
      <4>1. pc[p] = "plain" /\ ip[p] \in DOMAIN body[p] /\ p = Once /\ body[p] = Total
        BY <1>0, <3>0, <3>2, <2>4, NextOp DEF Send, Totals
      <4>2. Op(p).op = "LOAD_NONTX"
        BY <4>1, TotalLoads DEF Op
      <4>3. PICK e, m : m.type = "LOAD_NONTX" /\ chan' = [chan EXCEPT ![e][p] = m]
        BY <3>2, <4>2 DEF Send
      <4>4. body'[p] = body[p] /\ \A d \in Dsls : chan'[d][p].type # "STORE_NONTX"
        BY <1>0, <3>2, <4>3, <2>4, TypesAre DEF Send, Totals, TypesMsg
      <4> QED
        BY <4>1, <4>4, <2>4 DEF Totals, Total, Each
    <3>3. CASE ~BeginPlain(p) /\ ~Send(p)
      <4>1. chan' = chan /\ body'[p] = body[p] /\ (pc'[p] \in {"plain", "wait_plain"} => pc[p] \in {"plain", "wait_plain"})
        <5>1. ToBarrier(p) \/ GotPlain(p)
          BY <2>1, <2>4, <3>0, <3>3 DEF AppStep, Begin, Running, Contact, NoticeAbort, Granted, Refused, SetPersisting,
             SendRelease, Committed, Retry
        <5> QED
          BY <5>1, <1>0, TypesAre DEF ToBarrier, GotPlain, TypesApp
      <4> QED
        BY <4>1, <2>4 DEF Totals, Total, Each
    <3> QED
      BY <3>1, <3>2, <3>3
  <2> QED
    BY <2>2, <2>3, <2>4 DEF Totals
<1>3. CASE Barrier
  <2>1. pc[q] = "barrier" /\ chan' = chan
    BY <1>3 DEF Barrier
  <2>2. stage' = "total" => pc'[q] = "idle"
    BY <1>3, <1>0 DEF Barrier, Control
  <2>3. \A d \in Dsls : chan[d][q].type # "STORE_NONTX"
    BY <1>0, <2>1 DEF LoadFollows
  <2> QED
    BY <2>1, <2>2, <2>3 DEF Totals
<1>4. CASE UNCHANGED vars
  <2>1. SameNode(q) /\ stage' = stage /\ chan' = chan
    BY <1>4 DEF vars, appVars, SameNode
  <2> QED
    BY <2>1, <1>1
<1>5. CASE \E e \in Dsls : AbortVictim(e) \/ GrantContended(e)
  <2>1. SameNode(q) /\ stage' = stage /\ chan' = chan
    BY <1>0, <1>5, AbortElsewhere
  <2> QED
    BY <2>1, <1>1
<1>6. CASE \E e \in Dsls, p \in Apps : dsl_service(e, p)
  <2>1. PICK e \in Dsls, p \in Apps : dsl_service(e, p)
    BY <1>6
  <2>2. stage' = stage /\ SameNode(q) /\ chan' = [chan EXCEPT ![e][p] = NoMsg]
    BY <1>0, <2>1, DslElsewhere, DslReplies
  <2>3. \A d \in Dsls : chan'[d][q] = NoMsg \/ chan'[d][q] = chan[d][q]
    BY <1>0, <2>2, TypesAre DEF TypesMsg
  <2> QED
    BY <2>2, <2>3, <1>1
<1> QED
  BY <1>2, <1>3, <1>4, <1>5, <1>6 DEF Next, Terminated

LEMMA NothingToSumStep ==
  ASSUME PgasInv, [Next]_vars, NEW q \in Apps, NothingToSum(q)
  PROVE  NothingToSum(q)'
<1>0. TypeOK /\ Control(q)
  BY DEF PgasInv, NodeInv
<1>1. CASE \E p \in Apps : AppStep(p)
  <2>1. PICK p \in Apps : AppStep(p)
    BY <1>1
  <2>2. CASE GotPlain(q)
    <3>1. ip[q] \in DOMAIN body[q]
      BY <1>0, <2>2 DEF GotPlain, Control
    <3>2. Op(q).addr \in 0 .. Size - 1
      BY <1>0, <3>1, OpTyped DEF Accounts
    <3>3. Size # 0
      BY <3>2
    <3> QED
      BY <3>3 DEF NothingToSum
  <2>3. CASE ~GotPlain(q)
    <3>1. sum'[q] = sum[q] \/ sum'[q] = 0
      BY <1>0, <2>1, <2>3, TypesAre DEF TypesApp, AppStep, BeginPlain, Begin, ToBarrier, Running, Contact, NoticeAbort, Send,
         Granted, GotPlain, Refused, SetPersisting, SendRelease, Committed, Retry
    <3> QED
      BY <3>1 DEF NothingToSum
  <2> QED
    BY <2>2, <2>3
<1>2. CASE Barrier \/ UNCHANGED vars
  BY <1>2 DEF Barrier, vars, appVars, NothingToSum
<1>3. CASE \E e \in Dsls : AbortVictim(e) \/ GrantContended(e)
  BY <1>0, <1>3, AbortElsewhere DEF appVars, NothingToSum
<1>4. CASE \E e \in Dsls, p \in Apps : dsl_service(e, p)
  BY <1>0, <1>4, DslElsewhere DEF appVars, NothingToSum
<1> QED
  BY <1>1, <1>2, <1>3, <1>4 DEF Next, Terminated

\* In the last stages no DSL node is at work on a transaction, and none has a release to take.
LEMMA AtRest ==
  ASSUME PgasInv, TotalInv, stage \in {"total", "end"}, build.platform # "TILERA"
  PROVE  /\ \A d \in Dsls : Idle(d)
         /\ \A d \in Dsls, p \in Apps : chan[d][p].type \in {"NONE", "LOAD_NONTX"}
<1>0. TypeOK /\ \A p \in Apps : Control(p) /\ pc[p] \in {"idle", "plain", "wait_plain", "barrier", "end"}
  BY DEF PgasInv, NodeInv, Control
<1>1. ASSUME NEW d \in Dsls PROVE Idle(d)
  <2>1. CASE ~Idle(d)
    <3>1. serving[d] \in [app : Apps, req : Request]
      BY <1>0, <2>1 DEF TypeOK, Idle
    <3>2. PICK p \in Apps, m \in Request : p = serving[d].app /\ m = serving[d].req
      BY <3>1
    <3>3. Asks(p, d, m)
      BY <2>1, <3>2 DEF PgasInv, DslInv, Served
    <3>4. m.type \in {"LOAD", "STORE", "STORE_INC"}
      BY <3>2 DEF Request
    <3>5. pc[p] = "wait"
      BY <1>0, <3>3, <3>4, AsksTx
    <3> QED
      BY <1>0, <3>5
  <2> QED
    BY <2>1
<1>2. ASSUME NEW d \in Dsls, NEW p \in Apps PROVE chan[d][p].type \in {"NONE", "LOAD_NONTX"}
  <2>1. chan[d][p].type # "RMV_NODE"
    BY <1>0 DEF TotalInv, Parked
  <2>2. chan[d][p].type # "STORE_NONTX"
    <3>1. stage = "total" => chan[d][p].type # "STORE_NONTX"
      BY DEF TotalInv, Totals
    <3>2. chan[d][p].type = "STORE_NONTX" => pc[p] \in {"plain", "wait_plain"}
      BY NontxPlain
    <3> QED
      BY <3>1, <3>2, <1>0 DEF Control
  <2>3. chan[d][p].type \notin {"LOAD", "STORE", "STORE_INC"}
    <3>1. SUFFICES ASSUME chan[d][p].type \in {"LOAD", "STORE", "STORE_INC"} PROVE FALSE
      OBVIOUS
    <3>2. Asks(p, d, chan[d][p])
      BY <3>1 DEF PgasInv, SlotInv, Slot, Requested
    <3>3. pc[p] = "wait"
      BY <1>0, <3>1, <3>2, AsksTx
    <3> QED
      BY <1>0, <3>3
  <2> QED
    BY <1>0, <2>1, <2>2, <2>3, MessageTyped
<1> QED
  BY <1>1, <1>2
-----------------------------------------------------------------------------
(* The sum of the accounts.                                                  *)

Worth(m) == FoldSet(LAMBDA a, s : s + m[a], 0, Accounts)
WorthStep(m, f) ==
  f = [s \in SUBSET Accounts |-> IF s = {} THEN 0 ELSE LET a == CHOOSE x \in s : TRUE IN f[s \ {a}] + m[a]]

LEMMA WorthUnfold ==
  ASSUME NEW m
  PROVE  Worth(m) = (CHOOSE f : WorthStep(m, f))[Accounts]
BY Zenon DEF Worth, FoldSet, MapThenFoldSet, WorthStep

LEMMA AccountsFinite == IsFiniteSet(Accounts)
BY PgasAssumption, FS_Interval DEF Accounts

LEMMA WorthIs ==
  ASSUME NEW m \in [Accounts -> Int], NEW f, IsSum(Accounts, m, f)
  PROVE  Worth(m) = f[Accounts]
<1>1. PICK h : h = [s \in SUBSET Accounts |-> f[s]]
  OBVIOUS
<1>2. WorthStep(m, h)
  <2>1. ASSUME NEW s \in SUBSET Accounts
        PROVE  h[s] = IF s = {} THEN 0 ELSE LET a == CHOOSE x \in s : TRUE IN h[s \ {a}] + m[a]
    <3>1. CASE s = {}
      BY <1>1, <3>1 DEF IsSum
    <3>2. CASE s # {}
      <4>1. PICK c : c = CHOOSE x \in s : TRUE
        OBVIOUS
      <4>2. c \in s /\ c \in Accounts
        BY <4>1, <3>2, <2>1
      <4>3. f[s] = m[c] + f[s \ {c}] /\ f[s \ {c}] \in Int /\ m[c] \in Int
        BY <4>2, <2>1 DEF IsSum
      <4>4. h[s] = h[s \ {c}] + m[c]
        BY <4>3, <1>1, <2>1
      <4> QED
        BY <4>1, <4>4, <3>2
    <3> QED
      BY <3>1, <3>2
  <2> QED
    BY <2>1, <1>1, Zenon DEF WorthStep
<1>3. PICK g : g = CHOOSE x : WorthStep(m, x)
  OBVIOUS
<1>4. WorthStep(m, g)
  BY <1>2, <1>3, Zenon
<1>5. ASSUME NEW s \in SUBSET Accounts, s # {}
      PROVE  \E x \in s : g[s \ {x}] = f[s \ {x}] => g[s] = f[s]
  <2>1. g[s] = g[s \ {CHOOSE x \in s : TRUE}] + m[CHOOSE x \in s : TRUE]
    BY <1>4, <1>5 DEF WorthStep
  <2>2. PICK x \in s : g[s] = g[s \ {x}] + m[x]
    BY <2>1, <1>5
  <2>3. f[s] = m[x] + f[s \ {x}] /\ m[x] \in Int /\ f[s \ {x}] \in Int
    BY <1>5 DEF IsSum
  <2>4. f[s] = f[s \ {x}] + m[x]
    BY <2>3
  <2>5. g[s \ {x}] = f[s \ {x}] => g[s] = f[s]
    BY <2>2, <2>4
  <2> QED
    BY <2>5
<1>6. g[{}] = f[{}]
  BY <1>4 DEF WorthStep, IsSum
<1>7. g[Accounts] = f[Accounts]
  BY <1>5, <1>6, AccountsFinite, SameFold
<1> QED
  BY <1>3, <1>7, WorthUnfold

\* What an operation of the total adds
LEMMA TakenNext ==
  ASSUME NEW f, IsSum(Accounts, mem, f), mem \in [Accounts -> Int], NEW i \in 1 .. Size
  PROVE  f[Taken(i + 1)] = f[Taken(i)] + mem[i - 1]
<1>0. Size \in Nat
  BY PgasAssumption
<1>1. i - 1 \in Accounts /\ i - 1 \in Taken(i + 1)
  BY <1>0 DEF Accounts, Taken
<1>2. Taken(i + 1) \ {i - 1} = Taken(i)
  BY <1>0 DEF Accounts, Taken
<1>3. Taken(i + 1) \in SUBSET Accounts /\ Taken(i) \in SUBSET Accounts
  BY DEF Taken
<1>4. f[Taken(i + 1)] = mem[i - 1] + f[Taken(i)]
  BY <1>1, <1>2, <1>3 DEF IsSum
<1>5. mem[i - 1] \in Int /\ f[Taken(i)] \in Int
  BY <1>1, <1>3 DEF IsSum
<1> QED
  BY <1>4, <1>5

LEMMA TakenEnds ==
  /\ Taken(1) = {}
  /\ \A i \in Nat : i > Size => Taken(i) = Accounts
BY PgasAssumption DEF Taken, Accounts

\* The memory does not change any more.
LEMMA MemAtRest ==
  ASSUME PgasInv, TotalInv, [Next]_vars, stage \in {"total", "end"}, build.platform # "TILERA"
  PROVE  mem' = mem
<1>0. TypeOK /\ (\A d \in Dsls : Idle(d)) /\ \A d \in Dsls, p \in Apps : chan[d][p].type \in {"NONE", "LOAD_NONTX"}
  BY AtRest DEF PgasInv
<1>1. CASE \E p \in Apps : AppStep(p)
  BY <1>1, TablesKept DEF SameTables
<1>2. CASE Barrier \/ UNCHANGED vars
  BY <1>2 DEF Barrier, vars, dslVars
<1>3. CASE \E d \in Dsls : AbortVictim(d) \/ GrantContended(d)
  BY <1>0, <1>3 DEF AbortVictim, GrantContended
<1>4. CASE \E d \in Dsls, p \in Apps : dsl_service(d, p)
  <2>1. PICK d \in Dsls, p \in Apps : dsl_service(d, p)
    BY <1>4
  <2>2. ~ServeStoreNontx(d, p) /\ ~RemoveNode(d, p)
    BY <1>0 DEF ServeStoreNontx, RemoveNode
  <2> QED
    BY <1>0, <2>1, <2>2, DslIs DEF Accept, Contest, Reject, ServeLoadNontx
<1> QED
  BY <1>1, <1>2, <1>3, <1>4 DEF Next, Terminated

\* The reply that ONCE adds up is what the memory holds.
LEMMA ReplyIsStep ==
  ASSUME PgasInv, TotalInv, [Next]_vars, build.platform # "TILERA"
  PROVE  ReplyIs'
<1>0. TypeOK /\ ReplyIs /\ Once \in Apps /\ Control(Once) /\ Answered(Once) /\ \A d \in Dsls : Slot(d, Once)
  BY OnceTyped DEF PgasInv, NodeInv, SlotInv, TotalInv
<1>a. PICK q \in Apps : q = Once
  BY <1>0
<1> DEFINE Good == stage = "total" /\ pc[q] = "wait_plain" /\ resp[q].type = "NO_CONFLICT" =>
                     resp[q].val = mem[body[q][ip[q]].addr]
<1>b. (ReplyIs <=> Good) /\ (ReplyIs' <=> Good')
  BY <1>a DEF ReplyIs, Op, Once
<1> SUFFICES Good'
  BY <1>b
<1>1. ASSUME SameNode(q), stage' = stage, resp'[q] = resp[q]
      PROVE  Good'
  <2>1. stage = "total" => mem' = mem
    BY MemAtRest
  <2> QED
    BY <2>1, <1>0, <1>1, <1>b DEF SameNode
<1>2. CASE \E p \in Apps : AppStep(p)
  <2>1. PICK p \in Apps : AppStep(p)
    BY <1>2
  <2>2. stage' = stage
    BY <2>1, TablesKept DEF SameTables
  <2>3. CASE q # p
    <3>1. SameNode(q) /\ resp'[q] = resp[q]
      BY <1>0, <2>1, <2>3, Elsewhere DEF SameMail
    <3> QED
      BY <3>1, <2>2, <1>1
  <2>4. CASE q = p
    <3>1. CASE pc'[q] = "wait_plain" /\ resp'[q].type = "NO_CONFLICT"
      <4>1. Send(q)
        BY <2>1, <2>4, <3>1, <1>0, TypesAre DEF TypesApp, TypesMsg, AppStep, BeginPlain, Begin, ToBarrier, Running, Contact,
           NoticeAbort, Granted, GotPlain, Refused, SetPersisting, SendRelease, Committed, Retry
      <4>2. resp'[q] = resp[q] /\ pc[q] \in {"send", "plain"}
        BY <4>1 DEF Send
      <4> QED
        BY <4>2, <3>1, <1>0, <1>a DEF Answered, NoResp
    <3> QED
      BY <3>1
  <2> QED
    BY <2>3, <2>4
<1>3. CASE Barrier
  <2>1. pc'[q] # "wait_plain"
    BY <1>3, <1>0 DEF Barrier
  <2> QED
    BY <2>1
<1>4. CASE UNCHANGED vars
  BY <1>4, <1>1 DEF vars, appVars, SameNode
<1>5. CASE \E e \in Dsls : AbortVictim(e) \/ GrantContended(e)
  <2>1. PICK e \in Dsls : AbortVictim(e) \/ GrantContended(e)
    BY <1>5
  <2>2. stage' = stage /\ SameNode(q)
    BY <1>0, <2>1, AbortElsewhere
  <2>3. stage = "total" => Idle(e)
    BY AtRest
  <2>4. ~Idle(e)
    BY <2>1 DEF AbortVictim, GrantContended
  <2> QED
    BY <2>2, <2>3, <2>4
<1>6. CASE \E e \in Dsls, p \in Apps : dsl_service(e, p)
  <2>1. PICK e \in Dsls, p \in Apps : dsl_service(e, p)
    BY <1>6
  <2>2. stage' = stage /\ SameNode(q) /\ (p # q => resp'[q] = resp[q])
    BY <1>0, <2>1, DslElsewhere DEF SameMail
  <2>3. CASE p = q /\ ServeLoadNontx(e, q) /\ stage = "total"
    <3>1. mem' = mem
      BY <2>3, MemAtRest
    <3>2. resp'[q] = [type |-> "NO_CONFLICT", val |-> mem[chan[e][q].addr]]
      BY <1>0, <2>3, TypesAre DEF ServeLoadNontx, TypesMsg
    <3>3. chan[e][q].type = "LOAD_NONTX"
      BY <2>3 DEF ServeLoadNontx
    <3>4. chan[e][q].addr = body[q][ip[q]].addr
      BY <1>0, <1>a, <3>3 DEF Slot, Requested, Asks, Op
    <3> QED
      BY <2>2, <3>1, <3>2, <3>4 DEF SameNode
  <2>4. CASE p = q /\ ~ServeLoadNontx(e, q) /\ stage = "total"
    <3>1. chan[e][q].type \in {"NONE", "LOAD_NONTX"}
      BY <2>4, AtRest
    <3>2. FALSE
      BY <1>0, <2>1, <2>4, <3>1, DslIs DEF Accept, Contest, Reject, ServeStoreNontx, RemoveNode
    <3> QED
      BY <3>2
  <2> QED
    BY <2>2, <2>3, <2>4, <1>1
<1> QED
  BY <1>2, <1>3, <1>4, <1>5, <1>6 DEF Next, Terminated
LEMMA SummedOwn ==
  ASSUME PgasInv, TotalInv, [Next]_vars, stage = "total", build.platform # "TILERA",
         NEW p, p = Once, AppStep(p), NEW f, IsSum(Accounts, mem, f), SumsUp(f)
  PROVE  SumsUp(f)'
<1>0. TypeOK /\ p \in Apps /\ Control(p) /\ Totals(p) /\ NothingToSum(p) /\ stage' = stage
  BY OnceTyped, TablesKept DEF PgasInv, NodeInv, TotalInv, SameTables
<1>1. mem \in [Accounts -> Int] /\ Size \in Nat /\ ip[p] \in Nat \ {0} /\ body[p] \in Seq(Operation) /\ sum[p] \in Int
  BY <1>0, PgasAssumption DEF TypeOK
<1>2. f[{}] = 0 /\ f[Taken(1)] = 0
  BY TakenEnds DEF IsSum
<1>3. pc[p] \in {"idle", "plain", "wait_plain", "barrier"}
  BY <1>0 DEF Control
<1> DEFINE Goal == /\ pc'[p] \in {"plain", "wait_plain"} => sum'[p] = f[Taken(ip'[p])]
                   /\ pc'[p] = "barrier" => sum'[p] = f[Accounts]
<1>4. pc[p] \in {"plain", "wait_plain"} => sum[p] = f[Taken(ip[p])]
  BY DEF SumsUp
<1>5. SUFFICES Goal
  BY <1>0 DEF SumsUp, Once
<1> USE TypesAre DEF TypesApp
<1>6. CASE BeginPlain(p)
  <2>1. pc'[p] = "plain" /\ ip'[p] = 1 /\ sum'[p] = 0
    BY <1>0, <1>6 DEF BeginPlain, Control
  <2> QED
    BY <2>1, <1>2
<1>7. CASE ToBarrier(p)
  <2>1. pc'[p] = "barrier" /\ sum'[p] = sum[p]
    BY <1>0, <1>7 DEF ToBarrier
  <2>2. CASE pc[p] = "idle"
    <3>1. Total = << >>
      BY <1>7, <2>2 DEF ToBarrier, Plain
    <3>2. Size = 0
      BY <3>1, TotalLoads
    <3>3. Accounts = {} /\ sum[p] = 0
      BY <3>2, <1>0 DEF Accounts, NothingToSum
    <3> QED
      BY <3>3, <2>1, <1>2
  <2>3. CASE pc[p] = "plain"
    <3>1. ip[p] > Size
      BY <1>0, <1>7, <2>3, TotalLoads DEF ToBarrier, Totals
    <3>2. Taken(ip[p]) = Accounts
      BY <3>1, <1>1, TakenEnds
    <3> QED
      BY <3>2, <2>1, <2>3, <1>4
  <2> QED
    BY <1>7, <2>2, <2>3 DEF ToBarrier
<1>8. CASE Send(p)
  <2>1. pc[p] = "plain" /\ ip[p] \in DOMAIN body[p] /\ body[p] = Total
    BY <1>0, <1>3, <1>8, NextOp DEF Send, Totals
  <2>2. Op(p).op = "LOAD_NONTX"
    BY <2>1, TotalLoads DEF Op
  <2>3. pc'[p] = "wait_plain" /\ ip'[p] = ip[p] /\ sum'[p] = sum[p]
    BY <1>0, <1>8, <2>2 DEF Send, InTx
  <2> QED
    BY <2>1, <2>3, <1>4
<1>9. CASE GotPlain(p)
  <2>1. pc[p] = "wait_plain" /\ pc'[p] = "plain" /\ ip'[p] = ip[p] + 1 /\ sum'[p] = sum[p] + resp[p].val
        /\ resp[p].type = "NO_CONFLICT"
    BY <1>0, <1>9 DEF GotPlain
  <2>2. ip[p] \in 1 .. Size /\ Op(p).addr = ip[p] - 1
    BY <2>1, <1>0, TotalLoads DEF Totals, Control, Op
  <2>3. resp[p].val = mem[ip[p] - 1]
    BY <2>1, <2>2 DEF TotalInv, ReplyIs
  <2>4. PICK i \in 1 .. Size : i = ip[p]
    BY <2>2
  <2>5. f[Taken(i + 1)] = f[Taken(i)] + mem[i - 1]
    BY <1>1, TakenNext
  <2>6. sum'[p] = f[Taken(i)] + mem[i - 1]
    BY <2>1, <2>3, <2>4, <1>4
  <2> QED
    BY <2>1, <2>4, <2>5, <2>6
<1>10. CASE ~(BeginPlain(p) \/ ToBarrier(p) \/ Send(p) \/ GotPlain(p))
  BY <1>0, <1>3, <1>10 DEF AppStep, Begin, Running, Contact, NoticeAbort, Granted, Refused, SetPersisting,
     SendRelease, Committed, Retry
<1> QED
  BY <1>6, <1>7, <1>8, <1>9, <1>10

LEMMA SummedStep ==
  ASSUME PgasInv, TotalInv, [Next]_vars, build.platform # "TILERA"
  PROVE  Summed'
<1>0. TypeOK /\ Once \in Apps /\ Control(Once)
  BY OnceTyped DEF PgasInv, NodeInv
<1>1. SUFFICES ASSUME NEW f, IsSum(Accounts, mem', f) PROVE SumsUp(f)'
  BY DEF Summed
<1>2. CASE stage \in {"total", "end"}
  <2>1. mem' = mem /\ SumsUp(f)
    <3>1. mem' = mem
      BY <1>2, MemAtRest
    <3> QED
      BY <3>1, <1>1 DEF TotalInv, Summed
  <2>2. ASSUME UNCHANGED <<stage, pc, ip, sum>>
        PROVE  SumsUp(f)'
    BY <2>1, <2>2 DEF SumsUp, Once
  <2>3. CASE \E p \in Apps : AppStep(p)
    <3>1. PICK p \in Apps : AppStep(p)
      BY <2>3
    <3>2. CASE stage = "end"
      <4>1. pc[p] = "end"
        BY <3>2 DEF PgasInv, NodeInv, Control
      <4>2. FALSE
        BY <3>1, <4>1 DEF AppStep, BeginPlain, Begin, ToBarrier, Running, Contact, NoticeAbort, Send, Granted,
           GotPlain, Refused, SetPersisting, SendRelease, Committed, Retry
      <4> QED
        BY <4>2
    <3>3. CASE stage = "total" /\ p = Once
      BY <1>1, <2>1, <3>1, <3>3, SummedOwn
    <3>4. CASE p # Once
      <4>1. PICK q \in Apps : q = Once
        BY <1>0
      <4>2. SameNode(q)
        BY <1>0, <3>1, <3>4, <4>1, Elsewhere
      <4>3. sum'[q] = sum[q]
        BY <1>0, <3>1, <3>4, <4>1, TypesAre DEF TypesApp, AppStep, BeginPlain, Begin, ToBarrier, Running, Contact, NoticeAbort,
           Send, Granted, GotPlain, Refused, SetPersisting, SendRelease, Committed, Retry
      <4>4. stage' = stage
        BY <3>1, TablesKept DEF SameTables
      <4> QED
        BY <2>1, <4>1, <4>2, <4>3, <4>4 DEF SumsUp, SameNode, Once
    <3> QED
      BY <1>2, <3>2, <3>3, <3>4
  <2>4. CASE Barrier
    <3>1. pc[Once] = "barrier" /\ sum' = sum /\ stage = "total"
      BY <1>0, <1>2, <2>4 DEF Barrier, Control
    <3>2. stage' = "end"
      BY <2>4, <3>1 DEF Barrier
    <3> QED
      BY <2>1, <3>1, <3>2 DEF SumsUp, Once
  <2>5. CASE UNCHANGED vars
    BY <2>2, <2>5 DEF vars, appVars
  <2>6. CASE \E e \in Dsls : AbortVictim(e) \/ GrantContended(e)
    BY <1>0, <2>2, <2>6, AbortElsewhere DEF appVars
  <2>7. CASE \E e \in Dsls, p \in Apps : dsl_service(e, p)
    BY <1>0, <2>2, <2>7, DslElsewhere DEF appVars
  <2> QED
    BY <2>3, <2>4, <2>5, <2>6, <2>7 DEF Next, Terminated
<1>3. CASE stage \notin {"total", "end"}
  <2>1. CASE Barrier
    <3>1. stage' # "end" /\ (stage' = "total" => pc'[Once] = "idle")
      BY <1>0, <1>3, <2>1 DEF Barrier, TypeOK
    <3> QED
      BY <3>1 DEF SumsUp, Once
  <2>2. CASE ~Barrier
    <3>1. stage' = stage
      BY <1>0, <2>2, TablesKept, AbortElsewhere, DslElsewhere DEF SameTables, Next, Terminated, vars
    <3> QED
      BY <3>1, <1>3 DEF SumsUp
  <2> QED
    BY <2>1, <2>2
<1> QED
  BY <1>2, <1>3

LEMMA TotalInductive == Spec => [](PgasInv /\ TotalInv)
<1>1. Init => PgasInv /\ TotalInv
  <2>1. Init => TotalInv
    BY OnceTyped DEF Init, TotalInv, Parked, Finished, Totals, NothingToSum, ReplyIs, Summed, SumsUp, NoMsg
  <2> QED
    BY <2>1, InitInv
<1>2. PgasInv /\ TotalInv /\ [Next]_vars => (PgasInv /\ TotalInv)'
  <2> SUFFICES ASSUME PgasInv, TotalInv, [Next]_vars PROVE (PgasInv /\ TotalInv)'
    OBVIOUS
  <2>1. PgasInv'
    BY InvStep
  <2>2. \A d \in Dsls, p \in Apps : Parked(d, p)'
    BY ParkedStep DEF TotalInv
  <2>3. \A p \in Apps : Finished(p)' /\ Totals(p)' /\ NothingToSum(p)'
    BY FinishedStep, TotalsStep, NothingToSumStep DEF TotalInv
  <2>4. build' = build
    <3>1. TypeOK
      BY DEF PgasInv
    <3>2. (\E p \in Apps : AppStep(p)) => build' = build
      BY TablesKept DEF SameTables
    <3>3. (\E d \in Dsls : AbortVictim(d) \/ GrantContended(d)) => build' = build
      BY <3>1, AbortElsewhere
    <3>4. (\E d \in Dsls, p \in Apps : dsl_service(d, p)) => build' = build
      BY <3>1, DslElsewhere
    <3>5. Barrier \/ UNCHANGED vars => build' = build
      BY DEF Barrier, vars
    <3> QED
      BY <3>2, <3>3, <3>4, <3>5 DEF Next, Terminated
  <2>5. build'.platform # "TILERA" => ReplyIs' /\ Summed'
    BY <2>4, ReplyIsStep, SummedStep
  <2> QED
    BY <2>1, <2>2, <2>3, <2>5 DEF TotalInv
<1> QED
  BY <1>1, <1>2, PTL DEF Spec

\* "Bank total (after)", which ONCE reads without a transaction, is the sum of what the committed
\* transactions leave, and all of them are done: every release has been taken before the last
\* barrier, where releases are waited for.
THEOREM TotalHolds == Spec => []TotalRight
<1>1. PgasInv /\ TotalInv => TotalRight
  <2> SUFFICES ASSUME PgasInv, TotalInv, stage = "end"
               PROVE  /\ build.platform # "TILERA" => sum[Once] = FoldSet(LAMBDA a, s : s + Effective[a], 0, Accounts)
                      /\ \A p \in Apps : ntx[p] = MaxTx
    BY DEF TotalRight
  <2>1. \A p \in Apps : ntx[p] = MaxTx
    BY DEF TotalInv, Finished
  <2>2. ASSUME build.platform # "TILERA"
        PROVE  sum[Once] = FoldSet(LAMBDA a, s : s + Effective[a], 0, Accounts)
    <3>1. TypeOK /\ (\A p \in Apps : pc[p] = "end") /\ mem \in [Accounts -> Int]
      BY DEF PgasInv, NodeInv, Control, TypeOK
    <3>2. \A d \in Dsls, p \in Apps : chan[d][p].type # "RMV_NODE"
      BY <2>2, AtRest
    <3>3. \A a \in Accounts : Owners(a) = {}
      BY <3>1, <3>2, PgasAssumption DEF Owners
    <3>4. Effective = mem
      BY <3>1, <3>3 DEF Effective
    <3>5. PICK f : IsSum(Accounts, mem, f)
      BY <3>1, AccountsFinite, SumExists
    <3>6. sum[Once] = f[Accounts]
      BY <2>2, <3>5 DEF TotalInv, Summed, SumsUp
    <3>7. Worth(mem) = f[Accounts]
      BY <3>1, <3>5, WorthIs
    <3>8. Worth(Effective) = Worth(mem)
      BY <3>4
    <3> QED
      BY <3>6, <3>7, <3>8, Zenon DEF Worth
  <2> QED
    BY <2>1, <2>2
<1> QED
  BY <1>1, TotalInductive, PTL
=============================================================================
