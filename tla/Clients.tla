------------------------------ MODULE Clients ------------------------------
(***************************************************************************)
(* The other programs that use TM2C: the bank (bmarks/bank.c), the chunks  *)
(* of a file counted together (bmarks/mapreduce/mr.c) and the test         *)
(* applications (apps/tm2.c to tm9.c): their transactions, the words they  *)
(* read and write without one, their timed loops and their barriers.       *)
(*                                                                         *)
(* A program is a sequence of statements, pc[p] the one node p is at.  Of  *)
(* the transactions only the isolation that Tm2c shows is used: of two     *)
(* that conflict one loses, and notices it at its next TX operation.       *)
(***************************************************************************)
EXTENDS Integers, SequencesExt

CONSTANTS
  NUM_UES,     \* nodes
  DslPerNode,  \* DSL_PER_NODE
  Progs,       \* the programs that run
  Size,        \* SIS_SIZE, or steps: words of the array
  REPS,        \* REPS of tm3: words of a round
  NbAccounts,  \* nb_accounts, a power of two
  File,        \* the class of each byte of the file of mr, from 0 on
  ChunkSize,   \* chunk_size
  MaxReps      \* bound: iterations of the timed loop of each program

Nodes == 0 .. NUM_UES - 1
is_app_core(id) == id % DslPerNode # 0
Apps == {id \in Nodes : is_app_core(id)}
min_app_id == CHOOSE id \in Apps : \A other \in Apps : id <= other
Words == 0 .. Size - 1
Tm3s == {"tm3", "tm3_all"}  \* tm3 without arguments, and with them
Rounds == Size \div REPS    \* of tm3: while (REPS * rounds++ <= steps)
Readable == 0 .. (Rounds + 2) * REPS - 1   \* ... and the words behind the array that tm3 and tm7 read
Accounts == 0 .. NbAccounts - 1

ASSUME ClientsAssumption ==
  /\ Progs \subseteq {"bank", "mr", "tm2", "tm3", "tm3_all", "tm4", "tm5", "tm6", "tm7", "tm8", "tm9"}
  /\ NUM_UES \in Nat /\ DslPerNode \in 2 .. NUM_UES
  /\ Size \in Nat /\ Size >= 3 /\ NbAccounts \in 2 .. Size
  /\ REPS \in Nat \ {0}
  /\ File \in Seq({1, 2}) /\ ChunkSize \in Nat \ {0} /\ MaxReps \in [Progs -> Nat \ {0}]

VARIABLES
  prog,     \* the program
  mem,      \* the words of its shared memory
  pc,       \* the statement a node is at
  reps,     \* iterations of its timed loop, rounds of tm3
  arrived,  \* nodes that wait at the barrier
  tx,       \* the attempt of a node
  ci,       \* local of mr: the chunk it has taken
  done,     \* chunks_per_core: the chunks a node has counted
  counted,  \* stats_local: bytes of each class
  last      \* history: what the last committed transaction (or plain total) has read

vars == <<prog, mem, pc, reps, arrived, tx, ci, done, counted, last>>

-----------------------------------------------------------------------------
(* Operations of transactions.  TX_LOAD_STORE is three of them: the lock,  *)
(* the read of the word itself, and the insertion in the write set.        *)

Op(do, w, v) == [do |-> do, w |-> w, v |-> v]
TxLoad(w) == <<Op("load", w, 0)>>
TxStore(w, v) == <<Op("store", w, v)>>
TxLoadStore(w, v) == <<Op("wlock", w, 0), Op("add", w, v)>>
Raw(w) == <<Op("raw", w, 0)>>

Each(f(_), n) == FlattenSeq([i \in 1 .. n |-> f(i - 1)])
LoadAll(n) == Each(TxLoad, n)
StoreAll(id) == Each(LAMBDA w : TxStore(w, id), Size)

(* Statements *)

St(do, what) == <<[do |-> do, what |-> what, len |-> 0]>>
Barrier == St("barrier", "")
Tx(what) == St("tx", what)
Plain(what) == St("plain", what)
\* while (the time is not up) body
Loop(body) == <<[do |-> "loop", what |-> "", len |-> Len(body)]>> \o body
                \o <<[do |-> "again", what |-> "", len |-> Len(body)]>>
Once(p, s) == IF p = min_app_id THEN s ELSE <<>>
\* APP_EXEC_ORDER: a turn for each node, and a barrier after it
ExecOrder == Each(LAMBDA c : Barrier, NUM_UES)

(* The programs *)

\* test() of bank.c
BankTest(p) ==
  Barrier                                          \* srand_core
  \o Once(p, Plain("zero") \o Plain("total")) \o Barrier
  \o Tx("empty") \o Plain("total") \o Barrier      \* warming up
  \o Loop(Tx("bank")) \o Barrier

\* mainthread of bank.c
Bank(p) ==
  Barrier \o Barrier                               \* "Init STM"
  \o BankTest(p) \o Barrier
  \o ExecOrder \o Barrier                          \* test_verbose
  \o Once(p, Plain("total"))

\* Mutant of map_reduce: a barrier after every chunk.
map_reduce_lockstep ==
  Tx("next_chunk") \o St("while_chunk", "")
  \o Barrier \o Plain("chunk") \o Tx("next_chunk") \o St("end_chunk", "")
  \o Tx("merge")

map_reduce ==
  Tx("next_chunk") \o St("while_chunk", "")
  \o Plain("chunk") \o Tx("next_chunk") \o St("end_chunk", "")
  \o Tx("merge")

\* main of mr.c
MapReduce(p) == Barrier \o Once(p, Plain("zero")) \o Barrier \o map_reduce \o Barrier \o Barrier

\* Mutant of Tm2: without the barrier "so that the sum vs. sum1 check makes sense!"
Tm2Free(p) == Barrier \o Loop(Tx("write_reps") \o Tx("read_reps"))

\* The applications
Tm2(p) == Barrier \o Loop(Barrier \o Tx("write_reps") \o Tx("read_reps"))
Tm3(p) == Barrier \o Once(p, Loop(Tx("load_round"))) \o Barrier
Tm3All(p) == Barrier \o Loop(Tx("load_round")) \o Barrier
Tm4(p) == Plain("init") \o Barrier \o Tx("load_or_store") \o Barrier \o Tx("load_or_store") \o ExecOrder
Tm5(p) == Plain("init") \o Barrier \o Loop(Tx("store_from_id")) \o Barrier
Tm6(p) == Plain("init") \o Barrier \o Tx("load_all") \o ExecOrder \o Barrier
Tm7(p) == Plain("init") \o Barrier \o Loop(Tx("load_some")) \o Barrier \o Barrier
Tm8(p) == Plain("init") \o Barrier \o Tx("load_or_store_2") \o Barrier \o Tx("load_or_store_0") \o Barrier
Tm9(p) == Barrier \o Tx("load_or_store") \o Barrier

Program(p) ==
  CASE prog = "bank" -> Bank(p) [] prog = "mr" -> MapReduce(p)
    [] prog = "tm2" -> Tm2(p)   [] prog = "tm3" -> Tm3(p)
    [] prog = "tm4" -> Tm4(p)   [] prog = "tm5" -> Tm5(p)
    [] prog = "tm6" -> Tm6(p)   [] prog = "tm7" -> Tm7(p)
    [] prog = "tm8" -> Tm8(p)   [] prog = "tm9" -> Tm9(p)
    [] prog = "tm3_all" -> Tm3All(p)

Ended(p) == pc[p] > Len(Program(p))
Stmt(p) == Program(p)[pc[p]]
At(p, do) == ~Ended(p) /\ Stmt(p).do = do

-----------------------------------------------------------------------------
(* What the programs do in their transactions *)

\* total(bank, 1), check_accs and transfer; if dst = src, dst becomes (src + 1) & rand_max.
Transfer(src, dst) == TxLoadStore(src, -1) \o TxLoadStore(dst, 1)
CheckAccs(src, dst) == TxLoad(src) \o TxLoad(dst)
Pairs == {a \in Accounts \X Accounts : a[1] # a[2]}
BankBodies ==
  {LoadAll(NbAccounts)} \cup {CheckAccs(a[1], a[2]) : a \in Pairs} \cup {Transfer(a[1], a[2]) : a \in Pairs}

\* The words of mr: chunk_index, then stats by class; class Size - 1 is "Other".
ChunkIndex == 0
Classes == 1 .. Size - 1
FileSize == Len(File)

\* get_next_chunk: *chunk_index is read directly, so it is the value before the increment.
NextChunk == TxLoadStore(ChunkIndex, 1) \o Raw(ChunkIndex)

\* The bytes map_reduce counts: chunk++ comes before the read, and byte FileSize is EOF,
\* which char_offset takes for "Other".
ClassOf(byte) == IF byte = FileSize THEN Size - 1 ELSE File[byte + 1]
\* Mutant of ChunkBytes: the loop also counts the first byte of the next chunk.
ChunkBytesMore(c) == {b \in 1 .. FileSize : b > c * ChunkSize /\ b <= c * ChunkSize + ChunkSize + 1}
ChunkBytes(c) == {b \in 1 .. FileSize : b > c * ChunkSize /\ b <= c * ChunkSize + ChunkSize}

\* The counts of the classes in a set of bytes
CountBytes(bytes) == [c \in Classes |-> Cardinality({b \in bytes : ClassOf(b) = c})]
\* The transaction that adds stats_local to stats; a count of 0 is left out.
Merge(p) == Each(LAMBDA c : IF c \in Classes /\ counted[p][c] # 0 THEN TxLoadStore(c, counted[p][c]) ELSE <<>>, Size)

\* Words a node initialises with -1: for (i = TM2C_ID; i < SIS_SIZE; i += NUM_UES).
\* Those of the DSL nodes stay as they are.
InitWords(p) == {w \in Words : w % NUM_UES = p}

\* The first loop of tm8 begins with word 2.
From2(ops) == SubSeq(ops, 3, Size)

\* Word i of the round of tm3 that node p is in.  rounds is 2 in the first one, as rounds++ comes before
\* the body, so that the last ones read behind the array, unless they go around it.
RoundWord(p, i) == LET w == i + (reps[p] + 1) * REPS
                   IN  IF prog = "tm3" THEN w ELSE (w + p) % Size

WriteReps(p) == Each(LAMBDA w : TxStore(w, reps[p] + w), Size)

Bodies(p, what) ==
  CASE what = "empty" -> {<<>>}
    [] what = "bank" -> BankBodies
    [] what = "next_chunk" -> {NextChunk}
    [] what = "merge" -> {Merge(p)}
    [] what = "write_reps" -> {WriteReps(p)}
    [] what \in {"read_reps", "load_all"} -> {LoadAll(Size)}
    [] what = "load_or_store" -> IF p = min_app_id THEN {LoadAll(Size)} ELSE {StoreAll(p)}
    \* TM2C_ID >= 1 loads; node 0 would store, but it is a DSL node
    [] what = "load_or_store_0" -> IF p >= 1 THEN {LoadAll(Size)} ELSE {StoreAll(p)}
    [] what = "load_or_store_2" -> IF p >= 1 THEN {From2(LoadAll(Size))} ELSE {From2(StoreAll(p))}
    [] what = "store_from_id" -> {Each(LAMBDA w : IF w >= p THEN TxStore(w, p) ELSE <<>>, Size)}
    [] what = "load_round" -> {Each(LAMBDA i : TxLoad(RoundWord(p, i)), REPS)}
    \* ROLL(0) is never true; the words are random (one is loaded here): rand_range, from 1 to Size
    [] what = "load_some" -> {TxLoad(w) : w \in 1 .. Size}

-----------------------------------------------------------------------------
NoTx == [body |-> <<>>, at |-> 0, reads |-> {}, wlocks |-> {}, ws |-> <<>>,
         vals |-> <<>>, raw |-> 0, lost |-> FALSE]
Start(body) == [NoTx EXCEPT !.body = body, !.at = 1]
NothingRead == [what |-> "none", vals |-> <<>>]

Init ==
  /\ prog \in Progs
  /\ mem = [w \in Readable |-> 0]
  /\ pc = [p \in Apps |-> 1]
  /\ reps = [p \in Apps |-> 1]
  /\ arrived = {}
  /\ tx = [p \in Apps |-> NoTx]
  /\ ci = [p \in Apps |-> 0]
  /\ done = [p \in Apps |-> 0]
  /\ counted = [p \in Apps |-> [c \in Classes |-> 0]]
  /\ last = [p \in Apps |-> NothingRead]

InTx(p) == tx[p].at > 0
Working(p) == InTx(p) /\ tx[p].at <= Len(tx[p].body)
Does(p, do) == Working(p) /\ tx[p].body[tx[p].at].do = do
Cur(p) == tx[p].body[tx[p].at]
Advance(p, n) == pc' = [pc EXCEPT ![p] = @ + n]

\* TX_START
Begin(p) ==
  /\ At(p, "tx") /\ ~InTx(p)
  /\ \E body \in Bodies(p, Stmt(p).what) : tx' = [tx EXCEPT ![p] = Start(body)]
  /\ UNCHANGED <<prog, mem, pc, reps, arrived, ci, done, counted, last>>

\* Who has a lock that keeps p from locking words ws, for writing or not
Against(p, words, write) ==
  {q \in Apps \ {p} : /\ ~tx[q].lost
                     /\ words \cap (tx[q].wlocks \cup (IF write THEN tx[q].reads ELSE {})) # {}}

\* The others lose their locks, and tx[p] becomes t.
Wins(p, losers, t) == tx' = [q \in Apps |-> IF q = p THEN t ELSE [tx[q] EXCEPT !.lost = @ \/ q \in losers]]

Step(p, t) == [t EXCEPT !.at = @ + 1]

\* TX_LOAD
Load(p) ==
  /\ Does(p, "load") /\ ~tx[p].lost
  /\ LET w == Cur(p).w
     IN  Wins(p, Against(p, {w}, FALSE),
              Step(p, [tx[p] EXCEPT !.reads = @ \cup {w}, !.vals = Append(@, mem[w])]))
  /\ UNCHANGED <<prog, mem, pc, reps, arrived, ci, done, counted, last>>

\* TX_STORE: the word is locked by the commit.
Store(p) ==
  /\ Does(p, "store") /\ ~tx[p].lost
  /\ tx' = [tx EXCEPT ![p] = Step(p, [tx[p] EXCEPT !.ws = Append(@, Cur(p))])]
  /\ UNCHANGED <<prog, mem, pc, reps, arrived, ci, done, counted, last>>

\* tx_wlock
Wlock(p) ==
  /\ Does(p, "wlock") /\ ~tx[p].lost
  /\ LET w == Cur(p).w
     IN  Wins(p, Against(p, {w}, TRUE), Step(p, [tx[p] EXCEPT !.wlocks = @ \cup {w}]))
  /\ UNCHANGED <<prog, mem, pc, reps, arrived, ci, done, counted, last>>

\* The rest of TX_LOAD_STORE, and a plain read: no check whether the locks are still there
Add(p) ==
  /\ Does(p, "add")
  /\ tx' = [tx EXCEPT ![p] =
       Step(p, [tx[p] EXCEPT !.ws = Append(@, Op("store", Cur(p).w, mem[Cur(p).w] + Cur(p).v))])]
  /\ UNCHANGED <<prog, mem, pc, reps, arrived, ci, done, counted, last>>

ReadRaw(p) ==
  /\ Does(p, "raw")
  /\ tx' = [tx EXCEPT ![p] = Step(p, [tx[p] EXCEPT !.raw = mem[Cur(p).w]])]
  /\ UNCHANGED <<prog, mem, pc, reps, arrived, ci, done, counted, last>>

\* TX_ABORT, of a transaction that has lost its locks or loses the conflict it is about to enter
Abort(p) ==
  /\ InTx(p)
  /\ \/ tx[p].lost /\ (Working(p) => Cur(p).do \in {"load", "store", "wlock"})
     \/ Does(p, "load") /\ Against(p, {Cur(p).w}, FALSE) # {}
     \/ Does(p, "wlock") /\ Against(p, {Cur(p).w}, TRUE) # {}
     \/ ~Working(p) /\ Against(p, {op.w : op \in ToSet(tx[p].ws)}, TRUE) # {}
  /\ tx' = [tx EXCEPT ![p] = Start(@.body)]
  /\ UNCHANGED <<prog, mem, pc, reps, arrived, ci, done, counted, last>>

\* What write_set_persist leaves in the memory
Persisted(ws) ==
  [w \in Readable |-> LET at == {i \in DOMAIN ws : ws[i].w = w}
                   IN  IF at = {} THEN mem[w] ELSE ws[CHOOSE i \in at : \A j \in at : j <= i].v]

\* TX_COMMIT and TX_COMMIT_NO_PUB; nobody reads a word locked for writing.
Commit(p) ==
  /\ InTx(p) /\ ~Working(p) /\ ~tx[p].lost
  /\ Wins(p, Against(p, {op.w : op \in ToSet(tx[p].ws)}, TRUE), NoTx)
  /\ mem' = Persisted(tx[p].ws)
  /\ ci' = [ci EXCEPT ![p] = IF Stmt(p).what = "next_chunk" THEN tx[p].raw ELSE @]
  /\ last' = [last EXCEPT ![p] = [what |-> Stmt(p).what, vals |-> tx[p].vals]]
  /\ reps' = [reps EXCEPT ![p] = IF Stmt(p).what = "read_reps" THEN @ + 1 ELSE @]
  /\ Advance(p, 1)
  /\ UNCHANGED <<prog, arrived, done, counted>>

\* BARRIER
Arrive(p) ==
  /\ At(p, "barrier") /\ p \notin arrived
  /\ IF arrived \cup {p} = Apps
     THEN arrived' = {} /\ pc' = [q \in Apps |-> pc[q] + 1]
     ELSE arrived' = arrived \cup {p} /\ UNCHANGED pc
  /\ UNCHANGED <<prog, mem, reps, tx, ci, done, counted, last>>

\* The iterations of its loop: as many as its clock allows (bound), or all rounds
Times == IF prog \in Tm3s THEN Rounds ELSE MaxReps[prog]

\* Mutant of EnterLoop: the body is entered once more when the time is up.
EnterLoopAgain(p) ==
  /\ At(p, "loop")
  /\ \/ Advance(p, Stmt(p).len + 2)
     \/ reps[p] <= Times + 1 /\ Advance(p, 1)
  /\ UNCHANGED <<prog, mem, reps, arrived, tx, ci, done, counted, last>>

\* FOR, or while (work): each node looks at its own clock.  The rounds of tm3 are counted.
EnterLoop(p) ==
  /\ At(p, "loop")
  /\ \/ (prog \in Tm3s => reps[p] > Times) /\ Advance(p, Stmt(p).len + 2)
     \/ reps[p] <= Times /\ Advance(p, 1)
  /\ UNCHANGED <<prog, mem, reps, arrived, tx, ci, done, counted, last>>
Again(p) ==
  /\ At(p, "again")
  /\ Advance(p, -(Stmt(p).len + 1))
  /\ reps' = [reps EXCEPT ![p] = IF prog = "tm2" THEN @ ELSE @ + 1]
  /\ UNCHANGED <<prog, mem, arrived, tx, ci, done, counted, last>>

\* while (chunk < file_size), and its end
WhileChunk(p) ==
  /\ At(p, "while_chunk")
  /\ Advance(p, IF ci[p] * ChunkSize < FileSize THEN 1
                ELSE CHOOSE n \in 1 .. Len(Program(p)) - pc[p] + 1 : Program(p)[pc[p] + n - 1].do = "end_chunk")
  /\ UNCHANGED <<prog, mem, reps, arrived, tx, ci, done, counted, last>>
EndChunk(p) ==
  /\ At(p, "end_chunk")
  /\ Advance(p, -(CHOOSE n \in 1 .. pc[p] - 1 : Program(p)[pc[p] - n].do = "while_chunk"))
  /\ UNCHANGED <<prog, mem, reps, arrived, tx, ci, done, counted, last>>

\* The loop over the bytes of a chunk, on locals only
CountChunk(p) ==
  /\ At(p, "plain") /\ Stmt(p).what = "chunk"
  /\ done' = [done EXCEPT ![p] = @ + 1]
  /\ counted' = [counted EXCEPT ![p] = [c \in Classes |-> @[c] + CountBytes(ChunkBytes(ci[p]))[c]]]
  /\ Advance(p, 1)
  /\ UNCHANGED <<prog, mem, reps, arrived, tx, ci, last>>

\* Reads and writes of shared memory without a transaction
PlainWrite(p) ==
  /\ At(p, "plain") /\ Stmt(p).what \in {"zero", "init"}
  /\ mem' = IF Stmt(p).what = "zero" THEN [w \in Readable |-> 0]
            ELSE [w \in Readable |-> IF w \in InitWords(p) THEN -1 ELSE mem[w]]
  /\ Advance(p, 1)
  /\ UNCHANGED <<prog, reps, arrived, tx, ci, done, counted, last>>
PlainTotal(p) ==
  /\ At(p, "plain") /\ Stmt(p).what = "total"
  /\ last' = [last EXCEPT ![p] = [what |-> "total", vals |-> [i \in 1 .. NbAccounts |-> mem[i - 1]]]]
  /\ Advance(p, 1)
  /\ UNCHANGED <<prog, mem, reps, arrived, tx, ci, done, counted>>

Transactional(p) ==
  Begin(p) \/ Load(p) \/ Store(p) \/ Wlock(p) \/ Add(p) \/ ReadRaw(p) \/ Abort(p) \/ Commit(p)
Sequential(p) ==
  \/ Arrive(p) \/ EnterLoop(p) \/ Again(p) \/ WhileChunk(p) \/ EndChunk(p)
  \/ CountChunk(p) \/ PlainWrite(p) \/ PlainTotal(p)

Terminated == (\A p \in Apps : Ended(p)) /\ UNCHANGED vars
Next == (\E p \in Apps : Transactional(p) \/ Sequential(p)) \/ Terminated
Spec == Init /\ [][Next]_vars

-----------------------------------------------------------------------------
Values == Int

\* The variables keep their types; locals of a transaction only exist inside one, and a node waits only at a barrier.
TypeOK ==
  /\ prog \in Progs
  /\ mem \in [Readable -> Values]
  /\ pc \in [Apps -> Nat \ {0}] /\ \A p \in Apps : pc[p] <= Len(Program(p)) + 1
  /\ reps \in [Apps -> 1 .. Times + 1]
  /\ arrived \subseteq {p \in Apps : At(p, "barrier")}
  /\ \A p \in Apps : /\ InTx(p) => At(p, "tx") /\ tx[p].at <= Len(tx[p].body) + 1
                     /\ ~InTx(p) => tx[p] = NoTx
  /\ ci \in [Apps -> Nat] /\ done \in [Apps -> Nat]
  /\ counted \in [Apps -> [Classes -> Nat]]

SumOf(vals) == FoldSeq(LAMBDA v, sum : v + sum, 0, vals)
InitialWord(w) == IF w % NUM_UES \in Apps THEN -1 ELSE 0
Initially == [i \in 1 .. Size |-> InitialWord(i - 1)]
Zeros == [i \in 1 .. Size |-> 0]

\* What the committed readers of a program see is a state between transactions: a bank total
\* of 0 (total() prints any other), also where it is read without a transaction; the sum that
\* was written (tm2 prints if sum # sum2); an array one node has written as a whole (tm4, tm9),
\* or nobody has since the nodes initialised it (tm6, tm8, whose writer would be a DSL node).
SeenWhole ==
  \A p \in Apps :
    LET vals == last[p].vals
    IN  CASE last[p].what = "total" -> SumOf(vals) = 0
          [] last[p].what = "bank" -> Len(vals) = NbAccounts => SumOf(vals) = 0
          [] last[p].what = "read_reps" -> SumOf(vals) = SumOf([i \in 1 .. Size |-> reps[p] - 1 + i - 1])
          [] last[p].what = "load_or_store" /\ p = min_app_id ->
               \/ vals = IF prog = "tm4" THEN Initially ELSE Zeros
               \/ \E id \in Apps : vals = [i \in 1 .. Size |-> id]
          [] last[p].what = "load_or_store_2" -> vals = SubSeq(Initially, 3, Size)
          [] last[p].what \in {"load_all", "load_or_store_0"} -> vals = Initially
          [] OTHER -> TRUE

\* Map-reduce: whoever takes which chunk, at the end every byte from 1 to FileSize is counted
\* once in stats, and the chunks add up (byte 0 never is, and the EOF behind the file is).
BytesOnce ==
  (prog = "mr" /\ \A p \in Apps : Ended(p)) =>
    /\ \A c \in Classes : mem[c] = CountBytes(1 .. FileSize)[c]
    /\ FoldSet(LAMBDA p, sum : done[p] + sum, 0, Apps) = (FileSize + ChunkSize - 1) \div ChunkSize

\* Nobody waits at a barrier that another node will never reach, because it has ended: the nodes
\* call BARRIER equally often, although each leaves its loops by its own clock.  The exception is
\* tm2, whose barrier is in the timed loop.
BarriersMatch ==
  prog # "tm2" => ~(arrived # {} /\ \E p \in Apps : Ended(p))
=============================================================================
