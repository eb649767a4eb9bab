# TM2C in TLA+

TM2C is a software transactional memory whose lock service is reached by
messages. This directory holds TLA+ modules of it, TLC configurations that check
them on small instances, and theorems about them that TLAPS checks for every
value of the constants. Paths are relative to the repository.

## The system

An execution has **application nodes**, which run transactions, and **DSL
nodes**, which keep the locks. They are threads of one process on the default
platform, OPTERON and NIAGARA, and processes on XEON, TILERA and SCC. Every word of the
shared memory has one responsible DSL node.

| Part | State | Operations | Talks to |
|---|---|---|---|
| Transactions (`include/tm2c.h`, `src/tm2c.c`, `tm2c_tx_meta`) | write set, retries, priority, abort flag of the node | `TX_START`, `TX_LOAD`, `TX_STORE`, `TX_LOAD_STORE`, `TX_RRLS`, `TX_COMMIT*`, `TX_ABORT` | RPC layer, shared memory, `mem_info` |
| RPC layer (`src/tm2c_app.c`) | `nodes_contacted`, request buffer | load, store, release, statistics | DSL service, by libssmp slots |
| DSL service (`src/sys_default.c`, `dsl_service`) | `cm_metadata_core`, statistics | one message at a time: LOAD, STORE, RMV_NODE, LOAD_RLS, STORE_FINISH, STATS, PGAS requests | hash table, contention manager, replies |
| Contention managers (`src/tm2c_cm.c`, `include/sys_default.h`) | abort flags, in shared memory | compare priorities, abort holders | abort flags of the application nodes |
| Lock table SSHT (`src/ssht.c`, `ssht.h`, `ssht_log.h`, `tm2c_dsl_ht.c`) | buckets of slots, a log per node | insert reader, insert writer, remove one, remove node | contention manager |
| Write set (`src/tm2c_log.c`) | sequence of address and value | insert, lookup, persist, empty | shared memory |
| Memory management (`src/tm2c_mem.c`, `tm2c_malloc.c`) | lists of blocks per transaction, ring and bump pointer per thread | `TX_SHMALLOC`, `TX_SHFREE`, commit, abort | transactions |
| PGAS build (`src/pgas_*.c`) | memory and write sets at the DSL nodes | load, store, increment, commit at RMV_NODE | everything above |
| Start-up and shutdown (`src/tm2c.c`, `tm2c_dsl.c`, `src/sys_*.c`) | barriers, counts of statistics messages, abort flags by name | `tm2c_init`, `TM_END`, `tm2c_term` | all nodes |
| Clients (`bmarks/`, `apps/`) | bank, list, hash set, chunk counter | transactions, barriers, reads and writes without a transaction | the API |

What is hard here:

* **Concurrency without a common lock.** A commit acquires locks at several DSL
  nodes, each of which decides alone. A DSL node takes the locks of a
  transaction away behind its back and tells it by a compare-and-swap on its
  abort flag. The transaction notices at its next check, unless it has set the
  flag to `PERSISTING_WRITES` before; then the DSL node waits.
* **Old information.** Priorities are copied into messages and kept per DSL node.
  Releases of an attempt that has ended are still in their slots when the next
  attempt begins. The abort flag belongs to the node and not to the attempt.
* **Termination** depends on the priorities being a total order.
* **Counts in a byte**: the readers of a slot, the entries of the free ring.
* **Lists that outlive a transaction**: the logs at the DSL nodes, the lists of
  allocated and freed blocks.
* **Reads outside the protocol.** The list reads the value of a node without a lock;
  programs read totals and counters without a transaction.
* **A commit in several places.** In the PGAS build each DSL node writes back its
  share when the release arrives, or when somebody else wins a conflict before.
* **An end that everybody has to reach**: a service that counts messages,
  barriers in timed loops, memory that several nodes free.

What makes each part correct:

* transactions: committed ones are serializable; one that has not been aborted
  holds all its locks and reads a consistent snapshot; every one commits;
* contention managers: only a transaction of lower priority is killed;
* DSL service: no lock is left behind by a transaction that has ended;
* lock table: it is a lock table, whatever slots are reused and evicted; counts
  and logs agree with it;
* memory: no block has two owners and none is lost;
* list and hash table: they are a set, and no block leaks or is used after it is freed;
* PGAS: a commit takes effect at once, for those who read by the protocol;
* start-up and shutdown: a flag is there before it is needed and until it is no
  longer; all messages are served and all nodes end;
* programs: what they print of a consistent memory is consistent.

`PROJECT.json` lists the components, and the hazards at the lines where they bite.

## The modules

| Module | What it is |
|---|---|
| `SerialMemory` | abstract: a memory on which transactions take effect one at a time |
| `LockTable` | abstract: readers and writer per word, granting with eviction, release |
| `Tm2c` | the protocol: application nodes, slots, DSL nodes, contention managers |
| `Tm2cInv` | the inductive invariant of `Tm2c` |
| `Tm2cSafety` | proofs about `Tm2c`: type correctness, the steps of the invariant part by part, isolation, and that it implements `SerialMemory`; no lock is left behind, priorities are known, only an elder aborts |
| `MCTm2c` | transaction bodies and instances for TLC |
| `Ssht`, `MCSsht` | the hash table of one DSL node, and instances |
| `SshtProofs` | its invariants, and the proof that it implements `LockTable` |
| `TxMem` | memory allocated and freed in transactions, with the allocator |
| `TxMemProofs` | no block has two owners, and none is lost: proofs about `TxMem` |
| `SetSpec` | abstract: a set with operations that take effect between call and return |
| `IntSet`, `IntSetPgas`, `MCIntSet` | the sorted list and the hash table in transactions, with their test programs; the PGAS versions; instances |
| `IntSetInv` | the inductive invariants of `IntSet` |
| `IntSetProofs` | its proof: the lists stay whole, no block is lost or looked at after it is freed |
| `IntSetRefines` | the proofs that `IntSet` implements `SetSpec`, and that the size is what the test programs expect |
| `Sums` | what the folds and sums of the community modules are worth, for the proofs |
| `Pgas`, `MCPgas` | the PGAS build with its bank, and instances |
| `PgasProofs` | a commit takes effect at once, how far reads are current, and the total at the end: proofs about `Pgas` |
| `Lifecycle`, `MCLifecycle` | start-up and shutdown on six platforms, and instances |
| `Clients`, `MCClients` | the bank, map-reduce and the test applications, and instances |
| `ClientsProofs` | no jump leaves a program, the barriers match, readers see whole states: proofs about `Clients` |

They fit together by what each takes for granted of the others. `Tm2c` takes its locks as the
functions that `Ssht` implements (by `LockTable`); `IntSet` and `Clients` take the isolation
that `Tm2c` shows, reduced to "of two attempts that conflict one loses its
locks and notices it at its next operation"; `TxMem` and `IntSet` share the
discipline of allocated and freed blocks. `Pgas` has its own protocol, since
there the locks of a loser are not taken away.

Definitions whose comment begins with "Mutant of" are variants with a plausible
bug. No specification uses them; each property is known to fail when
one of them replaces the definition it is named after.

### Tm2c

One action is one step of one thread: an access to an abort flag, to the shared
memory or to a message slot, with the thread-local work around it. The program
counter `pc` of an application node is

    idle -> start -> body                     Begin, Running
    body -> send -> wait -> body              every remote lock
    body -> persist -> release -> idle        commit
    body, wait -> abort -> start              NoticeAbort or Refused, then Retry

| Actions | Code |
|---|---|
| `Begin`, `Running` | `TX_START`: `CM_METADATA_INIT_ON_FIRST_START` once, `TXRUNNING` for every attempt |
| `LoadOwn`, `Store`, `Contact`, `Send`, `Granted`, `Refused` | `tx_load`, `tx_wlock`, `TX_STORE`, `tm2c_rpc_load`, `tm2c_rpc_store`, and the loop of `tm2c_rpc_store_all`, which runs the same steps once the body is done |
| `NoticeAbort` | `TXCHKABORTED`, or a failed `TXPERSISTING` |
| `SetPersisting`, `PersistEntry`, `SetCommitted` | `TXPERSISTING`, one entry of `write_set_persist`, `TXCOMMITTED` |
| `SendRelease`, `Committed`, `Retry` | `tm2c_rpc_rls_all`, one DSL node at a time; the end of `TX_COMMIT`; the end of `tm2c_handle_abort` |
| `Grant`, `Refuse`, `RemoveNode` | the cases of `dsl_service` that run to their end without touching an abort flag |
| `Contend`, `AbortVictim`, `GrantContended` | a request that wins: the holders are aborted one after the other by `abort_node`, each of which may wait, and then the lock is granted |

`contacted` is the set of DSL nodes with `nodes_contacted > 0`. `prio` is what
the node would send as `tx_metadata`: the committed transactions (WHOLLY), the
time spent in them (FAIRCM), the timestamp (GREEDY). `last` and `reads` are
history: the values read and written by the attempt and by the last committed
transaction. Values are abstract; a transaction stores a word with its own
name. A slot holds one message: `ssmp_send` waits until it is free, and the code
of libssmp itself is not in the repository.

The locks are two functions here, `readers` and `writer`. That the hash table
behaves like such functions is what `Ssht` shows, by implementing `LockTable`,
whose actions are the changes of these two variables.

Left out of `Tm2c`: `EAGER_WRITE_ACQ`, `TX_RRLS`, GREEDY with offsets instead of
the global timestamp, the delay before a retry, the statistics.
`BACKOFF_RETRY` differs from `NOCM` by such a delay. `Transactions` says what is assumed of
clients: they publish `TX_STORE`s by `TX_COMMIT`, use `TX_COMMIT_NO_PUB` for
`TX_LOAD_STORE`s only, and store a word once. The last is not true of every client; what happens
otherwise is the subject of the run `ssht_restore`.

### Ssht

State: `slots`, the chain of slots of each bucket; `log`, for each node the
slots it locked. `loaded` and `stored` are what the node itself knows of its
locks. `Load` and `Store` are granted requests with the
evictions they need; `Lose` is a request that is refused; `RemoveNode` is
RMV_NODE; `LoadRelease` is LOAD_RLS and `StoreRelease` STORE_FINISH. Who wins a conflict is left open, which
covers every contention manager: `Tm2c` restricts it.

`bits` is a build with `SSHT_BIT_OPTS` (`rw_entry_ssht.h`): the readers are a bitmap, there is no
count, and every grant logs the slot, also to a node that has the lock already. There the
log has at least an entry for each lock, and releasing a lock twice does nothing;
without bits there is exactly one, and `CountsReaders` must hold.

`Early` is the set of words that nodes release early, by `TX_RRLS` or
`TX_WRLS`. An early release leaves
the address in its slot, so `SlotsReclaimed` leaves these words out.

The loops of the table (over the readers that an insertion evicts, over the log that a
removal walks) are recursive functions on the naturals, one value per round, since
theorems are proved about them. `Restores` says whether clients lock a word for
writing again that they have locked already; `ssht_restore` is the run in which they do.

### TxMem

`ring` has the free blocks of a thread, oldest first, instead of the array and its two
8-bit indices; the list forgets everything when its length reaches `RingMod`,
as `tm2c_free_num` does. `fresh` and `cut` are the effect the attempt will have
on a linked structure, and `linked` is the structure. That two transactions do
not both unlink a block is assumed of the structure (`TakeEffect`); it follows
from the isolation that `Tm2c` shows.

### IntSet, IntSetPgas and SetSpec

A process is in an operation (`call`) and walks: `Load` is the `TX_LOAD` of a
pointer, `Walk` one turn of the loop, and an action per operation is what follows
the walk (`SetContains`, `SetAdd`, `SetRemove`, `HtMoveNaive`, `HtMove`,
`HtMoveOrRollback`, `HtSnapshot`). The pointer is protected by the lock of its
node. The value is read from the heap, as in the code, and the
heap is whatever the block holds at that moment: when a process has lost its locks
(`lost`) it may look into a block that is free or has another node in it. `tx[p].ws` is the
write set, in which the oldest entry of a word is found and the newest is
written; `mem` has the blocks to free on commit or abort. `driver` is the test
program, which decides what is called next: `test()` of the list, that of the
hash table, the two of the PGAS build, or any operation of the interface by a process that is
alone (`ApiTest`: operations no test program calls). `early`, one of `EarlyBuilds`, is a build
with `EARLY_RELEASE`, in which a walk keeps the last lock (search) or two (update); in it a
freed block keeps its contents (`Erased`: elsewhere it is emptied, so that states that differ in rubbish
only are one). `OnlyUpdates` is the option `-u 100` of the programs: nobody searches.

In the PGAS version a node is one word, value and pointer together, so the value is read under the lock of the
node. `IntSetPgas` assumes the isolation of `IntSet`; how far the PGAS build gives it is the
subject of `Pgas`.

`SetSpec` is the set: `Call`, then `Return` with the effect and the answer. The lists
implement it without `EARLY_RELEASE`; with it they lose values (finding 3).

### Pgas

`Tm2c`'s protocol with the memory, and a write set per application node, at the DSL nodes.
`Serve` is one transactional request, which the six `Requests*` apply as the
`dsl_service` of each platform does: on OPTERON, NIAGARA, XEON and SCC a
refused increment leaves GREEDY's timestamp. `AbortVictim` is
`abort_node_is_persisting`: the flag of the loser is set, or its write set is
written back for it. `RemoveNode` is RMV_NODE with or without commit. Each
node runs `test()` of `bankpgas.c`: reset, warming up, transactions, total, with barriers.

`Effective` is the memory with the write sets of those past their
compare-and-swap applied. `CommitsAtOnce` says that only that compare-and-swap changes it.

`passed` is history: the words a live attempt has read by winning against their
writer. The contention manager does not take away the loser's locks here, so the
entry has a reader and a writer at once; a third node that wins against the
writer gets the word without being compared with the reader, and writes it while
the reader goes on. `ReadsCurrent` therefore excepts these words: that is how much isolation
the PGAS build gives, and less than what the shared-memory build proves.

Accounts are words that all nodes know. With threads, `pgas_app.c` has one
unsynchronised allocator for all nodes and `cm_abort_flags` is never allocated, so at
this commit the PGAS build works with processes; `Pgas` takes the accounts
as common, and `Lifecycle` has PGAS on XEON, TILERA and SCC only.

### Lifecycle

A node has in `todo` the instructions left of its program, which the operators
`AppInitXeon`, `DslTermOpteron` and so on read off the code of each platform. Barriers,
`pthread_once`, allocations and frees, flags by block or by name, statistics
messages and prints in turn are instructions; an action executes the next one
of a node. `Request`, `Release` and `Serve` are what transactions do to other nodes.
`Leftovers` are flags whose names an earlier execution has left: `junk` has those with old contents
until their owner clears them. `store` has what is allocated, with the
process it belongs to where there are processes.

XEON, TILERA and SCC define no `initthread`, which `start_threads` needs at this commit; they
are modelled as their `sys_*.c` are written, a process to a node.

### Clients

A program is a sequence of statements (`Bank`, `MapReduce`, `Tm2` to `Tm9`, `Tm3All`):
barriers, timed loops, transactions, and reads and writes without one. A transaction
is a sequence of loads, stores, locks, unprotected reads. In map-reduce the chunk is read from the
word itself after `TX_LOAD_STORE` has buffered the increment, under the write
lock; the bytes of chunk `c` are shifted by one, and the byte behind the file is counted
as "Other": `BytesOnce` says that bytes 1 to FileSize are counted once, and so that
byte 0 never is. `rand_range(r)` returns 1 to r, although its comment says
`[1;range)`, so tm7 can read one word past its array (`Readable`). tm3 reads its array in rounds of
`REPS` words, a transaction each (`RoundWord`). The test of the loop is `REPS * rounds++ <= steps`, so the body
sees the next number: the first `REPS` words are left out. Without arguments (`Tm3`) only the
node that is `ONCE` runs the rounds, and the last of them reads behind the array; with arguments (`Tm3All`) all nodes do, and
take the word modulo `steps`. The number of rounds is fixed (`Rounds`), unlike that of a timed loop (`Times`).
Nobody writes in tm3, so `SeenWhole` has nothing to say of it; it says nothing of tm5, whose
transactions only write, nor of tm7, which reads words at random, one of them perhaps behind the array.

## The runs

| Run | Instance | Shows |
|---|---|---|
| `cross` | WHOLLY, 2 nodes, 2 DSL nodes, 2 words, 2 transactions each: read one word, write the other | types; `HoldsLocks`; `Serializable`: the protocol implements `SerialMemory`; `KilledByElder` |
| `bank` | FAIRCM, the bank's transfer and check, fairness | `Terminates`; `Isolated`; the inductive invariant |
| `greedy` | GREEDY, read-modify-write and two-word commits, 2 transactions each | `PriorityCurrent`, `Snapshot`, `NoLostLock` |
| `ssht_locks` | 3 nodes, 2 words in one bucket, 1 slot to a line, with and without bits, early release of one word | the table is a lock table; counts, logs and slots agree |
| `ssht_restore` | the same word locked for writing twice | **violated**: `WriterAlone` |
| `txmem` | 2 threads, 3 blocks each, ring of 4 | `OneOwner`, `LostByWrap` |
| `txmem_plain` | transactions that allocate end by `TX_COMMIT` | **violated**: `OneOwner` |
| `intset` | 2 processes, 3 values, 2 buckets, 3 blocks, 3 operations each, five drivers, no early release | `ImplementsSet`: operations are linearizable; `ListsIntact`, `BlocksAccounted`, `LooksAtLinked`, `SizeKept` |
| `intset_early` | `EARLY_RELEASE`: 3 processes that update, 3 values, 1 list, 2 operations each | **violated**: `SizeKept` |
| `pgas` | 3 nodes, 2 DSL nodes, 2 accounts, six builds | `CommitsAtOnce`, `ReadsCurrent`, `TotalRight` |
| `lifecycle` | 2 application and 2 DSL nodes, six platforms, PGAS or not, flags left over or not, fairness | `FlagsUsable`, `NothingAfterFree`, `ServiceDrained`, `StatsComplete`, `InTurn`, `Ends` |
| `clients` | 3 application nodes, eleven programs (tm3 in both modes) | `SeenWhole`, `BytesOnce`, `BarriersMatch` |

`Serializable` is a refinement: `Effective` maps the memory to the abstract one
by counting a transaction that writes back as done. The abstract step, which
reads and replaces the memory at once, is `SetPersisting`.

There is no run for `NOCM` and none with three nodes in `Tm2c`: `Isolated`,
`HoldsLocks`, `Snapshot` and `Serializable` are proved for every contention
manager and any number of nodes. That a request evicts several readers one after the
other, with other nodes in between, is in those proofs (`LockInv`) and in the three nodes of `pgas`.

**Bounds.** `MaxTx` bounds the transactions of a node. Two are needed, since
most of what can go wrong is left over from one to the next (a flag, a
timestamp, a release in its slot); where liveness makes that too
large one is used, and retries, which are not bounded, play that part. Two words
and two DSL nodes let the locks of one transaction be at different servers and
two requests meet in both orders. `Durations` is {1, 2} where the contention manager uses it. In `Ssht`
one bucket with lines of one slot makes every reuse and growth happen with two
words. `NrMod` is 256 as in the code. With bits a log can grow without end by repeated loads; `MaxLog` is 2, enough for the same slot twice
or for both words. In `TxMem`, `RingMod` is 4 so that the
ring fills up, `Region` and `MaxOps` bound the blocks and the operations of a transaction. No symmetry
is used there: node ids break ties.

In `IntSet` three values in two buckets give a bucket with two values, so that neighbours are removed
at the same time, and a bucket to move to; three blocks are one fewer than two
processes could want, so blocks are reused at once. Three operations allow an insertion, a removal and one that
looks again where the removed node was. Processes and blocks are symmetric. In `Pgas`, three nodes are what the
stale read needs (`ReadsCurrent` without its exception fails); one transaction each, and retries.
In `Lifecycle`, two of each kind of node make turns, sums and the least node of
each kind differ; `MaxRequests` is 2, so that a release follows a request and another request can be served
before it; `Room` bounds the network of TILERA to two messages. In
`Clients`, `MaxReps` is 2 where rounds of a timed loop can meet (tm2, tm5), `REPS` is 1 so that tm3 goes
around as often as the array has words, `File` has
three bytes and chunks of two, so one chunk is cut short.

`Tm2c` allows the end state in which all transactions are done (`Terminated`),
so the deadlock check is on in its runs, as in those of `Ssht`, `TxMem` and `Pgas`. It is off in `intset`
(every process may have called its `MaxOps` operations, or find no free block), `lifecycle`
(the nodes end; `Ends` says that all do) and `clients` (tm2 can really hang, see below).

**Fairness** is used for `Terminates` and `Ends` only. For `Terminates`: every application node takes the steps it can
take (they are threads; nothing makes them begin another transaction, so `Begin`
has none); a DSL node that evicts holders goes on (weak fairness: it is in a loop
of its own); and a DSL node serves each client again and again. The last is
strong fairness: `ssmp_recv_color_start` polls the clients in turn, so a client whose
message is pending while the service is busy on and off is served in its turn. Weak
fairness would not say so, because the action is disabled while the DSL node is
busy with another client. For `Ends`, weak fairness of the next instruction of every node,
of a barrier that everybody has reached, and of `Serve` for each client: nothing
disables these but the step itself, since a service that polls a pending message is not
modelled as busy in between.

## Findings

1. **A word locked for writing twice** (`ssht_restore`). The table logs the slot
   twice, and the release of the second log entry counts down readers that do
   not exist. The 8-bit count wraps to 255 in a free slot, the next reader makes
   it 0, and a writer is granted the word beside that reader. Two `TX_STORE`s of
   the same word in one transaction suffice, as in `ht_move_orrollback`.
2. **Blocks of a committed transaction freed by a later abort** (`txmem_plain`).
   `TX_COMMIT`, unlike `TX_COMMIT_MEM`, leaves the list of allocated blocks as
   it is. `ht_move_orrollback` allocates and ends by `TX_COMMIT`.
3. **An insertion lost by early release** (`intset_early`). An update of a list built with
   `EARLY_RELEASE` keeps the locks of its last two pointers (`linkedlist.c:298`). The block before the
   pointer it will write can then be unlinked by a write to a pointer whose
   lock was released, and after that the block with the pointer itself. The update commits into a block that is no longer
   linked, and reports success. It takes three processes; two conflict in time. The switch is off
   by default (`linkedlist.h:30`).

Met while modelling, without a run of their own:

* tm2 has its barrier inside a loop that each node ends by its own clock;
  a node that goes around once more waits forever. `BarriersMatch` excepts it.
* A live reader of the PGAS build can hold a value that is no longer current (see Pgas above).
* On TILERA `sys_is_processed` is always true, so a total read after the last
  barrier may miss a release; `TotalRight` excepts it.
* Two `TX_LOAD_STORE`s of one word in a transaction lose the first, in every
  build; the clients avoid it.
* An increment of the PGAS build is added to the 64-bit word, which in the bank holds
  balance and number: an overdraft borrows from the number (`bankpgas.c:87`). The totals
  add balances only; `Pgas` has the balance alone.
* `rand_range` includes its upper end.
* Without arguments, the last round of tm3 loads words behind its array, because
  `rounds++` is in the test of the loop (`tm3.c:68`, `tm3.c:75`).
* NIAGARA sends `aborts_war` as number 4 and `aborts_raw` as 5 and adds them up the
  other way round, so the two are printed under each other's name (see `Lifecycle`).

## The proofs

TLAPS checks, for all constants that satisfy the assumptions of the module,

| Theorem | Statement |
|---|---|
| `Tm2cSafety!TypeSafety` | `Spec => []TypeOK` |
| `Tm2cSafety!Invariance` | `Spec => []IInv` |
| `Tm2cSafety!TwoPhaseLocking` | `Spec => []HoldsLocks` |
| `Tm2cSafety!Isolation` | `Spec => []Isolated` |
| `Tm2cSafety!ConsistentSnapshot` | `Spec => []Snapshot` |
| `Tm2cSafety!Serializability` | `Spec => Serializable`, that is `Spec => Serial!ASpec` |
| `Tm2cSafety!LocksReleased` | `Spec => []NoLostLock` |
| `Tm2cSafety!PrioritiesCurrent` | `Spec => []PriorityCurrent` |
| `Tm2cSafety!AbortedByElder` | `Spec => KilledByElder` |
| `SshtProofs!TypeCorrect` | `Spec => []TypeOK` of `Ssht` |
| `SshtProofs!Counted`, `WriterIsAlone`, `Reclaimed`, `LogsName` | `Spec => []CountsReaders`, `[]WriterAlone`, `[]SlotsReclaimed`, `[]LogsMatch` |
| `SshtProofs!Implements` | `Spec => ImplementsLockTable`, that is `Spec => Locks!TSpec` |
| `TxMemProofs!TypeCorrect`, `Owned` | `Spec => []TypeOK` of `TxMem`, `Spec => []OneOwner` |
| `TxMemProofs!Lost` | `Spec => LostByWrap` |
| `PgasProofs!TypeCorrect`, `ReadsCurrentHolds` | `Spec => []TypeOK` of `Pgas`, `Spec => []ReadsCurrent` |
| `PgasProofs!CommitsAtOnceHolds` | `Spec => CommitsAtOnce` |
| `PgasProofs!TotalHolds` | `Spec => []TotalRight` |
| `IntSetProofs!Invariant`, `TypesKept` | `TestPrograms => (Spec => []IInv)`, the same of `TypeOK` of `IntSet` |
| `IntSetProofs!Integrity`, `Accounted`, `Looks` | the same of `ListsIntact`, `BlocksAccounted`, `LooksAtLinked` |
| `IntSetRefines!Implements` | `TestPrograms => (Spec => ImplementsSet)`, that is `Abstract!SSpec` |
| `IntSetRefines!Sizes` | `TestPrograms => (Spec => []SizeKept)` |
| `ClientsProofs!TypesHold`, `BarriersHold` | `Spec => []TypeOK` of `Clients`, `Spec => []BarriersMatch` |
| `ClientsProofs!SeenHolds` | `Spec => []SeenWhole` |

**Hypotheses.** For `Tm2c`: any nodes, DSL nodes, words, transactions, contention manager
and bound. Node ids are naturals, `NoNode` is not one of them (in the code the
writer id 255 is, with 256 nodes; see the hazards), every word has a DSL
node, and the bodies are `Transactions`. The theorems about `Ssht` assume `~Restores` and
`Cardinality(Nodes) < NrMod`. The first is what the bank, the list and map-reduce do, and what
`Tm2c` assumes; without it they are false (`ssht_restore`). The second holds on every platform:
the count is a byte and node ids are bytes of which 255 is the absent writer. Any number of words,
buckets, slots to a line is covered, both kinds of entries, any set of words released early. The
theorems about `TxMem` assume `~PlainMem`, without which they are false (`txmem_plain`), and hold
for any number of threads, any region, any length of the ring and any reserve. Those about `Pgas`
hold for any nodes, DSL nodes and accounts, any assignment of accounts to DSL nodes and any set of
builds, if no transaction uses a word twice, as in `bankpgas.c`, where `dst` is moved
when it equals `src` (lines 283-286; see the findings for what becomes of two increments of one
word), and if `NOCM` is the only manager on TILERA and SCC, where `abort_node_is_persisting` does not compile.
Those about `IntSet` assume `TestPrograms`: the driver is one of the test programs of the list and the hash
table, shared or PGAS, and the build is one without `EARLY_RELEASE`, the default. With early release
`SizeKept` is false (finding 3). They hold for any processes, values, buckets and blocks, any number of
operations, with and without `-A` and `-u 100`. The calls of the driver `api`, which no test
program makes, are model-checked. Those about `Clients` hold for each of the programs, any nodes, words, accounts and
iterations, and any file and chunk.

### Tm2c

None of the properties is inductive. `HoldsLocks` alone says that the locks are
there, and does not say why the next step leaves them: a release may be in a
slot, a DSL node may be half way through an eviction, a grant may be under way.
`IInv` adds

* `MsgInv`: a request is at one place (slot, service, reply) and is the one its
  node awaits; when it is in its slot, an old release cannot be, because the slot
  holds one message;
* `LockInv`: a writer is alone on its word, and a DSL node that evicts has all
  holders except the requester on its list, so that the grant keeps it so;
* `HoldInv`: the locks an attempt relies on are not named by a release on its
  way, and a grant that the node has not read yet is a lock that is held;
* `Unabortable`: a node that writes back has its flag at `PERSISTING_WRITES`, so
  `abort_node` waits for it; without a contention manager nobody evicts;
* `Snapshot`: the values read are current, since writing back needs the write
  lock, and `LockInv` excludes the reader.

`Tm2cSafety` proves the typing part action by action, then that
each action keeps the messages, the locks and what is held (`MsgStep`,
`LockStep`, `HoldStep`), then the rest, and puts the theorems together. `Isolated` follows from the locks (`IsolatedByLocks`) without being
part of the invariant: two nodes with the same word, one of them a writer, would contradict
`LockInv`.

The refinement follows from these. It needs three more facts on each
node (`WriteInv`): its write set holds the value of this transaction only, the
entries counted by `nw` are in the memory while it writes back, and `last` is
one ahead of `ntx` from TXPERSISTING to the end of the commit. `Isolated` makes
`Effective` well defined (`EffectiveWord`: one writer per word). Then
`SetPersisting` is the commit of `SerialMemory`, its reads being current by
`Snapshot`; `PersistEntry` writes a value that `Effective` showed already;
`SetCommitted` finds all of them in the memory; every other step stutters.

The second part of `Tm2cSafety` adds two groups. `ReleaseInv`: a node has contacted the DSL node it waits
for, and a DSL node that refuses has taken all its locks from the requester (`Stripped`), which is
why the requester may leave it out of its release. `PriorityInv`: a request carries the
priority of its transaction and a release that or an earlier one (`Stamped`); what a DSL node knows
is never ahead of the node (`NotAhead`), and for GREEDY it is 0, the priority itself, or about to be
reset by a release in the slot; while a node is served, and until it reads that it is granted,
its priority is known (`Noticed`); and whoever is being aborted comes after the one it is aborted for
(`Rightful`). The proof of `KilledByElder` needs the last two: the priorities the DSL
node compared are those the property speaks of.

### Ssht

`IInv` of `SshtProofs` says of a chain and its logs: each slot is sound (its count is the
number of its readers, a writer is alone, no lock without an address); each log
names a slot as often as its node has locks there; every log entry names a slot there is; an
address is in the chain of its bucket and in one slot of it; and what a node has stored it has locked. It
is stated of a table and logs, not of the variables, because a grant is composed
of an insertion, evictions and a log entry, each of which has its own
lemma. In the middle of a removal the log of the node is walked in part: the invariant
of that loop (`Walked`) says that what is left of the log (`Rest`) matches what is left in the slots. A loop is a
function on the naturals, and a statement about it is proved of all its prefixes
by `Upwards` (a set with 0 and the successors of its members has all naturals), which is
well-foundedness of `<`: the induction theorems of the library cannot be used, since they
take an operator.

For `Implements`, the refinement mapping of `Ssht` reads the readers and the writer of a word off the slot that
holds its address. `EntryIn` names this slot, which `Addressed` makes unique; `Fills`,
`ShowsLess` and their like say what an operation on slots does to it. A
grant is then one grant of `LockTable`, with the losers that it evicted; a refusal and RMV_NODE are its removal
of a node; LOAD_RLS and STORE_FINISH its release of one lock or a stutter.

### TxMem

`MemInv` says that the lists of an attempt are, without repetition, the blocks it links in and unlinks
(`Noted`), and that the structure, the attempts, the rings and the rest of the regions
have no block in common (`Apart`). What makes it inductive is that a ring keeps a
suffix of what it had and was given (`Kept`), whose entries differ when those
of both parts do (`Freed`). `Lost` needs the converse: when nothing wraps, the
suffix is everything.

### IntSet

`IInv` of `IntSetInv` is about the memory, the blocks of each list, and each attempt:

* `Shape`: every list is linked from its first block to its last in the order of the values and leaves no value
  out (`IsList`);
* `Memory`: a spare block is linked, free, or allocated by one attempt, and only one of these;
* `Form`: what the locals, locks and write set of an attempt look like at each point, whether it has lost or not;
* `Live`: while an attempt has its locks, the words it has locked are on the lists, each with the one
  before it (`Guarded`), it is at a node of the list that comes before its value, or at the pair of nodes around it
  (`Position`), and its write set unlinks or links in exactly at that pair (`Writes`).

An attempt that has lost knows nothing of the sort, and it may see any
block. That it writes nothing of what it sees is what the proofs of the steps after the
walk come down to. A commit changes the lists by
`CutOut` or `LinkIn`, or both for a move; the lemmas about these say that the lists stay lists, that one value is
gone or there, and that what an attempt knows stays true if none of the words it has locked is
written. That the nodes reached from the first block (`From`, a function defined by following pointers) are those of
the list is proved by `Upwards`, as the loops of `Ssht` are.

For `ImplementsSet`, `Effect` says of a commit what `SetSpec` says of a return: the answer is whether the value was
there, and the set is changed by it. Populating is `Fill`, the beginning of a call `Call`, the commit `Return`, and everything
else stutters. A snapshot locks one list after the other: `CountInv` says that what it has summed up is
the sum of the values up to where it is (`Reached`), and these cannot change any more, because their nodes are locked. Adding up
node by node and adding up over the set agree by `SumSetAdd` and by `SameFold`, which says that a sum does not depend on
the order the fold chooses. `Sums` derives both from the definition of the folds: a set and the set without one of its
elements, up to the whole set, by the well-foundedness of the cardinalities.

`SizeKept` counts blocks, and a block has one value (`SizeIs`). `SizeInv` adds what each process remembers: with `-A` the value
that it has added and will remove is in the set, and nobody else's (`Sized`).

The three invariants were found to hold by TLC on the instances of `intset` without the driver `api`
(935,000 states for `IInv`) before they were proved.

### Pgas

`CommitsAtOnce` compares the memory before and after a step; the invariant `PgasInv` says
what the step finds. It has four layers.

* Where everybody is. `Control` and `Contacts`: the transactions are in the stage "run", and an attempt has
  contacted the DSL nodes of its words only. `Slot`: a request in a slot is the one its node waits
  for; a store without a transaction is followed by a load at the same DSL node, so none is left when the
  transactions begin; a release in a slot is for a DSL node that the next attempt has not reached, and an
  aborted one is for a DSL node it has to reach, so it cannot be there at the next commit. `Waited` and
  `Flagged`: where holders are aborted, a committed node waits for its release to be
  taken, and its flag is `PERSISTING_WRITES` exactly then. This is what makes it right that the DSL node decides by the flag
  whether to write a victim's share back or to drop it.
* What is buffered. `Buffers`: entries are about words of that DSL node which their node has locked
  for writing, so no two nodes have entries for a word, and they are there only while the attempt runs or
  its release is to come. `Own`: while it runs, they are its own stores, not leftovers.
* Who is about to lose. `Losing` and `Doomed`: a DSL node that aborts holders for a store has the
  writer with its entries, and every live reader that relies on the word, on its list. A victim that
  has lost still has its locks, so "the word has a writer" does not do here; "the writer has nothing buffered" does.
* The values. `Stored`: a live attempt has buffered the value of each of its stores, computed from the
  memory as it is now, although an increment was computed when it was granted. `Read`: words relied on have no writer
  and the value that was read.

For a word, `EffectiveIs` says that at most one node has a share in effect (`Owners`), the one that has
locked it. A step then leaves the owners of the word and their shares alone (`WordSame`); or writes a share
back and removes it (`WordWritten`, for RMV_NODE as for a victim that persists); or is the compare-and-swap, and
the shares of the node come into effect with the values that `Stored` gives (`CommitWord`). `ReadsCurrent`
follows from `Read`, since a word without a writer has no owner.

`TotalRight` needs `TotalInv` besides. Where releases are waited for, a node is not past its commit while a
release of it is in a slot (`Parked`), so after the last barrier no DSL node has anything to
do for a transaction (`AtRest`), nothing is buffered and the memory does not change (`MemAtRest`). `ONCE` has then
added up the accounts before the one it is at (`Summed`, with the sum functions of `Sums`). On TILERA
releases are not waited for, and the property says nothing of the sum there.

### Clients

A program is a sequence put together with `\o` from the parts of the code, some of them repeated for each node or word, and
the difficulty is to know where a statement is and what comes before and after it. `ProgramParts` says
of each program which groups it is made of, in order; an element of the whole has a group and a place in it
(`Made`), and from this follow which statements a program has, that a loop's `again` leads back into it (`LoopMoves`),
and that `while_chunk` finds its `end_chunk` and the other way round (`MrPlaces`). `Control` is the inductive invariant:
the types; the locals of each node fit the place it is at (`Placed`): inside a transaction at a `tx`, with a body that is
one of those of the statement; and all nodes have the same number of barriers ahead of
them, the one they wait at included (`Level`). A timed loop without a barrier in it does not change this number however
often it is entered (`LoopBars`), which is why tm2 is excepted.

`SeenWhole` needs `SeenInv` besides. An attempt is `Tracked`: its write set comes from the operations
it has done, and what it has read is what the memory still has at each word it locked, unless it has `lost` a lock, and then
it cannot commit. So a commit is a step from the memory that was read to the one that was computed from it, and it
remains to say what the memory of each program is between commits: the balances add up to 0 (`InBank`: a transfer
takes from one account what it adds to another), the array of tm2 is as the last barrier allows (`InTm2`: in front of a
barrier every node has passed as many as the others, and the writer has finished), the arrays of tm4, tm6, tm8 and tm9 are as
the nodes have initialised them or as one node has written them (`InTms`). `SeenBy` is the property of the last reads, which follows
from these at the commit of a reader.

### Only model-checked

`Terminates` and `Ends` are liveness, which is beyond the prover. `Lifecycle`, and `BytesOnce` of `Clients`,
are checked and not proved: what remains of a program says how many messages and bytes are still to come, and invariants
about it are inductions over these sequences. `IntSet` with the driver `api` and with early release is checked
too; the second has the finding.

## Not modelled

* `EAGER_WRITE_ACQ`, and GREEDY with offsets instead of the global timestamp.
* The effect of `TX_RRLS` on `nodes_contacted` and on GREEDY's timestamps, its
  effect on locks being in `Ssht` and its use in `IntSet`.
* Address arithmetic: the hash functions and the offsets of `pgas_app.c` are constants of which only
  totality is used.
* The width of values, which the write set cuts to 32 bits: no interleaving
  matters to it.
* libssmp, which is not in the repository; the caches, pinning and network
  registers of TILERA and SCC; `fakemem.c`.
* Programs and parts of programs that run no transactions: `mp.c`, `tm1.c`, the sequential
  variants of the list and of map-reduce, parsing of arguments.
* `measurements.c`, which only reads clocks.
* Failures of `fork`, `pthread_create` or `shm_open`: the code prints and goes on or exits.

Nothing in the code recovers from a node that crashes or a message that is lost, so no
model has such faults, but for what an earlier execution leaves behind (`Leftovers`).

## Plan

1. The counting arguments of `Lifecycle` (`ServiceDrained`, `FlagsUsable`) and `Clients` (`BytesOnce`) as theorems.
2. `Tm2c` with `TX_RRLS`: `nodes_contacted` as counts, LOAD_RLS messages,
   and what a release of all words but one leaves at a DSL node (GREEDY's
   timestamp). A word released early leaves the set of words relied on, and the
   theorems are to be kept.
