-------------------------------- MODULE Tm2c --------------------------------
(***************************************************************************)
(* The transaction protocol of TM2C on shared memory (the non-PGAS builds, *)
(* lazy write acquisition).                                                *)
(*                                                                         *)
(* Application nodes run transactions.  Every word of the shared memory    *)
(* has a responsible DSL node, a server that keeps the readers and the     *)
(* writer of its words.  A transaction asks for a read lock before it      *)
(* loads a word, buffers its stores, asks for the write locks when it      *)
(* commits, and then writes the memory itself.  A DSL node settles a       *)
(* conflict by the priorities of the two sides: either it refuses the      *)
(* request, or it aborts the holders by a compare-and-swap on their abort  *)
(* flags, which are shared memory too, and takes their locks away.         *)
(*                                                                         *)
(* One action is one step of one thread: an access to an abort flag, to    *)
(* the shared memory or to a message slot.                                 *)
(***************************************************************************)
EXTENDS Naturals, Sequences, FiniteSetsExt

CONSTANTS
  Apps,          \* application nodes, by node id
  Dsls,          \* DSL nodes, by their rank in dsl_nodes
  Addrs,         \* words of the shared memory
  Responsible,   \* the DSL node of a word: get_responsible_node
  CM,            \* the contention manager of the build
  Bodies,        \* the transactions the client of each node runs
  Durations,     \* ticks a committed transaction may have taken (FAIRCM)
  MaxTx,         \* bound: transactions a node runs
  InitVal,       \* what a word holds at the start
  NoNode         \* SSHT_NO_WRITER

\* What a transaction does at a word.  LOADSTORE locks at once and is
\* committed by TX_COMMIT_NO_PUB; STORE buffers and needs TX_COMMIT.
Operation == [op : {"LOAD", "STORE", "LOADSTORE"}, addr : Addrs]

\* The operations of b that enter the write set.
Stores(b) == {i \in DOMAIN b.ops : b.ops[i].op # "LOAD"}

\* The transactions as the clients of the library write them: each is published
\* by the commit macro its stores need, and stores a word once.
Transactions ==
  {b \in [ops : Seq(Operation), pub : BOOLEAN] :
     /\ \A i \in Stores(b) : (b.ops[i].op = "STORE") = b.pub
     /\ \A i, j \in Stores(b) : b.ops[i].addr = b.ops[j].addr => i = j}
NoTransaction == [ops |-> <<>>, pub |-> TRUE]

ASSUME NodesAssumption == Apps \subseteq Nat /\ Dsls \subseteq Nat /\ NoNode \notin Apps
ASSUME ResponsibleAssumption == Responsible \in [Addrs -> Dsls]
ASSUME CMAssumption == CM \in {"NOCM", "WHOLLY", "FAIRCM", "GREEDY"}
ASSUME BodiesAssumption == Bodies \in [Apps -> SUBSET Transactions]
ASSUME BoundsAssumption == Durations \subseteq Nat \ {0} /\ MaxTx \in Nat

VARIABLES
  \* application nodes
  pc,          \* where the transaction is
  body,        \* its code
  ip,          \* the next operation of it
  nw,          \* entries of the write set locked or, once persisting, written
  wset,        \* the write set, in the order of the stores
  reads,       \* the words it loaded from memory, with the values it saw
  contacted,   \* DSL nodes to release: nodes_contacted > 0
  prio,        \* what it sends as tx_metadata
  ntx,         \* transactions committed
  clock,       \* greedy_global_ts
  \* shared memory
  mem,
  flag,        \* cm_abort_flags
  \* message slots
  chan,        \* requests, application to DSL
  resp,        \* replies
  \* DSL nodes
  readers, writer,   \* the locks
  ts,          \* cm_metadata_core[].timestamp
  serving,     \* the request whose holders are being aborted
  victims,     \* the holders still to abort
  \* the last transaction committed by each node, for Serial
  last

appVars == <<pc, body, ip, nw, wset, reads, contacted, prio, ntx, clock>>
dslVars == <<readers, writer, ts, serving, victims>>
vars == <<appVars, mem, flag, chan, resp, dslVars, last>>

\* The value a transaction stores: whose it is, and which of the node's.
Values == {InitVal} \cup (Apps \X Nat)
Entry == [addr : Addrs, val : Values]
NoMsg == [type |-> "NONE"]
Request == [type : {"LOAD", "STORE"}, addr : Addrs, meta : Nat]
Release == [type : {"RMV_NODE"}, meta : Nat]
Job == [app : Apps, type : {"LOAD", "STORE"}, addr : Addrs]
NoJob == NoMsg

Init ==
  /\ pc = [p \in Apps |-> "idle"]
  /\ body = [p \in Apps |-> NoTransaction]
  /\ ip = [p \in Apps |-> 1]
  /\ nw = [p \in Apps |-> 0]
  /\ wset = [p \in Apps |-> <<>>]
  /\ reads = [p \in Apps |-> {}]
  /\ contacted = [p \in Apps |-> {}]
  /\ prio = [p \in Apps |-> 0]
  /\ ntx = [p \in Apps |-> 0]
  /\ clock = 0
  /\ mem = [a \in Addrs |-> InitVal]
  /\ flag = [p \in Apps |-> "NO_CONFLICT"]
  /\ chan = [d \in Dsls |-> [p \in Apps |-> NoMsg]]
  /\ resp = [p \in Apps |-> "NONE"]
  /\ readers = [a \in Addrs |-> {}]
  /\ writer = [a \in Addrs |-> NoNode]
  /\ ts = [d \in Dsls |-> [p \in Apps |-> 0]]
  /\ serving = [d \in Dsls |-> NoJob]
  /\ victims = [d \in Dsls |-> {}]
  /\ last = [p \in Apps |-> [n |-> 0, reads |-> {}, writes |-> {}]]

-----------------------------------------------------------------------------
(* The application node. *)

HasCM == CM # "NOCM"

BodyDone(p) == ip[p] > Len(body[p].ops)
Op(p) == body[p].ops[ip[p]]
WrittenAddrs(p) == {wset[p][i].addr : i \in DOMAIN wset[p]}
ReadAddrs(p) == {r[1] : r \in reads[p]}

\* The next operation loads a word that the write set holds.
OwnLoad(p) == ~BodyDone(p) /\ Op(p).op = "LOAD" /\ Op(p).addr \in WrittenAddrs(p)
BufferedStore(p) == ~BodyDone(p) /\ Op(p).op = "STORE"
\* The commit has locks to acquire before it writes; TX_COMMIT_NO_PUB has none.
LocksMissing(p) == body[p].pub /\ nw[p] < Len(wset[p])
ReadyToPersist(p) == BodyDone(p) /\ ~LocksMissing(p)
NeedsLock(p) ==
  IF BodyDone(p) THEN LocksMissing(p) ELSE ~OwnLoad(p) /\ ~BufferedStore(p)

\* The word whose lock the transaction needs next, and the lock.
LockAddr(p) == IF BodyDone(p) THEN wset[p][nw[p] + 1].addr ELSE Op(p).addr
LockType(p) == IF ~BodyDone(p) /\ Op(p).op = "LOAD" THEN "LOAD" ELSE "STORE"
LockDsl(p) == Responsible[LockAddr(p)]

\* TXCHKABORTED
Aborted(p) == HasCM /\ flag[p] # "NO_CONFLICT"

\* TX_START of a new transaction; GREEDY takes its timestamp here, once.
Begin(p) ==
  /\ pc[p] = "idle" /\ ntx[p] < MaxTx
  /\ pc' = [pc EXCEPT ![p] = "start"]
  /\ \E b \in Bodies[p] : body' = [body EXCEPT ![p] = b]
  /\ IF CM = "GREEDY"
     THEN clock' = clock + 1 /\ prio' = [prio EXCEPT ![p] = clock + 1]
     ELSE UNCHANGED <<clock, prio>>
  /\ UNCHANGED <<ip, nw, wset, reads, contacted, ntx, mem, flag, chan, resp, dslVars, last>>

\* TXRUNNING, of the first attempt and of every retry
Running(p) ==
  /\ pc[p] = "start"
  /\ pc' = [pc EXCEPT ![p] = "body"]
  /\ flag' = IF HasCM THEN [flag EXCEPT ![p] = "NO_CONFLICT"] ELSE flag
  /\ UNCHANGED <<body, ip, nw, wset, reads, contacted, prio, ntx, clock,
                 mem, chan, resp, dslVars, last>>

\* tx_load of a word in the write set
LoadOwn(p) ==
  /\ pc[p] = "body" /\ OwnLoad(p)
  /\ ip' = [ip EXCEPT ![p] = @ + 1]
  /\ UNCHANGED <<pc, body, nw, wset, reads, contacted, prio, ntx, clock,
                 mem, flag, chan, resp, dslVars, last>>

\* TX_STORE
Store(p) ==
  /\ pc[p] = "body" /\ BufferedStore(p) /\ ~Aborted(p)
  /\ wset' = [wset EXCEPT ![p] = Append(@, [addr |-> Op(p).addr, val |-> <<p, ntx[p] + 1>>])]
  /\ ip' = [ip EXCEPT ![p] = @ + 1]
  /\ UNCHANGED <<pc, body, nw, reads, contacted, prio, ntx, clock,
                 mem, flag, chan, resp, dslVars, last>>

\* tm2c_rpc_load or tm2c_rpc_store up to the send, after a TXCHKABORTED that passed
Contact(p) ==
  /\ pc[p] = "body" /\ NeedsLock(p) /\ ~Aborted(p)
  /\ pc' = [pc EXCEPT ![p] = "send"]
  /\ contacted' = [contacted EXCEPT ![p] = @ \cup {LockDsl(p)}]
  /\ UNCHANGED <<body, ip, nw, wset, reads, prio, ntx, clock,
                 mem, flag, chan, resp, dslVars, last>>

\* TX_ABORT by a TXCHKABORTED, or by the compare-and-swap of TXPERSISTING
NoticeAbort(p) ==
  /\ pc[p] = "body" /\ ~OwnLoad(p) /\ Aborted(p)
  /\ pc' = [pc EXCEPT ![p] = "abort"]
  /\ UNCHANGED <<body, ip, nw, wset, reads, contacted, prio, ntx, clock,
                 mem, flag, chan, resp, dslVars, last>>

\* tm2c_rpc_sendb: waits for the slot to be free
Send(p) ==
  /\ pc[p] = "send" /\ chan[LockDsl(p)][p] = NoMsg
  /\ pc' = [pc EXCEPT ![p] = "wait"]
  /\ chan' = [chan EXCEPT ![LockDsl(p)][p] =
                [type |-> LockType(p), addr |-> LockAddr(p), meta |-> prio[p]]]
  /\ UNCHANGED <<body, ip, nw, wset, reads, contacted, prio, ntx, clock,
                 mem, flag, resp, dslVars, last>>

\* tm2c_rpc_recvb returns NO_CONFLICT: the operation goes on.  A load and a
\* LOADSTORE read the memory, and do not look at the flag again first.
Granted(p) ==
  /\ pc[p] = "wait" /\ resp[p] = "NO_CONFLICT"
  /\ pc' = [pc EXCEPT ![p] = "body"]
  /\ resp' = [resp EXCEPT ![p] = "NONE"]
  /\ LET a == LockAddr(p) IN
     IF BodyDone(p)
     THEN nw' = [nw EXCEPT ![p] = @ + 1] /\ UNCHANGED <<ip, wset, reads>>
     ELSE /\ ip' = [ip EXCEPT ![p] = @ + 1]
          /\ reads' = [reads EXCEPT ![p] = @ \cup {<<a, mem[a]>>}]
          /\ wset' = IF Op(p).op = "LOAD" THEN wset
                     ELSE [wset EXCEPT ![p] = Append(@, [addr |-> a, val |-> <<p, ntx[p] + 1>>])]
          /\ UNCHANGED nw
  /\ UNCHANGED <<body, contacted, prio, ntx, clock, mem, flag, chan, dslVars, last>>

\* tm2c_rpc_recvb returns a conflict: the DSL node has nothing left to release
Refused(p) ==
  /\ pc[p] = "wait" /\ resp[p] = "CONFLICT"
  /\ pc' = [pc EXCEPT ![p] = "abort"]
  /\ resp' = [resp EXCEPT ![p] = "NONE"]
  /\ contacted' = [contacted EXCEPT ![p] = @ \ {LockDsl(p)}]
  /\ UNCHANGED <<body, ip, nw, wset, reads, prio, ntx, clock, mem, flag, chan, dslVars, last>>

\* Mutant of MayPersist: the flag is set without looking at it.
MayPersistAlways(p) == TRUE

\* The compare-and-swap of TXPERSISTING finds NO_CONFLICT.
MayPersist(p) == ~Aborted(p)

\* TXPERSISTING succeeds: from here the transaction cannot be aborted
SetPersisting(p) ==
  /\ pc[p] = "body" /\ ReadyToPersist(p) /\ MayPersist(p)
  /\ pc' = [pc EXCEPT ![p] = "persist"]
  /\ flag' = IF HasCM THEN [flag EXCEPT ![p] = "PERSISTING_WRITES"] ELSE flag
  /\ nw' = [nw EXCEPT ![p] = 0]
  /\ last' = [last EXCEPT ![p] = [n |-> ntx[p] + 1, reads |-> reads[p],
                writes |-> {<<wset[p][i].addr, wset[p][i].val>> : i \in DOMAIN wset[p]}]]
  /\ UNCHANGED <<body, ip, wset, reads, contacted, prio, ntx, clock,
                 mem, chan, resp, dslVars>>

\* write_set_persist, one entry
PersistEntry(p) ==
  /\ pc[p] = "persist" /\ nw[p] < Len(wset[p])
  /\ nw' = [nw EXCEPT ![p] = @ + 1]
  /\ mem' = [mem EXCEPT ![wset[p][nw[p] + 1].addr] = wset[p][nw[p] + 1].val]
  /\ UNCHANGED <<pc, body, ip, wset, reads, contacted, prio, ntx, clock,
                 flag, chan, resp, dslVars, last>>

\* TXCOMMITTED
SetCommitted(p) ==
  /\ pc[p] = "persist" /\ nw[p] = Len(wset[p])
  /\ pc' = [pc EXCEPT ![p] = "release"]
  /\ flag' = IF HasCM THEN [flag EXCEPT ![p] = "TX_COMMITTED"] ELSE flag
  /\ UNCHANGED <<body, ip, nw, wset, reads, contacted, prio, ntx, clock,
                 mem, chan, resp, dslVars, last>>

\* tm2c_rpc_rls_all, one DSL node, in the order of dsl_nodes
SendRelease(p) ==
  /\ pc[p] \in {"release", "abort"} /\ contacted[p] # {}
  /\ LET d == Min(contacted[p]) IN
     /\ chan[d][p] = NoMsg
     /\ chan' = [chan EXCEPT ![d][p] = [type |-> "RMV_NODE", meta |-> prio[p]]]
     /\ contacted' = [contacted EXCEPT ![p] = @ \ {d}]
  /\ UNCHANGED <<pc, body, ip, nw, wset, reads, prio, ntx, clock,
                 mem, flag, resp, dslVars, last>>

\* Mutant of ClearAttempt: the operations are counted from 0.
ClearAttemptToZero(p) ==
  /\ ip' = [ip EXCEPT ![p] = 0]
  /\ nw' = [nw EXCEPT ![p] = 0]
  /\ wset' = [wset EXCEPT ![p] = <<>>]
  /\ reads' = [reads EXCEPT ![p] = {}]

\* The write set and the log of an attempt are emptied.
ClearAttempt(p) ==
  /\ ip' = [ip EXCEPT ![p] = 1]
  /\ nw' = [nw EXCEPT ![p] = 0]
  /\ wset' = [wset EXCEPT ![p] = <<>>]
  /\ reads' = [reads EXCEPT ![p] = {}]

\* The end of TX_COMMIT: CM_METADATA_UPDATE_ON_COMMIT, the statistics
Committed(p) ==
  /\ pc[p] = "release" /\ contacted[p] = {}
  /\ pc' = [pc EXCEPT ![p] = "idle"]
  /\ ClearAttempt(p)
  /\ ntx' = [ntx EXCEPT ![p] = @ + 1]
  /\ \/ CM \in {"NOCM", "GREEDY"} /\ prio' = prio
     \/ CM = "WHOLLY" /\ prio' = [prio EXCEPT ![p] = @ + 1]
     \/ CM = "FAIRCM" /\ \E t \in Durations : prio' = [prio EXCEPT ![p] = @ + t]
  /\ UNCHANGED <<body, contacted, clock, mem, flag, chan, resp, dslVars, last>>

\* The end of tm2c_handle_abort, and the siglongjmp back to TX_START
Retry(p) ==
  /\ pc[p] = "abort" /\ contacted[p] = {}
  /\ pc' = [pc EXCEPT ![p] = "start"]
  /\ ClearAttempt(p)
  /\ UNCHANGED <<body, contacted, prio, ntx, clock, mem, flag, chan, resp, dslVars, last>>

\* Everything but starting one more transaction
AppStep(p) ==
  \/ Running(p) \/ LoadOwn(p) \/ Store(p) \/ Contact(p) \/ NoticeAbort(p)
  \/ Send(p) \/ Granted(p) \/ Refused(p) \/ SetPersisting(p) \/ PersistEntry(p)
  \/ SetCommitted(p) \/ SendRelease(p) \/ Committed(p) \/ Retry(p)

-----------------------------------------------------------------------------
(* The DSL node: dsl_service. *)

Idle(d) == serving[d] = NoJob

\* Mutant of Conflict: the readers of a word do not hinder a writer.
ConflictOfWriters(p, m) ==
  CASE m.type = "LOAD" /\ writer[m.addr] # NoNode -> "READ_AFTER_WRITE"
    [] m.type = "STORE" /\ writer[m.addr] \notin {NoNode, p} -> "WRITE_AFTER_WRITE"
    [] OTHER -> "NO_CONFLICT"

\* What the entry of m.addr says of the request m of node p: bucket_insert_r
\* and bucket_insert_w.
Conflict(p, m) ==
  CASE m.type = "LOAD" /\ writer[m.addr] # NoNode -> "READ_AFTER_WRITE"
    [] m.type = "STORE" /\ writer[m.addr] \notin {NoNode, p} -> "WRITE_AFTER_WRITE"
    [] m.type = "STORE" /\ writer[m.addr] \in {NoNode, p} /\ readers[m.addr] \ {p} # {}
         -> "WRITE_AFTER_READ"
    [] OTHER -> "NO_CONFLICT"

Defenders(p, m) ==
  IF Conflict(p, m) = "WRITE_AFTER_READ" THEN readers[m.addr] ELSE {writer[m.addr]}

\* Mutants of Beats: equal priorities are not told apart; a tie goes to the attacker.
BeatsUntied(t, q, r) == t[q] < t[r]
BeatsOnTie(t, q, r) == t[q] =< t[r] /\ q # r

\* The order of the contention managers: t is what the DSL node knows of priorities.
Beats(t, q, r) == t[q] < t[r] \/ (t[q] = t[r] /\ q < r)

\* contention_manager_raw_waw, contention_manager_war: p may take the lock
Wins(t, p, m) ==
  /\ HasCM
  /\ IF Conflict(p, m) = "WRITE_AFTER_READ"
     THEN \A r \in Defenders(p, m) : ~Beats(t, r, p)
     ELSE \A r \in Defenders(p, m) : Beats(t, p, r)

\* The message of p is taken from its slot and its metadata noted.
NotedTs(d, p) ==
  CASE CM = "NOCM" -> ts[d][p]
    [] CM = "GREEDY" -> IF ts[d][p] = 0 THEN chan[d][p].meta ELSE ts[d][p]
    [] OTHER -> chan[d][p].meta
Noted(d, p) == [ts[d] EXCEPT ![p] = NotedTs(d, p)]
\* Mutant of Forgotten: GREEDY keeps the timestamp of the last transaction.
NeverForgotten(d, p) == NotedTs(d, p)
\* GREEDY forgets the timestamp when the locks of the node go.
Forgotten(d, p) == IF CM = "GREEDY" THEN 0 ELSE NotedTs(d, p)

Take(d, p) == chan' = [chan EXCEPT ![d][p] = NoMsg]

\* tm2c_ht_delete_node
DeleteNode(d, v) ==
  /\ readers' = [a \in Addrs |-> IF Responsible[a] = d THEN readers[a] \ {v} ELSE readers[a]]
  /\ writer' = [a \in Addrs |-> IF Responsible[a] = d /\ writer[a] = v THEN NoNode ELSE writer[a]]

\* Node p gets the lock it asked for, and is told.
Acquire(p, m) ==
  /\ readers' = IF m.type = "LOAD" THEN [readers EXCEPT ![m.addr] = @ \cup {p}] ELSE readers
  /\ writer' = IF m.type = "STORE" THEN [writer EXCEPT ![m.addr] = p] ELSE writer
  /\ resp' = [resp EXCEPT ![p] = "NO_CONFLICT"]

IsRequest(m) == m.type \in {"LOAD", "STORE"}

\* try_load, try_store without a conflict
Grant(d, p) ==
  /\ Idle(d) /\ IsRequest(chan[d][p])
  /\ Conflict(p, chan[d][p]) = "NO_CONFLICT"
  /\ Take(d, p)
  /\ ts' = [ts EXCEPT ![d] = Noted(d, p)]
  /\ Acquire(p, chan[d][p])
  /\ UNCHANGED <<appVars, mem, flag, serving, victims, last>>

\* Mutant of Refuse: the requester keeps its locks here.
RefuseOnly(d, p) ==
  /\ Idle(d) /\ IsRequest(chan[d][p])
  /\ Conflict(p, chan[d][p]) # "NO_CONFLICT"
  /\ ~Wins(Noted(d, p), p, chan[d][p])
  /\ Take(d, p)
  /\ ts' = [ts EXCEPT ![d][p] = Forgotten(d, p)]
  /\ resp' = [resp EXCEPT ![p] = "CONFLICT"]
  /\ UNCHANGED <<appVars, mem, flag, readers, writer, serving, victims, last>>

\* The holders have priority: the requester is told and loses its locks here.
Refuse(d, p) ==
  /\ Idle(d) /\ IsRequest(chan[d][p])
  /\ Conflict(p, chan[d][p]) # "NO_CONFLICT"
  /\ ~Wins(Noted(d, p), p, chan[d][p])
  /\ Take(d, p)
  /\ ts' = [ts EXCEPT ![d][p] = Forgotten(d, p)]
  /\ DeleteNode(d, p)
  /\ resp' = [resp EXCEPT ![p] = "CONFLICT"]
  /\ UNCHANGED <<appVars, mem, flag, serving, victims, last>>

\* The requester has priority: the holders are to be aborted first.
Contend(d, p) ==
  /\ Idle(d) /\ IsRequest(chan[d][p])
  /\ Conflict(p, chan[d][p]) # "NO_CONFLICT"
  /\ Wins(Noted(d, p), p, chan[d][p])
  /\ Take(d, p)
  /\ ts' = [ts EXCEPT ![d] = Noted(d, p)]
  /\ serving' = [serving EXCEPT ![d] =
                   [app |-> p, type |-> chan[d][p].type, addr |-> chan[d][p].addr]]
  /\ victims' = [victims EXCEPT ![d] = Defenders(p, chan[d][p]) \ {p}]
  /\ UNCHANGED <<appVars, mem, flag, resp, readers, writer, last>>

\* Mutants of AbortNode: the holder is not told; it is not waited for.
AbortNodeUntold(v) == flag[v] # "PERSISTING_WRITES" /\ flag' = flag
AbortNodeAtOnce(v) == flag' = [flag EXCEPT ![v] = "CONFLICT"]

\* abort_node: a compare-and-swap, repeated while v persists its writes
AbortNode(v) ==
  /\ flag[v] # "PERSISTING_WRITES"
  /\ flag' = [flag EXCEPT ![v] = IF @ = "NO_CONFLICT" THEN "CONFLICT" ELSE @]

\* abort_node and tm2c_ht_delete_node of the next holder
AbortVictim(d) ==
  /\ ~Idle(d) /\ victims[d] # {}
  /\ LET v == Min(victims[d]) IN
     /\ AbortNode(v)
     /\ DeleteNode(d, v)
     /\ victims' = [victims EXCEPT ![d] = @ \ {v}]
  /\ UNCHANGED <<appVars, mem, chan, resp, ts, serving, last>>

\* All holders are gone.
GrantContended(d) ==
  /\ ~Idle(d) /\ victims[d] = {}
  /\ Acquire(serving[d].app, serving[d])
  /\ serving' = [serving EXCEPT ![d] = NoJob]
  /\ UNCHANGED <<appVars, mem, flag, chan, ts, victims, last>>

\* RMV_NODE
RemoveNode(d, p) ==
  /\ Idle(d) /\ chan[d][p].type = "RMV_NODE"
  /\ Take(d, p)
  /\ ts' = [ts EXCEPT ![d][p] = Forgotten(d, p)]
  /\ DeleteNode(d, p)
  /\ UNCHANGED <<appVars, mem, flag, resp, serving, victims, last>>

\* One iteration of the loop of dsl_service, for a message of p
Serve(d, p) == Grant(d, p) \/ Refuse(d, p) \/ Contend(d, p) \/ RemoveNode(d, p)

DslNext(d) == AbortVictim(d) \/ GrantContended(d) \/ \E p \in Apps : Serve(d, p)

-----------------------------------------------------------------------------
\* Every transaction has been run; the DSL nodes poll empty slots.
Terminated ==
  /\ \A p \in Apps : pc[p] = "idle" /\ ntx[p] = MaxTx
  /\ \A d \in Dsls : Idle(d) /\ \A p \in Apps : chan[d][p] = NoMsg
  /\ UNCHANGED vars

Next == \/ \E p \in Apps : Begin(p) \/ AppStep(p)
        \/ \E d \in Dsls : DslNext(d)
        \/ Terminated

Spec == Init /\ [][Next]_vars

(* Every thread is scheduled: a node takes the steps it can take, and the    *)
(* DSL node polls its clients in turn.  No node has to begin a transaction.  *)
Fairness ==
  /\ \A p \in Apps : WF_vars(AppStep(p))
  /\ \A d \in Dsls : WF_vars(AbortVictim(d) \/ GrantContended(d))
  /\ \A d \in Dsls, p \in Apps : SF_vars(Serve(d, p))

FairSpec == Spec /\ Fairness
-----------------------------------------------------------------------------
(* What is checked. *)

\* The variables keep their types.
TypeOK ==
  /\ pc \in [Apps -> {"idle", "start", "body", "send", "wait", "persist", "release", "abort"}]
  /\ body \in [Apps -> Transactions]
  /\ ip \in [Apps -> Nat \ {0}]
  /\ nw \in [Apps -> Nat]
  /\ wset \in [Apps -> Seq(Entry)]
  /\ reads \in [Apps -> SUBSET (Addrs \X Values)]
  /\ contacted \in [Apps -> SUBSET Dsls]
  /\ prio \in [Apps -> Nat]
  /\ ntx \in [Apps -> Nat]
  /\ clock \in Nat
  /\ mem \in [Addrs -> Values]
  /\ flag \in [Apps -> {"NO_CONFLICT", "CONFLICT", "PERSISTING_WRITES", "TX_COMMITTED"}]
  /\ chan \in [Dsls -> [Apps -> Request \cup Release \cup {NoMsg}]]
  /\ resp \in [Apps -> {"NONE", "NO_CONFLICT", "CONFLICT"}]
  /\ readers \in [Addrs -> SUBSET Apps]
  /\ writer \in [Addrs -> Apps \cup {NoNode}]
  /\ ts \in [Dsls -> [Apps -> Nat]]
  /\ serving \in [Dsls -> Job \cup {NoJob}]
  /\ victims \in [Dsls -> SUBSET Apps]

\* The attempt of p is under way, and no DSL node has aborted or refused it.
Live(p) == /\ pc[p] \in {"body", "send", "wait", "persist"}
           /\ resp[p] # "CONFLICT"
           /\ flag[p] \in {"NO_CONFLICT", "PERSISTING_WRITES"}

\* The words whose write lock the attempt of p has been granted
LockedAddrs(p) == IF pc[p] = "persist" \/ ~body[p].pub
                  THEN WrittenAddrs(p)
                  ELSE {wset[p][i].addr : i \in 1 .. nw[p]}

\* Two-phase locking across DSL nodes: as long as nobody has aborted it, an
\* attempt has every lock it was ever granted, although each DSL node takes
\* locks away on its own and tells the victim by its flag alone.
HoldsLocks ==
  \A p \in Apps : Live(p) =>
    /\ \A a \in ReadAddrs(p) : p \in readers[a] \/ writer[a] = p
    /\ \A a \in LockedAddrs(p) : writer[a] = p

\* Isolation at the memory itself: while p writes back, no other attempt that
\* may still commit has read, or is writing back, one of the words p writes.
Isolated ==
  \A p, q \in Apps : (p # q /\ pc[p] = "persist" /\ Live(q)) =>
    /\ WrittenAddrs(p) \cap ReadAddrs(q) = {}
    /\ pc[q] = "persist" => WrittenAddrs(p) \cap WrittenAddrs(q) = {}

\* Every value read by an attempt that may still commit is the current one:
\* an attempt that was granted its locks by several DSL nodes, at different
\* times, holds a consistent snapshot.
Snapshot ==
  \A p \in Apps : (Live(p) /\ pc[p] # "persist") => \A r \in reads[p] : mem[r[1]] = r[2]

\* No lock outlives its owner: a node that holds a lock at a DSL node will
\* release that node, or has sent it the message that does.
NoLostLock ==
  \A a \in Addrs, p \in Apps : (p \in readers[a] \/ writer[a] = p) =>
    \/ Responsible[a] \in contacted[p]
    \/ chan[Responsible[a]][p].type = "RMV_NODE"

\* The timestamp a DSL node compares is the one of the transaction that holds
\* the lock, not one left over from an earlier transaction of its node.
PriorityCurrent ==
  HasCM => \A a \in Addrs, p \in Apps :
    (Live(p) /\ (a \in ReadAddrs(p) \/ a \in LockedAddrs(p))) =>
      ts[Responsible[a]][p] = prio[p]

\* q has priority over p.
Elder(q, p) == prio[q] < prio[p] \/ (prio[q] = prio[p] /\ q < p)

\* A transaction is aborted by the contention manager only for a requester of
\* higher priority, by the priorities the nodes have at that moment: the DSL
\* node decides on copies that may be old.
KilledByElder ==
  [][\A p \in Apps : (flag[p] = "NO_CONFLICT" /\ flag'[p] = "CONFLICT") =>
       \E d \in Dsls : /\ serving[d] # NoJob /\ p \in victims[d]
                       /\ Elder(serving[d].app, p)]_vars

\* The memory as the transactions that have committed see it: one that is
\* writing back has taken effect already.
Effective ==
  [a \in Addrs |->
     IF \E p \in Apps : pc[p] = "persist" /\ a \in WrittenAddrs(p)
     THEN LET p == CHOOSE p \in Apps : pc[p] = "persist" /\ a \in WrittenAddrs(p)
          IN  wset[p][CHOOSE i \in DOMAIN wset[p] : wset[p][i].addr = a].val
     ELSE mem[a]]

Serial == INSTANCE SerialMemory WITH amem <- Effective

\* Committed transactions are serializable: each reads and replaces the memory
\* at one instant, the compare-and-swap of TXPERSISTING.
Serializable == Serial!ASpec

\* Every transaction that is begun commits (tm2c.c: TM2C guarantees the
\* termination of every transaction).
Terminates ==
  \A p \in Apps : \A n \in 0 .. MaxTx - 1 :
    (ntx[p] = n /\ pc[p] # "idle") ~> (ntx[p] = n + 1)
=============================================================================
