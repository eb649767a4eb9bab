-------------------------------- MODULE Pgas --------------------------------
(***************************************************************************)
(* The PGAS build of TM2C: the words live at the DSL nodes, which also     *)
(* keep the write sets, and the client is the bank of bmarks/bankpgas.c.   *)
(*                                                                         *)
(* A load brings the value with the reply; a store, or an increment,       *)
(* leaves its new value in the write set of the node at the DSL node of    *)
(* the word.  A transaction commits by its compare-and-swap to             *)
(* PERSISTING_WRITES; each DSL node it has contacted then writes back its  *)
(* share when RMV_NODE arrives, or earlier, when another transaction wins  *)
(* a conflict against the one that persists.  Unlike on shared memory, a   *)
(* holder that loses keeps its locks until it releases them itself.        *)
(***************************************************************************)
EXTENDS Integers, SequencesExt

CONSTANTS
  Apps,          \* application nodes, by node id
  Dsls,          \* DSL nodes, by their rank in dsl_nodes
  Size,          \* bank->size, the number of accounts
  Responsible,   \* the DSL node of a word: the high bits of its offset
  Builds,        \* platforms and contention managers
  Bodies,        \* the transactions of each node
  MaxTx,         \* bound: transactions a node runs
  NoNode         \* SSHT_NO_WRITER

Accounts == 0 .. Size - 1   \* the words of the memory

Platforms == {"DEFAULT", "OPTERON", "NIAGARA", "XEON", "TILERA", "SCC"}
TxOperation == [op : {"LOAD", "STORE", "STORE_INC"}, addr : Accounts, val : Int]
Operation == TxOperation \cup [op : {"LOAD_NONTX", "STORE_NONTX"}, addr : Accounts, val : Int]

\* TILERA and SCC have no abort_node_is_persisting: only NOCM compiles there.
\* No transaction uses a word twice.
ASSUME PgasAssumption ==
  /\ Apps \subseteq Nat /\ NoNode \notin Apps /\ Apps # {} /\ IsFiniteSet(Apps)
  /\ Size \in Nat /\ Dsls \subseteq Nat /\ Responsible \in [Accounts -> Dsls] /\ MaxTx \in Nat
  /\ Builds \subseteq [platform : Platforms, cm : {"NOCM", "WHOLLY", "GREEDY"}]
  /\ \A b \in Builds : b.platform \in {"TILERA", "SCC"} => b.cm = "NOCM"
  /\ \A p \in Apps : \A b \in Bodies[p] :
       b \in Seq(TxOperation) /\ \A i, j \in DOMAIN b : b[i].addr = b[j].addr => i = j

VARIABLES
  build, stage,  \* the part of main() and test() the nodes are in
  pc, body, ip, seen, contacted, unsent, prio, ntx, clock,   \* application nodes
  sum,           \* local of total()
  flag,          \* cm_abort_flags
  chan, resp,    \* message slots
  mem,           \* pgas_dsl_mem of all DSL nodes
  wsets,         \* PGAS_write_sets
  readers, writer, ts, serving, victims,   \* DSL nodes, as in Tm2c
  passed         \* words a node has read by winning against their writer

appVars == <<pc, body, ip, seen, contacted, unsent, prio, ntx, clock, sum>>
lockVars == <<readers, writer>>
dslVars == <<mem, wsets, readers, writer, ts, serving, victims, passed>>
vars == <<build, stage, appVars, flag, chan, resp, dslVars>>

HasCM == build.cm # "NOCM"
Once == Min(Apps)   \* ONCE
NoMsg == [type |-> "NONE"]
NoResp == [type |-> "NONE"]

Init ==
  /\ build \in Builds
  /\ stage = "reset"
  /\ pc = [p \in Apps |-> "idle"]
  /\ body = [p \in Apps |-> <<>>]
  /\ ip = [p \in Apps |-> 1]
  /\ seen = [p \in Apps |-> {}]
  /\ contacted = [p \in Apps |-> {}]
  /\ unsent = [p \in Apps |-> {}]
  /\ prio = [p \in Apps |-> 0]
  /\ ntx = [p \in Apps |-> 0]
  /\ clock = 0
  /\ sum = [p \in Apps |-> 0]
  /\ flag = [p \in Apps |-> "NO_CONFLICT"]
  /\ chan = [d \in Dsls |-> [p \in Apps |-> NoMsg]]
  /\ resp = [p \in Apps |-> NoResp]
  /\ mem = [a \in Accounts |-> 0]
  /\ wsets = [d \in Dsls |-> [p \in Apps |-> <<>>]]
  /\ readers = [a \in Accounts |-> {}]
  /\ writer = [a \in Accounts |-> NoNode]
  /\ ts = [d \in Dsls |-> [p \in Apps |-> 0]]
  /\ serving = [d \in Dsls |-> NoMsg]
  /\ victims = [d \in Dsls |-> {}]
  /\ passed = [p \in Apps |-> {}]

-----------------------------------------------------------------------------
(* The client, bankpgas.c. *)

Each(op) == [i \in 1 .. Size |-> [op |-> op, addr |-> i - 1, val |-> 0]]
Reset == Each("STORE_NONTX")   \* reset(bank, 0)

\* Mutant of Total: i < bank->size - 1.
TotalShort == Front(Each("LOAD_NONTX"))

\* total(bank, 0)
Total == Each("LOAD_NONTX")
Transfer(src, dst, n) == <<[op |-> "STORE_INC", addr |-> src, val |-> -n],
                           [op |-> "STORE_INC", addr |-> dst, val |-> n]>>
CheckAccs(a, b) == <<[op |-> "LOAD", addr |-> a, val |-> 0], [op |-> "LOAD", addr |-> b, val |-> 0]>>

\* The code outside transactions that p runs in this stage: ONCE { reset; total }, the total
\* of everybody in the warming up (its transaction is empty), and ONCE { total } at the end
Plain(p) ==
  CASE stage = "reset" /\ p = Once -> Reset \o Total
    [] stage = "warm" -> Total
    [] stage = "total" /\ p = Once -> Total
    [] OTHER -> <<>>

BeginPlain(p) ==
  /\ pc[p] = "idle" /\ Plain(p) # <<>>
  /\ pc' = [pc EXCEPT ![p] = "plain"]
  /\ body' = [body EXCEPT ![p] = Plain(p)]
  /\ sum' = [sum EXCEPT ![p] = 0]
  /\ UNCHANGED <<build, stage, ip, seen, contacted, unsent, prio, ntx, clock, flag, chan, resp, dslVars>>

\* One more transaction of test(), before the duration is over
Begin(p) ==
  /\ pc[p] = "idle" /\ stage = "run" /\ ntx[p] < MaxTx
  /\ pc' = [pc EXCEPT ![p] = "start"]
  /\ \E b \in Bodies[p] : body' = [body EXCEPT ![p] = b]
  /\ IF build.cm = "GREEDY" THEN clock' = clock + 1 /\ prio' = [prio EXCEPT ![p] = clock + 1]
     ELSE UNCHANGED <<clock, prio>>
  /\ UNCHANGED <<build, stage, ip, seen, contacted, unsent, ntx, sum, flag, chan, resp, dslVars>>

\* Node p has nothing more to do before the next BARRIER.
ToBarrier(p) ==
  /\ \/ pc[p] = "idle" /\ Plain(p) = <<>> /\ (stage = "run" => ntx[p] = MaxTx)
     \/ pc[p] = "plain" /\ ip[p] > Len(body[p])
  /\ pc' = [pc EXCEPT ![p] = "barrier"]
  /\ ip' = [ip EXCEPT ![p] = 1]
  /\ UNCHANGED <<build, stage, body, seen, contacted, unsent, prio, ntx, clock, sum, flag, chan, resp, dslVars>>

\* BARRIER
Barrier ==
  /\ \A p \in Apps : pc[p] = "barrier"
  /\ stage' = CASE stage = "reset" -> "warm" [] stage = "warm" -> "run" [] stage = "run" -> "total" [] stage = "total" -> "end"
  /\ pc' = [p \in Apps |-> IF stage = "total" THEN "end" ELSE "idle"]
  /\ UNCHANGED <<build, body, ip, seen, contacted, unsent, prio, ntx, clock, sum, flag, chan, resp, dslVars>>

-----------------------------------------------------------------------------
(* The application node. *)

Op(p) == body[p][ip[p]]
Home(p) == Responsible[Op(p).addr]
BodyDone(p) == ip[p] > Len(body[p])
Aborted(p) == HasCM /\ flag[p] # "NO_CONFLICT"
InTx(p) == stage = "run"

\* TXRUNNING
Running(p) ==
  /\ pc[p] = "start"
  /\ pc' = [pc EXCEPT ![p] = "body"]
  /\ flag' = IF HasCM THEN [flag EXCEPT ![p] = "NO_CONFLICT"] ELSE flag
  /\ UNCHANGED <<build, stage, body, ip, seen, contacted, unsent, prio, ntx, clock, sum, chan, resp, dslVars>>

\* tx_load, tx_wlock, tx_store_inc: TXCHKABORTED, and nodes_contacted counts the DSL node
Contact(p) ==
  /\ pc[p] = "body" /\ ~BodyDone(p) /\ ~Aborted(p)
  /\ pc' = [pc EXCEPT ![p] = "send"]
  /\ contacted' = [contacted EXCEPT ![p] = @ \cup {Home(p)}]
  /\ UNCHANGED <<build, stage, body, ip, seen, unsent, prio, ntx, clock, sum, flag, chan, resp, dslVars>>

\* TX_ABORT, for TXCHKABORTED or TXPERSISTING
NoticeAbort(p) ==
  /\ pc[p] = "body" /\ Aborted(p)
  /\ pc' = [pc EXCEPT ![p] = "abort"]
  /\ unsent' = [unsent EXCEPT ![p] = contacted[p]]
  /\ UNCHANGED <<build, stage, body, ip, seen, contacted, prio, ntx, clock, sum, flag, chan, resp, dslVars>>

\* The request is in the slot.  STORE_NONTX is not answered.
Send(p) ==
  /\ pc[p] = "send" \/ (pc[p] = "plain" /\ ~BodyDone(p))
  /\ chan[Home(p)][p] = NoMsg
  /\ chan' = [chan EXCEPT ![Home(p)][p] =
                [type |-> Op(p).op, addr |-> Op(p).addr, val |-> Op(p).val, meta |-> prio[p]]]
  /\ IF Op(p).op = "STORE_NONTX" THEN ip' = [ip EXCEPT ![p] = @ + 1] /\ UNCHANGED pc
     ELSE pc' = [pc EXCEPT ![p] = IF InTx(p) THEN "wait" ELSE "wait_plain"] /\ UNCHANGED ip
  /\ UNCHANGED <<build, stage, body, seen, contacted, unsent, prio, ntx, clock, sum, flag, resp, dslVars>>

\* tm2c_rpc_recvb: NO_CONFLICT, and read_value
Granted(p) ==
  /\ pc[p] = "wait" /\ resp[p].type = "NO_CONFLICT"
  /\ pc' = [pc EXCEPT ![p] = "body"]
  /\ ip' = [ip EXCEPT ![p] = @ + 1]
  /\ seen' = IF Op(p).op = "LOAD" THEN [seen EXCEPT ![p] = @ \cup {<<Op(p).addr, resp[p].val>>}] ELSE seen
  /\ resp' = [resp EXCEPT ![p] = NoResp]
  /\ UNCHANGED <<build, stage, body, contacted, unsent, prio, ntx, clock, sum, flag, chan, dslVars>>

\* The reply to LOAD_NONTX
GotPlain(p) ==
  /\ pc[p] = "wait_plain" /\ resp[p].type = "NO_CONFLICT"
  /\ pc' = [pc EXCEPT ![p] = "plain"]
  /\ ip' = [ip EXCEPT ![p] = @ + 1]
  /\ sum' = [sum EXCEPT ![p] = @ + resp[p].val]
  /\ resp' = [resp EXCEPT ![p] = NoResp]
  /\ UNCHANGED <<build, stage, body, seen, contacted, unsent, prio, ntx, clock, flag, chan, dslVars>>

\* The request is refused: nodes_contacted of the DSL node is 0 again.
Refused(p) ==
  /\ pc[p] = "wait" /\ resp[p].type = "CONFLICT"
  /\ pc' = [pc EXCEPT ![p] = "abort"]
  /\ contacted' = [contacted EXCEPT ![p] = @ \ {Home(p)}]
  /\ unsent' = [unsent EXCEPT ![p] = contacted[p] \ {Home(p)}]
  /\ resp' = [resp EXCEPT ![p] = NoResp]
  /\ UNCHANGED <<build, stage, body, ip, seen, prio, ntx, clock, sum, flag, chan, dslVars>>

\* TXPERSISTING succeeds.
SetPersisting(p) ==
  /\ pc[p] = "body" /\ BodyDone(p) /\ ~Aborted(p)
  /\ pc' = [pc EXCEPT ![p] = "commit"]
  /\ unsent' = [unsent EXCEPT ![p] = contacted[p]]
  /\ flag' = IF HasCM THEN [flag EXCEPT ![p] = "PERSISTING_WRITES"] ELSE flag
  /\ UNCHANGED <<build, stage, body, ip, seen, contacted, prio, ntx, clock, sum, chan, resp, dslVars>>

\* tm2c_rpc_rls_all, the first loop: RMV_NODE with the reason
SendRelease(p) ==
  /\ pc[p] \in {"commit", "abort"} /\ unsent[p] # {}
  /\ LET d == Min(unsent[p]) IN
     /\ chan[d][p] = NoMsg
     /\ chan' = [chan EXCEPT ![d][p] = [type |-> "RMV_NODE", commit |-> pc[p] = "commit", meta |-> prio[p]]]
     /\ unsent' = [unsent EXCEPT ![p] = @ \ {d}]
  /\ UNCHANGED <<build, stage, pc, body, ip, seen, contacted, prio, ntx, clock, sum, flag, resp, dslVars>>

\* tm2c_rpc_is_processed: the DSL node has taken the message.
IsProcessed(p, d) == build.platform = "TILERA" \/ chan[d][p] = NoMsg

\* The second loop has seen every message processed.
Released(p) == unsent[p] = {} /\ \A d \in contacted[p] : IsProcessed(p, d)

\* Mutant of ClearAttempt: the operations are counted from 0.
ClearAttemptToZero(p) == ip' = [ip EXCEPT ![p] = 0] /\ seen' = [seen EXCEPT ![p] = {}]
                         /\ contacted' = [contacted EXCEPT ![p] = {}]
ClearAttempt(p) == ip' = [ip EXCEPT ![p] = 1] /\ seen' = [seen EXCEPT ![p] = {}]
                   /\ contacted' = [contacted EXCEPT ![p] = {}]

\* TXCOMPLETED and the end of TX_COMMIT
Committed(p) ==
  /\ pc[p] = "commit" /\ Released(p)
  /\ pc' = [pc EXCEPT ![p] = "idle"]
  /\ ClearAttempt(p)
  /\ flag' = IF HasCM THEN [flag EXCEPT ![p] = "TX_COMMITTED"] ELSE flag
  /\ ntx' = [ntx EXCEPT ![p] = @ + 1]
  /\ prio' = IF build.cm = "WHOLLY" THEN [prio EXCEPT ![p] = @ + 1] ELSE prio
  /\ passed' = [passed EXCEPT ![p] = {}]
  /\ UNCHANGED <<build, stage, body, unsent, clock, sum, chan, resp, mem, wsets, lockVars, ts, serving, victims>>

\* The end of tm2c_handle_abort, and back to TX_START
Retry(p) ==
  /\ pc[p] = "abort" /\ Released(p)
  /\ pc' = [pc EXCEPT ![p] = "start"]
  /\ ClearAttempt(p)
  /\ passed' = [passed EXCEPT ![p] = {}]
  /\ UNCHANGED <<build, stage, body, unsent, prio, ntx, clock, sum, flag, chan, resp,
                 mem, wsets, lockVars, ts, serving, victims>>

AppStep(p) ==
  \/ BeginPlain(p) \/ Begin(p) \/ ToBarrier(p) \/ Running(p) \/ Contact(p) \/ NoticeAbort(p)
  \/ Send(p) \/ Granted(p) \/ GotPlain(p) \/ Refused(p) \/ SetPersisting(p) \/ SendRelease(p)
  \/ Committed(p) \/ Retry(p)

-----------------------------------------------------------------------------
(* The DSL node. *)

Idle(d) == serving[d] = NoMsg
Loads == {"LOAD"}
Stores == {"STORE", "STORE_INC"}

\* Mutant of Conflict: the readers of a word do not hinder a writer.
ConflictOfWriters(p, m) ==
  IF m.type \in Loads THEN {writer[m.addr]} \ {NoNode} ELSE {writer[m.addr]} \ {NoNode, p}

\* Whom the request m of p meets: bucket_insert_r, bucket_insert_w.  A reader of
\* its own write meets itself; readers count only where there is no writer.
Conflict(p, m) ==
  IF m.type \in Loads THEN {writer[m.addr]} \ {NoNode}
  ELSE IF writer[m.addr] \notin {NoNode, p} THEN {writer[m.addr]}
  ELSE readers[m.addr] \ {p}

Beats(t, q, r) == t[q] < t[r] \/ (t[q] = t[r] /\ q < r)

\* contention_manager_raw_waw, contention_manager_war
Wins(t, p, m) == HasCM /\ \A r \in Conflict(p, m) : Beats(t, p, r)

NotedTs(d, p) ==
  CASE build.cm = "NOCM" -> ts[d][p]
    [] build.cm = "GREEDY" -> IF ts[d][p] = 0 THEN chan[d][p].meta ELSE ts[d][p]
    [] OTHER -> chan[d][p].meta
Noted(d, p) == [ts[d] EXCEPT ![p] = NotedTs(d, p)]
Forgotten(d, p) == IF build.cm = "GREEDY" THEN 0 ELSE NotedTs(d, p)

Take(d, p) == chan' = [chan EXCEPT ![d][p] = NoMsg]

\* tm2c_ht_delete_node
DeleteNode(d, v) ==
  /\ readers' = [a \in Accounts |-> IF Responsible[a] = d THEN readers[a] \ {v} ELSE readers[a]]
  /\ writer' = [a \in Accounts |-> IF Responsible[a] = d /\ writer[a] = v THEN NoNode ELSE writer[a]]

\* write_set_pgas_persist: the entries of s, the newest of a word last
WriteBack(s) ==
  [a \in Accounts |-> IF \E i \in DOMAIN s : s[i].addr = a
                      THEN s[SelectLastInSeq(s, LAMBDA e : e.addr = a)].val ELSE mem[a]]

\* write_set_pgas_insert, write_set_pgas_empty
Insert(d, p, a, v) == wsets' = [wsets EXCEPT ![d][p] = Append(@, [addr |-> a, val |-> v])]
Emptied(d, p) == wsets' = [wsets EXCEPT ![d][p] = <<>>]

\* The request m of p is granted.  An increment is added to what the memory holds.
Grant(d, p, m) ==
  /\ readers' = IF m.type \in Loads THEN [readers EXCEPT ![m.addr] = @ \cup {p}] ELSE readers
  /\ writer' = IF m.type \in Stores THEN [writer EXCEPT ![m.addr] = p] ELSE writer
  /\ CASE m.type = "LOAD" -> UNCHANGED wsets
       [] m.type = "STORE" -> Insert(d, p, m.addr, m.val)
       [] m.type = "STORE_INC" -> Insert(d, p, m.addr, mem[m.addr] + m.val)
  /\ resp' = [resp EXCEPT ![p] = [type |-> "NO_CONFLICT", val |-> IF m.type = "LOAD" THEN mem[m.addr] ELSE 0]]

\* A transactional request of the given kind; resets says whether GREEDY forgets
\* the timestamp when the request is refused.
Serve(d, p, type, resets) ==
  LET m == chan[d][p] IN
  /\ Idle(d) /\ m.type = type
  /\ Take(d, p)
  /\ \/ /\ Conflict(p, m) = {}
        /\ Grant(d, p, m)
        /\ ts' = [ts EXCEPT ![d] = Noted(d, p)]
        /\ UNCHANGED <<serving, victims>>
     \/ /\ Conflict(p, m) # {} /\ Wins(Noted(d, p), p, m)
        /\ serving' = [serving EXCEPT ![d] = [app |-> p, req |-> m]]
        /\ victims' = [victims EXCEPT ![d] = Conflict(p, m)]
        /\ ts' = [ts EXCEPT ![d] = Noted(d, p)]
        /\ UNCHANGED <<resp, wsets, lockVars>>
     \/ /\ Conflict(p, m) # {} /\ ~Wins(Noted(d, p), p, m)
        /\ resp' = [resp EXCEPT ![p] = [type |-> "CONFLICT", val |-> 0]]
        /\ DeleteNode(d, p)
        /\ Emptied(d, p)
        /\ ts' = [ts EXCEPT ![d] = IF resets THEN [@ EXCEPT ![p] = Forgotten(d, p)] ELSE Noted(d, p)]
        /\ UNCHANGED <<serving, victims>>
  /\ UNCHANGED <<build, stage, appVars, flag, mem, passed>>

\* Mutant of SavesPersisting: the writes of the one that loses are dropped.
SavesPersistingNever(v) == FALSE

\* abort_node_is_persisting: the compare-and-swap finds PERSISTING_WRITES.
SavesPersisting(v) == flag[v] = "PERSISTING_WRITES"

\* The next holder that has lost: its flag is set, its writes are dropped, or
\* written here and now when it is persisting.
AbortVictim(d) ==
  /\ ~Idle(d) /\ victims[d] # {}
  /\ LET v == Min(victims[d]) IN
     /\ flag' = [flag EXCEPT ![v] = IF @ = "NO_CONFLICT" THEN "CONFLICT" ELSE @]
     /\ mem' = IF SavesPersisting(v) THEN WriteBack(wsets[d][v]) ELSE mem
     /\ Emptied(d, v)
     /\ victims' = [victims EXCEPT ![d] = @ \ {v}]
  /\ UNCHANGED <<build, stage, appVars, chan, resp, lockVars, ts, serving, passed>>

\* All holders have lost.
GrantContended(d) ==
  /\ ~Idle(d) /\ victims[d] = {}
  /\ LET p == serving[d].app
         m == serving[d].req IN
     /\ Grant(d, p, m)
     /\ passed' = IF m.type = "LOAD" THEN [passed EXCEPT ![p] = @ \cup {m.addr}] ELSE passed
  /\ serving' = [serving EXCEPT ![d] = NoMsg]
  /\ UNCHANGED <<build, stage, appVars, flag, chan, mem, ts, victims>>

\* LOAD_NONTX
ServeLoadNontx(d, p) ==
  /\ Idle(d) /\ chan[d][p].type = "LOAD_NONTX"
  /\ Take(d, p)
  /\ ts' = [ts EXCEPT ![d] = Noted(d, p)]
  /\ resp' = [resp EXCEPT ![p] = [type |-> "NO_CONFLICT", val |-> mem[chan[d][p].addr]]]
  /\ UNCHANGED <<build, stage, appVars, flag, mem, wsets, lockVars, serving, victims, passed>>

\* STORE_NONTX
ServeStoreNontx(d, p) ==
  /\ Idle(d) /\ chan[d][p].type = "STORE_NONTX"
  /\ Take(d, p)
  /\ ts' = [ts EXCEPT ![d] = Noted(d, p)]
  /\ mem' = [mem EXCEPT ![chan[d][p].addr] = chan[d][p].val]
  /\ UNCHANGED <<build, stage, appVars, flag, resp, wsets, lockVars, serving, victims, passed>>

\* RMV_NODE: a commit, or an abort
RemoveNode(d, p) ==
  /\ Idle(d) /\ chan[d][p].type = "RMV_NODE"
  /\ Take(d, p)
  /\ ts' = [ts EXCEPT ![d][p] = Forgotten(d, p)]
  /\ mem' = IF chan[d][p].commit THEN WriteBack(wsets[d][p]) ELSE mem
  /\ Emptied(d, p)
  /\ DeleteNode(d, p)
  /\ UNCHANGED <<build, stage, appVars, flag, resp, serving, victims, passed>>

\* dsl_service of each platform: the transactional requests, and the rest
Requests(d, p, resets) ==
  Serve(d, p, "LOAD", TRUE) \/ Serve(d, p, "STORE", TRUE) \/ Serve(d, p, "STORE_INC", resets)
Others(d, p) == ServeLoadNontx(d, p) \/ ServeStoreNontx(d, p) \/ RemoveNode(d, p)

RequestsDefault(d, p) == Requests(d, p, TRUE)
RequestsOpteron(d, p) == Requests(d, p, FALSE)
RequestsNiagara(d, p) == Requests(d, p, FALSE)
RequestsXeon(d, p) == Requests(d, p, FALSE)
RequestsTilera(d, p) == Requests(d, p, TRUE)
RequestsScc(d, p) == Requests(d, p, FALSE)
OthersDefault(d, p) == Others(d, p)
OthersOpteron(d, p) == Others(d, p)
OthersNiagara(d, p) == Others(d, p)
OthersXeon(d, p) == Others(d, p)
OthersTilera(d, p) == Others(d, p)
OthersScc(d, p) == Others(d, p)

dsl_service(d, p) ==
  \/ build.platform = "DEFAULT" /\ (RequestsDefault(d, p) \/ OthersDefault(d, p))
  \/ build.platform = "OPTERON" /\ (RequestsOpteron(d, p) \/ OthersOpteron(d, p))
  \/ build.platform = "NIAGARA" /\ (RequestsNiagara(d, p) \/ OthersNiagara(d, p))
  \/ build.platform = "XEON" /\ (RequestsXeon(d, p) \/ OthersXeon(d, p))
  \/ build.platform = "TILERA" /\ (RequestsTilera(d, p) \/ OthersTilera(d, p))
  \/ build.platform = "SCC" /\ (RequestsScc(d, p) \/ OthersScc(d, p))

-----------------------------------------------------------------------------
\* The program has ended; the DSL nodes poll empty slots.
Terminated == stage = "end" /\ UNCHANGED vars

Next == \/ \E p \in Apps : AppStep(p)
        \/ Barrier
        \/ \E d \in Dsls : AbortVictim(d) \/ GrantContended(d) \/ \E p \in Apps : dsl_service(d, p)
        \/ Terminated

Spec == Init /\ [][Next]_vars

-----------------------------------------------------------------------------
(* What is checked. *)

Request == [type : {"LOAD", "STORE", "STORE_INC"}, addr : Accounts, val : Int, meta : Nat]
PlainRequest == [type : {"LOAD_NONTX", "STORE_NONTX"}, addr : Accounts, val : Int, meta : Nat]
Release == [type : {"RMV_NODE"}, commit : BOOLEAN, meta : Nat]
Reply == [type : {"NO_CONFLICT", "CONFLICT"}, val : Int]

\* The variables keep their types, and a slot holds a message of dsl_service.
TypeOK ==
  /\ build \in Builds /\ stage \in {"reset", "warm", "run", "total", "end"}
  /\ pc \in [Apps -> {"idle", "plain", "wait_plain", "barrier", "end", "start", "body", "send",
                      "wait", "commit", "abort"}]
  /\ body \in [Apps -> Seq(Operation)] /\ ip \in [Apps -> Nat \ {0}]
  /\ seen \in [Apps -> SUBSET (Accounts \X Int)] /\ passed \in [Apps -> SUBSET Accounts]
  /\ contacted \in [Apps -> SUBSET Dsls] /\ unsent \in [Apps -> SUBSET Dsls]
  /\ prio \in [Apps -> Nat] /\ ntx \in [Apps -> 0 .. MaxTx] /\ clock \in Nat /\ sum \in [Apps -> Int]
  /\ flag \in [Apps -> {"NO_CONFLICT", "CONFLICT", "PERSISTING_WRITES", "TX_COMMITTED"}]
  /\ chan \in [Dsls -> [Apps -> Request \cup PlainRequest \cup Release \cup {NoMsg}]]
  /\ resp \in [Apps -> Reply \cup {NoResp}]
  /\ serving \in [Dsls -> [app : Apps, req : Request] \cup {NoMsg}]
  /\ mem \in [Accounts -> Int]
  /\ wsets \in [Dsls -> [Apps -> Seq([addr : Accounts, val : Int])]]
  /\ readers \in [Accounts -> SUBSET Apps] /\ writer \in [Accounts -> Apps \cup {NoNode}]
  /\ ts \in [Dsls -> [Apps -> Nat]] /\ victims \in [Dsls -> SUBSET Apps]

\* The memory as the transactions that have committed see it: a write set whose
\* owner is past its compare-and-swap has taken effect.
Owners(a) ==
  LET d == Responsible[a] IN
  {p \in Apps : /\ pc[p] = "commit" \/ (chan[d][p].type = "RMV_NODE" /\ chan[d][p].commit)
                /\ \E i \in DOMAIN wsets[d][p] : wsets[d][p][i].addr = a}
Effective ==
  [a \in Accounts |-> IF Owners(a) = {} THEN mem[a]
                      ELSE WriteBack(wsets[Responsible[a]][CHOOSE p \in Owners(a) : TRUE])[a]]

Committing(p) == pc[p] = "body" /\ pc'[p] = "commit"

\* The accounts after the stores and increments of b, which uses a word once
After(b, m) ==
  [a \in Accounts |->
     IF \E i \in DOMAIN b : b[i].addr = a /\ b[i].op \in Stores
     THEN LET o == b[CHOOSE i \in DOMAIN b : b[i].addr = a]
          IN  IF o.op = "STORE" THEN o.val ELSE m[a] + o.val
     ELSE m[a]]

\* A commit takes effect at the compare-and-swap and at all DSL nodes at once,
\* and nothing else changes an account: no write set is applied twice, lost, or
\* applied for a transaction that was aborted, although each DSL node applies
\* its share at a time of its own and sometimes on behalf of the owner.
CommitsAtOnce ==
  [][stage = "run" =>
       Effective' = IF \E p \in Apps : Committing(p)
                    THEN After(body[CHOOSE p \in Apps : Committing(p)], Effective) ELSE Effective]_vars

\* The attempt of p is under way, and no DSL node has aborted or refused it.
Live(p) == /\ pc[p] \in {"body", "send", "wait"} /\ stage = "run"
           /\ resp[p].type # "CONFLICT"
           /\ HasCM => flag[p] = "NO_CONFLICT"

\* What a live attempt has read is still current, but for the words it got
\* by winning against their writer: the loser stays in the entry, and a third node
\* that wins against the loser is not asked to win against the reader.
ReadsCurrent ==
  \A p \in Apps : Live(p) => \A r \in seen[p] : r[1] \in passed[p] \/ Effective[r[1]] = r[2]

\* "Bank total (after)", read without a transaction, is the sum the committed
\* transactions leave.  TILERA does not wait for RMV_NODE to be processed.
TotalRight ==
  stage = "end" => /\ build.platform # "TILERA" =>
                        sum[Once] = FoldSet(LAMBDA a, s : s + Effective[a], 0, Accounts)
                   /\ \A p \in Apps : ntx[p] = MaxTx
=============================================================================
