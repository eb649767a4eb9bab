----------------------------- MODULE Lifecycle -----------------------------
(***************************************************************************)
(* Start-up and shutdown of a TM2C program on every platform: tm2c_init,   *)
(* the sys_*_init and sys_*_term functions, the statistics at the end      *)
(* (TM_END, the STATS case of dsl_service) and the barriers between them.  *)
(*                                                                         *)
(* What a function of a platform does is a sequence of instructions, read  *)
(* off its code; a node has in todo what is left of its program.  On       *)
(* DEFAULT, OPTERON and NIAGARA the nodes are threads, which share what    *)
(* one of them allocates; on XEON, TILERA and SCC they are processes,      *)
(* which share objects by name, or lines of the message buffer.            *)
(*                                                                         *)
(* Transactions are reduced to what touches other nodes: requests, at      *)
(* which a DSL node may abort a holder of locks through its flag, and      *)
(* releases, which are not acknowledged.                                   *)
(***************************************************************************)
EXTENDS Integers, SequencesExt

CONSTANTS
  NumNodes,    \* TOTAL_NODES()
  DslPerNode,  \* DSL_PER_NODE
  Builds,      \* the builds: pairs of a platform and TRUE for PGAS
  Leftovers,   \* the sets of application nodes whose flags an earlier execution may leave
  MaxRequests  \* bound: requests of an application node

ASSUME NodesAssumption ==
  /\ NumNodes \in Nat /\ DslPerNode \in 2 .. NumNodes
  /\ Builds \subseteq {"DEFAULT", "OPTERON", "NIAGARA", "XEON", "TILERA", "SCC"} \X BOOLEAN
  /\ MaxRequests \in Nat /\ {} \in Leftovers

Nodes == 0 .. NumNodes - 1
is_app_core(id) == id % DslPerNode # 0
Apps == {id \in Nodes : is_app_core(id)}
Dsls == Nodes \ Apps
min_dsl_id == 0

VARIABLES
  platform, pgas,  \* the build
  todo,       \* for each node, the instructions it has still to do
  once,       \* the functions pthread_once has run
  store,      \* what is allocated (and shared by its name)
  frees,      \* calls of tm2c_free_shared_memory
  name,       \* for each application node, the object its flag's name stands for; 0: none
  own,        \* its abort flag; 0 before there is one
  seen,       \* the flags in the array of a DSL node
  junk,       \* flags whose contents were never set, or date from an earlier execution
  slot,       \* messages from an application node to a DSL node
  waits,      \* the DSL node whose reply a node waits for
  sent,       \* requests of a node
  contacted,  \* DSL nodes a node will send its release to
  holders,    \* nodes that have locks at a DSL node
  received,   \* tm2c_stats_received
  sums,       \* the counters of a DSL node: what was added to which
  said        \* who was the last to print, in each of the prints in order

memvars == <<once, store, frees, name, own, seen, junk>>
msgvars == <<slot, waits, sent, contacted, holders>>
statvars == <<received, sums, said>>
vars == <<platform, pgas, todo, memvars, msgvars, statvars>>

Threads == platform \in {"DEFAULT", "OPTERON", "NIAGARA"}
NoNode == -1

\* Messages of a node that a DSL node can have outstanding: a slot of libssmp holds one,
\* the network of TILERA buffers them (bounded here).
Room == IF platform = "TILERA" THEN 2 ELSE 1

-----------------------------------------------------------------------------
(* Instructions *)

I(do, on) == <<[do |-> do, on |-> on]>>
W == I("barrier", "all")          \* BARRIERW
Barrier == I("barrier", "app")    \* BARRIER
BarrierDsl == I("barrier", "dsl") \* BARRIER_DSL

\* Concatenation of f(i) for the nodes in order, or for the application nodes
Each(f(_), S) == FlattenSeq([i \in 1 .. NumNodes |-> IF i - 1 \in S THEN f(i - 1) ELSE <<>>])

\* A name of something a process has for itself, on platforms with processes
Own(p, x) == IF Threads THEN <<x, NoNode>> ELSE <<x, p>>

\* Mutant of InOrder: without the barriers between the turns.
InOrderOnce(p, what, barrier) == I("say", what) \o barrier

\* for (c = 0; c < TOTAL_NODES(); c++) { if (NODE_ID() == c) print; barrier }
InOrder(p, what, barrier) == Each(LAMBDA c : (IF c = p THEN I("say", what) ELSE <<>>) \o barrier, Nodes)

-----------------------------------------------------------------------------
(* The platforms.  Instructions on flags are there in the builds with a    *)
(* contention manager, which is assumed.                                   *)

\* tm2c_malloc_share_memory, by whoever comes first
ShareDefault == I("once", "share")
ShareOpteron == I("once", "share")
ShareNiagara == I("once", "share")

\* sys_app_init_once and sys_dsl_init_once
AppOnceDefault == IF pgas THEN I("once", "pgas_app") ELSE ShareDefault
AppOnceOpteron == IF pgas THEN I("once", "pgas_app") ELSE ShareOpteron
AppOnceNiagara == IF pgas THEN I("once", "pgas_app") ELSE ShareNiagara
DslOnceDefault == IF pgas THEN I("once", "pgas_dsl") ELSE ShareDefault
DslOnceOpteron == IF pgas THEN I("once", "pgas_dsl") ELSE ShareOpteron
DslOnceNiagara == IF pgas THEN I("once", "pgas_dsl") ELSE ShareNiagara

\* sys_app_init
AppInitDefault(p) == AppOnceDefault \o W \o I("flag", p) \o I("clear", p) \o I("publish", p) \o W
AppInitOpteron(p) == AppOnceOpteron \o W \o I("flag", p) \o I("clear", p) \o I("publish", p) \o W
AppInitNiagara(p) == AppOnceNiagara \o W \o I("flag", p) \o I("clear", p) \o I("publish", p) \o W
AppInitXeon(p) == I("alloc", Own(p, IF pgas THEN "pgas_app" ELSE "mem"))
                    \o I("flag", p) \o I("clear", p) \o I("alloc", <<"ts", NoNode>>) \o W \o W
AppInitTilera(p) == (IF pgas THEN I("alloc", Own(p, "pgas_app")) ELSE <<>>)
                      \o I("flag", p) \o I("clear", p) \o W \o W
AppInitScc(p) == I("flag", p) \o I("clear", p) \o (IF pgas THEN I("alloc", Own(p, "pgas_app")) ELSE <<>>) \o W

\* sys_dsl_init.  Processes look up the flags of all application nodes between the barriers.
OpenFlags(p) == I("alloc", Own(p, "array")) \o Each(LAMBDA a : I("open", a), Apps)
DslInitDefault(p) == DslOnceDefault \o W \o W
DslInitOpteron(p) == DslOnceOpteron \o W \o W
DslInitNiagara(p) == DslOnceNiagara \o W \o W
DslInitXeon(p) == I("alloc", Own(p, IF pgas THEN "pgas_dsl" ELSE "mem")) \o W \o OpenFlags(p) \o W
DslInitTilera(p) == (IF pgas THEN I("alloc", Own(p, "pgas_dsl")) ELSE <<>>) \o W \o OpenFlags(p) \o W
DslInitScc(p) == OpenFlags(p) \o (IF pgas THEN I("alloc", Own(p, "pgas_dsl")) ELSE <<>>) \o W

\* sys_dsl_term
PgasDslTerm(p) == IF pgas THEN I("free", Own(p, "pgas_dsl")) ELSE <<>>
DropFlags(p) == Each(LAMBDA a : I("unlink", a), Apps) \o I("free", Own(p, "array"))
DslTermDefault(p) == PgasDslTerm(p) \o I("count", p) \o W
DslTermOpteron(p) == PgasDslTerm(p) \o W
DslTermNiagara(p) == PgasDslTerm(p) \o I("count", p) \o W
DslTermXeon(p) == (IF pgas THEN PgasDslTerm(p) ELSE I("free", Own(p, "mem"))) \o DropFlags(p) \o W
DslTermTilera(p) == PgasDslTerm(p) \o DropFlags(p) \o W
DslTermScc(p) == <<>>

\* sys_app_term
PgasAppTerm(p) == IF pgas THEN I("free", Own(p, "pgas_app")) ELSE <<>>
AppTermDefault(p) == PgasAppTerm(p) \o I("drop", p) \o W
AppTermOpteron(p) == PgasAppTerm(p) \o I("drop", p) \o I("count", p) \o W
AppTermNiagara(p) == PgasAppTerm(p) \o I("drop", p) \o W
AppTermXeon(p) == (IF pgas THEN PgasAppTerm(p) ELSE I("free", Own(p, "mem")))
                    \o I("unlink", p) \o I("unlink_ts", p) \o W
AppTermTilera(p) == PgasAppTerm(p) \o I("unlink", p) \o W
AppTermScc(p) == <<>>

sys_app_init(p) ==
  CASE platform = "DEFAULT" -> AppInitDefault(p) [] platform = "OPTERON" -> AppInitOpteron(p)
    [] platform = "NIAGARA" -> AppInitNiagara(p) [] platform = "XEON" -> AppInitXeon(p)
    [] platform = "TILERA" -> AppInitTilera(p)   [] platform = "SCC" -> AppInitScc(p)
sys_dsl_init(p) ==
  CASE platform = "DEFAULT" -> DslInitDefault(p) [] platform = "OPTERON" -> DslInitOpteron(p)
    [] platform = "NIAGARA" -> DslInitNiagara(p) [] platform = "XEON" -> DslInitXeon(p)
    [] platform = "TILERA" -> DslInitTilera(p)   [] platform = "SCC" -> DslInitScc(p)
sys_dsl_term(p) ==
  CASE platform = "DEFAULT" -> DslTermDefault(p) [] platform = "OPTERON" -> DslTermOpteron(p)
    [] platform = "NIAGARA" -> DslTermNiagara(p) [] platform = "XEON" -> DslTermXeon(p)
    [] platform = "TILERA" -> DslTermTilera(p)   [] platform = "SCC" -> DslTermScc(p)
sys_app_term(p) ==
  CASE platform = "DEFAULT" -> AppTermDefault(p) [] platform = "OPTERON" -> AppTermOpteron(p)
    [] platform = "NIAGARA" -> AppTermNiagara(p) [] platform = "XEON" -> AppTermXeon(p)
    [] platform = "TILERA" -> AppTermTilera(p)   [] platform = "SCC" -> AppTermScc(p)

-----------------------------------------------------------------------------
(* Statistics *)

Counters == {"aborts", "commits", "max_retries", "duration", "aborts_war", "aborts_raw", "aborts_waw"}

\* Mutant of StatsMessages: a measured duration of 0 is sent as it is.
StatsMessagesZero(measured) ==
  <<[kind |-> measured, words |-> <<"aborts", "commits", "max_retries", "duration">>],
    [kind |-> 0, words |-> <<"aborts_war", "aborts_raw", "aborts_waw">>]>>

\* tm2c_rpc_stats: the two messages are told apart by tx_duration (kind), which is never 0
\* in the first; their words are a union.
StatsMessages(measured) ==
  <<[kind |-> IF measured = 0 THEN 1 ELSE measured, words |-> <<"aborts", "commits", "max_retries", "duration">>],
    [kind |-> 0, words |-> <<"aborts_war", "aborts_raw", "aborts_waw">>]>>

\* sys_sendcmd_all: as it is, or (NIAGARA) one message for each word, with its stats_type
SplitNiagara(m) ==
  IF m.kind # 0 THEN <<[kind |-> 0, words |-> <<m.words[4]>>], [kind |-> 1, words |-> <<m.words[1]>>],
                       [kind |-> 2, words |-> <<m.words[2]>>], [kind |-> 3, words |-> <<m.words[3]>>]>>
  ELSE [i \in 1 .. 3 |-> [kind |-> 3 + i, words |-> <<m.words[i]>>]]
sys_sendcmd_all(m) ==
  LET messages == IF platform = "NIAGARA" THEN SplitNiagara(m) ELSE <<m>>
  IN  FlattenSeq([i \in DOMAIN messages |-> Each(LAMBDA d : I("send", [to |-> d, msg |-> [type |-> "stats", kind |-> messages[i].kind, words |-> messages[i].words]]), Dsls)])

Statistics(measured) == FlattenSeq([i \in 1 .. 2 |-> sys_sendcmd_all(StatsMessages(measured)[i])]) \o W

\* What a DSL node adds to which of its counters, in the STATS case of dsl_service
TallyBoth(m) ==
  IF m.kind # 0 THEN {<<"aborts", m.words[1]>>, <<"commits", m.words[2]>>, <<"max_retries", m.words[3]>>,
                      <<"duration", m.words[4]>>}
  ELSE {<<"aborts_war", m.words[1]>>, <<"aborts_raw", m.words[2]>>, <<"aborts_waw", m.words[3]>>}
TallyNiagara(m) ==
  {<<CASE m.kind = 0 -> "duration" [] m.kind = 1 -> "aborts" [] m.kind = 2 -> "commits"
       [] m.kind = 3 -> "max_retries" [] m.kind = 4 -> "aborts_raw" [] m.kind = 5 -> "aborts_war"
       [] m.kind = 6 -> "aborts_waw", m.words[1]>>}
Tally(m) == IF platform = "NIAGARA" THEN TallyNiagara(m) ELSE TallyBoth(m)

\* Mutant of StatsExpected: every node sends once.
StatsExpectedOne == Cardinality(Apps)

\* Mutant of StatsExpected: DSL nodes count, too.
StatsExpectedAll == 2 * NumNodes

\* The messages after which the service ends
StatsExpected == (IF platform = "NIAGARA" THEN 7 ELSE 2) * Cardinality(Apps)

\* What follows the last of them: the nodes print in turn, then the least one the sums.
StatsInTurn(p) == Each(LAMBDA c : BarrierDsl \o (IF c = p THEN I("say", "stats") ELSE <<>>) \o BarrierDsl, Nodes)
StatsInTurnScc(p) == Each(LAMBDA c : BarrierDsl \o (IF c = p THEN I("say", "stats") ELSE <<>>), Nodes)
ServiceEnd(p) == (IF platform = "SCC" THEN StatsInTurnScc(p) ELSE StatsInTurn(p)) \o BarrierDsl
                   \o (IF p = min_dsl_id THEN I("print", p) ELSE <<>>)

-----------------------------------------------------------------------------
(* The programs *)

\* tm2c_term, for an application node and for a DSL node
TermApp(p) == W \o InOrder(p, "app", Barrier) \o sys_app_term(p) \o I("free", <<"tx", p>>)
TermDsl(p) == InOrder(p, "dsl", BarrierDsl) \o W \o sys_dsl_term(p)
                \o (IF pgas THEN I("free", Own(p, "write_sets")) ELSE <<>>)
                \o I("free", <<"ht", p>>) \o I("free", <<"cm_metadata", p>>)

\* tm2c_app_init, the main function of the client and TM_END
tm2c_app_init(p) == I("once", "dsl_nodes") \o sys_app_init(p) \o I("alloc", <<"tx", p>>)
AppProgram(p, measured) == tm2c_app_init(p) \o I("work", p) \o Statistics(measured) \o TermApp(p)

\* tm2c_dsl_init, which does not return
tm2c_dsl_init(p) ==
  (IF pgas THEN I("alloc", Own(p, "write_sets")) ELSE <<>>) \o I("alloc", <<"ht", p>>) \o I("alloc", <<"cm_metadata", p>>)
    \o sys_dsl_init(p) \o I("serve", p) \o ServiceEnd(p) \o W \o TermDsl(p)

\* What is there before the nodes start: memory mapped before the processes are forked
\* (TILERA), or provided by RCCE.
Inherited == IF platform \in {"TILERA", "SCC"} THEN {<<"mem", NoNode>>} ELSE {}

\* sys_tm2c_init_system and tm2c_init.  The flags of XEON and TILERA have names that an
\* earlier execution may have left (old).
Init ==
  /\ \E b \in Builds : platform = b[1] /\ pgas = b[2]
  /\ \E measured \in {0, 1} :
       todo = [p \in Nodes |-> IF p \in Apps THEN AppProgram(p, measured) ELSE tm2c_dsl_init(p)]
  /\ once = {} /\ store = Inherited /\ frees = 0
  /\ \E old \in Leftovers :
       /\ platform \notin {"XEON", "TILERA"} => old = {}
       /\ name = [a \in Apps |-> IF a \in old THEN 1 ELSE 0]
  /\ own = [a \in Apps |-> 0] /\ junk = {<<a, 1>> : a \in Apps}
  /\ seen = [d \in Dsls |-> [a \in Apps |-> 0]]
  /\ slot = [a \in Apps |-> [d \in Dsls |-> <<>>]]
  /\ waits = [a \in Apps |-> NoNode] /\ sent = [a \in Apps |-> 0]
  /\ contacted = [a \in Apps |-> {}] /\ holders = [d \in Dsls |-> {}]
  /\ received = [d \in Dsls |-> 0] /\ sums = [d \in Dsls |-> {}]
  /\ said = [what \in {"app", "dsl", "stats"} |-> -1]

At(p, do) == todo[p] # <<>> /\ Head(todo[p]).do = do
Arg(p) == Head(todo[p]).on
Next1(p) == todo' = [todo EXCEPT ![p] = Tail(@)]
Same(v) == UNCHANGED <<platform, pgas, v>>

Group(which) == CASE which = "all" -> Nodes [] which = "app" -> Apps [] which = "dsl" -> Dsls

\* Everybody of the group is at the barrier.
Rendezvous == \E which \in {"all", "app", "dsl"} :
  /\ \A p \in Group(which) : At(p, "barrier") /\ Arg(p) = which
  /\ todo' = [p \in Nodes |-> IF p \in Group(which) THEN Tail(todo[p]) ELSE todo[p]]
  /\ Same(<<memvars, msgvars, statvars>>)

\* pthread_once: the first one does it, and the others wait for it.
OnceBody(what) == IF what = "share" THEN {<<"array", NoNode>>, <<"ts", NoNode>>, <<"mem", NoNode>>}
                  ELSE {<<what, NoNode>>}
PthreadOnce(p) ==
  /\ At(p, "once")
  /\ once' = once \cup {Arg(p)}
  /\ store' = IF Arg(p) \in once THEN store ELSE store \cup OnceBody(Arg(p))
  /\ Next1(p) /\ UNCHANGED <<frees, name, own, seen, junk>> /\ Same(<<msgvars, statvars>>)

Allocate(p) ==
  /\ At(p, "alloc") /\ store' = store \cup {Arg(p)}
  /\ Next1(p) /\ UNCHANGED <<once, frees, name, own, seen, junk>> /\ Same(<<msgvars, statvars>>)

Free(p) ==
  /\ At(p, "free") /\ store' = store \ {Arg(p)}
  /\ Next1(p) /\ UNCHANGED <<once, frees, name, own, seen, junk>> /\ Same(<<msgvars, statvars>>)

\* Mutant of FreesShared: every caller is taken for the last one.
FreesSharedFirst(calls) == calls >= 1

\* The call of tm2c_free_shared_memory that makes the count TM2C_NUM_NODES frees.
FreesShared(calls) == calls = NumNodes

Count(p) ==
  /\ At(p, "count") /\ frees' = frees + 1
  /\ store' = IF FreesShared(frees') THEN store \ OnceBody("share") ELSE store
  /\ Next1(p) /\ UNCHANGED <<once, name, own, seen, junk>> /\ Same(<<msgvars, statvars>>)

\* cm_init on platforms with threads: another block for every call
NewBlock == [id |-> 2, fresh |-> FALSE]

\* Mutant of Named: an object that exists is removed first.
NamedAnew(a) == [id |-> IF name[a] = 0 THEN 2 ELSE 3 - name[a], fresh |-> TRUE]

\* Mutant of Named: every call makes another object.
NamedNext(a) == [id |-> name[a] + 1, fresh |-> TRUE]

\* cm_init on XEON and TILERA: the object of that name, created (all zero) if there is none
Named(a) == IF name[a] = 0 THEN [id |-> 2, fresh |-> TRUE] ELSE [id |-> name[a], fresh |-> FALSE]

cm_init(a) == IF Threads THEN NewBlock ELSE Named(a)

MakeFlag(p) ==
  /\ At(p, "flag")
  /\ own' = [own EXCEPT ![p] = cm_init(p).id]
  /\ name' = IF Threads THEN name ELSE [name EXCEPT ![p] = cm_init(p).id]
  /\ junk' = IF cm_init(p).fresh THEN junk ELSE junk \cup {<<p, cm_init(p).id>>}
  /\ Next1(p) /\ UNCHANGED <<once, store, frees, seen>> /\ Same(<<msgvars, statvars>>)

\* *cm_abort_flag_mine = NO_CONFLICT (OPTERON: in cm_init; SCC: the persisting line)
ClearFlag(p) ==
  /\ At(p, "clear") /\ junk' = junk \ {<<p, own[p]>>}
  /\ Next1(p) /\ UNCHANGED <<once, store, frees, name, own, seen>> /\ Same(<<msgvars, statvars>>)

\* cm_abort_flags[NODE_ID()] = cm_abort_flag_mine: the array all threads use
Publish(p) ==
  /\ At(p, "publish") /\ seen' = [d \in Dsls |-> [seen[d] EXCEPT ![p] = own[p]]]
  /\ Next1(p) /\ UNCHANGED <<once, store, frees, name, own, junk>> /\ Same(<<msgvars, statvars>>)

\* cm_abort_flags[i] = cm_init(i)
Open(p) == \E a \in Apps :
  /\ At(p, "open") /\ a = Arg(p)
  /\ seen' = [seen EXCEPT ![p][a] = cm_init(a).id]
  /\ name' = [name EXCEPT ![a] = cm_init(a).id]
  /\ Next1(p) /\ UNCHANGED <<once, store, frees, own, junk>> /\ Same(<<msgvars, statvars>>)

\* free(cm_abort_flag_mine)
DropFlag(p) ==
  /\ At(p, "drop") /\ own' = [own EXCEPT ![p] = 0]
  /\ Next1(p) /\ UNCHANGED <<once, store, frees, name, seen, junk>> /\ Same(<<msgvars, statvars>>)

\* cm_term: the name goes, if it is there; who has the object mapped keeps it.
Unlink(p) ==
  /\ \/ At(p, "unlink") /\ name' = [name EXCEPT ![Arg(p)] = 0] /\ UNCHANGED store
     \/ At(p, "unlink_ts") /\ store' = store \ {<<"ts", NoNode>>} /\ UNCHANGED name
  /\ Next1(p) /\ UNCHANGED <<once, frees, own, seen, junk>> /\ Same(<<msgvars, statvars>>)

Say(p) ==
  /\ At(p, "say") /\ said' = [said EXCEPT ![Arg(p)] = p]
  /\ Next1(p) /\ UNCHANGED <<received, sums>> /\ Same(<<memvars, msgvars>>)

\* tm2c_dsl_print_global_stats
PrintStats(p) == At(p, "print") /\ Next1(p) /\ Same(<<memvars, msgvars, statvars>>)

-----------------------------------------------------------------------------
(* Transactions and messages *)

Put(a, d, m) == Len(slot[a][d]) < Room /\ slot' = [slot EXCEPT ![a][d] = Append(@, m)]

Request(a) == \E d \in Dsls :
  /\ At(a, "work") /\ waits[a] = NoNode /\ sent[a] < MaxRequests
  /\ Put(a, d, [type |-> "lock"])
  /\ waits' = [waits EXCEPT ![a] = d] /\ sent' = [sent EXCEPT ![a] = @ + 1]
  /\ contacted' = [contacted EXCEPT ![a] = @ \cup {d}]
  /\ UNCHANGED <<todo, holders>> /\ Same(<<memvars, statvars>>)

\* The end of an attempt: one message to each DSL node contacted, in order
Release(a) == \E d \in contacted[a] :
  /\ At(a, "work") /\ waits[a] = NoNode /\ \A e \in contacted[a] : d <= e
  /\ Put(a, d, [type |-> "release"])
  /\ contacted' = [contacted EXCEPT ![a] = @ \ {d}]
  /\ UNCHANGED <<todo, waits, sent, holders>> /\ Same(<<memvars, statvars>>)

\* The client is done.
Finish(a) ==
  /\ At(a, "work") /\ waits[a] = NoNode /\ contacted[a] = {}
  /\ Next1(a) /\ Same(<<memvars, msgvars, statvars>>)

SendStats(a) ==
  /\ At(a, "send") /\ Put(a, Arg(a).to, Arg(a).msg)
  /\ Next1(a) /\ UNCHANGED <<waits, sent, contacted, holders>> /\ Same(<<memvars, statvars>>)

\* dsl_service takes a message: locks for the sender, holders of which are aborted or not;
\* a release; or statistics, the last of which end the service.
Serve(d, a) ==
  /\ At(d, "serve") /\ slot[a][d] # <<>>
  /\ slot' = [slot EXCEPT ![a][d] = Tail(@)]
  /\ LET m == Head(slot[a][d])
     IN  \/ /\ m.type = "lock"
            /\ \E victims \in SUBSET (holders[d] \ {a}) :
                 holders' = [holders EXCEPT ![d] = (@ \ victims) \cup {a}]
            /\ waits' = [waits EXCEPT ![a] = NoNode]
            /\ UNCHANGED <<todo, received, sums>>
         \/ /\ m.type = "release"
            /\ holders' = [holders EXCEPT ![d] = @ \ {a}]
            /\ UNCHANGED <<todo, waits, received, sums>>
         \/ /\ m.type = "stats"
            /\ received' = [received EXCEPT ![d] = @ + 1]
            /\ sums' = [sums EXCEPT ![d] = @ \cup {<<t[1], a, t[2]>> : t \in Tally(m)}]
            /\ IF received'[d] >= StatsExpected THEN Next1(d) ELSE UNCHANGED todo
            /\ UNCHANGED <<waits, holders>>
  /\ UNCHANGED <<sent, contacted, said>> /\ Same(memvars)

Step(p) == \/ PthreadOnce(p) \/ Allocate(p) \/ Free(p) \/ Count(p) \/ Publish(p) \/ Open(p)
           \/ Unlink(p) \/ Say(p) \/ PrintStats(p)
AppStep(a) == MakeFlag(a) \/ ClearFlag(a) \/ DropFlag(a) \/ Request(a) \/ Release(a) \/ Finish(a) \/ SendStats(a)

Next == \/ Rendezvous
        \/ \E p \in Nodes : Step(p)
        \/ \E a \in Apps : AppStep(a)
        \/ \E d \in Dsls, a \in Apps : Serve(d, a)

\* Every thread goes on when it can, and a DSL node that is in its service polls everybody.
Fairness ==
  /\ WF_vars(Rendezvous)
  /\ \A p \in Nodes : WF_vars(Step(p))
  /\ \A a \in Apps : WF_vars(AppStep(a))
  /\ \A d \in Dsls, a \in Apps : WF_vars(Serve(d, a))

Spec == Init /\ [][Next]_vars /\ Fairness

-----------------------------------------------------------------------------
(* What is checked. *)

\* The variables keep their types.
TypeOK ==
  /\ name \in [Apps -> 0 .. 2] /\ own \in [Apps -> 0 .. 2] /\ seen \in [Dsls -> [Apps -> 0 .. 2]]
  /\ waits \in [Apps -> Dsls \cup {NoNode}] /\ contacted \in [Apps -> SUBSET Dsls]
  /\ holders \in [Dsls -> SUBSET Apps] /\ received \in [Dsls -> 0 .. StatsExpected]
  /\ frees \in 0 .. NumNodes /\ sent \in [Apps -> 0 .. MaxRequests]

\* A DSL node may abort the holders of its locks at any request: it has their flags in its
\* array, they are the flags the nodes look at, not freed, and not with old contents.
FlagsUsable ==
  \A d \in Dsls : At(d, "serve") => \A a \in holders[d] :
    /\ own[a] # 0 /\ seen[d][a] = own[a] /\ <<a, own[a]>> \notin junk
    /\ Own(d, "array") \in store

\* What a node uses is there: the memory while clients run, the lock table while a DSL node
\* serves; and nothing is freed twice.
NothingAfterFree ==
  /\ \A p \in Nodes : /\ At(p, "free") => Arg(p) \in store
                      /\ At(p, "count") /\ FreesShared(frees + 1) => OnceBody("share") \subseteq store
                      /\ At(p, "publish") => <<"array", NoNode>> \in store
  /\ \A a \in Apps : At(a, "work") =>
       <<"tx", a>> \in store /\ (pgas \/ {<<"mem", a>>, <<"mem", NoNode>>} \cap store # {})
  /\ \A d \in Dsls : At(d, "serve") => <<"ht", d>> \in store /\ (pgas => Own(d, "pgas_dsl") \in store)

\* No message is left behind by the end of a service: a node that sends one afterwards,
\* or waits for the answer, would wait forever.
ServiceDrained ==
  \A d \in Dsls : received[d] >= StatsExpected =>
    \A a \in Apps : slot[a][d] = <<>> /\ waits[a] # d /\ a \notin holders[d]

\* When the sums are printed, every node's value of every counter is in them, in one counter.
StatsComplete ==
  \A d \in Dsls : At(d, "print") => \A a \in Apps :
    /\ \A c \in Counters : \E t \in sums[d] : t[2] = a /\ t[3] = c
    /\ \A t, u \in sums[d] : (t[2] = u[2] /\ t[1] = u[1]) => t = u

\* The nodes print in the order of their ids.
InTurn == [][\A what \in DOMAIN said : said'[what] # said[what] => said'[what] > said[what]]_said

\* Every thread ends.
Ends == <>(\A p \in Nodes : todo[p] = <<>>)
=============================================================================
