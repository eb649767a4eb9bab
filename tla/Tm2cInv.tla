------------------------------ MODULE Tm2cInv -------------------------------
(***************************************************************************)
(* The inductive invariant of Tm2c behind the theorems of Tm2cSafety.      *)
(*                                                                         *)
(* What makes the protocol safe is spread over three kinds of state: where *)
(* the request of a node is (its slot, the DSL node, the reply), which     *)
(* locks the DSL nodes keep for it, and what its abort flag says.  The     *)
(* parts below relate them.                                                *)
(***************************************************************************)
EXTENDS Tm2c

\* A node that sends a request, or awaits the reply, has an operation for it.
Asking == \A p \in Apps : pc[p] \in {"send", "wait"} => NeedsLock(p)

TypeInv == TypeOK /\ Asking

(* The messages. *)

\* m, at d, is the request whose reply p awaits.
Awaits(p, d, m) ==
  /\ pc[p] = "wait" /\ resp[p] = "NONE"
  /\ d = LockDsl(p) /\ m.addr = LockAddr(p) /\ m.type = LockType(p)

\* A request is in its slot, or is being served, or is answered: one of them.
Requested == \A d \in Dsls, p \in Apps : IsRequest(chan[d][p]) =>
               Awaits(p, d, chan[d][p]) /\ (~Idle(d) => serving[d].app # p)
Served == \A d \in Dsls : ~Idle(d) => Awaits(serving[d].app, d, serving[d])
Answered == \A p \in Apps : resp[p] # "NONE" => pc[p] = "wait"

\* The release of an earlier attempt has left the slot when a request enters it.
Overtaken == \A p \in Apps : pc[p] = "wait" => chan[LockDsl(p)][p].type # "RMV_NODE"

\* An attempt begins with nothing; it has not locked or written more than it stored.
Clean == \A p \in Apps :
  pc[p] \in {"idle", "start"} => reads[p] = {} /\ wset[p] = <<>> /\ nw[p] = 0 /\ ip[p] = 1
Counted == \A p \in Apps : nw[p] =< Len(wset[p])

MsgInv == Requested /\ Served /\ Answered /\ Overtaken /\ Clean /\ Counted

(* The locks. *)

\* A writer has the word for itself.
Excl == \A a \in Addrs : writer[a] # NoNode => readers[a] \subseteq {writer[a]}

\* A DSL node that aborts holders has all of them, but the requester, on its list.
Evicting == \A d \in Dsls : ~Idle(d) =>
  LET j == serving[d] IN
  /\ writer[j.addr] \in victims[d] \cup {NoNode}
       \/ (j.type = "STORE" /\ writer[j.addr] = j.app)
  /\ j.type = "STORE" => readers[j.addr] \subseteq victims[d] \cup {j.app}

LockInv == Excl /\ Evicting

\* The words for which the attempt of p relies on a lock
Relied(p) == ReadAddrs(p) \cup LockedAddrs(p)

\* The locks an attempt relies on are not about to be released by an old message.
NotReleasing == \A p \in Apps : Live(p) =>
  \A a \in Relied(p) : chan[Responsible[a]][p].type # "RMV_NODE"

\* A granted lock is held before the node learns of the grant.
Promised == \A p \in Apps : (Live(p) /\ pc[p] = "wait" /\ resp[p] = "NO_CONFLICT") =>
  IF LockType(p) = "LOAD" THEN p \in readers[LockAddr(p)] ELSE writer[LockAddr(p)] = p

HoldInv == NotReleasing /\ Promised /\ HoldsLocks

\* A transaction that writes back cannot be aborted.
Unabortable ==
  /\ HasCM => \A p \in Apps : pc[p] = "persist" => flag[p] = "PERSISTING_WRITES"
  /\ ~HasCM => /\ \A p \in Apps : flag[p] = "NO_CONFLICT"
               /\ \A d \in Dsls : Idle(d)

IInv == TypeInv /\ MsgInv /\ LockInv /\ HoldInv /\ Unabortable /\ Snapshot

(* The releases. *)

\* p has a lock on a at the DSL node of a.
Holds(p, a) == p \in readers[a] \/ writer[a] = p

\* A node counts the DSL node it asks among those it will release; it forgets them all
\* before it starts again.
Contacts == \A p \in Apps :
  /\ pc[p] \in {"idle", "start"} => contacted[p] = {}
  /\ pc[p] \in {"send", "wait"} => LockDsl(p) \in contacted[p]

\* A DSL node that refuses has taken all its locks from the requester, so that the
\* requester need not release it.
Stripped == \A p \in Apps : resp[p] = "CONFLICT" =>
  \A a \in Addrs : Responsible[a] = LockDsl(p) => ~Holds(p, a)

ReleaseInv == Contacts /\ Stripped /\ NoLostLock

(* The priorities. *)

\* A request has the priority of its transaction, a release that or an earlier one of its node.
Stamped == \A d \in Dsls, p \in Apps :
  /\ IsRequest(chan[d][p]) => chan[d][p].meta = prio[p]
  /\ chan[d][p].type = "RMV_NODE" => chan[d][p].meta =< prio[p]

\* What a DSL node knows of a priority may be old, but priorities only grow;
\* GREEDY forgets it before the next transaction of the node asks.
NotAhead ==
  /\ \A d \in Dsls, p \in Apps : ts[d][p] =< prio[p]
  /\ CM = "GREEDY" =>
       \A p \in Apps : /\ prio[p] =< clock
                       /\ resp[p] = "CONFLICT" => ts[LockDsl(p)][p] = 0
                       /\ \A d \in Dsls : ts[d][p] # 0 =>
                            \/ ts[d][p] = prio[p] /\ d \in contacted[p]
                            \/ chan[d][p].type = "RMV_NODE"

\* While a DSL node serves p, and until p has read that it is granted, it knows the priority of p.
Noticed == HasCM =>
  /\ \A d \in Dsls : ~Idle(d) => ts[d][serving[d].app] = prio[serving[d].app]
  /\ \A p \in Apps : resp[p] = "NO_CONFLICT" => ts[LockDsl(p)][p] = prio[p]

\* The requester comes before every holder that is being aborted for it.
Rightful == \A d \in Dsls : ~Idle(d) =>
  \A v \in victims[d] : v # serving[d].app /\ Beats(ts[d], serving[d].app, v)

PriorityInv == Stamped /\ NotAhead /\ Noticed /\ Rightful /\ PriorityCurrent
=============================================================================
