----------------------------- MODULE LockTable ------------------------------
(***************************************************************************)
(* What a DSL node promises about the words it is responsible for: each    *)
(* word has a set of readers and at most one writer, and a writer shares   *)
(* the word with nobody.  A node that is granted a lock may have had other *)
(* holders of that word evicted first; an evicted node loses all its locks *)
(* at this DSL node, and so does a node that is refused.                   *)
(***************************************************************************)
CONSTANTS Nodes,     \* the application nodes
          Addrs,     \* the words
          NoWriter   \* SSHT_NO_WRITER, which is no node

VARIABLES readers, writer

tvars == <<readers, writer>>

TInit == /\ readers = [a \in Addrs |-> {}]
         /\ writer = [a \in Addrs |-> NoWriter]

\* The table without the locks of the nodes in V
ReadersLess(V) == [a \in Addrs |-> readers[a] \ V]
WriterLess(V) == [a \in Addrs |-> IF writer[a] \in V THEN NoWriter ELSE writer[a]]

\* p gets a read lock once the writer, if there is one, is evicted.
GrantRead(p, a) ==
  /\ writer[a] # p
  /\ writer' = WriterLess({writer[a]})
  /\ readers' = [ReadersLess({writer[a]}) EXCEPT ![a] = @ \cup {p}]

\* p gets the write lock once all other holders are evicted.
GrantWrite(p, a) ==
  LET others == (readers[a] \cup {writer[a]}) \ {p} IN
  /\ writer' = [WriterLess(others) EXCEPT ![a] = p]
  /\ readers' = ReadersLess(others)

\* All locks of p go: it released them, was refused one, or was aborted.
Drop(p) == writer' = WriterLess({p}) /\ readers' = ReadersLess({p})

\* p gives back a read lock early ...
DropRead(p, a) == readers' = [readers EXCEPT ![a] = @ \ {p}] /\ UNCHANGED writer

\* ... or the write lock.
DropWrite(p, a) == writer' = [writer EXCEPT ![a] = IF @ = p THEN NoWriter ELSE @] /\ UNCHANGED readers

TNext ==
  \E p \in Nodes :
    Drop(p) \/ \E a \in Addrs : DropRead(p, a) \/ DropWrite(p, a) \/ GrantRead(p, a) \/ GrantWrite(p, a)

TSpec == TInit /\ [][TNext]_tvars

\* A writer excludes every other node.
Exclusive == \A a \in Addrs : writer[a] # NoWriter => readers[a] \subseteq {writer[a]}
=============================================================================
