---------------------------- MODULE Connections ----------------------------
(* The SQLite connections of the processes that share the analytics database, *)
(* as storage/ uses them: WAL journal, one writer at a time, and the sqlite3  *)
(* module's implicit transactions.  A data statement opens a transaction, and *)
(* only commit() ends it: storage/ never calls rollback().                    *)
(*                                                                            *)
(*   auto      no transaction                                                 *)
(*   open      a transaction that has read and written nothing                *)
(*   snapshot  it has read; nobody has committed since                        *)
(*   stale     it has read and somebody has committed since: SQLite refuses   *)
(*             to let it write (SQLITE_BUSY_SNAPSHOT)                         *)
(*   writer    it holds the write lock                                        *)
EXTENDS Naturals

CONSTANT Process

VARIABLE conn

ConnState == {"auto", "open", "snapshot", "stale", "writer"}

\* Another process holds the write lock.
Busy(c) == \E d \in Process \ {c} : conn[d] = "writer"

CanWrite(c) == ~Busy(c) /\ conn[c] # "stale"

\* A statement that writes and takes effect, its transaction left open.
Write(c) == CanWrite(c) /\ conn' = [conn EXCEPT ![c] = "writer"]

\* The write statement times out on the lock, or is refused as stale; the
\* transaction it was to run in stays open.
LockedOut(c) ==
  /\ ~CanWrite(c)
  /\ conn' = [conn EXCEPT ![c] = IF @ = "auto" THEN "open" ELSE @]

\* A SELECT reads to its end: it pins a snapshot only in an open transaction.
Read(c) == conn' = [conn EXCEPT ![c] = IF @ = "open" THEN "snapshot" ELSE @]

\* The connections once a commit of c that wrote something is over.
AfterCommit(c) ==
  [d \in Process |-> IF d = c THEN "auto"
                     ELSE IF conn[d] = "snapshot" THEN "stale" ELSE conn[d]]

\* commit(): ends the transaction, if there is one.
Commit(c) ==
  conn' = IF conn[c] = "writer" THEN AfterCommit(c) ELSE [conn EXCEPT ![c] = "auto"]

\* One write statement and its commit(), with nothing in between.
WriteCommit(c) == CanWrite(c) /\ conn' = AfterCommit(c)

\* The process ends: SQLite rolls its transaction back.
Close(c) == conn' = [conn EXCEPT ![c] = "auto"]
=============================================================================
