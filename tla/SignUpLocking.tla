---------------------------- MODULE SignUpLocking ----------------------------
(***************************************************************************)
(* The sign-up transaction on SQLite's locks.                              *)
(*                                                                         *)
(* The database is one file in rollback-journal mode.  Every pooled        *)
(* connection has busy_timeout = 5000 and opens its transactions with a    *)
(* plain (deferred) BEGIN, so a sign-up takes SHARED at its SELECT,        *)
(* RESERVED at its INSERT and EXCLUSIVE at its COMMIT.  The statements of  *)
(* the other handlers run outside transactions: a read takes SHARED, a     *)
(* write goes to RESERVED at once and to EXCLUSIVE to commit.              *)
(*                                                                         *)
(* A statement that finds the file locked waits in the busy handler, with  *)
(* one exception of SQLite's: a transaction that holds SHARED and cannot   *)
(* have RESERVED is told SQLITE_BUSY at once, because waiting could        *)
(* deadlock.                                                               *)
(***************************************************************************)
CONSTANTS
    Conn,    \* pooled connections, each serving one request at a time
    Name,    \* user names
    None

ASSUME NoneIsNoName == None \notin Name

VARIABLES
    accounts, \* the names of the users committed so far
    lock,     \* the lock each connection holds on the file
    at,       \* where each connection's request is
    name,     \* the name it signs up with, or None
    answer    \* the status each connection's last request was answered with, or None

vars == <<accounts, lock, at, name, answer>>

Locks == {"none", "shared", "reserved", "pending"}

\* A statement that needs its first lock is at "select", "read" or "write" when
\* it tries, and at the second of each pair while the busy handler sleeps.
Sleeping == [select |-> "select_wait", read |-> "read_wait", write |-> "write_wait"]
Trying   == {"select", "read", "write"}
Waiting  == {Sleeping[s] : s \in Trying}
At == {"idle"} \cup Trying \cup Waiting
      \cup {"create", "link_device", "commit", "commit_wait", "reading"}

Init == /\ accounts = {}
        /\ lock = [c \in Conn |-> "none"]
        /\ at = [c \in Conn |-> "idle"]
        /\ name = [c \in Conn |-> None]
        /\ answer = [c \in Conn |-> None]

-----------------------------------------------------------------------------
(* SQLite's lock table.  EXCLUSIVE is not listed: who gets it writes the file *)
(* and lets go of it in one step.                                             *)

Others(c, locks) == {d \in Conn \ {c} : lock[d] \in locks}

CanShare(c)   == Others(c, {"pending"}) = {}
CanReserve(c) == Others(c, {"reserved", "pending"}) = {}
CanExclude(c) == Others(c, {"shared"}) = {}

Goto(c, step) == at' = [at EXCEPT ![c] = step]
Take(c, l)    == lock' = [lock EXCEPT ![c] = l]

\* The request is over: any transaction is closed, its locks are released.
Reply(c, status) ==
    /\ Take(c, "none")
    /\ Goto(c, "idle")
    /\ name' = [name EXCEPT ![c] = None]
    /\ answer' = [answer EXCEPT ![c] = status]

\* The statement is here, trying for the first time or again after a sleep.
Attempts(c, statement) == at[c] \in {statement, Sleeping[statement]}

Granted(c, statement) == IF statement = "write" THEN CanReserve(c) ELSE CanShare(c)

-----------------------------------------------------------------------------
(* Requests *)

Start(c) ==
    /\ at[c] = "idle"
    /\ \/ \E n \in Name : Goto(c, "select") /\ name' = [name EXCEPT ![c] = n]
       \/ \E s \in {"read", "write"} : Goto(c, s) /\ UNCHANGED name
    /\ answer' = [answer EXCEPT ![c] = None]
    /\ UNCHANGED <<accounts, lock>>

\* The file is locked: sleep in the busy handler.
busy_handler(c) ==
    /\ \E s \in Trying : at[c] = s /\ ~Granted(c, s) /\ Goto(c, Sleeping[s])
    /\ UNCHANGED <<accounts, lock, name, answer>>

\* Mutant: a timeout gets a status of its own.
busy_timeout_408(c) ==
    /\ at[c] \in Waiting \cup {"commit_wait"}
    /\ Reply(c, 408)
    /\ UNCHANGED accounts

\* Mutant: without busy_timeout on the statements before a COMMIT.
busy_timeout_commits_only(c) ==
    /\ at[c] = "commit_wait"
    /\ Reply(c, 500)
    /\ UNCHANGED accounts

\* Five seconds of sleep are over: SQLITE_BUSY, a rollback, and status 500.
busy_timeout(c) ==
    /\ at[c] \in Waiting \cup {"commit_wait"}
    /\ Reply(c, 500)
    /\ UNCHANGED accounts

\* Mutant: the SELECT runs before the transaction, and its lock ends with it.
SignUp_find_by_name_outside(c) ==
    /\ Attempts(c, "select")
    /\ CanShare(c)
    /\ \/ /\ name[c] \notin accounts
          /\ Goto(c, "create")
          /\ UNCHANGED <<lock, name, answer>>
       \/ /\ name[c] \in accounts
          /\ Reply(c, 409)
    /\ UNCHANGED accounts

\* BEGIN and the SELECT.  The SHARED lock stays until the transaction ends.
SignUp_find_by_name(c) ==
    /\ Attempts(c, "select")
    /\ CanShare(c)
    /\ \/ /\ name[c] \notin accounts
          /\ Take(c, "shared")
          /\ Goto(c, "create")
          /\ UNCHANGED <<name, answer>>
       \/ /\ name[c] \in accounts
          /\ Reply(c, 409)
    /\ UNCHANGED accounts

\* Mutant: the INSERT commits by itself.
SignUp_create_autocommit(c) ==
    /\ at[c] = "create"
    /\ \/ /\ CanReserve(c)
          /\ Take(c, "reserved")
          /\ Goto(c, "link_device")
          /\ accounts' = accounts \cup {name[c]}
          /\ UNCHANGED <<name, answer>>
       \/ /\ ~CanReserve(c)
          /\ Reply(c, 500)
          /\ UNCHANGED accounts

\* The INSERT raises SHARED to RESERVED, or fails on the spot.
SignUp_create(c) ==
    /\ at[c] = "create"
    /\ \/ /\ CanReserve(c)
          /\ Take(c, "reserved")
          /\ Goto(c, "link_device")
          /\ UNCHANGED <<name, answer>>
       \/ /\ ~CanReserve(c)
          /\ Reply(c, 500)
    /\ UNCHANGED accounts

\* The UPDATE finds the device's row, or the row was deleted and all rolls back.
SignUp_link_device(c) ==
    /\ at[c] = "link_device"
    /\ \/ /\ Goto(c, "commit")
          /\ UNCHANGED <<lock, name, answer>>
       \/ Reply(c, 500)
    /\ UNCHANGED accounts

\* A write outside a transaction: the first lock it takes is RESERVED.
Write_execute(c) ==
    /\ Attempts(c, "write")
    /\ CanReserve(c)
    /\ Take(c, "reserved")
    /\ Goto(c, "commit")
    /\ UNCHANGED <<accounts, name, answer>>

\* The commit bars new readers, and sleeps while there are old ones.
commit_pending(c) ==
    /\ at[c] = "commit"
    /\ Take(c, "pending")
    /\ Goto(c, "commit_wait")
    /\ UNCHANGED <<accounts, name, answer>>

commit_exclusive(c) ==
    /\ at[c] = "commit_wait"
    /\ CanExclude(c)
    /\ accounts' = accounts \cup ({name[c]} \ {None})
    /\ Reply(c, 200)

Read_execute(c) ==
    /\ Attempts(c, "read")
    /\ CanShare(c)
    /\ Take(c, "shared")
    /\ Goto(c, "reading")
    /\ UNCHANGED <<accounts, name, answer>>

Read_done(c) ==
    /\ at[c] = "reading"
    /\ Reply(c, 200)
    /\ UNCHANGED accounts

Continue(c) ==
    \/ busy_handler(c) \/ busy_timeout(c)
    \/ SignUp_find_by_name(c) \/ SignUp_create(c) \/ SignUp_link_device(c)
    \/ Write_execute(c) \/ commit_pending(c) \/ commit_exclusive(c)
    \/ Read_execute(c) \/ Read_done(c)

Next == \E c \in Conn : Start(c) \/ Continue(c)

\* A connection that can go on does: its handler runs on a thread of its own
\* and the busy handler's sleep is bounded.
Fairness == \A c \in Conn : WF_vars(Continue(c))

Spec == Init /\ [][Next]_vars /\ Fairness

-----------------------------------------------------------------------------
(* Properties *)

\* Every variable holds values of its type.
TypeOK == /\ accounts \subseteq Name
          /\ lock \in [Conn -> Locks]
          /\ at \in [Conn -> At]
          /\ name \in [Conn -> Name \cup {None}]
          /\ answer \in [Conn -> {None, 200, 409, 500}]

\* The name that the SELECT of a sign-up found free is still free at its INSERT
\* and at its COMMIT, so that a name taken is always a 409 and the INSERT never
\* meets the UNIQUE constraint on users.name, whose error would be a 500.
CheckedNameStaysFree ==
    \A c \in Conn : at[c] \in {"create", "link_device", "commit", "commit_wait"}
                        => name[c] \notin accounts

\* Every request is answered: no two connections wait for each other's locks.
EveryRequestIsAnswered == \A c \in Conn : at[c] # "idle" ~> at[c] = "idle"

\* Four statements and three locks later, a sign-up has still been one step.
Sign == INSTANCE AtomicSignUp WITH asking <- name
SignUpIsAtomic == Sign!Spec

\* TODO.md, "SQLite connection pragmas": busy_timeout = 5000 means "no more
\* SQLITE_BUSY -> HTTP 500 under concurrent writes".  A sign-up's INSERT is not
\* answered 500 on account of another connection's lock without a wait.
BusyWaits ==
    [][\A c \in Conn : (at[c] = "create" /\ at'[c] = "idle") => answer'[c] # 500]_vars

===============================================================================
