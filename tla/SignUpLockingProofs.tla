------------------------- MODULE SignUpLockingProofs -------------------------
(* What holds of SignUpLocking for any connections and names. *)
EXTENDS SignUpLocking, TLAPS

-----------------------------------------------------------------------------
(* The inductive invariant.  CheckedNameStaysFree is kept at another's commit *)
(* because that commit is EXCLUSIVE: whoever has only looked holds SHARED and *)
(* bars it, whoever has inserted holds RESERVED and is the one writer.  So it *)
(* needs which lock goes with which step, and who has a name at all.          *)

LockFor(step) ==
    CASE step \in {"create", "reading"}      -> "shared"
      [] step \in {"link_device", "commit"}  -> "reserved"
      [] step = "commit_wait"                -> "pending"
      [] OTHER                               -> "none"

\* A connection holds the lock its step needs.
LocksFitSteps == \A c \in Conn : lock[c] = LockFor(at[c])

\* A sign-up has a name until it is answered; idle connections and the
\* statements of other handlers have none.
NameFits(step, n) ==
    /\ step \in {"select", "select_wait", "create", "link_device"} => n # None
    /\ step \in {"idle", "read", "read_wait", "write", "write_wait", "reading"} => n = None

NamesFitSteps == \A c \in Conn : NameFits(at[c], name[c])

\* SQLite lets one connection at a time have changes to commit.
OneWriter == \A c \in Conn : lock[c] \in {"reserved", "pending"} => CanReserve(c)

IInv == TypeOK /\ OneWriter /\ LocksFitSteps /\ NamesFitSteps /\ CheckedNameStaysFree

-----------------------------------------------------------------------------

\* What answering leaves behind.
LEMMA ReplyEffect ==
    ASSUME TypeOK, NEW c \in Conn, NEW status \in {200, 409, 500}, Reply(c, status)
    PROVE  /\ lock' \in [Conn -> Locks] /\ lock'[c] = "none"
           /\ at' \in [Conn -> At] /\ at'[c] = "idle"
           /\ name' \in [Conn -> Name \cup {None}] /\ name'[c] = None
           /\ answer' \in [Conn -> {None, 200, 409, 500}] /\ answer'[c] = status
           /\ \A d \in Conn : d # c => /\ lock'[d] = lock[d] /\ at'[d] = at[d]
                                       /\ name'[d] = name[d] /\ answer'[d] = answer[d]
  BY DEF TypeOK, Reply, Take, Goto, Locks, At

\* What going on to another step with another lock leaves behind.
LEMMA MoveEffect ==
    ASSUME TypeOK, NEW c \in Conn, NEW step \in At, NEW l \in Locks,
           Goto(c, step), Take(c, l) \/ (l = lock[c] /\ UNCHANGED lock)
    PROVE  /\ lock' \in [Conn -> Locks] /\ lock'[c] = l
           /\ at' \in [Conn -> At] /\ at'[c] = step
           /\ \A d \in Conn : d # c => lock'[d] = lock[d] /\ at'[d] = at[d]
  BY DEF TypeOK, Take, Goto

\* An answer without new users.
LEMMA ReplyKeeps ==
    ASSUME IInv, NEW c \in Conn, NEW status \in {200, 409, 500}, Reply(c, status),
           UNCHANGED accounts
    PROVE  IInv'
  <1>1. TypeOK'
    BY ReplyEffect DEF IInv, TypeOK
  <1>2. OneWriter'
    BY ReplyEffect DEF IInv, OneWriter, CanReserve, Others
  <1>3. LocksFitSteps'
    BY ReplyEffect DEF IInv, LocksFitSteps, LockFor
  <1>4. CheckedNameStaysFree'
    BY ReplyEffect DEF IInv, CheckedNameStaysFree
  <1>5. NamesFitSteps'
    BY ReplyEffect DEF IInv, NamesFitSteps, NameFits
  <1> QED BY <1>1, <1>2, <1>3, <1>4, <1>5 DEF IInv

\* A step to where the locks fit and nothing new is claimed to be free.
LEMMA MoveKeeps ==
    ASSUME IInv, NEW c \in Conn, NEW step \in At,
           Goto(c, step), Take(c, LockFor(step)) \/ (LockFor(step) = lock[c] /\ UNCHANGED lock),
           LockFor(step) \in {"reserved", "pending"} => CanReserve(c),
           UNCHANGED <<accounts, name, answer>>,
           NameFits(step, name[c]),
           step \in {"create", "link_device", "commit", "commit_wait"} => name[c] \notin accounts
    PROVE  IInv'
  <1>0. LockFor(step) \in Locks
    BY DEF LockFor, Locks
  <1>1. /\ lock' \in [Conn -> Locks] /\ lock'[c] = LockFor(step)
        /\ at' \in [Conn -> At] /\ at'[c] = step
        /\ \A d \in Conn : d # c => lock'[d] = lock[d] /\ at'[d] = at[d]
    BY <1>0, MoveEffect DEF IInv
  <1>2. TypeOK'
    BY <1>1 DEF IInv, TypeOK
  <1>3. OneWriter'
    BY <1>1 DEF IInv, OneWriter, CanReserve, Others
  <1>4. LocksFitSteps'
    BY <1>1 DEF IInv, LocksFitSteps
  <1>5. CheckedNameStaysFree'
    BY <1>1 DEF IInv, CheckedNameStaysFree
  <1>6. NamesFitSteps'
    BY <1>1 DEF IInv, NamesFitSteps
  <1> QED BY <1>2, <1>3, <1>4, <1>5, <1>6 DEF IInv

LEMMA InitInv == Init => IInv
  BY NoneIsNoName
  DEF Init, IInv, TypeOK, OneWriter, LocksFitSteps, NamesFitSteps, NameFits,
      CheckedNameStaysFree, LockFor,
      CanReserve, Others, Locks, At

\* A connection that has no name to sign up with has none that is taken.
LEMMA NoneIsFree == ASSUME TypeOK PROVE None \notin accounts
  BY NoneIsNoName DEF TypeOK

LEMMA StartKeeps ==
    ASSUME IInv, NEW c \in Conn, Start(c)
    PROVE  IInv'
  <1>1. PICK step \in Trying, n \in Name \cup {None} :
           Goto(c, step) /\ name' = [name EXCEPT ![c] = n] /\ NameFits(step, n)
    <2>1. CASE \E n \in Name : Goto(c, "select") /\ name' = [name EXCEPT ![c] = n]
      BY <2>1, NoneIsNoName DEF Trying, NameFits
    <2>2. CASE \E s \in {"read", "write"} : Goto(c, s) /\ UNCHANGED name
      <3>1. name = [name EXCEPT ![c] = name[c]] /\ name[c] = None
        BY DEF Start, IInv, TypeOK, NamesFitSteps, NameFits
      <3> QED BY <2>2, <3>1 DEF Trying, NameFits
    <2> QED BY <2>1, <2>2 DEF Start
  <1>2. at[c] = "idle" /\ answer' = [answer EXCEPT ![c] = None] /\ UNCHANGED <<accounts, lock>>
    BY DEF Start
  <1>3. /\ at' \in [Conn -> At] /\ at'[c] = step
        /\ \A d \in Conn : d # c => at'[d] = at[d] /\ name'[d] = name[d]
        /\ name'[c] = n
    BY <1>1 DEF IInv, TypeOK, Goto, At
  <1>4. TypeOK'
    BY <1>1, <1>2, <1>3 DEF IInv, TypeOK
  <1>5. OneWriter'
    BY <1>2 DEF IInv, OneWriter, CanReserve, Others
  <1>6. LocksFitSteps'
    <2>1. LockFor(step) = LockFor("idle")
      BY DEF LockFor, Trying
    <2> QED BY <1>2, <1>3, <2>1 DEF IInv, LocksFitSteps
  <1>7. CheckedNameStaysFree'
    BY <1>2, <1>3 DEF IInv, CheckedNameStaysFree, Trying
  <1>8. NamesFitSteps'
    BY <1>1, <1>3 DEF IInv, NamesFitSteps
  <1> QED BY <1>4, <1>5, <1>6, <1>7, <1>8 DEF IInv

\* Waiting for a lock.
LEMMA SleepKeeps ==
    ASSUME IInv, NEW c \in Conn, busy_handler(c)
    PROVE  IInv'
  <1>1. PICK s \in Trying : at[c] = s /\ Goto(c, Sleeping[s])
    BY DEF busy_handler
  <1>2. /\ Sleeping[s] \in At
        /\ Sleeping[s] \notin {"create", "link_device", "commit", "commit_wait"}
        /\ LockFor(Sleeping[s]) = "none" /\ LockFor(s) = "none"
    BY DEF Sleeping, At, Waiting, Trying, LockFor
  <1>3. lock[c] = "none"
    BY <1>1, <1>2 DEF IInv, LocksFitSteps
  <1>4. NameFits(Sleeping[s], name[c])
    BY <1>1 DEF IInv, NamesFitSteps, NameFits, Sleeping, Trying
  <1> QED BY <1>1, <1>2, <1>3, <1>4, MoveKeeps DEF busy_handler

\* The SELECT found the name free, and holds SHARED from then on.
LEMMA SelectKeeps ==
    ASSUME IInv, NEW c \in Conn, SignUp_find_by_name(c)
    PROVE  IInv'
  <1>1. CASE Reply(c, 409)
    BY <1>1, ReplyKeeps DEF SignUp_find_by_name
  <1>2. CASE /\ name[c] \notin accounts
             /\ Take(c, "shared")
             /\ Goto(c, "create")
             /\ UNCHANGED <<name, answer>>
    <2>1. "create" \in At /\ LockFor("create") = "shared"
      BY DEF At, LockFor
    <2>2. NameFits("create", name[c])
      BY DEF SignUp_find_by_name, Attempts, Sleeping, IInv, NamesFitSteps, NameFits
    <2> QED BY <1>2, <2>1, <2>2, MoveKeeps DEF SignUp_find_by_name
  <1> QED BY <1>1, <1>2 DEF SignUp_find_by_name

LEMMA CreateKeeps ==
    ASSUME IInv, NEW c \in Conn, SignUp_create(c)
    PROVE  IInv'
  <1>1. CASE Reply(c, 500)
    BY <1>1, ReplyKeeps DEF SignUp_create
  <1>2. CASE /\ CanReserve(c)
             /\ Take(c, "reserved")
             /\ Goto(c, "link_device")
             /\ UNCHANGED <<name, answer>>
    <2>1. "link_device" \in At /\ LockFor("link_device") = "reserved"
      BY DEF At, LockFor
    <2>2. name[c] \notin accounts /\ NameFits("link_device", name[c])
      BY DEF SignUp_create, IInv, CheckedNameStaysFree, NamesFitSteps, NameFits
    <2> QED BY <1>2, <2>1, <2>2, MoveKeeps DEF SignUp_create
  <1> QED BY <1>1, <1>2 DEF SignUp_create

LEMMA LinkKeeps ==
    ASSUME IInv, NEW c \in Conn, SignUp_link_device(c)
    PROVE  IInv'
  <1>1. CASE Reply(c, 500)
    BY <1>1, ReplyKeeps DEF SignUp_link_device
  <1>2. CASE Goto(c, "commit") /\ UNCHANGED <<lock, name, answer>>
    <2>1. "commit" \in At /\ LockFor("commit") = "reserved" /\ LockFor("link_device") = "reserved"
      BY DEF At, LockFor
    <2>2. name[c] \notin accounts /\ lock[c] = "reserved" /\ NameFits("commit", name[c])
      BY <2>1 DEF SignUp_link_device, IInv, CheckedNameStaysFree, LocksFitSteps, NameFits
    <2>3. CanReserve(c)
      BY <2>2 DEF IInv, OneWriter
    <2> QED BY <1>2, <2>1, <2>2, <2>3, MoveKeeps DEF SignUp_link_device
  <1> QED BY <1>1, <1>2 DEF SignUp_link_device

\* The writer that is no sign-up has no name that could be taken.
LEMMA WriteKeeps ==
    ASSUME IInv, NEW c \in Conn, Write_execute(c)
    PROVE  IInv'
  <1>1. "commit" \in At /\ LockFor("commit") = "reserved"
    BY DEF At, LockFor
  <1>2. at[c] \in {"write", "write_wait"}
    BY DEF Write_execute, Attempts, Sleeping
  <1>3. name[c] \notin accounts /\ NameFits("commit", name[c])
    BY <1>2, NoneIsFree DEF IInv, NamesFitSteps, NameFits
  <1> QED BY <1>1, <1>3, MoveKeeps DEF Write_execute

LEMMA PendingKeeps ==
    ASSUME IInv, NEW c \in Conn, commit_pending(c)
    PROVE  IInv'
  <1>1. /\ "commit_wait" \in At /\ LockFor("commit_wait") = "pending"
        /\ LockFor("commit") = "reserved"
    BY DEF At, LockFor
  <1>2. name[c] \notin accounts /\ lock[c] = "reserved" /\ NameFits("commit_wait", name[c])
    BY <1>1 DEF commit_pending, IInv, CheckedNameStaysFree, LocksFitSteps, NameFits
  <1>3. CanReserve(c)
    BY <1>2 DEF IInv, OneWriter
  <1> QED BY <1>1, <1>2, <1>3, MoveKeeps DEF commit_pending

LEMMA ReadKeeps ==
    ASSUME IInv, NEW c \in Conn, Read_execute(c)
    PROVE  IInv'
  <1>1. "reading" \in At /\ LockFor("reading") = "shared"
    BY DEF At, LockFor
  <1>2. at[c] \in {"read", "read_wait"}
    BY DEF Read_execute, Attempts, Sleeping
  <1>3. NameFits("reading", name[c])
    BY <1>2 DEF IInv, NamesFitSteps, NameFits
  <1> QED BY <1>1, <1>3, MoveKeeps DEF Read_execute

\* While one connection commits, no other one relies on a name being free.
LEMMA NobodyElseLooked ==
    ASSUME IInv, NEW c \in Conn, at[c] = "commit_wait", CanExclude(c),
           NEW d \in Conn, d # c
    PROVE  at[d] \notin {"create", "link_device", "commit", "commit_wait"}
  <1>1. lock[c] = "pending" /\ lock[d] = LockFor(at[d])
    BY DEF IInv, LocksFitSteps, LockFor
  <1>2. lock[d] \notin {"reserved", "pending"}
    BY <1>1 DEF IInv, OneWriter, CanReserve, Others
  <1>3. lock[d] # "shared"
    BY DEF CanExclude, Others
  <1> QED BY <1>1, <1>2, <1>3 DEF LockFor

LEMMA CommitKeeps ==
    ASSUME IInv, NEW c \in Conn, commit_exclusive(c)
    PROVE  IInv'
  <1>1. /\ at[c] = "commit_wait" /\ CanExclude(c)
        /\ accounts' = accounts \cup ({name[c]} \ {None})
        /\ Reply(c, 200)
    BY DEF commit_exclusive
  <1>2. /\ lock' \in [Conn -> Locks] /\ lock'[c] = "none"
        /\ at' \in [Conn -> At] /\ at'[c] = "idle"
        /\ name' \in [Conn -> Name \cup {None}] /\ name'[c] = None
        /\ answer' \in [Conn -> {None, 200, 409, 500}]
        /\ \A d \in Conn : d # c => /\ lock'[d] = lock[d] /\ at'[d] = at[d]
                                    /\ name'[d] = name[d]
    BY <1>1, ReplyEffect DEF IInv
  <1>3. TypeOK'
    BY <1>1, <1>2 DEF IInv, TypeOK
  <1>4. OneWriter'
    BY <1>2 DEF IInv, OneWriter, CanReserve, Others
  <1>5. LocksFitSteps'
    BY <1>2 DEF IInv, LocksFitSteps, LockFor
  <1>6. NamesFitSteps'
    BY <1>2 DEF IInv, NamesFitSteps, NameFits
  <1>7. CheckedNameStaysFree'
    BY <1>1, <1>2, NobodyElseLooked DEF CheckedNameStaysFree
  <1> QED BY <1>3, <1>4, <1>5, <1>6, <1>7 DEF IInv

LEMMA NextInv == IInv /\ [Next]_vars => IInv'
  <1> SUFFICES ASSUME IInv, [Next]_vars PROVE IInv'
    OBVIOUS
  <1>1. CASE UNCHANGED vars
    BY <1>1 DEF vars, IInv, TypeOK, OneWriter, CanReserve, Others, LocksFitSteps,
       NamesFitSteps, CheckedNameStaysFree
  <1>2. CASE Next
    <2>1. PICK c \in Conn : Start(c) \/ Continue(c)
      BY <1>2 DEF Next
    <2>2. CASE busy_timeout(c)
      BY <2>2, ReplyKeeps DEF busy_timeout
    <2>3. CASE Read_done(c)
      BY <2>3, ReplyKeeps DEF Read_done
    <2> QED BY <2>1, <2>2, <2>3, StartKeeps, SleepKeeps, SelectKeeps, CreateKeeps, LinkKeeps,
               WriteKeeps, PendingKeeps, CommitKeeps, ReadKeeps DEF Continue
  <1> QED BY <1>1, <1>2

-----------------------------------------------------------------------------
(* The theorems *)

\* The inductive invariant: types, and locks, steps and names that fit each other.
THEOREM LockingInvariant == Spec => []IInv
  BY InitInv, NextInv, PTL DEF Spec

\* Every variable keeps its type: each connection is at a step of a handler,
\* with a lock that SQLite has.
THEOREM TypeCorrect == Spec => []TypeOK
  <1>1. IInv => TypeOK
    BY DEF IInv
  <1> QED BY <1>1, LockingInvariant, PTL

\* The name a sign-up has checked is free for its INSERT and its COMMIT, for any
\* number of connections.
THEOREM NameStaysFree == Spec => []CheckedNameStaysFree
  <1>1. IInv => CheckedNameStaysFree
    BY DEF IInv
  <1> QED BY <1>1, LockingInvariant, PTL

-----------------------------------------------------------------------------
(* The sign-up is one step.  The map leaves accounts and answer alone and     *)
(* reads the name a connection signs up with as what it is asking for.        *)

LEMMA InitIsInit == Init => Sign!Init
  BY DEF Init, Sign!Init

\* Replies to a sign-up are its outcomes, replies to anything else are Other.
LEMMA ReplyRefines ==
    ASSUME IInv, NEW c \in Conn, NEW status \in {200, 409, 500}, Reply(c, status),
           UNCHANGED accounts,
           name[c] # None => \/ status = 500
                             \/ status = 409 /\ name[c] \in accounts,
           name[c] = None => status \in {200, 500}
    PROVE  Sign!Next
  <1>1. /\ name' = [name EXCEPT ![c] = None]
        /\ answer' = [answer EXCEPT ![c] = status]
    BY DEF Reply
  <1>2. CASE name[c] # None
    <2>1. Sign!Fail(c) \/ Sign!Conflict(c)
      BY <1>1, <1>2 DEF Sign!Fail, Sign!Conflict, Sign!Answer
    <2> QED BY <2>1 DEF Sign!Next
  <1>3. CASE name[c] = None
    <2>1. UNCHANGED name
      BY <1>1, <1>3 DEF IInv, TypeOK
    <2>2. Sign!Other(c, status) /\ status \in {None, 200, 500}
      BY <1>1, <1>3, <2>1 DEF Sign!Other
    <2> QED BY <2>2 DEF Sign!Next
  <1> QED BY <1>2, <1>3

LEMMA StartRefines ==
    ASSUME IInv, NEW c \in Conn, Start(c)
    PROVE  Sign!Next
  <1>1. name[c] = None
    BY DEF Start, IInv, NamesFitSteps, NameFits
  <1>2. CASE \E n \in Name : Goto(c, "select") /\ name' = [name EXCEPT ![c] = n]
    BY <1>1, <1>2 DEF Start, Sign!Next, Sign!Ask
  <1>3. CASE UNCHANGED name
    BY <1>1, <1>3 DEF Start, Sign!Next, Sign!Other
  <1> QED BY <1>2, <1>3 DEF Start

LEMMA CommitRefines ==
    ASSUME IInv, NEW c \in Conn, commit_exclusive(c)
    PROVE  Sign!Next
  <1>1. /\ at[c] = "commit_wait"
        /\ accounts' = accounts \cup ({name[c]} \ {None})
        /\ Reply(c, 200)
    BY DEF commit_exclusive
  <1>2. CASE name[c] = None
    <2>1. UNCHANGED accounts
      BY <1>1, <1>2
    <2> QED BY <1>1, <1>2, <2>1, ReplyRefines
  <1>3. CASE name[c] # None
    <2>1. accounts' = accounts \cup {name[c]}
      BY <1>1, <1>3
    <2>2. name[c] \notin accounts
      BY <1>1 DEF IInv, CheckedNameStaysFree
    <2> QED BY <1>1, <1>3, <2>1, <2>2 DEF Reply, Sign!Next, Sign!Succeed, Sign!Answer
  <1> QED BY <1>2, <1>3

\* Every other step is an answer, or is not seen.
LEMMA ContinueRefines ==
    ASSUME IInv, NEW c \in Conn, Continue(c)
    PROVE  Sign!Next \/ UNCHANGED Sign!vars
  <1>1. CASE UNCHANGED <<accounts, name, answer>>
    BY <1>1 DEF Sign!vars
  <1>2. CASE busy_timeout(c)
    BY <1>2, ReplyRefines DEF busy_timeout
  <1>3. CASE SignUp_find_by_name(c) /\ Reply(c, 409) /\ name[c] \in accounts
    <2>1. name[c] # None
      BY <1>3, NoneIsFree DEF IInv
    <2> QED BY <1>3, <2>1, ReplyRefines DEF SignUp_find_by_name
  <1>4. CASE SignUp_create(c) /\ Reply(c, 500)
    BY <1>4, ReplyRefines DEF SignUp_create
  <1>5. CASE SignUp_link_device(c) /\ Reply(c, 500)
    BY <1>5, ReplyRefines DEF SignUp_link_device
  <1>6. CASE Read_done(c)
    <2>1. name[c] = None
      BY <1>6 DEF Read_done, IInv, NamesFitSteps, NameFits
    <2> QED BY <1>6, <2>1, ReplyRefines DEF Read_done
  <1> QED BY <1>1, <1>2, <1>3, <1>4, <1>5, <1>6, CommitRefines
          DEF Continue, busy_handler, SignUp_find_by_name, SignUp_create, SignUp_link_device,
              Write_execute, commit_pending, Read_execute

LEMMA StepIsStep == IInv /\ [Next]_vars => [Sign!Next]_(Sign!vars)
  <1>1. ASSUME UNCHANGED vars PROVE UNCHANGED Sign!vars
    BY <1>1 DEF vars, Sign!vars
  <1> QED BY <1>1, StartRefines, ContinueRefines DEF Next

\* A sign-up is one step of the abstract specification, whatever the locks do.
THEOREM SignUpIsOneStep == Spec => SignUpIsAtomic
  BY InitIsInit, StepIsStep, LockingInvariant, PTL DEF Spec, SignUpIsAtomic, Sign!Spec

===============================================================================
