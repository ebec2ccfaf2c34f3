----------------------------- MODULE AtomicSignUp -----------------------------
(***************************************************************************)
(* What a sign-up promises whatever else uses the database: the name goes  *)
(* to exactly one of those who ask for it, in one step, and the others are *)
(* told it is taken or that the server failed.                             *)
(***************************************************************************)
CONSTANTS Conn, Name, None

VARIABLES
    accounts,  \* the names that are taken
    asking,    \* the name each connection is signing up with, or None
    answer     \* how each connection's last request was answered, or None

vars == <<accounts, asking, answer>>

Init == /\ accounts = {}
        /\ asking = [c \in Conn |-> None]
        /\ answer = [c \in Conn |-> None]

Ask(c, n) == /\ asking[c] = None
             /\ asking' = [asking EXCEPT ![c] = n]
             /\ answer' = [answer EXCEPT ![c] = None]
             /\ UNCHANGED accounts

Answer(c, code) == /\ asking[c] # None
                   /\ asking' = [asking EXCEPT ![c] = None]
                   /\ answer' = [answer EXCEPT ![c] = code]

Succeed(c) == /\ Answer(c, 200)
              /\ asking[c] \notin accounts
              /\ accounts' = accounts \cup {asking[c]}

Conflict(c) == Answer(c, 409) /\ asking[c] \in accounts /\ UNCHANGED accounts

Fail(c) == Answer(c, 500) /\ UNCHANGED accounts

\* A request other than a sign-up comes in on the connection or is answered.
Other(c, code) == /\ asking[c] = None
                  /\ answer' = [answer EXCEPT ![c] = code]
                  /\ UNCHANGED <<accounts, asking>>

Next == \E c \in Conn :
            \/ \E n \in Name : Ask(c, n)
            \/ Succeed(c) \/ Conflict(c) \/ Fail(c)
            \/ \E code \in {None, 200, 500} : Other(c, code)

Spec == Init /\ [][Next]_vars

===============================================================================
