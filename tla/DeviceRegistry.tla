---------------------------- MODULE DeviceRegistry ----------------------------
(***************************************************************************)
(* What the device handlers promise together: a registry of devices, each  *)
(* with an address, an owner, a credential and the administrator's trust,  *)
(* changed one whole operation at a time.  Enrollment implements it.       *)
(***************************************************************************)
CONSTANTS Device, IP, Name, Token, None,
          Unknown,   \* a device no /greet has registered yet
          Gone       \* a device the administrator deleted

VARIABLES
    registry,    \* what is known of each device
    accounts,    \* the user names signed up
    blocked,     \* those the administrator has blocked
    issued       \* the tokens handed out so far

vars == <<registry, accounts, blocked, issued>>

Entry == [owner : Name \cup {None}, address : IP,
          credential : Token \cup {None}, trusted : BOOLEAN]

Members == {d \in Device : registry[d] \notin {Unknown, Gone}}

Free(ip) == \A d \in Members : registry[d].address # ip

Init == /\ registry = [d \in Device |-> Unknown]
        /\ accounts = {}
        /\ blocked = {}
        /\ issued = {}

Set(d, entry) == registry' = [registry EXCEPT ![d] = entry]

-----------------------------------------------------------------------------
\* A device is registered once, at an address nobody holds.
Register(d, ip) ==
    /\ registry[d] = Unknown
    /\ Free(ip)
    /\ Set(d, [owner |-> None, address |-> ip, credential |-> None, trusted |-> FALSE])
    /\ UNCHANGED <<accounts, blocked, issued>>

\* A member comes to belong to a user, with a token never seen before, and
\* must be approved again.
Claim(d, n, t) ==
    /\ d \in Members
    /\ t \notin issued
    /\ issued' = issued \cup {t}
    /\ Set(d, [owner |-> n, address |-> registry[d].address, credential |-> t, trusted |-> FALSE])
    /\ UNCHANGED blocked

SignUp(d, n, t) == n \notin accounts /\ accounts' = accounts \cup {n} /\ Claim(d, n, t)

SignIn(d, n, t) == n \in accounts /\ UNCHANGED accounts /\ Claim(d, n, t)

\* A new token, and nothing else: owner, address and trust stay.
Rotate(d, t) ==
    /\ d \in Members
    /\ registry[d].owner \in accounts
    /\ t \notin issued
    /\ issued' = issued \cup {t}
    /\ Set(d, [owner |-> registry[d].owner, address |-> registry[d].address,
               credential |-> t, trusted |-> registry[d].trusted])
    /\ UNCHANGED <<accounts, blocked>>

\* Mutant: a device that moves stays approved.
Move_keeps_trust(d, ip) ==
    /\ d \in Members
    /\ registry[d].owner \in accounts
    /\ Free(ip) \/ registry[d].address = ip
    /\ Set(d, [owner |-> registry[d].owner, address |-> ip,
               credential |-> registry[d].credential, trusted |-> registry[d].trusted])
    /\ UNCHANGED <<accounts, blocked, issued>>

\* A new address, free or its own, and no trust; owner and token stay.
Move(d, ip) ==
    /\ d \in Members
    /\ registry[d].owner \in accounts
    /\ Free(ip) \/ registry[d].address = ip
    /\ Set(d, [owner |-> registry[d].owner, address |-> ip,
               credential |-> registry[d].credential, trusted |-> FALSE])
    /\ UNCHANGED <<accounts, blocked, issued>>

Trust(d, trusted) ==
    /\ d \in Members
    /\ Set(d, [owner |-> registry[d].owner, address |-> registry[d].address,
               credential |-> registry[d].credential, trusted |-> trusted])
    /\ UNCHANGED <<accounts, blocked, issued>>

\* Deletion is for good.
Remove(d) ==
    /\ d \in Members
    /\ Set(d, Gone)
    /\ UNCHANGED <<accounts, blocked, issued>>

\* Blocking is not: the account stays either way.
Block(n, on) ==
    /\ n \in accounts
    /\ blocked' = IF on THEN blocked \cup {n} ELSE blocked \ {n}
    /\ UNCHANGED <<registry, accounts, issued>>

\* What the administrator grants, and every other operation.
Approve == \E d \in Device : Trust(d, TRUE)

Operate ==
    \/ \E d \in Device :
          \/ \E ip \in IP : Register(d, ip) \/ Move(d, ip)
          \/ \E n \in Name, t \in Token : SignUp(d, n, t) \/ SignIn(d, n, t)
          \/ \E t \in Token : Rotate(d, t)
          \/ Trust(d, FALSE)
          \/ Remove(d)
    \/ \E n \in Name, on \in BOOLEAN : Block(n, on)

Next == Approve \/ Operate

Spec == Init /\ [][Next]_vars

===============================================================================
