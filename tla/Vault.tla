-------------------------------- MODULE Vault --------------------------------
(***************************************************************************)
(* Groups and passwords, behind validate_auth.                             *)
(*                                                                         *)
(* A call is a sequence of SQL statements outside any transaction, on two  *)
(* connections, and each action here is one of them.  A call whose         *)
(* statement fails (500) takes no further step.  Meanwhile devices         *)
(* enroll, move and rotate, and the administrator approves, revokes,       *)
(* deletes and blocks: that is DeviceRegistry, which Enrollment implements *)
(* and whose steps interleave with the statements of the calls.            *)
(***************************************************************************)
CONSTANTS Device, IP, Name, Token, None, Unknown, Gone,
          Call,       \* call slots: how many protected requests are in flight
          Group,      \* uuids of groups (one is fresh for each /group/create)
          Password    \* uuids of passwords (one is fresh for each /pwd/create)

ASSUME NoneIsNoUuid == None \notin Name \cup Group
ASSUME GroupsAreNoPasswords == Group \cap Password = {}

VARIABLES
    registry, accounts, blocked, issued,   \* see DeviceRegistry
    groups,       \* the table: the user of each group, or None
    passwords,    \* the table: the group of each password, or None
    call,         \* what each call in flight remembers
    approvals     \* history: whom the confirms approved, on which device, where

Registry == INSTANCE DeviceRegistry

devices == <<registry, accounts, blocked, issued>>
tables  == <<groups, passwords>>
vars    == <<registry, accounts, blocked, issued, groups, passwords, call, approvals>>

Idle == [at |-> "idle"]

\* Whom a call acts for: what validate_auth returns, with the source address.
Session == [device : Device, user : Name, ip : IP]

\* The owner and the address a device's row binds it to.
Binding(d) == [device |-> d, user |-> registry[d].owner, ip |-> registry[d].address]

Init == /\ Registry!Init
        /\ groups = [g \in Group |-> None]
        /\ passwords = [p \in Password |-> None]
        /\ call = [c \in Call |-> Idle]
        /\ approvals = {}

Goto(c, local) == call' = [call EXCEPT ![c] = local]

\* A statement of a call leaves the devices alone.
Statement(c, at) == /\ call[c].at = at
                    /\ UNCHANGED <<devices, approvals>>

\* The groups that are the user's.
find_by_user(n) == {g \in Group : groups[g] = n}

OwnerOf(p) == groups[passwords[p]]

Stored == {p \in Password : passwords[p] # None}

-----------------------------------------------------------------------------
(* validate_auth *)

\* The token's device, at the address it is bound to, approved, and owned.
Auth_find_by_device_token(c, t, ip) ==
    /\ Statement(c, "idle")
    /\ \E d \in Registry!Members :
          /\ registry[d].credential = t
          /\ registry[d].address = ip
          /\ registry[d].trusted
          /\ registry[d].owner # None
          /\ Goto(c, [at |-> "auth_user",
                      session |-> [device |-> d, user |-> registry[d].owner, ip |-> ip]])
    /\ UNCHANGED tables

\* A second statement: the owner exists and is not blocked.  The handler goes on
\* with a connection of its own.
Auth_find_by_uuid(c) ==
    /\ Statement(c, "auth_user")
    /\ call[c].session.user \in accounts \ blocked
    /\ Goto(c, [at |-> "authorized", session |-> call[c].session])
    /\ UNCHANGED tables

\* 401: the user is blocked, the uuid in the request names no row, or the row's
\* group is another user's; 400: the password cannot be decrypted.
Refuse(c) ==
    /\ \/ Statement(c, "auth_user") /\ call[c].session.user \in blocked
       \/ Statement(c, "authorized") \/ Statement(c, "update_target")
       \/ /\ \/ Statement(c, "get_group") \/ Statement(c, "update_group")
          /\ groups[call[c].group] # call[c].session.user
    /\ Goto(c, Idle)
    /\ UNCHANGED tables

Serve(c, shown) == Goto(c, [at |-> "served", session |-> call[c].session, shown |-> shown])

Answer(c) == Statement(c, "served") /\ Goto(c, Idle) /\ UNCHANGED tables

\* GET /verify answers 200 and does no more.
Verify(c) == Statement(c, "authorized") /\ Serve(c, {}) /\ UNCHANGED tables

-----------------------------------------------------------------------------
(* Groups *)

\* Mutant: the group is put down to the device.
Group_create_for_device(c) ==
    /\ Statement(c, "authorized")
    /\ \E g \in Group : /\ groups[g] = None
                        /\ groups' = [groups EXCEPT ![g] = call[c].session.device]
    /\ Serve(c, {})
    /\ UNCHANGED passwords

Group_create(c) ==
    /\ Statement(c, "authorized")
    /\ \E g \in Group : /\ groups[g] = None
                        /\ groups' = [groups EXCEPT ![g] = call[c].session.user]
    /\ Serve(c, {})
    /\ UNCHANGED passwords

Group_list(c) ==
    /\ Statement(c, "authorized")
    /\ Serve(c, find_by_user(call[c].session.user))
    /\ UNCHANGED tables

-----------------------------------------------------------------------------
(* Passwords *)

\* /pwd/list: the user's groups, then the passwords in them.
List_find_by_user(c) ==
    /\ Statement(c, "authorized")
    /\ Goto(c, [at |-> "list", session |-> call[c].session,
                groups |-> find_by_user(call[c].session.user)])
    /\ UNCHANGED tables

List_find_by_groups(c) ==
    /\ Statement(c, "list")
    /\ Serve(c, {p \in Stored : passwords[p] \in call[c].groups})
    /\ UNCHANGED tables

\* Mutant: the group is not looked up.
Create_find_group_unchecked(c) ==
    /\ Statement(c, "authorized")
    /\ \E g \in Group :
          Goto(c, [at |-> "create", session |-> call[c].session, group |-> g])
    /\ UNCHANGED tables

\* /pwd/create: the group is the user's, then the insert.
Create_find_group(c) ==
    /\ Statement(c, "authorized")
    /\ \E g \in find_by_user(call[c].session.user) :
          Goto(c, [at |-> "create", session |-> call[c].session, group |-> g])
    /\ UNCHANGED tables

Create_insert(c) ==
    /\ Statement(c, "create")
    /\ \E p \in Password \ Stored : /\ passwords' = [passwords EXCEPT ![p] = call[c].group]
                                    /\ Serve(c, {p})
    /\ UNCHANGED groups

\* /pwd/get and /pwd/update begin with the row and the group it names.
Find_password(c, next) ==
    /\ Statement(c, "authorized")
    /\ \E p \in Stored : Goto(c, [at |-> next, session |-> call[c].session,
                                  password |-> p, group |-> passwords[p]])
    /\ UNCHANGED tables

\* Mutant: the group is looked up, and its user is not compared.
Get_find_group_any_user(c) ==
    /\ Statement(c, "get_group")
    /\ groups[call[c].group] # None
    /\ Serve(c, {call[c].password, call[c].group})
    /\ UNCHANGED tables

\* The group is the user's: the password is shown with it.
Get_find_group(c) ==
    /\ Statement(c, "get_group")
    /\ groups[call[c].group] = call[c].session.user
    /\ Serve(c, {call[c].password, call[c].group})
    /\ UNCHANGED tables

Update_find_group(c) ==
    /\ Statement(c, "update_group")
    /\ groups[call[c].group] = call[c].session.user
    /\ Goto(c, [call[c] EXCEPT !.at = "update_target"])
    /\ UNCHANGED tables

\* Mutant: the group to move it to may be anyone's.
Update_find_target_any_user(c) ==
    /\ Statement(c, "update_target")
    /\ \E g \in {h \in Group : groups[h] # None} :
          Goto(c, [at |-> "update", session |-> call[c].session,
                  password |-> call[c].password, group |-> g])
    /\ UNCHANGED tables

\* The group to move it to is the user's too.
Update_find_target(c) ==
    /\ Statement(c, "update_target")
    /\ \E g \in find_by_user(call[c].session.user) :
          Goto(c, [at |-> "update", session |-> call[c].session,
                  password |-> call[c].password, group |-> g])
    /\ UNCHANGED tables

Update_update(c) ==
    /\ Statement(c, "update")
    /\ passwords' = [passwords EXCEPT ![call[c].password] = call[c].group]
    /\ Serve(c, {})
    /\ UNCHANGED groups

-----------------------------------------------------------------------------
\* A confirm approves the device as its row is when the UPDATE reaches it; of a
\* device without an owner it approves nobody.
Set_confirm(d) ==
    /\ Registry!Trust(d, TRUE)
    /\ approvals' = approvals \cup ({Binding(d)} \cap Session)
    /\ UNCHANGED <<tables, call>>

\* Any other operation of Enrollment, or a statement of one that has none
\* (yet), approves nothing, whatever the flag says.
Registry_step ==
    /\ [Registry!Operate]_devices
    /\ UNCHANGED <<tables, call, approvals>>

Call_step(c) ==
    \/ \E t \in Token, ip \in IP : Auth_find_by_device_token(c, t, ip)
    \/ Auth_find_by_uuid(c) \/ Refuse(c) \/ Answer(c)
    \/ Verify(c) \/ Group_create(c) \/ Group_list(c)
    \/ List_find_by_user(c) \/ List_find_by_groups(c)
    \/ Create_find_group(c) \/ Create_insert(c)
    \/ Find_password(c, "get_group") \/ Get_find_group(c)
    \/ Find_password(c, "update_group")
    \/ Update_find_group(c) \/ Update_find_target(c) \/ Update_update(c)

Next == Registry_step \/ (\E d \in Device : Set_confirm(d)) \/ \E c \in Call : Call_step(c)

Spec == Init /\ [][Next]_vars

-----------------------------------------------------------------------------
(* Properties *)

Local ==
    [at : {"idle"}]
    \cup [at : {"auth_user", "authorized"}, session : Session]
    \cup [at : {"served"}, session : Session, shown : SUBSET (Password \cup Group)]
    \cup [at : {"list"}, session : Session, groups : SUBSET Group]
    \cup [at : {"create"}, session : Session, group : Group]
    \cup [at : {"get_group", "update_group", "update_target", "update"},
          session : Session, password : Password, group : Group]

\* Every table, local and history variable holds values of its type.
TypeOK ==
    /\ groups \in [Group -> Name \cup {None}]
    /\ passwords \in [Password -> Group \cup {None}]
    /\ call \in [Call -> Local]
    /\ approvals \subseteq Session

\* What a call shows belongs to the user whose session it is, also where the
\* rows it was found by have been changed since by another call.
ShownToOwner ==
    \A c \in Call : call[c].at = "served" =>
        /\ \A p \in call[c].shown \cap Password : OwnerOf(p) = call[c].session.user
        /\ \A g \in call[c].shown \cap Group : groups[g] = call[c].session.user

\* No sequence of calls by any number of users hands a password to another user,
\* or takes it out of reach: its group is always one of the same user's.
PasswordsKeepTheirOwner ==
    [][\A p \in Stored : OwnerOf(p)' = OwnerOf(p)]_vars

\* Whoever is served, a confirm had approved that user on that device at that
\* address: the flag it sets does not outlive the owner or the address it was
\* set for, however the device is claimed, moved or rotated afterwards.
ServedWhereApproved ==
    \A c \in Call : call[c].at # "idle" => call[c].session \in approvals

\* The rows refer to rows that are there, so that no insert ever meets the
\* foreign keys: a group's user has an account and a password's group a user.
ReferencesHold ==
    /\ \A g \in Group : groups[g] # None => groups[g] \in accounts
    /\ \A p \in Stored : groups[passwords[p]] # None

===============================================================================
