------------------------------ MODULE Enrollment ------------------------------
(***************************************************************************)
(* How a device gets in, and how it stays in: /greet, /sign-up, /sign-in,  *)
(* /refresh and /re-sign, with the administrator's approve, confirm,       *)
(* unconfirm, delete, and block.                                           *)
(*                                                                         *)
(* Handlers run in parallel on the threads of the runtime.  Each is a      *)
(* sequence of SQL statements outside any transaction (sign-up alone opens *)
(* one), so an action of this module is one statement (or the sign-up      *)
(* transaction) with the local computation up to the next one, and the     *)
(* statements of different requests interleave.  What a handler remembers  *)
(* between two statements is in req[r].                                    *)
(*                                                                         *)
(* An input is picked by the action that first uses it.  A request that is *)
(* refused before its second statement changes nothing: it is a stuttering *)
(* step and has no action.  Any statement can fail with a 500 because the  *)
(* database stays locked; that changes nothing either, and such a request  *)
(* is one that takes no further step.                                      *)
(***************************************************************************)
CONSTANTS
    Device,     \* uuids of identities (one is fresh for each /greet)
    IP,         \* source addresses
    Name,       \* user names; unique and never changed, so they stand for
                \* the users' uuids too
    Secret,     \* ehlo secrets
    Token,      \* device tokens (one is fresh for each link or rotation)
    Request,    \* request slots: how many requests are in flight at once
    None,       \* SQL NULL, or no row
    Unknown,    \* in the abstract registry: a device not greeted yet,
    Gone        \* and one that was deleted

-----------------------------------------------------------------------------
(* Tables *)

hash_token(t) == <<"sha256", t>>
Hash == {hash_token(t) : t \in Token}

Identity == [user_id      : Name \cup {None},
             ip_address   : IP,
             device_token : Hash \cup {None},
             is_confirmed : BOOLEAN]

User == [ehlo_secret : Secret, is_deleted : BOOLEAN]

\* What an approval is about: whose device it is and where it connects from.
Binding == [user_id : Name \cup {None}, ip_address : IP]

\* What a token was issued for.
Origin == [device : Device, user : Name]

ASSUME NoneIsNoValue ==
    None \notin Name \cup Token \cup Hash \cup Identity \cup User \cup Binding \cup Origin

VARIABLES
    identities,   \* the table: the row of each device, or None
    users,        \* the table: the row of each name, or None
    req,          \* what each request in flight remembers
    greeted,      \* history: the identity uuids generated so far
    minted,       \* history: the device and the user each token was issued for
    approved      \* history: the binding each device had when last confirmed

tables  == <<identities, users>>
history == <<greeted, minted, approved>>
vars    == <<identities, users, req, greeted, minted, approved>>

-----------------------------------------------------------------------------
(* Queries *)

Stored == {d \in Device : identities[d] # None}

find_by_ip(ip) == {d \in Stored : identities[d].ip_address = ip}

find_by_device_token(t) == {d \in Stored : identities[d].device_token = hash_token(t)}

BindingOf(row) == [user_id |-> row.user_id, ip_address |-> row.ip_address]

-----------------------------------------------------------------------------
(* Requests.  The tag names the statement a request runs next. *)

Idle == [at |-> "idle"]

Local ==
    [at : {"idle"}]
    \cup [at : {"greet_create"}, ip : IP]
    \cup [at : {"sign_up", "sign_in", "set_confirm", "delete"}, device : Device]
    \cup [at : {"link_device"}, device : Device, user : Name]
    \cup [at : {"refresh_user", "refresh_update", "resign_user", "resign_update"},
          device : Device, user : Name, token : Token]
    \cup [at : {"toggle_user"}, user : Name]

Goto(r, local) == req' = [req EXCEPT ![r] = local]

Finish(r) == Goto(r, Idle)

Fresh == {t \in Token : minted[t] = None}

\* Identity::update on a stored row; the UPDATE names only the columns that change.
update(d, row) == /\ d \in Stored
                  /\ identities' = [identities EXCEPT ![d] = row]

Mint(t, d, n) == /\ t \in Fresh
                 /\ minted' = [minted EXCEPT ![t] = [device |-> d, user |-> n]]

Init == /\ identities = [d \in Device |-> None]
        /\ users = [n \in Name |-> None]
        /\ req = [r \in Request |-> Idle]
        /\ greeted = {}
        /\ minted = [t \in Token |-> None]
        /\ approved = [d \in Device |-> None]

-----------------------------------------------------------------------------
(* POST /greet *)

\* No identity at this address yet; otherwise 412.
Greet_find_by_ip(r, ip) ==
    /\ req[r].at = "idle"
    /\ find_by_ip(ip) = {}
    /\ Goto(r, [at |-> "greet_create", ip |-> ip])
    /\ UNCHANGED <<tables, history>>

\* Mutant: a device that never had a token gets the hash of the empty one.
Greet_create_empty_token(r) ==
    /\ req[r].at = "greet_create"
    /\ find_by_ip(req[r].ip) = {}
    /\ \E d \in Device \ greeted :
          /\ identities' = [identities EXCEPT ![d] =
                               [user_id |-> None, ip_address |-> req[r].ip,
                                device_token |-> hash_token(""), is_confirmed |-> FALSE]]
          /\ greeted' = greeted \cup {d}
    /\ Finish(r)
    /\ UNCHANGED <<users, minted, approved>>

\* Mutant: without the unique index on ip_address.
Greet_create_no_index(r) ==
    /\ req[r].at = "greet_create"
    /\ \E d \in Device \ greeted :
          /\ identities' = [identities EXCEPT ![d] =
                               [user_id |-> None, ip_address |-> req[r].ip,
                                device_token |-> None, is_confirmed |-> FALSE]]
          /\ greeted' = greeted \cup {d}
    /\ Finish(r)
    /\ UNCHANGED <<users, minted, approved>>

Greet_create(r) ==
    /\ req[r].at = "greet_create"
    /\ find_by_ip(req[r].ip) = {}
    /\ \E d \in Device \ greeted :
          /\ identities' = [identities EXCEPT ![d] =
                               [user_id |-> None, ip_address |-> req[r].ip,
                                device_token |-> None, is_confirmed |-> FALSE]]
          /\ greeted' = greeted \cup {d}
    /\ Finish(r)
    /\ UNCHANGED <<users, minted, approved>>

\* Another greet inserted a row for the address first: the unique index on
\* ip_address refuses this one, and the handler answers 412.
Greet_unique_violation(r) ==
    /\ req[r].at = "greet_create"
    /\ find_by_ip(req[r].ip) # {}
    /\ Finish(r)
    /\ UNCHANGED <<tables, history>>

-----------------------------------------------------------------------------
(* POST /sign-up and POST /sign-in *)

\* The row at the source address gives the key that opens the payload.
decode_request(r, ip, next) ==
    /\ req[r].at = "idle"
    /\ \E d \in find_by_ip(ip) : Goto(r, [at |-> next, device |-> d])
    /\ UNCHANGED <<tables, history>>

\* Mutant: the UPDATE forgets the owner.
link_device_no_owner(d, n, t) ==
    /\ update(d, [identities[d] EXCEPT !.device_token = hash_token(t),
                                       !.is_confirmed = FALSE])
    /\ Mint(t, d, n)

\* Mutant: the UPDATE of the link has no WHERE.
link_device_everywhere(d, n, t) ==
    /\ d \in Stored
    /\ identities' = [e \in Device |->
          IF e \in Stored
          THEN [identities[e] EXCEPT !.user_id = n, !.device_token = hash_token(t),
                                     !.is_confirmed = FALSE]
          ELSE identities[e]]
    /\ Mint(t, d, n)

\* One UPDATE sets the owner and a new token, and takes the approval away.
link_device(d, n, t) ==
    /\ update(d, [identities[d] EXCEPT !.user_id = n,
                                       !.device_token = hash_token(t),
                                       !.is_confirmed = FALSE])
    /\ Mint(t, d, n)

\* The transaction: the user and the link appear together.
SignUp_transaction(r) ==
    /\ req[r].at = "sign_up"
    /\ \E n \in Name, ehlo \in Secret, t \in Token :
          /\ users[n] = None
          /\ users' = [users EXCEPT ![n] = [ehlo_secret |-> ehlo, is_deleted |-> FALSE]]
          /\ link_device(req[r].device, n, t)
    /\ Finish(r)
    /\ UNCHANGED <<greeted, approved>>

\* Mutant: without a transaction, the INSERT of the user stays when the link fails.
SignUp_rollback_keeps_user(r) ==
    /\ req[r].at = "sign_up"
    /\ \/ UNCHANGED users
       \/ /\ req[r].device \notin Stored
          /\ \E n \in Name, ehlo \in Secret :
                /\ users[n] = None
                /\ users' = [users EXCEPT ![n] = [ehlo_secret |-> ehlo, is_deleted |-> FALSE]]
    /\ Finish(r)
    /\ UNCHANGED <<identities, history>>

\* The transaction rolls back: the name is taken (409), the device's row is
\* gone (500), or the INSERT met another connection's lock (500); or the name
\* is not acceptable and the transaction never opens (400).
SignUp_rollback(r) ==
    /\ req[r].at = "sign_up"
    /\ Finish(r)
    /\ UNCHANGED <<tables, history>>

SignIn_find_by_name(r) ==
    /\ req[r].at = "sign_in"
    /\ \E n \in Name, ehlo \in Secret :
          /\ users[n] # None
          /\ ~users[n].is_deleted
          /\ ehlo = users[n].ehlo_secret
          /\ Goto(r, [at |-> "link_device", device |-> req[r].device, user |-> n])
    /\ UNCHANGED <<tables, history>>

SignIn_link_device(r) ==
    /\ req[r].at = "link_device"
    /\ \E t \in Token : link_device(req[r].device, req[r].user, t)
    /\ Finish(r)
    /\ UNCHANGED <<users, greeted, approved>>

-----------------------------------------------------------------------------
(* POST /refresh and POST /re-sign *)

\* The token the client sends is the one stored for the device at its address.
Refresh_find_by_ip(r, ip, t) ==
    /\ req[r].at = "idle"
    /\ \E d \in find_by_ip(ip) :
          /\ identities[d].device_token = hash_token(t)
          /\ identities[d].user_id # None
          /\ Goto(r, [at |-> "refresh_user", device |-> d,
                      user |-> identities[d].user_id, token |-> t])
    /\ UNCHANGED <<tables, history>>

\* The device is looked up by the token alone, from whatever address.
Resign_find_by_device_token(r, t) ==
    /\ req[r].at = "idle"
    /\ \E d \in find_by_device_token(t) :
          /\ identities[d].user_id # None
          /\ Goto(r, [at |-> "resign_user", device |-> d,
                      user |-> identities[d].user_id, token |-> t])
    /\ UNCHANGED <<tables, history>>

\* The owner read from the row: there, not blocked, and the ehlo is theirs.
CheckOwner(r, here, next) ==
    /\ req[r].at = here
    /\ users[req[r].user] # None
    /\ ~users[req[r].user].is_deleted
    /\ \E ehlo \in Secret : ehlo = users[req[r].user].ehlo_secret
    /\ Goto(r, [req[r] EXCEPT !.at = next])
    /\ UNCHANGED <<tables, history>>

\* The UPDATE writes device_token alone.
Refresh_update(r) ==
    /\ req[r].at = "refresh_update"
    /\ \E t \in Token :
          /\ update(req[r].device,
                    [identities[req[r].device] EXCEPT !.device_token = hash_token(t)])
          /\ Mint(t, req[r].device, req[r].user)
    /\ Finish(r)
    /\ UNCHANGED <<users, greeted, approved>>

\* Mutant: the move leaves the approval in place.
Resign_update_confirmed(r) ==
    /\ req[r].at = "resign_update"
    /\ \E ip \in IP :
          /\ find_by_ip(ip) \subseteq {req[r].device}
          /\ update(req[r].device, [identities[req[r].device] EXCEPT !.ip_address = ip])
    /\ Finish(r)
    /\ UNCHANGED <<users, history>>

\* Mutant: the UPDATE writes the whole row back as it was read.
Resign_update_whole_row(r) ==
    /\ req[r].at = "resign_update"
    /\ \E ip \in IP :
          /\ find_by_ip(ip) \subseteq {req[r].device}
          /\ update(req[r].device,
                    [identities[req[r].device] EXCEPT !.ip_address = ip,
                                                      !.device_token = hash_token(req[r].token),
                                                      !.is_confirmed = FALSE])
    /\ Finish(r)
    /\ UNCHANGED <<users, history>>

\* The UPDATE moves the device to the source address and unconfirms it; the
\* unique index admits the address only if no other device holds it.
Resign_update(r) ==
    /\ req[r].at = "resign_update"
    /\ \E ip \in IP :
          /\ find_by_ip(ip) \subseteq {req[r].device}
          /\ update(req[r].device,
                    [identities[req[r].device] EXCEPT !.ip_address = ip,
                                                      !.is_confirmed = FALSE])
    /\ Finish(r)
    /\ UNCHANGED <<users, history>>

-----------------------------------------------------------------------------
(* Answers that leave the tables alone *)

\* 401: no user of that name, a wrong ehlo, or a blocked user.
Refuse(r) ==
    /\ req[r].at \in {"sign_in", "refresh_user", "resign_user"}
    /\ Finish(r)
    /\ UNCHANGED <<tables, history>>

\* 500: the row was deleted after the handler read it (the UPDATE returns no
\* row), or the address of a re-sign belongs to another device.
Fail(r) ==
    /\ \/ /\ req[r].at \in {"link_device", "refresh_update", "resign_update", "set_confirm"}
          /\ req[r].device \notin Stored
       \/ /\ req[r].at = "resign_update"
          /\ \E ip \in IP : ~(find_by_ip(ip) \subseteq {req[r].device})
    /\ Finish(r)
    /\ UNCHANGED <<tables, history>>

-----------------------------------------------------------------------------
(* The administrator *)

\* The row is read to answer 404 when there is none; what it says is not used.
SetConfirm_find_by_uuid(r, d) ==
    /\ req[r].at = "idle"
    /\ d \in Stored
    /\ Goto(r, [at |-> "set_confirm", device |-> d])
    /\ UNCHANGED <<tables, history>>

\* Mutant: an upsert, which inserts the row again when it is gone.
SetConfirm_update_upsert(r) ==
    /\ req[r].at = "set_confirm"
    /\ \E ip \in IP :
          /\ find_by_ip(ip) \subseteq {req[r].device}
          /\ identities' = [identities EXCEPT ![req[r].device] =
                IF @ # None THEN [@ EXCEPT !.is_confirmed = FALSE]
                ELSE [user_id |-> None, ip_address |-> ip,
                      device_token |-> None, is_confirmed |-> FALSE]]
    /\ Finish(r)
    /\ UNCHANGED <<users, history>>

SetConfirm_update(r) ==
    /\ req[r].at = "set_confirm"
    /\ \E confirmed \in BOOLEAN :
          /\ update(req[r].device,
                    [identities[req[r].device] EXCEPT !.is_confirmed = confirmed])
          /\ approved' = IF confirmed
                         THEN [approved EXCEPT ![req[r].device] =
                                  BindingOf(identities[req[r].device])]
                         ELSE approved
    /\ Finish(r)
    /\ UNCHANGED <<users, greeted, minted>>

Delete_find_by_uuid(r, d) ==
    /\ req[r].at = "idle"
    /\ d \in Stored
    /\ Goto(r, [at |-> "delete", device |-> d])
    /\ UNCHANGED <<tables, history>>

\* Mutant: a soft delete, which keeps the row and clears its owner and token.
Delete_delete_soft(r) ==
    /\ req[r].at = "delete"
    /\ identities' = [identities EXCEPT ![req[r].device] =
          IF @ = None THEN None
          ELSE [@ EXCEPT !.user_id = None, !.device_token = None, !.is_confirmed = FALSE]]
    /\ Finish(r)
    /\ UNCHANGED <<users, history>>

\* A DELETE that finds no row is a success too.
Delete_delete(r) ==
    /\ req[r].at = "delete"
    /\ identities' = [identities EXCEPT ![req[r].device] = None]
    /\ Finish(r)
    /\ UNCHANGED <<users, history>>

ToggleUser_find_by_uuid(r, n) ==
    /\ req[r].at = "idle"
    /\ users[n] # None
    /\ Goto(r, [at |-> "toggle_user", user |-> n])
    /\ UNCHANGED <<tables, history>>

ToggleUser_update(r) ==
    /\ req[r].at = "toggle_user"
    /\ users[req[r].user] # None
    /\ \E is_deleted \in BOOLEAN :
          users' = [users EXCEPT ![req[r].user] =
                       [@ EXCEPT !.is_deleted = is_deleted]]
    /\ Finish(r)
    /\ UNCHANGED <<identities, history>>

-----------------------------------------------------------------------------
(* The process dies and is started again: SQLite keeps what was committed. *)
Crash ==
    /\ req' = [r \in Request |-> Idle]
    /\ UNCHANGED <<tables, history>>

-----------------------------------------------------------------------------
Start(r) ==
    \/ \E ip \in IP : \/ Greet_find_by_ip(r, ip)
                      \/ decode_request(r, ip, "sign_up")
                      \/ decode_request(r, ip, "sign_in")
                      \/ \E t \in Token : Refresh_find_by_ip(r, ip, t)
    \/ \E t \in Token : Resign_find_by_device_token(r, t)
    \/ \E d \in Device : SetConfirm_find_by_uuid(r, d) \/ Delete_find_by_uuid(r, d)
    \/ \E n \in Name : ToggleUser_find_by_uuid(r, n)

Continue(r) ==
    \/ Greet_create(r) \/ Greet_unique_violation(r)
    \/ SignUp_transaction(r) \/ SignUp_rollback(r)
    \/ SignIn_find_by_name(r) \/ SignIn_link_device(r)
    \/ CheckOwner(r, "refresh_user", "refresh_update") \/ Refresh_update(r)
    \/ CheckOwner(r, "resign_user", "resign_update") \/ Resign_update(r)
    \/ SetConfirm_update(r) \/ Delete_delete(r) \/ ToggleUser_update(r)
    \/ Refuse(r) \/ Fail(r)

Next == (\E r \in Request : Start(r) \/ Continue(r)) \/ Crash

Spec == Init /\ [][Next]_vars

-----------------------------------------------------------------------------
(* Properties *)

\* Every table, local and history variable holds values of its type.
TypeOK ==
    /\ identities \in [Device -> Identity \cup {None}]
    /\ users \in [Name -> User \cup {None}]
    /\ req \in [Request -> Local]
    /\ greeted \subseteq Device
    /\ minted \in [Token -> Origin \cup {None}]
    /\ approved \in [Device -> Binding \cup {None}]

\* A confirmed device has the owner and the address it had when the
\* administrator last confirmed it: whatever moves a device to another user
\* (/sign-up, /sign-in) or another address (/re-sign) takes the approval away
\* in the same UPDATE.
ApprovalCoversBinding ==
    \A d \in Stored : identities[d].is_confirmed => approved[d] = BindingOf(identities[d])

\* A device has a token exactly when it has an owner, and the owner is in users.
LinkedDevicesAreWhole ==
    \A d \in Stored :
        /\ (identities[d].user_id = None) <=> (identities[d].device_token = None)
        /\ identities[d].user_id # None => users[identities[d].user_id] # None

\* One device per address, so that find_by_ip's `first' has nothing to choose.
OneDevicePerAddress == \A ip \in IP : \A d, e \in find_by_ip(ip) : d = e

\* A token found in the table was issued for that device and no other, so
\* find_by_device_token has nothing to choose and no UPDATE can ever meet the
\* UNIQUE constraint on device_token, which no handler expects.
TokenNamesItsDevice ==
    \A t \in Token : \A d \in find_by_device_token(t) :
        minted[t] # None /\ minted[t].device = d

\* What a handler read stays good enough to act on: the user it found cannot
\* disappear, the device it found was greeted, and a device found with an owner
\* has one as long as it is stored (a re-link changes the owner, none clears it).
Backed(l) ==
    /\ l.at \in {"link_device", "refresh_user", "refresh_update",
                 "resign_user", "resign_update", "toggle_user"}
          => users[l.user] # None
    /\ l.at \in {"sign_up", "sign_in", "link_device", "set_confirm", "delete",
                 "refresh_user", "refresh_update", "resign_user", "resign_update"}
          => l.device \in greeted
    /\ (l.at \in {"refresh_user", "refresh_update", "resign_user", "resign_update"}
           /\ l.device \in Stored)
          => identities[l.device].user_id # None

RequestsAreBacked == Stored \subseteq greeted /\ \A r \in Request : Backed(req[r])

\* Sign-up leaves a user only together with a link: a token was issued for
\* every user there is.
NoUserWithoutToken ==
    \A n \in Name : users[n] # None =>
        \E t \in Token : minted[t] # None /\ minted[t].user = n

\* A token that /refresh, /sign-in or a delete took out of the table is never
\* put back, by no request still in flight and by no restart.
DeadTokensStayDead ==
    [][\A t \in Token :
          (minted[t] # None /\ find_by_device_token(t) = {})
              => find_by_device_token(t)' = {}]_vars

\* A deleted identity is not brought back by a request that read it before.
DeletedDevicesStayDeleted ==
    [][\A d \in greeted : identities[d] = None => identities'[d] = None]_vars

-----------------------------------------------------------------------------
(* The abstract registry, read off the tables. *)

\* The token behind a stored hash.
TokenOf(hash) == IF hash = None THEN None ELSE hash[2]

EntryOf(d) ==
    IF d \notin greeted THEN Unknown
    ELSE IF identities[d] = None THEN Gone
    ELSE [owner      |-> identities[d].user_id,
          address    |-> identities[d].ip_address,
          credential |-> TokenOf(identities[d].device_token),
          trusted    |-> identities[d].is_confirmed]

Registry == INSTANCE DeviceRegistry WITH
    registry <- [d \in Device |-> EntryOf(d)],
    accounts <- {n \in Name : users[n] # None},
    blocked  <- {n \in Name : users[n] # None /\ users[n].is_deleted},
    issued   <- {t \in Token : minted[t] # None}

ASSUME EntriesAreEntries ==
    Unknown # Gone /\ Unknown \notin Registry!Entry /\ Gone \notin Registry!Entry

\* Every handler, however its statements interleave with others and wherever
\* it is cut off, amounts to at most one whole operation on the registry, and
\* what it checked by earlier reads still entitles it to that operation.
RefinesRegistry == Registry!Spec

-----------------------------------------------------------------------------
(* What the documents promise and an interleaving breaks *)

\* ARCHITECTURE.md, Refresh: "same proof (token + ehlo, verified against the
\* user)".  The user a token was issued for is the owner of the device the
\* token stands for.
TokenServesVerifiedUser ==
    \A t \in Token : \A d \in find_by_device_token(t) :
        minted[t].user = identities[d].user_id

===============================================================================
