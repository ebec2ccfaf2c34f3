--------------------------- MODULE EnrollmentProofs ---------------------------
(* What holds of Enrollment for any devices, users, tokens and requests. *)
EXTENDS Enrollment, TLAPS

-----------------------------------------------------------------------------
(* What the tag of a request says about its fields *)

LEMMA LocalFields ==
    ASSUME NEW l \in Local
    PROVE  /\ l.at = "greet_create" => l.ip \in IP
           /\ l.at \in {"sign_up", "sign_in", "set_confirm", "delete", "link_device",
                        "refresh_user", "refresh_update", "resign_user", "resign_update"}
                => l.device \in Device
           /\ l.at \in {"link_device", "refresh_user", "refresh_update",
                        "resign_user", "resign_update", "toggle_user"} => l.user \in Name
           /\ l.at \in {"refresh_user", "refresh_update", "resign_user", "resign_update"}
                => l = [at |-> l.at, device |-> l.device, user |-> l.user, token |-> l.token]
                   /\ l.token \in Token
  BY DEF Local

LEMMA IdleIsLocal == Idle \in Local
  BY DEF Idle, Local

\* Every action leaves the requests other than its own alone.
LEMMA GotoType ==
    ASSUME req \in [Request -> Local], NEW r \in Request, NEW l \in Local, Goto(r, l)
    PROVE  /\ req' \in [Request -> Local]
           /\ req'[r] = l
           /\ \A q \in Request : q # r => req'[q] = req[q]
  BY DEF Goto

LEMMA FinishType ==
    ASSUME req \in [Request -> Local], NEW r \in Request, Finish(r)
    PROVE  /\ req' \in [Request -> Local]
           /\ req'[r].at = "idle"
           /\ \A q \in Request : q # r => req'[q] = req[q]
  <1>1. /\ req' \in [Request -> Local]
        /\ req'[r] = Idle
        /\ \A q \in Request : q # r => req'[q] = req[q]
    BY IdleIsLocal, GotoType DEF Finish
  <1>2. Idle.at = "idle"
    BY DEF Idle
  <1> QED BY <1>1, <1>2

-----------------------------------------------------------------------------
(* Type correctness *)

LEMMA InitType == Init => TypeOK
  BY IdleIsLocal DEF Init, TypeOK

LEMMA StartType ==
    ASSUME TypeOK, NEW r \in Request, Start(r)
    PROVE  TypeOK'
  <1>1. UNCHANGED <<tables, history>> /\ \E l \in Local : Goto(r, l)
    <2>1. ASSUME NEW ip \in IP, Greet_find_by_ip(r, ip)
          PROVE  UNCHANGED <<tables, history>> /\ \E l \in Local : Goto(r, l)
      <3>1. [at |-> "greet_create", ip |-> ip] \in Local
        BY DEF Local
      <3> QED BY <2>1, <3>1 DEF Greet_find_by_ip
    <2>2. ASSUME NEW ip \in IP, NEW next \in {"sign_up", "sign_in"},
                 decode_request(r, ip, next)
          PROVE  UNCHANGED <<tables, history>> /\ \E l \in Local : Goto(r, l)
      <3>1. \A d \in Device : [at |-> next, device |-> d] \in Local
        BY DEF Local
      <3> QED BY <2>2, <3>1 DEF decode_request, find_by_ip, Stored
    <2>3. ASSUME NEW ip \in IP, NEW t \in Token, Refresh_find_by_ip(r, ip, t)
          PROVE  UNCHANGED <<tables, history>> /\ \E l \in Local : Goto(r, l)
      <3>1. PICK d \in find_by_ip(ip) :
               /\ identities[d].user_id # None
               /\ Goto(r, [at |-> "refresh_user", device |-> d,
                           user |-> identities[d].user_id, token |-> t])
        BY <2>3 DEF Refresh_find_by_ip
      <3>2. d \in Device /\ identities[d].user_id \in Name
        BY <3>1 DEF TypeOK, Identity, find_by_ip, Stored
      <3>3. [at |-> "refresh_user", device |-> d,
             user |-> identities[d].user_id, token |-> t] \in Local
        BY <3>2 DEF Local
      <3> QED BY <2>3, <3>1, <3>3 DEF Refresh_find_by_ip
    <2>4. ASSUME NEW t \in Token, Resign_find_by_device_token(r, t)
          PROVE  UNCHANGED <<tables, history>> /\ \E l \in Local : Goto(r, l)
      <3>1. PICK d \in find_by_device_token(t) :
               /\ identities[d].user_id # None
               /\ Goto(r, [at |-> "resign_user", device |-> d,
                           user |-> identities[d].user_id, token |-> t])
        BY <2>4 DEF Resign_find_by_device_token
      <3>2. d \in Device /\ identities[d].user_id \in Name
        BY <3>1 DEF TypeOK, Identity, find_by_device_token, Stored
      <3>3. [at |-> "resign_user", device |-> d,
             user |-> identities[d].user_id, token |-> t] \in Local
        BY <3>2 DEF Local
      <3> QED BY <2>4, <3>1, <3>3 DEF Resign_find_by_device_token
    <2>5. ASSUME NEW d \in Device, SetConfirm_find_by_uuid(r, d) \/ Delete_find_by_uuid(r, d)
          PROVE  UNCHANGED <<tables, history>> /\ \E l \in Local : Goto(r, l)
      <3>1. /\ [at |-> "set_confirm", device |-> d] \in Local
            /\ [at |-> "delete", device |-> d] \in Local
        BY DEF Local
      <3> QED BY <2>5, <3>1 DEF SetConfirm_find_by_uuid, Delete_find_by_uuid
    <2>6. ASSUME NEW n \in Name, ToggleUser_find_by_uuid(r, n)
          PROVE  UNCHANGED <<tables, history>> /\ \E l \in Local : Goto(r, l)
      <3>1. [at |-> "toggle_user", user |-> n] \in Local
        BY DEF Local
      <3> QED BY <2>6, <3>1 DEF ToggleUser_find_by_uuid
    <2> QED BY <2>1, <2>2, <2>3, <2>4, <2>5, <2>6 DEF Start
  <1>2. req' \in [Request -> Local]
    BY <1>1, GotoType DEF TypeOK
  <1> QED BY <1>1, <1>2 DEF TypeOK, tables, history

\* What an UPDATE of one stored row, or its DELETE, leaves of the table.
LEMMA UpdateType ==
    ASSUME TypeOK, NEW d \in Device, NEW row \in Identity, update(d, row)
    PROVE  /\ identities' \in [Device -> Identity \cup {None}]
           /\ identities'[d] = row
           /\ \A e \in Device : e # d => identities'[e] = identities[e]
  BY DEF TypeOK, update

LEMMA StoredRow ==
    ASSUME TypeOK, NEW d \in Stored
    PROVE  d \in Device /\ identities[d] \in Identity
  BY DEF TypeOK, Stored

LEMMA MintType ==
    ASSUME TypeOK, NEW t \in Token, NEW d \in Device, NEW n \in Name, Mint(t, d, n)
    PROVE  /\ minted' \in [Token -> Origin \cup {None}]
           /\ minted'[t] = [device |-> d, user |-> n]
           /\ \A v \in Token : v # t => minted'[v] = minted[v]
           /\ minted[t] = None
  BY DEF TypeOK, Mint, Fresh, Origin

LEMMA LinkType ==
    ASSUME TypeOK, NEW d \in Device, NEW n \in Name, NEW t \in Token, link_device(d, n, t)
    PROVE  /\ d \in Stored
           /\ identities' \in [Device -> Identity \cup {None}]
           /\ identities'[d] \in Identity
           /\ identities'[d].user_id = n
           /\ identities'[d].ip_address = identities[d].ip_address
           /\ identities'[d].device_token = hash_token(t)
           /\ identities'[d].is_confirmed = FALSE
           /\ \A e \in Device : e # d => identities'[e] = identities[e]
           /\ minted' \in [Token -> Origin \cup {None}]
           /\ Mint(t, d, n)
  <1> DEFINE row == [identities[d] EXCEPT !.user_id = n,
                                          !.device_token = hash_token(t),
                                          !.is_confirmed = FALSE]
  <1>1. d \in Stored /\ update(d, row) /\ Mint(t, d, n)
    BY DEF link_device, update
  <1>2. identities[d] \in Identity
    BY <1>1, StoredRow
  <1>3. hash_token(t) \in Hash
    BY DEF Hash
  <1>4. /\ row \in Identity
        /\ row.user_id = n
        /\ row.ip_address = identities[d].ip_address
        /\ row.device_token = hash_token(t)
        /\ row.is_confirmed = FALSE
    BY <1>2, <1>3 DEF Identity
  <1>5. /\ identities' \in [Device -> Identity \cup {None}]
        /\ identities'[d] = row
        /\ \A e \in Device : e # d => identities'[e] = identities[e]
    BY <1>1, <1>4, UpdateType
  <1>6. minted' \in [Token -> Origin \cup {None}]
    BY <1>1, MintType
  <1> QED BY <1>1, <1>4, <1>5, <1>6

LEMMA ContinueType ==
    ASSUME TypeOK, NEW r \in Request, Continue(r)
    PROVE  TypeOK'
  <1> DEFINE l == req[r]
             d == l.device
  <1>0. l \in Local /\ req \in [Request -> Local]
    BY DEF TypeOK
  <1>1. CASE Greet_create(r)
    <2>1. PICK e \in Device \ greeted :
             /\ identities' = [identities EXCEPT ![e] =
                                  [user_id |-> None, ip_address |-> l.ip,
                                   device_token |-> None, is_confirmed |-> FALSE]]
             /\ greeted' = greeted \cup {e}
      BY <1>1 DEF Greet_create
    <2>2. l.ip \in IP
      BY <1>0, <1>1, LocalFields DEF Greet_create
    <2>3. [user_id |-> None, ip_address |-> l.ip,
           device_token |-> None, is_confirmed |-> FALSE] \in Identity
      BY <2>2 DEF Identity
    <2>4. req' \in [Request -> Local]
      BY <1>0, <1>1, FinishType DEF Greet_create
    <2> HIDE DEF l
    <2> QED BY <1>1, <2>1, <2>3, <2>4 DEF TypeOK, Greet_create
  <1>2. CASE \/ Greet_unique_violation(r) \/ SignUp_rollback(r) \/ Refuse(r) \/ Fail(r)
    <2>1. req' \in [Request -> Local] /\ UNCHANGED <<tables, history>>
      BY <1>0, <1>2, FinishType
      DEF Greet_unique_violation, SignUp_rollback, Refuse, Fail
    <2> QED BY <2>1 DEF TypeOK, tables, history
  <1>3. CASE SignUp_transaction(r)
    <2>1. PICK n \in Name, ehlo \in Secret, t \in Token :
             /\ users' = [users EXCEPT ![n] = [ehlo_secret |-> ehlo, is_deleted |-> FALSE]]
             /\ link_device(d, n, t)
      BY <1>3 DEF SignUp_transaction
    <2>2. d \in Device
      BY <1>0, <1>3, LocalFields DEF SignUp_transaction
    <2>3. [ehlo_secret |-> ehlo, is_deleted |-> FALSE] \in User
      BY DEF User
    <2>4. users' \in [Name -> User \cup {None}]
      BY <2>1, <2>3 DEF TypeOK
    <2>5. /\ identities' \in [Device -> Identity \cup {None}]
          /\ minted' \in [Token -> Origin \cup {None}]
      BY <2>1, <2>2, LinkType
    <2>6. req' \in [Request -> Local]
      BY <1>0, <1>3, FinishType DEF SignUp_transaction
    <2> QED BY <1>3, <2>4, <2>5, <2>6 DEF TypeOK, SignUp_transaction
  <1>4. CASE SignIn_find_by_name(r)
    <2>1. PICK n \in Name :
             Goto(r, [at |-> "link_device", device |-> d, user |-> n])
      BY <1>4 DEF SignIn_find_by_name
    <2>2. d \in Device
      BY <1>0, <1>4, LocalFields DEF SignIn_find_by_name
    <2>3. [at |-> "link_device", device |-> d, user |-> n] \in Local
      BY <2>2 DEF Local
    <2>4. req' \in [Request -> Local]
      BY <1>0, <2>1, <2>3, GotoType
    <2> QED BY <1>4, <2>4 DEF TypeOK, SignIn_find_by_name, tables, history
  <1>5. CASE SignIn_link_device(r)
    <2>1. PICK t \in Token : link_device(d, l.user, t)
      BY <1>5 DEF SignIn_link_device
    <2>2. d \in Device /\ l.user \in Name
      BY <1>0, <1>5, LocalFields DEF SignIn_link_device
    <2>3. /\ identities' \in [Device -> Identity \cup {None}]
          /\ minted' \in [Token -> Origin \cup {None}]
      BY <2>1, <2>2, LinkType
    <2>4. req' \in [Request -> Local]
      BY <1>0, <1>5, FinishType DEF SignIn_link_device
    <2> QED BY <1>5, <2>3, <2>4 DEF TypeOK, SignIn_link_device
  <1>6. CASE \/ CheckOwner(r, "refresh_user", "refresh_update")
             \/ CheckOwner(r, "resign_user", "resign_update")
    <2>1. PICK next \in {"refresh_update", "resign_update"} :
             Goto(r, [l EXCEPT !.at = next]) /\ UNCHANGED <<tables, history>>
      BY <1>6 DEF CheckOwner
    <2>2. /\ d \in Device /\ l.user \in Name /\ l.token \in Token
          /\ l = [at |-> l.at, device |-> l.device, user |-> l.user, token |-> l.token]
      BY <1>0, <1>6, LocalFields DEF CheckOwner
    <2>3. [l EXCEPT !.at = next]
             = [at |-> next, device |-> l.device, user |-> l.user, token |-> l.token]
      BY <2>2
    <2>4. [l EXCEPT !.at = next] \in Local
      BY <2>2, <2>3 DEF Local
    <2>5. req' \in [Request -> Local]
      BY <1>0, <2>1, <2>4, GotoType
    <2> QED BY <2>1, <2>5 DEF TypeOK, tables, history
  <1>7. CASE Refresh_update(r)
    <2>1. PICK t \in Token :
             /\ update(d, [identities[d] EXCEPT !.device_token = hash_token(t)])
             /\ Mint(t, d, l.user)
      BY <1>7 DEF Refresh_update
    <2>2. d \in Device /\ l.user \in Name /\ d \in Stored
      BY <1>0, <1>7, <2>1, LocalFields DEF Refresh_update, update
    <2>3. [identities[d] EXCEPT !.device_token = hash_token(t)] \in Identity
      <3>1. hash_token(t) \in Hash
        BY DEF Hash
      <3>2. identities[d] \in Identity
        BY <2>2, StoredRow
      <3> QED BY <3>1, <3>2 DEF Identity
    <2>4. /\ identities' \in [Device -> Identity \cup {None}]
          /\ minted' \in [Token -> Origin \cup {None}]
      BY <2>1, <2>2, <2>3, UpdateType, MintType
    <2>5. req' \in [Request -> Local]
      BY <1>0, <1>7, FinishType DEF Refresh_update
    <2> QED BY <1>7, <2>4, <2>5 DEF TypeOK, Refresh_update
  <1>8. CASE Resign_update(r)
    <2>1. PICK ip \in IP :
             update(d, [identities[d] EXCEPT !.ip_address = ip, !.is_confirmed = FALSE])
      BY <1>8 DEF Resign_update
    <2>2. d \in Device /\ d \in Stored
      BY <1>0, <1>8, <2>1, LocalFields DEF Resign_update, update
    <2>3. [identities[d] EXCEPT !.ip_address = ip, !.is_confirmed = FALSE] \in Identity
      BY <2>2, StoredRow DEF Identity
    <2>4. identities' \in [Device -> Identity \cup {None}]
      BY <2>1, <2>2, <2>3, UpdateType
    <2>5. req' \in [Request -> Local]
      BY <1>0, <1>8, FinishType DEF Resign_update
    <2> QED BY <1>8, <2>4, <2>5 DEF TypeOK, Resign_update, history
  <1>9. CASE SetConfirm_update(r)
    <2>1. PICK confirmed \in BOOLEAN :
             /\ update(d, [identities[d] EXCEPT !.is_confirmed = confirmed])
             /\ approved' = IF confirmed
                            THEN [approved EXCEPT ![d] = BindingOf(identities[d])]
                            ELSE approved
      BY <1>9 DEF SetConfirm_update
    <2>2. d \in Device /\ d \in Stored
      BY <1>0, <1>9, <2>1, LocalFields DEF SetConfirm_update, update
    <2>3. [identities[d] EXCEPT !.is_confirmed = confirmed] \in Identity
      BY <2>2, StoredRow DEF Identity
    <2>4. identities' \in [Device -> Identity \cup {None}]
      BY <2>1, <2>2, <2>3, UpdateType
    <2>5. BindingOf(identities[d]) \in Binding
      BY <2>2, StoredRow DEF Identity, Binding, BindingOf
    <2>6. approved' \in [Device -> Binding \cup {None}]
      BY <2>1, <2>5 DEF TypeOK
    <2>7. req' \in [Request -> Local]
      BY <1>0, <1>9, FinishType DEF SetConfirm_update
    <2> QED BY <1>9, <2>4, <2>6, <2>7 DEF TypeOK, SetConfirm_update
  <1>10. CASE Delete_delete(r)
    <2>1. req' \in [Request -> Local]
      BY <1>0, <1>10, FinishType DEF Delete_delete
    <2>2. identities' \in [Device -> Identity \cup {None}]
      BY <1>10 DEF Delete_delete, TypeOK
    <2> QED BY <1>10, <2>1, <2>2 DEF TypeOK, Delete_delete, history
  <1>11. CASE ToggleUser_update(r)
    <2>1. PICK is_deleted \in BOOLEAN :
             users' = [users EXCEPT ![l.user] =
                          [users[l.user] EXCEPT !.is_deleted = is_deleted]]
      BY <1>11 DEF ToggleUser_update
    <2>2. l.user \in Name /\ users[l.user] \in User
      BY <1>0, <1>11, LocalFields DEF ToggleUser_update, TypeOK
    <2>3. [users[l.user] EXCEPT !.is_deleted = is_deleted] \in User
      BY <2>2 DEF User
    <2>4. users' \in [Name -> User \cup {None}]
      BY <2>1, <2>3 DEF TypeOK
    <2>5. req' \in [Request -> Local]
      BY <1>0, <1>11, FinishType DEF ToggleUser_update
    <2> QED BY <1>11, <2>4, <2>5 DEF TypeOK, ToggleUser_update, history
  <1> QED BY <1>1, <1>2, <1>3, <1>4, <1>5, <1>6, <1>7, <1>8, <1>9, <1>10, <1>11
          DEF Continue

LEMMA NextType == TypeOK /\ [Next]_vars => TypeOK'
  <1> SUFFICES ASSUME TypeOK, [Next]_vars PROVE TypeOK'
    OBVIOUS
  <1>1. CASE \E r \in Request : Start(r) \/ Continue(r)
    BY <1>1, StartType, ContinueType
  <1>2. CASE Crash
    BY <1>2, IdleIsLocal DEF Crash, TypeOK, tables, history
  <1>3. CASE UNCHANGED vars
    BY <1>3 DEF vars, TypeOK
  <1> QED BY <1>1, <1>2, <1>3 DEF Next

\* Every reachable state is well typed: what the handlers write into the two
\* tables, what they remember between statements, and the history variables.
THEOREM TypeCorrect == Spec => []TypeOK
  BY InitType, NextType, PTL DEF Spec

-----------------------------------------------------------------------------
(* What one step can do to the tables, row by row *)

OthersKept(d) == \A e \in Device : e # d => identities'[e] = identities[e]

KeepsOwner(d)    == identities'[d].user_id = identities[d].user_id
KeepsAddress(d)  == identities'[d].ip_address = identities[d].ip_address
KeepsToken(d)    == identities'[d].device_token = identities[d].device_token
KeepsApproval(d) == identities'[d].is_confirmed = identities[d].is_confirmed

Minted(t, d, n) == /\ minted[t] = None
                   /\ minted'[t] = [device |-> d, user |-> n]
                   /\ \A v \in Token : v # t => minted'[v] = minted[v]

Created(d, ip) ==
    /\ d \notin greeted
    /\ find_by_ip(ip) = {}
    /\ identities'[d] = [user_id |-> None, ip_address |-> ip,
                         device_token |-> None, is_confirmed |-> FALSE]
    /\ OthersKept(d)
    /\ greeted' = greeted \cup {d}
    /\ UNCHANGED <<users, minted, approved>>

Linked(d, n, t) ==
    /\ d \in Stored
    /\ identities'[d] \in Identity
    /\ identities'[d].user_id = n
    /\ identities'[d].device_token = hash_token(t)
    /\ identities'[d].is_confirmed = FALSE
    /\ KeepsAddress(d)
    /\ OthersKept(d)
    /\ Minted(t, d, n)
    /\ users'[n] # None
    /\ users[n] = None => ~users'[n].is_deleted
    /\ users[n] # None => users'[n] = users[n]
    /\ \A m \in Name : m # n => users'[m] = users[m]
    /\ UNCHANGED <<greeted, approved>>

Rotated(d, n, t) ==
    /\ d \in Stored
    /\ identities[d].user_id # None
    /\ identities'[d] \in Identity
    /\ identities'[d].device_token = hash_token(t)
    /\ KeepsOwner(d) /\ KeepsAddress(d) /\ KeepsApproval(d)
    /\ OthersKept(d)
    /\ Minted(t, d, n)
    /\ UNCHANGED <<users, greeted, approved>>

Moved(d, ip) ==
    /\ d \in Stored
    /\ identities[d].user_id # None
    /\ find_by_ip(ip) \subseteq {d}
    /\ identities'[d] \in Identity
    /\ identities'[d].ip_address = ip
    /\ identities'[d].is_confirmed = FALSE
    /\ KeepsOwner(d) /\ KeepsToken(d)
    /\ OthersKept(d)
    /\ UNCHANGED <<users, greeted, minted, approved>>

Confirmed(d, confirmed) ==
    /\ d \in Stored
    /\ identities'[d] \in Identity
    /\ identities'[d].is_confirmed = confirmed
    /\ KeepsOwner(d) /\ KeepsAddress(d) /\ KeepsToken(d)
    /\ OthersKept(d)
    /\ confirmed => approved'[d] = BindingOf(identities[d])
    /\ \A e \in Device : e # d => approved'[e] = approved[e]
    /\ UNCHANGED <<users, greeted, minted>>

Deleted(d) ==
    /\ identities'[d] = None
    /\ OthersKept(d)
    /\ UNCHANGED <<users, greeted, minted, approved>>

Toggled(n, is_deleted) ==
    /\ users[n] # None
    /\ users'[n] # None
    /\ users'[n].is_deleted = is_deleted
    /\ \A m \in Name : m # n => users'[m] = users[m]
    /\ UNCHANGED <<identities, greeted, minted, approved>>

Quiet == UNCHANGED <<tables, history>>

Effect ==
    \/ Quiet
    \/ \E d \in Device :
          \/ \E ip \in IP : Created(d, ip) \/ Moved(d, ip)
          \/ \E n \in Name, t \in Token : Linked(d, n, t) \/ Rotated(d, n, t)
          \/ \E confirmed \in BOOLEAN : Confirmed(d, confirmed)
          \/ Deleted(d)
    \/ \E n \in Name, is_deleted \in BOOLEAN : Toggled(n, is_deleted)

\* The link of a sign-up or a sign-in, once the users table is accounted for.
LEMMA LinkEffect ==
    ASSUME TypeOK, NEW d \in Device, NEW n \in Name, NEW t \in Token,
           link_device(d, n, t),
           users'[n] # None,
           users[n] = None => ~users'[n].is_deleted,
           users[n] # None => users'[n] = users[n],
           \A m \in Name : m # n => users'[m] = users[m],
           UNCHANGED <<greeted, approved>>
    PROVE  Linked(d, n, t)
  <1>1. /\ d \in Stored
        /\ identities'[d] \in Identity
        /\ identities'[d].user_id = n
        /\ identities'[d].ip_address = identities[d].ip_address
        /\ identities'[d].device_token = hash_token(t)
        /\ identities'[d].is_confirmed = FALSE
        /\ \A e \in Device : e # d => identities'[e] = identities[e]
        /\ Mint(t, d, n)
    BY LinkType
  <1>2. Minted(t, d, n)
    BY <1>1, MintType DEF Minted
  <1> QED BY <1>1, <1>2 DEF Linked, KeepsAddress, OthersKept

LEMMA StartEffect ==
    ASSUME NEW r \in Request, Start(r)
    PROVE  Quiet
  BY DEF Start, Quiet, Greet_find_by_ip, decode_request, Refresh_find_by_ip,
         Resign_find_by_device_token, SetConfirm_find_by_uuid, Delete_find_by_uuid,
         ToggleUser_find_by_uuid

LEMMA ContinueEffect ==
    ASSUME TypeOK, RequestsAreBacked, NEW r \in Request, Continue(r)
    PROVE  Effect
  <1> DEFINE l == req[r]
             d == l.device
  <1>0. l \in Local /\ Backed(l)
    BY DEF TypeOK, RequestsAreBacked
  <1>1. CASE Greet_create(r)
    <2>1. PICK e \in Device \ greeted :
             /\ identities' = [identities EXCEPT ![e] =
                                  [user_id |-> None, ip_address |-> l.ip,
                                   device_token |-> None, is_confirmed |-> FALSE]]
             /\ greeted' = greeted \cup {e}
      BY <1>1 DEF Greet_create
    <2>2. l.ip \in IP
      BY <1>0, <1>1, LocalFields DEF Greet_create
    <2>3. Created(e, l.ip)
      BY <1>1, <2>1 DEF Created, OthersKept, Greet_create, TypeOK
    <2> QED BY <2>2, <2>3 DEF Effect
  <1>2. CASE \/ Greet_unique_violation(r) \/ SignUp_rollback(r) \/ Refuse(r) \/ Fail(r)
             \/ SignIn_find_by_name(r)
             \/ CheckOwner(r, "refresh_user", "refresh_update")
             \/ CheckOwner(r, "resign_user", "resign_update")
    BY <1>2 DEF Greet_unique_violation, SignUp_rollback, Refuse, Fail, SignIn_find_by_name,
                CheckOwner, Effect, Quiet
  <1>3. CASE SignUp_transaction(r)
    <2>1. PICK n \in Name, ehlo \in Secret, t \in Token :
             /\ users[n] = None
             /\ users' = [users EXCEPT ![n] = [ehlo_secret |-> ehlo, is_deleted |-> FALSE]]
             /\ link_device(d, n, t)
      BY <1>3 DEF SignUp_transaction
    <2>2. d \in Device
      BY <1>0, <1>3, LocalFields DEF SignUp_transaction
    <2>3. [ehlo_secret |-> ehlo, is_deleted |-> FALSE] \in User
      BY DEF User
    <2>4. /\ users'[n] # None
          /\ ~users'[n].is_deleted
          /\ \A m \in Name : m # n => users'[m] = users[m]
      BY <2>1, <2>3, NoneIsNoValue DEF TypeOK
    <2>5. UNCHANGED <<greeted, approved>>
      BY <1>3 DEF SignUp_transaction
    <2>6. Linked(d, n, t)
      BY <2>1, <2>2, <2>4, <2>5, LinkEffect
    <2> QED BY <2>2, <2>6 DEF Effect
  <1>4. CASE SignIn_link_device(r)
    <2>1. PICK t \in Token : link_device(d, l.user, t)
      BY <1>4 DEF SignIn_link_device
    <2>2. d \in Device /\ l.user \in Name /\ users[l.user] # None
      BY <1>0, <1>4, LocalFields DEF SignIn_link_device, Backed
    <2>3. UNCHANGED <<users, greeted, approved>>
      BY <1>4 DEF SignIn_link_device
    <2>4. Linked(d, l.user, t)
      BY <2>1, <2>2, <2>3, LinkEffect
    <2> QED BY <2>2, <2>4 DEF Effect
  <1>5. CASE Refresh_update(r)
    <2>1. PICK t \in Token :
             /\ update(d, [identities[d] EXCEPT !.device_token = hash_token(t)])
             /\ Mint(t, d, l.user)
      BY <1>5 DEF Refresh_update
    <2>2. d \in Device /\ l.user \in Name /\ d \in Stored
      BY <1>0, <1>5, <2>1, LocalFields DEF Refresh_update, update
    <2>3. identities[d].user_id # None
      BY <1>0, <1>5, <2>2 DEF Backed, Refresh_update
    <2> DEFINE row == [identities[d] EXCEPT !.device_token = hash_token(t)]
    <2>4. /\ row \in Identity
          /\ row.device_token = hash_token(t)
          /\ row.user_id = identities[d].user_id
          /\ row.ip_address = identities[d].ip_address
          /\ row.is_confirmed = identities[d].is_confirmed
      <3>1. hash_token(t) \in Hash
        BY DEF Hash
      <3>2. identities[d] \in Identity
        BY <2>2, StoredRow
      <3> QED BY <3>1, <3>2 DEF Identity
    <2>5. identities'[d] = row /\ OthersKept(d)
      BY <2>1, <2>2, <2>4, UpdateType DEF OthersKept
    <2>6. Minted(t, d, l.user)
      BY <2>1, <2>2, MintType DEF Minted
    <2> HIDE DEF row
    <2>7. Rotated(d, l.user, t)
      BY <1>5, <2>2, <2>3, <2>4, <2>5, <2>6
      DEF Rotated, KeepsOwner, KeepsAddress, KeepsApproval, Refresh_update
    <2> QED BY <2>2, <2>7 DEF Effect
  <1>6. CASE Resign_update(r)
    <2>1. PICK ip \in IP :
             /\ find_by_ip(ip) \subseteq {d}
             /\ update(d, [identities[d] EXCEPT !.ip_address = ip, !.is_confirmed = FALSE])
      BY <1>6 DEF Resign_update
    <2>2. d \in Device /\ d \in Stored
      BY <1>0, <1>6, <2>1, LocalFields DEF Resign_update, update
    <2>3. identities[d].user_id # None
      BY <1>0, <1>6, <2>2 DEF Backed, Resign_update
    <2> DEFINE row == [identities[d] EXCEPT !.ip_address = ip, !.is_confirmed = FALSE]
    <2>4. /\ row \in Identity
          /\ row.device_token = identities[d].device_token
          /\ row.user_id = identities[d].user_id
          /\ row.ip_address = ip
          /\ row.is_confirmed = FALSE
      BY <2>2, StoredRow DEF Identity
    <2>5. identities'[d] = row /\ OthersKept(d)
      BY <2>1, <2>2, <2>4, UpdateType DEF OthersKept
    <2> HIDE DEF row
    <2>6. Moved(d, ip)
      BY <1>6, <2>1, <2>2, <2>3, <2>4, <2>5
      DEF Moved, KeepsOwner, KeepsToken, Resign_update, history
    <2> QED BY <2>2, <2>6 DEF Effect
  <1>7. CASE SetConfirm_update(r)
    <2>1. PICK confirmed \in BOOLEAN :
             /\ update(d, [identities[d] EXCEPT !.is_confirmed = confirmed])
             /\ approved' = IF confirmed
                            THEN [approved EXCEPT ![d] = BindingOf(identities[d])]
                            ELSE approved
      BY <1>7 DEF SetConfirm_update
    <2>2. d \in Device /\ d \in Stored
      BY <1>0, <1>7, <2>1, LocalFields DEF SetConfirm_update, update
    <2> DEFINE row == [identities[d] EXCEPT !.is_confirmed = confirmed]
    <2>3. /\ row \in Identity
          /\ row.device_token = identities[d].device_token
          /\ row.user_id = identities[d].user_id
          /\ row.ip_address = identities[d].ip_address
          /\ row.is_confirmed = confirmed
      BY <2>2, StoredRow DEF Identity
    <2>4. identities'[d] = row /\ OthersKept(d)
      BY <2>1, <2>2, <2>3, UpdateType DEF OthersKept
    <2> HIDE DEF row
    <2>5. /\ confirmed => approved'[d] = BindingOf(identities[d])
          /\ \A e \in Device : e # d => approved'[e] = approved[e]
      BY <2>1, <2>2 DEF TypeOK
    <2>6. Confirmed(d, confirmed)
      BY <1>7, <2>2, <2>3, <2>4, <2>5
      DEF Confirmed, KeepsOwner, KeepsAddress, KeepsToken, SetConfirm_update
    <2> QED BY <2>2, <2>6 DEF Effect
  <1>8. CASE Delete_delete(r)
    <2>1. d \in Device
      BY <1>0, <1>8, LocalFields DEF Delete_delete
    <2>2. Deleted(d)
      BY <1>8, <2>1 DEF Deleted, OthersKept, Delete_delete, TypeOK, history
    <2> QED BY <2>1, <2>2 DEF Effect
  <1>9. CASE ToggleUser_update(r)
    <2>1. PICK is_deleted \in BOOLEAN :
             users' = [users EXCEPT ![l.user] =
                          [users[l.user] EXCEPT !.is_deleted = is_deleted]]
      BY <1>9 DEF ToggleUser_update
    <2>2. l.user \in Name /\ users[l.user] \in User
      BY <1>0, <1>9, LocalFields DEF ToggleUser_update, TypeOK
    <2>3. [users[l.user] EXCEPT !.is_deleted = is_deleted] \in User
      BY <2>2 DEF User
    <2>4. /\ users'[l.user].is_deleted = is_deleted
          /\ users'[l.user] \in User
          /\ \A m \in Name : m # l.user => users'[m] = users[m]
      BY <2>1, <2>2, <2>3 DEF TypeOK, User
    <2>5. Toggled(l.user, is_deleted)
      BY <1>9, <2>2, <2>4, NoneIsNoValue DEF Toggled, ToggleUser_update, history
    <2> QED BY <2>2, <2>5 DEF Effect
  <1> QED BY <1>1, <1>2, <1>3, <1>4, <1>5, <1>6, <1>7, <1>8, <1>9 DEF Continue

LEMMA StepEffect ==
    ASSUME TypeOK, RequestsAreBacked, [Next]_vars
    PROVE  Effect
  <1>1. CASE \E r \in Request : Start(r) \/ Continue(r)
    BY <1>1, StartEffect, ContinueEffect DEF Effect
  <1>2. CASE Crash \/ UNCHANGED vars
    BY <1>2 DEF Crash, vars, Effect, Quiet, tables, history
  <1> QED BY <1>1, <1>2 DEF Next

-----------------------------------------------------------------------------
(* What a handler read stays good enough to act on *)

\* No step removes a user, forgets a greeting, brings a row back under an old
\* uuid, or clears the owner of a row that stays.
Persists ==
    /\ \A n \in Name : users[n] # None => users'[n] # None
    /\ greeted \subseteq greeted'
    /\ Stored \subseteq greeted => Stored' \subseteq greeted'
    /\ \A d \in greeted : d \in Stored' =>
          /\ d \in Stored
          /\ identities[d].user_id # None => identities'[d].user_id # None

LEMMA Persistence ==
    ASSUME TypeOK, Effect
    PROVE  Persists
  <1>1. CASE Quiet
    BY <1>1 DEF Quiet, tables, history, Stored, Persists
  <1>2. ASSUME NEW d \in Device, NEW ip \in IP, Created(d, ip)
        PROVE  Persists
    BY <1>2 DEF Created, OthersKept, Stored, Persists, TypeOK
  <1>3. ASSUME NEW d \in Device, NEW ip \in IP, Moved(d, ip)
        PROVE  Persists
    BY <1>3 DEF Moved, OthersKept, KeepsOwner, Stored, Persists, TypeOK
  <1>4. ASSUME NEW d \in Device, NEW n \in Name, NEW t \in Token, Linked(d, n, t)
        PROVE  Persists
    BY <1>4, NoneIsNoValue DEF Linked, OthersKept, Stored, Persists, TypeOK
  <1>5. ASSUME NEW d \in Device, NEW n \in Name, NEW t \in Token, Rotated(d, n, t)
        PROVE  Persists
    BY <1>5 DEF Rotated, OthersKept, KeepsOwner, Stored, Persists, TypeOK
  <1>6. ASSUME NEW d \in Device, NEW confirmed \in BOOLEAN, Confirmed(d, confirmed)
        PROVE  Persists
    BY <1>6 DEF Confirmed, OthersKept, KeepsOwner, Stored, Persists, TypeOK
  <1>7. ASSUME NEW d \in Device, Deleted(d)
        PROVE  Persists
    BY <1>7 DEF Deleted, OthersKept, Stored, Persists, TypeOK
  <1>8. ASSUME NEW n \in Name, NEW is_deleted \in BOOLEAN, Toggled(n, is_deleted)
        PROVE  Persists
    BY <1>8 DEF Toggled, Stored, Persists, TypeOK
  <1> QED BY <1>1, <1>2, <1>3, <1>4, <1>5, <1>6, <1>7, <1>8 DEF Effect

LEMMA BackedPersists ==
    ASSUME NEW l \in Local, Backed(l), Persists
    PROVE  Backed(l)'
  BY LocalFields DEF Backed, Persists

LEMMA IdleIsBacked == Backed(Idle)'
  BY DEF Backed, Idle

\* What each handler has just read backs what it goes on to remember.
LEMMA OwnRequestBacked ==
    ASSUME TypeOK, LinkedDevicesAreWhole, RequestsAreBacked, Persists,
           NEW r \in Request, Start(r) \/ Continue(r)
    PROVE  Backed(req[r])'
  <1> DEFINE l == req[r]
  <1>0. l \in Local /\ Backed(l) /\ Stored \subseteq greeted /\ req \in [Request -> Local]
    BY DEF TypeOK, RequestsAreBacked
  <1>1. CASE Finish(r)
    <2>1. req'[r] = Idle
      BY <1>0, <1>1 DEF Finish, Goto
    <2> QED BY <2>1, IdleIsBacked
  <1>2. ASSUME NEW ip \in IP, Greet_find_by_ip(r, ip)
        PROVE  Backed(req[r])'
    <2>1. req'[r] = [at |-> "greet_create", ip |-> ip]
      BY <1>0, <1>2 DEF Greet_find_by_ip, Goto
    <2> QED BY <2>1 DEF Backed
  <1>3. ASSUME NEW ip \in IP, NEW next \in {"sign_up", "sign_in"}, decode_request(r, ip, next)
        PROVE  Backed(req[r])'
    <2>1. PICK d \in find_by_ip(ip) : Goto(r, [at |-> next, device |-> d])
      BY <1>3 DEF decode_request
    <2>2. req'[r] = [at |-> next, device |-> d] /\ d \in greeted'
      BY <1>0, <2>1 DEF Goto, find_by_ip, Persists
    <2> QED BY <2>2 DEF Backed
  <1>4. ASSUME NEW ip \in IP, NEW t \in Token, Refresh_find_by_ip(r, ip, t)
        PROVE  Backed(req[r])'
    <2>1. PICK d \in find_by_ip(ip) :
             /\ identities[d].user_id # None
             /\ Goto(r, [at |-> "refresh_user", device |-> d,
                         user |-> identities[d].user_id, token |-> t])
      BY <1>4 DEF Refresh_find_by_ip
    <2>2. d \in Stored /\ users[identities[d].user_id] # None /\ identities' = identities
          /\ users' = users
      BY <1>4, <2>1 DEF find_by_ip, LinkedDevicesAreWhole, Refresh_find_by_ip, tables
    <2>3. req'[r] = [at |-> "refresh_user", device |-> d,
                     user |-> identities[d].user_id, token |-> t]
      BY <1>0, <2>1 DEF Goto
    <2> QED BY <1>0, <2>1, <2>2, <2>3 DEF Backed, Persists
  <1>5. ASSUME NEW t \in Token, Resign_find_by_device_token(r, t)
        PROVE  Backed(req[r])'
    <2>1. PICK d \in find_by_device_token(t) :
             /\ identities[d].user_id # None
             /\ Goto(r, [at |-> "resign_user", device |-> d,
                         user |-> identities[d].user_id, token |-> t])
      BY <1>5 DEF Resign_find_by_device_token
    <2>2. d \in Stored /\ users[identities[d].user_id] # None /\ identities' = identities
          /\ users' = users
      BY <1>5, <2>1
      DEF find_by_device_token, LinkedDevicesAreWhole, Resign_find_by_device_token, tables
    <2>3. req'[r] = [at |-> "resign_user", device |-> d,
                     user |-> identities[d].user_id, token |-> t]
      BY <1>0, <2>1 DEF Goto
    <2> QED BY <1>0, <2>1, <2>2, <2>3 DEF Backed, Persists
  <1>6. ASSUME NEW d \in Device, SetConfirm_find_by_uuid(r, d) \/ Delete_find_by_uuid(r, d)
        PROVE  Backed(req[r])'
    <2>1. d \in greeted' /\ \/ req'[r] = [at |-> "set_confirm", device |-> d]
                            \/ req'[r] = [at |-> "delete", device |-> d]
      BY <1>0, <1>6 DEF SetConfirm_find_by_uuid, Delete_find_by_uuid, Goto, Persists
    <2> QED BY <2>1 DEF Backed
  <1>7. ASSUME NEW n \in Name, ToggleUser_find_by_uuid(r, n)
        PROVE  Backed(req[r])'
    <2>1. users'[n] # None /\ req'[r] = [at |-> "toggle_user", user |-> n]
      BY <1>0, <1>7 DEF ToggleUser_find_by_uuid, Goto, Persists
    <2> QED BY <2>1 DEF Backed
  <1>8. CASE SignIn_find_by_name(r)
    <2>1. PICK n \in Name :
             /\ users[n] # None
             /\ Goto(r, [at |-> "link_device", device |-> l.device, user |-> n])
      BY <1>8 DEF SignIn_find_by_name
    <2>2. l.device \in greeted' /\ users'[n] # None
      BY <1>0, <1>8, <2>1 DEF SignIn_find_by_name, Backed, Persists
    <2>3. req'[r] = [at |-> "link_device", device |-> l.device, user |-> n]
      BY <1>0, <2>1 DEF Goto
    <2> QED BY <2>2, <2>3 DEF Backed
  <1>9. CASE \/ CheckOwner(r, "refresh_user", "refresh_update")
             \/ CheckOwner(r, "resign_user", "resign_update")
    <2>1. PICK next \in {"refresh_update", "resign_update"} :
             Goto(r, [l EXCEPT !.at = next])
      BY <1>9 DEF CheckOwner
    <2>2. l.at \in {"refresh_user", "resign_user"}
      BY <1>9 DEF CheckOwner
    <2>3. l = [at |-> l.at, device |-> l.device, user |-> l.user, token |-> l.token]
      BY <1>0, <2>2, LocalFields
    <2>4. req'[r] = [at |-> next, device |-> l.device, user |-> l.user, token |-> l.token]
      BY <1>0, <2>1, <2>3 DEF Goto
    <2>5. /\ users'[l.user] # None
          /\ l.device \in greeted'
          /\ l.device \in Stored' => identities'[l.device].user_id # None
      BY <1>0, <2>2, LocalFields DEF Backed, Persists
    <2> QED BY <2>4, <2>5 DEF Backed
  <1> QED
    BY <1>1, <1>2, <1>3, <1>4, <1>5, <1>6, <1>7, <1>8, <1>9
    DEF Start, Continue, Greet_create, Greet_unique_violation, SignUp_transaction,
        SignUp_rollback, SignIn_link_device, Refresh_update, Resign_update,
        SetConfirm_update, Delete_delete, ToggleUser_update, Refuse, Fail

LEMMA RequestsStayBacked ==
    ASSUME TypeOK, LinkedDevicesAreWhole, RequestsAreBacked, [Next]_vars
    PROVE  RequestsAreBacked'
  <1>1. Persists
    BY StepEffect, Persistence
  <1>2. Stored' \subseteq greeted'
    BY <1>1 DEF Persists, RequestsAreBacked
  <1>3. \A q \in Request : Backed(req[q])'
    <2> TAKE q \in Request
    <2>0. req[q] \in Local /\ Backed(req[q]) /\ req \in [Request -> Local]
      BY DEF TypeOK, RequestsAreBacked
    <2>1. CASE req'[q] = req[q]
      <3> DEFINE l == req[q]
      <3> HIDE DEF l
      <3>1. l \in Local /\ Backed(l) /\ req'[q] = l
        BY <2>0, <2>1 DEF l
      <3> QED BY <1>1, <3>1, BackedPersists DEF Backed
    <2>2. CASE \E r \in Request : Start(r) \/ Continue(r)
      <3>1. PICK r \in Request : Start(r) \/ Continue(r)
        BY <2>2
      <3>2. CASE q = r
        BY <1>1, <3>1, <3>2, OwnRequestBacked
      <3>3. CASE q # r
        <4>1. req'[q] = req[q]
          BY <2>0, <3>1, <3>3
          DEF Start, Continue, Goto, Finish, Greet_find_by_ip, Greet_create,
              Greet_unique_violation, decode_request, SignUp_transaction, SignUp_rollback,
              SignIn_find_by_name, SignIn_link_device, Refresh_find_by_ip,
              Resign_find_by_device_token, CheckOwner, Refresh_update, Resign_update,
              Refuse, Fail, SetConfirm_find_by_uuid, SetConfirm_update,
              Delete_find_by_uuid, Delete_delete, ToggleUser_find_by_uuid,
              ToggleUser_update
        <4> QED BY <2>1, <4>1
      <3> QED BY <3>2, <3>3
    <2>3. CASE Crash
      <3>1. req'[q] = Idle
        BY <2>3 DEF Crash
      <3> QED BY <3>1, IdleIsBacked
    <2>4. CASE UNCHANGED vars
      BY <2>1, <2>4 DEF vars
    <2> QED BY <2>2, <2>3, <2>4 DEF Next
  <1> QED BY <1>2, <1>3 DEF RequestsAreBacked

-----------------------------------------------------------------------------
(* The inductive invariant.  Approval, address and token invariants stand on
   their own; the two about owners need what the requests remember. *)

IInv == /\ TypeOK
        /\ ApprovalCoversBinding
        /\ LinkedDevicesAreWhole
        /\ OneDevicePerAddress
        /\ TokenNamesItsDevice
        /\ NoUserWithoutToken
        /\ RequestsAreBacked

LEMMA InitInv == Init => IInv
  <1> SUFFICES ASSUME Init PROVE IInv
    OBVIOUS
  <1>1. TypeOK
    BY InitType
  <1>2. Stored = {}
    BY DEF Init, Stored
  <1>3. RequestsAreBacked
    BY <1>2 DEF Init, RequestsAreBacked, Backed, Idle
  <1> QED
    BY <1>1, <1>2, <1>3
    DEF IInv, Init, ApprovalCoversBinding, LinkedDevicesAreWhole, OneDevicePerAddress,
        TokenNamesItsDevice, NoUserWithoutToken, find_by_ip, find_by_device_token

\* A row that no step touches has all it had.
LEMMA ApprovalKept ==
    ASSUME TypeOK, TypeOK', ApprovalCoversBinding, Effect
    PROVE  ApprovalCoversBinding'
  <1> USE DEF ApprovalCoversBinding, Stored, BindingOf, OthersKept
  <1>1. CASE Quiet
    BY <1>1 DEF Quiet, tables, history
  <1>2. ASSUME NEW d \in Device, NEW ip \in IP, Created(d, ip)
        PROVE  ApprovalCoversBinding'
    BY <1>2 DEF Created
  <1>3. ASSUME NEW d \in Device, NEW ip \in IP, Moved(d, ip)
        PROVE  ApprovalCoversBinding'
    BY <1>3 DEF Moved
  <1>4. ASSUME NEW d \in Device, NEW n \in Name, NEW t \in Token, Linked(d, n, t)
        PROVE  ApprovalCoversBinding'
    BY <1>4 DEF Linked
  <1>5. ASSUME NEW d \in Device, NEW n \in Name, NEW t \in Token, Rotated(d, n, t)
        PROVE  ApprovalCoversBinding'
    BY <1>5 DEF Rotated, KeepsOwner, KeepsAddress, KeepsApproval
  <1>6. ASSUME NEW d \in Device, NEW confirmed \in BOOLEAN, Confirmed(d, confirmed)
        PROVE  ApprovalCoversBinding'
    BY <1>6 DEF Confirmed, KeepsOwner, KeepsAddress
  <1>7. ASSUME NEW d \in Device, Deleted(d)
        PROVE  ApprovalCoversBinding'
    BY <1>7 DEF Deleted
  <1>8. ASSUME NEW n \in Name, NEW is_deleted \in BOOLEAN, Toggled(n, is_deleted)
        PROVE  ApprovalCoversBinding'
    BY <1>8 DEF Toggled
  <1> QED BY <1>1, <1>2, <1>3, <1>4, <1>5, <1>6, <1>7, <1>8 DEF Effect

LEMMA HashIsNotNone == \A t \in Token : hash_token(t) # None
  BY NoneIsNoValue DEF Hash

LEMMA HashIsInjective == \A t, v \in Token : hash_token(t) = hash_token(v) => t = v
  BY DEF hash_token

LEMMA LinksKept ==
    ASSUME TypeOK, TypeOK', LinkedDevicesAreWhole, Effect
    PROVE  LinkedDevicesAreWhole'
  <1> USE DEF LinkedDevicesAreWhole, Stored, OthersKept
  <1>0. \A n \in Name : users[n] # None => users'[n] # None
    BY Persistence DEF Persists
  <1>1. CASE Quiet
    BY <1>1 DEF Quiet, tables, history
  <1>2. ASSUME NEW d \in Device, NEW ip \in IP, Created(d, ip)
        PROVE  LinkedDevicesAreWhole'
    BY <1>2 DEF Created
  <1>3. ASSUME NEW d \in Device, NEW ip \in IP, Moved(d, ip)
        PROVE  LinkedDevicesAreWhole'
    BY <1>3 DEF Moved, KeepsOwner, KeepsToken
  <1>4. ASSUME NEW d \in Device, NEW n \in Name, NEW t \in Token, Linked(d, n, t)
        PROVE  LinkedDevicesAreWhole'
    BY <1>0, <1>4, HashIsNotNone, NoneIsNoValue DEF Linked, TypeOK, Identity
  <1>5. ASSUME NEW d \in Device, NEW n \in Name, NEW t \in Token, Rotated(d, n, t)
        PROVE  LinkedDevicesAreWhole'
    BY <1>5, HashIsNotNone DEF Rotated, KeepsOwner
  <1>6. ASSUME NEW d \in Device, NEW confirmed \in BOOLEAN, Confirmed(d, confirmed)
        PROVE  LinkedDevicesAreWhole'
    BY <1>6 DEF Confirmed, KeepsOwner, KeepsToken
  <1>7. ASSUME NEW d \in Device, Deleted(d)
        PROVE  LinkedDevicesAreWhole'
    BY <1>7 DEF Deleted
  <1>8. ASSUME NEW n \in Name, NEW is_deleted \in BOOLEAN, Toggled(n, is_deleted)
        PROVE  LinkedDevicesAreWhole'
    BY <1>0, <1>8 DEF Toggled, TypeOK, Identity
  <1> QED BY <1>1, <1>2, <1>3, <1>4, <1>5, <1>6, <1>7, <1>8 DEF Effect

LEMMA AddressesKept ==
    ASSUME TypeOK, TypeOK', OneDevicePerAddress, Effect
    PROVE  OneDevicePerAddress'
  <1> USE DEF OneDevicePerAddress, find_by_ip, Stored, OthersKept
  <1>1. CASE Quiet
    BY <1>1 DEF Quiet, tables, history
  <1>2. ASSUME NEW d \in Device, NEW ip \in IP, Created(d, ip)
        PROVE  OneDevicePerAddress'
    BY <1>2 DEF Created
  <1>3. ASSUME NEW d \in Device, NEW ip \in IP, Moved(d, ip)
        PROVE  OneDevicePerAddress'
    BY <1>3 DEF Moved
  <1>4. ASSUME NEW d \in Device, NEW n \in Name, NEW t \in Token, Linked(d, n, t)
        PROVE  OneDevicePerAddress'
    BY <1>4 DEF Linked, KeepsAddress
  <1>5. ASSUME NEW d \in Device, NEW n \in Name, NEW t \in Token, Rotated(d, n, t)
        PROVE  OneDevicePerAddress'
    BY <1>5 DEF Rotated, KeepsAddress
  <1>6. ASSUME NEW d \in Device, NEW confirmed \in BOOLEAN, Confirmed(d, confirmed)
        PROVE  OneDevicePerAddress'
    BY <1>6 DEF Confirmed, KeepsAddress
  <1>7. ASSUME NEW d \in Device, Deleted(d)
        PROVE  OneDevicePerAddress'
    BY <1>7 DEF Deleted
  <1>8. ASSUME NEW n \in Name, NEW is_deleted \in BOOLEAN, Toggled(n, is_deleted)
        PROVE  OneDevicePerAddress'
    BY <1>8 DEF Toggled
  <1> QED BY <1>1, <1>2, <1>3, <1>4, <1>5, <1>6, <1>7, <1>8 DEF Effect

LEMMA TokensKept ==
    ASSUME TypeOK, TypeOK', TokenNamesItsDevice, Effect
    PROVE  TokenNamesItsDevice'
  <1> USE DEF TokenNamesItsDevice, find_by_device_token, Stored, OthersKept
  <1>1. CASE Quiet
    BY <1>1 DEF Quiet, tables, history
  <1>2. ASSUME NEW d \in Device, NEW ip \in IP, Created(d, ip)
        PROVE  TokenNamesItsDevice'
    BY <1>2, HashIsNotNone DEF Created
  <1>3. ASSUME NEW d \in Device, NEW ip \in IP, Moved(d, ip)
        PROVE  TokenNamesItsDevice'
    BY <1>3 DEF Moved, KeepsToken
  <1>4. ASSUME NEW d \in Device, NEW n \in Name, NEW t \in Token,
               Linked(d, n, t) \/ Rotated(d, n, t)
        PROVE  TokenNamesItsDevice'
    <2>1. /\ d \in Stored
          /\ identities'[d] # None
          /\ identities'[d].device_token = hash_token(t)
          /\ OthersKept(d)
          /\ minted[t] = None
          /\ minted'[t] = [device |-> d, user |-> n]
          /\ \A v \in Token : v # t => minted'[v] = minted[v]
      BY <1>4, NoneIsNoValue DEF Linked, Rotated, Minted
    <2>2. minted'[t] # None /\ minted'[t].device = d
      <3>1. [device |-> d, user |-> n] # None
        BY NoneIsNoValue DEF Origin
      <3> QED BY <2>1, <3>1
    <2> QED BY <2>1, <2>2, HashIsInjective
  <1>5. ASSUME NEW d \in Device, NEW confirmed \in BOOLEAN, Confirmed(d, confirmed)
        PROVE  TokenNamesItsDevice'
    BY <1>5 DEF Confirmed, KeepsToken
  <1>6. ASSUME NEW d \in Device, Deleted(d)
        PROVE  TokenNamesItsDevice'
    BY <1>6 DEF Deleted
  <1>7. ASSUME NEW n \in Name, NEW is_deleted \in BOOLEAN, Toggled(n, is_deleted)
        PROVE  TokenNamesItsDevice'
    BY <1>7 DEF Toggled
  <1> QED BY <1>1, <1>2, <1>3, <1>4, <1>5, <1>6, <1>7 DEF Effect

LEMMA UsersKept ==
    ASSUME TypeOK, TypeOK', NoUserWithoutToken, Effect
    PROVE  NoUserWithoutToken'
  <1> USE DEF NoUserWithoutToken
  <1>1. CASE Quiet
    BY <1>1 DEF Quiet, tables, history
  <1>2. ASSUME NEW d \in Device, NEW n \in Name, NEW t \in Token,
               Linked(d, n, t) \/ Rotated(d, n, t)
        PROVE  NoUserWithoutToken'
    <2>1. /\ minted[t] = None
          /\ minted'[t] # None
          /\ minted'[t].user = n
          /\ \A v \in Token : v # t => minted'[v] = minted[v]
          /\ \A m \in Name : m # n => users'[m] = users[m]
      <3>1. [device |-> d, user |-> n] # None
        BY NoneIsNoValue DEF Origin
      <3> QED BY <1>2, <3>1 DEF Linked, Rotated, Minted
    <2> QED BY <2>1
  <1>3. ASSUME NEW n \in Name, NEW is_deleted \in BOOLEAN, Toggled(n, is_deleted)
        PROVE  NoUserWithoutToken'
    BY <1>3 DEF Toggled
  <1>4. ASSUME NEW d \in Device, NEW ip \in IP, Created(d, ip) \/ Moved(d, ip)
        PROVE  NoUserWithoutToken'
    BY <1>4 DEF Created, Moved
  <1>5. ASSUME NEW d \in Device, Deleted(d)
        PROVE  NoUserWithoutToken'
    BY <1>5 DEF Deleted
  <1>6. ASSUME NEW d \in Device, NEW confirmed \in BOOLEAN, Confirmed(d, confirmed)
        PROVE  NoUserWithoutToken'
    BY <1>6 DEF Confirmed
  <1> QED BY <1>1, <1>2, <1>3, <1>4, <1>5, <1>6 DEF Effect

LEMMA NextInv == IInv /\ [Next]_vars => IInv'
  <1> SUFFICES ASSUME IInv, [Next]_vars PROVE IInv'
    OBVIOUS
  <1>1. TypeOK /\ TypeOK' /\ Effect
    BY NextType, StepEffect DEF IInv
  <1>2. RequestsAreBacked'
    BY RequestsStayBacked DEF IInv
  <1> QED
    BY <1>1, <1>2, ApprovalKept, LinksKept, AddressesKept, TokensKept, UsersKept DEF IInv

THEOREM InvariantHolds == Spec => []IInv
  BY InitInv, NextInv, PTL DEF Spec

\* Whatever way the requests of any number of devices interleave, a confirmed
\* device has the owner and the address it had when it was last confirmed.
THEOREM ApprovalIsForThisBinding == Spec => []ApprovalCoversBinding
  BY InvariantHolds, PTL DEF IInv

\* A device never has a token without an owner or an owner without a token,
\* and its owner is a row of users.
THEOREM LinksAreWhole == Spec => []LinkedDevicesAreWhole
  BY InvariantHolds, PTL DEF IInv

\* Racing greets and re-signs never leave two devices at one address.
THEOREM AddressesAreUnambiguous == Spec => []OneDevicePerAddress
  BY InvariantHolds, PTL DEF IInv

\* A stored token was issued for the device that stores it, so no two devices
\* share one.
THEOREM TokensAreUnambiguous == Spec => []TokenNamesItsDevice
  BY InvariantHolds, PTL DEF IInv

\* Sign-up is all or nothing: there is no user for whom no token was issued.
THEOREM SignUpIsWhole == Spec => []NoUserWithoutToken
  BY InvariantHolds, PTL DEF IInv

\* What a request read before its write cannot be undone under it.
THEOREM ReadsStayGood == Spec => []RequestsAreBacked
  BY InvariantHolds, PTL DEF IInv

-----------------------------------------------------------------------------
(* What a step may never do *)

\* No request in flight, and no restart, puts back a token that was replaced or
\* deleted.
THEOREM DeadTokens == Spec => DeadTokensStayDead
  <1>1. ASSUME IInv, [Next]_vars, NEW t \in Token,
               minted[t] # None, find_by_device_token(t) = {}
        PROVE  find_by_device_token(t)' = {}
    <2> USE DEF find_by_device_token, Stored, OthersKept
    <2>0. TypeOK /\ Effect
      BY <1>1, StepEffect DEF IInv
    <2>1. CASE Quiet
      BY <1>1, <2>1 DEF Quiet, tables
    <2>2. ASSUME NEW d \in Device, NEW n \in Name, NEW v \in Token,
                 Linked(d, n, v) \/ Rotated(d, n, v)
          PROVE  find_by_device_token(t)' = {}
      <3>1. /\ minted[v] = None
            /\ identities'[d].device_token = hash_token(v)
            /\ OthersKept(d)
        BY <2>2 DEF Linked, Rotated, Minted
      <3> QED BY <1>1, <3>1, HashIsInjective
    <2>3. ASSUME NEW d \in Device, NEW ip \in IP, Created(d, ip) \/ Moved(d, ip)
          PROVE  find_by_device_token(t)' = {}
      BY <1>1, <2>3, HashIsNotNone DEF Created, Moved, KeepsToken
    <2>4. ASSUME NEW d \in Device, NEW confirmed \in BOOLEAN, Confirmed(d, confirmed)
          PROVE  find_by_device_token(t)' = {}
      BY <1>1, <2>4 DEF Confirmed, KeepsToken
    <2>5. ASSUME NEW d \in Device, Deleted(d)
          PROVE  find_by_device_token(t)' = {}
      BY <1>1, <2>5 DEF Deleted
    <2>6. ASSUME NEW n \in Name, NEW is_deleted \in BOOLEAN, Toggled(n, is_deleted)
          PROVE  find_by_device_token(t)' = {}
      BY <1>1, <2>6 DEF Toggled
    <2> QED BY <2>0, <2>1, <2>2, <2>3, <2>4, <2>5, <2>6 DEF Effect
  <1>2. IInv /\ [Next]_vars =>
          [\A t \in Token : (minted[t] # None /\ find_by_device_token(t) = {})
                               => find_by_device_token(t)' = {}]_vars
    BY <1>1
  <1> QED BY <1>2, InvariantHolds, PTL DEF Spec, DeadTokensStayDead

\* No request that read a device before it was deleted brings it back.
THEOREM DeletedDevices == Spec => DeletedDevicesStayDeleted
  <1>1. ASSUME IInv, [Next]_vars, NEW d \in greeted, identities[d] = None
        PROVE  identities'[d] = None
    <2>1. Persists
      BY <1>1, StepEffect, Persistence DEF IInv
    <2>2. d \in Device
      BY <1>1 DEF IInv, TypeOK
    <2> QED BY <1>1, <2>1, <2>2 DEF Persists, Stored
  <1>2. IInv /\ [Next]_vars =>
          [\A d \in greeted : identities[d] = None => identities'[d] = None]_vars
    BY <1>1
  <1> QED BY <1>2, InvariantHolds, PTL DEF Spec, DeletedDevicesStayDeleted

-----------------------------------------------------------------------------
(* Enrollment implements DeviceRegistry *)

LEMMA TokenOfHash == \A t \in Token : TokenOf(hash_token(t)) = t
  BY HashIsNotNone DEF TokenOf, hash_token

LEMMA TokenOfType == \A h \in Hash \cup {None} : TokenOf(h) \in Token \cup {None}
  BY TokenOfHash DEF Hash, TokenOf

LEMMA EntryOfStored ==
    ASSUME TypeOK, RequestsAreBacked, NEW d \in Device
    PROVE  /\ d \in Stored => /\ EntryOf(d) = [owner      |-> identities[d].user_id,
                                              address    |-> identities[d].ip_address,
                                              credential |-> TokenOf(identities[d].device_token),
                                              trusted    |-> identities[d].is_confirmed]
                              /\ EntryOf(d) \in Registry!Entry
           /\ d \in Stored <=> EntryOf(d) \notin {Unknown, Gone}
           /\ EntryOf(d) = Unknown <=> d \notin greeted
  <1>1. CASE d \in Stored
    <2>1. d \in greeted /\ identities[d] # None /\ identities[d] \in Identity
      BY <1>1, StoredRow DEF RequestsAreBacked, Stored
    <2>2. EntryOf(d) = [owner      |-> identities[d].user_id,
                        address    |-> identities[d].ip_address,
                        credential |-> TokenOf(identities[d].device_token),
                        trusted    |-> identities[d].is_confirmed]
      BY <2>1 DEF EntryOf
    <2>3. TokenOf(identities[d].device_token) \in Token \cup {None}
      BY <2>1, TokenOfType DEF Identity
    <2>4. EntryOf(d) \in Registry!Entry
      BY <2>1, <2>2, <2>3 DEF Registry!Entry, Identity
    <2> QED BY <1>1, <2>1, <2>2, <2>4, EntriesAreEntries
  <1>2. CASE d \notin Stored
    BY <1>2, EntriesAreEntries DEF EntryOf, Stored
  <1> QED BY <1>1, <1>2

\* The abstract state, one operator per variable of DeviceRegistry.
registry == [d \in Device |-> EntryOf(d)]
accounts == {n \in Name : users[n] # None}
blocked  == {n \in Name : users[n] # None /\ users[n].is_deleted}
issued   == {t \in Token : minted[t] # None}

LEMMA EntryChanges ==
    ASSUME NEW d \in Device, NEW entry, EntryOf(d)' = entry,
           \A e \in Device : e # d => EntryOf(e)' = EntryOf(e)
    PROVE  registry' = [registry EXCEPT ![d] = entry]
  BY DEF registry

LEMMA EntryKept ==
    ASSUME NEW e \in Device, identities'[e] = identities[e],
           e \in greeted' <=> e \in greeted
    PROVE  EntryOf(e)' = EntryOf(e)
  BY DEF EntryOf

\* The guards of DeviceRegistry, seen from the tables.
LEMMA AbstractGuards ==
    ASSUME TypeOK, RequestsAreBacked
    PROVE  /\ Registry!Members = Stored
           /\ \A ip \in IP : Registry!Free(ip) <=> find_by_ip(ip) = {}
           /\ \A d \in Stored : /\ registry[d].owner = identities[d].user_id
                                /\ registry[d].address = identities[d].ip_address
  <1>1. \A d \in Device : registry[d] = EntryOf(d)
    BY DEF registry
  <1>2. Registry!Members = Stored
    BY <1>1, EntryOfStored DEF Registry!Members, registry, Stored
  <1>3. ASSUME NEW d \in Stored
        PROVE  registry[d].owner = identities[d].user_id
               /\ registry[d].address = identities[d].ip_address
    <2>1. d \in Device
      BY DEF Stored
    <2>2. registry[d] = [owner      |-> identities[d].user_id,
                         address    |-> identities[d].ip_address,
                         credential |-> TokenOf(identities[d].device_token),
                         trusted    |-> identities[d].is_confirmed]
      BY <1>1, <2>1, EntryOfStored
    <2> QED BY <2>2
  <1>4. \A ip \in IP : Registry!Free(ip) <=> find_by_ip(ip) = {}
    BY <1>2, <1>3 DEF Registry!Free, find_by_ip, registry
  <1> QED BY <1>2, <1>3, <1>4

\* The entries of a stored device before and after a step that keeps it stored.
LEMMA EntriesOfUpdated ==
    ASSUME TypeOK, RequestsAreBacked, RequestsAreBacked', NEW d \in Stored,
           identities'[d] \in Identity
    PROVE  /\ registry[d] = [owner      |-> identities[d].user_id,
                             address    |-> identities[d].ip_address,
                             credential |-> TokenOf(identities[d].device_token),
                             trusted    |-> identities[d].is_confirmed]
           /\ EntryOf(d)' = [owner      |-> identities'[d].user_id,
                             address    |-> identities'[d].ip_address,
                             credential |-> TokenOf(identities'[d].device_token),
                             trusted    |-> identities'[d].is_confirmed]
  <1>1. d \in Device /\ d \in Stored'
    BY NoneIsNoValue DEF Stored
  <1>2. registry[d] = EntryOf(d)
    BY <1>1 DEF registry
  <1>3. d \in greeted' /\ identities'[d] # None
    BY <1>1 DEF RequestsAreBacked, Stored
  <1> QED BY <1>1, <1>2, <1>3, EntryOfStored DEF EntryOf

LEMMA EntryFields ==
    ASSUME TypeOK, RequestsAreBacked, NEW d \in Stored
    PROVE  /\ registry[d].owner = identities[d].user_id
           /\ registry[d].address = identities[d].ip_address
           /\ registry[d].credential = TokenOf(identities[d].device_token)
           /\ registry[d].trusted = identities[d].is_confirmed
  <1>1. d \in Device /\ registry[d] = EntryOf(d)
    BY DEF registry, Stored
  <1> QED BY <1>1, EntryOfStored

LEMMA OwnerHasAccount ==
    ASSUME TypeOK, LinkedDevicesAreWhole, RequestsAreBacked,
           NEW d \in Stored, identities[d].user_id # None
    PROVE  registry[d].owner \in accounts
  <1>1. identities[d].user_id \in Name /\ users[identities[d].user_id] # None
    BY StoredRow DEF LinkedDevicesAreWhole, Identity
  <1> QED BY <1>1, EntryFields DEF accounts

LEMMA MintedIsIssued ==
    ASSUME NEW d \in Device, NEW n \in Name, NEW t \in Token, Minted(t, d, n)
    PROVE  t \notin issued /\ issued' = issued \cup {t}
  <1>1. minted'[t] # None
    BY NoneIsNoValue DEF Minted, Origin
  <1> QED BY <1>1 DEF Minted, issued

LEMMA StepRefines ==
    ASSUME IInv, IInv', Effect
    PROVE  [Registry!Next]_(Registry!vars)
  <1> USE DEF IInv
  <1>0. /\ TypeOK /\ RequestsAreBacked /\ Registry!Members = Stored
        /\ \A ip \in IP : Registry!Free(ip) <=> find_by_ip(ip) = {}
        /\ \A d \in Stored : /\ registry[d].owner = identities[d].user_id
                             /\ registry[d].address = identities[d].ip_address
    BY AbstractGuards
  <1>1. CASE Quiet
    <2>1. \A d \in Device : EntryOf(d)' = EntryOf(d)
      BY <1>1 DEF Quiet, tables, history, EntryOf
    <2>2. UNCHANGED <<registry, accounts, blocked, issued>>
      BY <1>1, <2>1 DEF Quiet, tables, history, registry, accounts, blocked, issued
    <2> QED BY <2>2 DEF Registry!vars, registry, accounts, blocked, issued
  <1>2. ASSUME NEW d \in Device, NEW ip \in IP, Created(d, ip)
        PROVE  Registry!Register(d, ip)
    <2> DEFINE entry == [owner |-> None, address |-> ip, credential |-> None,
                         trusted |-> FALSE]
    <2>1. EntryOf(d)' = entry
      <3>1. identities'[d] # None
        <4>1. [user_id |-> None, ip_address |-> ip,
               device_token |-> None, is_confirmed |-> FALSE] \in Identity
          BY DEF Identity
        <4> QED BY <1>2, <4>1, NoneIsNoValue DEF Created
      <3>2. d \in greeted'
        BY <1>2 DEF Created
      <3>3. EntryOf(d)' = [owner      |-> identities'[d].user_id,
                           address    |-> identities'[d].ip_address,
                           credential |-> TokenOf(identities'[d].device_token),
                           trusted    |-> identities'[d].is_confirmed]
        BY <3>1, <3>2 DEF EntryOf
      <3>4. TokenOf(None) = None
        BY DEF TokenOf
      <3> QED BY <1>2, <3>3, <3>4 DEF Created
    <2>2. \A e \in Device : e # d => EntryOf(e)' = EntryOf(e)
      BY <1>2, EntryKept DEF Created, OthersKept
    <2>3. registry' = [registry EXCEPT ![d] = entry]
      BY <2>1, <2>2, EntryChanges
    <2>4. registry[d] = Unknown
      BY <1>2, EntryOfStored DEF Created, registry
    <2>5. UNCHANGED <<accounts, blocked, issued>>
      BY <1>2 DEF Created, accounts, blocked, issued
    <2>6. Registry!Free(ip)
      BY <1>0, <1>2 DEF Created
    <2> HIDE DEF entry
    <2> QED BY <2>3, <2>4, <2>5, <2>6
            DEF Registry!Register, Registry!Set, registry, accounts, blocked, issued, entry
  <1>3. ASSUME NEW d \in Device, NEW ip \in IP, Moved(d, ip)
        PROVE  Registry!Move(d, ip)
    <2> DEFINE entry == [owner |-> registry[d].owner, address |-> ip,
                         credential |-> registry[d].credential, trusted |-> FALSE]
    <2>1. EntryOf(d)' = entry
      <3>1. d \in Stored /\ identities'[d] \in Identity
        BY <1>3 DEF Moved
      <3>2. EntryOf(d)' = [owner      |-> identities[d].user_id,
                           address    |-> ip,
                           credential |-> TokenOf(identities[d].device_token),
                           trusted    |-> FALSE]
        BY <1>3, <3>1, EntriesOfUpdated DEF Moved, KeepsOwner, KeepsToken
      <3> QED BY <3>1, <3>2, EntryFields
    <2>2. \A e \in Device : e # d => EntryOf(e)' = EntryOf(e)
      BY <1>3, EntryKept DEF Moved, OthersKept
    <2>3. registry' = [registry EXCEPT ![d] = entry]
      BY <2>1, <2>2, EntryChanges
    <2>4. d \in Registry!Members
      BY <1>0, <1>3 DEF Moved
    <2>5. registry[d].owner \in accounts
      BY <1>0, <1>3, OwnerHasAccount DEF Moved
    <2>6. Registry!Free(ip) \/ registry[d].address = ip
      <3>1. CASE find_by_ip(ip) = {}
        BY <1>0, <3>1
      <3>2. CASE find_by_ip(ip) # {}
        <4>1. d \in find_by_ip(ip)
          BY <1>3, <3>2 DEF Moved
        <4> QED BY <1>0, <4>1 DEF find_by_ip
      <3> QED BY <3>1, <3>2
    <2>7. UNCHANGED <<accounts, blocked, issued>>
      BY <1>3 DEF Moved, accounts, blocked, issued
    <2> HIDE DEF entry
    <2> QED BY <2>3, <2>4, <2>5, <2>6, <2>7
            DEF Registry!Move, Registry!Set, registry, accounts, blocked, issued, entry
  <1>4. ASSUME NEW d \in Device, NEW n \in Name, NEW t \in Token, Linked(d, n, t)
        PROVE  Registry!SignUp(d, n, t) \/ Registry!SignIn(d, n, t)
    <2> DEFINE entry == [owner |-> n, address |-> registry[d].address,
                         credential |-> t, trusted |-> FALSE]
    <2>1. EntryOf(d)' = entry
      <3>1. d \in Stored /\ identities'[d] \in Identity
        BY <1>4 DEF Linked
      <3>2. EntryOf(d)' = [owner      |-> n,
                           address    |-> identities[d].ip_address,
                           credential |-> t,
                           trusted    |-> FALSE]
        BY <1>4, <3>1, EntriesOfUpdated, TokenOfHash DEF Linked, KeepsAddress
      <3> QED BY <3>1, <3>2, EntryFields
    <2>2. \A e \in Device : e # d => EntryOf(e)' = EntryOf(e)
      BY <1>4, EntryKept DEF Linked, OthersKept
    <2>3. registry' = [registry EXCEPT ![d] = entry]
      BY <2>1, <2>2, EntryChanges
    <2>4. d \in Registry!Members
      BY <1>0, <1>4 DEF Linked
    <2>5. t \notin issued /\ issued' = issued \cup {t}
      BY <1>4, MintedIsIssued DEF Linked
    <2>6. blocked' = blocked
      BY <1>4 DEF Linked, blocked
    <2>7. \/ n \notin accounts /\ accounts' = accounts \cup {n}
          \/ n \in accounts /\ accounts' = accounts
      BY <1>4 DEF Linked, accounts
    <2> HIDE DEF entry
    <2>8. Registry!Claim(d, n, t)
      BY <2>3, <2>4, <2>5, <2>6
         DEF Registry!Claim, Registry!Set, registry, blocked, issued, entry
    <2> QED BY <2>7, <2>8 DEF Registry!SignUp, Registry!SignIn, accounts
  <1>5. ASSUME NEW d \in Device, NEW n \in Name, NEW t \in Token, Rotated(d, n, t)
        PROVE  Registry!Rotate(d, t)
    <2> DEFINE entry == [owner |-> registry[d].owner, address |-> registry[d].address,
                         credential |-> t, trusted |-> registry[d].trusted]
    <2>1. EntryOf(d)' = entry
      <3>1. d \in Stored /\ identities'[d] \in Identity
        BY <1>5 DEF Rotated
      <3>2. EntryOf(d)' = [owner      |-> identities[d].user_id,
                           address    |-> identities[d].ip_address,
                           credential |-> t,
                           trusted    |-> identities[d].is_confirmed]
        BY <1>5, <3>1, EntriesOfUpdated, TokenOfHash
           DEF Rotated, KeepsOwner, KeepsAddress, KeepsApproval
      <3> QED BY <3>1, <3>2, EntryFields
    <2>2. \A e \in Device : e # d => EntryOf(e)' = EntryOf(e)
      BY <1>5, EntryKept DEF Rotated, OthersKept
    <2>3. registry' = [registry EXCEPT ![d] = entry]
      BY <2>1, <2>2, EntryChanges
    <2>4. d \in Registry!Members
      BY <1>0, <1>5 DEF Rotated
    <2>5. registry[d].owner \in accounts
      BY <1>0, <1>5, OwnerHasAccount DEF Rotated
    <2>6. t \notin issued /\ issued' = issued \cup {t}
      BY <1>5, MintedIsIssued DEF Rotated
    <2>7. UNCHANGED <<accounts, blocked>>
      BY <1>5 DEF Rotated, accounts, blocked
    <2> HIDE DEF entry
    <2> QED BY <2>3, <2>4, <2>5, <2>6, <2>7
            DEF Registry!Rotate, Registry!Set, registry, accounts, blocked, issued, entry
  <1>6. ASSUME NEW d \in Device, NEW confirmed \in BOOLEAN, Confirmed(d, confirmed)
        PROVE  Registry!Trust(d, confirmed)
    <2> DEFINE entry == [owner |-> registry[d].owner, address |-> registry[d].address,
                         credential |-> registry[d].credential, trusted |-> confirmed]
    <2>1. EntryOf(d)' = entry
      <3>1. d \in Stored /\ identities'[d] \in Identity
        BY <1>6 DEF Confirmed
      <3>2. EntryOf(d)' = [owner      |-> identities[d].user_id,
                           address    |-> identities[d].ip_address,
                           credential |-> TokenOf(identities[d].device_token),
                           trusted    |-> confirmed]
        BY <1>6, <3>1, EntriesOfUpdated DEF Confirmed, KeepsOwner, KeepsAddress, KeepsToken
      <3> QED BY <3>1, <3>2, EntryFields
    <2>2. \A e \in Device : e # d => EntryOf(e)' = EntryOf(e)
      BY <1>6, EntryKept DEF Confirmed, OthersKept
    <2>3. registry' = [registry EXCEPT ![d] = entry]
      BY <2>1, <2>2, EntryChanges
    <2>4. d \in Registry!Members
      BY <1>0, <1>6 DEF Confirmed
    <2>5. UNCHANGED <<accounts, blocked, issued>>
      BY <1>6 DEF Confirmed, accounts, blocked, issued
    <2> HIDE DEF entry
    <2> QED BY <2>3, <2>4, <2>5
            DEF Registry!Trust, Registry!Set, registry, accounts, blocked, issued, entry
  <1>7. ASSUME NEW d \in Device, Deleted(d)
        PROVE  Registry!Remove(d) \/ UNCHANGED Registry!vars
    <2>1. UNCHANGED <<accounts, blocked, issued>>
      BY <1>7 DEF Deleted, accounts, blocked, issued
    <2>2. \A e \in Device : e # d => EntryOf(e)' = EntryOf(e)
      BY <1>7, EntryKept DEF Deleted, OthersKept
    <2>3. CASE d \in Stored
      <3>1. EntryOf(d)' = Gone
        BY <1>7, <2>3 DEF Deleted, EntryOf, RequestsAreBacked
      <3>2. registry' = [registry EXCEPT ![d] = Gone]
        BY <2>2, <3>1, EntryChanges
      <3> QED BY <1>0, <2>1, <2>3, <3>2
              DEF Registry!Remove, Registry!Set, registry, accounts, blocked, issued
    <2>4. CASE d \notin Stored
      <3>1. EntryOf(d)' = EntryOf(d)
        BY <1>7, <2>4, EntryKept DEF Deleted, Stored
      <3>2. registry' = registry
        BY <2>2, <3>1 DEF registry
      <3> QED BY <2>1, <3>2 DEF Registry!vars, registry, accounts, blocked, issued
    <2> QED BY <2>3, <2>4
  <1>8. ASSUME NEW n \in Name, NEW is_deleted \in BOOLEAN, Toggled(n, is_deleted)
        PROVE  Registry!Block(n, is_deleted)
    <2>1. n \in accounts
      BY <1>8 DEF Toggled, accounts
    <2>2. blocked' = IF is_deleted THEN blocked \cup {n} ELSE blocked \ {n}
      BY <1>8 DEF Toggled, blocked
    <2>3. UNCHANGED <<accounts, issued>>
      BY <1>8 DEF Toggled, accounts, issued
    <2>4. registry' = registry
      BY <1>8 DEF Toggled, registry, EntryOf
    <2> QED BY <2>1, <2>2, <2>3, <2>4
            DEF Registry!Block, registry, accounts, blocked, issued
  <1> QED BY <1>1, <1>2, <1>3, <1>4, <1>5, <1>6, <1>7, <1>8
          DEF Effect, Registry!Next, Registry!Approve, Registry!Operate

LEMMA InitRefines == Init => Registry!Init
  <1> SUFFICES ASSUME Init PROVE Registry!Init
    OBVIOUS
  <1>1. \A d \in Device : EntryOf(d) = Unknown
    BY DEF Init, EntryOf
  <1>2. \A n \in Name : users[n] = None
    BY DEF Init
  <1>3. \A t \in Token : minted[t] = None
    BY DEF Init
  <1> QED BY <1>1, <1>2, <1>3 DEF Registry!Init

\* However the statements of concurrent requests interleave, each request does
\* to the registry one whole operation it is entitled to, or nothing.
THEOREM ImplementsRegistry == Spec => RefinesRegistry
  <1>1. IInv /\ IInv' /\ [Next]_vars => [Registry!Next]_(Registry!vars)
    BY StepEffect, StepRefines DEF IInv
  <1> QED BY <1>1, InitRefines, InvariantHolds, PTL
          DEF Spec, RefinesRegistry, Registry!Spec

===============================================================================
