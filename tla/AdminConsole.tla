----------------------------- MODULE AdminConsole -----------------------------
(***************************************************************************)
(* The administrator's terminal console, and the server it talks to.       *)
(*                                                                         *)
(* The console shows lists it fetched a while ago.  It reads a key, sends  *)
(* one HTTP request after the other and waits for each answer before it    *)
(* reads the next key.  Meanwhile devices enroll and move, and other       *)
(* administrators work.  A request may be refused (429, 404, 5xx), may     *)
(* fail before it reaches the server, or may have its answer lost: the     *)
(* client's timeout of 15 seconds makes one of the two of a slow one.      *)
(*                                                                         *)
(* A request of the console is one step of the server, as is each request  *)
(* of others: Enrollment implements DeviceRegistry, whose operations these *)
(* are, seen through the columns that the console acts on.                 *)
(***************************************************************************)
EXTENDS Naturals, FiniteSets, Sequences

CONSTANTS
    PAGE_SIZE,   \* rows on a page of the Devices tab
    MaxDevice,   \* bound on the devices ever greeted
    MaxUser,     \* bound on the users ever signed up
    Owners,      \* whose the devices are that the server has when the console starts
    Archive,     \* and whose they were when the archive was exported
    MaxSurprises,  \* bound on the changes by others, the lost answers and the imports
    None

ASSUME PagesHaveRows == PAGE_SIZE \in Nat \ {0} /\ {MaxDevice, MaxUser, MaxSurprises} \subseteq Nat
ASSUME NoneIsNoNumber == None \notin Nat

\* In the order of insertion, which is the order in which SQLite lists them.
Device == 1 .. MaxDevice
User   == 1 .. MaxUser

ASSUME OwnersAreUsers == /\ {Owners, Archive} \subseteq Seq(User \cup {None})
                         /\ Len(Archive) <= Len(Owners) /\ Len(Owners) <= MaxDevice

Row == [user_id : User \cup {None}, confirmed : BOOLEAN]

\* A line of the Devices tab, and what the server answers.
Shown == [uuid : Device, user_id : User \cup {None}, confirmed : BOOLEAN]

Answers == [status : {"ok", "refused", "down"}]
           \cup [status : {"ok"}, devices : Seq(Shown)]
           \cup [status : {"ok"}, users : Seq(User)]

ASSUME NoneIsNoRecord == None \notin Answers \cup Row

TABS == <<"Devices", "Users", "Export", "Import">>
TAB_COUNT == Len(TABS)

VARIABLES
    rows,          \* the server's devices: user_id and confirmed, or None
    accounts,      \* the server's users
    greeted,       \* how many devices there have ever been
    signed_up,     \* the users there have ever been
    stale,         \* history: the devices changed by others, or by a request whose
                   \* answer was lost, since the server last listed them to the console
    surprises,     \* how often the console could not know what it changed, or who did
    identities,    \* the devices the console shows
    page, selected,  \* the page shown, and the row selected in it, or None
    users, user_selected,  \* the users the console shows, and the one selected, or None
    tab,
    pending_delete,  \* the device whose deletion waits for a 'y', or None
    pending_export,  \* an overwriting export waits for a 'y'
    backend_down,    \* the notice that the server cannot be reached is on
    call,            \* the HTTP request under way and what is to come after it, or Reading
    reply            \* the answer to it: a status, or None while there is none

server == <<rows, accounts, greeted, signed_up, surprises>>
lists  == <<identities, page, selected, users, user_selected>>
modals == <<pending_delete, pending_export, backend_down>>
screen == <<lists, tab, modals>>
vars   == <<server, stale, screen, call, reply>>

Reading == [op |-> "none"]

Stored == {d \in Device : rows[d] # None}

Entry(d) == [uuid |-> d, user_id |-> rows[d].user_id, confirmed |-> rows[d].confirmed]

Ascending(order) == \A i, j \in DOMAIN order : i < j => order[i] < order[j]

In_order(numbers) ==
    CHOOSE order \in [1 .. Cardinality(numbers) -> numbers] : Ascending(order)

\* The lists as the server has them.  Of a user the console acts on the uuid alone.
find_all == LET order == In_order(Stored) IN [i \in DOMAIN order |-> Entry(order[i])]

list_users == In_order(accounts)

-----------------------------------------------------------------------------
(* Requests *)

\* Send the next request.  The flag backend_down is cleared before each fetch.
Send(next) == call' = next /\ reply' = None

Back == Send(Reading)

fetch_all(then)   == [op |-> "fetch_all", then |-> then]
fetch_users(then) == [op |-> "fetch_users", then |-> then]

\* The tables of a server with these devices, none of them confirmed.  Every
\* user has signed up on a device.
Rows(owners) == [d \in Device |-> IF d \in DOMAIN owners
                                  THEN [user_id |-> owners[d], confirmed |-> FALSE]
                                  ELSE None]

Users(owners) == {owners[d] : d \in DOMAIN owners} \ {None}

\* The console is started on a server that has devices, all yet to be confirmed.
Init ==
    /\ greeted = Len(Owners)
    /\ rows = Rows(Owners) /\ accounts = Users(Owners)
    /\ signed_up = Users(Owners) \cup Users(Archive)
    /\ stale = {}
    /\ surprises = 0
    /\ identities = <<>> /\ page = 0 /\ selected = None
    /\ users = <<>> /\ user_selected = None
    /\ tab = 0
    /\ pending_delete = None /\ pending_export = FALSE /\ backend_down = FALSE
    /\ call = fetch_all("fetch_users") /\ reply = None

\* What a request does when the server carries it out: whose rows it changes,
\* and the status.  An import brings the archived tables back, with fewer users
\* or more; nothing else the console asks for adds or removes one.
Carry_out(status, touched) ==
    \/ /\ call.op \in {"toggle", "approve"}
       /\ touched = {call.uuid}
       /\ IF rows[call.uuid] = None
          THEN status = "refused" /\ UNCHANGED rows
          ELSE status = "ok" /\ rows' = [rows EXCEPT ![call.uuid].confirmed = call.confirm]
       /\ UNCHANGED accounts
    \/ /\ call.op = "delete"
       /\ touched = {call.uuid}
       /\ status = IF rows[call.uuid] = None THEN "refused" ELSE "ok"
       /\ rows' = [rows EXCEPT ![call.uuid] = None]
       /\ UNCHANGED accounts
    \/ /\ call.op = "toggle_user"
       /\ touched = {}
       /\ status = IF call.user \in accounts THEN "ok" ELSE "refused"
       /\ UNCHANGED <<rows, accounts>>
    \/ /\ call.op = "import"
       /\ touched = Device /\ status = "ok"
       /\ rows' = Rows(Archive) /\ accounts' = Users(Archive)
       /\ surprises < MaxSurprises
    \/ /\ call.op \in {"fetch_all", "fetch_users", "export"}
       /\ touched = {} /\ status = "ok"
       /\ UNCHANGED <<rows, accounts>>

\* The server answers.  A listing that arrives is what the console knows from now on.
Served ==
    /\ call # Reading /\ reply = None
    /\ \E status \in {"ok", "refused"}, touched \in {{}, Device} \cup {{d} : d \in Device} :
          /\ Carry_out(status, touched)
          /\ IF call.op = "fetch_all"
             THEN /\ reply' = [status |-> "ok", devices |-> find_all]
                  /\ stale' = {}
             ELSE /\ reply' = IF call.op = "fetch_users" THEN [status |-> "ok", users |-> list_users]
                              ELSE [status |-> status]
                  /\ stale' = IF call.op = "import" THEN Device ELSE stale
    /\ surprises' = IF call.op = "import" THEN surprises + 1 ELSE surprises
    /\ UNCHANGED <<greeted, signed_up, screen, call>>

\* The server acts, and the console is not told.
Answer_lost ==
    /\ call # Reading /\ reply = None
    /\ surprises < MaxSurprises
    /\ surprises' = surprises + 1
    /\ \E status \in {"ok", "refused"}, touched \in {{}, Device} \cup {{d} : d \in Device} :
          /\ Carry_out(status, touched)
          /\ stale' = stale \cup touched
    /\ reply' = [status |-> "down"]
    /\ UNCHANGED <<greeted, signed_up, screen, call>>

\* The request is not carried out: too many, or no connection.
Not_served ==
    /\ call # Reading /\ reply = None
    /\ \E status \in {"refused", "down"} : reply' = [status |-> status]
    /\ UNCHANGED <<server, stale, screen, call>>

Replied(op, ok) == /\ call.op = op
                   /\ reply # None
                   /\ (reply.status = "ok") = ok
                   /\ UNCHANGED <<server, stale>>

-----------------------------------------------------------------------------
(* Listing.  A body that cannot be parsed is taken for an empty list. *)

total_pages(entries) == IF entries = <<>> THEN 1 ELSE (Len(entries) - 1) \div PAGE_SIZE + 1

selected_global_index == IF selected = None THEN None ELSE page * PAGE_SIZE + selected

\* After the devices the console may fetch the users, and after an import it
\* shows the first page.
fetch_all_ok ==
    /\ Replied("fetch_all", TRUE)
    /\ \E entries \in {reply.devices, <<>>} :
          /\ identities' = entries
          /\ page' = IF page >= total_pages(entries) THEN total_pages(entries) - 1 ELSE page
          /\ selected' = IF page' * PAGE_SIZE < Len(entries) THEN 0 ELSE None
    /\ backend_down' = FALSE
    /\ Send(IF call.then = "read" THEN Reading
            ELSE fetch_users(IF call.then = "import" THEN "first_page" ELSE "read"))
    /\ UNCHANGED <<users, user_selected, tab, pending_delete, pending_export>>

fetch_all_fails ==
    /\ Replied("fetch_all", FALSE)
    /\ backend_down' = (reply.status = "down")
    /\ Send(IF call.then = "read" THEN Reading
            ELSE fetch_users(IF call.then = "import" THEN "first_page" ELSE "read"))
    /\ UNCHANGED <<lists, tab, pending_delete, pending_export>>

\* Mutant: the selection stays where it was.
fetch_users_keeps_selection ==
    /\ call.op = "fetch_users" /\ reply # None
    /\ \/ /\ reply.status = "ok"
          /\ \E entries \in {reply.users, <<>>} :
                /\ users' = entries
                /\ user_selected' = IF entries = <<>> THEN None
                                    ELSE IF user_selected = None THEN 0
                                    ELSE user_selected
       \/ /\ reply.status # "ok"
          /\ UNCHANGED <<users, user_selected>>
    /\ backend_down' = (reply.status = "down")
    /\ page' = IF call.then = "first_page" THEN 0 ELSE page
    /\ Back
    /\ UNCHANGED <<server, stale, identities, selected, tab, pending_delete, pending_export>>

\* The selection stays where it was, or goes to the last of a list that has
\* become shorter.
fetch_users_replied ==
    /\ call.op = "fetch_users" /\ reply # None
    /\ \/ /\ reply.status = "ok"
          /\ \E entries \in {reply.users, <<>>} :
                /\ users' = entries
                /\ user_selected' = IF entries = <<>> THEN None
                                    ELSE IF user_selected = None THEN 0
                                    ELSE IF user_selected < Len(entries) THEN user_selected
                                    ELSE Len(entries) - 1
       \/ /\ reply.status # "ok"
          /\ UNCHANGED <<users, user_selected>>
    /\ backend_down' = (reply.status = "down")
    /\ page' = IF call.then = "first_page" THEN 0 ELSE page
    /\ Back
    /\ UNCHANGED <<server, stale, identities, selected, tab, pending_delete, pending_export>>

-----------------------------------------------------------------------------
(* Keys.  The notice and the questions take every key there is; a key that is *)
(* not the answer cancels.  Ctrl+C quits at any time.                         *)

\* A key is read while no question is on.
Key(t) == /\ call = Reading
          /\ ~backend_down /\ pending_delete = None /\ ~pending_export
          /\ TABS[tab + 1] = t
          /\ UNCHANGED <<server, stale>>

\* Mutant: the tab after the last is none.
Tab_no_wrap == /\ \E t \in {"Devices", "Users", "Export", "Import"} : Key(t)
               /\ tab' = tab + 1
               /\ UNCHANGED <<lists, modals, call, reply>>

\* Mutant: the tabs change behind a question.
Tab_behind_question == /\ call = Reading /\ ~backend_down
                       /\ tab' \in {(tab + 1) % TAB_COUNT, (tab + TAB_COUNT - 1) % TAB_COUNT}
                       /\ UNCHANGED <<server, stale, lists, modals, call, reply>>

Tab == /\ \E t \in {"Devices", "Users", "Export", "Import"} : Key(t)
       /\ tab' \in {(tab + 1) % TAB_COUNT, (tab + TAB_COUNT - 1) % TAB_COUNT}
       /\ UNCHANGED <<lists, modals, call, reply>>

prev_page == /\ Key("Devices")
             /\ page > 0
             /\ page' = page - 1
             /\ selected' = 0
             /\ UNCHANGED <<identities, users, user_selected, tab, modals, call, reply>>

next_page == /\ Key("Devices")
             /\ page + 1 < total_pages(identities)
             /\ page' = page + 1
             /\ selected' = 0
             /\ UNCHANGED <<identities, users, user_selected, tab, modals, call, reply>>

prev_row == /\ Key("Devices")
            /\ selected # None
            /\ selected > 0
            /\ selected' = selected - 1
            /\ UNCHANGED <<identities, page, users, user_selected, tab, modals, call, reply>>

\* With no row selected, the row after the first is taken.
next_row ==
    LET left == Len(identities) - page * PAGE_SIZE
        rows_here == IF left < PAGE_SIZE THEN left ELSE PAGE_SIZE
        here == IF selected = None THEN 0 ELSE selected
    IN /\ Key("Devices")
       /\ page * PAGE_SIZE < Len(identities)
       /\ selected' = IF here + 1 < rows_here THEN here + 1 ELSE rows_here - 1
       /\ UNCHANGED <<identities, page, users, user_selected, tab, modals, call, reply>>

move_user == /\ Key("Users")
             /\ users # <<>> /\ user_selected # None
             /\ user_selected' \in {user_selected - 1, user_selected + 1}
                                   \cap 0 .. Len(users) - 1
             /\ UNCHANGED <<identities, page, selected, users, tab, modals, call, reply>>

-----------------------------------------------------------------------------
(* Confirm or unconfirm the selected device: the opposite of what is shown.   *)

toggle_selected ==
    LET index == selected_global_index + 1
    IN /\ Key("Devices")
       /\ selected # None
       /\ Send([op |-> "toggle", index |-> index, uuid |-> identities[index].uuid,
                confirm |-> ~identities[index].confirmed])
       /\ UNCHANGED screen

\* Mutant: the update is optimistic before the answer is known to be good.
toggle_selected_replied_anyhow ==
    /\ call.op = "toggle" /\ reply # None
    /\ identities' = [identities EXCEPT ![call.index].confirmed = call.confirm]
    /\ Back
    /\ UNCHANGED <<server, stale, page, selected, users, user_selected, tab, modals>>

toggle_selected_replied ==
    /\ call.op = "toggle" /\ reply # None
    /\ identities' = IF reply.status = "ok"
                     THEN [identities EXCEPT ![call.index].confirmed = call.confirm]
                     ELSE identities
    /\ Back
    /\ UNCHANGED <<server, stale, page, selected, users, user_selected, tab, modals>>

-----------------------------------------------------------------------------
(* Delete the selected device *)

arm_delete ==
    LET index == selected_global_index + 1
    IN /\ Key("Devices")
       /\ selected # None
       /\ index \in DOMAIN identities
       /\ pending_delete' = identities[index].uuid
       /\ UNCHANGED <<lists, tab, pending_export, backend_down, call, reply>>

Delete_answer ==
    /\ call = Reading /\ ~backend_down
    /\ pending_delete # None
    /\ \/ Send([op |-> "delete", uuid |-> pending_delete])
       \/ UNCHANGED <<call, reply>>
    /\ pending_delete' = None
    /\ UNCHANGED <<server, stale, lists, tab, pending_export, backend_down>>

delete_replied ==
    /\ call.op = "delete" /\ reply # None
    /\ Send(IF reply.status = "ok" THEN fetch_all("read") ELSE Reading)
    /\ UNCHANGED <<server, stale, screen>>

-----------------------------------------------------------------------------
(* Approve all the devices of the selected user or, if all are, revoke them *)

\* Mutant: the list is not filtered.
Devices_of_anyone(user) == DOMAIN identities

Devices_of(user) == {i \in DOMAIN identities : identities[i].user_id = user}

First(indices) == CHOOSE i \in indices : \A j \in indices : i <= j

toggle_user_approval ==
    LET user == users[user_selected + 1]
        devices == Devices_of(user)
        all_confirmed == \A i \in devices : identities[i].confirmed
    IN /\ Key("Users")
       /\ user_selected # None /\ user_selected < Len(users)
       /\ devices # {}
       /\ Send([op |-> "approve", user |-> user, confirm |-> ~all_confirmed,
                uuid |-> identities[First(devices)].uuid, todo |-> devices \ {First(devices)},
                acked |-> {}])
       /\ UNCHANGED screen

\* Success shows at once; the next device follows whatever became of this one,
\* and a new listing follows the last.
toggle_user_approval_replied ==
    LET acked == IF reply.status = "ok" THEN call.acked \cup {call.uuid} ELSE call.acked
    IN /\ call.op = "approve" /\ reply # None
       /\ identities' = [i \in DOMAIN identities |->
                           IF reply.status = "ok" /\ identities[i].uuid = call.uuid
                           THEN [identities[i] EXCEPT !.confirmed = call.confirm]
                           ELSE identities[i]]
       /\ Send(IF call.todo = {} THEN fetch_all("read")
               ELSE [call EXCEPT !.uuid = identities[First(call.todo)].uuid,
                                 !.todo = @ \ {First(@)}, !.acked = acked])
       /\ UNCHANGED <<server, stale, page, selected, users, user_selected, tab, modals>>

-----------------------------------------------------------------------------
(* Block or restore the selected user *)

toggle_user_deleted ==
    /\ Key("Users")
    /\ user_selected # None /\ user_selected < Len(users)
    /\ Send([op |-> "toggle_user", user |-> users[user_selected + 1]])
    /\ UNCHANGED screen

toggle_user_deleted_replied ==
    /\ call.op = "toggle_user" /\ reply # None
    /\ Send(IF reply.status = "ok" THEN fetch_users("read") ELSE Reading)
    /\ UNCHANGED <<server, stale, screen>>

-----------------------------------------------------------------------------
(* Export and import.  The archive is in a directory shared with the host: it *)
(* is there or not.                                                           *)

Export_key ==
    /\ Key("Export")
    /\ \/ pending_export' = TRUE /\ UNCHANGED <<call, reply>>
       \/ Send([op |-> "export"]) /\ UNCHANGED pending_export
    /\ UNCHANGED <<lists, tab, pending_delete, backend_down>>

Export_answer ==
    /\ call = Reading /\ ~backend_down /\ pending_delete = None
    /\ pending_export
    /\ \/ Send([op |-> "export"])
       \/ UNCHANGED <<call, reply>>
    /\ pending_export' = FALSE
    /\ UNCHANGED <<server, stale, lists, tab, pending_delete, backend_down>>

export_replied ==
    /\ call.op = "export" /\ reply # None
    /\ Back
    /\ UNCHANGED <<server, stale, screen>>

Import_key ==
    /\ Key("Import")
    /\ Send([op |-> "import"])
    /\ UNCHANGED screen

import_replied ==
    /\ call.op = "import" /\ reply # None
    /\ Send(IF reply.status = "ok" THEN fetch_all("import") ELSE Reading)
    /\ UNCHANGED <<server, stale, screen>>

-----------------------------------------------------------------------------
\* q, Esc, Ctrl+C, or Enter on the notice; or the panic on an archive that does
\* not arrive in full.  The console is started again.
Relaunch ==
    /\ \/ call = Reading
       \/ call.op = "export" /\ reply # None /\ reply.status = "ok"
    /\ identities' = <<>> /\ page' = 0 /\ selected' = None
    /\ users' = <<>> /\ user_selected' = None
    /\ tab' = 0
    /\ pending_delete' = None /\ pending_export' = FALSE /\ backend_down' = FALSE
    /\ Send(fetch_all("fetch_users"))
    /\ UNCHANGED <<server, stale>>

\* Devices and other administrators: a greet; a sign-in, or a sign-up of someone
\* new; a re-sign or another's decision; a deletion.
Others ==
    /\ surprises < MaxSurprises
    /\ surprises' = surprises + 1
    /\ \/ /\ greeted < MaxDevice
          /\ greeted' = greeted + 1
          /\ rows' = [rows EXCEPT ![greeted + 1] = [user_id |-> None, confirmed |-> FALSE]]
          /\ stale' = stale \cup {greeted + 1}
          /\ UNCHANGED <<accounts, signed_up>>
       \/ \E d \in Device :
             /\ rows[d] # None
             /\ \/ \E u \in User :
                      /\ \/ u \in accounts /\ UNCHANGED <<accounts, signed_up>>
                         \/ /\ \A v \in signed_up : v < u
                            /\ accounts' = accounts \cup {u}
                            /\ signed_up' = signed_up \cup {u}
                      /\ rows' = [rows EXCEPT ![d] = [user_id |-> u, confirmed |-> FALSE]]
                \/ /\ \/ \E confirmed \in BOOLEAN : rows' = [rows EXCEPT ![d].confirmed = confirmed]
                      \/ rows' = [rows EXCEPT ![d] = None]
                   /\ UNCHANGED <<accounts, signed_up>>
             /\ stale' = stale \cup {d}
             /\ UNCHANGED greeted
    /\ UNCHANGED <<screen, call, reply>>

-----------------------------------------------------------------------------
Answer == Served \/ Answer_lost \/ Not_served

Continue ==
    \/ fetch_all_ok \/ fetch_all_fails \/ fetch_users_replied
    \/ toggle_selected_replied \/ delete_replied \/ toggle_user_approval_replied
    \/ toggle_user_deleted_replied \/ export_replied \/ import_replied

Press ==
    \/ Tab \/ prev_page \/ next_page \/ prev_row \/ next_row \/ move_user
    \/ toggle_selected \/ arm_delete \/ Delete_answer
    \/ toggle_user_approval \/ toggle_user_deleted
    \/ Export_key \/ Export_answer \/ Import_key
    \/ Relaunch

Next == Press \/ Answer \/ Continue \/ Others

Spec == Init /\ [][Next]_vars

-----------------------------------------------------------------------------
(* Properties *)

Calls ==
    {Reading}
    \cup [op : {"fetch_all"}, then : {"read", "fetch_users", "import"}]
    \cup [op : {"fetch_users"}, then : {"read", "first_page"}]
    \cup [op : {"toggle"}, index : Nat, uuid : Device, confirm : BOOLEAN]
    \cup [op : {"delete"}, uuid : Device]
    \cup [op : {"approve"}, user : User, confirm : BOOLEAN, uuid : Device,
          todo : SUBSET Nat, acked : SUBSET Device]
    \cup [op : {"toggle_user"}, user : User]
    \cup [op : {"export", "import"}]

\* Every variable holds values of its type.
TypeOK ==
    /\ rows \in [Device -> Row \cup {None}]
    /\ accounts \subseteq User /\ signed_up \subseteq User
    /\ greeted \in 0 .. MaxDevice /\ surprises \in 0 .. MaxSurprises
    /\ stale \subseteq Device
    /\ identities \in Seq(Shown)
    /\ page \in Nat /\ selected \in (0 .. PAGE_SIZE - 1) \cup {None}
    /\ users \in Seq(User)
    /\ user_selected \in Nat \cup {None}
    /\ tab \in 0 .. TAB_COUNT - 1
    /\ pending_delete \in Device \cup {None}
    /\ {pending_export, backend_down} \subseteq BOOLEAN
    /\ call \in Calls
    /\ reply \in Answers \cup {None}

\* The row selected is one of those shown, whatever was listed, deleted, paged,
\* signed up or imported since, also where an import leaves fewer devices and
\* fewer users: toggle_selected indexes the list without looking at its length.
SelectionIsShown ==
    /\ selected # None => selected_global_index < Len(identities)
    /\ user_selected # None => user_selected < Len(users)

\* At most one question is on the screen, on the tab it was asked on, and none
\* behind the notice: a 'y' never answers a question that is not shown.
OneQuestionAtATime ==
    /\ pending_delete # None => ~pending_export /\ ~backend_down /\ TABS[tab + 1] = "Devices"
    /\ pending_export => ~backend_down /\ TABS[tab + 1] = "Export"

\* A device that others left alone since the last listing is shown as it is,
\* after any sequence of single and user-wide decisions of which some failed:
\* the optimistic updates keep the Conf column right when the listing that
\* should follow them fails.
ColumnsTellTheServer ==
    call = Reading =>
        \A i \in DOMAIN identities :
            LET d == identities[i].uuid
            IN (d \notin stale /\ rows[d] # None) =>
                   identities[i] = [uuid |-> d, user_id |-> rows[d].user_id,
                                    confirmed |-> rows[d].confirmed]

\* Halfway through approving or revoking a user's devices, those that were
\* acknowledged are that user's and as decided, unless others have been at them.
DecisionsReachTheUsersDevices ==
    call.op = "approve" =>
        \A d \in call.acked \ stale :
            rows[d] = [user_id |-> call.user, confirmed |-> call.confirm]

===============================================================================
