----------------------------- MODULE DatabaseFile -----------------------------
(***************************************************************************)
(* The database as a file: POST /admin/import puts another file in its     *)
(* place while requests hold connections to the old one, GET /admin/export *)
(* reads the bytes of the file past SQLite, the process may die and start  *)
(* again, and SQLite keeps a rollback journal next to the file, under a    *)
(* name that does not change.  Every commit goes through that journal, those of *)
(* the migrations too.                                                     *)
(*                                                                         *)
(* An open file is an inode: a rename gives a name to another inode and    *)
(* leaves those who have the old one open where they are.                  *)
(***************************************************************************)
EXTENDS Naturals, Sequences

CONSTANTS
    Request,     \* request slots
    Writer,      \* those whose requests write
    Import,      \* imports; each is made once
    Main,        \* main(), which runs the migrations as an import does
    Export,      \* exports; each is made once
    Page,        \* the pages of a database file, and
    Header,      \* the first of them, which every commit changes
    Archives,    \* what the files in the archives may be, see Schema
    MaxCrashes,  \* bound on how often the process dies
    None

Migrator   == Import \cup {Main}
Connection == Request \cup Migrator

\* Whose file a page is from, the server's first one or an import's, and whose
\* commit was the last to change it there, if any.
Stamp == [origin : {"first"} \cup Import, by : Connection \cup {None}]

\* What a commit of the migrations makes of a schema: diesel's own table, then
\* create_all_tables; add_users_table, which runs outside diesel's transaction
\* and ends in a COMMIT of its own, and then the row that records it;
\* unique_identity_ip; password_valid_since.
After == [empty |-> "set_up", set_up |-> "old",
          old |-> "unrecorded", unrecorded |-> "users",
          users |-> "unique", unique |-> "current"]

\* "empty" is a file of no bytes, "garbage" one that SQLite will open but not read.
Schema == DOMAIN After \cup {"current", "garbage"}

\* A header page tells the schema of its file.
Content == [schema : Schema, page : [Page -> Stamp]]

\* The old text of some pages, the header among them.
Journal == UNION {[schema : Schema, page : [pages -> Stamp]] :
                     pages \in {pages \in SUBSET Page : Header \in pages}}

Commit == [inode : Nat, schema : Schema, todo : SUBSET Page]

Filled(schema, origin) ==
    [schema |-> schema, page |-> [p \in Page |-> [origin |-> origin, by |-> None]]]

ASSUME WritersAreRequests == Writer \subseteq Request
ASSUME ArchivesAreSchemas == Archives \subseteq Schema
ASSUME HeaderIsAPage == Header \in Page
ASSUME MainIsNoImport == Main \notin Import
ASSUME RequestsDoNotMigrate == Request \cap Migrator = {}
ASSUME NoneIsNew ==
    /\ None \notin Connection /\ None \notin Nat /\ None \notin Schema
    /\ None \notin Journal /\ None \notin Commit
ASSUME CrashesAreBounded == MaxCrashes \in Nat

VARIABLES
    file,       \* what each inode holds; inodes are numbered as they are made
    live,       \* the inode at the path DATABASE_URL
    staged,     \* the inode at DATABASE_URL.importing, or None
    journal,    \* the journal next to the database: the old text of some pages, or None
    commit,     \* of a connection that has synced its journal: the file, the schema it brings,
                \* and the pages still to write; or None
    pool,       \* the inode that the connections of the pool have open
    guard,      \* the import that holds the pool's write lock, or None
    req,        \* of a request: its step, and its connection's inode
    job,        \* of an import, and of main(): its step, the inode it has open, and the
                \* schema at which its next migration is due
    exp,        \* of an export: its step, the inode it reads, what it has read; history:
                \* whether that file was written to since, or just then
    crashes,    \* how often the process has died
    disturbed,  \* history: a connection to a file that an import replaced has met or made a
                \* journal, or the import has, or one import another at the staged file
    cut         \* history: the inodes on which add_users_table was left without its record

vars == <<file, live, staged, journal, commit, pool, guard, req, job, exp, crashes, disturbed, cut>>

Inode == 1 .. Len(file)

\* Without a connection: between requests, and between validate_auth and the rest.
Released(step) == [at |-> step, inode |-> None]
Idle == Released("idle")

Step(at, inode) == [at |-> at, inode |-> inode, due |-> None]

Init ==
    /\ file = <<Filled("current", "first")>>
    /\ live = 1
    /\ staged = None
    /\ journal = None
    /\ commit = [c \in Connection |-> None]
    /\ pool = 1
    /\ guard = None
    /\ req = [r \in Request |-> Idle]
    /\ job = [m \in Migrator |-> Step(IF m = Main THEN "up" ELSE "new", None)]
    /\ exp = [e \in Export |-> [at |-> "new", inode |-> None, copy |-> << >>, met |-> FALSE]]
    /\ crashes = 0
    /\ disturbed = FALSE
    /\ cut = {}

Up == job[Main].at = "up"

Goto(r, step) == req' = [req EXCEPT ![r] =
    IF step \in {"idle", "authorized"} THEN Released(step) ELSE [@ EXCEPT !.at = step]]

JobGoto(m, step) == job' = [job EXCEPT ![m] = Step(step, None)]

\* Imports between the first byte of the staged file and its rename.
Staging == {i \in Import : job[i].at \in {"write", "establish", "swap", "rename"}}

\* A file gets another content, under the exports of it.
Put(inode, content) ==
    /\ file' = [file EXCEPT ![inode] = content]
    /\ exp' = [e \in Export |->
          [exp[e] EXCEPT !.met = @ \/ (exp[e].inode = inode /\ content # file[inode])]]

-----------------------------------------------------------------------------
(* SQLite, in rollback-journal mode *)

\* Connections that have synced their journal and not committed hold the file.
Committing(inode) == {c \in Connection : commit[c] # None /\ commit[c].inode = inode}

\* A connection takes the journal it finds by name for its own, if nobody holds
\* the file it has open, and rolls it back into that file.
Recovered(inode) ==
    IF journal = None THEN file[inode]
    ELSE [schema |-> journal.schema,
          page   |-> [p \in Page |-> IF p \in DOMAIN journal.page THEN journal.page[p]
                                    ELSE file[inode].page[p]]]

\* Every statement begins so: wait for the committer, then recover.
Access(inode) == /\ Committing(inode) = {}
                 /\ Put(inode, Recovered(inode))
                 /\ journal' = None
                 /\ disturbed' = (disturbed \/ (journal # None /\ inode # live))

\* Mutant: PRAGMA journal_mode = OFF.
Sync_no_journal(c, inode, schema) ==
    /\ Committing(inode) = {}
    /\ Put(inode, Recovered(inode))
    /\ \E pages \in SUBSET Page :
          /\ Header \in pages
          /\ journal' = None
          /\ commit' = [commit EXCEPT ![c] = [inode |-> inode, schema |-> schema, todo |-> pages]]
    /\ disturbed' = (disturbed \/ inode # live)

\* A transaction that changed some pages in memory commits: the old text of
\* those pages goes to the journal, and the journal to the disk; ...
Sync_journal(c, inode, schema) ==
    /\ Committing(inode) = {}
    /\ Put(inode, Recovered(inode))
    /\ \E pages \in SUBSET Page :
          /\ Header \in pages
          /\ journal' = [schema |-> Recovered(inode).schema,
                         page   |-> [p \in pages |-> Recovered(inode).page[p]]]
          /\ commit' = [commit EXCEPT ![c] = [inode |-> inode, schema |-> schema, todo |-> pages]]
    /\ disturbed' = (disturbed \/ inode # live)

\* ... then the pages are written, one after the other, ...
Write_page(c) ==
    /\ commit[c] # None
    /\ \E p \in commit[c].todo :
          /\ Put(commit[c].inode,
                 [schema |-> IF p = Header THEN commit[c].schema ELSE file[commit[c].inode].schema,
                  page   |-> [file[commit[c].inode].page EXCEPT ![p].by = c]])
          /\ commit' = [commit EXCEPT ![c].todo = @ \ {p}]
    /\ UNCHANGED <<live, staged, journal, pool, guard, req, job, crashes, disturbed, cut>>

\* ... and deleting the journal commits.  (If it is gone, an I/O error: 500.)
Delete_journal(c) ==
    /\ commit[c] # None
    /\ commit[c].todo = {}
    /\ journal' = None
    /\ commit' = [commit EXCEPT ![c] = None]

-----------------------------------------------------------------------------
(* Requests *)

\* state.conn(): under the read lock, a connection of the pool as it is now.
conn(r, from, to) ==
    /\ Up
    /\ req[r].at = from
    /\ guard = None
    /\ req' = [req EXCEPT ![r] = [at |-> to, inode |-> pool]]
    /\ UNCHANGED <<file, live, staged, journal, commit, pool, guard, job, exp, crashes, disturbed, cut>>

\* Statements that leave the file as it is.  Where the schema is not current they
\* may fail (500): without the users table always, else if they need what is missing.
Usable == {"unrecorded", "users", "unique", "current"}

Read(r, from, to) ==
    LET found == Recovered(req[r].inode) IN
    /\ req[r].at = from
    /\ Access(req[r].inode)
    /\ \/ found.schema \in Usable /\ Goto(r, to)
       \/ found.schema # "current" /\ Goto(r, "idle")
    /\ UNCHANGED <<live, staged, commit, pool, guard, job, crashes, cut>>

Write_begin(r) ==
    LET found == Recovered(req[r].inode) IN
    /\ req[r].at = "write"
    /\ found.schema \in Usable
    /\ Sync_journal(r, req[r].inode, found.schema)
    /\ UNCHANGED <<live, staged, pool, guard, req, job, crashes, cut>>

Write_end(r) ==
    /\ Delete_journal(r)
    /\ Goto(r, "idle")
    /\ UNCHANGED <<file, live, staged, pool, guard, job, exp, crashes, disturbed, cut>>

\* The statement waits for a commit longer than busy_timeout: 500.
Request_busy(r) ==
    /\ req[r].at \in {"auth", "read", "write"}
    /\ commit[r] = None
    /\ Committing(req[r].inode) # {}
    /\ Goto(r, "idle")
    /\ UNCHANGED <<file, live, staged, journal, commit, pool, guard, job, exp, crashes, disturbed, cut>>

\* A handler behind validate_auth takes two connections, one after the other.
Request_step(r) ==
    \/ Read(r, "auth", "authorized")
    \/ conn(r, "authorized", "read")
    \/ Read(r, "read", IF r \in Writer THEN "write" ELSE "idle")
    \/ Read(r, "write", "idle")
    \/ Write_begin(r) \/ Write_page(r) \/ Write_end(r)
    \/ Request_busy(r)

-----------------------------------------------------------------------------
(* POST /admin/import, with the archive unpacked and its secrets right *)

\* Mutant: the archive is unpacked over the database itself.
Import_create_in_place(i) ==
    /\ Up
    /\ job[i].at = "new"
    /\ Put(live, Filled("empty", i))
    /\ staged' = live
    /\ job' = [job EXCEPT ![i] = Step("write", live)]
    /\ disturbed' = (disturbed \/ Staging # {})
    /\ UNCHANGED <<live, journal, commit, pool, guard, req, crashes, cut>>

\* fs::write creates or truncates the staged file, ...
Import_create(i) ==
    /\ Up
    /\ job[i].at = "new"
    /\ \/ /\ staged = None
          /\ file' = Append(file, Filled("empty", i))
          /\ UNCHANGED exp
       \/ staged # None /\ Put(staged, Filled("empty", i))
    /\ staged' = IF staged = None THEN Len(file') ELSE staged
    /\ job' = [job EXCEPT ![i] = Step("write", staged')]
    /\ disturbed' = (disturbed \/ Staging # {})
    /\ UNCHANGED <<live, journal, commit, pool, guard, req, crashes, cut>>

\* ... and writes what it has open.
Import_write(i) ==
    /\ job[i].at = "write"
    /\ \E schema \in Archives : Put(job[i].inode, Filled(schema, i))
    /\ JobGoto(i, "establish")
    /\ UNCHANGED <<live, staged, journal, commit, pool, guard, req, crashes, disturbed, cut>>

\* The check for a valid database opens the staged path, creating the file if
\* it is not there, and reads nothing.
Import_establish(i) ==
    /\ job[i].at = "establish"
    /\ IF staged = None
       THEN /\ file' = Append(file, Filled("empty", i))
            /\ staged' = Len(file')
       ELSE UNCHANGED <<file, staged>>
    /\ JobGoto(i, "swap")
    /\ UNCHANGED <<live, journal, commit, pool, guard, req, exp, crashes, disturbed, cut>>

swap_database_lock(i) ==
    /\ job[i].at = "swap"
    /\ guard = None
    /\ guard' = i
    /\ JobGoto(i, "rename")
    /\ UNCHANGED <<file, live, staged, journal, commit, pool, req, exp, crashes, disturbed, cut>>

\* Mutant: a failed rename is not noticed.
swap_database_rename_unchecked(i) ==
    /\ job[i].at = "rename"
    /\ live' = staged
    /\ staged' = None
    /\ JobGoto(i, "init_pool")
    /\ disturbed' = (disturbed \/ journal # None)
    /\ UNCHANGED <<file, journal, commit, pool, guard, req, exp, crashes, cut>>

\* Mutant: the lock covers the rename and not the new pool.
swap_database_rename_unlocks(i) ==
    /\ job[i].at = "rename"
    /\ staged # None
    /\ live' = staged
    /\ staged' = None
    /\ guard' = None
    /\ JobGoto(i, "init_pool")
    /\ disturbed' = (disturbed \/ journal # None)
    /\ UNCHANGED <<file, journal, commit, pool, req, exp, crashes, cut>>

swap_database_rename(i) ==
    /\ job[i].at = "rename"
    /\ staged # None
    /\ live' = staged
    /\ staged' = None
    /\ JobGoto(i, "init_pool")
    /\ disturbed' = (disturbed \/ journal # None)
    /\ UNCHANGED <<file, journal, commit, pool, guard, req, exp, crashes, cut>>

\* Another import has renamed the file first: 500.
swap_database_rename_fails(i) ==
    /\ job[i].at = "rename"
    /\ staged = None
    /\ guard' = None
    /\ JobGoto(i, "failed")
    /\ UNCHANGED <<file, live, staged, journal, commit, pool, req, exp, crashes, disturbed, cut>>

\* Mutant: the lock is held over the migrations as well.
swap_database_init_pool_keeps_lock(i) ==
    /\ job[i].at = "init_pool"
    /\ \/ pool' = live /\ JobGoto(i, "migrate") /\ UNCHANGED guard
       \/ pool' = pool /\ JobGoto(i, "cut_off") /\ guard' = None
    /\ UNCHANGED <<file, live, staged, journal, commit, req, exp, crashes, disturbed, cut>>

\* The new pool opens the path, or cannot (500) and the old pool stays.
swap_database_init_pool(i) ==
    /\ job[i].at = "init_pool"
    /\ \/ pool' = live /\ JobGoto(i, "migrate")
       \/ pool' = pool /\ JobGoto(i, "cut_off")
    /\ guard' = None
    /\ UNCHANGED <<file, live, staged, journal, commit, req, exp, crashes, disturbed, cut>>

-----------------------------------------------------------------------------
(* run_migrations, for an import (200 or 500) and for main (up or gone) *)

Succeeded(m) == Step(IF m = Main THEN "up" ELSE "ok", None)
Failed(m)    == Step(IF m = Main THEN "stuck" ELSE "failed", None)

\* Where add_users_table is left without its record.
Unrecorded(m) == IF job[m].due = "unrecorded" THEN {job[m].inode} ELSE {}

\* One connection for all of it, of the pool that is in place by now.
Migrate_conn(m) ==
    /\ job[m].at = "migrate"
    /\ guard = None
    /\ job' = [job EXCEPT ![m] = Step("list", pool)]
    /\ UNCHANGED <<file, live, staged, journal, commit, pool, guard, req, exp, crashes, disturbed, cut>>

\* diesel makes its table if it is not there, ...
Migrate_set_up(m) ==
    /\ job[m].at = "list"
    /\ Recovered(job[m].inode).schema = "empty"
    /\ Sync_journal(m, job[m].inode, "set_up")
    /\ UNCHANGED <<live, staged, pool, guard, req, job, crashes, cut>>

\* Mutant: an import leaves the migrations to the next start.
Migrate_list_later(m) ==
    LET found == Recovered(job[m].inode) IN
    /\ job[m].at = "list"
    /\ found.schema # "empty"
    /\ Access(job[m].inode)
    /\ job' = [job EXCEPT ![m] =
          CASE found.schema = "garbage" -> Failed(m)
            [] found.schema = "current" \/ m # Main -> Succeeded(m)
            [] found.schema = "unrecorded" -> [@ EXCEPT !.at = "run", !.due = "old"]
            [] OTHER -> [@ EXCEPT !.at = "run", !.due = found.schema]]
    /\ UNCHANGED <<live, staged, commit, pool, guard, req, crashes, cut>>

\* ... lists once what has no record in it, ...
Migrate_list(m) ==
    LET found == Recovered(job[m].inode) IN
    /\ job[m].at = "list"
    /\ found.schema # "empty"
    /\ Access(job[m].inode)
    /\ job' = [job EXCEPT ![m] =
          CASE found.schema = "garbage" -> Failed(m)
            [] found.schema = "current" -> Succeeded(m)
            [] found.schema = "unrecorded" -> [@ EXCEPT !.at = "run", !.due = "old"]
            [] OTHER -> [@ EXCEPT !.at = "run", !.due = found.schema]]
    /\ UNCHANGED <<live, staged, commit, pool, guard, req, crashes, cut>>

\* ... and commits one after the other, ...
Migrate_begin(m) ==
    /\ job[m].at = "run"
    /\ Recovered(job[m].inode).schema = job[m].due
    /\ Sync_journal(m, job[m].inode, After[job[m].due])
    /\ UNCHANGED <<live, staged, pool, guard, req, job, crashes, cut>>

\* ... unless its columns or its record are there already.
Migrate_fails(m) ==
    /\ job[m].at = "run"
    /\ Recovered(job[m].inode).schema # job[m].due
    /\ Access(job[m].inode)
    /\ job' = [job EXCEPT ![m] = Failed(m)]
    /\ cut' = cut \cup Unrecorded(m)
    /\ UNCHANGED <<live, staged, commit, pool, guard, req, crashes>>

\* Mutant: it ends after the migration that runs outside a transaction.
Migrate_commit_early(m) ==
    /\ Delete_journal(m)
    /\ job' = [job EXCEPT ![m] =
          CASE commit[m].schema = "set_up" -> @
            [] commit[m].schema \in {"current", "unrecorded"} -> Succeeded(m)
            [] OTHER -> [@ EXCEPT !.due = commit[m].schema]]
    /\ UNCHANGED <<file, live, staged, pool, guard, req, exp, crashes, disturbed, cut>>

Migrate_commit(m) ==
    /\ Delete_journal(m)
    /\ job' = [job EXCEPT ![m] =
          CASE commit[m].schema = "set_up"  -> @
            [] commit[m].schema = "current" -> Succeeded(m)
            [] OTHER -> [@ EXCEPT !.due = commit[m].schema]]
    /\ UNCHANGED <<file, live, staged, pool, guard, req, exp, crashes, disturbed, cut>>

\* A statement of the migrations waits for a commit longer than busy_timeout.
Migrate_busy(m) ==
    /\ job[m].at \in {"list", "run"}
    /\ commit[m] = None
    /\ Committing(job[m].inode) # {}
    /\ job' = [job EXCEPT ![m] = Failed(m)]
    /\ cut' = cut \cup Unrecorded(m)
    /\ UNCHANGED <<file, live, staged, journal, commit, pool, guard, req, exp, crashes, disturbed>>

run_migrations(m) ==
    \/ Migrate_conn(m) \/ Migrate_set_up(m) \/ Migrate_list(m)
    \/ Migrate_begin(m) \/ Write_page(m) \/ Migrate_commit(m)
    \/ Migrate_fails(m) \/ Migrate_busy(m)

Import_step(i) ==
    \/ Import_write(i) \/ Import_establish(i)
    \/ swap_database_lock(i) \/ swap_database_rename(i) \/ swap_database_rename_fails(i)
    \/ swap_database_init_pool(i)
    \/ run_migrations(i)

-----------------------------------------------------------------------------
(* GET /admin/export: the bytes of the file, past SQLite and its locks *)

Export_open(e) ==
    /\ Up
    /\ exp[e].at = "new"
    /\ exp' = [exp EXCEPT ![e] = [at |-> "read", inode |-> live, copy |-> << >>,
                                  met |-> Committing(live) # {}]]
    /\ UNCHANGED <<file, live, staged, journal, commit, pool, guard, req, job, crashes, disturbed, cut>>

\* The page of those left that comes first in the file.
Front(pages) == IF Header \in pages THEN Header ELSE CHOOSE p \in pages : TRUE

\* Mutant: the path is opened anew for each piece.
Export_read_path(e) ==
    /\ exp[e].at = "read"
    /\ \E p \in Page \ DOMAIN exp[e].copy :
          /\ p = Front(Page \ DOMAIN exp[e].copy)
          /\ LET copy == [q \in DOMAIN exp[e].copy \cup {p} |->
                           IF q = p THEN file[live].page[p] ELSE exp[e].copy[q]] IN
             exp' = [exp EXCEPT ![e].copy = copy, ![e].at = IF DOMAIN copy = Page THEN "done" ELSE "read"]
    /\ UNCHANGED <<file, live, staged, journal, commit, pool, guard, req, job, crashes, disturbed, cut>>

\* read_to_end: piece by piece from the front, of the file it has open.
Export_read(e) ==
    /\ exp[e].at = "read"
    /\ \E p \in Page \ DOMAIN exp[e].copy :
          /\ p = Front(Page \ DOMAIN exp[e].copy)
          /\ LET copy == [q \in DOMAIN exp[e].copy \cup {p} |->
                           IF q = p THEN file[exp[e].inode].page[p] ELSE exp[e].copy[q]] IN
             exp' = [exp EXCEPT ![e].copy = copy, ![e].at = IF DOMAIN copy = Page THEN "done" ELSE "read"]
    /\ UNCHANGED <<file, live, staged, journal, commit, pool, guard, req, job, crashes, disturbed, cut>>

-----------------------------------------------------------------------------
(* The process dies, and main() runs again *)

Crash ==
    /\ crashes < MaxCrashes
    /\ crashes' = crashes + 1
    /\ commit' = [c \in Connection |-> None]
    /\ req' = [r \in Request |-> Idle]
    /\ job' = [m \in Migrator |->
          IF m = Main THEN Step("down", None)
          ELSE IF job[m].at \in {"new", "ok"} THEN job[m] ELSE Failed(m)]
    /\ exp' = [e \in Export |->
          IF exp[e].at = "read" THEN [exp[e] EXCEPT !.at = "failed"] ELSE exp[e]]
    /\ guard' = None
    /\ cut' = cut \cup UNION {Unrecorded(m) : m \in Migrator}
    /\ UNCHANGED <<file, live, staged, journal, pool, disturbed>>

\* A new pool on the path, which init_pool fills before main goes on.
Main_init_pool ==
    /\ job[Main].at \in {"down", "stuck"}
    /\ pool' = live
    /\ JobGoto(Main, "migrate")
    /\ UNCHANGED <<file, live, staged, journal, commit, guard, req, exp, crashes, disturbed, cut>>

Next ==
    \/ \E r \in Request : \/ conn(r, "idle", "auth")
                          \/ conn(r, "idle", "read")
                          \/ Request_step(r)
    \/ \E i \in Import : Import_create(i) \/ Import_step(i)
    \/ \E e \in Export : Export_open(e) \/ Export_read(e)
    \/ Crash
    \/ Main_init_pool
    \/ run_migrations(Main)

\* A handler that has begun goes on: it runs on a thread and waits for nothing
\* but the pool's lock and SQLite's.
Fairness == /\ \A r \in Request : WF_vars(Request_step(r))
            /\ \A i \in Import : WF_vars(Import_step(i))

Spec == Init /\ [][Next]_vars /\ Fairness

-----------------------------------------------------------------------------
(* Properties *)

\* Every variable holds values of its type, and a connection that is committing
\* has the file open that it commits to.
TypeOK ==
    /\ file \in Seq(Content)
    /\ {live, pool} \subseteq Inode
    /\ staged \in Inode \cup {None}
    /\ journal \in Journal \cup {None}
    /\ commit \in [Connection -> Commit \cup {None}]
    /\ \A r \in Request : commit[r] # None => req[r].at = "write" /\ req[r].inode = commit[r].inode
    /\ \A m \in Migrator : commit[m] # None =>
          job[m].at \in {"list", "run"} /\ job[m].inode = commit[m].inode
    /\ guard \in Import \cup {None}
    /\ \A r \in Request :
          /\ req[r].at \in {"idle", "auth", "authorized", "read", "write"}
          /\ req[r].inode \in (IF req[r].at \in {"idle", "authorized"} THEN {None} ELSE Inode)
    /\ \A m \in Migrator :
          /\ job[m].at \in {"migrate", "list", "run"} \cup
                IF m = Main THEN {"up", "down", "stuck"}
                ELSE {"new", "write", "establish", "swap", "rename", "init_pool",
                      "ok", "failed", "cut_off"}
          /\ job[m].inode \in (IF job[m].at \in {"write", "list", "run"} THEN Inode ELSE {None})
          /\ job[m].due \in (IF job[m].at = "run" THEN DOMAIN After ELSE {None})
    /\ \A e \in Export :
          /\ exp[e].at \in {"new", "read", "done", "failed"}
          /\ exp[e].inode \in (IF exp[e].at = "new" THEN {None} ELSE Inode)
          /\ DOMAIN exp[e].copy \subseteq Page
          /\ \A p \in DOMAIN exp[e].copy : exp[e].copy[p] \in Stamp
          /\ exp[e].met \in BOOLEAN
    /\ crashes \in 0 .. MaxCrashes
    /\ disturbed \in BOOLEAN
    /\ cut \subseteq Inode

OfOneOrigin(page) == \A p, q \in Page : page[p].origin = page[q].origin

\* API.md, POST /admin/import: an imported file that is no valid database is
\* answered 400, and "the current database is atomically replaced on success".
\* What a connection finds at DATABASE_URL is always one database and never a
\* mixture of two.
LiveFileIsWhole ==
    /\ Recovered(live).schema \notin {"empty", "garbage"}
    /\ OfOneOrigin(Recovered(live).page)

\* That is so as long as no import meets another, or any commit: the rename and
\* the crash points around it and within commits and migrations do no harm.
ImportsAloneAreWhole == ~disturbed => LiveFileIsWhole

\* Outside the critical section of swap_database the pool is on the file at the
\* path, so a request that starts after an import starts on the import; the one
\* exception is a pool that could not be built.
PoolServesLiveFile ==
    Up /\ guard = None => pool = live \/ \E i \in Import : job[i].at = "cut_off"

\* With every import answered 200 or not yet begun, the live file has the
\* current schema, whichever import's run_migrations met whichever file, and
\* wherever the process died in between.
AnsweredImportsAreUpgraded ==
    ~disturbed /\ Up /\ (\A i \in Import : job[i].at \in {"new", "ok"}) =>
        Recovered(live).schema = "current"

\* Where archives hold what can be migrated, main() comes up on what imports and
\* crashes have left at the path, unless a migration of that very file stopped
\* between its COMMIT and its record, or something of two files has met: the
\* journal of another file may have been rolled into it.
StartsUnlessCutOff == ~disturbed /\ job[Main].at = "stuck" => live \in cut

\* An export that meets no write is the database: every page it has read is what
\* a connection finds in that file, even if the file was renamed over meanwhile.
ExportsAloneAreWhole ==
    \A e \in Export : exp[e].at = "done" /\ ~exp[e].met /\ ~disturbed =>
        exp[e].copy = IF exp[e].inode = live THEN Recovered(live).page ELSE file[exp[e].inode].page

\* What a connection finds at the path changes only by a commit, and by a commit
\* as a whole: never by a half of one, and nothing that was committed goes away,
\* through the commits of others, crashes, recoveries and migrations, until an
\* import puts another file in its place.
CommitsAreAtomic ==
    [][live' = live /\ ~disturbed' =>
          \/ Recovered(live)' = Recovered(live)
          \/ \E c \in Committing(live) :
                /\ commit'[c] = None
                /\ Recovered(live)' =
                     [schema |-> commit[c].schema,
                      page   |-> [p \in Page |->
                         IF p \in DOMAIN journal.page
                         THEN [origin |-> Recovered(live).page[p].origin, by |-> c]
                         ELSE Recovered(live).page[p]]]]_vars

\* Requests and imports all come to an end: nobody waits for the pool's lock or
\* for SQLite's for ever.
AllAreAnswered ==
    /\ \A r \in Request : req[r].at # "idle" ~> req[r].at = "idle"
    /\ \A i \in Import : job[i].at = "write" ~> job[i].at \in {"ok", "failed", "cut_off"}

===============================================================================
