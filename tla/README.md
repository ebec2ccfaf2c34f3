# The password manager server in TLA+

TLA+ specifications of this repository's server and of its admin console,
configurations that model-check them with TLC, and proofs of their main theorems
for TLAPS. Paths are relative to the repository (`src/src/...` is its `src/`).

- [Inventory](#inventory): the parts of the system, and what makes them correct
- [Modules](#modules): which module models which part, and how
- [Runs](#runs): what each run checks, its bounds, and what it showed
- [Fairness](#fairness)
- [Proofs](#proofs)
- [What is not modelled](#what-is-not-modelled)
- [Plan](#plan)

## Inventory

The server is an axum application on a multi-threaded runtime over one SQLite
file in rollback-journal mode (WAL is off on purpose). It keeps nothing in memory
but its configuration and a pool of connections.

| Part | State | Operations | What is hard | What makes it correct |
|---|---|---|---|---|
| Device enrollment: `routes/{greet,signin,refresh,resign,admin,group}.rs`, `domain/{identity,user}.rs` | tables `identities`, `users` | `/greet`, `/sign-up`, `/sign-in`, `/refresh`, `/re-sign`; confirm, unconfirm, approve, delete; block and restore a user | each handler reads, decides, and writes in separate statements without a transaction, so handlers interleave between them | an approval is about one owner and one address; a token names one device; dead tokens and deleted devices stay so; one device per address; a user exists only with a link |
| Sign-up transaction: `routes/signin.rs`, `db/mod.rs` | SQLite's file locks | BEGIN (deferred), SELECT, INSERT, UPDATE, COMMIT | lock upgrades, the busy handler and its exception, deadlock | one name, one user; every request answered |
| Database file: `routes/mod.rs` (`AppState`), `routes/admin.rs` (import, export), `db/mod.rs`, `main.rs`, `migrations/` | the file, the staged file, the journal beside it, the pool and its lock | take a connection, commit, import (stage, check, swap, migrate), export, start (pool, migrations) | a rename under open connections, two imports, a raw read under commits, a migration outside its transaction, crashes between steps | the live file is one database; the pool is on it; its schema is current; what was committed stays; the server starts again |
| Protected calls: `routes/{mod,verify,group,passwords}.rs`, `domain/{group,password}.rs` | tables `groups`, `passwords` | `validate_auth`, `/verify`, `/group/*`, `/pwd/*` | authorisation and action are separate statements, on separate connections | a password keeps its user and is shown to nobody else; whoever is served was approved |
| Admin console: `bin/admin_cli.rs` | lists fetched earlier, page, selection, open questions | keys, and one HTTP request at a time | stale lists, refused and lost requests, optimistic updates | the selection is a row shown; a `y` answers the question on the screen; columns tell the truth |
| Expiry and paging: `routes/passwords.rs`, `domain/password.rs` | the age columns of `passwords` | create, update, `days_remaining`, `is_expired`, `/pwd/list` with `expired`, `take`, `size` | boundaries, a clock read anew for every row, pages of a list that changes | an entry is in its list, with the right days; the pages add up to the list |
| Admin gate: `routes/mod.rs` | none | `check_admin_ip`, `check_admin_key` | masks at prefixes 0 and 32 | exactly the subnet gets in |
| Router, rate limits, timeouts: `routes/mod.rs` | `tower_governor`'s buckets | a quota per tier and address | what `per_second(n)` means | the health check survives its own tier |
| Cryptography: `crypto/` | none | X25519, AES-GCM, SHA-256 | library code | `hash_token` is injective |
| Configuration, errors, schema | none | | | as the other parts use them |
| `bin/test_sender.rs` | none | | a manual script | not modelled |

How they interact: every handler takes connections from the pool, which an import
replaces; the protected calls read the rows that enrollment writes; the console
drives the `/admin` handlers over HTTP; the container's health check is one more client,
under the general rate limit. `PROJECT.json` lists the hazards, each at
its line, with the properties that watch it.

A handler is a synchronous run of statements inside an `async fn`. Once its body is
read it never yields, so the router's 30 s timeout cannot cut it off between two
statements; only the death of the process can.

## Modules

| Module | Models | Composition |
|---|---|---|
| `Enrollment` | the device and user handlers, one action per SQL statement | implements `DeviceRegistry` |
| `DeviceRegistry` | what those handlers promise together: one whole operation per step | used by `Enrollment` (refinement) and `Vault` (as its environment) |
| `EnrollmentProofs` | theorems about `Enrollment` | |
| `SignUpLocking` | the sign-up transaction and other statements on SQLite's locks | implements `AtomicSignUp` |
| `AtomicSignUp` | a sign-up as one step | used by `SignUpLocking` |
| `SignUpLockingProofs` | theorems about `SignUpLocking` | |
| `DatabaseFile` | file, journal, pool, import, export, migrations and start | |
| `DatabaseFileProofs` | theorems about `DatabaseFile` whatever meets what: the types, and the pool | |
| `DatabasePagesProofs` | theorems about its files: pages, schema, start, exports, commits | on `DatabaseFileProofs` |
| `Vault` | `validate_auth`, groups and passwords | steps of `DeviceRegistry` interleave with its own |
| `VaultProofs` | theorems about `Vault` | |
| `Listing` | the age of passwords, and `/pwd/list` page by page | the age and order columns of the rows that `Vault` creates and moves |
| `ListingProofs` | theorems about `Listing` | |
| `Router` | the admin gate, and the rate limit that the health check meets | stands before every handler; no state shared with them |
| `RouterProofs` | theorems about `Router` | |
| `AdminConsole` | the console and the server as it sees it | |
| `AdminConsoleProofs` | theorems about `AdminConsole` | |
| `MC*` | instances for TLC | |

An operator whose comment begins with "Mutant:" is a plausible bug in the
definition that follows it. It is not part of the specification: `PROJECT.json`
pairs it with the property that breaks when it takes that definition's place.

### Enrollment

`identities` and `users` are the tables: a row or `None` for each uuid or name. A
user's name is unique and never changes, so it stands for the uuid too. `req[r]` is
what a request in flight remembers: the tag is the statement it runs next, the other
fields are the locals that statement uses. An action is one statement with the
computation up to the next, so `Greet_find_by_ip` is the handler up to its query and
`Greet_create` its `INSERT`. The sign-up transaction is one action; `SignUpLocking`
shows that it may be. An input is picked by the action that first looks at it, which
leaves out requests that are refused before they touch a row.

`UPDATE`s name the columns they set, as `UpdateIdentity` does with `Some`. So
`Refresh_update` writes the token on the row *as it is now*, whatever was read, and
`Resign_update` the address and the flag. A statement on a row that was deleted finds
nothing and is `Fail`, a 500. The unique index on `ip_address` is a guard.

`greeted`, `minted` and `approved` are history: the uuids used, what each token was
issued for, and the owner and address a device had when it was last confirmed. No
guard reads `approved`; the other two say which uuids and tokens are fresh, which the
code leaves to random 128-bit values. `Crash` forgets the requests and keeps the tables.

`DeviceRegistry` has `Register`, `SignUp`, `SignIn`, `Rotate`, `Move`, `Trust`,
`Remove`, `Block`, each a whole operation. `RefinesRegistry` reads the registry off the
tables (`EntryOf`) and says that each statement is one operation or none. The registry
asks only what the code guarantees: `Rotate` and `Move` are for *an* owner with an
account, not for the one whose proof the request carried. That one is
`TokenServesVerifiedUser`, and it fails.

### SignUpLocking

Each pooled connection has a lock (none, SHARED, RESERVED, PENDING; EXCLUSIVE is taken
and released in the step that writes) and a place in its request. Statements outside a
transaction are a write (RESERVED, then COMMIT) or a read (SHARED). A statement that
cannot have its first lock sleeps in the busy handler, and the sleep ends in a retry or
after `busy_timeout` in a 500. `SignUp_create` is the exception: with SHARED in hand
and RESERVED taken, SQLite answers BUSY without a sleep. SQLite's rules are external
and are modelled from its documented locking protocol, in the mode and with the pragmas
that `db/mod.rs` sets.

### DatabaseFile

`file` maps inodes to contents: a schema and, for each page, whose file it is from and whose
commit changed it last. The schema is told by one page, the `Header`. `live` and `staged` are the
inodes at `DATABASE_URL` and `DATABASE_URL.importing`; `journal` is the one rollback journal, which
SQLite finds *by name* next to the database. A request takes a connection for `validate_auth`
and another for its work, each on the pool of that moment.

A commit, a request's or a migration's, is three kinds of steps: sync the journal, write pages one by
one, delete the journal. `commit[c]` is what a connection in the middle of one has still to write.
The header is in every journal, because every commit changes SQLite's change counter there; so a journal
that is rolled back into another file than its own brings its schema along. `Recovered` is what a
connection finds in a file: the file, with the journal of that name rolled back if nobody is committing.

An import is `fs::write` in two steps (truncate, fill), the check that opens the file, the write lock,
the rename, the new pool, and the migrations on whatever pool is in place when they start.
`run_migrations` is used twice, by an import and by `main()`, so both are members of `job` and share its
steps: take a connection, make diesel's table in a file that has none, list what has no record, and
commit one migration after the other. `After` names what each commit makes of the schema. Migration
`20260621000001` turns foreign keys off and on and so runs outside diesel's transaction, with a COMMIT
of its own; diesel records it by another commit. A file between the two is `unrecorded`, and there the
migration can only fail, because its columns exist. `due` is the migration of the list that comes next: if
the file is not as it was when the list was made, because another has migrated it meanwhile, it fails.

`Crash` may come at any point: it forgets the requests, the lock, the commits and the jobs and leaves
the files and the journal. `Main_init_pool` starts the next process on the path, and requests are served
only when `main()` is `up`; a migration that fails there leaves it `stuck`, until somebody starts it again.

An export opens the path once and reads the file from the front, piece by piece, with no lock of
SQLite's. `met` is history: that file was written to since, or was in the middle of a commit.

Other history: `cut`, the inodes on which `20260621000001` stopped before its record; and `disturbed`,
that something of two files has met: a connection to a file that was renamed over has found or made a
journal, a rename has left one beside the new file, or two imports were at the staged file at once. They
separate what is promised of every import or start from what holds of one that meets no other and no
commit on the file it replaces.

### Vault

`call[c]` is a protected request: its statements, on two connections, outside any
transaction. The devices it authenticates against are the variables of `DeviceRegistry`,
whose steps interleave with the statements of the calls. That is sound because
`Enrollment` is proved to implement `DeviceRegistry`. `approvals` is history: which user
each confirm of an administrator approved on which device at which address, as the row stood at its
`UPDATE` (`Set_confirm`). The registry's other operations (`Operate`) leave it as it is, so a device
that stayed trusted when it was moved or claimed would be one that nobody approved. Contents, names
and expiry are left out.

### Listing

`rows` is the table `passwords` as far as age and order go; a rowid stands for the
password, and `find_by_groups` returns the rows as the index on `group_id` yields them.
`/pwd/list` reads its rows in one statement and then works lazily: each row is filtered by
one reading of the clock (`List_filter`), and an entry that is kept gets its `expires` from
another (`List_map`), so the clock may go on or be set back between any two. What is still to be
filtered is a set of rows (`rest`), and the next one is the `First` of it in the order of the index
(`Before`). `walk` is the handler's place in the list and a client (external: no client is in the repository) that asks
for page after page until one is empty. `seen`, `stayed`, `came` and `left` are history, and
say how the list changed under the walk.

### Router

`check_admin_ip` is total over every form of `ADMIN_ALLOWED_SUBNET` (well-formed, without a
slash, with a part that does not parse, with a prefix too large) and every address. A word is the
set of its bits that are 1, so `&` is `\cap` and a shift moves the bits and drops those that leave
the word, with the code's case for a prefix of 0; the width is a constant. `check_admin_key` is a Boolean, as
what it compares is hashed. The limiter is `tower_governor` as `moderate_config` sets it up:
`per_second(10)` replenishes one request every ten seconds, up to a burst of 20.
`bucket` is what its GCRA keeps for the address of the health check, as the seconds until
the bucket is full; `retain_recent` is the thread that drops full buckets.

### AdminConsole

A key is one step. If it needs requests, each is sent (`call`), answered by the server
(`Served`), lost with or without effect (`Answer_lost`, `Not_served`: connection errors,
the client's 15 s timeout, 429), and followed by what the code does next, which may be
another request. The server is the rows the console can show or change: devices (`rows`) and users
(`accounts`). Others enroll, move and confirm devices and sign up users; an import puts the tables of
an archive in their place, with other devices and fewer users. `stale` is history: the devices
that changed behind the console's back since the server last answered its listing. The drawing code
works on copies of the table states (`admin_cli.rs:652`, `:729`), so nothing but the handlers of keys
and answers keeps a selection in its list, which is what `SelectionIsShown` is about. The `unwrap` on
the body of an export (`:121`) can end the program, which is then started anew: `Relaunch`.

## Runs

| Run | Configuration | Question | Bounds | Answer |
|---|---|---|---|---|
| `enrollment` | `MCEnrollment.cfg` | do the tables stay consistent under interleaved requests and crashes, and are the handlers whole operations? | 2 devices, addresses, users, tokens; 2 requests in flight | yes; 173 thousand states |
| `refresh_race` | `MCEnrollmentRefreshRace.cfg` | is a token's user the device's owner? | 1 device | **no**: see below |
| `signup_locking` | `MCSignUpLocking.cfg` | is a sign-up atomic, and is every request answered? | 3 connections, 2 names | yes |
| `signup_busy` | `MCSignUpLockingBusy.cfg` | does a sign-up wait for a lock? | 2 connections | **no** |
| `import` | `MCDatabaseFile.cfg` | which file is live, on which is the pool, whose migrations ran, does the server start again, and does what was committed stay? | 1 writing request, 2 imports, 2 pages, 2 crashes, archives of the old and the current schema | as it should be, for an import that meets no other and no journal, and a start on a file that no migration was cut off on; 1.86 million states |
| `export` | `MCDatabaseFileExport.cfg` | is an export whole, and do requests and imports end while one waits for another's commit? | 1 writing request, 1 import of a schema with one migration to go, 1 export, 2 pages, 1 crash | yes, for an export that meets no write; 198 thousand states |
| `import_hot_journal` | `MCDatabaseFileHotJournal.cfg` | is the live file whole when an import meets a commit? | 2 requests of which 1 writes, 1 import, no crash | **no** |
| `import_garbage` | `MCDatabaseFileGarbage.cfg` | is a file that is no database refused? | 1 request, 1 import, no crash | **no** |
| `vault` | `MCVault.cfg` | do passwords stay with their users? | 1 device, 2 addresses, users, tokens, calls, groups; 1 password | yes; 334 thousand states |
| `listing` | `MCListing.cfg` | is every entry right, and do the pages add up to the list? | 2 passwords, 2 groups, days of 2 ticks, a clock of 4, 2 surprises | yes; 1.7 million states |
| `router` | `MCRouter.cfg` | who gets past the gate, and is the container ever unhealthy for the limiter's sake? | words of 2 bits; the code's own rate, burst, interval and retries | as it should be; 929 thousand states |
| `admin_console` | `MCAdminConsole.cfg` | are selection, questions and columns right? | 3 devices at first and 4 at most, 2 users at first and 3 at most, an archive of 2 devices and 1 user, 2 rows a page, 1 surprise | yes; 1.05 million states |

Why the bounds are enough. The hazards of `Enrollment` are between two requests and
about at most two devices: two suffice for every pair of handlers to interleave at every
point. Two tokens are a device's old one and the one a request in flight is about to write;
slots are reused, so a history is not limited to two requests. The theorems below hold for any
number of each. Three connections are the fewest with a reader, a committer and a third
that needs a lock. Two pages are the fewest that can be mixed. One device in `Vault` is
claimed by both users in turn, which is where sessions go stale; two calls are a reader
and a writer. The symmetries in the configurations permute only sets of model values.
None of those runs has a liveness property.

In `DatabaseFile` requests and imports wait for each other's commits: one request and one import that
has a migration to make meet at every step of either, which is what `export` is for, and its export may
open the file before, in and after any of those steps. `import` has two imports, because one may
migrate, or fail on, the file of the other, and two crashes, because the first may fall into the
migrations of a start that the second repeats. Its archives are of the old schema, three
migrations and a record behind, and of the current one. `QuietOnceDisturbed` cuts off what follows in `import`
once something was `disturbed` and a request is at work or a crash has come, before it or after: `disturbed` stays, and all of
the run's properties but `TypeOK` and `PoolServesLiveFile` promise nothing once it holds; those two are proved
for every instance without the cut.

In `Listing`, days of two ticks tell a boundary from the tick before it, two passwords make two pages of
one, and one page of two, and defaults and limits are those of the code scaled to the same order (clients
ask for values below and above them, or leave them out). Words of two bits have prefixes 0, 1 and 2 and the ill-formed 3.

`MaxCrashes` bounds the deaths of the process (`DatabaseFile`), `MaxDevice`, `MaxUser` and `MaxPassword`
the rows ever made (`AdminConsole`, `Listing`), `MaxNow` the clock (`Listing`), `MaxSurprises`
the number of times something happens that the console is not told of (`AdminConsole`), or that
the clock is set back or a password updated (`Listing`). Lost requests without effect and
refusals are not bounded. One surprise with any number of keys before and after it covers the
failures that the console handles: after a surprise, only that device's row may differ until the
next listing. An import of an archive counts as one: the server then has fewer devices
and users than are shown. A sign-up makes them more. `PAGE_SIZE` is 10 in the code and 2 here, so
that lists of three and four have a short last page and a full one.

A run stops when every slot is used up or every token minted only where the specification
still lets something happen (crashes, refusals, keys); deadlock is checked in all of them.

### What the runs found

- **A refresh that was overtaken** (`refresh_race`). `refresh_handler` verifies the token
  and the ehlo against the owner, and then updates the row by uuid. If a sign-up or
  sign-in from the same address relinks the device in between, the UPDATE overwrites the
  new owner's token: the former owner's client holds the only live token of a device that
  is now another user's. The device is unconfirmed at that moment (`ApprovalCoversBinding`
  holds), so the token is of use only after an administrator approves the new owner.
  `docs/ARCHITECTURE.md` says the proof is "verified against the user".
- **A sign-up that does not wait** (`signup_busy`). The transaction is deferred, so
  its INSERT must raise SHARED to RESERVED, where SQLite does not call the busy handler.
  `docs/TODO.md` says `busy_timeout` put an end to 500s under concurrent writes.
- **An import under a commit** (`import_hot_journal`). The rename leaves the journal of a
  commit on the old file next to the new one, where nobody holds a lock: the next
  connection takes it for its own and rolls old pages back into the imported database, the header
  page with the schema among them. The commit may as well be a migration's, of an import that is overtaken by
  another, or one that a crash cut off; `disturbed` marks all of these.
  `docs/API.md` says the replacement is atomic, and `docs/TODO.md` expects such a request
  merely to finish on the old file.
- **An import of garbage** (`import_garbage`). The check opens the file and reads nothing.
  `docs/API.md` promises a 400.

Met while modelling, and described rather than run:

- Two imports share `DATABASE_URL.importing`: one truncates and writes the file that the other
  has just made live. `disturbed` keeps such imports out of `ImportsAloneAreWhole`.
- The other way round, a connection that still has the old file open finds the journal of a commit on
  the new one, takes it for its own, rolls it back into the old file and deletes it; if the process then
  dies, that commit is left half written. `disturbed` marks this too.
- An export that meets a commit can hold pages from before and after it; `ExportsAloneAreWhole`
  compares page by page with what a connection finds in the file, and is of exports that meet none. `docs/TODO.md:63` says
  that the raw read works because WAL is off; without WAL there are still the writes of a commit.
- A death between the COMMIT of migration `20260621000001` and its record leaves a file on which
  every later start fails; that is the one exception in `StartsUnlessCutOff` besides a journal of
  another file. Such a migration that fails inside its own transaction also leaves that open, with
  foreign keys off, on a pooled connection.
- `docs/API.md:474` dates expiry from `created_at`; the code uses `valid_since`, which an update
  sets anew. `docs/API.md:453-454` has `take` and `size` in a JSON body; the code reads the query.
- The documents say "10 req/s" and the like for `per_second(10)`, which is one request in ten
  seconds, and call `/health` unlimited (`docs/API.md:833`, `docs/ARCHITECTURE.md:97`), while the
  router puts it in the general tier. The health check asks five times as often as that lets
  it, is refused most of the time, and is saved by its fifteen retries: `StaysHealthy`.

## Fairness

`SignUpLocking` has weak fairness of each connection's next step once a request has
begun, and `DatabaseFile` of each request's and each import's. A handler that has begun
runs on a thread that waits for nothing but SQLite's locks, with `busy_timeout` bounding
each wait, and the pool's lock. New requests, new imports and crashes need not come.
Fairness of `busy_timeout` is not assumed apart from the rest: a connection has a fair
next step, whichever of retrying, going on or giving up it is. The liveness properties
are that every request and every import ends. Exports and starts have no fairness: nothing waits
for an export, and nobody is obliged to start the process again. The other
modules state safety only and assume no fairness: a request may stop at any point, which is also
how a statement that fails with a 500 is modelled there.

## Proofs

The theorems hold for every value of the constants, from assumptions that each module names and
that TLC evaluates on the runs:

- `Enrollment`: `NoneIsNoValue` (SQL NULL is no value), `EntriesAreEntries` (neither marker of the
  registry is an entry). `SignUpLocking`: `NoneIsNoName`. `Vault`: `NoneIsNoUuid`, and
  `GroupsAreNoPasswords`, which only keeps the two kinds of things shown apart.
- `DatabaseFile`: writers are requests, archives hold schemas, the header is a page, `main()` is no
  import, requests do not migrate, `None` is none of the things it stands beside, and the bound on
  crashes is a number.
- `Listing`: `None` is no row and no number, groups can be ordered, clients ask for numbers, and a day,
  the limits and the defaults are positive and fit each other as the constants of the code do.
- `Router`: numbers are positive, the marks for what did not parse are neither numbers nor words, and
  `Patient`: the health check's interval times its retries is at least the time in which the
  limiter lets one request through (every 2 s, 15 times, against 10 s in the code's files).
- `AdminConsole`: a page has rows, the bounds are numbers, devices begin and are
  archived with owners who are users, the archive has no more devices than there are, and `None` is neither a number nor a row or an answer.

Each inductive invariant was checked with TLC on the instances of the runs before it was proved.

**Enrollment.** `IInv` is the type invariant with `ApprovalCoversBinding`,
`LinkedDevicesAreWhole`, `OneDevicePerAddress`, `TokenNamesItsDevice`, `RequestsAreBacked`
and `NoUserWithoutToken`. They need one another: a refresh keeps a device's
token and owner together only because the device it found had an owner
(`RequestsAreBacked`), and a token is fresh only because every stored one was minted
(`TokenNamesItsDevice`). Rather than prove each conjunct for each of some twenty actions,
the proof first describes what a step can do to the tables (`Effect`: nothing, an insert,
a change of one row, a delete, a change of a user), shows that every action has such an
effect, and proves each conjunct from the effect. `DeadTokens` and `DeletedDevices` are
action properties from the same effects, and `ImplementsRegistry` maps each effect to one
operation of `DeviceRegistry` or to a stutter.

**SignUpLocking.** `IInv` adds to `TypeOK` and `CheckedNameStaysFree` SQLite's rule that
one connection at most writes (`OneWriter`), and that a connection holds the lock its step calls for (`LocksFitSteps`) and has a name exactly
while it signs up (`NamesFitSteps`). The argument for `CheckedNameStaysFree` is the one
that matters: to commit, a connection needs everybody else off SHARED, and a sign-up that
has checked its name holds SHARED or more until it is over. `SignUpIsOneStep` maps the
COMMIT, the 409 and each 500 to the one step of `AtomicSignUp`.

**Vault.** No statement of a call is in a transaction with the one before it, so the
invariant says what each call knows from its reads (`Fits`): the session was approved, the group
is the session's user's, the password is in a group of theirs. That stays true until the call
acts on it because of what no step undoes (`Lasting`): accounts and approvals stay, a group keeps
its user, and a stored password stays in some group of the same user. Before that, what a call finds
in a trusted row was approved because of `TrustIsApproved`: the owner and the address of a trusted
device are those that a confirm approved. That has to be shown of every operation of the
registry, and is where one that moved or claimed a device and kept its trust would fail. Each action is shown to
be `Lasting` from what its own call knows, and to leave its call with locals that fit; the
others' fit because the step is `Lasting`. The steps of `DeviceRegistry` get in only by what
they do to owners, accounts and approvals.

**DatabaseFile.** `IInv` is the types and `Exclusive`, and holds whatever meets what. `PoolServesLiveFile`
needs the exclusion by the pool's lock: who is between the rename and the new pool holds it, and
before the server is up nobody else is at work.

**The files.** `Pages` says that as long as nothing of two files has met (`~disturbed`), `Alone` holds. Its
core, `Held`, is about commits. Nobody but one import has the staged file open, and finds there what it
wrote; one connection at a time commits, and to the live file (`CommitsAreLive`, `OneCommits`); once the
server is up a journal is that of a commit going on (`JournalIsHeld`; before, it may be one that a crash
left); and half of a commit is what the journal says it was, where pages are still to be written, and what
the commit makes of it, where they are (`CommitFits`). So `Recovered` does not change while pages are
written, changes by the whole commit when the journal is deleted, and does not change in a crash: that is
`CommitsAreAtomic`, for migrations as for requests, and each action is shown to leave what a connection
finds, to commit, or to replace the file (`Moves`). The rest is read off it:

- `ExportsAreRead`: what an export has read is what a connection finds in its file, as long as it has
  met no write.
- `UpgradesPend`, for `AnsweredImportsAreUpgraded`, which is not inductive: migrations run outside the
  lock, on whatever pool is there, so an import may upgrade another's file and be overtaken by a third. While
  the live file is not up to date some import is `Pending`: it has still to look at the pool, is
  migrating that very file, or has failed.
- `CutsAreKnown`, for `StartsUnlessCutOff`: an unrecorded migration is being recorded right now, or
  its file is in `cut`.
- `LiveFileIsWhole`.

The last two have a hypothesis each on what archives hold. `ImportsKeepTheFileWhole` is for `Databases`:
`import_garbage` shows what garbage does, and an empty file is no database either. `StartsAgain` is for
`Migratable`: garbage keeps `main()` from starting, and so does an export made between a migration and
its record. The other theorems have none.

**Listing.** A page is where it is in the list because of how many rows come before it, so the
invariant counts. A row that stayed and is not seen yet has at least as many entries before it as
the next page skips (`StayedAreToCome`), a row that was seen has fewer (`SeenAreSkipped`), and in the
middle of a page the same holds against the rows still waiting and what is still to be skipped.
`PagesAreComplete` needs that nothing left, which would pull rows to the front, and
`PagesAreDistinct` that nothing came. `EntriesHold` is the arithmetic of boundaries: the day an entry is
told is right for the clock at which it was written, and its side of the filter for the clock at
which it was filtered, for any length of a day and any period.

**Router.** `GateHolds` is about words of any width: the mask has exactly the upper `prefix`
bits, so two addresses agree under it when they agree on those. `HealthHolds` rests on an invariant
that a bucket past its burst has been draining since the last check that was let through, so that
after as many refusals in a row as `Patient` allows the next one has to pass.

**AdminConsole.** `IInv` has three parts besides the types: `Cursor` (the page and the selection are
in the list, whose length changes under them), `Questions` (which question is open on which tab),
and `Knowledge` (what the answers carry, what a decision under way is about, and what a column
says). `ColumnsHold` is the long one: a key may send several requests, each of which may be
lost with or without effect, and the optimistic update must be taken back or be right.
The server lists rows in order of insertion, which in TLA+ is the increasing bijection from
`1 .. n` to the rows there are. That there is one is proved without induction over numbers: inclusion
of finite sets is well-founded (`FS_StrictSubsetOrderingWellFounded`, `WFMin`), and a least
counterexample among the subsets is absurd (`Least`, `OrderExists`).

| Theorem | States |
|---|---|
| `TypeCorrect` | `Enrollment`'s type invariant |
| `InvariantHolds` | `IInv` of `Enrollment` |
| `ApprovalIsForThisBinding`, `LinksAreWhole`, `AddressesAreUnambiguous`, `TokensAreUnambiguous`, `SignUpIsWhole`, `ReadsStayGood` | its safety invariants |
| `DeadTokens`, `DeletedDevices` | its action properties |
| `ImplementsRegistry` | `Enrollment` implements `DeviceRegistry` |
| `SignUpLockingProofs!TypeCorrect`, `LockingInvariant`, `NameStaysFree` | `SignUpLocking`'s invariants |
| `SignUpIsOneStep` | `SignUpLocking` implements `AtomicSignUp` |
| `VaultProofs!TypeCorrect`, `ReferencesAreGood`, `OwnersAreShownTheirs`, `ServedAreApproved`, `PasswordsStay` | `Vault`'s type invariant, its safety invariants and its action property |
| `DatabaseFileProofs!TypeCorrect`, `PoolIsOnTheLiveFile` | `DatabaseFile`'s type invariant, and the invariant on its pool |
| `DatabasePagesProofs!ImportsKeepTheFileWhole`, `ImportsUpgrade`, `StartsAgain`, `ExportsAreTheDatabase`, `CommitsAreWhole` | its invariants on the file's pages, schema, start and export, and its action property |
| `ListingProofs!TypeCorrect`, `EntriesHold`, `PagesAreComplete`, `PagesAreDistinct` | all of `Listing`'s properties |
| `RouterProofs!TypeCorrect`, `GateHolds`, `HealthHolds` | all of `Router`'s properties |
| `AdminConsoleProofs!TypeCorrect`, `SelectionHolds`, `QuestionsHold`, `ColumnsHold`, `DecisionsHold` | all of `AdminConsole`'s invariants |

The inductive invariant of each is a theorem of its own: `InvariantHolds`, or `LockingInvariant` in
`SignUpLockingProofs` and `PagesHold` in `DatabasePagesProofs`.

Model-checked and not proved: the liveness properties, which need fairness and `ENABLED`, for which
the prover has no rules. Every invariant and every action property of a passing run is proved.

## What is not modelled

- Cryptography: payloads open or they do not. Randomness: uuids and tokens are fresh.
- Contents of passwords, groups and `extra` fields; lengths and validation of text.
- Timestamps other than `valid_since`. Timeouts are nondeterministic. The router's 30 s
  timeout cuts no handler off, see the inventory.
- The client's side of tokens: what it does with a lost answer is in no source file here. The
  server's side of it is `DeadTokensStayDead`.
- The rate limits of the other tiers (the same library code with other numbers), CORS, and the
  body limit of 1 MiB.
- The one-shot subcommands of the console: one request and a print each. `bin/test_sender.rs`.
- What migrations do to the rows of old versions; packing and unpacking an archive.
- In `AdminConsole`: drawing, which changes nothing; the busy flag, which a key can never find set; and
  the messages.
- In `Vault`: the database file. That a call may authenticate on one file and act on
  another is in `DatabaseFile`, without the tables.
- In `DatabaseFile`: state of a connection of the pool, such as the transaction that a migration
  leaves open when it fails halfway.

## Plan

Done, in this order: `Enrollment` with `DeviceRegistry` and its proofs; `SignUpLocking`
with `AtomicSignUp` and its proofs; `DatabaseFile`; `Vault`; `AdminConsole`; the export, the
migrations and the start in `DatabaseFile`; `Listing`; `Router`; the proofs of `Vault` and of
`DatabaseFile`; of `AdminConsole`, `Router`, `Listing`, and of the pages of `DatabaseFile`.

Next:

1. `Enrollment`: that a refresh whose device was not relinked meanwhile serves the user it
   verified, which is what is left of `TokenServesVerifiedUser`.
2. `DatabaseFile`: pooled connections with a state of their own, for the transaction that a failed
   migration leaves open.
