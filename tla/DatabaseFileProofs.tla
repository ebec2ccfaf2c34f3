--------------------------- MODULE DatabaseFileProofs ---------------------------
(* What holds of DatabaseFile for any requests, imports, exports, pages and    *)
(* crashes, whether or not an import met another: types, and the pool.         *)
EXTENDS DatabaseFile, SequenceTheorems, TLAPS

-----------------------------------------------------------------------------
(* Types, with the shape of each function spelt out *)

RequestStep == {"idle", "auth", "authorized", "read", "write"}

MainStep   == {"migrate", "list", "run", "up", "down", "stuck"}
ImportStep == {"new", "write", "establish", "swap", "rename", "init_pool",
               "migrate", "list", "run", "ok", "failed", "cut_off"}

Job == [at : MainStep \cup ImportStep, inode : Nat \cup {None}, due : DOMAIN After \cup {None}]

FileTypes ==
    /\ file \in Seq(Content)
    /\ live \in Inode /\ pool \in Inode
    /\ staged \in Inode \cup {None}
    /\ journal \in Journal \cup {None}
    /\ guard \in Import \cup {None}
    /\ crashes \in 0 .. MaxCrashes
    /\ disturbed \in BOOLEAN
    /\ cut \subseteq Inode

RequestTypes ==
    /\ req \in [Request -> [at : RequestStep, inode : Nat \cup {None}]]
    /\ \A r \in Request :
          req[r].inode \in (IF req[r].at \in {"idle", "authorized"} THEN {None} ELSE Inode)

JobTypes ==
    /\ job \in [Migrator -> Job]
    /\ \A m \in Migrator :
          /\ job[m].at \in (IF m = Main THEN MainStep ELSE ImportStep)
          /\ job[m].inode \in (IF job[m].at \in {"write", "list", "run"} THEN Inode ELSE {None})
          /\ job[m].due \in (IF job[m].at = "run" THEN DOMAIN After ELSE {None})

\* What a migrator commits: diesel's table while it lists, else its migration.
Brings(m) == IF job[m].at = "list" THEN "set_up" ELSE After[job[m].due]

\* A connection that commits has the file open that it commits to.
CommitTypes ==
    /\ commit \in [Connection -> Commit \cup {None}]
    /\ \A r \in Request : commit[r] # None => req[r].at = "write" /\ req[r].inode = commit[r].inode
    /\ \A m \in Migrator : commit[m] # None =>
          /\ job[m].at \in {"list", "run"} /\ job[m].inode = commit[m].inode
          /\ commit[m].schema = Brings(m)

\* What an export has read so far.
Copy == UNION {[D -> Stamp] : D \in SUBSET Page}

ExportTypes ==
    /\ exp \in [Export -> [at : {"new", "read", "done", "failed"}, inode : Nat \cup {None},
                           copy : Copy, met : BOOLEAN]]
    /\ \A e \in Export : exp[e].inode \in (IF exp[e].at = "new" THEN {None} ELSE Inode)

Types == FileTypes /\ RequestTypes /\ JobTypes /\ CommitTypes /\ ExportTypes

(* The pool's lock.  Between the rename and the new pool the two differ, and   *)
(* only one import can be there; what is done before the server is up, it does *)
(* alone.                                                                      *)
Exclusive ==
    /\ \A i \in Import : job[i].at \in {"rename", "init_pool"} <=> guard = i
    /\ ~Up => /\ \A i \in Import : job[i].at \in {"new", "ok", "failed"}
              /\ \A r \in Request : req[r].at = "idle"
    /\ (/\ job[Main].at \notin {"down", "stuck"}
        /\ guard = None \/ \E i \in Import : job[i].at = "rename")
       => pool = live \/ \E i \in Import : job[i].at = "cut_off"
    /\ job[Main].at \in {"list", "run"} => job[Main].inode = live

IInv == Types /\ Exclusive

-----------------------------------------------------------------------------
(* Files, journals and commits *)

LEMMA MigratorsDiffer ==
    /\ Main \in Migrator /\ Import \subseteq Migrator /\ Migrator = Import \cup {Main}
    /\ \A i \in Import : i # Main
    /\ Request \subseteq Connection /\ Migrator \subseteq Connection
    /\ Connection = Request \cup Migrator
    /\ \A r \in Request : r \notin Migrator
  BY MainIsNoImport, RequestsDoNotMigrate DEF Migrator, Connection

LEMMA NoneIsNone ==
    /\ None \notin Import /\ None \notin Nat /\ None \notin DOMAIN After /\ None \notin Schema
    /\ None \notin Journal /\ None \notin Commit
  BY NoneIsNew DEF Connection, Migrator, Schema

LEMMA FilledIsContent ==
    ASSUME NEW schema \in Schema, NEW i \in {"first"} \cup Import
    PROVE  Filled(schema, i) \in Content /\ Filled(schema, i).schema = schema
  BY DEF Filled, Content, Stamp

\* What a journal holds.
LEMMA JournalHolds ==
    ASSUME NEW j \in Journal
    PROVE  /\ j.schema \in Schema
           /\ Header \in DOMAIN j.page /\ DOMAIN j.page \subseteq Page
           /\ \A p \in DOMAIN j.page : j.page[p] \in Stamp
  <1>1. PICK D \in SUBSET Page : Header \in D /\ j \in [schema : Schema, page : [D -> Stamp]]
    BY DEF Journal
  <1> QED BY <1>1

LEMMA RecoveredIs ==
    ASSUME Types, NEW n \in Inode
    PROVE  file[n] \in Content /\ Recovered(n) \in Content
  <1>1. file[n] \in Content
    BY DEF Types, FileTypes, Inode
  <1>2. CASE journal = None
    BY <1>1, <1>2 DEF Recovered
  <1>3. CASE journal # None
    <2>1. /\ journal.schema \in Schema
          /\ \A p \in DOMAIN journal.page : journal.page[p] \in Stamp
      BY <1>3, JournalHolds DEF Types, FileTypes
    <2> QED BY <1>1, <1>3, <2>1 DEF Recovered, Content
  <1> QED BY <1>1, <1>2, <1>3

LEMMA PutEffect ==
    ASSUME Types, NEW n \in Inode, NEW content \in Content, Put(n, content)
    PROVE  /\ file' \in Seq(Content) /\ Len(file') = Len(file) /\ Inode' = Inode
           /\ file'[n] = content
           /\ \A k \in Inode : k # n => file'[k] = file[k]
           /\ ExportTypes'
  <1>1. file' = [file EXCEPT ![n] = content] /\ file \in Seq(Content)
    BY DEF Put, Types, FileTypes
  <1>2. /\ file' \in Seq(Content) /\ Len(file') = Len(file)
        /\ \A k \in Inode : file'[k] = IF k = n THEN content ELSE file[k]
    BY <1>1, ExceptSeq DEF Inode
  <1>3. ExportTypes'
    BY <1>2 DEF Put, Types, ExportTypes, Inode
  <1> QED BY <1>2, <1>3 DEF Inode

LEMMA AppendEffect ==
    ASSUME Types, NEW content \in Content, file' = Append(file, content), UNCHANGED exp
    PROVE  /\ file' \in Seq(Content) /\ Len(file') = Len(file) + 1
           /\ Inode \subseteq Inode' /\ Len(file') \in Inode' /\ Inode' = Inode \cup {Len(file')}
           /\ file'[Len(file')] = content
           /\ \A k \in Inode : file'[k] = file[k]
           /\ Len(file) \in Nat
           /\ ExportTypes'
  <1>1. /\ file' \in Seq(Content) /\ Len(file') = Len(file) + 1 /\ Len(file) \in Nat
        /\ \A k \in 1 .. Len(file) : file'[k] = file[k]
        /\ file'[Len(file')] = content
    BY AppendProperties, LenProperties DEF Types, FileTypes
  <1>2. Inode \subseteq Inode' /\ Len(file') \in Inode' /\ Inode' = Inode \cup {Len(file')}
    BY <1>1 DEF Inode
  <1>3. ExportTypes'
    BY <1>2 DEF Types, ExportTypes
  <1> QED BY <1>1, <1>2, <1>3 DEF Inode

\* A statement begins.
LEMMA AccessEffect ==
    ASSUME Types, NEW n \in Inode, Access(n)
    PROVE  /\ file' \in Seq(Content) /\ Inode' = Inode /\ journal' = None
           /\ disturbed' \in BOOLEAN /\ ExportTypes'
  BY RecoveredIs, PutEffect DEF Access, Types, FileTypes

\* A connection syncs its journal.
LEMMA SyncEffect ==
    ASSUME Types, NEW n \in Inode, NEW c \in Connection, NEW schema \in Schema,
           Sync_journal(c, n, schema)
    PROVE  /\ file' \in Seq(Content) /\ Inode' = Inode /\ journal' \in Journal
           /\ disturbed' \in BOOLEAN /\ ExportTypes'
           /\ commit' \in [Connection -> Commit \cup {None}]
           /\ commit'[c].inode = n /\ commit'[c].schema = schema
           /\ \A d \in Connection : d # c => commit'[d] = commit[d]
  <1>1. Recovered(n) \in Content
    BY RecoveredIs
  <1>2. file' \in Seq(Content) /\ Inode' = Inode /\ ExportTypes'
    BY <1>1, PutEffect DEF Sync_journal
  <1>3. PICK pages \in SUBSET Page :
           /\ Header \in pages
           /\ journal' = [schema |-> Recovered(n).schema,
                          page   |-> [p \in pages |-> Recovered(n).page[p]]]
           /\ commit' = [commit EXCEPT ![c] = [inode |-> n, schema |-> schema, todo |-> pages]]
    BY DEF Sync_journal
  <1>4. journal' \in [schema : Schema, page : [pages -> Stamp]]
    BY <1>1, <1>3 DEF Content
  <1>5. journal' \in Journal
    BY <1>3, <1>4 DEF Journal
  <1>6. n \in Nat
    BY DEF Inode
  <1>7. [inode |-> n, schema |-> schema, todo |-> pages] \in Commit
    BY <1>6 DEF Commit
  <1> QED BY <1>2, <1>3, <1>5, <1>7 DEF Sync_journal, Types, FileTypes, CommitTypes

\* Whoever moves on without committing leaves the commits of others well-typed.
LEMMA CommitsStay ==
    ASSUME Types, UNCHANGED commit,
           \A r \in Request : commit[r] # None => req'[r] = req[r],
           \A m \in Migrator : commit[m] # None => job'[m] = job[m]
    PROVE  CommitTypes'
  BY DEF Types, CommitTypes, Brings

\* A commit that writes a page, or ends.
LEMMA DeleteEffect ==
    ASSUME Types, NEW c \in Connection, Delete_journal(c)
    PROVE  /\ journal' = None /\ commit' \in [Connection -> Commit \cup {None}]
           /\ commit'[c] = None
           /\ \A d \in Connection : d # c => commit'[d] = commit[d]
           /\ commit[c] \in Commit /\ commit[c].inode \in Inode
  <1>1. commit[c] \in Commit
    BY DEF Delete_journal, Types, CommitTypes
  <1>2. commit[c].inode \in Inode
    <2>1. CASE c \in Request
      BY <2>1 DEF Delete_journal, Types, CommitTypes, RequestTypes
    <2>2. CASE c \in Migrator
      BY <2>2 DEF Delete_journal, Types, CommitTypes, JobTypes
    <2> QED BY <2>1, <2>2, MigratorsDiffer
  <1> QED BY <1>1, <1>2 DEF Delete_journal, Types, CommitTypes

LEMMA PageKeeps ==
    ASSUME IInv, NEW c \in Connection, Write_page(c)
    PROVE  /\ IInv' /\ commit[c] \in Commit /\ commit[c].inode \in Inode
           /\ \E p \in commit[c].todo : p \in Page
  <1> DEFINE n == commit[c].inode
  <1>1. commit[c] \in Commit /\ commit[c] # None
    BY DEF Write_page, IInv, Types, CommitTypes
  <1>2. n \in Inode
    <2>1. CASE c \in Request
      BY <1>1, <2>1 DEF IInv, Types, CommitTypes, RequestTypes
    <2>2. CASE c \in Migrator
      BY <1>1, <2>2 DEF IInv, Types, CommitTypes, JobTypes
    <2> QED BY <2>1, <2>2, MigratorsDiffer
  <1>3. PICK p \in commit[c].todo :
           /\ Put(n, [schema |-> IF p = Header THEN commit[c].schema ELSE file[n].schema,
                      page   |-> [file[n].page EXCEPT ![p].by = c]])
           /\ commit' = [commit EXCEPT ![c].todo = @ \ {p}]
    BY DEF Write_page
  <1>4. UNCHANGED <<live, staged, journal, pool, guard, req, job, crashes, disturbed, cut>>
    BY DEF Write_page
  <1>5. p \in Page /\ commit[c].schema \in Schema
    BY <1>1 DEF Commit
  <1> DEFINE new == [schema |-> IF p = Header THEN commit[c].schema ELSE file[n].schema,
                     page   |-> [file[n].page EXCEPT ![p].by = c]]
  <1>6. new \in Content
    <2>1. file[n].schema \in Schema /\ file[n].page \in [Page -> Stamp]
      BY <1>2, RecoveredIs DEF IInv, Content
    <2>2. PICK old \in [Page -> Stamp] : old = file[n].page
      BY <2>1
    <2>3. [old EXCEPT ![p].by = c] \in [Page -> Stamp]
      BY <1>5 DEF Stamp
    <2> QED BY <1>5, <2>1, <2>2, <2>3 DEF Content
  <1>7. Put(n, new)
    BY <1>3
  <1> HIDE DEF new
  <1>8. file' \in Seq(Content) /\ Inode' = Inode /\ ExportTypes'
    BY <1>2, <1>6, <1>7, PutEffect DEF IInv
  <1>9. /\ commit' \in [Connection -> Commit \cup {None}]
        /\ commit'[c] # None => /\ commit'[c].inode = commit[c].inode
                                /\ commit'[c].schema = commit[c].schema
        /\ \A d \in Connection : d # c => commit'[d] = commit[d]
    <2>1. PICK old \in Commit : old = commit[c]
      BY <1>1
    <2>2. /\ [old EXCEPT !.todo = @ \ {p}] \in Commit
          /\ [old EXCEPT !.todo = @ \ {p}].inode = old.inode
          /\ [old EXCEPT !.todo = @ \ {p}].schema = old.schema
      BY DEF Commit
    <2>3. commit' = [commit EXCEPT ![c] = [old EXCEPT !.todo = @ \ {p}]]
      BY <1>3, <2>1
    <2> QED BY <2>1, <2>2, <2>3 DEF IInv, Types, CommitTypes
  <1>10. CommitTypes'
    BY <1>1, <1>4, <1>9, MigratorsDiffer DEF IInv, Types, CommitTypes, Brings
  <1>11. Types'
    BY <1>4, <1>8, <1>10 DEF IInv, Types, FileTypes, RequestTypes, JobTypes
  <1>12. Exclusive'
    BY <1>4 DEF IInv, Exclusive, Up
  <1> QED BY <1>1, <1>2, <1>5, <1>11, <1>12 DEF IInv

-----------------------------------------------------------------------------
(* Requests *)

LEMMA GotoEffect ==
    ASSUME Types, NEW r \in Request, NEW step \in RequestStep, Goto(r, step), Inode' = Inode,
           step \in {"idle", "authorized"} \/ req[r].at \notin {"idle", "authorized"}
    PROVE  RequestTypes' /\ \A s \in Request : s # r => req'[s] = req[s]
  BY DEF Goto, Released, RequestStep, Types, RequestTypes

\* A step of a request, with the server up: no job moves.
LEMMA RequestExclusive ==
    ASSUME Exclusive, Up, UNCHANGED <<live, pool, guard, job>>
    PROVE  Exclusive'
  BY DEF Exclusive, Up

\* A request that holds a connection runs on a server that is up.
LEMMA RequestsNeedServer ==
    ASSUME IInv, NEW r \in Request, req[r].at # "idle"
    PROVE  Up
  BY DEF IInv, Exclusive

LEMMA ConnKeeps ==
    ASSUME IInv, NEW r \in Request, NEW from \in RequestStep \ {"write"}, NEW to \in {"auth", "read"},
           conn(r, from, to)
    PROVE  IInv'
  <1>1. /\ Up /\ req[r].at = from /\ req' = [req EXCEPT ![r] = [at |-> to, inode |-> pool]]
        /\ UNCHANGED <<file, live, staged, journal, commit, pool, guard, job, exp, crashes, disturbed, cut>>
    BY DEF conn
  <1>2. Inode' = Inode
    BY <1>1 DEF Inode
  <1>3. pool \in Inode /\ pool \in Nat
    BY DEF IInv, Types, FileTypes, Inode
  <1>4. RequestTypes'
    BY <1>1, <1>2, <1>3 DEF IInv, Types, RequestTypes, RequestStep
  <1>5. commit[r] = None
    BY <1>1 DEF IInv, Types, CommitTypes
  <1>6. CommitTypes'
    BY <1>1, <1>5, CommitsStay DEF IInv, Types, RequestTypes, CommitTypes
  <1>7. Types'
    BY <1>1, <1>2, <1>4, <1>6 DEF IInv, Types, FileTypes, JobTypes, ExportTypes
  <1> QED BY <1>1, <1>7, RequestExclusive DEF IInv

LEMMA ReadKeeps ==
    ASSUME IInv, NEW r \in Request, NEW from \in {"auth", "read", "write"},
           NEW to \in {"authorized", "write", "idle"}, Read(r, from, to)
    PROVE  IInv' /\ req[r].inode \in Inode
  <1>1. /\ req[r].at = from /\ Access(req[r].inode)
        /\ Goto(r, to) \/ Goto(r, "idle")
        /\ UNCHANGED <<live, staged, commit, pool, guard, job, crashes, cut>>
    BY DEF Read
  <1>2. req[r].inode \in Inode /\ Up
    BY <1>1, RequestsNeedServer DEF IInv, Types, RequestTypes
  <1>3. /\ file' \in Seq(Content) /\ Inode' = Inode /\ journal' = None
        /\ disturbed' \in BOOLEAN /\ ExportTypes'
    BY <1>1, <1>2, AccessEffect DEF IInv
  <1>4. RequestTypes' /\ \A s \in Request : s # r => req'[s] = req[s]
    BY <1>1, <1>3, GotoEffect DEF IInv, RequestStep
  <1>5. commit[r] = None
    <2>1. r \notin Committing(req[r].inode) /\ r \in Connection
      BY <1>1, MigratorsDiffer DEF Access
    <2> QED BY <2>1 DEF Committing, IInv, Types, CommitTypes
  <1>6. CommitTypes'
    BY <1>1, <1>4, <1>5, CommitsStay DEF IInv, Types, CommitTypes
  <1>7. Types'
    BY <1>1, <1>3, <1>4, <1>6 DEF IInv, Types, FileTypes, JobTypes
  <1> QED BY <1>1, <1>2, <1>7, RequestExclusive DEF IInv

LEMMA WriteBeginKeeps ==
    ASSUME IInv, NEW r \in Request, Write_begin(r)
    PROVE  IInv' /\ req[r].inode \in Inode
  <1> DEFINE n == req[r].inode
  <1>1. /\ req[r].at = "write" /\ Sync_journal(r, n, Recovered(n).schema)
        /\ UNCHANGED <<live, staged, pool, guard, req, job, crashes, cut>>
    BY DEF Write_begin
  <1>2. n \in Inode /\ Up
    BY <1>1, RequestsNeedServer DEF IInv, Types, RequestTypes
  <1>3. Recovered(n).schema \in Schema
    BY <1>2, RecoveredIs DEF IInv, Content
  <1>4. /\ file' \in Seq(Content) /\ Inode' = Inode /\ journal' \in Journal
        /\ disturbed' \in BOOLEAN /\ ExportTypes'
        /\ commit' \in [Connection -> Commit \cup {None}]
        /\ commit'[r].inode = n
        /\ \A d \in Connection : d # r => commit'[d] = commit[d]
    <2>1. r \in Connection /\ Types
      BY MigratorsDiffer DEF IInv
    <2> QED BY <1>1, <1>2, <1>3, <2>1, SyncEffect
  <1>5. CommitTypes'
    BY <1>1, <1>4, MigratorsDiffer DEF IInv, Types, CommitTypes, Brings
  <1>6. Types'
    BY <1>1, <1>4, <1>5 DEF IInv, Types, FileTypes, RequestTypes, JobTypes
  <1> QED BY <1>1, <1>2, <1>6, RequestExclusive DEF IInv

LEMMA WriteEndKeeps ==
    ASSUME IInv, NEW r \in Request, Write_end(r)
    PROVE  IInv'
  <1>1. /\ Delete_journal(r) /\ Goto(r, "idle")
        /\ UNCHANGED <<file, live, staged, pool, guard, job, exp, crashes, disturbed, cut>>
    BY DEF Write_end
  <1>2. /\ journal' = None /\ commit' \in [Connection -> Commit \cup {None}]
        /\ commit'[r] = None
        /\ \A d \in Connection : d # r => commit'[d] = commit[d]
    BY <1>1, DeleteEffect, MigratorsDiffer DEF IInv
  <1>3. req[r].at = "write" /\ req[r].at # "idle"
    BY <1>1 DEF Delete_journal, IInv, Types, CommitTypes
  <1>7. Up /\ Inode' = Inode
    BY <1>1, <1>3, RequestsNeedServer DEF Inode
  <1>4. RequestTypes' /\ \A s \in Request : s # r => req'[s] = req[s]
    BY <1>1, <1>7, GotoEffect DEF IInv, RequestStep
  <1>5. CommitTypes'
    BY <1>1, <1>2, <1>4, MigratorsDiffer DEF IInv, Types, CommitTypes, Brings
  <1>6. Types'
    BY <1>1, <1>2, <1>7, <1>4, <1>5 DEF IInv, Types, FileTypes, JobTypes, ExportTypes
  <1> QED BY <1>1, <1>7, <1>6, RequestExclusive DEF IInv

LEMMA RequestBusyKeeps ==
    ASSUME IInv, NEW r \in Request, Request_busy(r)
    PROVE  IInv'
  <1>1. /\ req[r].at \in {"auth", "read", "write"} /\ commit[r] = None /\ Goto(r, "idle")
        /\ UNCHANGED <<file, live, staged, journal, commit, pool, guard, job, exp, crashes, disturbed, cut>>
    BY DEF Request_busy
  <1>2. Up /\ Inode' = Inode
    BY <1>1, RequestsNeedServer DEF Inode
  <1>3. RequestTypes' /\ \A s \in Request : s # r => req'[s] = req[s]
    BY <1>1, <1>2, GotoEffect DEF IInv, RequestStep
  <1>4. CommitTypes'
    BY <1>1, <1>3, CommitsStay DEF IInv, Types, CommitTypes
  <1>5. Types'
    BY <1>1, <1>2, <1>3, <1>4 DEF IInv, Types, FileTypes, JobTypes, ExportTypes
  <1> QED BY <1>1, <1>2, <1>5, RequestExclusive DEF IInv

-----------------------------------------------------------------------------
(* Exports *)

LEMMA ExportKeeps ==
    ASSUME IInv, NEW e \in Export, Export_open(e) \/ Export_read(e)
    PROVE  IInv'
  <1>1. UNCHANGED <<file, live, staged, journal, commit, pool, guard, req, job, crashes, disturbed, cut>>
    BY DEF Export_open, Export_read
  <1>2. Inode' = Inode
    BY <1>1 DEF Inode
  <1>3. ASSUME Export_open(e)
        PROVE  ExportTypes'
    <2>1. << >> \in [{} -> Stamp]
      OBVIOUS
    <2>2. << >> \in Copy
      BY <2>1 DEF Copy
    <2>3. live \in Nat /\ live \in Inode
      BY DEF IInv, Types, FileTypes, Inode
    <2> QED BY <1>2, <1>3, <2>2, <2>3 DEF Export_open, IInv, Types, ExportTypes
  <1>4. ASSUME Export_read(e)
        PROVE  ExportTypes'
    <2>1. PICK p \in Page \ DOMAIN exp[e].copy :
             LET copy == [q \in DOMAIN exp[e].copy \cup {p} |->
                            IF q = p THEN file[exp[e].inode].page[p] ELSE exp[e].copy[q]] IN
             exp' = [exp EXCEPT ![e].copy = copy, ![e].at = IF DOMAIN copy = Page THEN "done" ELSE "read"]
      BY <1>4 DEF Export_read
    <2>2. exp[e].at = "read" /\ exp[e].inode \in Inode
      BY <1>4 DEF Export_read, IInv, Types, ExportTypes
    <2>3. PICK D \in SUBSET Page : exp[e].copy \in [D -> Stamp]
      <3>1. exp[e].copy \in Copy
        BY DEF IInv, Types, ExportTypes
      <3> QED BY <3>1 DEF Copy
    <2>4. file[exp[e].inode].page[p] \in Stamp
      BY <2>1, <2>2, RecoveredIs DEF IInv, Content
    <2> DEFINE copy == [q \in DOMAIN exp[e].copy \cup {p} |->
                          IF q = p THEN file[exp[e].inode].page[p] ELSE exp[e].copy[q]]
    <2>5. copy \in [D \cup {p} -> Stamp]
      BY <2>3, <2>4
    <2>6. copy \in Copy
      BY <2>1, <2>3, <2>5 DEF Copy
    <2>7. exp' = [exp EXCEPT ![e].copy = copy, ![e].at = IF DOMAIN copy = Page THEN "done" ELSE "read"]
      BY <2>1
    <2> HIDE DEF copy
    <2> QED BY <1>2, <2>2, <2>6, <2>7 DEF IInv, Types, ExportTypes
  <1>5. ExportTypes'
    BY <1>3, <1>4
  <1>6. Types'
    BY <1>1, <1>2, <1>5 DEF IInv, Types, FileTypes, RequestTypes, JobTypes, CommitTypes, Brings
  <1>7. Exclusive'
    BY <1>1 DEF IInv, Exclusive, Up
  <1> QED BY <1>6, <1>7 DEF IInv

-----------------------------------------------------------------------------
(* Imports *)

\* A job goes on to another step.
LEMMA JobEffect ==
    ASSUME Types, NEW m \in Migrator, NEW new \in Job, job' = [job EXCEPT ![m] = new],
           Inode \subseteq Inode',
           new.at \in (IF m = Main THEN MainStep ELSE ImportStep),
           new.inode \in (IF new.at \in {"write", "list", "run"} THEN Inode' ELSE {None}),
           new.due \in (IF new.at = "run" THEN DOMAIN After ELSE {None})
    PROVE  /\ JobTypes' /\ job'[m] = new
           /\ \A k \in Migrator : k # m => job'[k] = job[k]
  BY DEF Types, JobTypes

\* A step without an open file.
LEMMA StepEffect ==
    ASSUME Types, NEW m \in Migrator, NEW step, job' = [job EXCEPT ![m] = Step(step, None)],
           Inode \subseteq Inode',
           step \in (IF m = Main THEN MainStep ELSE ImportStep) \ {"write", "list", "run"}
    PROVE  /\ JobTypes' /\ job'[m] = Step(step, None) /\ job'[m].at = step
           /\ \A k \in Migrator : k # m => job'[k] = job[k]
  <1>1. /\ Step(step, None) \in Job /\ Step(step, None).at = step
        /\ Step(step, None).inode = None /\ Step(step, None).due = None
    BY DEF Step, Job
  <1> QED BY <1>1, JobEffect

\* An import at work runs on a server that is up.
LEMMA ImportsNeedServer ==
    ASSUME IInv, NEW i \in Import, job[i].at \notin {"new", "ok", "failed"}
    PROVE  Up
  BY DEF IInv, Exclusive

\* Files come and grow, and the types of what refers to them stay.
LEMMA OthersGrow ==
    ASSUME Types, Inode \subseteq Inode', UNCHANGED req
    PROVE  RequestTypes'
  BY DEF Types, RequestTypes

\* An import before its migrations moves on: nothing was being committed by it.
LEMMA ImportCommits ==
    ASSUME Types, NEW i \in Import, UNCHANGED <<req, commit>>,
           job[i].at \notin {"list", "run"},
           \A k \in Migrator : k # i => job'[k] = job[k]
    PROVE  CommitTypes'
  BY CommitsStay, MigratorsDiffer DEF Types, CommitTypes

\* What an import does to the staged file.
LEMMA StagingExclusive ==
    ASSUME IInv, NEW i \in Import, Up,
           job[i].at \in {"new", "write", "establish"},
           job'[i].at \in {"write", "establish", "swap"},
           \A k \in Migrator : k # i => job'[k] = job[k],
           UNCHANGED <<live, pool, guard, req>>
    PROVE  Exclusive'
  <1>1. job'[Main] = job[Main] /\ \A k \in Import : k # i => job'[k] = job[k]
    BY MigratorsDiffer
  <1> QED BY <1>1 DEF IInv, Exclusive, Up

LEMMA CreateKeeps ==
    ASSUME IInv, NEW i \in Import, Import_create(i)
    PROVE  /\ IInv' /\ Up /\ job[i].at = "new"
           /\ job'[i].at = "write" /\ job'[i].inode = staged'
           /\ \A k \in Migrator : k # i => job'[k] = job[k]
  <1> DEFINE blank == Filled("empty", i)
  <1>1. blank \in Content
    BY FilledIsContent DEF Schema, After
  <1>2. /\ Up /\ job[i].at = "new"
        /\ job' = [job EXCEPT ![i] = Step("write", staged')]
        /\ UNCHANGED <<live, journal, commit, pool, guard, req, crashes, cut>>
        /\ disturbed' \in BOOLEAN
    BY DEF Import_create, IInv, Types, FileTypes
  <1>3. /\ file' \in Seq(Content) /\ Inode \subseteq Inode' /\ ExportTypes'
        /\ staged' \in Inode' /\ staged' \in Nat
    <2>1. CASE staged = None
      <3>1. file' = Append(file, blank) /\ UNCHANGED exp /\ staged' = Len(file')
        BY <2>1 DEF Import_create
      <3> HIDE DEF blank
      <3>2. /\ file' \in Seq(Content) /\ Len(file') = Len(file) + 1 /\ Len(file) \in Nat
            /\ Inode' = Inode \cup {Len(file')} /\ ExportTypes'
        BY <1>1, <3>1, AppendEffect DEF IInv
      <3>3. Len(file') \in Nat
        BY <3>2
      <3> QED BY <3>1, <3>2, <3>3
    <2>2. CASE staged # None
      <3>1. Put(staged, blank) /\ staged' = staged /\ staged \in Inode
        BY <2>2 DEF Import_create, IInv, Types, FileTypes
      <3> HIDE DEF blank
      <3> QED BY <1>1, <3>1, PutEffect DEF IInv, Inode
    <2> QED BY <2>1, <2>2
  <1>4. /\ Step("write", staged') \in Job /\ Step("write", staged').at = "write"
        /\ Step("write", staged').inode = staged' /\ Step("write", staged').due = None
    BY <1>3 DEF Step, Job, ImportStep
  <1>5. /\ JobTypes' /\ job'[i] = Step("write", staged')
        /\ \A k \in Migrator : k # i => job'[k] = job[k]
    <2>1. i \in Migrator /\ i # Main /\ Types /\ "write" \in ImportStep
      BY MigratorsDiffer DEF IInv, ImportStep
    <2> DEFINE new == Step("write", staged')
    <2>2. /\ new \in Job /\ new.at = "write" /\ new.inode = staged' /\ new.due = None
          /\ job' = [job EXCEPT ![i] = new]
      BY <1>2, <1>4
    <2> HIDE DEF new
    <2>3. JobTypes' /\ job'[i] = new /\ \A k \in Migrator : k # i => job'[k] = job[k]
      BY <1>3, <2>1, <2>2, JobEffect
    <2> QED BY <2>3 DEF new
  <1>6. CommitTypes'
    BY <1>2, <1>5, ImportCommits DEF IInv
  <1>7. Types'
    BY <1>2, <1>3, <1>5, <1>6, OthersGrow DEF IInv, Types, FileTypes
  <1> QED BY <1>2, <1>4, <1>5, <1>7, StagingExclusive DEF IInv

LEMMA WriteKeeps ==
    ASSUME IInv, NEW i \in Import, Import_write(i)
    PROVE  /\ IInv' /\ Up /\ job[i].at = "write" /\ job[i].inode \in Inode
           /\ job'[i].at = "establish"
           /\ \A k \in Migrator : k # i => job'[k] = job[k]
  <1>1. PICK schema \in Archives : Put(job[i].inode, Filled(schema, i))
    BY DEF Import_write
  <1>2. /\ job[i].at = "write"
        /\ job' = [job EXCEPT ![i] = Step("establish", None)]
        /\ UNCHANGED <<live, staged, journal, commit, pool, guard, req, crashes, disturbed, cut>>
    BY DEF Import_write, JobGoto
  <1>3. job[i].inode \in Inode /\ Up
    BY <1>2, ImportsNeedServer, MigratorsDiffer DEF IInv, Types, JobTypes
  <1>4. Filled(schema, i) \in Content
    BY FilledIsContent, ArchivesAreSchemas
  <1>5. file' \in Seq(Content) /\ Inode' = Inode /\ ExportTypes'
    BY <1>1, <1>3, <1>4, PutEffect DEF IInv
  <1>6. /\ JobTypes' /\ job'[i].at = "establish"
        /\ \A k \in Migrator : k # i => job'[k] = job[k]
    BY <1>2, <1>5, MigratorsDiffer, StepEffect DEF IInv, ImportStep
  <1>7. CommitTypes'
    BY <1>2, <1>6, ImportCommits DEF IInv
  <1>8. Types'
    BY <1>2, <1>5, <1>6, <1>7, OthersGrow DEF IInv, Types, FileTypes
  <1> QED BY <1>2, <1>3, <1>6, <1>8, StagingExclusive DEF IInv

LEMMA EstablishKeeps ==
    ASSUME IInv, NEW i \in Import, Import_establish(i)
    PROVE  /\ IInv' /\ Up /\ job[i].at = "establish" /\ job'[i].at = "swap"
           /\ \A k \in Migrator : k # i => job'[k] = job[k]
  <1> DEFINE blank == Filled("empty", i)
  <1>1. blank \in Content
    BY FilledIsContent DEF Schema, After
  <1>2. /\ job[i].at = "establish"
        /\ job' = [job EXCEPT ![i] = Step("swap", None)]
        /\ UNCHANGED <<live, journal, commit, pool, guard, req, exp, crashes, disturbed, cut>>
        /\ IF staged = None THEN file' = Append(file, blank) /\ staged' = Len(file')
                            ELSE UNCHANGED <<file, staged>>
    BY DEF Import_establish, JobGoto
  <1> HIDE DEF blank
  <1>3. /\ file' \in Seq(Content) /\ Inode \subseteq Inode' /\ ExportTypes'
        /\ staged' \in Inode'
    <2>1. CASE staged = None
      BY <1>1, <1>2, <2>1, AppendEffect DEF IInv
    <2>2. CASE staged # None
      BY <1>2, <2>2 DEF IInv, Types, FileTypes, ExportTypes, Inode
    <2> QED BY <2>1, <2>2
  <1>4. /\ JobTypes' /\ job'[i].at = "swap"
        /\ \A k \in Migrator : k # i => job'[k] = job[k]
    BY <1>2, <1>3, MigratorsDiffer, StepEffect DEF IInv, ImportStep
  <1>5. CommitTypes'
    BY <1>2, <1>4, ImportCommits DEF IInv
  <1>6. Types'
    BY <1>2, <1>3, <1>4, <1>5, OthersGrow DEF IInv, Types, FileTypes
  <1>7. Up
    BY <1>2, ImportsNeedServer
  <1> QED BY <1>2, <1>4, <1>6, <1>7, StagingExclusive DEF IInv

\* The steps under the lock.
LEMMA SwapKeeps ==
    ASSUME IInv, NEW i \in Import,
           \/ swap_database_lock(i) \/ swap_database_rename(i)
           \/ swap_database_rename_fails(i) \/ swap_database_init_pool(i)
    PROVE  /\ IInv' /\ Up /\ Up'
           /\ job[i].at \in {"swap", "rename", "init_pool"}
           /\ job'[i].at \in {"rename", "failed", "init_pool", "migrate", "cut_off"}
           /\ swap_database_rename(i) => job'[i].at = "init_pool"
           /\ \A k \in Migrator : k # i => job'[k] = job[k]
  <1>1. /\ job[i].at \in {"swap", "rename", "init_pool"}
        /\ UNCHANGED <<file, journal, commit, req, exp, crashes, cut>>
        /\ live' \in {live, staged} /\ pool' \in {pool, live}
        /\ guard' \in {guard, i, None} /\ disturbed' \in BOOLEAN
        /\ live' = staged => staged # None \/ live' = live
        /\ staged' \in {staged, None}
    BY DEF swap_database_lock, swap_database_rename, swap_database_rename_fails,
           swap_database_init_pool, IInv, Types, FileTypes
  <1>2. \E s \in {"rename", "failed", "init_pool", "migrate", "cut_off"} :
           job' = [job EXCEPT ![i] = Step(s, None)]
    BY DEF swap_database_lock, swap_database_rename, swap_database_rename_fails,
           swap_database_init_pool, JobGoto
  <1>3. Up /\ Inode' = Inode
    BY <1>1, ImportsNeedServer DEF Inode
  <1>4. /\ JobTypes' /\ job'[i].at \in {"rename", "failed", "init_pool", "migrate", "cut_off"}
        /\ \A k \in Migrator : k # i => job'[k] = job[k]
    BY <1>2, <1>3, MigratorsDiffer, StepEffect DEF IInv, ImportStep
  <1>5. /\ job'[Main] = job[Main] /\ \A k \in Import : k # i => job'[k] = job[k]
        /\ i \in Migrator /\ job \in [Migrator -> Job]
    BY <1>4, MigratorsDiffer DEF IInv, Types, JobTypes
  <1>6. CommitTypes'
    BY <1>1, <1>4, ImportCommits DEF IInv
  <1>7. Types'
    BY <1>1, <1>3, <1>4, <1>6, OthersGrow DEF IInv, Types, FileTypes, ExportTypes
  <1>8. swap_database_rename(i) => job'[i].at = "init_pool"
    BY <1>5 DEF swap_database_rename, JobGoto, Step
  <1>9. Exclusive'
    <2>1. CASE swap_database_lock(i)
      <3>1. guard = None /\ guard' = i /\ job'[i].at = "rename" /\ UNCHANGED <<live, pool, req>>
        BY <1>5, <2>1 DEF swap_database_lock, JobGoto, Step
      <3> QED BY <1>3, <1>5, <3>1, NoneIsNone, <2>1 DEF IInv, Exclusive, Up, swap_database_lock
    <2>2. CASE swap_database_rename(i)
      <3>1. job[i].at = "rename" /\ guard' = guard /\ UNCHANGED <<pool, req>>
        BY <2>2 DEF swap_database_rename
      <3> QED BY <1>3, <1>5, <1>8, <2>2, <3>1, NoneIsNone DEF IInv, Exclusive, Up
    <2>3. CASE swap_database_rename_fails(i)
      <3>1. job[i].at = "rename" /\ guard' = None /\ job'[i].at = "failed" /\ UNCHANGED <<live, pool, req>>
        BY <1>5, <2>3 DEF swap_database_rename_fails, JobGoto, Step
      <3> QED BY <1>3, <1>5, <3>1, NoneIsNone DEF IInv, Exclusive, Up
    <2>4. CASE swap_database_init_pool(i)
      <3>1. /\ job[i].at = "init_pool" /\ guard' = None /\ UNCHANGED <<live, req>>
            /\ (pool' = live /\ job'[i].at = "migrate") \/ job'[i].at = "cut_off"
        BY <1>5, <2>4 DEF swap_database_init_pool, JobGoto, Step
      <3> QED BY <1>3, <1>5, <3>1, NoneIsNone DEF IInv, Exclusive, Up
    <2> QED BY <2>1, <2>2, <2>3, <2>4
  <1>10. Up'
    BY <1>3, <1>5 DEF Up
  <1> QED BY <1>1, <1>3, <1>4, <1>7, <1>8, <1>9, <1>10 DEF IInv

-----------------------------------------------------------------------------
(* The migrations *)

\* With main() at its migrations there is nobody else, and the pool is on the path.
LEMMA MainIsAlone ==
    ASSUME IInv, ~Up
    PROVE  /\ \A c \in Connection : commit[c] # None => c = Main
           /\ \A i \in Import : job[i].at \in {"new", "ok", "failed"}
           /\ \A r \in Request : req[r].at = "idle"
           /\ job[Main].at \in {"migrate", "list", "run"} => pool = live
  <1>1. /\ \A i \in Import : job[i].at \in {"new", "ok", "failed"}
        /\ \A r \in Request : req[r].at = "idle"
    BY DEF IInv, Exclusive
  <1>2. guard = None
    BY <1>1 DEF IInv, Exclusive, Types, FileTypes
  <1>3. \A c \in Connection : commit[c] # None => c = Main
    BY <1>1, MigratorsDiffer DEF IInv, Types, CommitTypes
  <1> QED BY <1>1, <1>2, <1>3 DEF IInv, Exclusive

\* Where a step of the migrations can lead.
Outcome(m, new) ==
    \/ new = Succeeded(m)
    \/ new = Failed(m)
    \/ /\ new.at \in {"list", "run"} /\ new \in Job
       /\ new.inode = IF job[m].at = "migrate" THEN pool ELSE job[m].inode
       /\ new.due \in (IF new.at = "run" THEN DOMAIN After ELSE {None})

\* The step of a migration, of an import or of main(), that commits nothing more.
LEMMA OutcomeKeeps ==
    ASSUME IInv, NEW m \in Migrator, job[m].at \in {"migrate", "list", "run"},
           NEW new, Outcome(m, new), job' = [job EXCEPT ![m] = new],
           Inode' = Inode, UNCHANGED <<live, pool, guard, req>>,
           commit' \in [Connection -> Commit \cup {None}],
           \A c \in Connection : commit'[c] # None => commit'[c] = commit[c],
           commit'[m] = None
    PROVE  /\ JobTypes' /\ CommitTypes' /\ Exclusive' /\ RequestTypes'
           /\ job'[m] = new /\ \A k \in Migrator : k # m => job'[k] = job[k]
  <1>1. /\ new \in Job
        /\ new.at \in (IF m = Main THEN {"list", "run", "up", "stuck"} ELSE {"list", "run", "ok", "failed"})
        /\ new.inode \in (IF new.at \in {"list", "run"} THEN Inode ELSE {None})
        /\ new.due \in (IF new.at = "run" THEN DOMAIN After ELSE {None})
    <2>1. CASE new = Succeeded(m) \/ new = Failed(m)
      BY <2>1 DEF Succeeded, Failed, Step, Job, MainStep, ImportStep
    <2>2. CASE new.at \in {"list", "run"} /\ new \in Job
      <3>1. /\ new.inode = IF job[m].at = "migrate" THEN pool ELSE job[m].inode
            /\ new.due \in (IF new.at = "run" THEN DOMAIN After ELSE {None})
        BY <2>2 DEF Outcome, Succeeded, Failed, Step
      <3>2. new.inode \in Inode
        BY <3>1 DEF IInv, Types, FileTypes, JobTypes
      <3> QED BY <2>2, <3>1, <3>2
    <2> QED BY <2>1, <2>2 DEF Outcome
  <1>2. JobTypes' /\ job'[m] = new /\ \A k \in Migrator : k # m => job'[k] = job[k]
    <2>1. /\ new.at \in (IF m = Main THEN MainStep ELSE ImportStep)
          /\ new.inode \in (IF new.at \in {"write", "list", "run"} THEN Inode' ELSE {None})
      BY <1>1 DEF MainStep, ImportStep
    <2> QED BY <1>1, <2>1, JobEffect DEF IInv
  <1>3. CommitTypes'
    <2>1. ASSUME NEW k \in Migrator, commit'[k] # None
          PROVE  /\ job'[k].at \in {"list", "run"} /\ job'[k].inode = commit'[k].inode
                 /\ commit'[k].schema = Brings(k)'
      <3>1. k # m /\ commit'[k] = commit[k] /\ commit[k] # None
        BY <2>1, MigratorsDiffer
      <3> QED BY <1>2, <3>1 DEF IInv, Types, CommitTypes, Brings
    <2>2. \A r \in Request : commit'[r] # None => req'[r].at = "write" /\ req'[r].inode = commit'[r].inode
      BY MigratorsDiffer DEF IInv, Types, CommitTypes
    <2> QED BY <2>1, <2>2 DEF CommitTypes
  <1>4. RequestTypes'
    BY OthersGrow DEF IInv
  <1>5. Exclusive'
    <2>1. CASE m = Main
      <3>1. ~Up /\ \A i \in Import : job'[i] = job[i]
        BY <1>2, <2>1, MigratorsDiffer DEF Up
      <3>2. new.at \in {"list", "run"} => new.inode = live
        <4>1. /\ job[Main].at \in {"migrate", "list", "run"} => pool = live
              /\ job[Main].at \in {"list", "run"} => job[Main].inode = live
          BY <3>1, MainIsAlone DEF IInv, Exclusive
        <4> QED BY <2>1, <4>1 DEF Outcome, Succeeded, Failed, Step
      <3> QED BY <1>1, <1>2, <2>1, <3>1, <3>2 DEF IInv, Exclusive, Up
    <2>2. CASE m # Main
      <3>1. m \in Import /\ job'[Main] = job[Main] /\ job'[m].at \in {"list", "run", "ok", "failed"}
        BY <1>1, <1>2, <2>2, MigratorsDiffer
      <3>2. Up /\ Up'
        BY <3>1, ImportsNeedServer DEF Up
      <3>3. \A i \in Import : i # m => job'[i] = job[i]
        BY <1>2, MigratorsDiffer
      <3>4. \A i \in Import : job'[i].at \in {"rename", "init_pool"} <=> guard' = i
        BY <3>1, <3>3 DEF IInv, Exclusive
      <3>5. \A i \in Import : /\ job'[i].at = "rename" => job[i].at = "rename"
                              /\ job[i].at = "cut_off" => job'[i].at = "cut_off"
        BY <3>1, <3>3
      <3>6. Exclusive
        BY DEF IInv
      <3> QED BY <3>1, <3>2, <3>4, <3>5, <3>6 DEF Exclusive, Up
    <2> QED BY <2>1, <2>2
  <1> QED BY <1>2, <1>3, <1>4, <1>5

LEMMA MigrateConnKeeps ==
    ASSUME IInv, NEW m \in Migrator, Migrate_conn(m)
    PROVE  /\ IInv' /\ job'[m] = Step("list", pool)
           /\ \A k \in Migrator : k # m => job'[k] = job[k]
  <1>1. /\ job[m].at = "migrate" /\ job' = [job EXCEPT ![m] = Step("list", pool)]
        /\ UNCHANGED <<file, live, staged, journal, commit, pool, guard, req, exp, crashes, disturbed, cut>>
    BY DEF Migrate_conn
  <1>2. Inode' = Inode /\ commit[m] = None /\ commit \in [Connection -> Commit \cup {None}]
    BY <1>1 DEF Inode, IInv, Types, CommitTypes
  <1> DEFINE new == Step("list", pool)
  <1>3. Outcome(m, new)
    <2>1. pool \in Nat
      BY DEF IInv, Types, FileTypes, Inode
    <2> QED BY <1>1, <2>1 DEF Outcome, Step, Job, MainStep
  <1>4. job' = [job EXCEPT ![m] = new]
    BY <1>1
  <1> HIDE DEF new
  <1>5. /\ JobTypes' /\ CommitTypes' /\ Exclusive' /\ RequestTypes'
        /\ job'[m] = new /\ \A k \in Migrator : k # m => job'[k] = job[k]
    BY <1>1, <1>2, <1>3, <1>4, OutcomeKeeps
  <1>6. Types'
    BY <1>1, <1>2, <1>5 DEF IInv, Types, FileTypes, ExportTypes
  <1> QED BY <1>5, <1>6 DEF IInv, new

\* A migration that is to be written.
LEMMA MigrateSyncKeeps ==
    ASSUME IInv, NEW m \in Migrator, Migrate_set_up(m) \/ Migrate_begin(m)
    PROVE  /\ IInv' /\ job[m].at \in {"list", "run"} /\ job[m].inode \in Inode
           /\ UNCHANGED job
           /\ Sync_journal(m, job[m].inode, Brings(m))
  <1> DEFINE n == job[m].inode
  <1>1. /\ job[m].at \in {"list", "run"}
        /\ UNCHANGED <<live, staged, pool, guard, req, job, crashes, cut>>
    BY DEF Migrate_set_up, Migrate_begin
  <1>2. n \in Inode
    BY <1>1 DEF IInv, Types, JobTypes
  <1> DEFINE schema == Brings(m)
  <1>3. Sync_journal(m, n, schema) /\ schema \in Schema
    <2>1. CASE Migrate_set_up(m)
      BY <2>1 DEF Migrate_set_up, Brings, Schema, After
    <2>2. CASE Migrate_begin(m)
      <3>1. job[m].due \in DOMAIN After /\ schema = After[job[m].due]
        BY <2>2 DEF Migrate_begin, Brings, IInv, Types, JobTypes
      <3>2. schema \in Schema
        BY <3>1 DEF Schema, After
      <3> QED BY <2>2, <3>1, <3>2 DEF Migrate_begin
    <2> QED BY <2>1, <2>2
  <1> HIDE DEF schema
  <1>4. /\ file' \in Seq(Content) /\ Inode' = Inode /\ journal' \in Journal
        /\ disturbed' \in BOOLEAN /\ ExportTypes'
        /\ commit' \in [Connection -> Commit \cup {None}]
        /\ commit'[m].inode = n /\ commit'[m].schema = schema
        /\ \A d \in Connection : d # m => commit'[d] = commit[d]
    <2>1. m \in Connection /\ Types
      BY MigratorsDiffer DEF IInv
    <2> QED BY <1>2, <1>3, <2>1, SyncEffect
  <1>5. CommitTypes'
    BY <1>1, <1>4, MigratorsDiffer DEF IInv, Types, CommitTypes, Brings, schema
  <1>6. Types'
    BY <1>1, <1>4, <1>5 DEF IInv, Types, FileTypes, RequestTypes, JobTypes
  <1>7. Exclusive'
    BY <1>1 DEF IInv, Exclusive, Up
  <1> QED BY <1>1, <1>2, <1>3, <1>6, <1>7 DEF IInv, schema

\* A migrator that finds the file as it is by now.
LEMMA MigrateAccessKeeps ==
    ASSUME IInv, NEW m \in Migrator, Migrate_list(m) \/ Migrate_fails(m)
    PROVE  /\ IInv' /\ job[m].at \in {"list", "run"} /\ job[m].inode \in Inode
           /\ Outcome(m, job'[m])
           /\ Migrate_fails(m) => job'[m] = Failed(m)
           /\ Migrate_list(m) =>
                LET found == Recovered(job[m].inode) IN
                job'[m] = CASE found.schema = "garbage" -> Failed(m)
                            [] found.schema = "current" -> Succeeded(m)
                            [] found.schema = "unrecorded" -> [job[m] EXCEPT !.at = "run", !.due = "old"]
                            [] OTHER -> [job[m] EXCEPT !.at = "run", !.due = found.schema]
           /\ \A k \in Migrator : k # m => job'[k] = job[k]
  <1> DEFINE n == job[m].inode
             found == Recovered(n)
             next == CASE found.schema = "garbage" -> Failed(m)
                       [] found.schema = "current" -> Succeeded(m)
                       [] found.schema = "unrecorded" -> [job[m] EXCEPT !.at = "run", !.due = "old"]
                       [] OTHER -> [job[m] EXCEPT !.at = "run", !.due = found.schema]
             new == IF Migrate_list(m) THEN next ELSE Failed(m)
  <1>1. /\ job[m].at \in {"list", "run"} /\ Access(n)
        /\ UNCHANGED <<live, staged, commit, pool, guard, req, crashes>>
        /\ cut' \in {cut, cut \cup Unrecorded(m)}
    BY DEF Migrate_list, Migrate_fails
  <1>2. n \in Inode /\ found \in Content /\ job[m] \in Job
    BY <1>1, RecoveredIs DEF IInv, Types, JobTypes
  <1>3. /\ file' \in Seq(Content) /\ Inode' = Inode /\ journal' = None
        /\ disturbed' \in BOOLEAN /\ ExportTypes'
    BY <1>1, <1>2, AccessEffect DEF IInv
  <1>4. commit[m] = None /\ commit \in [Connection -> Commit \cup {None}]
    <2>1. m \notin Committing(n) /\ m \in Connection
      BY <1>1, MigratorsDiffer DEF Access
    <2> QED BY <2>1 DEF Committing, IInv, Types, CommitTypes
  <1>5. cut' \subseteq Inode
    <2>1. Unrecorded(m) \subseteq Inode
      BY <1>2 DEF Unrecorded
    <2> QED BY <1>1, <2>1 DEF IInv, Types, FileTypes
  <1>6. job' = [job EXCEPT ![m] = new]
    <2>1. CASE Migrate_list(m)
      BY <2>1 DEF Migrate_list
    <2>2. CASE ~Migrate_list(m)
      BY <2>2 DEF Migrate_fails
    <2> QED BY <2>1, <2>2
  <1>7. Outcome(m, new)
    <2>1. CASE Migrate_list(m)
      <3>1. found.schema # "empty" /\ found.schema \in Schema
        BY <1>2, <2>1 DEF Migrate_list, Content
      <3>2. CASE found.schema \in {"garbage", "current"}
        BY <2>1, <3>2 DEF Outcome
      <3>3. CASE found.schema \notin {"garbage", "current"}
        <4>1. PICK due \in DOMAIN After : new = [job[m] EXCEPT !.at = "run", !.due = due]
          <5>1. found.schema \in DOMAIN After /\ "old" \in DOMAIN After
            BY <3>1, <3>3 DEF Schema, After
          <5> QED BY <2>1, <3>3, <5>1
        <4>2. PICK old \in Job : old = job[m]
          BY <1>2
        <4>3. /\ [old EXCEPT !.at = "run", !.due = due] \in Job
              /\ [old EXCEPT !.at = "run", !.due = due].at = "run"
              /\ [old EXCEPT !.at = "run", !.due = due].inode = old.inode
              /\ [old EXCEPT !.at = "run", !.due = due].due = due
          BY DEF Job, MainStep
        <4>4. new.at = "run" /\ new \in Job /\ new.inode = n /\ new.due = due
          BY <4>1, <4>2, <4>3
        <4> HIDE DEF new
        <4> QED BY <1>1, <4>4 DEF Outcome
      <3> QED BY <3>2, <3>3
    <2>2. CASE ~Migrate_list(m)
      BY <2>2 DEF Outcome
    <2> QED BY <2>1, <2>2
  <1>8. /\ Migrate_fails(m) => new = Failed(m)
        /\ Migrate_list(m) => new = next
    <2>1. Migrate_fails(m) /\ Migrate_list(m) => FALSE
      BY DEF Migrate_fails, Migrate_list
    <2> QED BY <2>1
  <1> HIDE DEF new
  <1>9. /\ JobTypes' /\ CommitTypes' /\ Exclusive' /\ RequestTypes'
        /\ job'[m] = new /\ \A k \in Migrator : k # m => job'[k] = job[k]
    BY <1>1, <1>3, <1>4, <1>6, <1>7, OutcomeKeeps
  <1>10. Types'
    BY <1>1, <1>3, <1>5, <1>9 DEF IInv, Types, FileTypes
  <1> QED BY <1>1, <1>2, <1>7, <1>8, <1>9, <1>10 DEF IInv

\* A migrator has committed, and goes on to the next migration or is done.
LEMMA MigrateCommitKeeps ==
    ASSUME IInv, NEW m \in Migrator, Migrate_commit(m)
    PROVE  /\ IInv' /\ job[m].at \in {"list", "run"} /\ Outcome(m, job'[m])
           /\ job'[m] = CASE Brings(m) = "set_up"  -> job[m]
                          [] Brings(m) = "current" -> Succeeded(m)
                          [] OTHER -> [job[m] EXCEPT !.due = Brings(m)]
           /\ \A k \in Migrator : k # m => job'[k] = job[k]
           /\ commit[m].schema = Brings(m)
  <1> DEFINE new == CASE Brings(m) = "set_up"  -> job[m]
                      [] Brings(m) = "current" -> Succeeded(m)
                      [] OTHER -> [job[m] EXCEPT !.due = Brings(m)]
  <1>1. /\ Delete_journal(m)
        /\ UNCHANGED <<file, live, staged, pool, guard, req, exp, crashes, disturbed, cut>>
    BY DEF Migrate_commit
  <1>2. Inode' = Inode
    BY <1>1 DEF Inode
  <1>3. /\ journal' = None /\ commit' \in [Connection -> Commit \cup {None}]
        /\ commit'[m] = None
        /\ \A d \in Connection : d # m => commit'[d] = commit[d]
    BY <1>1, DeleteEffect, MigratorsDiffer DEF IInv
  <1>4. /\ job[m].at \in {"list", "run"} /\ job[m] \in Job
        /\ job[m].due \in (IF job[m].at = "run" THEN DOMAIN After ELSE {None})
        /\ commit[m].schema = Brings(m)
    BY <1>1 DEF Delete_journal, IInv, Types, CommitTypes, JobTypes
  <1>5. job' = [job EXCEPT ![m] = new]
    BY <1>4 DEF Migrate_commit
  <1>6. Outcome(m, new)
    <2>1. CASE Brings(m) = "set_up"
      <3>1. new = job[m]
        BY <2>1
      <3> HIDE DEF new
      <3> QED BY <1>4, <3>1 DEF Outcome
    <2>2. CASE Brings(m) = "current"
      <3>1. new = Succeeded(m)
        BY <2>2
      <3> QED BY <3>1 DEF Outcome
    <2>3. CASE Brings(m) \notin {"set_up", "current"}
      <3>1. job[m].at = "run" /\ job[m].due \in DOMAIN After /\ Brings(m) = After[job[m].due]
        BY <1>4, <2>3 DEF Brings
      <3>2. Brings(m) \in DOMAIN After
        BY <2>3, <3>1 DEF After
      <3>3. PICK old \in Job : old = job[m]
        BY <1>4
      <3> DEFINE due == Brings(m)
      <3>4. new = [old EXCEPT !.due = due] /\ due \in DOMAIN After
        BY <2>3, <3>2, <3>3
      <3> HIDE DEF due
      <3>5. /\ [old EXCEPT !.due = due] \in Job
            /\ [old EXCEPT !.due = due].at = old.at
            /\ [old EXCEPT !.due = due].inode = old.inode
            /\ [old EXCEPT !.due = due].due = due
        BY <3>4 DEF Job
      <3>6. new.at = "run" /\ new \in Job /\ new.inode = job[m].inode /\ new.due \in DOMAIN After
        BY <3>1, <3>3, <3>4, <3>5
      <3> HIDE DEF new
      <3> QED BY <1>4, <3>6 DEF Outcome
    <2> QED BY <2>1, <2>2, <2>3
  <1>7. new = CASE Brings(m) = "set_up"  -> job[m]
                [] Brings(m) = "current" -> Succeeded(m)
                [] OTHER -> [job[m] EXCEPT !.due = Brings(m)]
    OBVIOUS
  <1> HIDE DEF new
  <1>8. \A c \in Connection : commit'[c] # None => commit'[c] = commit[c]
    BY <1>3
  <1>9. /\ JobTypes' /\ CommitTypes' /\ Exclusive' /\ RequestTypes'
        /\ job'[m] = new /\ \A k \in Migrator : k # m => job'[k] = job[k]
    BY <1>1, <1>2, <1>3, <1>4, <1>5, <1>6, <1>8, OutcomeKeeps
  <1>10. Types'
    BY <1>1, <1>2, <1>3, <1>9 DEF IInv, Types, FileTypes, ExportTypes
  <1> QED BY <1>4, <1>6, <1>7, <1>9, <1>10 DEF IInv

LEMMA MigrateBusyKeeps ==
    ASSUME IInv, NEW m \in Migrator, Migrate_busy(m)
    PROVE  /\ IInv' /\ Up /\ Up' /\ job'[m] = Failed(m) /\ m \in Import
           /\ \A k \in Migrator : k # m => job'[k] = job[k]
  <1>1. /\ job[m].at \in {"list", "run"} /\ commit[m] = None
        /\ job' = [job EXCEPT ![m] = Failed(m)]
        /\ cut' = cut \cup Unrecorded(m)
        /\ UNCHANGED <<file, live, staged, journal, commit, pool, guard, req, exp, crashes, disturbed>>
        /\ \E c \in Connection : commit[c] # None
    BY DEF Migrate_busy, Committing
  <1>2. Inode' = Inode
    BY <1>1 DEF Inode
  <1> DEFINE new == Failed(m)
  <1>3. Outcome(m, new) /\ job' = [job EXCEPT ![m] = new]
    BY <1>1 DEF Outcome
  <1> HIDE DEF new
  <1>4. commit \in [Connection -> Commit \cup {None}]
    BY DEF IInv, Types, CommitTypes
  <1>5. /\ JobTypes' /\ CommitTypes' /\ Exclusive' /\ RequestTypes'
        /\ job'[m] = new /\ \A k \in Migrator : k # m => job'[k] = job[k]
    BY <1>1, <1>2, <1>3, <1>4, OutcomeKeeps
  <1>6. cut' \subseteq Inode
    <2>1. Unrecorded(m) \subseteq Inode
      BY <1>1 DEF Unrecorded, IInv, Types, JobTypes
    <2> QED BY <1>1, <2>1 DEF IInv, Types, FileTypes
  <1>7. Types'
    BY <1>1, <1>2, <1>5, <1>6 DEF IInv, Types, FileTypes, ExportTypes
  <1>8. Up /\ m \in Import
    <2>1. CASE ~Up
      BY <1>1, <2>1, MainIsAlone, MigratorsDiffer
    <2>2. CASE Up
      BY <1>1, <2>2, MigratorsDiffer DEF Up
    <2> QED BY <2>1, <2>2
  <1>9. Up'
    BY <1>5, <1>8, MigratorsDiffer DEF Up
  <1> QED BY <1>5, <1>7, <1>8, <1>9 DEF IInv, new

-----------------------------------------------------------------------------
(* The death of the process, and its start *)

LEMMA CrashKeeps ==
    ASSUME IInv, Crash
    PROVE  /\ IInv' /\ job'[Main].at = "down"
           /\ \A i \in Import : job'[i].at \in {"new", "ok", "failed"}
           /\ \A c \in Connection : commit'[c] = None
  <1>1. /\ crashes < MaxCrashes /\ crashes' = crashes + 1 /\ guard' = None
        /\ commit' = [c \in Connection |-> None]
        /\ req' = [r \in Request |-> Idle]
        /\ job' = [m \in Migrator |->
              IF m = Main THEN Step("down", None)
              ELSE IF job[m].at \in {"new", "ok"} THEN job[m] ELSE Failed(m)]
        /\ exp' = [e \in Export |->
              IF exp[e].at = "read" THEN [exp[e] EXCEPT !.at = "failed"] ELSE exp[e]]
        /\ cut' = cut \cup UNION {Unrecorded(m) : m \in Migrator}
        /\ UNCHANGED <<file, live, staged, journal, pool, disturbed>>
    BY DEF Crash
  <1>2. Inode' = Inode
    BY <1>1 DEF Inode
  <1>3. RequestTypes' /\ \A r \in Request : req'[r].at = "idle"
    BY <1>1 DEF Idle, Released, RequestTypes, RequestStep
  <1>4. /\ job'[Main] = Step("down", None) /\ job'[Main].at = "down"
        /\ \A i \in Import : /\ job'[i].at \in {"new", "ok", "failed"}
                             /\ job'[i] = job[i] \/ job'[i] = Step("failed", None)
    BY <1>1, MigratorsDiffer DEF Step, Failed
  <1>5. JobTypes'
    <2>1. /\ Step("down", None) \in Job /\ Step("failed", None) \in Job
          /\ \A step : Step(step, None).inode = None /\ Step(step, None).due = None
      BY DEF Step, Job, MainStep, ImportStep
    <2>2. job' \in [Migrator -> Job]
      BY <1>1, <2>1 DEF IInv, Types, JobTypes, Failed
    <2>3. ASSUME NEW m \in Migrator
          PROVE  /\ job'[m].at \in (IF m = Main THEN MainStep ELSE ImportStep)
                 /\ job'[m].inode \in (IF job'[m].at \in {"write", "list", "run"} THEN Inode ELSE {None})
                 /\ job'[m].due \in (IF job'[m].at = "run" THEN DOMAIN After ELSE {None})
      <3>1. CASE m = Main
        BY <1>4, <2>1, <3>1 DEF MainStep
      <3>2. CASE m # Main
        <4>1. /\ job'[m].at \in {"new", "ok", "failed"}
              /\ job'[m] = job[m] \/ job'[m] = Step("failed", None)
          BY <1>4, <3>2, MigratorsDiffer
        <4> QED BY <2>1, <3>2, <4>1 DEF IInv, Types, JobTypes, ImportStep
      <3> QED BY <3>1, <3>2
    <2> QED BY <1>2, <2>2, <2>3 DEF JobTypes
  <1>6. ExportTypes'
    BY <1>1, <1>2 DEF IInv, Types, ExportTypes
  <1>7. CommitTypes' /\ \A c \in Connection : commit'[c] = None
    BY <1>1, MigratorsDiffer DEF CommitTypes
  <1>8. cut' \subseteq Inode
    <2>1. \A m \in Migrator : Unrecorded(m) \subseteq Inode
      <3> TAKE m \in Migrator
      <3>1. CASE job[m].due = "unrecorded"
        <4>1. job[m].at = "run"
          BY <3>1, NoneIsNone DEF IInv, Types, JobTypes, After
        <4> QED BY <4>1 DEF Unrecorded, IInv, Types, JobTypes
      <3> QED BY <3>1 DEF Unrecorded
    <2> QED BY <1>1, <2>1 DEF IInv, Types, FileTypes
  <1>9. crashes' \in 0 .. MaxCrashes
    BY <1>1, CrashesAreBounded DEF IInv, Types, FileTypes
  <1>10. Types'
    BY <1>1, <1>2, <1>3, <1>5, <1>6, <1>7, <1>8, <1>9 DEF IInv, Types, FileTypes
  <1>11. Exclusive'
    BY <1>1, <1>3, <1>4, NoneIsNone DEF Exclusive
  <1> QED BY <1>4, <1>7, <1>10, <1>11 DEF IInv

LEMMA MainKeeps ==
    ASSUME IInv, Main_init_pool
    PROVE  /\ IInv' /\ job'[Main].at = "migrate"
           /\ \A i \in Import : job'[i] = job[i]
  <1>1. /\ job[Main].at \in {"down", "stuck"} /\ pool' = live
        /\ job' = [job EXCEPT ![Main] = Step("migrate", None)]
        /\ UNCHANGED <<file, live, staged, journal, commit, guard, req, exp, crashes, disturbed, cut>>
    BY DEF Main_init_pool, JobGoto
  <1>2. Inode' = Inode
    BY <1>1 DEF Inode
  <1>3. /\ JobTypes' /\ job'[Main].at = "migrate"
        /\ \A k \in Migrator : k # Main => job'[k] = job[k]
    BY <1>1, <1>2, MigratorsDiffer, StepEffect DEF IInv, MainStep
  <1>4. \A i \in Import : job'[i] = job[i]
    BY <1>3, MigratorsDiffer
  <1>5. commit[Main] = None
    BY <1>1, MigratorsDiffer DEF IInv, Types, CommitTypes
  <1>6. CommitTypes'
    BY <1>1, <1>3, <1>5, CommitsStay DEF IInv
  <1>7. Types'
    BY <1>1, <1>2, <1>3, <1>6, OthersGrow DEF IInv, Types, FileTypes, ExportTypes
  <1>8. Exclusive'
    BY <1>1, <1>3, <1>4 DEF IInv, Exclusive, Up
  <1> QED BY <1>3, <1>4, <1>7, <1>8 DEF IInv

-----------------------------------------------------------------------------
(* Every step *)

LEMMA InitHolds == Init => IInv
  <1> SUFFICES ASSUME Init
               PROVE  IInv
    OBVIOUS
  <1> DEFINE first == Filled("current", "first")
  <1>1. first \in Content
    BY FilledIsContent DEF Schema
  <1>2. file = <<first>>
    BY DEF Init
  <1> HIDE DEF first
  <1>3. file \in Seq(Content) /\ Inode = {1}
    BY <1>1, <1>2 DEF Inode
  <1>4. FileTypes
    <2>1. /\ live = 1 /\ pool = 1 /\ staged = None /\ journal = None /\ guard = None
          /\ crashes = 0 /\ disturbed = FALSE /\ cut = {}
      BY DEF Init
    <2>2. 0 \in 0 .. MaxCrashes
      BY CrashesAreBounded
    <2> QED BY <1>3, <2>1, <2>2 DEF FileTypes
  <1>5. RequestTypes
    BY DEF Init, RequestTypes, RequestStep, Idle, Released
  <1>6. /\ job[Main].at = "up" /\ \A i \in Import : job[i].at = "new"
        /\ JobTypes
    BY MigratorsDiffer DEF Init, Step, Job, JobTypes, MainStep, ImportStep
  <1>7. CommitTypes
    BY MigratorsDiffer DEF Init, CommitTypes
  <1>8. ExportTypes
    <2>1. << >> \in [{} -> Stamp]
      OBVIOUS
    <2>2. << >> \in Copy
      BY <2>1 DEF Copy
    <2> QED BY <2>2 DEF Init, ExportTypes
  <1>9. Exclusive
    BY <1>6, NoneIsNone DEF Init, Exclusive, Up
  <1> QED BY <1>4, <1>5, <1>6, <1>7, <1>8, <1>9 DEF IInv, Types

LEMMA RequestStepKeeps ==
    ASSUME IInv, NEW r \in Request,
           conn(r, "idle", "auth") \/ conn(r, "idle", "read") \/ Request_step(r)
    PROVE  IInv'
  BY ConnKeeps, ReadKeeps, WriteBeginKeeps, PageKeeps, WriteEndKeeps, RequestBusyKeeps, MigratorsDiffer
  DEF Request_step, RequestStep

LEMMA MigrationKeeps ==
    ASSUME IInv, NEW m \in Migrator, run_migrations(m)
    PROVE  IInv'
  BY MigrateConnKeeps, MigrateSyncKeeps, MigrateAccessKeeps, PageKeeps, MigrateCommitKeeps,
     MigrateBusyKeeps, MigratorsDiffer DEF run_migrations

LEMMA ImportStepKeeps ==
    ASSUME IInv, NEW i \in Import, Import_create(i) \/ Import_step(i)
    PROVE  IInv'
  BY CreateKeeps, WriteKeeps, EstablishKeeps, SwapKeeps, MigrationKeeps, MigratorsDiffer
  DEF Import_step

LEMMA StepKeeps ==
    ASSUME IInv, [Next]_vars
    PROVE  IInv'
  <1>1. CASE Next
    BY <1>1, RequestStepKeeps, ImportStepKeeps, ExportKeeps, CrashKeeps, MainKeeps,
       MigrationKeeps, MigratorsDiffer DEF Next
  <1>2. CASE UNCHANGED vars
    <2>1. UNCHANGED <<file, live, staged, journal, commit, pool, guard, req, job, exp, crashes, disturbed, cut>>
      BY <1>2 DEF vars
    <2>2. Inode' = Inode
      BY <2>1 DEF Inode
    <2> QED BY <2>1, <2>2 DEF IInv, Types, FileTypes, RequestTypes, JobTypes, CommitTypes, Brings,
                              ExportTypes, Exclusive, Up
  <1> QED BY <1>1, <1>2

-----------------------------------------------------------------------------
(* Theorems *)

\* The inductive invariant: types, and the exclusion by the pool's lock.
THEOREM InvariantHolds == Spec => []IInv
  <1>1. Init => IInv
    BY InitHolds
  <1>2. IInv /\ [Next]_vars => IInv'
    BY StepKeeps
  <1> QED BY <1>1, <1>2, PTL DEF Spec

\* Every variable keeps its type, and who commits has the file open.
THEOREM TypeCorrect == Spec => []TypeOK
  <1>1. IInv => TypeOK
    <2> SUFFICES ASSUME IInv
                 PROVE  TypeOK
      OBVIOUS
    <2>1. /\ file \in Seq(Content) /\ {live, pool} \subseteq Inode /\ staged \in Inode \cup {None}
          /\ journal \in Journal \cup {None} /\ guard \in Import \cup {None}
          /\ crashes \in 0 .. MaxCrashes /\ disturbed \in BOOLEAN /\ cut \subseteq Inode
      BY DEF IInv, Types, FileTypes
    <2>2. \A r \in Request :
             /\ req[r].at \in {"idle", "auth", "authorized", "read", "write"}
             /\ req[r].inode \in (IF req[r].at \in {"idle", "authorized"} THEN {None} ELSE Inode)
      BY DEF IInv, Types, RequestTypes, RequestStep
    <2>3. \A m \in Migrator :
             /\ job[m].at \in {"migrate", "list", "run"} \cup
                   IF m = Main THEN {"up", "down", "stuck"}
                   ELSE {"new", "write", "establish", "swap", "rename", "init_pool",
                         "ok", "failed", "cut_off"}
             /\ job[m].inode \in (IF job[m].at \in {"write", "list", "run"} THEN Inode ELSE {None})
             /\ job[m].due \in (IF job[m].at = "run" THEN DOMAIN After ELSE {None})
      BY DEF IInv, Types, JobTypes, MainStep, ImportStep
    <2>4. \A e \in Export : /\ exp[e].at \in {"new", "read", "done", "failed"}
                            /\ exp[e].inode \in (IF exp[e].at = "new" THEN {None} ELSE Inode)
                            /\ exp[e].copy \in Copy /\ exp[e].met \in BOOLEAN
      BY DEF IInv, Types, ExportTypes
    <2>5. \A e \in Export : /\ DOMAIN exp[e].copy \subseteq Page
                            /\ \A p \in DOMAIN exp[e].copy : exp[e].copy[p] \in Stamp
      <3> TAKE e \in Export
      <3>1. PICK D \in SUBSET Page : exp[e].copy \in [D -> Stamp]
        BY <2>4 DEF Copy
      <3> QED BY <3>1
    <2>6. /\ commit \in [Connection -> Commit \cup {None}]
          /\ \A r \in Request : commit[r] # None => req[r].at = "write" /\ req[r].inode = commit[r].inode
          /\ \A m \in Migrator : commit[m] # None =>
                job[m].at \in {"list", "run"} /\ job[m].inode = commit[m].inode
      BY DEF IInv, Types, CommitTypes
    <2> QED BY <2>1, <2>2, <2>3, <2>4, <2>5, <2>6 DEF TypeOK
  <1> QED BY InvariantHolds, <1>1, PTL

\* Whoever takes a connection outside swap_database gets one to the file at the
\* path, unless a pool could not be built.
THEOREM PoolIsOnTheLiveFile == Spec => []PoolServesLiveFile
  <1>1. IInv => PoolServesLiveFile
    BY DEF IInv, Exclusive, Up, PoolServesLiveFile
  <1> QED BY InvariantHolds, <1>1, PTL

===============================================================================
