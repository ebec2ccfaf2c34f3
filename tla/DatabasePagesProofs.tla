-------------------------- MODULE DatabasePagesProofs --------------------------
(* What the pages of the files of DatabaseFile hold, for any requests, imports, *)
(* exports, pages and crashes, as long as no import meets another or a journal. *)
EXTENDS DatabaseFileProofs

-----------------------------------------------------------------------------
(* The inductive invariant *)

\* The staged file is not the live one, ...
StagedApart == staged # None => staged # live

\* ... one import at a time is at it, ...
StagingIsAlone == \A i, j \in Staging : i = j

\* ... and finds there what it has written.
StagedIsWhole ==
    \A i \in Staging :
        /\ staged # None
        /\ IF job[i].at = "write" THEN job[i].inode = staged
           ELSE \E schema \in Archives : file[staged] = Filled(schema, i)

\* One connection at a time commits, to the live file, ...
CommitsAreLive == \A c \in Connection : commit[c] # None => commit[c].inode = live

OneCommits == \A c, d \in Connection : commit[c] # None /\ commit[d] # None => c = d

\* ... and once the server is up, a journal is that of a commit going on.
JournalIsHeld == Up /\ journal # None => \E c \in Connection : commit[c] # None

\* What a connection commits: a request leaves the schema, a migration is the one that is due.
Ours(c) == IF c \in Request THEN commit[c].schema = journal.schema
           ELSE journal.schema = IF job[c].at = "list" THEN "empty" ELSE job[c].due

\* Half of a commit: pages that are still to write are as the journal has them.
CommitFits ==
    \A c \in Connection : commit[c] # None =>
        /\ journal # None
        /\ commit[c].todo \subseteq DOMAIN journal.page
        /\ file[live].schema = IF Header \in commit[c].todo THEN journal.schema ELSE commit[c].schema
        /\ \A p \in DOMAIN journal.page :
              file[live].page[p] = IF p \in commit[c].todo THEN journal.page[p]
                                   ELSE [journal.page[p] EXCEPT !.by = c]
        /\ Ours(c)

\* An export that has met no write has read what a connection finds in its file.
Found(n) == IF n = live THEN Recovered(live) ELSE file[n]

ReadsWhole(e) ==
    /\ \A p \in DOMAIN exp[e].copy : exp[e].copy[p] = Found(exp[e].inode).page[p]
    /\ exp[e].inode = live => Recovered(live) = file[live]
    /\ exp[e].at = "done" => DOMAIN exp[e].copy = Page

ExportsAreRead ==
    \A e \in Export : exp[e].at \in {"read", "done"} /\ ~exp[e].met => ReadsWhole(e)

\* An import that is not answered 200 is behind a live file that is out of date.
Pending(i) == /\ job[i].at \notin {"new", "ok"}
              /\ job[i].at \in {"list", "run"} => job[i].inode = live

UpgradesPend == Up /\ Recovered(live).schema # "current" => \E i \in Import : Pending(i)

\* A file without the record of add_users_table is cut, or is about to get it; main
\* goes on as the file is.
Recording == \E m \in Migrator : job[m].at = "run" /\ job[m].due = "unrecorded" /\ job[m].inode = live

CutsAreKnown ==
    /\ Recovered(live).schema # "garbage"
    /\ Recovered(live).schema = "unrecorded" => live \in cut \/ Recording
    /\ job[Main].at = "run" => /\ job[Main].due # "empty"
                               /\ live \in cut \/ Recovered(live).schema = job[Main].due
    /\ job[Main].at = "stuck" => live \in cut

Held == /\ StagedApart /\ StagingIsAlone /\ StagedIsWhole
        /\ CommitsAreLive /\ OneCommits /\ JournalIsHeld /\ CommitFits

\* Archives hold databases that can be opened, or those that can be migrated.
Databases  == Archives \cap {"empty", "garbage"} = {}
Migratable == Archives \cap {"unrecorded", "garbage"} = {}

Alone == /\ Held /\ ExportsAreRead /\ UpgradesPend
         /\ Migratable => CutsAreKnown
         /\ Databases => LiveFileIsWhole

Pages == ~disturbed => Alone

-----------------------------------------------------------------------------
(* What a step may do to what a connection finds at the path *)

Stays == live' = live /\ Recovered(live)' = Recovered(live)

Commits(c) ==
    /\ live' = live
    /\ c \in Committing(live) /\ commit'[c] = None
    /\ Recovered(live)' =
          [schema |-> commit[c].schema,
           page   |-> [p \in Page |-> IF p \in DOMAIN journal.page
                                      THEN [origin |-> Recovered(live).page[p].origin, by |-> c]
                                      ELSE Recovered(live).page[p]]]

Replaces(i) == /\ live' # live
               /\ \E schema \in Archives : Recovered(live)' = Filled(schema, i)

Moves == \/ Stays
         \/ \E c \in Connection : Commits(c)
         \/ \E i \in Import : Replaces(i)

LEMMA FilesAre ==
    ASSUME IInv
    PROVE  /\ live \in Inode /\ pool \in Inode /\ staged \in Inode \cup {None}
           /\ \A n \in Inode : file[n] \in Content /\ n \in Nat /\ n # None
           /\ Recovered(live) \in Content
  <1>1. live \in Inode /\ pool \in Inode /\ staged \in Inode \cup {None} /\ file \in Seq(Content)
    BY DEF IInv, Types, FileTypes
  <1>2. \A n \in Inode : file[n] \in Content
    BY <1>1 DEF Inode
  <1>3. \A n \in Inode : n \in Nat /\ n # None
    BY <1>1, NoneIsNone DEF Inode
  <1>4. Recovered(live) \in Content
    BY <1>1, RecoveredIs DEF IInv
  <1> QED BY <1>1, <1>2, <1>3, <1>4

\* Nothing is committed where no journal is.
LEMMA NoJournal ==
    ASSUME Held, journal = None
    PROVE  /\ \A c \in Connection : commit[c] = None
           /\ \A n : Recovered(n) = file[n]
  BY DEF Held, CommitFits, Recovered

LEMMA NoJournalAfter ==
    ASSUME journal' = None
    PROVE  Recovered(live)' = file'[live']
  BY DEF Recovered

-----------------------------------------------------------------------------
(* How the parts of the invariant are kept *)

\* No import comes to the staged file.
StagingStays ==
    \A i \in Staging' : /\ i \in Staging
                        /\ job'[i].at = "write" => job'[i] = job[i]
                        /\ job'[i].at # "write" => job[i].at # "write"

LEMMA StagedKeeps ==
    ASSUME Held, UNCHANGED <<live, staged>>, StagingStays,
           staged # None => file'[staged] = file[staged]
    PROVE  StagedApart' /\ StagingIsAlone' /\ StagedIsWhole'
  <1>1. StagedApart' /\ StagingIsAlone'
    BY DEF Held, StagedApart, StagingIsAlone, StagingStays
  <1>2. ASSUME NEW i \in Staging'
        PROVE  /\ staged' # None
               /\ IF job'[i].at = "write" THEN job'[i].inode = staged'
                  ELSE \E schema \in Archives : file'[staged'] = Filled(schema, i)
    <2>1. /\ i \in Staging
          /\ job'[i].at = "write" => job'[i] = job[i]
          /\ job'[i].at # "write" => job[i].at # "write"
      BY DEF StagingStays
    <2>2. /\ staged # None
          /\ IF job[i].at = "write" THEN job[i].inode = staged
             ELSE \E schema \in Archives : file[staged] = Filled(schema, i)
      BY <2>1 DEF Held, StagedIsWhole
    <2>3. CASE job'[i].at = "write"
      BY <2>1, <2>2, <2>3
    <2>4. CASE job'[i].at # "write"
      BY <2>1, <2>2, <2>4
    <2> QED BY <2>3, <2>4
  <1>3. StagedIsWhole'
    BY <1>2 DEF StagedIsWhole, Filled
  <1> QED BY <1>1, <1>3

LEMMA NothingCommits ==
    ASSUME \A c \in Connection : commit'[c] = None, Up' => journal' = None
    PROVE  CommitsAreLive' /\ OneCommits' /\ JournalIsHeld' /\ CommitFits'
  BY DEF CommitsAreLive, OneCommits, JournalIsHeld, CommitFits

LEMMA CommitsKeep ==
    ASSUME Held, UNCHANGED <<live, journal, commit>>, file'[live] = file[live], Up' => Up,
           \A m \in Migrator : commit[m] # None => job'[m] = job[m]
    PROVE  CommitsAreLive' /\ OneCommits' /\ JournalIsHeld' /\ CommitFits' /\ Recovered(live)' = Recovered(live)
  <1>1. CommitsAreLive' /\ OneCommits' /\ JournalIsHeld'
    BY DEF Held, CommitsAreLive, OneCommits, JournalIsHeld
  <1>2. Recovered(live)' = Recovered(live)
    BY DEF Recovered
  <1>3. \A c \in Connection : commit[c] # None /\ Ours(c) => Ours(c)'
    BY MigratorsDiffer DEF Ours
  <1>4. CommitFits'
    BY <1>3 DEF Held, CommitFits
  <1> QED BY <1>1, <1>2, <1>4

\* Who reads a file that is written has met a write.
Unmet ==
    \A e \in Export :
        /\ exp'[e].at = exp[e].at /\ exp'[e].inode = exp[e].inode /\ exp'[e].copy = exp[e].copy
        /\ ~exp'[e].met => /\ ~exp[e].met
                           /\ exp[e].at # "new" => file'[exp[e].inode] = file[exp[e].inode]

LEMMA PutUnmet ==
    ASSUME IInv, NEW n \in Inode, NEW content \in Content, Put(n, content)
    PROVE  Unmet
  <1> SUFFICES ASSUME NEW e \in Export
               PROVE  /\ exp'[e].at = exp[e].at /\ exp'[e].inode = exp[e].inode
                      /\ exp'[e].copy = exp[e].copy
                      /\ ~exp'[e].met =>
                            /\ ~exp[e].met
                            /\ exp[e].at # "new" => file'[exp[e].inode] = file[exp[e].inode]
    BY DEF Unmet
  <1>1. /\ file'[n] = content
        /\ \A k \in Inode : k # n => file'[k] = file[k]
    BY PutEffect DEF IInv
  <1>2. exp' = [f \in Export |->
           [exp[f] EXCEPT !.met = @ \/ (exp[f].inode = n /\ content # file[n])]]
    BY DEF Put
  <1>3. PICK x \in [at : {"new", "read", "done", "failed"}, inode : Nat \cup {None},
                    copy : Copy, met : BOOLEAN] : x = exp[e]
    BY DEF IInv, Types, ExportTypes
  <1>4. exp'[e] = [x EXCEPT !.met = @ \/ (x.inode = n /\ content # file[n])]
    BY <1>2, <1>3
  <1>5. /\ exp'[e].at = exp[e].at /\ exp'[e].inode = exp[e].inode /\ exp'[e].copy = exp[e].copy
        /\ ~exp'[e].met => ~exp[e].met /\ ~(exp[e].inode = n /\ content # file[n])
    BY <1>3, <1>4
  <1>6. exp[e].at # "new" => exp[e].inode \in Inode
    BY DEF IInv, Types, ExportTypes
  <1> QED BY <1>1, <1>5, <1>6

LEMMA ExportsKeep ==
    ASSUME ExportsAreRead, Unmet, live' = live,
           Recovered(live)' = Recovered(live) \/ Recovered(live)' = file'[live]
    PROVE  ExportsAreRead'
  <1> SUFFICES ASSUME NEW e \in Export, exp'[e].at \in {"read", "done"}, ~exp'[e].met
               PROVE  ReadsWhole(e)'
    BY DEF ExportsAreRead
  <1>1. /\ exp'[e].at = exp[e].at /\ exp'[e].inode = exp[e].inode /\ exp'[e].copy = exp[e].copy
        /\ ~exp[e].met /\ file'[exp[e].inode] = file[exp[e].inode]
    BY DEF Unmet
  <1>2. ReadsWhole(e)
    BY <1>1 DEF ExportsAreRead
  <1>3. CASE exp[e].inode = live
    <2>1. Recovered(live) = file[live] /\ file'[live] = file[live]
      BY <1>1, <1>2, <1>3 DEF ReadsWhole
    <2>2. Recovered(live)' = Recovered(live) /\ Recovered(live)' = file'[live']
      BY <2>1
    <2>3. Found(exp[e].inode) = Recovered(live) /\ Found(exp[e].inode)' = Recovered(live)'
      BY <1>1, <1>3 DEF Found
    <2> QED BY <1>1, <1>2, <2>2, <2>3 DEF ReadsWhole
  <1>4. CASE exp[e].inode # live
    <2>1. Found(exp[e].inode) = file[exp[e].inode] /\ Found(exp[e].inode)' = file'[exp[e].inode]
      BY <1>1, <1>4 DEF Found
    <2> QED BY <1>1, <1>2, <1>4, <2>1 DEF ReadsWhole
  <1> QED BY <1>3, <1>4

\* An upgrade stays to be made as long as it is not answered.
LEMMA UpgradesKeep ==
    ASSUME UpgradesPend, Up' => Up, Recovered(live)'.schema = Recovered(live).schema,
           (\E i \in Import : Pending(i)) => \E i \in Import : Pending(i)'
    PROVE  UpgradesPend'
  BY DEF UpgradesPend

LEMMA CutsKeep ==
    ASSUME CutsAreKnown, live' = live, Recovered(live)'.schema = Recovered(live).schema,
           cut \subseteq cut', Recording => Recording' \/ live \in cut',
           job'[Main] = job[Main] \/ job'[Main].at \notin {"run", "stuck"}
    PROVE  CutsAreKnown'
  BY DEF CutsAreKnown

\* The live file stays whole.
LEMMA WholeKeeps ==
    ASSUME IInv, Held, Databases, LiveFileIsWhole, Moves
    PROVE  LiveFileIsWhole'
  <1> SUFFICES Recovered(live)'.schema \notin {"empty", "garbage"} /\ OfOneOrigin(Recovered(live)'.page)
    BY DEF LiveFileIsWhole, OfOneOrigin
  <1>1. CASE Stays
    BY <1>1 DEF Stays, LiveFileIsWhole
  <1>2. ASSUME NEW c \in Connection, Commits(c)
        PROVE  Recovered(live)'.schema \notin {"empty", "garbage"} /\ OfOneOrigin(Recovered(live)'.page)
    <2> DEFINE new == Recovered(live)'
    <2>1. /\ new.schema = commit[c].schema
          /\ \A p \in Page : new.page[p].origin = Recovered(live).page[p].origin
      BY <1>2 DEF Commits
    <2> HIDE DEF new
    <2>2. OfOneOrigin(new.page)
      BY <2>1 DEF OfOneOrigin, LiveFileIsWhole
    <2>3. commit[c] # None /\ Ours(c) /\ journal # None
      BY <1>2 DEF Commits, Committing, Held, CommitFits
    <2>4. CASE c \in Request
      <3>1. commit[c].schema = Recovered(live).schema
        BY <2>3, <2>4 DEF Ours, Recovered
      <3> QED BY <2>1, <2>2, <3>1 DEF LiveFileIsWhole, new
    <2>5. CASE c \in Migrator
      <3>1. commit[c].schema = Brings(c) /\ (job[c].at = "list" \/ job[c].due \in DOMAIN After)
        BY <2>3, <2>5 DEF IInv, Types, CommitTypes, JobTypes
      <3>2. commit[c].schema \notin {"empty", "garbage"}
        BY <3>1 DEF Brings, After
      <3> QED BY <2>1, <2>2, <3>2 DEF new
    <2> QED BY <2>4, <2>5, MigratorsDiffer
  <1>3. ASSUME NEW i \in Import, Replaces(i)
        PROVE  Recovered(live)'.schema \notin {"empty", "garbage"} /\ OfOneOrigin(Recovered(live)'.page)
    <2>1. PICK schema \in Archives : Recovered(live)' = Filled(schema, i)
      BY <1>3 DEF Replaces
    <2>2. Recovered(live)'.schema = schema /\ \A p \in Page : Recovered(live)'.page[p].origin = i
      BY <2>1 DEF Filled
    <2> DEFINE new == Recovered(live)'
    <2>3. new.schema = schema /\ \A p \in Page : new.page[p].origin = i
      BY <2>2
    <2> HIDE DEF new
    <2>4. OfOneOrigin(new.page) /\ new.schema \notin {"empty", "garbage"}
      BY <2>3 DEF OfOneOrigin, Databases
    <2> QED BY <2>4 DEF new
  <1> QED BY <1>1, <1>2, <1>3 DEF Moves

-----------------------------------------------------------------------------
(* SQLite's steps, undisturbed *)

\* What a step of SQLite does not touch.
StagedIsLeft == staged # None => file'[staged] = file[staged]

\* A statement begins: nobody commits, and a journal that is found is of the live file.
LEMMA AccessAlone ==
    ASSUME IInv, Held, NEW n \in Inode, Access(n), ~disturbed', UNCHANGED <<live, staged, commit>>
    PROVE  /\ \A c \in Connection : commit[c] = None
           /\ CommitsAreLive' /\ OneCommits' /\ JournalIsHeld' /\ CommitFits'
           /\ Stays /\ StagedIsLeft /\ Unmet
           /\ n # live => Recovered(n) = file[n]
  <1>1. n # live => journal = None
    BY DEF Access
  <1>2. ASSUME NEW c \in Connection
        PROVE  commit[c] = None
    <2>1. CASE n = live
      BY <2>1 DEF Access, Committing, Held, CommitsAreLive
    <2>2. CASE n # live
      BY <1>1, <2>2, NoJournal
    <2> QED BY <2>1, <2>2
  <1>3. live \in Inode /\ staged \in Inode \cup {None}
    BY FilesAre
  <1>4. Recovered(n) \in Content
    BY RecoveredIs DEF IInv
  <1>5. /\ file'[n] = Recovered(n)
        /\ \A k \in Inode : k # n => file'[k] = file[k]
        /\ Unmet
    BY <1>4, PutEffect, PutUnmet DEF Access, IInv
  <1>6. n # live => Recovered(n) = file[n] /\ Recovered(live) = file[live]
    BY <1>1, NoJournal
  <1>7. file'[live] = Recovered(live)
    BY <1>3, <1>5, <1>6
  <1>8. journal' = None
    BY DEF Access
  <1>9. Stays
    BY <1>7, <1>8, NoJournalAfter DEF Stays
  <1>10. StagedIsLeft
    BY <1>3, <1>5, <1>6 DEF StagedIsLeft, Held, StagedApart
  <1>11. CommitsAreLive' /\ OneCommits' /\ JournalIsHeld' /\ CommitFits'
    BY <1>2, <1>8, NothingCommits
  <1> QED BY <1>2, <1>5, <1>6, <1>9, <1>10, <1>11

\* A commit begins: nobody else commits, and what a connection finds stays.
LEMMA SyncAlone ==
    ASSUME IInv, Held, NEW n \in Inode, NEW c \in Connection, NEW schema \in Schema,
           Sync_journal(c, n, schema), ~disturbed', UNCHANGED <<live, staged, job>>,
           IF c \in Request THEN schema = Recovered(n).schema
           ELSE Recovered(n).schema = IF job[c].at = "list" THEN "empty" ELSE job[c].due
    PROVE  /\ CommitsAreLive' /\ OneCommits' /\ JournalIsHeld' /\ CommitFits'
           /\ Stays /\ StagedIsLeft /\ Unmet
  <1>1. n = live
    BY DEF Sync_journal
  <1>2. \A d \in Connection : commit[d] = None
    BY <1>1 DEF Sync_journal, Committing, Held, CommitsAreLive
  <1>3. live \in Inode /\ staged \in Inode \cup {None} /\ Recovered(live) \in Content
    BY FilesAre
  <1>4. /\ file'[live] = Recovered(live)
        /\ \A k \in Inode : k # live => file'[k] = file[k]
        /\ Unmet
    BY <1>1, <1>3, PutEffect, PutUnmet DEF Sync_journal, IInv
  <1>5. PICK pages \in SUBSET Page :
           /\ Header \in pages
           /\ journal' = [schema |-> Recovered(n).schema,
                          page   |-> [p \in pages |-> Recovered(n).page[p]]]
           /\ commit' = [commit EXCEPT ![c] = [inode |-> n, schema |-> schema, todo |-> pages]]
    BY DEF Sync_journal
  <1>6. /\ journal'.schema = Recovered(live).schema /\ DOMAIN journal'.page = pages
        /\ \A p \in pages : journal'.page[p] = Recovered(live).page[p]
    BY <1>1, <1>5
  <1>7. journal' # None
    BY SyncEffect, NoneIsNone DEF IInv
  <1>8. /\ commit'[c] = [inode |-> live, schema |-> schema, todo |-> pages]
        /\ \A d \in Connection : d # c => commit'[d] = None
    BY <1>1, <1>2, <1>5 DEF IInv, Types, CommitTypes
  <1>9. commit'[c] # None
    <2>1. live \in Nat
      BY <1>3 DEF Inode
    <2>2. [inode |-> live, schema |-> schema, todo |-> pages] \in Commit
      BY <2>1 DEF Commit
    <2> QED BY <1>8, <2>2, NoneIsNone
  <1>10. CommitsAreLive' /\ OneCommits' /\ JournalIsHeld'
    BY <1>8, <1>9 DEF CommitsAreLive, OneCommits, JournalIsHeld
  <1>11. Ours(c)'
    BY <1>1, <1>6, <1>8 DEF Ours
  <1>12. CommitFits'
    <2> SUFFICES /\ commit'[c].todo \subseteq DOMAIN journal'.page
                 /\ file'[live'].schema = IF Header \in commit'[c].todo THEN journal'.schema ELSE commit'[c].schema
                 /\ \A p \in DOMAIN journal'.page :
                       file'[live'].page[p] = IF p \in commit'[c].todo THEN journal'.page[p]
                                              ELSE [journal'.page[p] EXCEPT !.by = c]
      BY <1>7, <1>8, <1>11 DEF CommitFits
    <2> QED BY <1>4, <1>5, <1>6, <1>8
  <1>13. Stays
    <2>1. Recovered(live)' =
             [schema |-> journal'.schema,
              page   |-> [p \in Page |-> IF p \in DOMAIN journal'.page THEN journal'.page[p]
                                         ELSE file'[live].page[p]]]
      BY <1>7 DEF Recovered
    <2> DEFINE r == Recovered(live)
    <2>2. /\ DOMAIN journal'.page = pages /\ journal'.schema = r.schema
          /\ \A p \in Page : (IF p \in DOMAIN journal'.page THEN journal'.page[p]
                              ELSE file'[live].page[p]) = r.page[p]
      BY <1>4, <1>6
    <2>3. Recovered(live)' = [schema |-> r.schema, page |-> [p \in Page |-> r.page[p]]]
      BY <2>1, <2>2
    <2>4. r \in Content
      BY <1>3
    <2> HIDE DEF r
    <2>5. r = [schema |-> r.schema, page |-> [p \in Page |-> r.page[p]]]
      BY <2>4 DEF Content
    <2> QED BY <2>3, <2>5 DEF Stays, r
  <1>14. StagedIsLeft
    BY <1>3, <1>4 DEF StagedIsLeft, Held, StagedApart
  <1> QED BY <1>4, <1>10, <1>12, <1>13, <1>14

\* A page is written: the journal still has the old text of it.
LEMMA PageAlone ==
    ASSUME IInv, Held, NEW c \in Connection, Write_page(c)
    PROVE  /\ CommitsAreLive' /\ OneCommits' /\ JournalIsHeld' /\ CommitFits'
           /\ Stays /\ StagedIsLeft /\ Unmet
  <1>1. /\ commit[c] # None /\ commit[c] \in Commit
        /\ UNCHANGED <<live, staged, journal, pool, guard, req, job, crashes, disturbed, cut>>
    BY PageKeeps DEF Write_page
  <1>2. /\ commit[c].inode = live /\ journal # None
        /\ commit[c].todo \subseteq DOMAIN journal.page
        /\ file[live].schema = IF Header \in commit[c].todo THEN journal.schema ELSE commit[c].schema
        /\ \A p \in DOMAIN journal.page :
              file[live].page[p] = IF p \in commit[c].todo THEN journal.page[p]
                                   ELSE [journal.page[p] EXCEPT !.by = c]
        /\ Ours(c)
    BY <1>1 DEF Held, CommitsAreLive, CommitFits
  <1>3. live \in Inode /\ staged \in Inode \cup {None} /\ file[live] \in Content
    BY FilesAre
  <1>4. PICK p \in commit[c].todo :
           /\ Put(live, [schema |-> IF p = Header THEN commit[c].schema ELSE file[live].schema,
                         page   |-> [file[live].page EXCEPT ![p].by = c]])
           /\ commit' = [commit EXCEPT ![c].todo = @ \ {p}]
    BY <1>2 DEF Write_page
  <1>5. p \in Page /\ p \in DOMAIN journal.page /\ commit[c].schema \in Schema
    BY <1>1, <1>2, <1>4 DEF Commit
  <1> DEFINE new == [schema |-> IF p = Header THEN commit[c].schema ELSE file[live].schema,
                     page   |-> [file[live].page EXCEPT ![p].by = c]]
  <1>6. /\ new \in Content /\ new.schema = (IF p = Header THEN commit[c].schema ELSE file[live].schema)
        /\ new.page[p] = [journal.page[p] EXCEPT !.by = c]
        /\ \A q \in Page : q # p => new.page[q] = file[live].page[q]
    <2>1. PICK f \in [Page -> Stamp] : f = file[live].page
      BY <1>3 DEF Content
    <2>2. /\ [f EXCEPT ![p].by = c] \in [Page -> Stamp]
          /\ [f EXCEPT ![p].by = c][p] = [f[p] EXCEPT !.by = c]
          /\ \A q \in Page : q # p => [f EXCEPT ![p].by = c][q] = f[q]
      BY <1>5 DEF Stamp
    <2>3. f[p] = journal.page[p]
      BY <1>2, <1>4, <1>5, <2>1
    <2>4. file[live].schema \in Schema
      BY <1>3 DEF Content
    <2> QED BY <1>5, <2>1, <2>2, <2>3, <2>4 DEF Content
  <1> HIDE DEF new
  <1>7. Put(live, new)
    BY <1>4 DEF new
  <1>8. /\ file'[live] = new
        /\ \A k \in Inode : k # live => file'[k] = file[k]
        /\ Unmet
    BY <1>3, <1>6, <1>7, PutEffect, PutUnmet DEF IInv
  <1>9. /\ commit'[c].inode = live /\ commit'[c].schema = commit[c].schema
        /\ commit'[c].todo = commit[c].todo \ {p}
        /\ \A d \in Connection : d # c => commit'[d] = None
    <2>1. PICK old \in Commit : old = commit[c]
      BY <1>1
    <2>2. /\ [old EXCEPT !.todo = @ \ {p}].inode = old.inode
          /\ [old EXCEPT !.todo = @ \ {p}].schema = old.schema
          /\ [old EXCEPT !.todo = @ \ {p}].todo = old.todo \ {p}
      BY DEF Commit
    <2>3. commit' = [commit EXCEPT ![c] = [old EXCEPT !.todo = @ \ {p}]]
      BY <1>4, <2>1
    <2>4. \A d \in Connection : d # c => commit[d] = None
      BY <1>1 DEF Held, OneCommits
    <2> QED BY <1>2, <2>1, <2>2, <2>3, <2>4 DEF IInv, Types, CommitTypes
  <1>10. commit'[c] # None
    <2>1. PICK old \in Commit : old = commit[c]
      BY <1>1
    <2>2. [old EXCEPT !.todo = @ \ {p}] \in Commit
      BY DEF Commit
    <2>3. commit' = [commit EXCEPT ![c] = [old EXCEPT !.todo = @ \ {p}]]
      BY <1>4, <2>1
    <2> QED BY <2>2, <2>3, NoneIsNone DEF IInv, Types, CommitTypes
  <1>11. CommitsAreLive' /\ OneCommits' /\ JournalIsHeld'
    BY <1>1, <1>9, <1>10 DEF CommitsAreLive, OneCommits, JournalIsHeld
  <1>12. CommitFits'
    <2>1. Ours(c)'
      BY <1>1, <1>2, <1>9 DEF Ours
    <2>2. /\ commit'[c].todo \subseteq DOMAIN journal'.page
          /\ file'[live].schema = IF Header \in commit'[c].todo THEN journal'.schema ELSE commit'[c].schema
      BY <1>1, <1>2, <1>4, <1>6, <1>8, <1>9
    <2>3. ASSUME NEW q \in DOMAIN journal.page
          PROVE  file'[live].page[q] = IF q \in commit'[c].todo THEN journal.page[q]
                                       ELSE [journal.page[q] EXCEPT !.by = c]
      <3>1. q \in Page
        BY <1>2, JournalHolds DEF IInv, Types, FileTypes
      <3> QED BY <1>2, <1>6, <1>8, <1>9, <3>1
    <2> QED BY <1>1, <1>2, <1>9, <1>10, <2>1, <2>2, <2>3 DEF CommitFits
  <1>13. Stays
    <2>1. Recovered(live) = [schema |-> journal.schema,
             page |-> [q \in Page |-> IF q \in DOMAIN journal.page THEN journal.page[q] ELSE file[live].page[q]]]
      BY <1>2 DEF Recovered
    <2>2. Recovered(live)' = [schema |-> journal.schema,
             page |-> [q \in Page |-> IF q \in DOMAIN journal.page THEN journal.page[q] ELSE file'[live].page[q]]]
      BY <1>1, <1>2 DEF Recovered
    <2>3. \A q \in Page : q \notin DOMAIN journal.page => file'[live].page[q] = file[live].page[q]
      BY <1>5, <1>6, <1>8
    <2> QED BY <1>1, <2>1, <2>2, <2>3 DEF Stays
  <1>14. StagedIsLeft
    BY <1>3, <1>8 DEF StagedIsLeft, Held, StagedApart
  <1> QED BY <1>8, <1>11, <1>12, <1>13, <1>14

\* A commit ends, and what a connection finds is what was committed.
LEMMA DeleteAlone ==
    ASSUME IInv, Held, NEW c \in Connection, Delete_journal(c), UNCHANGED <<file, live, staged, exp>>
    PROVE  /\ CommitsAreLive' /\ OneCommits' /\ JournalIsHeld' /\ CommitFits'
           /\ Commits(c) /\ StagedIsLeft /\ Unmet /\ Recovered(live)' = file'[live]
           /\ Ours(c) /\ Recovered(live)'.schema = commit[c].schema
           /\ Recovered(live).schema = journal.schema
  <1>1. commit[c] # None /\ commit[c].todo = {} /\ journal' = None /\ commit' = [commit EXCEPT ![c] = None]
    BY DEF Delete_journal
  <1>2. /\ commit[c].inode = live /\ journal # None
        /\ file[live].schema = commit[c].schema
        /\ \A p \in DOMAIN journal.page : file[live].page[p] = [journal.page[p] EXCEPT !.by = c]
        /\ Ours(c)
        /\ \A d \in Connection : d # c => commit[d] = None
    BY <1>1 DEF Held, CommitsAreLive, CommitFits, OneCommits
  <1>3. \A d \in Connection : commit'[d] = None
    BY <1>1, <1>2 DEF IInv, Types, CommitTypes
  <1>4. CommitsAreLive' /\ OneCommits' /\ JournalIsHeld' /\ CommitFits'
    BY <1>1, <1>3, NothingCommits
  <1>5. Recovered(live)' = file'[live] /\ file'[live] = file[live]
    BY <1>1, NoJournalAfter
  <1>6. Recovered(live).schema = journal.schema
    BY <1>2 DEF Recovered
  <1>7. /\ \A p \in Page : Recovered(live).page[p] =
              IF p \in DOMAIN journal.page THEN journal.page[p] ELSE file[live].page[p]
    BY <1>2 DEF Recovered
  <1>8. \A p \in DOMAIN journal.page : p \in Page /\ journal.page[p] \in Stamp
    BY <1>2, JournalHolds DEF IInv, Types, FileTypes
  <1>9. ASSUME NEW p \in Page
        PROVE  file[live].page[p] = IF p \in DOMAIN journal.page
                                    THEN [origin |-> Recovered(live).page[p].origin, by |-> c]
                                    ELSE Recovered(live).page[p]
    <2>1. CASE p \in DOMAIN journal.page
      <3>1. PICK s \in Stamp : s = journal.page[p]
        BY <1>8, <2>1
      <3>2. [s EXCEPT !.by = c] = [origin |-> s.origin, by |-> c]
        BY DEF Stamp
      <3> QED BY <1>2, <1>7, <2>1, <3>1, <3>2
    <2>2. CASE p \notin DOMAIN journal.page
      BY <1>7, <2>2
    <2> QED BY <2>1, <2>2
  <1>10. Commits(c)
    <2>1. PICK f \in Content : f = file[live]
      BY FilesAre
    <2>2. f = [schema |-> f.schema, page |-> [p \in Page |-> f.page[p]]]
      BY DEF Content
    <2>3. Recovered(live)' =
             [schema |-> commit[c].schema,
              page   |-> [p \in Page |-> IF p \in DOMAIN journal.page
                                         THEN [origin |-> Recovered(live).page[p].origin, by |-> c]
                                         ELSE Recovered(live).page[p]]]
      BY <1>2, <1>5, <1>9, <2>1, <2>2
    <2> QED BY <1>1, <1>2, <1>3, <2>3 DEF Commits, Committing
  <1>11. StagedIsLeft /\ Unmet
    BY DEF StagedIsLeft, Unmet
  <1> QED BY <1>2, <1>4, <1>5, <1>6, <1>10, <1>11

-----------------------------------------------------------------------------
(* Requests and exports, which move no job *)

\* A step that leaves the schema at the path, and the file of each job, as they are.
LEMMA SchemaKeeps ==
    ASSUME IInv, Alone, live' = live, StagedApart', StagingIsAlone', StagedIsWhole', ExportsAreRead',
           CommitsAreLive', OneCommits', JournalIsHeld', CommitFits',
           Moves, Recovered(live)'.schema = Recovered(live).schema,
           Up' => Up, (\E i \in Import : Pending(i)) => \E i \in Import : Pending(i)',
           cut \subseteq cut', Recording => Recording' \/ live \in cut',
           job'[Main] = job[Main] \/ job'[Main].at \notin {"run", "stuck"}
    PROVE  Alone'
  <1>1. UpgradesPend'
    BY UpgradesKeep DEF Alone
  <1>2. Migratable => CutsAreKnown'
    BY CutsKeep DEF Alone
  <1>3. Databases => LiveFileIsWhole'
    BY WholeKeeps DEF Alone
  <1> QED BY <1>1, <1>2, <1>3 DEF Alone, Held

LEMMA JoblessKeeps ==
    ASSUME IInv, Alone, UNCHANGED <<live, staged, job, cut>>, StagedIsLeft, ExportsAreRead',
           CommitsAreLive', OneCommits', JournalIsHeld', CommitFits',
           Moves, Recovered(live)'.schema = Recovered(live).schema
    PROVE  Alone'
  <1>1. StagingStays /\ (Up' => Up)
    BY DEF StagingStays, Staging, Up
  <1>2. /\ \A i \in Import : Pending(i) => Pending(i)'
        /\ Recording => Recording'
    BY DEF Pending, Recording
  <1>3. StagedApart' /\ StagingIsAlone' /\ StagedIsWhole'
    BY <1>1, StagedKeeps DEF Alone, StagedIsLeft
  <1> QED BY <1>1, <1>2, <1>3, SchemaKeeps

\* So for a step at which what a connection finds stays.
LEMMA StaysKeeps ==
    ASSUME IInv, Alone, UNCHANGED <<live, staged, job, cut>>, StagedIsLeft, Unmet,
           CommitsAreLive', OneCommits', JournalIsHeld', CommitFits', Stays
    PROVE  Alone' /\ Moves
  <1>1. Moves /\ Recovered(live)' = Recovered(live)
    BY DEF Moves, Stays
  <1>2. ExportsAreRead'
    BY <1>1, ExportsKeep DEF Alone
  <1> QED BY <1>1, <1>2, JoblessKeeps

\* A step that touches neither files nor journal.
LEMMA QuietAlone ==
    ASSUME IInv, Alone, UNCHANGED <<file, live, staged, journal, commit, exp>>, Up' => Up,
           \A m \in Migrator : commit[m] # None => job'[m] = job[m]
    PROVE  /\ CommitsAreLive' /\ OneCommits' /\ JournalIsHeld' /\ CommitFits'
           /\ Stays /\ Moves /\ StagedIsLeft /\ Unmet /\ ExportsAreRead'
           /\ Recovered(live)'.schema = Recovered(live).schema
  <1>1. CommitsAreLive' /\ OneCommits' /\ JournalIsHeld' /\ CommitFits' /\ Recovered(live)' = Recovered(live)
    BY CommitsKeep DEF Alone
  <1>2. StagedIsLeft /\ Unmet
    BY DEF StagedIsLeft, Unmet
  <1>3. ExportsAreRead'
    BY <1>1, <1>2, ExportsKeep DEF Alone
  <1> QED BY <1>1, <1>2, <1>3 DEF Stays, Moves

LEMMA RequestAlone ==
    ASSUME IInv, Alone, ~disturbed', NEW r \in Request,
           conn(r, "idle", "auth") \/ conn(r, "idle", "read") \/ Request_step(r)
    PROVE  Alone' /\ Moves
  <1>1. ASSUME NEW from, NEW to, conn(r, from, to) \/ Request_busy(r)
        PROVE  Alone' /\ Moves
    <2>1. UNCHANGED <<file, live, staged, journal, commit, job, exp, cut>>
      BY <1>1 DEF conn, Request_busy
    <2>2. Up' => Up
      BY <2>1 DEF Up
    <2>3. /\ CommitsAreLive' /\ OneCommits' /\ JournalIsHeld' /\ CommitFits'
          /\ Stays /\ StagedIsLeft /\ Unmet
      BY <2>1, <2>2, QuietAlone
    <2> QED BY <2>1, <2>3, StaysKeeps
  <1>2. ASSUME NEW from \in {"auth", "read", "write"}, NEW to \in {"authorized", "write", "idle"},
               Read(r, from, to)
        PROVE  Alone' /\ Moves
    <2>1. Access(req[r].inode) /\ UNCHANGED <<live, staged, commit, job, cut>> /\ req[r].inode \in Inode
      BY <1>2, ReadKeeps DEF Read
    <2>2. /\ CommitsAreLive' /\ OneCommits' /\ JournalIsHeld' /\ CommitFits'
          /\ Stays /\ StagedIsLeft /\ Unmet
      BY <2>1, AccessAlone DEF Alone
    <2> QED BY <2>1, <2>2, StaysKeeps
  <1>3. CASE Write_begin(r)
    <2> DEFINE schema == Recovered(req[r].inode).schema
    <2>1. /\ Sync_journal(r, req[r].inode, schema) /\ req[r].inode \in Inode
          /\ UNCHANGED <<live, staged, job, cut>>
      BY <1>3, WriteBeginKeeps DEF Write_begin
    <2>2. schema \in Schema
      BY <2>1, RecoveredIs DEF IInv, Content
    <2>3. schema = Recovered(req[r].inode).schema /\ r \in Connection
      BY MigratorsDiffer
    <2> HIDE DEF schema
    <2>4. /\ CommitsAreLive' /\ OneCommits' /\ JournalIsHeld' /\ CommitFits'
          /\ Stays /\ StagedIsLeft /\ Unmet
      BY <2>1, <2>2, <2>3, SyncAlone DEF Alone
    <2> QED BY <2>1, <2>4, StaysKeeps
  <1>4. CASE Write_page(r)
    <2>1. UNCHANGED <<live, staged, job, cut>>
      BY <1>4 DEF Write_page
    <2>2. /\ CommitsAreLive' /\ OneCommits' /\ JournalIsHeld' /\ CommitFits'
          /\ Stays /\ StagedIsLeft /\ Unmet
      BY <1>4, PageAlone, MigratorsDiffer DEF Alone
    <2> QED BY <2>1, <2>2, StaysKeeps
  <1>5. CASE Write_end(r)
    <2>1. Delete_journal(r) /\ UNCHANGED <<file, live, staged, job, exp, cut>> /\ r \in Connection
      BY <1>5, MigratorsDiffer DEF Write_end
    <2>2. /\ CommitsAreLive' /\ OneCommits' /\ JournalIsHeld' /\ CommitFits'
          /\ Commits(r) /\ StagedIsLeft /\ Unmet /\ Recovered(live)' = file'[live]
          /\ Recovered(live)'.schema = Recovered(live).schema
      BY <2>1, DeleteAlone DEF Alone, Ours
    <2>3. Moves
      BY <2>1, <2>2 DEF Moves
    <2>4. ExportsAreRead'
      BY <2>1, <2>2, ExportsKeep DEF Alone
    <2> QED BY <2>1, <2>2, <2>3, <2>4, JoblessKeeps
  <1>6. ASSUME Read(r, "read", IF r \in Writer THEN "write" ELSE "idle")
        PROVE  Alone' /\ Moves
    BY <1>2, <1>6
  <1>7. Read(r, "auth", "authorized") \/ Read(r, "write", "idle") => Alone' /\ Moves
    BY <1>2
  <1> QED BY <1>1, <1>3, <1>4, <1>5, <1>6, <1>7 DEF Request_step

\* An export begins where nobody commits, and reads what it has open.
LEMMA ExportAlone ==
    ASSUME IInv, Alone, NEW e \in Export, Export_open(e) \/ Export_read(e)
    PROVE  Alone' /\ Moves
  <1>1. UNCHANGED <<file, live, staged, journal, commit, job, cut>>
    BY DEF Export_open, Export_read
  <1>2. /\ CommitsAreLive' /\ OneCommits' /\ JournalIsHeld' /\ CommitFits'
        /\ Recovered(live)' = Recovered(live)
    BY <1>1, CommitsKeep DEF Alone, Up
  <1>3. StagedIsLeft
    BY <1>1 DEF StagedIsLeft
  <1>4. exp[e] \in [at : {"new", "read", "done", "failed"}, inode : Nat \cup {None},
                    copy : Copy, met : BOOLEAN]
    BY DEF IInv, Types, ExportTypes
  <1>5. /\ \A f \in Export : f # e => exp'[f] = exp[f]
        /\ \/ Export_open(e) /\ exp'[e] = [at |-> "read", inode |-> live, copy |-> << >>,
                                           met |-> Committing(live) # {}]
           \/ \E p \in Page : /\ exp[e].at = "read" /\ exp'[e].met = exp[e].met /\ exp'[e].inode = exp[e].inode
                              /\ exp'[e].copy = [q \in DOMAIN exp[e].copy \cup {p} |->
                                    IF q = p THEN file[exp[e].inode].page[p] ELSE exp[e].copy[q]]
                              /\ exp'[e].at = IF DOMAIN exp'[e].copy = Page THEN "done" ELSE "read"
    <2>1. CASE Export_open(e)
      BY <2>1 DEF Export_open, IInv, Types, ExportTypes
    <2>2. CASE Export_read(e)
      <3>1. PICK p \in Page \ DOMAIN exp[e].copy :
               LET copy == [q \in DOMAIN exp[e].copy \cup {p} |->
                              IF q = p THEN file[exp[e].inode].page[p] ELSE exp[e].copy[q]] IN
               exp' = [exp EXCEPT ![e].copy = copy, ![e].at = IF DOMAIN copy = Page THEN "done" ELSE "read"]
        BY <2>2 DEF Export_read
      <3> DEFINE copy == [q \in DOMAIN exp[e].copy \cup {p} |->
                            IF q = p THEN file[exp[e].inode].page[p] ELSE exp[e].copy[q]]
                 at == IF DOMAIN copy = Page THEN "done" ELSE "read"
      <3>2. exp' = [exp EXCEPT ![e].copy = copy, ![e].at = at] /\ p \in Page /\ exp[e].at = "read"
        BY <2>2, <3>1 DEF Export_read
      <3>3. at = IF DOMAIN copy = Page THEN "done" ELSE "read"
        OBVIOUS
      <3>4. copy = [q \in DOMAIN exp[e].copy \cup {p} |->
                      IF q = p THEN file[exp[e].inode].page[p] ELSE exp[e].copy[q]]
        OBVIOUS
      <3> HIDE DEF copy, at
      <3>5. /\ \A f \in Export : f # e => exp'[f] = exp[f]
            /\ exp'[e].met = exp[e].met /\ exp'[e].inode = exp[e].inode
            /\ exp'[e].copy = copy /\ exp'[e].at = at
        BY <1>4, <3>2 DEF IInv, Types, ExportTypes
      <3> QED BY <3>2, <3>3, <3>4, <3>5
    <2> QED BY <2>1, <2>2
  <1>6. ASSUME NEW f \in Export, exp'[f].at \in {"read", "done"}, ~exp'[f].met
        PROVE  ReadsWhole(f)'
    <2>1. CASE f # e
      <3>1. exp'[f] = exp[f] /\ ReadsWhole(f)
        BY <1>5, <1>6, <2>1 DEF Alone, ExportsAreRead
      <3> QED BY <1>1, <1>2, <3>1 DEF ReadsWhole, Found
    <2>2. CASE /\ f = e /\ Up
               /\ exp'[e] = [at |-> "read", inode |-> live, copy |-> << >>,
                             met |-> Committing(live) # {}]
      <3>1. \A c \in Connection : commit[c] = None
        <4> DEFINE met == Committing(live) # {}
        <4>1. exp'[e] = [at |-> "read", inode |-> live, copy |-> << >>, met |-> met]
          BY <2>2
        <4>2. met \in BOOLEAN
          OBVIOUS
        <4>3. (~met) = (Committing(live) = {})
          OBVIOUS
        <4> HIDE DEF met
        <4>4. ~met
          BY <1>6, <2>2, <4>1, <4>2
        <4> QED BY <4>3, <4>4 DEF Committing, Alone, Held, CommitsAreLive
      <3>2. journal = None
        BY <2>2, <3>1 DEF Alone, Held, JournalIsHeld
      <3>3. Recovered(live)' = file'[live']
        BY <1>1, <3>2, NoJournalAfter
      <3> QED BY <2>2, <3>3 DEF ReadsWhole
    <2>3. ASSUME f = e, NEW p \in Page, exp[e].at = "read", exp'[e].met = exp[e].met,
                 exp'[e].inode = exp[e].inode,
                 exp'[e].copy = [q \in DOMAIN exp[e].copy \cup {p} |->
                                    IF q = p THEN file[exp[e].inode].page[p] ELSE exp[e].copy[q]],
                 exp'[e].at = IF DOMAIN exp'[e].copy = Page THEN "done" ELSE "read"
          PROVE  ReadsWhole(f)'
      <3>1. ReadsWhole(e)
        BY <1>6, <2>3 DEF Alone, ExportsAreRead
      <3>2. /\ Found(exp[e].inode) = file[exp[e].inode]
            /\ Found(exp[e].inode)' = Found(exp[e].inode)
        BY <1>1, <1>2, <2>3, <3>1 DEF ReadsWhole, Found
      <3>3. \A q \in DOMAIN exp'[e].copy : exp'[e].copy[q] = Found(exp[e].inode).page[q]
        BY <2>3, <3>1, <3>2 DEF ReadsWhole
      <3>4. exp'[e].inode = live' => Recovered(live)' = file'[live']
        BY <1>1, <1>2, <2>3, <3>1 DEF ReadsWhole
      <3>5. exp'[e].at = "done" => DOMAIN exp'[e].copy = Page
        BY <2>3
      <3> QED BY <2>3, <3>2, <3>3, <3>4, <3>5 DEF ReadsWhole
    <2> QED BY <1>5, <2>1, <2>2, <2>3 DEF Export_open
  <1>7. ExportsAreRead'
    BY <1>6 DEF ExportsAreRead
  <1>8. Moves /\ Recovered(live)'.schema = Recovered(live).schema
    BY <1>1, <1>2 DEF Moves, Stays
  <1> QED BY <1>1, <1>2, <1>3, <1>7, <1>8, JoblessKeeps

-----------------------------------------------------------------------------
(* Migrations *)

\* One job moves, and others do not.
Others(m) == \A k \in Migrator : k # m => job'[k] = job[k]

LEMMA OthersStage ==
    ASSUME NEW m \in Migrator, Others(m), job'[m].at \notin {"write", "establish", "swap", "rename"}
    PROVE  StagingStays
  BY MigratorsDiffer DEF Others, StagingStays, Staging

\* A job moves that touches neither files nor journal.
LEMMA QuietJobAlone ==
    ASSUME IInv, Alone, UNCHANGED <<file, live, staged, journal, commit, exp>>,
           NEW m \in Migrator, Others(m), commit[m] = None, Up' => Up, StagingStays,
           (\E i \in Import : Pending(i)) => \E i \in Import : Pending(i)',
           cut \subseteq cut', Recording => Recording' \/ live \in cut',
           m = Main => job'[Main].at \notin {"run", "stuck"}
    PROVE  Alone' /\ Moves
  <1>1. /\ CommitsAreLive' /\ OneCommits' /\ JournalIsHeld' /\ CommitFits'
        /\ Moves /\ StagedIsLeft /\ ExportsAreRead'
        /\ Recovered(live)'.schema = Recovered(live).schema
    BY QuietAlone DEF Others
  <1>2. StagedApart' /\ StagingIsAlone' /\ StagedIsWhole'
    BY <1>1, StagedKeeps DEF Alone, StagedIsLeft
  <1>3. job'[Main] = job[Main] \/ job'[Main].at \notin {"run", "stuck"}
    BY MigratorsDiffer DEF Others
  <1> QED BY <1>1, <1>2, <1>3, SchemaKeeps

\* A job that records add_users_table stays, unless it is the one that moves.
LEMMA RecordingStays ==
    ASSUME live' = live, NEW m \in Migrator, Others(m),
           job[m].at # "run" \/ job[m].inode # live \/ job[m].due # "unrecorded"
    PROVE  Recording => Recording'
  BY DEF Recording, Others

LEMMA PendingStays ==
    ASSUME live' = live, NEW m \in Migrator, Others(m), Pending(m) => m \in Import /\ Pending(m)'
    PROVE  (\E i \in Import : Pending(i)) => \E i \in Import : Pending(i)'
  BY MigratorsDiffer DEF Pending, Others

LEMMA MigrateConnAlone ==
    ASSUME IInv, Alone, NEW m \in Migrator, Migrate_conn(m)
    PROVE  Alone' /\ Moves
  <1>1. /\ job[m].at = "migrate" /\ guard = None
        /\ UNCHANGED <<file, live, staged, journal, commit, exp, cut>>
    BY DEF Migrate_conn
  <1>2. job'[m] = Step("list", pool) /\ Others(m)
    BY MigrateConnKeeps DEF Others
  <1>3. job'[m].at = "list" /\ job'[m].inode = pool
    BY <1>2 DEF Step
  <1>4. commit[m] = None
    BY <1>1 DEF IInv, Types, CommitTypes
  <1>5. Up' => Up
    BY <1>2, <1>3, MigratorsDiffer DEF Up, Others
  <1>6. StagingStays
    BY <1>2, <1>3, OthersStage
  <1>7. Recording => Recording'
    BY <1>1, <1>2, RecordingStays
  <1>8. (\E i \in Import : Pending(i)) => \E i \in Import : Pending(i)'
    <2>1. CASE m = Main
      <3>1. \A i \in Import : Pending(i) => Pending(i)'
        BY <1>1, <1>2, <2>1, MigratorsDiffer DEF Pending, Others
      <3> QED BY <3>1
    <2>2. CASE m \in Import
      <3>1. Up
        BY <1>1, <2>2, ImportsNeedServer
      <3>2. pool = live \/ \E j \in Import : job[j].at = "cut_off"
        BY <1>1, <3>1 DEF IInv, Exclusive, Up
      <3>3. CASE pool = live
        <4>1. Pending(m)'
          BY <1>1, <1>3, <3>3 DEF Pending
        <4> QED BY <2>2, <4>1
      <3>4. ASSUME NEW j \in Import, job[j].at = "cut_off"
            PROVE  Pending(j)'
        BY <1>1, <1>2, <3>4, MigratorsDiffer DEF Pending, Others
      <3> QED BY <3>2, <3>3, <3>4
    <2> QED BY <2>1, <2>2, MigratorsDiffer
  <1> QED BY <1>1, <1>2, <1>3, <1>4, <1>5, <1>6, <1>7, <1>8, QuietJobAlone

LEMMA MigrateBusyAlone ==
    ASSUME IInv, Alone, NEW m \in Migrator, Migrate_busy(m)
    PROVE  Alone' /\ Moves
  <1>1. /\ commit[m] = None /\ cut' = cut \cup Unrecorded(m)
        /\ UNCHANGED <<file, live, staged, journal, commit, exp>>
    BY DEF Migrate_busy
  <1>2. m \in Import /\ Up /\ job'[m] = Failed(m) /\ Others(m)
    BY MigrateBusyKeeps DEF Others
  <1>3. m # Main /\ job'[m].at = "failed"
    BY <1>2, MigratorsDiffer DEF Failed, Step
  <1>4. StagingStays
    BY <1>2, <1>3, OthersStage
  <1>5. (\E i \in Import : Pending(i)) => \E i \in Import : Pending(i)'
    <2>1. Pending(m)'
      BY <1>3 DEF Pending
    <2> QED BY <1>2, <2>1
  <1>6. Recording => Recording' \/ live \in cut'
    <2>1. CASE job[m].at # "run" \/ job[m].inode # live \/ job[m].due # "unrecorded"
      BY <1>1, <1>2, <2>1, RecordingStays
    <2>2. CASE job[m].inode = live /\ job[m].due = "unrecorded"
      BY <1>1, <2>2 DEF Unrecorded
    <2> QED BY <2>1, <2>2
  <1>7. cut \subseteq cut'
    BY <1>1
  <1> QED BY <1>1, <1>2, <1>3, <1>4, <1>5, <1>6, <1>7, QuietJobAlone

LEMMA MigrateSyncAlone ==
    ASSUME IInv, Alone, ~disturbed', NEW m \in Migrator, Migrate_set_up(m) \/ Migrate_begin(m)
    PROVE  Alone' /\ Moves
  <1>1. /\ job[m].at \in {"list", "run"} /\ job[m].inode \in Inode
        /\ UNCHANGED job /\ Sync_journal(m, job[m].inode, Brings(m))
    BY MigrateSyncKeeps
  <1>2. UNCHANGED <<live, staged, cut>>
    BY DEF Migrate_set_up, Migrate_begin
  <1>3. Recovered(job[m].inode).schema = IF job[m].at = "list" THEN "empty" ELSE job[m].due
    BY DEF Migrate_set_up, Migrate_begin
  <1>4. Brings(m) \in Schema
    <2>1. job[m].at = "run" => job[m].due \in DOMAIN After
      BY DEF IInv, Types, JobTypes
    <2> QED BY <1>1, <2>1 DEF Brings, Schema, After
  <1>5. m \in Connection /\ m \notin Request
    BY MigratorsDiffer
  <1>6. /\ CommitsAreLive' /\ OneCommits' /\ JournalIsHeld' /\ CommitFits'
        /\ Stays /\ StagedIsLeft /\ Unmet
    BY <1>1, <1>2, <1>3, <1>4, <1>5, SyncAlone DEF Alone
  <1> QED BY <1>1, <1>2, <1>6, StaysKeeps

LEMMA MigratePageAlone ==
    ASSUME IInv, Alone, NEW m \in Migrator, Write_page(m)
    PROVE  Alone' /\ Moves
  <1>1. UNCHANGED <<live, staged, job, cut>>
    BY DEF Write_page
  <1>2. /\ CommitsAreLive' /\ OneCommits' /\ JournalIsHeld' /\ CommitFits'
        /\ Stays /\ StagedIsLeft /\ Unmet
    BY PageAlone, MigratorsDiffer DEF Alone
  <1> QED BY <1>1, <1>2, StaysKeeps

\* A migration has committed: its file has the schema that it brings, and whoever
\* made it goes on from there.
LEMMA MigrateCommitAlone ==
    ASSUME IInv, Alone, NEW m \in Migrator, Migrate_commit(m)
    PROVE  Alone' /\ Moves
  <1>1. /\ Delete_journal(m) /\ UNCHANGED <<file, live, staged, exp, cut>> /\ commit[m] # None
        /\ m \in Connection
    BY MigratorsDiffer DEF Migrate_commit, Delete_journal
  <1>2. /\ CommitsAreLive' /\ OneCommits' /\ JournalIsHeld' /\ CommitFits'
        /\ Commits(m) /\ StagedIsLeft /\ Unmet /\ Recovered(live)' = file'[live]
        /\ Recovered(live)'.schema = commit[m].schema
    BY <1>1, DeleteAlone DEF Alone
  <1>3. /\ job[m].at \in {"list", "run"} /\ Others(m) /\ Outcome(m, job'[m])
        /\ commit[m].schema = Brings(m)
        /\ job'[m] = CASE Brings(m) = "set_up"  -> job[m]
                       [] Brings(m) = "current" -> Succeeded(m)
                       [] OTHER -> [job[m] EXCEPT !.due = Brings(m)]
    BY MigrateCommitKeeps DEF Others
  <1>4. /\ job[m] \in Job /\ job[m].inode = live
        /\ job[m].at = "run" => job[m].due \in DOMAIN After
    BY <1>1 DEF IInv, Types, CommitTypes, JobTypes, Alone, Held, CommitsAreLive
  <1> DEFINE schema == Brings(m)
  <1>5. /\ schema \notin {"empty", "garbage"}
        /\ schema = "set_up" \/ job[m].at = "run"
    BY <1>3, <1>4 DEF Brings, After
  <1>6. /\ schema = "set_up" => job'[m] = job[m]
        /\ schema = "current" => job'[m].at = IF m = Main THEN "up" ELSE "ok"
        /\ schema \notin {"set_up", "current"} =>
              job'[m].at = "run" /\ job'[m].inode = live /\ job'[m].due = schema
    <2>1. CASE schema = "set_up"
      BY <1>3, <2>1
    <2>2. CASE schema = "current"
      BY <1>3, <2>2 DEF Succeeded, Step
    <2>3. CASE schema \notin {"set_up", "current"}
      <3>1. PICK old \in Job : old = job[m]
        BY <1>4
      <3>2. job'[m] = [old EXCEPT !.due = schema]
        BY <1>3, <2>3, <3>1
      <3> HIDE DEF schema
      <3>3. /\ [old EXCEPT !.due = schema].at = old.at
            /\ [old EXCEPT !.due = schema].inode = old.inode
            /\ [old EXCEPT !.due = schema].due = schema
        BY DEF Job
      <3> QED BY <1>4, <1>5, <2>3, <3>1, <3>2, <3>3
    <2> QED BY <2>1, <2>2, <2>3
  <1>7. Recovered(live)'.schema = schema
    BY <1>2, <1>3
  <1> HIDE DEF schema
  <1>8. Moves /\ live' = live
    BY <1>1, <1>2 DEF Moves
  <1>9. ExportsAreRead'
    BY <1>2, <1>8, ExportsKeep DEF Alone
  <1>10. StagedApart' /\ StagingIsAlone' /\ StagedIsWhole'
    <2>1. job'[m].at \notin {"write", "establish", "swap", "rename"}
      BY <1>3, <1>6
    <2> QED BY <1>1, <1>2, <1>3, <2>1, OthersStage, StagedKeeps DEF Alone, StagedIsLeft
  <1>11. UpgradesPend'
    <2> SUFFICES ASSUME Up', schema # "current"
                 PROVE  \E i \in Import : Pending(i)'
      BY <1>7 DEF UpgradesPend
    <2>1. m # Main
      BY <1>3, <1>6 DEF Up
    <2>2. job'[m].at \in {"list", "run"} /\ job'[m].inode = live'
      BY <1>3, <1>4, <1>6, <1>8
    <2>3. m \in Import /\ Pending(m)'
      BY <2>1, <2>2, MigratorsDiffer DEF Pending
    <2> QED BY <2>3
  <1>12. ASSUME CutsAreKnown
         PROVE  CutsAreKnown'
    <2>1. schema # "garbage"
      BY <1>5
    <2>2. schema = "unrecorded" => Recording'
      BY <1>6, <1>8 DEF Recording
    <2>3. job'[Main].at \in {"run", "stuck"} => m = Main
      <3>1. CASE ~Up
        BY <1>1, <3>1, MainIsAlone
      <3>2. CASE Up
        BY <1>3, <3>2, MigratorsDiffer DEF Up, Others
      <3> QED BY <3>1, <3>2
    <2>4. job'[Main].at = "run" => job'[Main].due # "empty" /\ schema = job'[Main].due
      <3> SUFFICES ASSUME job'[m].at = "run", m = Main
                   PROVE  job'[m].due # "empty" /\ schema = job'[m].due
        BY <2>3
      <3>1. CASE schema = "set_up"
        <4>1. job[m].at = "run" /\ schema = After[job[m].due] /\ job[m].due # "empty"
          BY <1>6, <1>12, <3>1 DEF CutsAreKnown, Brings, schema
        <4> QED BY <1>4, <3>1, <4>1 DEF After
      <3>2. CASE schema # "set_up"
        BY <1>5, <1>6, <3>2
      <3> QED BY <3>1, <3>2
    <2>5. job'[Main].at # "stuck"
      BY <1>3, <1>6, <2>3
    <2> QED BY <1>7, <1>8, <2>1, <2>2, <2>4, <2>5 DEF CutsAreKnown
  <1>13. Databases => LiveFileIsWhole'
    BY <1>8, WholeKeeps DEF Alone
  <1>14. Held'
    BY <1>2, <1>10 DEF Held
  <1> QED BY <1>8, <1>9, <1>11, <1>12, <1>13, <1>14 DEF Alone

\* A migrator finds the file as it is by now, lists what is due or fails.
LEMMA MigrateAccessAlone ==
    ASSUME IInv, Alone, ~disturbed', NEW m \in Migrator, Migrate_list(m) \/ Migrate_fails(m)
    PROVE  Alone' /\ Moves
  <1> DEFINE n == job[m].inode
             found == Recovered(n).schema
  <1>1. /\ job[m].at \in {"list", "run"} /\ n \in Inode /\ Others(m)
        /\ Migrate_fails(m) => job'[m] = Failed(m)
        /\ Migrate_list(m) => job'[m] =
              CASE found = "garbage" -> Failed(m)
                [] found = "current" -> Succeeded(m)
                [] found = "unrecorded" -> [job[m] EXCEPT !.at = "run", !.due = "old"]
                [] OTHER -> [job[m] EXCEPT !.at = "run", !.due = found]
    BY MigrateAccessKeeps DEF Others
  <1>2. /\ Access(n) /\ UNCHANGED <<live, staged, commit>> /\ cut \subseteq cut'
        /\ Migrate_list(m) => job[m].at = "list" /\ found # "empty" /\ cut' = cut
        /\ Migrate_fails(m) => job[m].at = "run" /\ found # job[m].due /\ cut' = cut \cup Unrecorded(m)
    BY DEF Migrate_list, Migrate_fails
  <1>3. job[m] \in Job
    BY DEF IInv, Types, JobTypes
  <1> HIDE DEF n
  <1>4. /\ CommitsAreLive' /\ OneCommits' /\ JournalIsHeld' /\ CommitFits'
        /\ Stays /\ StagedIsLeft /\ Unmet
    BY <1>1, <1>2, AccessAlone DEF Alone
  <1> HIDE DEF found
  <1>5. \/ job'[m].at = (IF m = Main THEN "stuck" ELSE "failed") /\ (Migrate_fails(m) \/ found = "garbage")
        \/ job'[m].at = (IF m = Main THEN "up" ELSE "ok") /\ found = "current" /\ Migrate_list(m)
        \/ /\ job'[m].at = "run" /\ job'[m].inode = n /\ Migrate_list(m)
           /\ job'[m].due = IF found = "unrecorded" THEN "old" ELSE found
    <2>1. CASE Migrate_fails(m)
      BY <1>1, <2>1 DEF Failed, Step
    <2>2. CASE Migrate_list(m) /\ found = "garbage"
      BY <1>1, <2>2 DEF Failed, Step
    <2>3. CASE Migrate_list(m) /\ found = "current"
      BY <1>1, <2>3 DEF Succeeded, Step
    <2>4. CASE Migrate_list(m) /\ found \notin {"garbage", "current"}
      <3> DEFINE due == IF found = "unrecorded" THEN "old" ELSE found
      <3>1. PICK old \in Job : old = job[m]
        BY <1>3
      <3>2. job'[m] = [old EXCEPT !.at = "run", !.due = due]
        BY <1>1, <2>4, <3>1
      <3> HIDE DEF due
      <3>3. /\ [old EXCEPT !.at = "run", !.due = due].at = "run"
            /\ [old EXCEPT !.at = "run", !.due = due].inode = old.inode
            /\ [old EXCEPT !.at = "run", !.due = due].due = due
        BY DEF Job
      <3> QED BY <2>4, <3>1, <3>2, <3>3 DEF due, n
    <2> QED BY <2>1, <2>2, <2>3, <2>4
  <1>6. Moves /\ live' = live /\ Recovered(live)' = Recovered(live)
    BY <1>4 DEF Moves, Stays
  <1>7. ExportsAreRead'
    BY <1>4, <1>6, ExportsKeep DEF Alone
  <1>8. StagedApart' /\ StagingIsAlone' /\ StagedIsWhole'
    <2>1. job'[m].at \notin {"write", "establish", "swap", "rename"}
      BY <1>5
    <2> QED BY <1>1, <1>2, <1>4, <2>1, OthersStage, StagedKeeps DEF Alone, StagedIsLeft
  <1>9. n = live => found = Recovered(live).schema
    BY DEF found
  <1>10. m = Main => n = live
    BY <1>1 DEF n, IInv, Exclusive
  <1>11. UpgradesPend'
    <2> SUFFICES ASSUME Up', Recovered(live).schema # "current"
                 PROVE  \E i \in Import : Pending(i)'
      BY <1>6 DEF UpgradesPend
    <2>1. m \in Import
      BY <1>5, <1>9, <1>10, MigratorsDiffer DEF Up
    <2>2. Up
      BY <1>1, <2>1, MigratorsDiffer DEF Up, Others
    <2>3. Pending(m) => Pending(m)'
      BY <1>1, <1>5, <1>6, <1>9, <2>1, MigratorsDiffer DEF Pending, n
    <2>4. \E i \in Import : Pending(i)
      BY <2>2 DEF Alone, UpgradesPend
    <2> QED BY <1>1, <1>6, <2>1, <2>3, <2>4, PendingStays
  <1>12. ASSUME CutsAreKnown
         PROVE  CutsAreKnown'
    <2>1. Recording => Recording' \/ live \in cut'
      <3>1. CASE job[m].at # "run" \/ job[m].inode # live \/ job[m].due # "unrecorded"
        BY <1>1, <1>6, <3>1, RecordingStays
      <3>2. CASE job[m].at = "run" /\ job[m].inode = live /\ job[m].due = "unrecorded"
        BY <1>2, <3>2 DEF Unrecorded
      <3> QED BY <3>1, <3>2
    <2>2. CASE m # Main
      <3>1. job'[Main] = job[Main]
        BY <1>1, <2>2, MigratorsDiffer DEF Others
      <3> QED BY <1>2, <1>6, <1>12, <2>1, <3>1, CutsKeep
    <2>3. CASE m = Main
      <3>1. n = live /\ found = Recovered(live).schema /\ found # "garbage"
        BY <1>9, <1>10, <1>12, <2>3 DEF CutsAreKnown
      <3>2. found = "unrecorded" => live \in cut'
        <4>1. ~Up
          BY <1>1, <2>3 DEF Up
        <4>2. \A i \in Import : job[i].at # "run"
          BY <4>1, MainIsAlone
        <4>3. Recording => job[m].at = "run" /\ job[m].due = "unrecorded"
          BY <2>3, <4>2, MigratorsDiffer DEF Recording
        <4>4. CASE Migrate_list(m)
          BY <1>2, <1>12, <3>1, <4>3, <4>4 DEF CutsAreKnown
        <4>5. CASE Migrate_fails(m)
          BY <1>2, <1>12, <2>3, <3>1, <4>5 DEF CutsAreKnown
        <4> QED BY <4>4, <4>5
      <3>3. Migrate_fails(m) => live \in cut'
        BY <1>2, <1>12, <2>3, <3>1 DEF CutsAreKnown
      <3>4. job'[Main].at = "run" => /\ job'[Main].due # "empty"
                                     /\ live \in cut' \/ Recovered(live).schema = job'[Main].due
        BY <1>2, <1>5, <2>3, <3>1, <3>2
      <3>5. job'[Main].at = "stuck" => live \in cut'
        BY <1>5, <2>3, <3>1, <3>3
      <3> QED BY <1>6, <3>1, <3>2, <3>4, <3>5 DEF CutsAreKnown
    <2> QED BY <2>2, <2>3
  <1>13. Databases => LiveFileIsWhole'
    BY <1>6, WholeKeeps DEF Alone
  <1> QED BY <1>4, <1>6, <1>7, <1>8, <1>11, <1>12, <1>13 DEF Alone, Held

LEMMA MigrationAlone ==
    ASSUME IInv, Alone, ~disturbed', NEW m \in Migrator, run_migrations(m)
    PROVE  Alone' /\ Moves
  BY MigrateConnAlone, MigrateSyncAlone, MigratePageAlone, MigrateCommitAlone, MigrateAccessAlone,
     MigrateBusyAlone DEF run_migrations

-----------------------------------------------------------------------------
(* Imports *)

\* An import writes the staged file, which nobody else has to do with.
LEMMA StagedWriteAlone ==
    ASSUME IInv, Alone, UNCHANGED <<live, journal, commit, cut>>, Up' => Up,
           file'[live] = file[live], Unmet,
           NEW i \in Import, Others(i), job[i].at \notin {"ok", "list", "run"},
           job'[i].at \in {"write", "establish"},
           StagedApart', StagingIsAlone', StagedIsWhole'
    PROVE  Alone' /\ Moves
  <1>1. commit[i] = None
    BY MigratorsDiffer DEF IInv, Types, CommitTypes
  <1>2. /\ CommitsAreLive' /\ OneCommits' /\ JournalIsHeld' /\ CommitFits'
        /\ Recovered(live)' = Recovered(live)
    BY <1>1, CommitsKeep DEF Alone, Others
  <1>3. Moves /\ Recovered(live)'.schema = Recovered(live).schema
    BY <1>2 DEF Moves, Stays
  <1>4. ExportsAreRead'
    BY <1>2, ExportsKeep DEF Alone
  <1>5. Recording => Recording'
    BY RecordingStays, MigratorsDiffer
  <1>6. (\E k \in Import : Pending(k)) => \E k \in Import : Pending(k)'
    <2>1. Pending(i)'
      BY DEF Pending
    <2> QED BY <2>1
  <1>7. job'[Main] = job[Main]
    BY MigratorsDiffer DEF Others
  <1> QED BY <1>2, <1>3, <1>4, <1>5, <1>6, <1>7, SchemaKeeps

LEMMA CreateAlone ==
    ASSUME IInv, Alone, ~disturbed', NEW i \in Import, Import_create(i)
    PROVE  Alone' /\ Moves
  <1>1. /\ job[i].at = "new" /\ Up /\ Staging = {}
        /\ UNCHANGED <<live, journal, commit, cut>>
        /\ staged' = IF staged = None THEN Len(file') ELSE staged
    BY DEF Import_create
  <1>2. job'[i].at = "write" /\ job'[i].inode = staged' /\ Others(i)
    BY CreateKeeps DEF Others
  <1>3. live \in Inode /\ staged \in Inode \cup {None}
    BY FilesAre
  <1>4. /\ Unmet /\ file'[live] = file[live]
        /\ staged' # live /\ staged' # None
    <2>1. Filled("empty", i) \in Content
      BY FilledIsContent DEF Schema, After
    <2>2. CASE staged = None
      <3>1. file' = Append(file, Filled("empty", i)) /\ UNCHANGED exp
        BY <2>2 DEF Import_create
      <3>2. /\ Len(file') = Len(file) + 1 /\ Len(file) \in Nat
            /\ \A k \in Inode : file'[k] = file[k]
        BY <2>1, <3>1, AppendEffect DEF IInv
      <3>3. \A e \in Export : exp[e].at # "new" => exp[e].inode \in Inode
        BY DEF IInv, Types, ExportTypes
      <3>4. Unmet
        BY <3>1, <3>2, <3>3 DEF Unmet
      <3>5. staged' = Len(file) + 1 /\ Len(file) + 1 \in Nat /\ live \in 1 .. Len(file)
        BY <1>1, <1>3, <2>2, <3>2 DEF Inode
      <3>6. staged' # live
        BY <3>2, <3>5
      <3>7. staged' # None
        BY <3>5, NoneIsNone
      <3> QED BY <1>3, <3>2, <3>4, <3>6, <3>7
    <2>3. CASE staged # None
      <3>1. Put(staged, Filled("empty", i)) /\ staged \in Inode /\ staged # live
        BY <1>3, <2>3 DEF Import_create, Alone, Held, StagedApart
      <3>2. Unmet /\ \A k \in Inode : k # staged => file'[k] = file[k]
        BY <2>1, <3>1, PutEffect, PutUnmet DEF IInv
      <3> QED BY <1>1, <1>3, <2>3, <3>1, <3>2
    <2> QED BY <2>2, <2>3
  <1>5. Staging' = {i}
    BY <1>1, <1>2, MigratorsDiffer DEF Staging, Others
  <1>6. StagedApart' /\ StagingIsAlone' /\ StagedIsWhole'
    BY <1>1, <1>2, <1>4, <1>5 DEF StagedApart, StagingIsAlone, StagedIsWhole
  <1> QED BY <1>1, <1>2, <1>4, <1>6, StagedWriteAlone

LEMMA WriteAlone ==
    ASSUME IInv, Alone, NEW i \in Import, Import_write(i)
    PROVE  Alone' /\ Moves
  <1>1. UNCHANGED <<live, staged, journal, commit, cut>>
    BY DEF Import_write
  <1>2. /\ job[i].at = "write" /\ job'[i].at = "establish" /\ Others(i) /\ Up
    BY WriteKeeps DEF Others
  <1>3. i \in Staging
    BY <1>2 DEF Staging
  <1>4. staged # None /\ job[i].inode = staged /\ staged # live /\ staged \in Inode
    BY <1>2, <1>3, FilesAre DEF Alone, Held, StagedIsWhole, StagedApart
  <1>5. PICK schema \in Archives : Put(staged, Filled(schema, i))
    BY <1>4 DEF Import_write
  <1>6. Filled(schema, i) \in Content
    BY ArchivesAreSchemas, FilledIsContent
  <1>7. Unmet /\ file'[staged] = Filled(schema, i) /\ \A k \in Inode : k # staged => file'[k] = file[k]
    BY <1>4, <1>5, <1>6, PutEffect, PutUnmet DEF IInv
  <1>8. file'[live] = file[live]
    BY <1>4, <1>7, FilesAre
  <1>9. Staging' = {i}
    <2>1. \A j \in Staging : j = i
      BY <1>3 DEF Alone, Held, StagingIsAlone
    <2> QED BY <1>2, <2>1, MigratorsDiffer DEF Staging, Others
  <1>10. StagedIsWhole'
    <2>1. file'[staged'] = Filled(schema, i) /\ staged' # None /\ job'[i].at # "write"
      BY <1>1, <1>2, <1>4, <1>7
    <2> QED BY <1>9, <2>1 DEF StagedIsWhole, Filled
  <1>11. StagedApart' /\ StagingIsAlone'
    BY <1>1, <1>4, <1>9 DEF StagedApart, StagingIsAlone
  <1> QED BY <1>1, <1>2, <1>7, <1>8, <1>10, <1>11, StagedWriteAlone

\* The steps of an import that touch no file.
LEMMA ImportQuietAlone ==
    ASSUME IInv, Alone, NEW i \in Import,
           \/ Import_establish(i) \/ swap_database_lock(i) \/ swap_database_rename_fails(i)
           \/ swap_database_init_pool(i)
    PROVE  Alone' /\ Moves
  <1>1. /\ job[i].at \in {"establish", "swap", "rename", "init_pool"}
        /\ job'[i].at \in {"swap", "rename", "failed", "init_pool", "migrate", "cut_off"}
        /\ job'[i].at \in {"swap", "rename"} => job[i].at \in {"establish", "swap"}
        /\ Others(i)
    <2>1. /\ job'[i].at \in {"swap", "rename", "failed", "init_pool", "migrate", "cut_off"}
          /\ Others(i)
      BY EstablishKeeps, SwapKeeps DEF Others
    <2>2. \A step : job' = [job EXCEPT ![i] = Step(step, None)] => job'[i].at = step
      BY MigratorsDiffer DEF IInv, Types, JobTypes, Step
    <2> QED BY <2>1, <2>2 DEF Import_establish, swap_database_lock, swap_database_rename_fails,
                              swap_database_init_pool, JobGoto
  <1>2. UNCHANGED <<file, live, staged, journal, commit, exp, cut>>
    <2>1. CASE Import_establish(i)
      <3>1. i \in Staging
        BY <1>1, <2>1 DEF Staging, Import_establish
      <3>2. staged # None
        BY <3>1 DEF Alone, Held, StagedIsWhole
      <3> QED BY <2>1, <3>2 DEF Import_establish
    <2> QED BY <2>1 DEF swap_database_lock, swap_database_rename_fails, swap_database_init_pool
  <1>3. commit[i] = None
    BY <1>1, MigratorsDiffer DEF IInv, Types, CommitTypes
  <1>4. (Up' => Up) /\ i # Main /\ i \in Migrator
    BY <1>1, MigratorsDiffer DEF Up, Others
  <1>5. StagingStays
    BY <1>1, MigratorsDiffer DEF StagingStays, Staging, Others
  <1>6. Recording => Recording'
    BY <1>1, <1>2, <1>4, RecordingStays
  <1>7. (\E k \in Import : Pending(k)) => \E k \in Import : Pending(k)'
    <2>1. Pending(i)'
      BY <1>1 DEF Pending
    <2> QED BY <2>1
  <1> QED BY <1>1, <1>2, <1>3, <1>4, <1>5, <1>6, <1>7, QuietJobAlone

\* The staged file takes the place of the live one, and no journal is there.
LEMMA RenameAlone ==
    ASSUME IInv, Alone, ~disturbed', NEW i \in Import, swap_database_rename(i)
    PROVE  Alone' /\ Moves
  <1>1. /\ job[i].at = "rename" /\ staged # None /\ live' = staged /\ staged' = None
        /\ journal = None
        /\ UNCHANGED <<file, journal, commit, exp, cut>>
    BY DEF swap_database_rename
  <1>2. job'[i].at = "init_pool" /\ Others(i) /\ Up'
    BY SwapKeeps DEF Others
  <1>3. i \in Staging
    BY <1>1 DEF Staging
  <1>4. PICK schema \in Archives : file[staged] = Filled(schema, i)
    BY <1>1, <1>3 DEF Alone, Held, StagedIsWhole
  <1>5. Recovered(live)' = file[staged] /\ staged # live
    BY <1>1 DEF Recovered, Alone, Held, StagedApart
  <1>6. Moves
    BY <1>1, <1>4, <1>5 DEF Moves, Replaces
  <1>7. \A c \in Connection : commit'[c] = None
    BY <1>1, NoJournal DEF Alone
  <1>8. CommitsAreLive' /\ OneCommits' /\ JournalIsHeld' /\ CommitFits'
    BY <1>1, <1>7, NothingCommits
  <1>9. Staging' = {}
    <2>1. \A j \in Staging : j = i
      BY <1>3 DEF Alone, Held, StagingIsAlone
    <2> QED BY <1>2, <2>1, MigratorsDiffer DEF Staging, Others
  <1>10. StagedApart' /\ StagingIsAlone' /\ StagedIsWhole'
    BY <1>1, <1>9 DEF StagedApart, StagingIsAlone, StagedIsWhole
  <1>11. ExportsAreRead'
    <2> SUFFICES ASSUME NEW e \in Export, exp[e].at \in {"read", "done"}, ~exp[e].met
                 PROVE  ReadsWhole(e)'
      BY <1>1 DEF ExportsAreRead
    <2>1. ReadsWhole(e)
      BY DEF Alone, ExportsAreRead
    <2>2. Recovered(live) = file[live]
      BY <1>1 DEF Recovered
    <2>3. Found(exp[e].inode) = file[exp[e].inode] /\ Found(exp[e].inode)' = file[exp[e].inode]
      BY <1>1, <1>5, <2>2 DEF Found
    <2> QED BY <1>1, <1>5, <2>1, <2>3 DEF ReadsWhole
  <1>12. UpgradesPend'
    <2>1. Pending(i)'
      BY <1>2 DEF Pending
    <2> QED BY <2>1 DEF UpgradesPend
  <1>13. Migratable => CutsAreKnown'
    <2>1. Recovered(live)'.schema = schema
      BY <1>4, <1>5 DEF Filled
    <2>2. Migratable => schema \notin {"garbage", "unrecorded"}
      BY DEF Migratable
    <2> QED BY <1>2, <2>1, <2>2 DEF CutsAreKnown, Up
  <1>14. Databases => LiveFileIsWhole'
    BY <1>6, WholeKeeps DEF Alone
  <1> QED BY <1>6, <1>8, <1>10, <1>11, <1>12, <1>13, <1>14 DEF Alone, Held

LEMMA ImportAlone ==
    ASSUME IInv, Alone, ~disturbed', NEW i \in Import, Import_create(i) \/ Import_step(i)
    PROVE  Alone' /\ Moves
  BY CreateAlone, WriteAlone, ImportQuietAlone, RenameAlone, MigrationAlone, MigratorsDiffer
  DEF Import_step

-----------------------------------------------------------------------------
(* The death of the process, and its start *)

\* Whatever was being committed is rolled back by whoever comes next.
LEMMA CrashAlone ==
    ASSUME IInv, Alone, Crash
    PROVE  Alone' /\ Moves
  <1>1. /\ job'[Main].at = "down"
        /\ \A i \in Import : job'[i].at \in {"new", "ok", "failed"}
        /\ \A c \in Connection : commit'[c] = None
    BY CrashKeeps
  <1>2. /\ UNCHANGED <<file, live, staged, journal>>
        /\ cut' = cut \cup UNION {Unrecorded(m) : m \in Migrator}
        /\ exp' = [e \in Export |->
              IF exp[e].at = "read" THEN [exp[e] EXCEPT !.at = "failed"] ELSE exp[e]]
    BY DEF Crash
  <1>3. Recovered(live)' = Recovered(live) /\ Moves
    BY <1>2 DEF Recovered, Moves, Stays
  <1>4. ~Up'
    BY <1>1 DEF Up
  <1>5. CommitsAreLive' /\ OneCommits' /\ JournalIsHeld' /\ CommitFits'
    BY <1>1, <1>4, NothingCommits
  <1>6. Staging' = {}
    BY <1>1 DEF Staging
  <1>7. StagedApart' /\ StagingIsAlone' /\ StagedIsWhole'
    BY <1>2, <1>6 DEF Alone, Held, StagedApart, StagingIsAlone, StagedIsWhole
  <1>8. ExportsAreRead'
    <2> SUFFICES ASSUME NEW e \in Export, exp'[e].at \in {"read", "done"}, ~exp'[e].met
                 PROVE  ReadsWhole(e)'
      BY DEF ExportsAreRead
    <2>1. PICK x \in [at : {"new", "read", "done", "failed"}, inode : Nat \cup {None},
                      copy : Copy, met : BOOLEAN] : x = exp[e]
      BY DEF IInv, Types, ExportTypes
    <2>2. x.at # "read"
      <3>1. [x EXCEPT !.at = "failed"].at = "failed"
        OBVIOUS
      <3> QED BY <1>2, <2>1, <3>1
    <2>3. exp'[e] = exp[e]
      BY <1>2, <2>1, <2>2
    <2>4. ReadsWhole(e)
      BY <2>3 DEF Alone, ExportsAreRead
    <2> QED BY <1>2, <1>3, <2>3, <2>4 DEF ReadsWhole, Found
  <1>9. UpgradesPend'
    BY <1>4 DEF UpgradesPend
  <1>10. Recording => live \in cut'
    BY <1>2 DEF Recording, Unrecorded
  <1>11. Migratable => CutsAreKnown'
    BY <1>1, <1>2, <1>3, <1>10, CutsKeep DEF Alone
  <1>12. Databases => LiveFileIsWhole'
    BY <1>3, WholeKeeps DEF Alone
  <1> QED BY <1>3, <1>5, <1>7, <1>8, <1>9, <1>11, <1>12 DEF Alone, Held

LEMMA MainAlone ==
    ASSUME IInv, Alone, Main_init_pool
    PROVE  Alone' /\ Moves
  <1>1. UNCHANGED <<file, live, staged, journal, commit, exp, cut>> /\ job[Main].at \in {"down", "stuck"}
    BY DEF Main_init_pool
  <1>2. job'[Main].at = "migrate" /\ Main \in Migrator /\ Others(Main)
    BY MainKeeps, MigratorsDiffer DEF Others
  <1>3. commit[Main] = None
    BY <1>1, <1>2 DEF IInv, Types, CommitTypes
  <1>4. ~Up'
    BY <1>2 DEF Up
  <1>5. StagingStays
    BY <1>2, OthersStage
  <1>6. Recording => Recording'
    BY <1>1, <1>2, RecordingStays
  <1>7. (\E k \in Import : Pending(k)) => \E k \in Import : Pending(k)'
    <2>1. \A k \in Import : Pending(k) => Pending(k)'
      BY <1>1, <1>2, MigratorsDiffer DEF Pending, Others
    <2> QED BY <2>1
  <1> QED BY <1>1, <1>2, <1>3, <1>4, <1>5, <1>6, <1>7, QuietJobAlone

-----------------------------------------------------------------------------
(* Every step *)

LEMMA PagesInit == Init => Pages
  <1> SUFFICES ASSUME Init
               PROVE  Alone
    BY DEF Pages
  <1>1. /\ file = <<Filled("current", "first")>> /\ live = 1 /\ staged = None /\ journal = None
        /\ \A c \in Connection : commit[c] = None
        /\ \A m \in Migrator : job[m].at = IF m = Main THEN "up" ELSE "new"
        /\ \A e \in Export : exp[e].at = "new"
    BY DEF Init, Step
  <1>2. Recovered(live) = Filled("current", "first")
    BY <1>1 DEF Recovered
  <1>3. /\ Recovered(live).schema = "current"
        /\ \A p \in Page : Recovered(live).page[p].origin = "first"
    BY <1>2 DEF Filled
  <1>4. Staging = {}
    BY <1>1, MigratorsDiffer DEF Staging
  <1>5. Held
    BY <1>1, <1>4 DEF Held, StagedApart, StagingIsAlone, StagedIsWhole, CommitsAreLive, OneCommits,
                      JournalIsHeld, CommitFits
  <1>6. ExportsAreRead /\ UpgradesPend
    BY <1>1, <1>3 DEF ExportsAreRead, UpgradesPend
  <1>7. CutsAreKnown
    BY <1>1, <1>3, MigratorsDiffer DEF CutsAreKnown
  <1>8. LiveFileIsWhole
    BY <1>3 DEF LiveFileIsWhole, OfOneOrigin
  <1> QED BY <1>5, <1>6, <1>7, <1>8 DEF Alone

\* Once disturbed, always disturbed.
LEMMA DisturbedLasts ==
    ASSUME [Next]_vars, disturbed
    PROVE  disturbed'
  BY DEF Next, vars, conn, Request_step, Read, Access, Write_begin, Sync_journal, Write_page, Write_end,
         Request_busy, Import_create, Import_step, Import_write, Import_establish,
         swap_database_lock, swap_database_rename, swap_database_rename_fails,
         swap_database_init_pool, run_migrations, Migrate_conn, Migrate_set_up, Migrate_list,
         Migrate_begin, Migrate_commit, Migrate_fails, Migrate_busy, Export_open, Export_read,
         Crash, Main_init_pool

LEMMA PagesStep ==
    ASSUME IInv, Pages, [Next]_vars, ~disturbed'
    PROVE  Alone' /\ (Moves \/ UNCHANGED vars)
  <1>1. Alone
    BY DisturbedLasts DEF Pages
  <1>2. CASE Next
    BY <1>1, <1>2, RequestAlone, ImportAlone, ExportAlone, CrashAlone, MainAlone, MigrationAlone,
       MigratorsDiffer DEF Next
  <1>3. CASE UNCHANGED vars
    <2>1. UNCHANGED <<file, live, staged, journal, commit, job, exp, cut>>
      BY <1>3 DEF vars
    <2>2. Up' => Up
      BY <2>1 DEF Up
    <2>3. /\ CommitsAreLive' /\ OneCommits' /\ JournalIsHeld' /\ CommitFits'
          /\ Stays /\ StagedIsLeft /\ Unmet
      BY <1>1, <2>1, <2>2, QuietAlone
    <2> QED BY <1>1, <1>3, <2>1, <2>3, StaysKeeps
  <1> QED BY <1>2, <1>3

-----------------------------------------------------------------------------
(* Theorems *)

\* The inductive invariant: as long as no import meets another or a journal, whose
\* commit is under way and what its journal holds, what the staged file and an
\* export have, and who is still to upgrade the live file.
THEOREM PagesHold == Spec => []Pages
  <1>1. Init => Pages
    BY PagesInit
  <1>2. IInv /\ Pages /\ [Next]_vars => Pages'
    BY PagesStep DEF Pages
  <1> QED BY <1>1, <1>2, InvariantHolds, PTL DEF Spec

\* Where archives hold databases, what is found at the path is one database and
\* never a mixture: whatever requests, migrations, recoveries and crashes come
\* around the rename.
THEOREM ImportsKeepTheFileWhole ==
    ASSUME Databases
    PROVE  Spec => []ImportsAloneAreWhole
  <1>1. Pages => ImportsAloneAreWhole
    BY DEF Pages, Alone, ImportsAloneAreWhole
  <1> QED BY <1>1, PagesHold, PTL

\* With every import answered 200, or not yet begun, the live file is up to date.
THEOREM ImportsUpgrade == Spec => []AnsweredImportsAreUpgraded
  <1>1. Pages => AnsweredImportsAreUpgraded
    BY DEF Pages, Alone, UpgradesPend, Pending, AnsweredImportsAreUpgraded
  <1> QED BY <1>1, PagesHold, PTL

\* Where archives hold what can be migrated, main() comes up again after any
\* crashes, unless add_users_table was left without its record in that very file.
THEOREM StartsAgain ==
    ASSUME Migratable
    PROVE  Spec => []StartsUnlessCutOff
  <1>1. Pages => StartsUnlessCutOff
    BY DEF Pages, Alone, CutsAreKnown, StartsUnlessCutOff
  <1> QED BY <1>1, PagesHold, PTL

\* An export that meets no write has, page by page, what a connection finds in
\* its file, whatever is renamed over that file meanwhile.
THEOREM ExportsAreTheDatabase == Spec => []ExportsAloneAreWhole
  <1>1. IInv /\ Pages => ExportsAloneAreWhole
    <2> SUFFICES ASSUME IInv, Alone, NEW e \in Export, exp[e].at = "done", ~exp[e].met
                 PROVE  exp[e].copy = IF exp[e].inode = live THEN Recovered(live).page
                                      ELSE file[exp[e].inode].page
      BY DEF Pages, ExportsAloneAreWhole
    <2>1. ReadsWhole(e)
      BY DEF Alone, ExportsAreRead
    <2>2. /\ DOMAIN exp[e].copy = Page
          /\ \A p \in Page : exp[e].copy[p] = Found(exp[e].inode).page[p]
      BY <2>1 DEF ReadsWhole
    <2>3. exp[e].copy \in Copy /\ exp[e].inode \in Inode
      BY DEF IInv, Types, ExportTypes
    <2>4. PICK D \in SUBSET Page : exp[e].copy \in [D -> Stamp]
      BY <2>3 DEF Copy
    <2>5. Found(exp[e].inode).page \in [Page -> Stamp]
      BY <2>3, FilesAre DEF Found, Content
    <2>6. exp[e].copy = Found(exp[e].inode).page
      BY <2>2, <2>4, <2>5
    <2> QED BY <2>6 DEF Found
  <1> QED BY <1>1, PagesHold, InvariantHolds, PTL

\* What a connection finds at the path changes by whole commits only, through the
\* commits of others, crashes, recoveries and migrations, until an import
\* replaces the file.
THEOREM CommitsAreWhole == Spec => CommitsAreAtomic
  <1>1. IInv /\ Pages /\ [Next]_vars =>
           [live' = live /\ ~disturbed' =>
               \/ Recovered(live)' = Recovered(live)
               \/ \E c \in Committing(live) :
                     /\ commit'[c] = None
                     /\ Recovered(live)' =
                          [schema |-> commit[c].schema,
                           page   |-> [p \in Page |->
                              IF p \in DOMAIN journal.page
                              THEN [origin |-> Recovered(live).page[p].origin, by |-> c]
                              ELSE Recovered(live).page[p]]]]_vars
    BY PagesStep DEF Moves, Stays, Commits, Replaces
  <1> QED BY <1>1, PagesHold, InvariantHolds, PTL DEF Spec, CommitsAreAtomic

===============================================================================
