-------------------------------- MODULE Listing --------------------------------
(***************************************************************************)
(* What a user sees of the age of their passwords: POST /pwd/create,       *)
(* PUT /pwd/update and GET /pwd/list with its parameters expired, take and *)
(* size, against a clock that goes on, or is set back, at any moment, and  *)
(* a client that asks for page after page while passwords come and change. *)
(*                                                                         *)
(* The handler of /pwd/list reads the clock once for every row to filter   *)
(* it and once more for every row it shows; each reading is a step.        *)
(***************************************************************************)
EXTENDS Integers, FiniteSets

CONSTANTS
    MaxPassword,   \* bound on the passwords ever created; their rowids are 1, 2, ...
    Group,         \* the user's groups, numbers in the order of their uuids
    DAY,           \* ticks of the clock in a day
    MaxNow,        \* bound on the clock,
    MaxSurprises,  \* on how often it is set back or a password is updated
    MaxDays,       \* 365 in the code
    DefaultDays,   \* 30 in the code
    MaxSize,       \* 200 in the code
    DefaultSize,   \* 50 in the code
    AskedDays,     \* values of valid_since_days, and
    AskedSize,     \* of size, that clients send; None when they leave it out
    None

Password == 1 .. MaxPassword

Row == [group : Group, valid_since : 0 .. MaxNow, valid_since_days : 1 .. MaxDays]

Entry == [password : Password, row : Row]

ASSUME NoneIsNoValue == None \notin Row \cup Int
ASSUME GroupsAreOrdered == Group \subseteq Int
ASSUME Limits == /\ {MaxPassword, MaxNow, MaxSurprises} \subseteq Nat
                 /\ {DAY, MaxDays, MaxSize} \subseteq Nat \ {0}
                 /\ DefaultDays \in 1 .. MaxDays /\ DefaultSize \in 1 .. MaxSize
ASSUME ClientsAskForNumbers == AskedDays \cup AskedSize \subseteq Int \cup {None}

VARIABLES
    now,     \* the clock of the server
    rows,    \* the table passwords: the rows of the user by rowid, or None
    walk,    \* the client's way through the pages, and the request it waits for
    shown,   \* the entry that the last step put on the page, or None
    surprises   \* how often there was one

vars == <<now, rows, walk, shown, surprises>>

Clamp(n, low, high) == IF n < low THEN low ELSE IF n > high THEN high ELSE n

-----------------------------------------------------------------------------
(* Age *)

days_remaining(row, time) ==
    IF time < row.valid_since THEN row.valid_since_days
    ELSE LET elapsed == (time - row.valid_since) \div DAY
         IN IF row.valid_since_days > elapsed THEN row.valid_since_days - elapsed ELSE 0

\* Mutant: still valid on the day after the last.
is_expired_late(row, time) ==
    time >= row.valid_since /\ (time - row.valid_since) \div DAY > row.valid_since_days

is_expired(row, time) == days_remaining(row, time) <= 0

-----------------------------------------------------------------------------
(* The table *)

Stored == {p \in Password : rows[p] # None}

find_by_groups == {[password |-> p, row |-> rows[p]] : p \in Stored}

\* The query runs over the index on group_id: by group, then by rowid.
Before(e, f) == \/ e.row.group < f.row.group
                \/ e.row.group = f.row.group /\ e.password < f.password

First(e, entries) == e \in entries /\ \A f \in entries \ {e} : Before(e, f)

\* What a list shows if it is asked for in one piece.
Listed(table, time, expired) ==
    {p \in Password : table[p] # None /\ is_expired(table[p], time) = expired}

NoWalk == [at |-> "none"]

Walking == walk.at \in {"ask", "filter", "map"}

\* History of a walk: the rows that were in the list all along, the rows shown
\* twice, and whether some came in, went out, or changed places.  What nothing is
\* said of any more is not kept.
Watch(moved) ==
    walk' = IF ~Walking THEN walk
            ELSE LET before == Listed(rows, now, walk.expired)
                     after  == Listed(rows', now', walk.expired)
                     came   == walk.came \/ moved \/ ~(after \subseteq before)
                     left   == walk.left \/ moved \/ ~(before \subseteq after)
                 IN [walk EXCEPT !.came = came, !.left = left,
                                 !.stayed = IF left THEN {} ELSE @,
                                 !.seen = IF came /\ left THEN {} ELSE @]

-----------------------------------------------------------------------------
(* The clock *)

Tick == /\ now < MaxNow
        /\ now' = now + 1
        /\ shown' = None
        /\ UNCHANGED <<rows, surprises>>
        /\ Watch(FALSE)

Set_back == /\ surprises < MaxSurprises
            /\ now' \in 0 .. now - 1
            /\ surprises' = surprises + 1
            /\ shown' = None
            /\ UNCHANGED rows
            /\ Watch(FALSE)

-----------------------------------------------------------------------------
(* POST /pwd/create and PUT /pwd/update, as far as age is concerned *)

\* Mutant: what the client asks for is stored as it is.
Create_unclamped(g, days) ==
    /\ \E p \in Password :
          /\ Stored = 1 .. p - 1
          /\ rows' = [rows EXCEPT ![p] =
                [group |-> g, valid_since |-> now,
                 valid_since_days |-> IF days = None THEN DefaultDays ELSE days]]
    /\ shown' = None
    /\ UNCHANGED <<now, surprises>>
    /\ Watch(FALSE)

\* No row is ever deleted: the next rowid follows those there are.
Create(g, days) ==
    /\ \E p \in Password :
          /\ Stored = 1 .. p - 1
          /\ rows' = [rows EXCEPT ![p] =
                [group |-> g, valid_since |-> now,
                 valid_since_days |-> IF days = None THEN DefaultDays ELSE Clamp(days, 1, MaxDays)]]
    /\ shown' = None
    /\ UNCHANGED <<now, surprises>>
    /\ Watch(FALSE)

\* The period begins anew and keeps its length; the group may be another.  (A
\* page that is being made goes on with the row as it was.)
Update(p, g) ==
    /\ p \in Stored
    /\ surprises < MaxSurprises
    /\ surprises' = surprises + 1
    /\ rows' = [rows EXCEPT ![p].group = g, ![p].valid_since = now]
    /\ shown' = None
    /\ UNCHANGED now
    /\ Watch(rows[p].group # g \/ walk.at # "ask")

-----------------------------------------------------------------------------
(* GET /pwd/list, from a client that goes on from where the last page ended *)
(* until a page is empty                                                    *)

Walk_begin(expired, size) ==
    /\ ~Walking
    /\ walk' = [at |-> "ask", expired |-> expired, size |-> size, take |-> 0,
                rest |-> {}, skip |-> 0, page |-> 0, filtered |-> None,
                seen |-> {}, again |-> FALSE,
                stayed |-> Listed(rows, now, expired), came |-> FALSE, left |-> FALSE]
    /\ shown' = None
    /\ UNCHANGED <<now, rows, surprises>>

PageSize == IF walk.size = None THEN DefaultSize ELSE Clamp(walk.size, 1, MaxSize)

\* Mutant: the entries after number take, counted from none.
List_query_off_by_one ==
    /\ walk.at = "ask"
    /\ walk' = [walk EXCEPT !.at = "filter", !.rest = find_by_groups, !.skip = walk.take + 1]
    /\ shown' = None
    /\ UNCHANGED <<now, rows, surprises>>

\* The rows are read at once, and the rest is lazy.
List_query ==
    /\ walk.at = "ask"
    /\ walk' = [walk EXCEPT !.at = "filter", !.rest = find_by_groups, !.skip = walk.take]
    /\ shown' = None
    /\ UNCHANGED <<now, rows, surprises>>

\* Mutant: the rows are skipped before they are filtered.
List_filter_after_skip ==
    /\ walk.at = "filter"
    /\ walk.page < PageSize
    /\ \E e \in walk.rest :
          /\ First(e, walk.rest)
          /\ walk' = IF walk.skip > 0
                     THEN [walk EXCEPT !.rest = @ \ {e}, !.skip = @ - 1]
                     ELSE IF is_expired(e.row, now) # walk.expired
                     THEN [walk EXCEPT !.rest = @ \ {e}]
                     ELSE [walk EXCEPT !.at = "map", !.filtered = now]
    /\ shown' = None
    /\ UNCHANGED <<now, rows, surprises>>

\* The next row, by the clock of now: left out, skipped, or for the page.
List_filter ==
    /\ walk.at = "filter"
    /\ walk.page < PageSize
    /\ \E e \in walk.rest :
          /\ First(e, walk.rest)
          /\ walk' = IF is_expired(e.row, now) # walk.expired
                     THEN [walk EXCEPT !.rest = @ \ {e}]
                     ELSE IF walk.skip > 0
                     THEN [walk EXCEPT !.rest = @ \ {e}, !.skip = @ - 1]
                     ELSE [walk EXCEPT !.at = "map", !.filtered = now]
    /\ shown' = None
    /\ UNCHANGED <<now, rows, surprises>>

\* The entry, by the clock of by now.
List_map ==
    /\ walk.at = "map"
    /\ \E e \in walk.rest :
          /\ First(e, walk.rest)
          /\ shown' = [row |-> e.row, filtered |-> walk.filtered, mapped |-> now,
                       expires |-> IF walk.expired THEN 0 ELSE days_remaining(e.row, now)]
          /\ walk' = [walk EXCEPT !.at = "filter", !.filtered = None, !.rest = @ \ {e},
                                  !.page = @ + 1,
                                  !.seen = IF walk.came /\ walk.left THEN {} ELSE @ \cup {e.password},
                                  !.again = ~walk.came /\ (@ \/ e.password \in walk.seen)]
    /\ UNCHANGED <<now, rows, surprises>>

\* The page is full or the rows are used up.  (An empty page ends the walk.)
List_answer ==
    /\ walk.at = "filter"
    /\ walk.rest = {} \/ walk.page = PageSize
    /\ walk' = [walk EXCEPT !.at = IF walk.page = 0 THEN "done" ELSE "ask",
                            !.take = @ + walk.page, !.rest = {}, !.skip = 0, !.page = 0]
    /\ shown' = None
    /\ UNCHANGED <<now, rows, surprises>>

-----------------------------------------------------------------------------

\* The table is as earlier requests have left it.
Init == /\ now \in 0 .. MaxNow
        /\ \E n \in 0 .. MaxPassword :
              rows \in {table \in [Password -> Row \cup {None}] :
                          \A p \in Password : IF p <= n THEN table[p] # None /\ table[p].valid_since <= now
                                              ELSE table[p] = None}
        /\ walk = NoWalk
        /\ shown = None
        /\ surprises = 0

Next == \/ Tick \/ Set_back
        \/ \E g \in Group, days \in AskedDays : Create(g, days)
        \/ \E g \in Group, p \in Password : Update(p, g)
        \/ \E expired \in BOOLEAN, size \in AskedSize : Walk_begin(expired, size)
        \/ List_query \/ List_filter \/ List_map \/ List_answer

Spec == Init /\ [][Next]_vars

-----------------------------------------------------------------------------
(* Properties *)

Walks == [at : {"ask", "filter", "map", "done"}, expired : BOOLEAN, size : AskedSize,
          take : Nat, rest : SUBSET Entry, skip : Nat, page : Nat,
          filtered : (0 .. MaxNow) \cup {None},
          seen : SUBSET Password, again : BOOLEAN,
          stayed : SUBSET Password, came : BOOLEAN, left : BOOLEAN]

\* Every variable holds values of its type.
TypeOK ==
    /\ now \in 0 .. MaxNow
    /\ rows \in [Password -> Row \cup {None}]
    /\ \/ walk = NoWalk
       \/ walk \in Walks /\ (walk.at = "map" <=> walk.filtered # None)
    /\ shown \in {None} \cup
          [row : Row, filtered : 0 .. MaxNow, mapped : 0 .. MaxNow, expires : 0 .. MaxDays]
    /\ surprises \in 0 .. MaxSurprises

\* The moment from which a password is expired.
Deadline(row) == row.valid_since + row.valid_since_days * DAY

\* What expires should say at a time: the fewest whole days that reach the
\* deadline, and never more than the period itself.
DaysLeft(row, time) ==
    CHOOSE n \in 0 .. row.valid_since_days :
        /\ time + n * DAY >= Deadline(row) \/ n = row.valid_since_days
        /\ \A k \in 0 .. n - 1 : time + k * DAY < Deadline(row)

\* An entry is in the list in which it belonged when it was filtered, to the
\* tick, and its days are those left when it was written; a valid one says 0
\* only if it lapsed, or the clock went on, between the two readings.
EntriesAreRight ==
    shown # None =>
        /\ walk.expired <=> shown.filtered >= Deadline(shown.row)
        /\ ~walk.expired => shown.expires = DaysLeft(shown.row, shown.mapped)

\* A client that takes up each page where the last one ended and stops at an
\* empty one has seen every password that was in the list all the time, unless
\* some left the list before the end, or were updated to another group or while
\* a page was being made.
PagesMissNothing ==
    walk.at = "done" /\ ~walk.left => walk.stayed \subseteq walk.seen

\* And has seen none twice, unless some came into the list or were so updated.
PagesRepeatNothing ==
    Walking \/ walk.at = "done" => ~walk.again \/ walk.came

===============================================================================
