------------------------------ MODULE ListingProofs ------------------------------
(* What holds of Listing for any passwords, groups, page sizes, periods and clock. *)
EXTENDS Listing, FiniteSetTheorems, TLAPS

-----------------------------------------------------------------------------
(* The inductive invariant *)

\* What the list is now, the rows not yet looked at, and the order of the rows.
Current == Listed(rows, now, walk.expired)

Of(p) == [password |-> p, row |-> rows[p]]

Waiting == {p \in Password : Of(p) \in walk.rest}

Precedes(q, p) == Before(Of(q), Of(p))

\* The entries of the list that come before a row, among some of them.
Ahead(p, some) == {q \in Current \cap some : Precedes(q, p)}

Making == walk.at \in {"filter", "map"}

\* What was read is what there is, unless nothing is claimed any more.
RestIsCurrent ==
    Making /\ ~(walk.came /\ walk.left) =>
        \A e \in walk.rest : e.row = rows[e.password]

\* A page that has entries has skipped all it had to.
SkippedFirst == /\ walk.skip > 0 => walk.page = 0 /\ walk.at = "filter"
                /\ walk.at \in {"ask", "done"} => walk.page = 0

\* The row that waits for its entry was filtered by the clock that is kept.
FilteredFits ==
    walk.at = "map" =>
        \E e \in walk.rest : /\ First(e, walk.rest)
                             /\ is_expired(e.row, walk.filtered) = walk.expired
                             /\ ~walk.left => e.password \in Current
                             /\ ~walk.came => e.password \notin walk.seen

\* A row that was in the list all along and is not seen yet is to come: it is
\* beyond what the next page skips, or what this page has still to skip.
StayedAreToCome ==
    /\ walk.stayed \subseteq Current /\ (walk.left => walk.stayed = {})
    /\ walk.at = "ask" =>
          \A p \in walk.stayed \ walk.seen : walk.take <= Cardinality(Ahead(p, Password))
    /\ Making =>
          \A p \in walk.stayed \ walk.seen :
              p \in Waiting /\ walk.skip <= Cardinality(Ahead(p, Waiting))

\* Every entry skipped or shown is in the list and before the rows still waiting.
PassedAreAhead ==
    Making /\ ~walk.left =>
        \A p \in Waiting :
            walk.take + walk.page <= walk.skip + Cardinality(Ahead(p, Password \ Waiting))

\* A row that was seen and is in the list will be skipped.
SeenAreSkipped ==
    /\ walk.at = "ask" =>
          \A p \in walk.seen \cap Current : Cardinality(Ahead(p, Password)) < walk.take
    /\ Making =>
          \A p \in walk.seen \cap Current \cap Waiting :
              Cardinality(Ahead(p, Waiting)) < walk.skip

\* No more of the list has been passed than was skipped or shown.
NoMorePassed ==
    Making =>
        /\ \A p \in Current \ Waiting, q \in Waiting : Precedes(p, q)
        /\ Cardinality(Current \ Waiting) + walk.skip <= walk.take + walk.page

Pages ==
    Walking => /\ RestIsCurrent /\ SkippedFirst /\ FilteredFits
               /\ StayedAreToCome /\ PassedAreAhead
               /\ ~walk.came => SeenAreSkipped /\ NoMorePassed /\ ~walk.again

Finished == walk.at = "done" => PagesMissNothing /\ PagesRepeatNothing

IInv == TypeOK /\ EntriesAreRight /\ Pages /\ Finished

-----------------------------------------------------------------------------
(* Numbers and finite sets *)

LEMMA Constants ==
    /\ DAY \in Nat /\ DAY > 0 /\ MaxNow \in Nat /\ MaxPassword \in Nat /\ MaxSurprises \in Nat
    /\ MaxDays \in Nat /\ MaxDays > 0 /\ MaxSize \in Nat /\ MaxSize > 0
    /\ DefaultDays \in 1 .. MaxDays /\ DefaultSize \in 1 .. MaxSize
  BY Limits

LEMMA Sizes ==
    ASSUME NEW B, B \subseteq Password, NEW A, A \subseteq B
    PROVE  /\ Cardinality(A) \in Nat /\ Cardinality(B) \in Nat
           /\ Cardinality(A) <= Cardinality(B)
           /\ IsFiniteSet(A)
  <1>1. IsFiniteSet(Password)
    BY Constants, FS_Interval DEF Password
  <1>2. IsFiniteSet(B)
    BY <1>1, FS_Subset
  <1>3. IsFiniteSet(A) /\ Cardinality(A) <= Cardinality(B)
    BY <1>2, FS_Subset
  <1> QED BY <1>2, <1>3, FS_CardinalityType

LEMMA OneFewer ==
    ASSUME NEW A, A \subseteq Password, NEW x \in A
    PROVE  Cardinality(A) \in Nat /\ Cardinality(A \ {x}) = Cardinality(A) - 1
           /\ Cardinality(A) > 0
  <1>1. IsFiniteSet(A) /\ Cardinality(A) \in Nat
    BY Sizes
  <1>2. Cardinality(A \ {x}) = Cardinality(A) - 1
    BY <1>1, FS_RemoveElement
  <1>3. Cardinality(A \ {x}) \in Nat
    BY Sizes
  <1> QED BY <1>1, <1>2, <1>3

LEMMA OneMore ==
    ASSUME NEW A, A \subseteq Password, NEW x \in Password \ A, NEW B, A \cup {x} \subseteq B,
           B \subseteq Password
    PROVE  Cardinality(A) \in Nat /\ Cardinality(B) \in Nat /\ Cardinality(A) + 1 <= Cardinality(B)
  <1>1. Cardinality((A \cup {x}) \ {x}) = Cardinality(A \cup {x}) - 1
        /\ Cardinality(A \cup {x}) \in Nat
    BY OneFewer
  <1>2. Cardinality(A) = Cardinality(A \cup {x}) - 1
    <2>1. (A \cup {x}) \ {x} = A
      OBVIOUS
    <2> QED BY <1>1, <2>1
  <1>3. Cardinality(A \cup {x}) <= Cardinality(B) /\ Cardinality(B) \in Nat /\ Cardinality(A) \in Nat
    BY Sizes
  <1> QED BY <1>1, <1>2, <1>3

LEMMA NoneCounted == Cardinality({}) = 0
  BY FS_EmptySet

-----------------------------------------------------------------------------
(* Age *)

LEMMA Quotient ==
    ASSUME NEW a \in Nat
    PROVE  /\ a \div DAY \in Nat
           /\ (a \div DAY) * DAY <= a
           /\ a < (a \div DAY) * DAY + DAY
  BY Constants

LEMMA Times ==
    ASSUME NEW a \in Nat, NEW b \in Nat
    PROVE  /\ a * DAY \in Nat /\ b * DAY \in Nat
           /\ (a + b) * DAY = a * DAY + b * DAY
           /\ (a + 1) * DAY = a * DAY + DAY
           /\ a <= b => a * DAY <= b * DAY
  <1>1. a * DAY \in Nat /\ b * DAY \in Nat
    BY Constants
  <1>2. (a + b) * DAY = a * DAY + b * DAY
    BY Constants
  <1>3. (a + 1) * DAY = a * DAY + DAY
    BY Constants
  <1>4. ASSUME a <= b
        PROVE  a * DAY <= b * DAY
    <2>1. PICK c \in Nat : b = a + c
      <3>1. b - a \in Nat /\ b = a + (b - a)
        BY <1>4
      <3> QED BY <3>1
    <2>2. b * DAY = a * DAY + c * DAY /\ c * DAY \in Nat
      BY <2>1, Constants
    <2> QED BY <1>1, <2>2
  <1> QED BY <1>1, <1>2, <1>3, <1>4

\* The days that a row has left, and the list in which it belongs.
LEMMA Age ==
    ASSUME NEW row \in Row, NEW time \in 0 .. MaxNow
    PROVE  /\ days_remaining(row, time) \in 0 .. row.valid_since_days
           /\ is_expired(row, time) \in BOOLEAN
           /\ is_expired(row, time) <=> time >= Deadline(row)
           /\ \/ time + days_remaining(row, time) * DAY >= Deadline(row)
              \/ days_remaining(row, time) = row.valid_since_days
           /\ \A k \in 0 .. days_remaining(row, time) - 1 : time + k * DAY < Deadline(row)
  <1> DEFINE since == row.valid_since
             days == row.valid_since_days
             elapsed == (time - since) \div DAY
             left == days_remaining(row, time)
  <1>1. since \in Nat /\ days \in Nat /\ days >= 1 /\ time \in Nat
    BY Constants DEF Row
  <1>2. Deadline(row) = since + days * DAY /\ days * DAY \in Nat
    BY <1>1, Times DEF Deadline
  <1>3. (is_expired(row, time) <=> left <= 0) /\ is_expired(row, time) \in BOOLEAN
    BY DEF is_expired
  <1> DEFINE Goal == /\ left \in 0 .. days
                     /\ left <= 0 <=> time >= since + days * DAY
                     /\ time + left * DAY >= since + days * DAY \/ left = days
                     /\ \A k \in 0 .. left - 1 : time + k * DAY < since + days * DAY
  <1>4. ASSUME time < since
        PROVE  Goal
    <2>1. left = days
      BY <1>4 DEF days_remaining
    <2>2. ASSUME NEW k \in 0 .. days - 1
          PROVE  time + k * DAY < since + days * DAY
      <3>1. k \in Nat /\ k <= days
        BY <1>1
      <3>2. k * DAY <= days * DAY /\ k * DAY \in Nat
        BY <1>1, <3>1, Times
      <3> QED BY <1>1, <1>2, <1>4, <3>2
    <2> HIDE DEF left, since, days
    <2>3. days * DAY \in Nat /\ ~(left <= 0)
      BY <1>1, <1>2, <2>1
    <2>4. left \in 0 .. days /\ left = days /\ ~(time >= since + days * DAY)
      BY <1>1, <1>4, <2>1, <2>3
    <2>5. \A k \in 0 .. left - 1 : time + k * DAY < since + days * DAY
      BY <2>1, <2>2
    <2> QED BY <2>3, <2>4, <2>5
  <1>5. ASSUME ~(time < since)
        PROVE  Goal
    <2>1. time - since \in Nat
      BY <1>1, <1>5
    <2>2. elapsed \in Nat /\ elapsed * DAY <= time - since /\ time - since < elapsed * DAY + DAY
          /\ elapsed * DAY \in Nat
      BY <2>1, Quotient, Times
    <2>3. left = IF days > elapsed THEN days - elapsed ELSE 0
      BY <1>5 DEF days_remaining
    <2> HIDE DEF left, since, days, elapsed
    <2>4. CASE days > elapsed
      <3>1. left = days - elapsed /\ left \in Nat /\ left >= 1 /\ days = left + elapsed
        BY <1>1, <2>2, <2>3, <2>4
      <3>2. days * DAY = left * DAY + elapsed * DAY /\ left * DAY \in Nat
        <4>1. (left + elapsed) * DAY = left * DAY + elapsed * DAY /\ left * DAY \in Nat
          BY <2>2, <3>1, Times
        <4> QED BY <3>1, <4>1
      <3>3. time + left * DAY >= since + days * DAY
        BY <1>1, <2>1, <2>2, <3>2
      <3>4. ASSUME NEW k \in 0 .. left - 1
            PROVE  time + k * DAY < since + days * DAY
        <4>1. k \in Nat /\ k + 1 <= left /\ k + 1 \in Nat
          BY <3>1
        <4>2. (k + 1) * DAY <= left * DAY /\ (k + 1) * DAY = k * DAY + DAY /\ k * DAY \in Nat
          BY <3>1, <4>1, Times
        <4> QED BY <1>1, <2>2, <3>2, <4>2, Constants
      <3>5. time < since + days * DAY
        <4>1. 0 \in 0 .. left - 1 /\ 0 * DAY = 0
          BY <3>1, Constants
        <4>2. time + 0 * DAY < since + days * DAY
          BY <3>4, <4>1
        <4> QED BY <1>1, <4>1, <4>2
      <3>6. left \in 0 .. days /\ ~(left <= 0) /\ ~(time >= since + days * DAY)
        BY <1>1, <1>2, <2>2, <3>1, <3>5
      <3> QED BY <3>3, <3>4, <3>6
    <2>5. CASE ~(days > elapsed)
      <3>1. left = 0 /\ days <= elapsed
        BY <1>1, <2>2, <2>3, <2>5
      <3>2. days * DAY <= elapsed * DAY
        BY <1>1, <2>2, <3>1, Times
      <3>3. time >= since + days * DAY /\ 0 * DAY = 0
        BY <1>1, <1>2, <2>1, <2>2, <3>2, Constants
      <3>4. left \in 0 .. days /\ left <= 0 /\ time + left * DAY >= since + days * DAY
        BY <1>1, <3>1, <3>3
      <3>5. 0 .. left - 1 = {}
        BY <3>1
      <3> QED BY <3>3, <3>4, <3>5
    <2> QED BY <2>4, <2>5
  <1>6. Goal
    BY <1>4, <1>5
  <1> QED BY <1>2, <1>3, <1>6

\* DaysLeft is well defined, and what the code computes.
LEMMA DaysAreThoseLeft ==
    ASSUME NEW row \in Row, NEW time \in 0 .. MaxNow
    PROVE  days_remaining(row, time) = DaysLeft(row, time)
  <1> DEFINE Fits(n) == /\ time + n * DAY >= Deadline(row) \/ n = row.valid_since_days
                        /\ \A k \in 0 .. n - 1 : time + k * DAY < Deadline(row)
             left == days_remaining(row, time)
  <1>1. left \in 0 .. row.valid_since_days /\ Fits(left)
    BY Age
  <1>2. row.valid_since_days \in Nat /\ time \in Nat /\ Deadline(row) \in Nat
    <2>1. row.valid_since \in Nat /\ row.valid_since_days \in Nat
      BY DEF Row
    <2>2. row.valid_since_days * DAY \in Nat
      BY <2>1, Times
    <2> QED BY <2>1, <2>2, Constants DEF Deadline
  <1>3. ASSUME NEW m \in 0 .. row.valid_since_days, NEW n \in 0 .. row.valid_since_days,
               Fits(m), Fits(n), m < n
        PROVE  FALSE
    <2>1. m \in 0 .. n - 1 /\ m # row.valid_since_days /\ m \in Nat
      BY <1>2, <1>3
    <2>2. time + m * DAY < Deadline(row) /\ time + m * DAY >= Deadline(row)
      BY <1>3, <2>1
    <2>3. m * DAY \in Nat
      BY <2>1, Times
    <2> QED BY <1>2, <2>2, <2>3
  <1>4. DaysLeft(row, time) = CHOOSE n \in 0 .. row.valid_since_days : Fits(n)
    BY DEF DaysLeft
  <1>5. DaysLeft(row, time) \in 0 .. row.valid_since_days /\ Fits(DaysLeft(row, time))
    <2> HIDE DEF Fits, left
    <2> QED BY <1>1, <1>4
  <1> HIDE DEF Fits
  <1>6. ~(left < DaysLeft(row, time)) /\ ~(DaysLeft(row, time) < left)
    BY <1>1, <1>3, <1>5
  <1> QED BY <1>1, <1>2, <1>5, <1>6

-----------------------------------------------------------------------------
(* The order of the rows, and what a walk is *)

LEMMA Ordered ==
    ASSUME NEW e \in Entry, NEW f \in Entry
    PROVE  ~(Before(e, f) /\ Before(f, e)) /\ ~Before(e, e)
  <1>1. e.row.group \in Int /\ f.row.group \in Int
    BY GroupsAreOrdered DEF Entry, Row
  <1>2. e.password \in Int /\ f.password \in Int
    BY Constants DEF Entry, Password
  <1> QED BY <1>1, <1>2 DEF Before

LEMMA OneFirst ==
    ASSUME NEW entries \in SUBSET Entry, NEW e, First(e, entries), NEW f, First(f, entries)
    PROVE  e = f
  BY Ordered DEF First

LEMMA WalkIs ==
    ASSUME TypeOK, Walking \/ walk.at = "done"
    PROVE  walk \in Walks
  BY DEF TypeOK, Walking, NoWalk

LEMMA PageSizeIs ==
    ASSUME walk \in Walks
    PROVE  PageSize \in Nat /\ PageSize >= 1
  <1>1. walk.size = None \/ walk.size \in Int
    BY ClientsAskForNumbers DEF Walks
  <1>2. CASE walk.size = None
    BY <1>2, Constants DEF PageSize
  <1>3. CASE walk.size # None
    BY <1>1, <1>3, Constants DEF PageSize, Clamp
  <1> QED BY <1>2, <1>3

\* The rows that are listed or waiting are rows there are.
LEMMA Rows ==
    ASSUME TypeOK
    PROVE  /\ Current \subseteq Stored /\ Stored \subseteq Password
           /\ \A p \in Stored : rows[p] \in Row /\ Of(p) \in Entry
           /\ \A p \in Password : Of(p).password = p /\ Of(p).row = rows[p]
           /\ walk \in Walks => Waiting \subseteq Stored
  <1>1. Current \subseteq Stored /\ Stored \subseteq Password
    BY DEF Current, Listed, Stored
  <1>2. \A p \in Stored : rows[p] \in Row /\ Of(p) \in Entry
    BY DEF TypeOK, Stored, Of, Entry
  <1>3. \A p \in Password : Of(p).password = p /\ Of(p).row = rows[p]
    BY DEF Of
  <1>4. ASSUME walk \in Walks, NEW p \in Waiting
        PROVE  p \in Stored
    <2>1. p \in Password /\ Of(p) \in Entry
      BY <1>4 DEF Waiting, Walks
    <2>2. rows[p] \in Row
      BY <1>3, <2>1 DEF Entry
    <2> QED BY <2>1, <2>2, NoneIsNoValue DEF Stored
  <1> QED BY <1>1, <1>2, <1>3, <1>4

\* Two rows are not before one another.
LEMMA RowsOrdered ==
    ASSUME TypeOK, NEW p \in Stored, NEW q \in Stored
    PROVE  ~(Precedes(p, q) /\ Precedes(q, p)) /\ ~Precedes(p, p)
  BY Rows, Ordered DEF Precedes

\* The first entry of what waits is the row itself, before the other rows that wait.
LEMMA FirstWaits ==
    ASSUME TypeOK, walk \in Walks, Making, RestIsCurrent, ~(walk.came /\ walk.left),
           NEW e \in walk.rest, First(e, walk.rest)
    PROVE  /\ e.password \in Waiting /\ e.row = rows[e.password] /\ e = Of(e.password)
           /\ \A p \in Waiting \ {e.password} : Precedes(e.password, p) /\ ~Precedes(p, e.password)
           /\ ~Precedes(e.password, e.password)
           /\ \A p \in Password : Of(p) \in walk.rest \ {e} <=> p \in Waiting \ {e.password}
  <1>1. e \in Entry /\ e.password \in Password /\ e.row = rows[e.password]
    BY DEF Walks, Entry, RestIsCurrent
  <1>2. e = Of(e.password)
    BY <1>1 DEF Of, Entry
  <1>3. e.password \in Waiting
    BY <1>1, <1>2 DEF Waiting
  <1>4. \A p \in Password : Of(p) = e <=> p = e.password
    BY <1>2, Rows
  <1>5. \A p \in Password : Of(p) \in walk.rest \ {e} <=> p \in Waiting \ {e.password}
    BY <1>4 DEF Waiting
  <1>6. ASSUME NEW p \in Waiting \ {e.password}
        PROVE  Precedes(e.password, p) /\ ~Precedes(p, e.password)
    <2>1. p \in Stored /\ e.password \in Stored /\ p \in Password
      BY <1>3, Rows
    <2>2. Of(p) \in walk.rest \ {e}
      BY <1>5, <2>1
    <2>3. Before(e, Of(p))
      BY <2>2 DEF First
    <2>4. Precedes(e.password, p)
      BY <1>2, <2>3 DEF Precedes
    <2> QED BY <2>1, <2>4, RowsOrdered
  <1>7. ~Precedes(e.password, e.password)
    BY <1>3, Rows, RowsOrdered
  <1> QED BY <1>1, <1>2, <1>3, <1>5, <1>6, <1>7

-----------------------------------------------------------------------------
(* The table and the clock change under a walk *)

LEMMA Watched ==
    ASSUME walk \in Walks, Walking, NEW moved \in BOOLEAN, Watch(moved)
    PROVE  /\ walk' \in Walks
           /\ walk'.at = walk.at /\ walk'.expired = walk.expired /\ walk'.take = walk.take
           /\ walk'.rest = walk.rest /\ walk'.skip = walk.skip /\ walk'.page = walk.page
           /\ walk'.filtered = walk.filtered /\ walk'.again = walk.again
           /\ walk'.came <=> walk.came \/ moved \/ ~(Current' \subseteq Current)
           /\ walk'.left <=> walk.left \/ moved \/ ~(Current \subseteq Current')
           /\ walk'.stayed = IF walk'.left THEN {} ELSE walk.stayed
           /\ walk'.seen = IF walk'.came /\ walk'.left THEN {} ELSE walk.seen
  <1> DEFINE before == Listed(rows, now, walk.expired)
             after  == Listed(rows', now', walk.expired)
             came   == walk.came \/ moved \/ ~(after \subseteq before)
             left   == walk.left \/ moved \/ ~(before \subseteq after)
  <1>1. walk' = [walk EXCEPT !.came = came, !.left = left,
                             !.stayed = IF left THEN {} ELSE @,
                             !.seen = IF came /\ left THEN {} ELSE @]
    BY DEF Watch
  <1>2. came \in BOOLEAN /\ left \in BOOLEAN
    BY DEF Walks
  <1>3. before = Current
    BY DEF Current
  <1> HIDE DEF came, left
  <1>4. /\ walk' \in Walks
        /\ walk'.at = walk.at /\ walk'.expired = walk.expired /\ walk'.take = walk.take
        /\ walk'.rest = walk.rest /\ walk'.skip = walk.skip /\ walk'.page = walk.page
        /\ walk'.filtered = walk.filtered /\ walk'.again = walk.again
        /\ walk'.came = came /\ walk'.left = left
        /\ walk'.stayed = IF left THEN {} ELSE walk.stayed
        /\ walk'.seen = IF came /\ left THEN {} ELSE walk.seen
    BY <1>1, <1>2 DEF Walks
  <1>5. after = Current'
    BY <1>4 DEF Current
  <1> QED BY <1>2, <1>3, <1>4, <1>5 DEF came, left

LEMMA WatchKeepsPages ==
    ASSUME TypeOK, TypeOK', Pages, Walking, NEW moved \in BOOLEAN, Watch(moved),
           ~moved => \A p \in Stored : /\ p \in Stored'
                                       /\ rows'[p].group = rows[p].group
                                       /\ Making => rows'[p] = rows[p]
    PROVE  Pages'
  <1>1. walk \in Walks
    BY WalkIs
  <1>2. /\ walk' \in Walks
        /\ walk'.at = walk.at /\ walk'.expired = walk.expired /\ walk'.take = walk.take
        /\ walk'.rest = walk.rest /\ walk'.skip = walk.skip /\ walk'.page = walk.page
        /\ walk'.filtered = walk.filtered /\ walk'.again = walk.again
        /\ walk'.came <=> walk.came \/ moved \/ ~(Current' \subseteq Current)
        /\ walk'.left <=> walk.left \/ moved \/ ~(Current \subseteq Current')
        /\ walk'.stayed = IF walk'.left THEN {} ELSE walk.stayed
        /\ walk'.seen = IF walk'.came /\ walk'.left THEN {} ELSE walk.seen
    BY <1>1, Watched
  <1>3. /\ RestIsCurrent /\ SkippedFirst /\ FilteredFits
        /\ StayedAreToCome /\ PassedAreAhead
        /\ ~walk.came => SeenAreSkipped /\ NoMorePassed /\ ~walk.again
    BY DEF Pages
  <1>4. Making' <=> Making
    BY <1>2 DEF Making
  <1>5. SkippedFirst'
    BY <1>2, <1>3 DEF SkippedFirst
  <1>6. FilteredFits'
    <2>1. ASSUME walk.at = "map"
          PROVE  \E e \in walk'.rest : /\ First(e, walk'.rest)
                                       /\ is_expired(e.row, walk'.filtered) = walk'.expired
                                       /\ ~walk'.left => e.password \in Current'
                                       /\ ~walk'.came => e.password \notin walk'.seen
      <3>1. PICK e \in walk.rest : /\ First(e, walk.rest)
                                   /\ is_expired(e.row, walk.filtered) = walk.expired
                                   /\ ~walk.left => e.password \in Current
                                   /\ ~walk.came => e.password \notin walk.seen
        BY <1>3, <2>1 DEF FilteredFits
      <3>2. ~walk'.left => e.password \in Current'
        BY <1>2, <3>1
      <3>3. ~walk'.came => e.password \notin walk'.seen
        BY <1>2, <3>1
      <3> QED BY <1>2, <3>1, <3>2, <3>3
    <2> QED BY <1>2, <2>1 DEF FilteredFits
  <1>7. CASE walk'.came /\ walk'.left
    <2>1. walk'.stayed = {}
      BY <1>2, <1>7
    <2>2. RestIsCurrent' /\ StayedAreToCome' /\ PassedAreAhead'
      BY <1>7, <2>1 DEF RestIsCurrent, StayedAreToCome, PassedAreAhead
    <2> QED BY <1>5, <1>6, <1>7, <2>2 DEF Pages
  <1>8. CASE ~(walk'.came /\ walk'.left)
    <2>1. ~moved /\ ~(walk.came /\ walk.left)
      BY <1>2, <1>8
    <2>2. /\ Current \subseteq Stored /\ Stored \subseteq Password
          /\ Waiting \subseteq Stored
          /\ \A p \in Stored : rows[p] \in Row
          /\ \A p \in Password : Of(p).password = p /\ Of(p).row = rows[p]
      BY <1>1, Rows
    <2>3. \A p \in Password : Of(p)'.password = p /\ Of(p)'.row = rows'[p]
      BY DEF Of
    <2>4. \A p, q \in Stored : Precedes(p, q)' <=> Precedes(p, q)
      BY <2>1, <2>2, <2>3 DEF Precedes, Before
    <2>5. RestIsCurrent' /\ (Making => Waiting' = Waiting)
      <3>1. CASE ~Making
        BY <1>4, <3>1 DEF RestIsCurrent
      <3>2. CASE Making
        <4>1. ASSUME NEW e \in walk.rest
              PROVE  e.password \in Stored /\ e.row = rows[e.password] /\ e.row = rows'[e.password]
          <5>1. e \in Entry /\ e.row = rows[e.password]
            BY <1>1, <1>3, <2>1, <3>2, <4>1 DEF Walks, RestIsCurrent
          <5>2. e.password \in Stored
            BY <5>1, NoneIsNoValue DEF Entry, Stored
          <5> QED BY <2>1, <3>2, <5>1, <5>2
        <4>2. RestIsCurrent'
          BY <1>2, <4>1 DEF RestIsCurrent
        <4>3. ASSUME NEW p \in Password
              PROVE  Of(p)' \in walk.rest <=> Of(p) \in walk.rest
          <5>1. CASE p \in Stored
            BY <2>1, <3>2, <5>1 DEF Of
          <5>2. CASE p \notin Stored
            BY <2>2, <2>3, <4>1, <5>2
          <5> QED BY <5>1, <5>2
        <4>4. Waiting' = Waiting
          BY <1>2, <4>3 DEF Waiting
        <4> QED BY <4>2, <4>4
      <3> QED BY <3>1, <3>2
    <2>6. StayedAreToCome' /\ PassedAreAhead'
      <3>1. CASE walk'.left
        BY <1>2, <3>1 DEF StayedAreToCome, PassedAreAhead
      <3>2. CASE ~walk'.left
        <4>1. Current \subseteq Current' /\ walk'.stayed = walk.stayed /\ walk'.seen = walk.seen
              /\ ~walk.left
          BY <1>2, <3>2
        <4>2. ASSUME NEW p \in Stored, NEW some \in SUBSET Password
              PROVE  LET after == {q \in Current' \cap some : Precedes(q, p)'}
                     IN  /\ Cardinality(Ahead(p, some)) <= Cardinality(after)
                         /\ Cardinality(Ahead(p, some)) \in Nat /\ Cardinality(after) \in Nat
          <5>1. Ahead(p, some) \subseteq {q \in Current' \cap some : Precedes(q, p)'}
            BY <2>2, <2>4, <4>1 DEF Ahead
          <5>2. {q \in Current' \cap some : Precedes(q, p)'} \subseteq Password
            OBVIOUS
          <5> QED BY <5>1, <5>2, Sizes
        <4>3. walk.take \in Nat /\ walk.skip \in Nat /\ walk.page \in Nat
          BY <1>1 DEF Walks
        <4>4. walk.stayed \subseteq Stored /\ walk.stayed \subseteq Current'
          BY <1>3, <2>2, <4>1 DEF StayedAreToCome
        <4>5. ASSUME walk.at = "ask", NEW p \in walk.stayed \ walk.seen
              PROVE  walk.take <= Cardinality(Ahead(p, Password)')
          <5>1. walk.take <= Cardinality(Ahead(p, Password))
            BY <1>3, <4>5 DEF StayedAreToCome
          <5>2. Ahead(p, Password)' = {q \in Current' \cap Password : Precedes(q, p)'}
            BY DEF Ahead
          <5> QED BY <4>2, <4>3, <4>4, <5>1, <5>2
        <4>6. ASSUME Making, NEW p \in walk.stayed \ walk.seen
              PROVE  p \in Waiting /\ walk.skip <= Cardinality(Ahead(p, Waiting)')
          <5>1. p \in Waiting /\ walk.skip <= Cardinality(Ahead(p, Waiting))
            BY <1>3, <4>6 DEF StayedAreToCome
          <5>2. Ahead(p, Waiting)' = {q \in Current' \cap Waiting : Precedes(q, p)'}
            BY <2>5, <4>6 DEF Ahead
          <5>3. Waiting \in SUBSET Password
            BY <2>2
          <5> QED BY <4>2, <4>3, <4>4, <5>1, <5>2, <5>3
        <4>7. ASSUME Making, NEW p \in Waiting
              PROVE  walk.take + walk.page <= walk.skip + Cardinality(Ahead(p, Password \ Waiting)')
          <5>1. walk.take + walk.page <= walk.skip + Cardinality(Ahead(p, Password \ Waiting))
            BY <1>3, <4>1, <4>7 DEF PassedAreAhead
          <5>2. Ahead(p, Password \ Waiting)' = {q \in Current' \cap (Password \ Waiting) : Precedes(q, p)'}
            BY <2>5, <4>7 DEF Ahead
          <5>3. Password \ Waiting \in SUBSET Password /\ p \in Stored
            BY <2>2, <4>7
          <5>4. /\ Cardinality(Ahead(p, Password \ Waiting)) <= Cardinality(Ahead(p, Password \ Waiting)')
                /\ Cardinality(Ahead(p, Password \ Waiting)) \in Nat
                /\ Cardinality(Ahead(p, Password \ Waiting)') \in Nat
            BY <4>2, <5>2, <5>3
          <5> QED BY <4>3, <5>1, <5>4
        <4>8. StayedAreToCome'
          BY <1>2, <1>4, <2>5, <3>2, <4>1, <4>4, <4>5, <4>6 DEF StayedAreToCome
        <4>9. PassedAreAhead'
          BY <1>2, <1>4, <2>5, <4>7 DEF PassedAreAhead
        <4> QED BY <4>8, <4>9
      <3> QED BY <3>1, <3>2
    <2>7. ASSUME ~walk'.came
          PROVE  SeenAreSkipped' /\ NoMorePassed' /\ ~walk'.again
      <3>1. /\ Current' \subseteq Current /\ walk'.seen = walk.seen /\ ~walk.came
            /\ SeenAreSkipped /\ NoMorePassed /\ ~walk'.again
        BY <1>2, <1>3, <2>7
      <3>2. ASSUME NEW p \in Stored, NEW some \in SUBSET Password
            PROVE  LET after == {q \in Current' \cap some : Precedes(q, p)'}
                   IN  /\ Cardinality(after) <= Cardinality(Ahead(p, some))
                       /\ Cardinality(Ahead(p, some)) \in Nat /\ Cardinality(after) \in Nat
        <4>1. {q \in Current' \cap some : Precedes(q, p)'} \subseteq Ahead(p, some)
          BY <2>2, <2>4, <3>1 DEF Ahead
        <4>2. Ahead(p, some) \subseteq Password
          BY <3>2 DEF Ahead
        <4> QED BY <4>1, <4>2, Sizes
      <3>3. walk.take \in Nat /\ walk.skip \in Nat /\ walk.page \in Nat
        BY <1>1 DEF Walks
      <3>4. ASSUME walk.at = "ask", NEW p \in walk.seen \cap Current'
            PROVE  Cardinality(Ahead(p, Password)') < walk.take
        <4>1. Cardinality(Ahead(p, Password)) < walk.take /\ p \in Stored
          BY <2>2, <3>1, <3>4 DEF SeenAreSkipped
        <4>2. Ahead(p, Password)' = {q \in Current' \cap Password : Precedes(q, p)'}
          BY DEF Ahead
        <4> QED BY <3>2, <3>3, <4>1, <4>2
      <3>5. ASSUME Making, NEW p \in walk.seen \cap Current' \cap Waiting
            PROVE  Cardinality(Ahead(p, Waiting)') < walk.skip
        <4>1. Cardinality(Ahead(p, Waiting)) < walk.skip /\ p \in Stored
          BY <2>2, <3>1, <3>5 DEF SeenAreSkipped
        <4>2. Ahead(p, Waiting)' = {q \in Current' \cap Waiting : Precedes(q, p)'}
          BY <2>5, <3>5 DEF Ahead
        <4>3. Waiting \in SUBSET Password
          BY <2>2
        <4> QED BY <3>2, <3>3, <4>1, <4>2, <4>3
      <3>6. SeenAreSkipped'
        BY <1>2, <1>4, <2>5, <3>1, <3>4, <3>5 DEF SeenAreSkipped
      <3>7. NoMorePassed'
        <4>1. ASSUME Making
              PROVE  /\ \A p \in Current' \ Waiting, q \in Waiting : Precedes(p, q)'
                     /\ Cardinality(Current' \ Waiting) + walk.skip <= walk.take + walk.page
          <5>1. \A p \in Current \ Waiting, q \in Waiting : Precedes(p, q)
            BY <3>1, <4>1 DEF NoMorePassed
          <5>2. \A p \in Current' \ Waiting, q \in Waiting : Precedes(p, q)'
            BY <2>2, <2>4, <3>1, <5>1
          <5>3. Cardinality(Current \ Waiting) + walk.skip <= walk.take + walk.page
            BY <3>1, <4>1 DEF NoMorePassed
          <5>4. Current' \ Waiting \subseteq Current \ Waiting /\ Current \ Waiting \subseteq Password
            BY <2>2, <3>1
          <5>5. /\ Cardinality(Current' \ Waiting) <= Cardinality(Current \ Waiting)
                /\ Cardinality(Current' \ Waiting) \in Nat /\ Cardinality(Current \ Waiting) \in Nat
            BY <5>4, Sizes
          <5> QED BY <3>3, <5>2, <5>3, <5>5
        <4> QED BY <1>2, <1>4, <2>5, <4>1 DEF NoMorePassed
      <3> QED BY <3>1, <3>6, <3>7
    <2> QED BY <1>5, <1>6, <2>5, <2>6, <2>7 DEF Pages
  <1> QED BY <1>7, <1>8

\* A step that changes the table or the clock.
LEMMA TableStep ==
    ASSUME IInv, TypeOK', shown' = None, NEW moved \in BOOLEAN, Watch(moved),
           ~moved => \A p \in Stored : /\ p \in Stored'
                                       /\ rows'[p].group = rows[p].group
                                       /\ Making => rows'[p] = rows[p]
    PROVE  IInv'
  <1>1. TypeOK /\ Pages /\ Finished
    BY DEF IInv
  <1>2. EntriesAreRight'
    BY DEF EntriesAreRight
  <1>3. CASE Walking
    <2>1. Pages'
      BY <1>1, <1>3, WatchKeepsPages
    <2>2. walk'.at = walk.at
      BY <1>1, <1>3, WalkIs, Watched
    <2>3. Finished'
      BY <1>3, <2>2 DEF Finished, Walking
    <2> QED BY <1>2, <2>1, <2>3 DEF IInv
  <1>4. CASE ~Walking
    <2>1. walk' = walk
      BY <1>4 DEF Watch
    <2>2. Pages'
      BY <1>4, <2>1 DEF Pages, Walking
    <2>3. Finished'
      BY <1>1, <2>1 DEF Finished, PagesMissNothing, PagesRepeatNothing, Walking
    <2> QED BY <1>2, <2>2, <2>3 DEF IInv
  <1> QED BY <1>3, <1>4

LEMMA WatchKeepsType ==
    ASSUME TypeOK, NEW moved \in BOOLEAN, Watch(moved)
    PROVE  walk' = NoWalk \/ (walk' \in Walks /\ (walk'.at = "map" <=> walk'.filtered # None))
  <1>1. CASE Walking
    <2>1. walk \in Walks /\ (walk.at = "map" <=> walk.filtered # None)
      BY <1>1 DEF TypeOK, Walking, NoWalk
    <2>2. walk' \in Walks /\ walk'.at = walk.at /\ walk'.filtered = walk.filtered
      BY <1>1, <2>1, Watched
    <2> QED BY <2>1, <2>2
  <1>2. CASE ~Walking
    BY <1>2 DEF Watch, TypeOK
  <1> QED BY <1>1, <1>2

LEMMA ClockSteps ==
    ASSUME IInv, Tick \/ Set_back
    PROVE  IInv'
  <1>1. TypeOK /\ Watch(FALSE) /\ shown' = None /\ rows' = rows
    BY DEF IInv, Tick, Set_back
  <1>2. now' \in 0 .. MaxNow /\ surprises' \in 0 .. MaxSurprises
    <2>1. now \in 0 .. MaxNow /\ surprises \in 0 .. MaxSurprises
      BY <1>1 DEF TypeOK
    <2>2. CASE Tick
      <3>1. now' = now + 1 /\ now < MaxNow /\ surprises' = surprises
        BY <2>2 DEF Tick
      <3> QED BY <2>1, <3>1, Constants
    <2>3. CASE Set_back
      <3>1. now' \in 0 .. now - 1 /\ surprises < MaxSurprises /\ surprises' = surprises + 1
        BY <2>3 DEF Set_back
      <3> QED BY <2>1, <3>1, Constants
    <2> QED BY <2>2, <2>3
  <1>3. walk' = NoWalk \/ (walk' \in Walks /\ (walk'.at = "map" <=> walk'.filtered # None))
    BY <1>1, WatchKeepsType
  <1>4. TypeOK'
    BY <1>1, <1>2, <1>3 DEF TypeOK
  <1>5. Stored' = Stored
    BY <1>1 DEF Stored
  <1>6. \A p \in Stored : /\ p \in Stored' /\ rows'[p].group = rows[p].group
                          /\ Making => rows'[p] = rows[p]
    BY <1>1, <1>5
  <1> QED BY <1>1, <1>4, <1>6, TableStep

LEMMA CreateStep ==
    ASSUME IInv, NEW g \in Group, NEW days \in AskedDays, Create(g, days)
    PROVE  IInv'
  <1> DEFINE period == IF days = None THEN DefaultDays ELSE Clamp(days, 1, MaxDays)
             row == [group |-> g, valid_since |-> now, valid_since_days |-> period]
  <1>1. TypeOK /\ Watch(FALSE) /\ shown' = None /\ now' = now /\ surprises' = surprises
    BY DEF IInv, Create
  <1>2. PICK p \in Password : Stored = 1 .. p - 1 /\ rows' = [rows EXCEPT ![p] = row]
    BY DEF Create
  <1>3. period \in 1 .. MaxDays
    <2>1. days = None \/ days \in Int
      BY ClientsAskForNumbers
    <2> QED BY <2>1, Constants DEF Clamp
  <1>4. row \in Row
    BY <1>1, <1>3 DEF TypeOK, Row
  <1>5. p \in Nat /\ p \notin Stored
    BY <1>2, Constants DEF Password
  <1> HIDE DEF period, row
  <1>6. rows' \in [Password -> Row \cup {None}]
    BY <1>1, <1>2, <1>4 DEF TypeOK
  <1>7. TypeOK'
    <2>1. walk' = NoWalk \/ (walk' \in Walks /\ (walk'.at = "map" <=> walk'.filtered # None))
      BY <1>1, WatchKeepsType
    <2> QED BY <1>1, <1>6, <2>1 DEF TypeOK
  <1>8. ASSUME NEW q \in Stored
        PROVE  q \in Stored' /\ rows'[q] = rows[q]
    <2>1. q # p /\ q \in Password /\ rows[q] # None
      BY <1>5 DEF Stored
    <2>2. rows'[q] = rows[q]
      BY <1>1, <1>2, <2>1 DEF TypeOK
    <2> QED BY <2>1, <2>2 DEF Stored
  <1> QED BY <1>1, <1>7, <1>8, TableStep

LEMMA UpdateStep ==
    ASSUME IInv, NEW g \in Group, NEW p \in Password, Update(p, g)
    PROVE  IInv'
  <1> DEFINE moved == rows[p].group # g \/ walk.at # "ask"
  <1>1. TypeOK /\ Watch(moved) /\ shown' = None /\ now' = now /\ p \in Stored
        /\ surprises < MaxSurprises /\ surprises' = surprises + 1
        /\ rows' = [rows EXCEPT ![p].group = g, ![p].valid_since = now]
        /\ moved \in BOOLEAN
    BY DEF IInv, Update
  <1>2. rows[p] \in Row
    BY <1>1, Rows
  <1>3. /\ rows' \in [Password -> Row \cup {None}]
        /\ rows'[p] \in Row /\ rows'[p].group = g
        /\ \A q \in Password \ {p} : rows'[q] = rows[q]
    <2>1. rows' = [rows EXCEPT ![p] = [[rows[p] EXCEPT !.group = g] EXCEPT !.valid_since = now]]
      BY <1>1 DEF TypeOK
    <2>2. [[rows[p] EXCEPT !.group = g] EXCEPT !.valid_since = now] \in Row
          /\ [[rows[p] EXCEPT !.group = g] EXCEPT !.valid_since = now].group = g
      BY <1>1, <1>2 DEF Row, TypeOK
    <2> QED BY <1>1, <2>1, <2>2 DEF TypeOK
  <1>4. surprises' \in 0 .. MaxSurprises
    BY <1>1, Constants DEF TypeOK
  <1>5. TypeOK'
    <2>1. walk' = NoWalk \/ (walk' \in Walks /\ (walk'.at = "map" <=> walk'.filtered # None))
      BY <1>1, WatchKeepsType
    <2> QED BY <1>1, <1>3, <1>4, <2>1 DEF TypeOK
  <1>6. ASSUME ~moved, NEW q \in Stored
        PROVE  q \in Stored' /\ rows'[q].group = rows[q].group /\ ~Making
    <2>1. q \in Password /\ rows[q] # None
      BY DEF Stored
    <2>2. rows'[q] # None /\ rows'[q].group = rows[q].group
      BY <1>3, <1>6, <2>1, NoneIsNoValue
    <2> QED BY <1>6, <2>1, <2>2 DEF Stored, Making
  <1> HIDE DEF moved
  <1> QED BY <1>1, <1>5, <1>6, TableStep

-----------------------------------------------------------------------------
(* The steps of a walk *)

LEMMA Unmoved ==
    ASSUME UNCHANGED <<now, rows>>, walk'.expired = walk.expired
    PROVE  /\ Current' = Current /\ Stored' = Stored
           /\ \A p \in Password : Of(p)' = Of(p)
           /\ \A p, q \in Password : Precedes(p, q)' <=> Precedes(p, q)
  <1>1. Current' = Current
    BY DEF Current, Listed
  <1>2. Stored' = Stored
    BY DEF Stored
  <1>3. \A p : Of(p)' = Of(p)
    BY DEF Of
  <1>4. \A p, q : Precedes(p, q)' <=> Precedes(p, q)
    BY <1>3 DEF Precedes
  <1> QED BY <1>1, <1>2, <1>3, <1>4

\* What is ahead of a row, after a step that keeps the list.
LEMMA StillAhead ==
    ASSUME UNCHANGED <<now, rows>>, walk'.expired = walk.expired
    PROVE  \A p \in Password :
              /\ Ahead(p, Password)' = Ahead(p, Password)
              /\ Ahead(p, Waiting)' = Ahead(p, Waiting')
              /\ Ahead(p, Password \ Waiting)' = Ahead(p, Password \ Waiting')
  BY Unmoved DEF Ahead, Current, Listed

LEMMA AheadCounted ==
    ASSUME NEW p, NEW some
    PROVE  /\ Ahead(p, some) \subseteq Password
           /\ Cardinality(Ahead(p, some)) \in Nat
  <1>1. Ahead(p, some) \subseteq Password
    BY DEF Ahead, Current, Listed
  <1> QED BY <1>1, Sizes

LEMMA BeginStep ==
    ASSUME IInv, NEW expired \in BOOLEAN, NEW size \in AskedSize, Walk_begin(expired, size)
    PROVE  IInv'
  <1>1. /\ walk' = [at |-> "ask", expired |-> expired, size |-> size, take |-> 0,
                    rest |-> {}, skip |-> 0, page |-> 0, filtered |-> None,
                    seen |-> {}, again |-> FALSE,
                    stayed |-> Listed(rows, now, expired), came |-> FALSE, left |-> FALSE]
        /\ shown' = None /\ now' = now /\ rows' = rows /\ surprises' = surprises
    BY DEF Walk_begin
  <1>2. Listed(rows, now, expired) \subseteq Password
    BY DEF Listed
  <1>3. walk' \in Walks /\ (walk'.at = "map" <=> walk'.filtered # None)
    BY <1>1, <1>2 DEF Walks
  <1>4. TypeOK'
    BY <1>1, <1>3 DEF IInv, TypeOK
  <1>5. walk'.stayed = Current'
    BY <1>1 DEF Current
  <1>6. StayedAreToCome'
    <2>1. \A p : Cardinality(Ahead(p, Password)') \in Nat
      <3>1. ASSUME NEW p
            PROVE  Ahead(p, Password)' \subseteq Password
        BY DEF Ahead
      <3> QED BY <3>1, Sizes
    <2> QED BY <1>1, <1>5, <2>1 DEF StayedAreToCome, Making
  <1>7. /\ RestIsCurrent' /\ SkippedFirst' /\ FilteredFits' /\ PassedAreAhead'
        /\ SeenAreSkipped' /\ NoMorePassed' /\ ~walk'.again
    BY <1>1 DEF RestIsCurrent, SkippedFirst, FilteredFits, PassedAreAhead, SeenAreSkipped,
                NoMorePassed, Making
  <1>8. Pages'
    BY <1>6, <1>7 DEF Pages
  <1>9. EntriesAreRight' /\ Finished'
    BY <1>1 DEF EntriesAreRight, Finished
  <1> QED BY <1>4, <1>8, <1>9 DEF IInv

LEMMA QueryStep ==
    ASSUME IInv, List_query
    PROVE  IInv'
  <1>1. /\ TypeOK /\ Walking /\ walk \in Walks /\ walk.at = "ask"
        /\ walk' = [walk EXCEPT !.at = "filter", !.rest = find_by_groups, !.skip = walk.take]
        /\ shown' = None /\ now' = now /\ rows' = rows /\ surprises' = surprises
    BY WalkIs DEF IInv, List_query, Walking
  <1>2. /\ RestIsCurrent /\ SkippedFirst /\ StayedAreToCome
        /\ ~walk.came => SeenAreSkipped /\ ~walk.again
    BY <1>1 DEF IInv, Pages
  <1>3. find_by_groups \subseteq Entry /\ \A e \in find_by_groups : e.row = rows[e.password]
    BY <1>1, Rows DEF find_by_groups, Of
  <1>4. /\ walk' \in Walks
        /\ walk'.at = "filter" /\ walk'.rest = find_by_groups /\ walk'.skip = walk.take
        /\ walk'.expired = walk.expired /\ walk'.take = walk.take /\ walk'.page = walk.page
        /\ walk'.filtered = walk.filtered /\ walk'.again = walk.again
        /\ walk'.came = walk.came /\ walk'.left = walk.left
        /\ walk'.stayed = walk.stayed /\ walk'.seen = walk.seen
    BY <1>1, <1>3 DEF Walks
  <1>5. TypeOK'
    BY <1>1, <1>4 DEF TypeOK, Walks, NoWalk
  <1>6. /\ Current' = Current /\ Stored' = Stored /\ Current \subseteq Stored
        /\ \A p \in Password : Of(p)' = Of(p)
    BY <1>1, <1>4, Unmoved, Rows
  <1>7. Waiting' = Stored
    <2>1. \A p \in Password : Of(p) \in find_by_groups <=> p \in Stored
      BY DEF Of, find_by_groups
    <2>2. Waiting' = {p \in Password : Of(p) \in find_by_groups}
      BY <1>4, <1>6 DEF Waiting
    <2> QED BY <2>1, <2>2 DEF Stored
  <1>8. \A p \in Password : /\ Ahead(p, Waiting)' = Ahead(p, Password)
                            /\ Cardinality(Ahead(p, Password)) \in Nat
    <2>1. \A p \in Password : Ahead(p, Stored) = Ahead(p, Password)
      BY <1>6 DEF Ahead, Stored
    <2> QED BY <1>1, <1>4, <1>7, <2>1, StillAhead, AheadCounted
  <1>9. walk.take \in Nat /\ walk.page = 0 /\ walk.stayed \subseteq Password
    BY <1>1, <1>2 DEF Walks, SkippedFirst
  <1>10. Making'
    BY <1>4 DEF Making
  <1>11. RestIsCurrent' /\ SkippedFirst' /\ FilteredFits'
    BY <1>1, <1>3, <1>4, <1>9 DEF RestIsCurrent, SkippedFirst, FilteredFits
  <1>12. StayedAreToCome'
    <2>1. walk.stayed \subseteq Current /\ (walk.left => walk.stayed = {})
          /\ \A p \in walk.stayed \ walk.seen : walk.take <= Cardinality(Ahead(p, Password))
      BY <1>1, <1>2 DEF StayedAreToCome
    <2>2. \A p \in walk.stayed \ walk.seen :
             p \in Waiting' /\ walk.take <= Cardinality(Ahead(p, Waiting)')
      BY <1>6, <1>7, <1>8, <1>9, <2>1
    <2> QED BY <1>4, <1>6, <2>1, <2>2 DEF StayedAreToCome
  <1>13. PassedAreAhead'
    <2>1. \A p \in Password : Cardinality(Ahead(p, Password \ Waiting)') \in Nat
      BY <1>1, <1>4, StillAhead, AheadCounted
    <2>2. ASSUME NEW p \in Waiting'
          PROVE  walk'.take + walk'.page <= walk'.skip + Cardinality(Ahead(p, Password \ Waiting)')
      BY <1>4, <1>9, <2>1 DEF Waiting
    <2> QED BY <2>2 DEF PassedAreAhead
  <1>14. ASSUME ~walk.came
         PROVE  SeenAreSkipped' /\ NoMorePassed'
    <2>1. \A p \in walk.seen \cap Current : Cardinality(Ahead(p, Password)) < walk.take
      BY <1>1, <1>2, <1>14 DEF SeenAreSkipped
    <2>2. \A p \in walk.seen \cap Current : Cardinality(Ahead(p, Waiting)') < walk.take
      BY <1>8, <2>1 DEF Current, Listed
    <2>3. SeenAreSkipped'
      BY <1>4, <1>6, <2>2 DEF SeenAreSkipped
    <2>4. Current' \ Waiting' = {}
      BY <1>6, <1>7
    <2>5. NoMorePassed'
      <3>1. Cardinality(Current' \ Waiting') + walk'.skip <= walk'.take + walk'.page
        <4>1. Cardinality(Current' \ Waiting') = 0
          BY <2>4, NoneCounted
        <4>2. walk'.skip = walk.take /\ walk'.take = walk.take /\ walk'.page = 0
          BY <1>4, <1>9
        <4> QED BY <1>9, <4>1, <4>2
      <3>2. \A p \in Current' \ Waiting', q \in Waiting' : Precedes(p, q)'
        BY <2>4
      <3> QED BY <3>1, <3>2 DEF NoMorePassed
    <2> QED BY <2>3, <2>5
  <1>15. Pages'
    BY <1>2, <1>4, <1>11, <1>12, <1>13, <1>14 DEF Pages
  <1>16. EntriesAreRight' /\ Finished'
    BY <1>1, <1>4 DEF EntriesAreRight, Finished
  <1> QED BY <1>5, <1>15, <1>16 DEF IInv

\* The first of the rows that wait, and what is ahead of the rows when it is gone.
LEMMA FirstGone ==
    ASSUME TypeOK, walk \in Walks, Making, RestIsCurrent, ~(walk.came /\ walk.left),
           NEW e \in walk.rest, First(e, walk.rest),
           UNCHANGED <<now, rows>>, walk'.expired = walk.expired, walk'.rest = walk.rest \ {e}
    PROVE  /\ Waiting' = Waiting \ {e.password} /\ e.password \in Waiting /\ Waiting \subseteq Password
           /\ (e.password \in Current <=> is_expired(e.row, now) = walk.expired)
           /\ Cardinality(Ahead(e.password, Waiting)) = 0
           /\ \A p \in Waiting' : Precedes(e.password, p)
           /\ e.password \notin Current =>
                 \A p \in Waiting' :
                    /\ Ahead(p, Waiting)' = Ahead(p, Waiting)
                    /\ Ahead(p, Password \ Waiting)' = Ahead(p, Password \ Waiting)
           /\ e.password \in Current =>
                 \A p \in Waiting' :
                    /\ Cardinality(Ahead(p, Waiting)') = Cardinality(Ahead(p, Waiting)) - 1
                    /\ Cardinality(Ahead(p, Waiting)) > 0
                    /\ Cardinality(Ahead(p, Password \ Waiting)') >=
                          Cardinality(Ahead(p, Password \ Waiting)) + 1
  <1> DEFINE a == e.password
  <1>1. /\ a \in Waiting /\ e.row = rows[a]
        /\ \A p \in Waiting \ {a} : Precedes(a, p) /\ ~Precedes(p, a)
        /\ ~Precedes(a, a)
        /\ \A p \in Password : Of(p) \in walk.rest \ {e} <=> p \in Waiting \ {a}
    BY FirstWaits
  <1>2. Waiting' = Waiting \ {a} /\ Waiting \subseteq Password
    <2>1. Waiting' = {p \in Password : Of(p) \in walk.rest \ {e}}
      BY Unmoved DEF Waiting
    <2>2. Waiting \subseteq Password
      BY DEF Waiting
    <2> QED BY <1>1, <2>1, <2>2
  <1>3. a \in Current <=> is_expired(e.row, now) = walk.expired
    <2>1. a \in Stored /\ a \in Password
      BY <1>1, Rows
    <2> QED BY <1>1, <2>1 DEF Current, Listed, Stored
  <1>4. Cardinality(Ahead(a, Waiting)) = 0
    <2>1. Ahead(a, Waiting) = {}
      BY <1>1 DEF Ahead
    <2> QED BY <2>1, NoneCounted
  <1>5. \A p \in Password : /\ Ahead(p, Waiting)' = Ahead(p, Waiting \ {a})
                            /\ Ahead(p, Password \ Waiting)' = Ahead(p, Password \ (Waiting \ {a}))
    BY <1>2, StillAhead
  <1>6. ASSUME a \notin Current, NEW p \in Waiting'
        PROVE  /\ Ahead(p, Waiting)' = Ahead(p, Waiting)
               /\ Ahead(p, Password \ Waiting)' = Ahead(p, Password \ Waiting)
    <2>1. Ahead(p, Waiting \ {a}) = Ahead(p, Waiting)
      BY <1>6 DEF Ahead
    <2>2. Ahead(p, Password \ (Waiting \ {a})) = Ahead(p, Password \ Waiting)
      BY <1>6 DEF Ahead
    <2> QED BY <1>2, <1>5, <2>1, <2>2
  <1>7. ASSUME a \in Current, NEW p \in Waiting'
        PROVE  /\ Cardinality(Ahead(p, Waiting)') = Cardinality(Ahead(p, Waiting)) - 1
               /\ Cardinality(Ahead(p, Waiting)) > 0
               /\ Cardinality(Ahead(p, Password \ Waiting)') >=
                     Cardinality(Ahead(p, Password \ Waiting)) + 1
    <2>1. p \in Password /\ p \in Waiting \ {a} /\ a \in Password /\ Precedes(a, p)
      BY <1>1, <1>2, <1>7
    <2>2. a \in Ahead(p, Waiting) /\ Ahead(p, Waiting \ {a}) = Ahead(p, Waiting) \ {a}
      BY <1>1, <1>7, <2>1 DEF Ahead
    <2>3. /\ a \in Password \ Ahead(p, Password \ Waiting)
          /\ Ahead(p, Password \ Waiting) \cup {a} \subseteq Ahead(p, Password \ (Waiting \ {a}))
      BY <1>1, <1>7, <2>1 DEF Ahead
    <2>4. /\ Cardinality(Ahead(p, Waiting) \ {a}) = Cardinality(Ahead(p, Waiting)) - 1
          /\ Cardinality(Ahead(p, Waiting)) > 0
      BY <2>2, AheadCounted, OneFewer
    <2>5. /\ Cardinality(Ahead(p, Password \ Waiting)) \in Nat
          /\ Cardinality(Ahead(p, Password \ (Waiting \ {a}))) \in Nat
          /\ Cardinality(Ahead(p, Password \ Waiting)) + 1 <=
                Cardinality(Ahead(p, Password \ (Waiting \ {a})))
      BY <2>3, AheadCounted, OneMore
    <2>6. /\ Ahead(p, Waiting)' = Ahead(p, Waiting) \ {a}
          /\ Ahead(p, Password \ Waiting)' = Ahead(p, Password \ (Waiting \ {a}))
      BY <1>5, <2>1, <2>2
    <2> QED BY <2>4, <2>5, <2>6
  <1>8. \A p \in Waiting' : Precedes(a, p)
    BY <1>1, <1>2
  <1> QED BY <1>1, <1>2, <1>3, <1>4, <1>6, <1>7, <1>8

\* The part of the list that is passed grows by the first row, if that is in the list.
LEMMA PassedGrows ==
    ASSUME TypeOK, NoMorePassed, walk \in Walks, Making, NEW a \in Waiting,
           \A p \in Waiting \ {a} : Precedes(a, p)
    PROVE  /\ \A p \in Current \ (Waiting \ {a}), q \in Waiting \ {a} : Precedes(p, q)
           /\ Cardinality(Current \ Waiting) \in Nat
           /\ a \in Current =>
                 Cardinality(Current \ (Waiting \ {a})) = Cardinality(Current \ Waiting) + 1
           /\ a \notin Current =>
                 Cardinality(Current \ (Waiting \ {a})) = Cardinality(Current \ Waiting)
  <1>1. Current \subseteq Password
    BY DEF Current, Listed
  <1>2. \A p \in Current \ Waiting, q \in Waiting : Precedes(p, q)
    BY DEF NoMorePassed
  <1>3. \A p \in Current \ (Waiting \ {a}), q \in Waiting \ {a} : Precedes(p, q)
    BY <1>2
  <1>4. Cardinality(Current \ Waiting) \in Nat
    <2>1. Current \ Waiting \subseteq Password
      BY <1>1
    <2> QED BY <2>1, Sizes
  <1>5. ASSUME a \in Current
        PROVE  Cardinality(Current \ (Waiting \ {a})) = Cardinality(Current \ Waiting) + 1
    <2> DEFINE passed == Current \ (Waiting \ {a})
    <2>1. passed \subseteq Password /\ a \in passed /\ passed \ {a} = Current \ Waiting
      BY <1>1, <1>5
    <2>2. Cardinality(passed) \in Nat /\ Cardinality(passed \ {a}) = Cardinality(passed) - 1
      BY <2>1, OneFewer
    <2> QED BY <1>4, <2>1, <2>2
  <1>6. ASSUME a \notin Current
        PROVE  Current \ (Waiting \ {a}) = Current \ Waiting
    BY <1>6
  <1> QED BY <1>3, <1>4, <1>5, <1>6

LEMMA FilterStep ==
    ASSUME IInv, List_filter
    PROVE  IInv'
  <1>1. PICK e \in walk.rest :
          /\ First(e, walk.rest)
          /\ walk' = IF is_expired(e.row, now) # walk.expired
                     THEN [walk EXCEPT !.rest = @ \ {e}]
                     ELSE IF walk.skip > 0
                     THEN [walk EXCEPT !.rest = @ \ {e}, !.skip = @ - 1]
                     ELSE [walk EXCEPT !.at = "map", !.filtered = now]
    BY DEF List_filter
  <1>2. /\ TypeOK /\ Walking /\ Making /\ walk \in Walks /\ walk.at = "filter" /\ walk.filtered = None
        /\ shown' = None /\ now' = now /\ rows' = rows /\ surprises' = surprises
        /\ now \in 0 .. MaxNow /\ now # None
    <2>1. /\ TypeOK /\ walk.at = "filter"
          /\ shown' = None /\ now' = now /\ rows' = rows /\ surprises' = surprises
      BY DEF IInv, List_filter
    <2>2. Walking /\ Making
      BY <2>1 DEF Walking, Making
    <2>3. walk \in Walks /\ walk.filtered = None
      BY <2>1 DEF TypeOK, NoWalk
    <2>4. now \in 0 .. MaxNow /\ now # None
      BY <2>1, Constants, NoneIsNoValue DEF TypeOK
    <2> QED BY <2>1, <2>2, <2>3, <2>4
  <1>3. /\ RestIsCurrent /\ SkippedFirst /\ StayedAreToCome /\ PassedAreAhead
        /\ ~walk.came => SeenAreSkipped /\ NoMorePassed /\ ~walk.again
        /\ walk.skip \in Nat /\ walk.take \in Nat /\ walk.page \in Nat
    BY <1>2 DEF IInv, Pages, Walks
  <1>4. EntriesAreRight'
    BY <1>2 DEF EntriesAreRight
  <1>5. /\ Current' = Current /\ Stored' = Stored /\ Current \subseteq Stored
        /\ Stored \subseteq Password /\ \A p \in Password : Of(p)' = Of(p)
        /\ \A p, q \in Password : Precedes(p, q)' <=> Precedes(p, q)
        /\ walk'.expired = walk.expired
    <2>1. walk'.expired = walk.expired
      BY <1>1, <1>2 DEF Walks
    <2> QED BY <1>2, <2>1, Unmoved, Rows
  \* The row is left out or skipped.
  <1>6. ASSUME NEW skip \in Nat, walk' = [walk EXCEPT !.rest = @ \ {e}, !.skip = skip],
               \/ is_expired(e.row, now) # walk.expired /\ skip = walk.skip
               \/ is_expired(e.row, now) = walk.expired /\ skip = walk.skip - 1
        PROVE  IInv'
    <2>1. /\ walk' \in Walks
          /\ walk'.at = "filter" /\ walk'.rest = walk.rest \ {e} /\ walk'.skip = skip
          /\ walk'.expired = walk.expired /\ walk'.take = walk.take /\ walk'.page = walk.page
          /\ walk'.filtered = None /\ walk'.again = walk.again
          /\ walk'.came = walk.came /\ walk'.left = walk.left
          /\ walk'.stayed = walk.stayed /\ walk'.seen = walk.seen
      BY <1>2, <1>6 DEF Walks
    <2>2. TypeOK' /\ Making' /\ Finished'
      BY <1>2, <2>1 DEF TypeOK, Making, Finished
    <2>3. RestIsCurrent' /\ SkippedFirst' /\ FilteredFits'
      <3>1. RestIsCurrent'
        BY <1>2, <1>3, <2>1 DEF RestIsCurrent
      <3>2. skip > 0 => walk.skip > 0
        BY <1>3, <1>6
      <3>3. SkippedFirst' /\ FilteredFits'
        BY <1>3, <2>1, <3>2 DEF SkippedFirst, FilteredFits
      <3> QED BY <3>1, <3>3
    <2>4. CASE walk.came /\ walk.left
      <3>1. walk.stayed = {}
        BY <1>3, <2>4 DEF StayedAreToCome
      <3>2. StayedAreToCome' /\ PassedAreAhead'
        BY <2>1, <2>4, <3>1 DEF StayedAreToCome, PassedAreAhead
      <3>3. Pages'
        BY <2>1, <2>3, <2>4, <3>2 DEF Pages
      <3> QED BY <1>4, <2>2, <3>3 DEF IInv
    <2>5. CASE ~(walk.came /\ walk.left)
      <3> DEFINE a == e.password
      <3>1. /\ Waiting' = Waiting \ {a} /\ a \in Waiting /\ Waiting \subseteq Password
            /\ (a \in Current <=> is_expired(e.row, now) = walk.expired)
            /\ Cardinality(Ahead(a, Waiting)) = 0
            /\ \A p \in Waiting' : Precedes(a, p)
            /\ a \notin Current =>
                  \A p \in Waiting' :
                     /\ Ahead(p, Waiting)' = Ahead(p, Waiting)
                     /\ Ahead(p, Password \ Waiting)' = Ahead(p, Password \ Waiting)
            /\ a \in Current =>
                  \A p \in Waiting' :
                     /\ Cardinality(Ahead(p, Waiting)') = Cardinality(Ahead(p, Waiting)) - 1
                     /\ Cardinality(Ahead(p, Waiting)) > 0
                     /\ Cardinality(Ahead(p, Password \ Waiting)') >=
                           Cardinality(Ahead(p, Password \ Waiting)) + 1
        BY <1>1, <1>2, <1>3, <2>1, <2>5, FirstGone
      <3>2. \/ a \notin Current /\ skip = walk.skip
            \/ a \in Current /\ skip = walk.skip - 1
        BY <1>6, <3>1
      <3>3. \A p, some : Cardinality(Ahead(p, some)) \in Nat
        BY AheadCounted
      <3>4. \A p \in Password : /\ Cardinality(Ahead(p, Waiting)') \in Nat
                                /\ Cardinality(Ahead(p, Password \ Waiting)') \in Nat
        BY <1>2, <2>1, <3>3, StillAhead
      <3> HIDE DEF a
      <3>5. StayedAreToCome'
        <4>1. ASSUME NEW p \in walk.stayed \ walk.seen
              PROVE  p \in Waiting' /\ skip <= Cardinality(Ahead(p, Waiting)')
          <5>1. p \in Current /\ p \in Waiting /\ walk.skip <= Cardinality(Ahead(p, Waiting))
            BY <1>2, <1>3, <4>1 DEF StayedAreToCome
          <5>2. p # a
            BY <1>3, <1>6, <3>1, <3>2, <5>1
          <5>3. p \in Waiting'
            BY <3>1, <5>1, <5>2
          <5>4. CASE a \notin Current
            BY <3>1, <3>2, <5>1, <5>3, <5>4
          <5>5. CASE a \in Current
            <6>1. Cardinality(Ahead(p, Waiting)') = Cardinality(Ahead(p, Waiting)) - 1
              BY <3>1, <5>3, <5>5
            <6>2. skip = walk.skip - 1 /\ Cardinality(Ahead(p, Waiting)) \in Nat
              BY <3>2, <3>3, <5>5
            <6> QED BY <1>3, <5>1, <5>3, <6>1, <6>2
          <5> QED BY <5>4, <5>5
        <4>2. walk.stayed \subseteq Current /\ (walk.left => walk.stayed = {})
          BY <1>3 DEF StayedAreToCome
        <4> QED BY <1>5, <2>1, <4>1, <4>2 DEF StayedAreToCome
      <3>6. PassedAreAhead'
        <4>1. ASSUME ~walk.left, NEW p \in Waiting'
              PROVE  walk.take + walk.page <= skip + Cardinality(Ahead(p, Password \ Waiting)')
          <5>1. p \in Waiting /\ p \in Password
            BY <3>1, <4>1
          <5>2. walk.take + walk.page <= walk.skip + Cardinality(Ahead(p, Password \ Waiting))
            BY <1>2, <1>3, <4>1, <5>1 DEF PassedAreAhead
          <5>3. /\ Cardinality(Ahead(p, Password \ Waiting)) \in Nat
                /\ Cardinality(Ahead(p, Password \ Waiting)') \in Nat
            BY <3>3, <3>4, <5>1
          <5>4. CASE a \notin Current
            BY <3>1, <3>2, <4>1, <5>2, <5>4
          <5>5. CASE a \in Current
            <6>1. Cardinality(Ahead(p, Password \ Waiting)') >= Cardinality(Ahead(p, Password \ Waiting)) + 1
              BY <3>1, <4>1, <5>5
            <6>2. skip = walk.skip - 1
              BY <3>2, <5>5
            <6> QED BY <1>3, <5>2, <5>3, <6>1, <6>2
          <5> QED BY <5>4, <5>5
        <4> QED BY <2>1, <4>1 DEF PassedAreAhead
      <3>7. ASSUME ~walk.came
            PROVE  SeenAreSkipped' /\ NoMorePassed'
        <4>1. SeenAreSkipped /\ NoMorePassed
          BY <1>3, <3>7
        <4>2. ASSUME NEW p \in walk.seen \cap Current \cap Waiting'
              PROVE  Cardinality(Ahead(p, Waiting)') < skip
          <5>1. p \in Waiting /\ Cardinality(Ahead(p, Waiting)) < walk.skip
            BY <1>2, <3>1, <4>1, <4>2 DEF SeenAreSkipped
          <5>2. CASE a \notin Current
            BY <3>1, <3>2, <4>2, <5>1, <5>2
          <5>3. CASE a \in Current
            <6>1. Cardinality(Ahead(p, Waiting)') = Cardinality(Ahead(p, Waiting)) - 1
                  /\ Cardinality(Ahead(p, Waiting)) \in Nat
              BY <3>1, <3>3, <4>2, <5>3
            <6>2. skip = walk.skip - 1
              BY <3>2, <5>3
            <6> QED BY <1>3, <5>1, <6>1, <6>2
          <5> QED BY <5>2, <5>3
        <4>3. SeenAreSkipped'
          BY <1>5, <2>1, <4>2 DEF SeenAreSkipped
        <4>4. /\ \A p \in Current \ (Waiting \ {a}), q \in Waiting \ {a} : Precedes(p, q)
              /\ Cardinality(Current \ Waiting) \in Nat
              /\ a \in Current =>
                    Cardinality(Current \ (Waiting \ {a})) = Cardinality(Current \ Waiting) + 1
              /\ a \notin Current =>
                    Cardinality(Current \ (Waiting \ {a})) = Cardinality(Current \ Waiting)
          BY <1>2, <3>1, <4>1, PassedGrows
        <4>5. Cardinality(Current \ Waiting) + walk.skip <= walk.take + walk.page
          BY <1>2, <4>1 DEF NoMorePassed
        <4>6. Cardinality(Current \ (Waiting \ {a})) + skip <= walk.take + walk.page
          <5>1. CASE a \notin Current
            BY <3>2, <4>4, <4>5, <5>1
          <5>2. CASE a \in Current
            <6>1. Cardinality(Current \ (Waiting \ {a})) = Cardinality(Current \ Waiting) + 1
                  /\ skip = walk.skip - 1
              BY <3>2, <4>4, <5>2
            <6> QED BY <1>3, <4>4, <4>5, <6>1
          <5> QED BY <5>1, <5>2
        <4>7. \A p \in Current' \ Waiting', q \in Waiting' : Precedes(p, q)'
          BY <1>5, <3>1, <4>4
        <4>8. NoMorePassed'
          BY <1>5, <2>1, <3>1, <4>6, <4>7 DEF NoMorePassed
        <4> QED BY <4>3, <4>8
      <3>8. Pages'
        BY <1>3, <2>1, <2>3, <3>5, <3>6, <3>7 DEF Pages
      <3> QED BY <1>4, <2>2, <3>8 DEF IInv
    <2> QED BY <2>4, <2>5
  \* The row is for the page.
  <1>7. ASSUME is_expired(e.row, now) = walk.expired, ~(walk.skip > 0)
        PROVE  IInv'
    <2>1. walk' = [walk EXCEPT !.at = "map", !.filtered = now]
      BY <1>1, <1>7
    <2>2. /\ walk' \in Walks
          /\ walk'.at = "map" /\ walk'.rest = walk.rest /\ walk'.skip = walk.skip
          /\ walk'.expired = walk.expired /\ walk'.take = walk.take /\ walk'.page = walk.page
          /\ walk'.filtered = now /\ walk'.again = walk.again
          /\ walk'.came = walk.came /\ walk'.left = walk.left
          /\ walk'.stayed = walk.stayed /\ walk'.seen = walk.seen
      BY <1>2, <2>1 DEF Walks
    <2>3. /\ TypeOK' /\ Making' /\ Finished'
          /\ walk.skip = 0
      BY <1>2, <1>3, <1>7, <2>2 DEF TypeOK, Making, Finished
    <2>4. RestIsCurrent' /\ SkippedFirst'
      BY <1>2, <1>3, <2>2, <2>3 DEF RestIsCurrent, SkippedFirst
    <2>5. Waiting' = Waiting
      BY <1>5, <2>2 DEF Waiting
    <2>6. FilteredFits'
      <3>1. ASSUME ~walk.left
            PROVE  e.password \in Current
        <4>1. /\ e.password \in Waiting /\ e.row = rows[e.password]
          BY <1>1, <1>2, <1>3, <3>1, FirstWaits
        <4>2. e.password \in Stored /\ e.password \in Password
          BY <1>2, <4>1, Rows
        <4> QED BY <1>7, <4>1, <4>2 DEF Current, Listed, Stored
      <3>2. ASSUME ~walk.came
            PROVE  e.password \notin walk.seen
        <4>1. /\ e.password \in Waiting /\ e.row = rows[e.password]
          BY <1>1, <1>2, <1>3, <3>2, FirstWaits
        <4>2. e.password \in Stored /\ e.password \in Password
          BY <1>2, <4>1, Rows
        <4>3. e.password \in Current
          BY <1>7, <4>1, <4>2 DEF Current, Listed, Stored
        <4>4. e.password \in walk.seen => Cardinality(Ahead(e.password, Waiting)) < 0
          BY <1>2, <1>3, <2>3, <3>2, <4>1, <4>3 DEF SeenAreSkipped
        <4>5. Cardinality(Ahead(e.password, Waiting)) \in Nat
          BY AheadCounted
        <4> QED BY <4>4, <4>5
      <3>3. e \in walk'.rest /\ First(e, walk'.rest) /\ is_expired(e.row, walk'.filtered) = walk'.expired
            /\ (~walk'.left => e.password \in Current') /\ (~walk'.came => e.password \notin walk'.seen)
        BY <1>1, <1>5, <1>7, <2>2, <3>1, <3>2
      <3> QED BY <3>3 DEF FilteredFits
    <2>7. \A p \in Password : /\ Ahead(p, Waiting)' = Ahead(p, Waiting)
                              /\ Ahead(p, Password \ Waiting)' = Ahead(p, Password \ Waiting)
      BY <1>2, <2>2, <2>5, StillAhead
    <2>8. Waiting \subseteq Password
      BY DEF Waiting
    <2>9. StayedAreToCome'
      BY <1>2, <1>3, <1>5, <2>2, <2>5, <2>7, <2>8 DEF StayedAreToCome
    <2>10. PassedAreAhead'
      BY <1>2, <1>3, <2>2, <2>5, <2>7, <2>8 DEF PassedAreAhead
    <2>11. ASSUME ~walk.came
           PROVE  SeenAreSkipped' /\ NoMorePassed'
      <3>1. SeenAreSkipped /\ NoMorePassed
        BY <1>3, <2>11
      <3>2. SeenAreSkipped'
        BY <1>2, <1>5, <2>2, <2>5, <2>7, <2>8, <3>1 DEF SeenAreSkipped
      <3>3. NoMorePassed'
        BY <1>2, <1>5, <2>2, <2>5, <2>8, <3>1 DEF NoMorePassed
      <3> QED BY <3>2, <3>3
    <2>12. Pages'
      BY <1>3, <2>2, <2>4, <2>6, <2>9, <2>10, <2>11 DEF Pages
    <2> QED BY <1>4, <2>3, <2>12 DEF IInv
  <1>8. CASE is_expired(e.row, now) # walk.expired
    <2>1. walk' = [walk EXCEPT !.rest = @ \ {e}, !.skip = walk.skip]
      BY <1>1, <1>2, <1>8 DEF Walks
    <2> QED BY <1>3, <1>6, <1>8, <2>1
  <1>9. CASE is_expired(e.row, now) = walk.expired /\ walk.skip > 0
    <2>1. walk' = [walk EXCEPT !.rest = @ \ {e}, !.skip = walk.skip - 1]
      BY <1>1, <1>9
    <2>2. walk.skip - 1 \in Nat
      BY <1>3, <1>9
    <2> QED BY <1>6, <1>9, <2>1, <2>2
  <1> QED BY <1>7, <1>8, <1>9

LEMMA MapStep ==
    ASSUME IInv, List_map
    PROVE  IInv'
  <1>1. PICK e \in walk.rest :
          /\ First(e, walk.rest)
          /\ shown' = [row |-> e.row, filtered |-> walk.filtered, mapped |-> now,
                       expires |-> IF walk.expired THEN 0 ELSE days_remaining(e.row, now)]
          /\ walk' = [walk EXCEPT !.at = "filter", !.filtered = None, !.rest = @ \ {e},
                                  !.page = @ + 1,
                                  !.seen = IF walk.came /\ walk.left THEN {} ELSE @ \cup {e.password},
                                  !.again = ~walk.came /\ (@ \/ e.password \in walk.seen)]
    BY DEF List_map
  <1>2. /\ TypeOK /\ Walking /\ Making /\ walk \in Walks /\ walk.at = "map"
        /\ walk.filtered \in 0 .. MaxNow
        /\ now' = now /\ rows' = rows /\ surprises' = surprises /\ now \in 0 .. MaxNow
        /\ e.row \in Row /\ e.password \in Password
    <2>1. /\ TypeOK /\ walk.at = "map" /\ now' = now /\ rows' = rows /\ surprises' = surprises
          /\ now \in 0 .. MaxNow
      BY DEF IInv, List_map, TypeOK
    <2>2. Walking /\ Making
      BY <2>1 DEF Walking, Making
    <2>3. walk \in Walks /\ walk.filtered # None
      BY <2>1 DEF TypeOK, NoWalk
    <2>4. walk.filtered \in 0 .. MaxNow
      BY <2>3 DEF Walks
    <2>5. e.row \in Row /\ e.password \in Password
      BY <1>1, <2>3 DEF Walks, Entry
    <2> QED BY <2>1, <2>2, <2>3, <2>4, <2>5
  <1>3. /\ RestIsCurrent /\ SkippedFirst /\ FilteredFits /\ StayedAreToCome /\ PassedAreAhead
        /\ ~walk.came => SeenAreSkipped /\ NoMorePassed /\ ~walk.again
        /\ walk.take \in Nat /\ walk.page \in Nat
    BY <1>2 DEF IInv, Pages, Walks
  <1>4. walk.skip = 0
    BY <1>2, <1>3 DEF SkippedFirst, Walks
  <1>5. /\ is_expired(e.row, walk.filtered) = walk.expired
        /\ ~walk.left => e.password \in Current
        /\ ~walk.came => e.password \notin walk.seen
    <2>1. PICK f \in walk.rest : /\ First(f, walk.rest)
                                 /\ is_expired(f.row, walk.filtered) = walk.expired
                                 /\ ~walk.left => f.password \in Current
                                 /\ ~walk.came => f.password \notin walk.seen
      BY <1>2, <1>3 DEF FilteredFits
    <2>2. walk.rest \in SUBSET Entry
      BY <1>2 DEF Walks
    <2>3. e = f
      BY <1>1, <2>1, <2>2, OneFirst
    <2> QED BY <2>1, <2>3
  <1>6. /\ walk' \in Walks
        /\ walk'.at = "filter" /\ walk'.rest = walk.rest \ {e} /\ walk'.skip = 0
        /\ walk'.expired = walk.expired /\ walk'.take = walk.take /\ walk'.page = walk.page + 1
        /\ walk'.filtered = None
        /\ walk'.came = walk.came /\ walk'.left = walk.left /\ walk'.stayed = walk.stayed
        /\ walk'.seen = IF walk.came /\ walk.left THEN {} ELSE walk.seen \cup {e.password}
        /\ walk'.again = (~walk.came /\ (walk.again \/ e.password \in walk.seen))
    <2> DEFINE seen == IF walk.came /\ walk.left THEN {} ELSE walk.seen \cup {e.password}
               again == ~walk.came /\ (walk.again \/ e.password \in walk.seen)
             page == walk.page + 1
             rest == walk.rest \ {e}
    <2>1. seen \in SUBSET Password /\ again \in BOOLEAN /\ page \in Nat /\ rest \in SUBSET Entry
      BY <1>2, <1>3 DEF Walks
    <2>2. walk' = [walk EXCEPT !.at = "filter", !.filtered = None, !.rest = rest,
                               !.page = page, !.seen = seen, !.again = again]
      BY <1>1, <1>2 DEF Walks
    <2> HIDE DEF seen, again, page, rest
    <2>3. /\ walk' \in Walks
          /\ walk'.at = "filter" /\ walk'.rest = rest /\ walk'.skip = walk.skip
          /\ walk'.expired = walk.expired /\ walk'.take = walk.take /\ walk'.page = page
          /\ walk'.filtered = None
          /\ walk'.came = walk.came /\ walk'.left = walk.left /\ walk'.stayed = walk.stayed
          /\ walk'.seen = seen /\ walk'.again = again
      BY <1>2, <2>1, <2>2 DEF Walks
    <2> QED BY <1>4, <2>3 DEF seen, again, page, rest
  <1>7. /\ days_remaining(e.row, now) \in 0 .. MaxDays
        /\ days_remaining(e.row, now) = DaysLeft(e.row, now)
        /\ walk.expired <=> walk.filtered >= Deadline(e.row)
    <2>1. days_remaining(e.row, now) \in 0 .. e.row.valid_since_days /\ e.row.valid_since_days \in 1 .. MaxDays
      BY <1>2, Age DEF Row
    <2>2. days_remaining(e.row, now) \in 0 .. MaxDays
      BY <2>1, Constants
    <2>3. days_remaining(e.row, now) = DaysLeft(e.row, now)
      BY <1>2, DaysAreThoseLeft
    <2>4. is_expired(e.row, walk.filtered) <=> walk.filtered >= Deadline(e.row)
      BY <1>2, Age
    <2>5. walk.expired \in BOOLEAN
      BY <1>2 DEF Walks
    <2> QED BY <1>5, <2>2, <2>3, <2>4, <2>5
  <1>8. TypeOK' /\ Making' /\ Finished'
    <2>1. shown' \in [row : Row, filtered : 0 .. MaxNow, mapped : 0 .. MaxNow, expires : 0 .. MaxDays]
      <3>1. 0 \in 0 .. MaxDays
        BY Constants
      <3> QED BY <1>1, <1>2, <1>7, <3>1
    <2> QED BY <1>2, <1>6, <2>1 DEF TypeOK, Making, Finished
  <1>9. EntriesAreRight'
    <2>1. /\ shown'.row = e.row /\ shown'.filtered = walk.filtered /\ shown'.mapped = now
          /\ ~walk.expired => shown'.expires = days_remaining(e.row, now)
      BY <1>1
    <2> QED BY <1>6, <1>7, <2>1 DEF EntriesAreRight
  <1>10. /\ Current' = Current /\ Stored' = Stored /\ Current \subseteq Stored
         /\ Stored \subseteq Password /\ \A p \in Password : Of(p)' = Of(p)
         /\ \A p, q \in Password : Precedes(p, q)' <=> Precedes(p, q)
    BY <1>2, <1>6, Unmoved, Rows
  <1>11. RestIsCurrent' /\ SkippedFirst' /\ FilteredFits'
    BY <1>2, <1>3, <1>6 DEF RestIsCurrent, SkippedFirst, FilteredFits
  <1>12. CASE walk.came /\ walk.left
    <2>1. walk.stayed = {}
      BY <1>3, <1>12 DEF StayedAreToCome
    <2>2. StayedAreToCome' /\ PassedAreAhead'
      BY <1>6, <1>12, <2>1 DEF StayedAreToCome, PassedAreAhead
    <2>3. Pages'
      BY <1>6, <1>11, <1>12, <2>2 DEF Pages
    <2> QED BY <1>8, <1>9, <2>3 DEF IInv
  <1>13. CASE ~(walk.came /\ walk.left)
    <2> DEFINE a == e.password
    <2>1. /\ Waiting' = Waiting \ {a} /\ a \in Waiting /\ Waiting \subseteq Password
          /\ \A p \in Waiting' : Precedes(a, p)
          /\ a \in Current =>
                \A p \in Waiting' :
                   Cardinality(Ahead(p, Password \ Waiting)') >=
                      Cardinality(Ahead(p, Password \ Waiting)) + 1
      BY <1>1, <1>2, <1>3, <1>6, <1>13, FirstGone
    <2>2. walk'.seen = walk.seen \cup {a}
      BY <1>6, <1>13
    <2>3. \A p, some : Cardinality(Ahead(p, some)) \in Nat
      BY AheadCounted
    <2>4. \A p \in Password : /\ Cardinality(Ahead(p, Waiting)') \in Nat
                              /\ Cardinality(Ahead(p, Password \ Waiting)') \in Nat
      BY <1>2, <1>6, <2>3, StillAhead
    <2> HIDE DEF a
    <2>5. StayedAreToCome'
      <3>1. ASSUME NEW p \in walk.stayed \ walk'.seen
            PROVE  p \in Waiting' /\ 0 <= Cardinality(Ahead(p, Waiting)')
        <4>1. p \in Waiting /\ p # a
          BY <1>2, <1>3, <2>2, <3>1 DEF StayedAreToCome
        <4>2. p \in Waiting' /\ p \in Password
          BY <2>1, <4>1
        <4>3. Cardinality(Ahead(p, Waiting)') \in Nat
          BY <2>4, <4>2
        <4> QED BY <4>2, <4>3
      <3>2. walk.stayed \subseteq Current /\ (walk.left => walk.stayed = {})
        BY <1>3 DEF StayedAreToCome
      <3> QED BY <1>6, <1>10, <3>1, <3>2 DEF StayedAreToCome
    <2>6. PassedAreAhead'
      <3>1. ASSUME ~walk.left, NEW p \in Waiting'
            PROVE  walk.take + (walk.page + 1) <= 0 + Cardinality(Ahead(p, Password \ Waiting)')
        <4>1. p \in Waiting /\ p \in Password /\ a \in Current
          BY <1>5, <2>1, <3>1 DEF a
        <4>2. walk.take + walk.page <= walk.skip + Cardinality(Ahead(p, Password \ Waiting))
          BY <1>2, <1>3, <3>1, <4>1 DEF PassedAreAhead
        <4>3. /\ Cardinality(Ahead(p, Password \ Waiting)) \in Nat
              /\ Cardinality(Ahead(p, Password \ Waiting)') \in Nat
              /\ Cardinality(Ahead(p, Password \ Waiting)') >= Cardinality(Ahead(p, Password \ Waiting)) + 1
          BY <2>1, <2>3, <2>4, <3>1, <4>1
        <4> QED BY <1>3, <1>4, <4>2, <4>3
      <3> QED BY <1>6, <3>1 DEF PassedAreAhead
    <2>7. ASSUME ~walk.came
          PROVE  SeenAreSkipped' /\ NoMorePassed' /\ ~walk'.again
      <3>1. SeenAreSkipped /\ NoMorePassed /\ ~walk.again
        BY <1>3, <2>7
      <3>2. SeenAreSkipped'
        <4>1. ASSUME NEW p \in walk'.seen \cap Current \cap Waiting'
              PROVE  FALSE
          <5>1. p \in walk.seen \cap Current \cap Waiting
            BY <2>1, <2>2, <4>1
          <5>2. Cardinality(Ahead(p, Waiting)) < 0
            BY <1>2, <1>4, <3>1, <5>1 DEF SeenAreSkipped
          <5> QED BY <2>3, <5>2
        <4> QED BY <1>6, <1>10, <4>1 DEF SeenAreSkipped
      <3>3. /\ \A p \in Current \ (Waiting \ {a}), q \in Waiting \ {a} : Precedes(p, q)
            /\ Cardinality(Current \ Waiting) \in Nat
            /\ a \in Current =>
                  Cardinality(Current \ (Waiting \ {a})) = Cardinality(Current \ Waiting) + 1
            /\ a \notin Current =>
                  Cardinality(Current \ (Waiting \ {a})) = Cardinality(Current \ Waiting)
        BY <1>2, <2>1, <3>1, PassedGrows
      <3>4. Cardinality(Current \ Waiting) + walk.skip <= walk.take + walk.page
        BY <1>2, <3>1 DEF NoMorePassed
      <3>5. Cardinality(Current \ (Waiting \ {a})) + 0 <= walk.take + (walk.page + 1)
        <4>1. CASE a \notin Current
          BY <1>3, <1>4, <3>3, <3>4, <4>1
        <4>2. CASE a \in Current
          BY <1>3, <1>4, <3>3, <3>4, <4>2
        <4> QED BY <4>1, <4>2
      <3>6. \A p \in Current' \ Waiting', q \in Waiting' : Precedes(p, q)'
        BY <1>10, <2>1, <3>3
      <3>7. NoMorePassed'
        BY <1>6, <1>10, <2>1, <3>5, <3>6 DEF NoMorePassed
      <3>8. ~walk'.again
        BY <1>5, <1>6, <2>7, <3>1
      <3> QED BY <3>2, <3>7, <3>8
    <2>8. Pages'
      BY <1>6, <1>11, <2>5, <2>6, <2>7 DEF Pages
    <2> QED BY <1>8, <1>9, <2>8 DEF IInv
  <1> QED BY <1>12, <1>13

LEMMA AnswerStep ==
    ASSUME IInv, List_answer
    PROVE  IInv'
  <1>1. /\ walk.rest = {} \/ walk.page = PageSize
        /\ walk' = [walk EXCEPT !.at = IF walk.page = 0 THEN "done" ELSE "ask",
                                !.take = @ + walk.page, !.rest = {}, !.skip = 0, !.page = 0]
        /\ shown' = None /\ now' = now /\ rows' = rows /\ surprises' = surprises
    BY DEF List_answer
  <1>2. /\ TypeOK /\ Walking /\ Making /\ walk \in Walks /\ walk.at = "filter" /\ walk.filtered = None
    <2>1. TypeOK /\ walk.at = "filter"
      BY DEF IInv, List_answer
    <2>2. walk \in Walks /\ walk.filtered = None
      BY <2>1 DEF TypeOK, NoWalk
    <2> QED BY <2>1, <2>2 DEF Walking, Making
  <1>3. /\ RestIsCurrent /\ SkippedFirst /\ StayedAreToCome /\ PassedAreAhead
        /\ ~walk.came => SeenAreSkipped /\ NoMorePassed /\ ~walk.again
        /\ walk.take \in Nat /\ walk.page \in Nat /\ walk.skip \in Nat
    BY <1>2 DEF IInv, Pages, Walks
  <1>4. /\ walk' \in Walks
        /\ walk'.at = IF walk.page = 0 THEN "done" ELSE "ask"
        /\ walk'.rest = {} /\ walk'.skip = 0 /\ walk'.page = 0
        /\ walk'.expired = walk.expired /\ walk'.take = walk.take + walk.page
        /\ walk'.filtered = None /\ walk'.again = walk.again
        /\ walk'.came = walk.came /\ walk'.left = walk.left
        /\ walk'.stayed = walk.stayed /\ walk'.seen = walk.seen
    <2> DEFINE at == IF walk.page = 0 THEN "done" ELSE "ask"
               take == walk.take + walk.page
    <2>1. at \in {"ask", "filter", "map", "done"} /\ take \in Nat
      BY <1>3
    <2>2. walk' = [walk EXCEPT !.at = at, !.take = take, !.rest = {}, !.skip = 0, !.page = 0]
      BY <1>1, <1>2 DEF Walks
    <2> HIDE DEF at, take
    <2>3. /\ walk' \in Walks
          /\ walk'.at = at /\ walk'.rest = {} /\ walk'.skip = 0 /\ walk'.page = 0
          /\ walk'.expired = walk.expired /\ walk'.take = take
          /\ walk'.filtered = walk.filtered /\ walk'.again = walk.again
          /\ walk'.came = walk.came /\ walk'.left = walk.left
          /\ walk'.stayed = walk.stayed /\ walk'.seen = walk.seen
      BY <1>2, <2>1, <2>2 DEF Walks
    <2> QED BY <1>2, <2>3 DEF at, take
  <1>5. TypeOK' /\ EntriesAreRight' /\ ~Making'
    BY <1>1, <1>2, <1>4 DEF TypeOK, EntriesAreRight, Making
  <1>6. CASE walk.page = 0
    <2>1. walk'.at = "done"
      BY <1>4, <1>6
    <2>2. walk.rest = {}
      BY <1>1, <1>2, <1>6, PageSizeIs
    <2>3. ~walk.left => walk.stayed \subseteq walk.seen
      BY <1>2, <1>3, <2>2 DEF StayedAreToCome, Waiting
    <2>4. Finished'
      BY <1>3, <1>4, <2>3 DEF Finished, PagesMissNothing, PagesRepeatNothing
    <2>5. Pages'
      BY <2>1 DEF Pages, Walking
    <2> QED BY <1>5, <2>4, <2>5 DEF IInv
  <1>7. CASE walk.page # 0
    <2>1. walk'.at = "ask" /\ walk.skip = 0
      BY <1>3, <1>4, <1>7 DEF SkippedFirst
    <2>2. /\ Current' = Current /\ Current \subseteq Stored /\ Waiting \subseteq Stored
          /\ Stored \subseteq Password
          /\ \A p \in Password : Ahead(p, Password)' = Ahead(p, Password)
      BY <1>1, <1>2, <1>4, Unmoved, Rows, StillAhead
    <2>3. \A p, some : Ahead(p, some) \subseteq Password /\ Cardinality(Ahead(p, some)) \in Nat
      BY AheadCounted
    <2>4. /\ RestIsCurrent' /\ SkippedFirst' /\ FilteredFits' /\ PassedAreAhead' /\ NoMorePassed'
          /\ Finished'
      BY <1>4, <1>5, <2>1 DEF RestIsCurrent, SkippedFirst, FilteredFits, PassedAreAhead, NoMorePassed,
                              Finished, Making
    <2>5. StayedAreToCome'
      <3>1. walk.stayed \subseteq Current /\ (walk.left => walk.stayed = {})
        BY <1>3 DEF StayedAreToCome
      <3>2. ASSUME NEW p \in walk.stayed \ walk.seen
            PROVE  walk.take + walk.page <= Cardinality(Ahead(p, Password)')
        <4>1. p \in Waiting /\ ~walk.left /\ p \in Password
          BY <1>2, <1>3, <2>2, <3>1, <3>2 DEF StayedAreToCome
        <4>2. walk.take + walk.page <= walk.skip + Cardinality(Ahead(p, Password \ Waiting))
          BY <1>2, <1>3, <4>1 DEF PassedAreAhead
        <4>3. Ahead(p, Password \ Waiting) \subseteq Ahead(p, Password)
          BY DEF Ahead
        <4>4. Cardinality(Ahead(p, Password \ Waiting)) <= Cardinality(Ahead(p, Password))
          BY <2>3, <4>3, Sizes
        <4> QED BY <1>3, <2>1, <2>2, <2>3, <4>1, <4>2, <4>4
      <3> QED BY <1>4, <1>5, <2>2, <3>1, <3>2 DEF StayedAreToCome
    <2>6. ASSUME ~walk.came
          PROVE  SeenAreSkipped'
      <3>1. SeenAreSkipped /\ NoMorePassed
        BY <1>3, <2>6
      <3>2. ASSUME NEW p \in walk.seen \cap Current
            PROVE  Cardinality(Ahead(p, Password)') < walk.take + walk.page
        <4> DEFINE passed == Current \ Waiting
        <4>1. p \notin Waiting
          <5>1. p \in Waiting => Cardinality(Ahead(p, Waiting)) < 0
            BY <1>2, <2>1, <3>1, <3>2 DEF SeenAreSkipped
          <5> QED BY <2>3, <5>1
        <4>2. p \in passed /\ passed \subseteq Password /\ p \in Stored
          BY <2>2, <3>2, <4>1
        <4>3. \A q \in Waiting : ~Precedes(q, p)
          <5>1. \A q \in Waiting : Precedes(p, q)
            BY <1>2, <3>1, <4>2 DEF NoMorePassed
          <5> QED BY <1>2, <2>2, <4>2, <5>1, RowsOrdered
        <4>4. ~Precedes(p, p)
          BY <1>2, <4>2, RowsOrdered
        <4>5. Ahead(p, Password) \subseteq passed \ {p}
          BY <4>3, <4>4 DEF Ahead
        <4>6. Cardinality(Ahead(p, Password)) <= Cardinality(passed \ {p})
              /\ Cardinality(passed \ {p}) \in Nat
          <5>1. passed \ {p} \subseteq Password
            BY <4>2
          <5> QED BY <4>5, <5>1, Sizes
        <4>7. Cardinality(passed) \in Nat /\ Cardinality(passed \ {p}) = Cardinality(passed) - 1
          BY <4>2, OneFewer
        <4>8. Cardinality(passed) + walk.skip <= walk.take + walk.page
          BY <1>2, <3>1 DEF NoMorePassed
        <4>9. Ahead(p, Password)' = Ahead(p, Password)
          BY <2>2, <4>2
        <4> HIDE DEF passed
        <4> QED BY <1>3, <2>1, <2>3, <4>6, <4>7, <4>8, <4>9
      <3> QED BY <1>4, <1>5, <2>2, <3>2 DEF SeenAreSkipped
    <2>7. Pages'
      BY <1>3, <1>4, <2>4, <2>5, <2>6 DEF Pages
    <2> QED BY <1>5, <2>4, <2>7 DEF IInv
  <1> QED BY <1>6, <1>7

-----------------------------------------------------------------------------
(* The theorems *)

LEMMA InitHolds == Init => IInv
  <1> SUFFICES ASSUME Init
               PROVE  IInv
    OBVIOUS
  <1>1. now \in 0 .. MaxNow /\ walk = NoWalk /\ shown = None /\ surprises = 0
        /\ rows \in [Password -> Row \cup {None}]
    BY DEF Init
  <1>2. surprises \in 0 .. MaxSurprises
    BY <1>1, Constants
  <1>3. TypeOK /\ EntriesAreRight
    BY <1>1, <1>2 DEF TypeOK, EntriesAreRight
  <1>4. Pages /\ Finished
    BY <1>1 DEF Pages, Finished, Walking, NoWalk
  <1> QED BY <1>3, <1>4 DEF IInv

LEMMA NextHolds == IInv /\ [Next]_vars => IInv'
  <1> SUFFICES ASSUME IInv, [Next]_vars
               PROVE  IInv'
    OBVIOUS
  <1>1. ASSUME UNCHANGED vars
        PROVE  IInv'
    BY <1>1 DEF vars, IInv, TypeOK, EntriesAreRight, Pages, Finished, RestIsCurrent, SkippedFirst,
                FilteredFits, StayedAreToCome, PassedAreAhead, SeenAreSkipped, NoMorePassed,
                PagesMissNothing, PagesRepeatNothing, Walking, Making, Current, Listed, Waiting,
                Of, Precedes, Ahead
  <1>2. ASSUME NEW g \in Group, NEW days \in AskedDays, Create(g, days)
        PROVE  IInv'
    BY <1>2, CreateStep
  <1>3. ASSUME NEW g \in Group, NEW p \in Password, Update(p, g)
        PROVE  IInv'
    BY <1>3, UpdateStep
  <1>4. ASSUME NEW expired \in BOOLEAN, NEW size \in AskedSize, Walk_begin(expired, size)
        PROVE  IInv'
    BY <1>4, BeginStep
  <1> QED BY <1>1, <1>2, <1>3, <1>4, ClockSteps, QueryStep, FilterStep, MapStep, AnswerStep DEF Next

\* The inductive invariant holds of every reachable state.
THEOREM InvariantHolds == Spec => []IInv
  BY InitHolds, NextHolds, PTL DEF Spec

\* The variables of Listing keep their types.
THEOREM TypeCorrect == Spec => []TypeOK
  <1>1. IInv => TypeOK
    BY DEF IInv
  <1> QED BY <1>1, InvariantHolds, PTL

\* Every entry of a page of /pwd/list is in the list it belonged to when it was
\* filtered, and says the whole days left when it was written, for any period,
\* any length of a day and any way the clock goes.
THEOREM EntriesHold == Spec => []EntriesAreRight
  <1>1. IInv => EntriesAreRight
    BY DEF IInv
  <1> QED BY <1>1, InvariantHolds, PTL

\* A client that takes up each page of /pwd/list where the last one ended has, at
\* the empty page, seen every password that was in the list all the time, unless
\* some left it, or were updated to another group or during a page, on the way.
THEOREM PagesAreComplete == Spec => []PagesMissNothing
  <1>1. IInv => PagesMissNothing
    BY DEF IInv, Finished, PagesMissNothing
  <1> QED BY <1>1, InvariantHolds, PTL

\* And none twice, unless some came into the list or were so updated.
THEOREM PagesAreDistinct == Spec => []PagesRepeatNothing
  <1>1. IInv => PagesRepeatNothing
    BY DEF IInv, Pages, Finished, PagesRepeatNothing
  <1> QED BY <1>1, InvariantHolds, PTL

===============================================================================
