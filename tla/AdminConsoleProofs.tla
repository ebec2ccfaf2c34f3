--------------------------- MODULE AdminConsoleProofs ---------------------------
(* What holds of AdminConsole for any devices, users, page sizes and surprises. *)
EXTENDS AdminConsole, SequenceTheorems, FiniteSetTheorems, TLAPS

-----------------------------------------------------------------------------
(* The inductive invariant, in parts that do not need one another *)

\* The cursor is on a row: the page that is shown begins within the list.
PageIsShown == page = 0 \/ page * PAGE_SIZE < Len(identities)

\* A question waits for its key, and no request is under way meanwhile.
QuestionsWait == pending_delete # None \/ pending_export => call = Reading

Distinct(entries) ==
    \A i, j \in DOMAIN entries : i # j => entries[i].uuid # entries[j].uuid

Succeeded == reply # None /\ reply.status = "ok"

\* The server has carried out a decision that the console does not show yet.
Decided(d) == Succeeded /\ call.op \in {"toggle", "approve"} /\ call.uuid = d

\* What the console knows of a device that nobody else has been at.
Known(d) == d \notin stale /\ rows[d] # None

\* A listing as it came from the server.
Current(entries) ==
    \A i \in DOMAIN entries : Known(entries[i].uuid) => entries[i] = Entry(entries[i].uuid)

\* The columns, but for a decision that is being shown; once a new listing is
\* on its way it is that listing which is current.
ColumnsFit ==
    IF Succeeded /\ call.op = "fetch_all" THEN Current(reply.devices)
    ELSE \A i \in DOMAIN identities :
            LET d == identities[i].uuid
            IN Known(d) => /\ identities[i].user_id = rows[d].user_id
                           /\ Decided(d) \/ identities[i].confirmed = rows[d].confirmed

ListsAreDistinct ==
    /\ Distinct(identities)
    /\ Succeeded /\ call.op = "fetch_all" => Distinct(reply.devices)

\* An answer has the body that goes with its request.
AnswersFit ==
    /\ reply # None => call # Reading
    /\ Succeeded /\ call.op = "fetch_all" => reply \in [status : {"ok"}, devices : Seq(Shown)]
    /\ Succeeded /\ call.op = "fetch_users" => reply \in [status : {"ok"}, users : Seq(User)]

\* A decision is about a row that is shown, those for a user about rows of that
\* user, and what is decided is so.
DecisionsFit ==
    /\ call.op = "toggle" => /\ call.index \in DOMAIN identities
                             /\ identities[call.index].uuid = call.uuid
    /\ call.op = "approve" =>
          /\ call.todo \subseteq {i \in DOMAIN identities : identities[i].user_id = call.user}
          /\ \E i \in DOMAIN identities : /\ identities[i].user_id = call.user
                                          /\ identities[i].uuid = call.uuid
    /\ \A d \in Device : Decided(d) /\ d \notin stale =>
          rows[d] # None /\ rows[d].confirmed = call.confirm

Knowledge == /\ AnswersFit /\ ListsAreDistinct /\ ColumnsFit /\ DecisionsFit
             /\ DecisionsReachTheUsersDevices

Cursor == SelectionIsShown /\ PageIsShown

Questions == OneQuestionAtATime /\ QuestionsWait

IInv == TypeOK /\ Cursor /\ Questions /\ Knowledge

-----------------------------------------------------------------------------
(* Least and greatest numbers, and the order of a listing.  There is no        *)
(* induction here but that of the inclusion of finite sets.                    *)

LEMMA Least ==
    ASSUME NEW T, T \subseteq Nat, T # {}
    PROVE  \E x \in T : \A y \in T : x <= y
  <1> DEFINE Below(x) == 0 .. x
             Belows == {Below(x) : x \in T}
  <1>1. Belows \subseteq FiniteSubsetsOf(Nat)
    <2> SUFFICES ASSUME NEW x \in T
                 PROVE  Below(x) \in SUBSET Nat /\ IsFiniteSet(Below(x))
      BY DEF FiniteSubsetsOf
    <2> QED BY FS_Interval
  <1>2. Belows # {}
    OBVIOUS
  <1>3. PICK B \in Belows : \A C \in Belows : ~ (<<C, B>> \in StrictSubsetOrdering(Nat))
    <2> HIDE DEF Belows
    <2> QED BY <1>1, <1>2, FS_StrictSubsetOrderingWellFounded, WFMin
  <1>4. PICK x \in T : B = Below(x)
    OBVIOUS
  <1>5. ASSUME NEW y \in T, ~(x <= y)
        PROVE  FALSE
    <2>1. x \in Nat /\ y \in Nat
      BY <1>5
    <2>2. Below(y) \subseteq Below(x) /\ x \in Below(x) /\ x \notin Below(y)
      BY <1>5, <2>1
    <2>3. Below(x) \in SUBSET Nat /\ Below(y) \in SUBSET Nat /\ Below(y) # Below(x)
      BY <2>1, <2>2
    <2>4. <<Below(y), Below(x)>> \in StrictSubsetOrdering(Nat)
      BY <2>2, <2>3 DEF StrictSubsetOrdering
    <2> QED BY <1>3, <1>4, <2>4
  <1> QED BY <1>5

LEMMA Greatest ==
    ASSUME NEW n \in Nat, NEW T, T \subseteq 1 .. n, T # {}
    PROVE  \E x \in T : \A y \in T : y <= x
  <1> DEFINE Up == {n - x : x \in T}
  <1>1. Up \subseteq Nat /\ Up # {}
    OBVIOUS
  <1>2. PICK u \in Up : \A v \in Up : u <= v
    <2> HIDE DEF Up
    <2> QED BY <1>1, Least
  <1>3. PICK x \in T : u = n - x
    OBVIOUS
  <1>4. ASSUME NEW y \in T
        PROVE  y <= x
    <2>1. n - y \in Up
      OBVIOUS
    <2>2. n - x <= n - y
      BY <1>2, <1>3, <2>1
    <2> QED BY <2>2
  <1> QED BY <1>4

LEMMA FirstIsLeast ==
    ASSUME NEW S, S \subseteq Nat, S # {}
    PROVE  First(S) \in S
  <1>1. \E i \in S : \A j \in S : i <= j
    BY Least
  <1> QED BY <1>1 DEF First

\* Any numbers can be put in order.
LEMMA OrderExists ==
    ASSUME NEW n \in Nat, NEW S, S \subseteq 1 .. n
    PROVE  \E order \in [1 .. Cardinality(S) -> S] : Ascending(order)
  <1> DEFINE Orders(T) == {order \in [1 .. Cardinality(T) -> T] : Ascending(order)}
             Unordered == {T \in SUBSET (1 .. n) : Orders(T) = {}}
  <1> SUFFICES ASSUME Unordered # {}
               PROVE  FALSE
    OBVIOUS
  <1>1. ASSUME NEW T \in SUBSET (1 .. n)
        PROVE  IsFiniteSet(T)
    <2>1. IsFiniteSet(1 .. n)
      BY FS_Interval
    <2> QED BY <2>1, FS_Subset
  <1>2. Unordered \subseteq FiniteSubsetsOf(1 .. n)
    BY <1>1 DEF FiniteSubsetsOf
  <1>3. PICK T \in Unordered : \A U \in Unordered : ~ (<<U, T>> \in StrictSubsetOrdering(1 .. n))
    <2> HIDE DEF Unordered
    <2> QED BY <1>2, FS_StrictSubsetOrderingWellFounded, WFMin
  <1>4. IsFiniteSet(T) /\ Cardinality(T) \in Nat /\ T \subseteq 1 .. n /\ T \subseteq Nat
    BY <1>1, FS_CardinalityType
  <1>5. CASE T = {}
    <2>1. Cardinality(T) = 0
      BY <1>5, FS_EmptySet
    <2>2. [i \in 1 .. 0 |-> i] \in Orders(T)
      BY <1>5, <2>1 DEF Ascending
    <2> QED BY <2>2
  <1>6. CASE T # {}
    <2>1. PICK m \in T : \A y \in T : y <= m
      BY <1>4, <1>6, Greatest
    <2> DEFINE U == T \ {m}
               k == Cardinality(U)
    <2>2. k \in Nat /\ Cardinality(T) = k + 1
      <3>1. IsFiniteSet(U) /\ Cardinality(U) = Cardinality(T) - 1
        BY <1>4, FS_RemoveElement
      <3>2. Cardinality(U) \in Nat
        BY <3>1, FS_CardinalityType
      <3> QED BY <1>4, <3>1, <3>2
    <2>3. U \in SUBSET (1 .. n) /\ <<U, T>> \in StrictSubsetOrdering(1 .. n)
      BY <1>4 DEF StrictSubsetOrdering
    <2>4. Orders(U) # {}
      BY <1>3, <2>3
    <2>5. PICK order \in [1 .. k -> U] : Ascending(order)
      BY <2>4
    <2> DEFINE longer == [i \in 1 .. k + 1 |-> IF i = k + 1 THEN m ELSE order[i]]
    <2> HIDE DEF k, U
    <2>6. \A i \in 1 .. k : order[i] \in T /\ order[i] < m
      <3> TAKE i \in 1 .. k
      <3>1. order[i] \in U
        BY <2>5
      <3>2. order[i] \in T /\ order[i] # m
        BY <3>1 DEF U
      <3>3. order[i] \in Nat /\ m \in Nat /\ order[i] <= m
        BY <1>4, <2>1, <3>2
      <3> QED BY <3>2, <3>3
    <2>7. longer \in [1 .. Cardinality(T) -> T]
      BY <2>2, <2>6
    <2>8. ASSUME NEW i \in 1 .. k + 1, NEW j \in 1 .. k + 1, i < j
          PROVE  longer[i] < longer[j]
      <3>1. i \in 1 .. k
        BY <2>2, <2>8
      <3>2. CASE j = k + 1
        BY <2>2, <2>6, <3>1, <3>2
      <3>3. CASE j # k + 1
        <4>1. j \in 1 .. k
          BY <2>2, <3>3
        <4>2. order[i] < order[j]
          BY <2>5, <2>8, <3>1, <4>1 DEF Ascending
        <4> QED BY <2>2, <3>1, <4>1, <4>2
      <3> QED BY <3>2, <3>3
    <2>9. Ascending(longer)
      <3>1. DOMAIN longer = 1 .. k + 1
        OBVIOUS
      <3> HIDE DEF longer
      <3> QED BY <2>8, <3>1 DEF Ascending
    <2> QED BY <2>7, <2>9
  <1> QED BY <1>5, <1>6

LEMMA OrderIs ==
    ASSUME NEW n \in Nat, NEW S, S \subseteq 1 .. n
    PROVE  /\ Cardinality(S) \in Nat
           /\ In_order(S) \in [1 .. Cardinality(S) -> S]
           /\ Ascending(In_order(S))
  <1>1. IsFiniteSet(1 .. n)
    BY FS_Interval
  <1>2. IsFiniteSet(S)
    BY <1>1, FS_Subset
  <1>3. Cardinality(S) \in Nat
    BY <1>2, FS_CardinalityType
  <1>4. \E order \in [1 .. Cardinality(S) -> S] : Ascending(order)
    BY OrderExists
  <1> QED BY <1>3, <1>4 DEF In_order

\* What the server lists: stored rows as they are, each once.
LEMMA ListingIs ==
    ASSUME TypeOK
    PROVE  /\ find_all \in Seq(Shown)
           /\ Distinct(find_all)
           /\ \A i \in DOMAIN find_all : find_all[i] = Entry(find_all[i].uuid)
  <1> DEFINE n == Cardinality(Stored)
             order == In_order(Stored)
  <1>1. Stored \subseteq 1 .. MaxDevice /\ MaxDevice \in Nat
    BY PagesHaveRows DEF Stored, Device
  <1>2. n \in Nat
    BY <1>1, OrderIs
  <1>3. order \in [1 .. n -> Stored] /\ Ascending(order)
    BY <1>1, OrderIs
  <1>4. find_all = [i \in 1 .. n |-> Entry(order[i])]
    BY <1>3 DEF find_all
  <1> HIDE DEF n, order
  <1>5. \A i \in 1 .. n : order[i] \in Stored
    BY <1>3
  <1>6. \A d \in Stored : Entry(d) \in Shown /\ Entry(d).uuid = d
    BY DEF TypeOK, Stored, Entry, Shown, Row
  <1>7. find_all \in [1 .. n -> Shown]
    BY <1>4, <1>5, <1>6
  <1>8. find_all \in Seq(Shown)
    BY <1>2, <1>7, SeqDef
  <1>9. \A i \in 1 .. n : find_all[i].uuid = order[i]
    BY <1>4, <1>5, <1>6
  <1>10. ASSUME NEW i \in 1 .. n, NEW j \in 1 .. n, i # j
         PROVE  find_all[i].uuid # find_all[j].uuid
    <2>1. order[i] \in Nat /\ order[j] \in Nat
      <3>1. Stored \subseteq Nat
        BY <1>1
      <3> QED BY <1>5, <1>10, <3>1
    <2>2. i < j \/ j < i
      BY <1>2, <1>10
    <2>3. order[i] < order[j] \/ order[j] < order[i]
      BY <1>3, <2>2 DEF Ascending
    <2> QED BY <1>9, <2>1, <2>3
  <1>11. DOMAIN find_all = 1 .. n
    BY <1>7
  <1> QED BY <1>4, <1>8, <1>9, <1>10, <1>11 DEF Distinct


-----------------------------------------------------------------------------
(* Types *)

\* A request is told by its operation, and has the fields that go with it.
LEMMA CallIs ==
    ASSUME call \in Calls
    PROVE  /\ call.op = "none" <=> call = Reading
           /\ call.op = "fetch_all" =>
                 call \in [op : {"fetch_all"}, then : {"read", "fetch_users", "import"}]
           /\ call.op = "fetch_users" =>
                 call \in [op : {"fetch_users"}, then : {"read", "first_page"}]
           /\ call.op = "toggle" =>
                 call \in [op : {"toggle"}, index : Nat, uuid : Device, confirm : BOOLEAN]
           /\ call.op = "delete" => call \in [op : {"delete"}, uuid : Device]
           /\ call.op = "approve" =>
                 call \in [op : {"approve"}, user : User, confirm : BOOLEAN, uuid : Device,
                           todo : SUBSET Nat, acked : SUBSET Device]
           /\ call.op = "toggle_user" => call \in [op : {"toggle_user"}, user : User]
  BY DEF Calls, Reading

LEMMA CallsHave ==
    /\ Reading \in Calls
    /\ \A then \in {"read", "fetch_users", "import"} : fetch_all(then) \in Calls
    /\ \A then \in {"read", "first_page"} : fetch_users(then) \in Calls
    /\ \A d \in Device : [op |-> "delete", uuid |-> d] \in Calls
    /\ \A u \in User : [op |-> "toggle_user", user |-> u] \in Calls
    /\ \A op \in {"export", "import"} : [op |-> op] \in Calls
  BY DEF Calls, Reading, fetch_all, fetch_users

LEMMA AnswersHave ==
    /\ \A s \in {"ok", "refused", "down"} : [status |-> s] \in Answers
    /\ \A e \in Seq(Shown) : [status |-> "ok", devices |-> e] \in Answers
    /\ \A e \in Seq(User) : [status |-> "ok", users |-> e] \in Answers
  BY DEF Answers

\* A list whose lines are changed in place.
LEMMA LinesChanged ==
    ASSUME NEW S, NEW s \in Seq(S), NEW t, DOMAIN t = DOMAIN s,
           t = [i \in DOMAIN s |-> t[i]], \A i \in DOMAIN s : t[i] \in S
    PROVE  t \in Seq(S) /\ Len(t) = Len(s)
  <1>1. Len(s) \in Nat /\ DOMAIN s = 1 .. Len(s)
    BY LenProperties
  <1>2. t \in [1 .. Len(s) -> S]
    BY <1>1
  <1>3. t \in Seq(S)
    BY <1>1, <1>2, SeqDef
  <1> QED BY <1>1, <1>2, <1>3, LenProperties

LEMMA Bounds ==
    PAGE_SIZE \in Nat /\ PAGE_SIZE > 0 /\ MaxDevice \in Nat /\ MaxUser \in Nat /\ MaxSurprises \in Nat
  BY PagesHaveRows

LEMMA UsersListed == TypeOK => list_users \in Seq(User)
  <1> SUFFICES ASSUME TypeOK PROVE list_users \in Seq(User)
    OBVIOUS
  <1>1. accounts \subseteq 1 .. MaxUser /\ accounts \subseteq User
    BY DEF TypeOK, User
  <1>2. Cardinality(accounts) \in Nat /\ In_order(accounts) \in [1 .. Cardinality(accounts) -> accounts]
    BY <1>1, Bounds, OrderIs
  <1>3. list_users \in [1 .. Cardinality(accounts) -> User]
    BY <1>1, <1>2 DEF list_users
  <1> QED BY <1>2, <1>3, SeqDef

LEMMA TablesTyped ==
    ASSUME NEW owners \in Seq(User \cup {None})
    PROVE  Rows(owners) \in [Device -> Row \cup {None}] /\ Users(owners) \subseteq User
  <1>1. \A d \in DOMAIN owners : owners[d] \in User \cup {None}
    BY ElementOfSeq, LenProperties
  <1> QED BY <1>1 DEF Rows, Users, Row

LEMMA RowsTyped ==
    ASSUME TypeOK, NEW status, NEW touched, Carry_out(status, touched)
    PROVE  /\ rows' \in [Device -> Row \cup {None}]
           /\ accounts' \subseteq User
           /\ touched \subseteq Device
           /\ status \in {"ok", "refused"}
  <1>1. CASE call.op \in {"toggle", "approve"}
    <2>1. call.uuid \in Device /\ call.confirm \in BOOLEAN
      BY <1>1, CallIs DEF TypeOK
    <2>2. CASE rows[call.uuid] = None
      BY <1>1, <2>1, <2>2 DEF Carry_out, TypeOK
    <2>3. CASE rows[call.uuid] # None
      <3>1. rows[call.uuid] \in Row
        BY <2>1, <2>3 DEF TypeOK
      <3>2. [rows[call.uuid] EXCEPT !.confirmed = call.confirm] \in Row
        BY <2>1, <3>1 DEF Row
      <3>3. /\ rows' = [rows EXCEPT ![call.uuid].confirmed = call.confirm]
            /\ status = "ok" /\ touched = {call.uuid} /\ accounts' = accounts
        BY <1>1, <2>3 DEF Carry_out
      <3> QED BY <2>1, <3>2, <3>3 DEF TypeOK
    <2> QED BY <2>2, <2>3
  <1>2. CASE call.op = "delete"
    <2>1. call.uuid \in Device
      BY <1>2, CallIs DEF TypeOK
    <2> QED BY <1>2, <2>1 DEF Carry_out, TypeOK
  <1>3. CASE call.op = "import"
    BY <1>3, TablesTyped, OwnersAreUsers DEF Carry_out
  <1>4. CASE call.op \in {"toggle_user", "fetch_all", "fetch_users", "export"}
    BY <1>4 DEF Carry_out, TypeOK
  <1> QED BY <1>1, <1>2, <1>3, <1>4 DEF Carry_out

LEMMA InitTypes == Init => TypeOK
  <1> SUFFICES ASSUME Init PROVE TypeOK
    OBVIOUS
  <1>1. /\ rows \in [Device -> Row \cup {None}] /\ Len(Owners) \in Nat
        /\ accounts \subseteq User /\ signed_up \subseteq User
    BY TablesTyped, OwnersAreUsers, LenProperties DEF Init
  <1>2. call \in Calls
    BY CallsHave DEF Init
  <1>3. identities \in Seq(Shown) /\ users \in Seq(User)
    BY DEF Init
  <1>4. tab \in 0 .. TAB_COUNT - 1
    BY DEF Init, TAB_COUNT, TABS
  <1>5. greeted \in 0 .. MaxDevice /\ surprises \in 0 .. MaxSurprises
    BY <1>1, Bounds, OwnersAreUsers DEF Init
  <1>6. stale \subseteq Device /\ page \in Nat
    BY DEF Init
  <1>7. selected = None /\ user_selected = None /\ pending_delete = None /\ reply = None
        /\ pending_export = FALSE /\ backend_down = FALSE
    BY DEF Init
  <1> QED BY <1>1, <1>2, <1>3, <1>4, <1>5, <1>6, <1>7 DEF TypeOK

-----------------------------------------------------------------------------
(* What the operators of the lists do *)

LEMMA Quotient ==
    ASSUME NEW a \in Nat, NEW b \in Nat, b > 0
    PROVE  a \div b \in Nat /\ (a \div b) * b <= a
  OBVIOUS

LEMMA PagesAreSome ==
    ASSUME NEW entries \in Seq(Shown)
    PROVE  /\ total_pages(entries) \in Nat \ {0}
           /\ total_pages(entries) # 1 =>
                 (total_pages(entries) - 1) * PAGE_SIZE < Len(entries)
           /\ entries = <<>> => Len(entries) = 0
           /\ entries # <<>> => Len(entries) > 0
  <1>1. Len(entries) \in Nat /\ (entries # <<>> => Len(entries) > 0)
        /\ (entries = <<>> => Len(entries) = 0)
    BY LenProperties, EmptySeq
  <1>2. CASE entries = <<>>
    BY <1>1, <1>2 DEF total_pages
  <1>3. CASE entries # <<>>
    <2> DEFINE n == Len(entries) - 1
    <2>1. n \in Nat
      BY <1>1, <1>3
    <2>2. n \div PAGE_SIZE \in Nat /\ (n \div PAGE_SIZE) * PAGE_SIZE <= n
      BY <2>1, Bounds, Quotient
    <2>3. total_pages(entries) = n \div PAGE_SIZE + 1
      BY <1>3 DEF total_pages
    <2>4. total_pages(entries) \in Nat \ {0} /\ total_pages(entries) - 1 = n \div PAGE_SIZE
      BY <2>2, <2>3
    <2>5. (total_pages(entries) - 1) * PAGE_SIZE <= Len(entries) - 1
      BY <2>2, <2>4
    <2>6. (total_pages(entries) - 1) * PAGE_SIZE < Len(entries)
      BY <1>1, <2>4, <2>5, Bounds
    <2> QED BY <1>1, <1>3, <2>4, <2>6
  <1> QED BY <1>2, <1>3

\* The optimistic update of a single decision.
LEMMA ToggleShows ==
    ASSUME identities \in Seq(Shown), call.op = "toggle", call.index \in DOMAIN identities,
           call.confirm \in BOOLEAN,
           identities' = IF reply.status = "ok"
                         THEN [identities EXCEPT ![call.index].confirmed = call.confirm]
                         ELSE identities
    PROVE  /\ identities' \in Seq(Shown)
           /\ Len(identities') = Len(identities)
           /\ DOMAIN identities' = DOMAIN identities
           /\ \A i \in DOMAIN identities :
                 identities'[i] = IF reply.status = "ok" /\ i = call.index
                                  THEN [identities[i] EXCEPT !.confirmed = call.confirm]
                                  ELSE identities[i]
  <1>1. \A i \in DOMAIN identities : identities[i] \in Shown
    BY ElementOfSeq, LenProperties
  <1>2. DOMAIN identities' = DOMAIN identities
    OBVIOUS
  <1>3. \A i \in DOMAIN identities :
           identities'[i] = IF reply.status = "ok" /\ i = call.index
                            THEN [identities[i] EXCEPT !.confirmed = call.confirm]
                            ELSE identities[i]
    OBVIOUS
  <1>4. \A i \in DOMAIN identities : identities'[i] \in Shown
    BY <1>1, <1>3 DEF Shown
  <1>5. identities' = [i \in DOMAIN identities |-> identities'[i]]
    BY LenProperties
  <1> QED BY <1>2, <1>3, <1>4, <1>5, LinesChanged

\* That of a decision for a user.
LEMMA ApprovalShows ==
    ASSUME TypeOK, toggle_user_approval_replied
    PROVE  /\ identities' \in Seq(Shown)
           /\ Len(identities') = Len(identities)
           /\ DOMAIN identities' = DOMAIN identities
           /\ \A i \in DOMAIN identities :
                 identities'[i] = IF reply.status = "ok" /\ identities[i].uuid = call.uuid
                                  THEN [identities[i] EXCEPT !.confirmed = call.confirm]
                                  ELSE identities[i]
  <1>1. \A i \in DOMAIN identities : identities[i] \in Shown
    BY ElementOfSeq, LenProperties DEF TypeOK
  <1>2. call.confirm \in BOOLEAN
    BY CallIs DEF TypeOK, toggle_user_approval_replied
  <1>3. identities' = [i \in DOMAIN identities |->
                         IF reply.status = "ok" /\ identities[i].uuid = call.uuid
                         THEN [identities[i] EXCEPT !.confirmed = call.confirm]
                         ELSE identities[i]]
    BY DEF toggle_user_approval_replied
  <1>4. \A i \in DOMAIN identities : identities'[i] \in Shown
    BY <1>1, <1>2, <1>3 DEF Shown
  <1>5. DOMAIN identities' = DOMAIN identities
        /\ identities' = [i \in DOMAIN identities |-> identities'[i]]
    BY <1>3
  <1> QED BY <1>3, <1>4, <1>5, LinesChanged DEF TypeOK

LEMMA NextRowIs ==
    ASSUME TypeOK, next_row
    PROVE  /\ selected' \in 0 .. PAGE_SIZE - 1
           /\ page * PAGE_SIZE + selected' < Len(identities)
  <1> DEFINE left == Len(identities) - page * PAGE_SIZE
             rows_here == IF left < PAGE_SIZE THEN left ELSE PAGE_SIZE
             here == IF selected = None THEN 0 ELSE selected
  <1>1. Len(identities) \in Nat /\ page * PAGE_SIZE \in Nat
    BY LenProperties, Bounds DEF TypeOK
  <1>2. left \in Nat \ {0}
    BY <1>1 DEF next_row
  <1>3. selected' = IF here + 1 < rows_here THEN here + 1 ELSE rows_here - 1
    BY DEF next_row
  <1>4. here \in Nat
    BY Bounds DEF TypeOK
  <1> HIDE DEF here
  <1>5. rows_here \in 1 .. PAGE_SIZE /\ rows_here <= left
    BY <1>2, Bounds
  <1>6. selected' \in 0 .. rows_here - 1
    <2> HIDE DEF rows_here
    <2> QED BY <1>3, <1>4, <1>5, Bounds
  <1>7. selected' < left
    <2> HIDE DEF rows_here, left
    <2> QED BY <1>2, <1>5, <1>6, Bounds
  <1>8. selected' <= PAGE_SIZE - 1
    <2> HIDE DEF rows_here, left
    <2> QED BY <1>5, <1>6, Bounds
  <1> QED BY <1>1, <1>6, <1>7, <1>8, Bounds

\* What others do to the server's rows.
LEMMA OthersTyped ==
    ASSUME TypeOK, Others
    PROVE  /\ rows' \in [Device -> Row \cup {None}]
           /\ accounts' \subseteq User /\ signed_up' \subseteq User
           /\ stale' \subseteq Device /\ stale \subseteq stale'
           /\ greeted' \in 0 .. MaxDevice
           /\ \A d \in Device \ stale' : rows'[d] = rows[d]
  <1>0. accounts' \subseteq User /\ signed_up' \subseteq User
    <2>1. \/ UNCHANGED <<accounts, signed_up>>
          \/ \E u \in User : accounts' = accounts \cup {u} /\ signed_up' = signed_up \cup {u}
      BY DEF Others
    <2> QED BY <2>1 DEF TypeOK
  <1>1. CASE /\ greeted < MaxDevice
             /\ greeted' = greeted + 1
             /\ rows' = [rows EXCEPT ![greeted + 1] = [user_id |-> None, confirmed |-> FALSE]]
             /\ stale' = stale \cup {greeted + 1}
    <2>1. greeted + 1 \in Device /\ greeted' \in 0 .. MaxDevice
      BY <1>1, Bounds DEF TypeOK, Device
    <2>2. [user_id |-> None, confirmed |-> FALSE] \in Row
      BY DEF Row
    <2> QED BY <1>0, <1>1, <2>1, <2>2 DEF TypeOK
  <1>2. ASSUME NEW d \in Device, rows[d] # None,
               \/ \E u \in User : rows' = [rows EXCEPT ![d] = [user_id |-> u, confirmed |-> FALSE]]
               \/ \E confirmed \in BOOLEAN : rows' = [rows EXCEPT ![d].confirmed = confirmed]
               \/ rows' = [rows EXCEPT ![d] = None],
               stale' = stale \cup {d}, greeted' = greeted
        PROVE  /\ rows' \in [Device -> Row \cup {None}]
               /\ stale' \subseteq Device /\ stale \subseteq stale'
               /\ greeted' \in 0 .. MaxDevice
               /\ \A e \in Device \ stale' : rows'[e] = rows[e]
    <2>1. \E r \in Row \cup {None} : rows' = [rows EXCEPT ![d] = r]
      <3>1. rows[d] \in Row
        BY <1>2 DEF TypeOK
      <3>2. ASSUME NEW u \in User
            PROVE  [user_id |-> u, confirmed |-> FALSE] \in Row
        BY DEF Row
      <3>3. ASSUME NEW confirmed \in BOOLEAN
            PROVE  [rows[d] EXCEPT !.confirmed = confirmed] \in Row
        BY <3>1 DEF Row
      <3> QED BY <1>2, <3>2, <3>3
    <2> QED BY <1>2, <2>1 DEF TypeOK
  <1>3. \/ /\ greeted < MaxDevice
           /\ greeted' = greeted + 1
           /\ rows' = [rows EXCEPT ![greeted + 1] = [user_id |-> None, confirmed |-> FALSE]]
           /\ stale' = stale \cup {greeted + 1}
        \/ \E d \in Device :
              /\ rows[d] # None
              /\ \/ \E u \in User : rows' = [rows EXCEPT ![d] = [user_id |-> u, confirmed |-> FALSE]]
                 \/ \E confirmed \in BOOLEAN : rows' = [rows EXCEPT ![d].confirmed = confirmed]
                 \/ rows' = [rows EXCEPT ![d] = None]
              /\ stale' = stale \cup {d} /\ greeted' = greeted
    BY DEF Others
  <1> QED BY <1>0, <1>1, <1>2, <1>3

-----------------------------------------------------------------------------
(* Every step keeps the types *)

LEMMA Lines ==
    ASSUME identities \in Seq(Shown), NEW i \in DOMAIN identities
    PROVE  /\ i \in Nat
           /\ identities[i] \in Shown
           /\ identities[i].uuid \in Device
           /\ identities[i].user_id \in User \cup {None}
           /\ identities[i].confirmed \in BOOLEAN
  <1>1. i \in Nat /\ identities[i] \in Shown
    BY ElementOfSeq, LenProperties
  <1> QED BY <1>1 DEF Shown

\* The line selected is one of the list, and so is the user.
LEMMA Selection ==
    ASSUME TypeOK, SelectionIsShown
    PROVE  /\ selected # None => /\ selected_global_index + 1 \in DOMAIN identities
                                 /\ identities[selected_global_index + 1] \in Shown
           /\ user_selected # None => /\ user_selected \in Nat
                                      /\ user_selected + 1 \in DOMAIN users
                                      /\ users[user_selected + 1] \in User
  <1>1. Len(identities) \in Nat /\ DOMAIN identities = 1 .. Len(identities)
    BY LenProperties DEF TypeOK
  <1>2. Len(users) \in Nat /\ DOMAIN users = 1 .. Len(users)
    BY LenProperties DEF TypeOK
  <1>3. ASSUME selected # None
        PROVE  /\ selected_global_index + 1 \in DOMAIN identities
               /\ identities[selected_global_index + 1] \in Shown
    <2>1. selected \in Nat /\ page \in Nat /\ page * PAGE_SIZE \in Nat
      BY <1>3, Bounds DEF TypeOK
    <2>2. selected_global_index = page * PAGE_SIZE + selected
          /\ selected_global_index < Len(identities)
      BY <1>3 DEF SelectionIsShown, selected_global_index
    <2>3. selected_global_index + 1 \in DOMAIN identities
      BY <1>1, <2>1, <2>2
    <2> QED BY <2>3, ElementOfSeq, <1>1 DEF TypeOK
  <1>4. ASSUME user_selected # None
        PROVE  /\ user_selected \in Nat
               /\ user_selected + 1 \in DOMAIN users
               /\ users[user_selected + 1] \in User
    <2>1. user_selected \in Nat /\ user_selected < Len(users)
      BY <1>4 DEF TypeOK, SelectionIsShown
    <2>2. user_selected + 1 \in DOMAIN users
      BY <1>2, <2>1
    <2> QED BY <2>1, <2>2, ElementOfSeq, <1>2 DEF TypeOK
  <1> QED BY <1>3, <1>4

LEMMA ListingAnswer ==
    ASSUME TypeOK, AnswersFit, Replied("fetch_all", TRUE)
    PROVE  /\ reply.devices \in Seq(Shown)
           /\ call.then \in {"read", "fetch_users", "import"}
           /\ Succeeded
  BY CallIs DEF TypeOK, AnswersFit, Replied, Succeeded

\* What follows a listing, whatever came of it.
Follows == IF call.then = "read" THEN Reading
           ELSE fetch_users(IF call.then = "import" THEN "first_page" ELSE "read")

LEMMA FollowsTyped ==
    ASSUME TypeOK, call.op = "fetch_all"
    PROVE  Follows \in Calls
  BY CallIs, CallsHave DEF Follows, TypeOK

LEMMA TypesPreserved == IInv /\ [Next]_vars => TypeOK'
  <1> SUFFICES ASSUME IInv, [Next]_vars
               PROVE  TypeOK'
    OBVIOUS
  <1> USE DEF server, lists, modals, screen, Send, Back
  <1>0. TypeOK /\ SelectionIsShown /\ AnswersFit /\ DecisionsFit
    BY DEF IInv, Cursor, Knowledge
  <1>1. CASE Served
    <2>1. PICK status \in {"ok", "refused"}, touched \in {{}, Device} \cup {{d} : d \in Device} :
             /\ Carry_out(status, touched)
             /\ IF call.op = "fetch_all"
                THEN /\ reply' = [status |-> "ok", devices |-> find_all]
                     /\ stale' = {}
                ELSE /\ reply' = IF call.op = "fetch_users" THEN [status |-> "ok", users |-> list_users]
                                 ELSE [status |-> status]
                     /\ stale' = IF call.op = "import" THEN Device ELSE stale
      BY <1>1 DEF Served
    <2>2. rows' \in [Device -> Row \cup {None}] /\ accounts' \subseteq User
      BY <1>0, <2>1, RowsTyped
    <2>3. list_users \in Seq(User)
      BY <1>0, UsersListed
    <2>4. reply' \in Answers
      BY <1>0, <2>1, <2>3, ListingIs, AnswersHave
    <2>5. stale' \subseteq Device
      BY <1>0, <2>1 DEF TypeOK
    <2>6. surprises' \in 0 .. MaxSurprises
      <3>1. CASE call.op = "import"
        BY <1>0, <1>1, <2>1, <3>1, Bounds DEF Served, Carry_out, TypeOK
      <3>2. CASE call.op # "import"
        BY <1>0, <1>1, <3>2 DEF Served, TypeOK
      <3> QED BY <3>1, <3>2
    <2> QED BY <1>0, <1>1, <2>2, <2>4, <2>5, <2>6 DEF Served, TypeOK
  <1>2. CASE Answer_lost
    <2>1. PICK status \in {"ok", "refused"}, touched \in {{}, Device} \cup {{d} : d \in Device} :
             Carry_out(status, touched) /\ stale' = stale \cup touched
      BY <1>2 DEF Answer_lost
    <2>2. /\ rows' \in [Device -> Row \cup {None}] /\ touched \subseteq Device
          /\ accounts' \subseteq User
      BY <1>0, <2>1, RowsTyped
    <2>3. reply' \in Answers
      BY <1>2, AnswersHave DEF Answer_lost
    <2>4. surprises' \in 0 .. MaxSurprises
      BY <1>0, <1>2, Bounds DEF Answer_lost, TypeOK
    <2> QED BY <1>0, <1>2, <2>1, <2>2, <2>3, <2>4 DEF Answer_lost, TypeOK
  <1>3. CASE Not_served
    <2>1. reply' \in Answers
      BY <1>3, AnswersHave DEF Not_served
    <2> QED BY <1>0, <1>3, <2>1 DEF Not_served, TypeOK
  <1>4. CASE fetch_all_ok
    <2>1. PICK entries \in {reply.devices, <<>>} :
             /\ identities' = entries
             /\ page' = IF page >= total_pages(entries) THEN total_pages(entries) - 1 ELSE page
             /\ selected' = IF page' * PAGE_SIZE < Len(entries) THEN 0 ELSE None
      BY <1>4 DEF fetch_all_ok
    <2>2. entries \in Seq(Shown) /\ Len(entries) \in Nat
      <3>1. reply.devices \in Seq(Shown)
        BY <1>0, <1>4, ListingAnswer DEF fetch_all_ok
      <3>2. entries \in Seq(Shown)
        BY <2>1, <3>1, EmptySeq
      <3>3. Len(entries) \in Nat
        BY <3>2, LenProperties
      <3> QED BY <3>2, <3>3
    <2>3. total_pages(entries) \in Nat \ {0}
      BY <2>2, PagesAreSome
    <2>4. page' \in Nat /\ selected' \in (0 .. PAGE_SIZE - 1) \cup {None}
      BY <1>0, <2>1, <2>3, Bounds DEF TypeOK
    <2>5. call' \in Calls /\ reply' = None
      BY <1>0, <1>4, FollowsTyped DEF fetch_all_ok, Replied, Follows
    <2> QED BY <1>0, <1>4, <2>1, <2>2, <2>4, <2>5 DEF fetch_all_ok, Replied, TypeOK
  <1>5. CASE fetch_all_fails
    <2>1. call' \in Calls /\ reply' = None
      BY <1>0, <1>5, FollowsTyped DEF fetch_all_fails, Replied, Follows
    <2> QED BY <1>0, <1>5, <2>1 DEF fetch_all_fails, Replied, TypeOK
  <1>6. CASE fetch_users_replied
    <2>1. users' \in Seq(User) /\ user_selected' \in Nat \cup {None}
      <3>1. CASE reply.status # "ok"
        BY <1>0, <1>6, <3>1 DEF fetch_users_replied, TypeOK
      <3>2. CASE reply.status = "ok"
        <4>1. reply.users \in Seq(User)
          BY <1>0, <1>6, <3>2 DEF fetch_users_replied, AnswersFit, Succeeded
        <4>2. PICK entries \in {reply.users, <<>>} :
                 /\ users' = entries
                 /\ user_selected' = IF entries = <<>> THEN None
                                     ELSE IF user_selected = None THEN 0
                                     ELSE IF user_selected < Len(entries) THEN user_selected
                                     ELSE Len(entries) - 1
          BY <1>6, <3>2 DEF fetch_users_replied
        <4>3. entries \in Seq(User) /\ Len(entries) \in Nat /\ (entries # <<>> => Len(entries) > 0)
          <5>1. entries \in Seq(User)
            BY <4>1, <4>2, EmptySeq
          <5>2. Len(entries) \in Nat
            BY <5>1, LenProperties
          <5>3. entries # <<>> => Len(entries) # 0
            BY <5>1, EmptySeq
          <5> QED BY <5>1, <5>2, <5>3
        <4> QED BY <1>0, <4>2, <4>3 DEF TypeOK
      <3> QED BY <3>1, <3>2
    <2>2. call' = Reading /\ reply' = None /\ page' \in Nat
      BY <1>0, <1>6 DEF fetch_users_replied, TypeOK
    <2> QED BY <1>0, <1>6, <2>1, <2>2, CallsHave DEF fetch_users_replied, TypeOK
  <1>7. CASE toggle_selected_replied
    <2>1. call.confirm \in BOOLEAN /\ call.index \in DOMAIN identities
      BY <1>0, <1>7, CallIs DEF toggle_selected_replied, TypeOK, DecisionsFit
    <2>2. identities' \in Seq(Shown)
      BY <1>0, <1>7, <2>1, ToggleShows DEF toggle_selected_replied, TypeOK
    <2> QED BY <1>0, <1>7, <2>2, CallsHave DEF toggle_selected_replied, TypeOK
  <1>8. CASE delete_replied
    BY <1>0, <1>8, CallsHave DEF delete_replied, TypeOK
  <1>9. CASE toggle_user_approval_replied
    <2>1. call \in [op : {"approve"}, user : User, confirm : BOOLEAN, uuid : Device,
                    todo : SUBSET Nat, acked : SUBSET Device]
      BY <1>0, <1>9, CallIs DEF toggle_user_approval_replied, TypeOK
    <2>2. identities' \in Seq(Shown)
      BY <1>0, <1>9, <2>1, ApprovalShows
    <2>3. call' \in Calls
      <3>1. CASE call.todo = {}
        BY <1>9, <3>1, CallsHave DEF toggle_user_approval_replied
      <3>2. CASE call.todo # {}
        <4>1. First(call.todo) \in call.todo
          BY <2>1, <3>2, FirstIsLeast
        <4>2. First(call.todo) \in DOMAIN identities
          BY <1>0, <1>9, <4>1 DEF DecisionsFit, toggle_user_approval_replied
        <4>3. identities[First(call.todo)].uuid \in Device
          BY <1>0, <4>2, Lines DEF TypeOK
        <4> DEFINE acked == IF reply.status = "ok" THEN call.acked \cup {call.uuid} ELSE call.acked
        <4>4. acked \in SUBSET Device
          BY <2>1
        <4>5. call' = [call EXCEPT !.uuid = identities[First(call.todo)].uuid,
                                   !.todo = @ \ {First(@)}, !.acked = acked]
          BY <1>9, <3>2 DEF toggle_user_approval_replied
        <4> HIDE DEF acked
        <4>6. call' \in [op : {"approve"}, user : User, confirm : BOOLEAN, uuid : Device,
                         todo : SUBSET Nat, acked : SUBSET Device]
          BY <2>1, <4>3, <4>4, <4>5
        <4> QED BY <4>6 DEF Calls
      <3> QED BY <3>1, <3>2
    <2> QED BY <1>0, <1>9, <2>2, <2>3 DEF toggle_user_approval_replied, TypeOK
  <1>10. CASE toggle_user_deleted_replied
    BY <1>0, <1>10, CallsHave DEF toggle_user_deleted_replied, TypeOK
  <1>11. CASE export_replied
    BY <1>0, <1>11, CallsHave DEF export_replied, TypeOK
  <1>12. CASE import_replied
    BY <1>0, <1>12, CallsHave DEF import_replied, TypeOK
  <1>13. CASE Tab
    <2>1. tab' \in 0 .. TAB_COUNT - 1
      BY <1>0, <1>13 DEF Tab, TypeOK, TAB_COUNT, TABS
    <2> QED BY <1>0, <1>13, <2>1 DEF Tab, Key, TypeOK
  <1>14. CASE prev_page
    BY <1>0, <1>14, Bounds DEF prev_page, Key, TypeOK
  <1>15. CASE next_page
    BY <1>0, <1>15, Bounds DEF next_page, Key, TypeOK
  <1>16. CASE prev_row
    BY <1>0, <1>16, Bounds DEF prev_row, Key, TypeOK
  <1>17. CASE next_row
    <2>1. selected' \in 0 .. PAGE_SIZE - 1
      BY <1>0, <1>17, NextRowIs
    <2> QED BY <1>0, <1>17, <2>1 DEF next_row, Key, TypeOK
  <1>18. CASE move_user
    BY <1>0, <1>18 DEF move_user, Key, TypeOK
  <1>19. CASE toggle_selected
    <2> DEFINE index == selected_global_index + 1
    <2>1. index \in DOMAIN identities /\ identities[index] \in Shown
      BY <1>0, <1>19, Selection DEF toggle_selected
    <2>2. index \in Nat
      BY <1>0, <2>1, LenProperties DEF TypeOK
    <2>3. call' = [op |-> "toggle", index |-> index, uuid |-> identities[index].uuid,
                   confirm |-> ~identities[index].confirmed] /\ reply' = None
      BY <1>19 DEF toggle_selected
    <2> HIDE DEF index
    <2>4. call' \in [op : {"toggle"}, index : Nat, uuid : Device, confirm : BOOLEAN]
      BY <2>1, <2>2, <2>3 DEF Shown
    <2>5. call' \in Calls
      BY <2>4 DEF Calls
    <2> QED BY <1>0, <1>19, <2>3, <2>5 DEF toggle_selected, Key, TypeOK
  <1>20. CASE arm_delete
    <2>1. pending_delete' \in Device
      BY <1>0, <1>20, Selection DEF arm_delete, Shown
    <2> QED BY <1>0, <1>20, <2>1 DEF arm_delete, Key, TypeOK
  <1>21. CASE Delete_answer
    <2>1. call' \in Calls /\ reply' \in Answers \cup {None}
      BY <1>0, <1>21, CallsHave DEF Delete_answer, TypeOK
    <2> QED BY <1>0, <1>21, <2>1 DEF Delete_answer, TypeOK
  <1>22. CASE toggle_user_approval
    <2> DEFINE user == users[user_selected + 1]
               devices == Devices_of(user)
               all_confirmed == \A i \in devices : identities[i].confirmed
    <2>1. user \in User
      BY <1>0, <1>22, Selection DEF toggle_user_approval
    <2>2. devices \subseteq DOMAIN identities /\ devices \subseteq Nat /\ devices # {}
      BY <1>0, <1>22, LenProperties DEF toggle_user_approval, Devices_of, TypeOK
    <2>3. First(devices) \in devices
      BY <2>2, FirstIsLeast
    <2>4. identities[First(devices)].uuid \in Device
      BY <1>0, <2>2, <2>3, Lines DEF TypeOK
    <2>5. call' = [op |-> "approve", user |-> user, confirm |-> ~all_confirmed,
                   uuid |-> identities[First(devices)].uuid, todo |-> devices \ {First(devices)},
                   acked |-> {}] /\ reply' = None
      BY <1>22 DEF toggle_user_approval
    <2>6. (~all_confirmed) \in BOOLEAN
      OBVIOUS
    <2> HIDE DEF user, devices, all_confirmed
    <2>7. call' \in [op : {"approve"}, user : User, confirm : BOOLEAN, uuid : Device,
                     todo : SUBSET Nat, acked : SUBSET Device]
      BY <2>1, <2>2, <2>4, <2>5, <2>6
    <2>8. call' \in Calls
      BY <2>7 DEF Calls
    <2> QED BY <1>0, <1>22, <2>5, <2>8 DEF toggle_user_approval, Key, TypeOK
  <1>23. CASE toggle_user_deleted
    <2>1. call' \in Calls
      BY <1>0, <1>23, Selection, CallsHave DEF toggle_user_deleted
    <2> QED BY <1>0, <1>23, <2>1 DEF toggle_user_deleted, Key, TypeOK
  <1>24. CASE Export_key
    <2>1. call' \in Calls /\ reply' \in Answers \cup {None} /\ pending_export' \in BOOLEAN
      BY <1>0, <1>24, CallsHave DEF Export_key, Key, TypeOK
    <2> QED BY <1>0, <1>24, <2>1 DEF Export_key, Key, TypeOK
  <1>25. CASE Export_answer
    <2>1. call' \in Calls /\ reply' \in Answers \cup {None}
      BY <1>0, <1>25, CallsHave DEF Export_answer, TypeOK
    <2> QED BY <1>0, <1>25, <2>1 DEF Export_answer, TypeOK
  <1>26. CASE Import_key
    <2>1. call' \in Calls /\ reply' = None
      BY <1>26, CallsHave DEF Import_key
    <2> QED BY <1>0, <1>26, <2>1 DEF Import_key, Key, TypeOK
  <1>27. CASE Relaunch
    <2>1. call' \in Calls
      BY <1>27, CallsHave DEF Relaunch
    <2>2. tab' \in 0 .. TAB_COUNT - 1
      BY <1>27 DEF Relaunch, TAB_COUNT, TABS
    <2>3. identities' \in Seq(Shown) /\ users' \in Seq(User)
      BY <1>27 DEF Relaunch
    <2> QED BY <1>0, <1>27, <2>1, <2>2, <2>3 DEF Relaunch, TypeOK
  <1>28. CASE Others
    <2>1. /\ rows' \in [Device -> Row \cup {None}] /\ stale' \subseteq Device
          /\ accounts' \subseteq User /\ signed_up' \subseteq User
          /\ greeted' \in 0 .. MaxDevice
      BY <1>0, <1>28, OthersTyped
    <2>2. surprises' \in 0 .. MaxSurprises
      BY <1>0, <1>28, Bounds DEF Others, TypeOK
    <2> QED BY <1>0, <1>28, <2>1, <2>2 DEF Others, TypeOK
  <1>29. CASE UNCHANGED vars
    BY <1>0, <1>29 DEF vars, TypeOK
  <1> HIDE DEF server, lists, modals, screen, Send, Back
  <1> QED BY <1>1, <1>2, <1>3, <1>4, <1>5, <1>6, <1>7, <1>8, <1>9, <1>10, <1>11, <1>12, <1>13,
             <1>14, <1>15, <1>16, <1>17, <1>18, <1>19, <1>20, <1>21, <1>22, <1>23, <1>24, <1>25,
             <1>26, <1>27, <1>28, <1>29
      DEF Next, Press, Answer, Continue

-----------------------------------------------------------------------------
(* The selection is one of the rows shown *)

LEMMA PagesGrow ==
    ASSUME NEW a \in Nat, NEW b \in Nat, a <= b
    PROVE  a * PAGE_SIZE <= b * PAGE_SIZE /\ a * PAGE_SIZE \in Nat /\ b * PAGE_SIZE \in Nat
  <1>1. PAGE_SIZE \in Nat
    BY Bounds
  <1>2. PICK c \in Nat : b = a + c
    <2>1. b - a \in Nat /\ b = a + (b - a)
      OBVIOUS
    <2> QED BY <2>1
  <1>3. b * PAGE_SIZE = a * PAGE_SIZE + c * PAGE_SIZE
    BY <1>1, <1>2
  <1>4. a * PAGE_SIZE \in Nat /\ c * PAGE_SIZE \in Nat
    BY <1>1
  <1> QED BY <1>3, <1>4

\* A page of a list that has one begins within it.
LEMMA PageBegins ==
    ASSUME NEW entries \in Seq(Shown), NEW p \in Nat, p < total_pages(entries)
    PROVE  p = 0 \/ p * PAGE_SIZE < Len(entries)
  <1>1. CASE total_pages(entries) = 1
    BY <1>1
  <1>2. CASE total_pages(entries) # 1
    <2>1. total_pages(entries) - 1 \in Nat /\ p <= total_pages(entries) - 1
          /\ (total_pages(entries) - 1) * PAGE_SIZE < Len(entries)
      BY <1>2, PagesAreSome
    <2>2. p * PAGE_SIZE <= (total_pages(entries) - 1) * PAGE_SIZE
          /\ p * PAGE_SIZE \in Nat /\ (total_pages(entries) - 1) * PAGE_SIZE \in Nat
      BY <2>1, PagesGrow
    <2>3. Len(entries) \in Nat
      BY LenProperties
    <2> QED BY <2>1, <2>2, <2>3
  <1> QED BY <1>1, <1>2

\* Where the page and the selection are what they were, in lists of the same length.
LEMMA CursorStays ==
    ASSUME Cursor, Len(identities') = Len(identities),
           UNCHANGED <<page, selected, users, user_selected>>
    PROVE  Cursor'
  BY DEF Cursor, SelectionIsShown, PageIsShown, selected_global_index

LEMMA CursorPreserved == IInv /\ [Next]_vars => Cursor'
  <1> SUFFICES ASSUME IInv, [Next]_vars
               PROVE  Cursor'
    OBVIOUS
  <1>0. TypeOK /\ Cursor /\ AnswersFit /\ DecisionsFit
    BY DEF IInv, Cursor, Knowledge
  <1>1. Len(identities) \in Nat /\ page \in Nat /\ page * PAGE_SIZE \in Nat
    <2>1. Len(identities) \in Nat
      BY <1>0, LenProperties DEF TypeOK
    <2>2. page \in Nat /\ page <= page
      BY <1>0 DEF TypeOK
    <2> QED BY <2>1, <2>2, PagesGrow
  <1>2. selected # None =>
           selected \in Nat /\ page * PAGE_SIZE + selected < Len(identities)
    BY <1>0, Bounds DEF TypeOK, Cursor, SelectionIsShown, selected_global_index
  <1>3. CASE fetch_all_ok
    <2>1. PICK entries \in {reply.devices, <<>>} :
             /\ identities' = entries
             /\ page' = IF page >= total_pages(entries) THEN total_pages(entries) - 1 ELSE page
             /\ selected' = IF page' * PAGE_SIZE < Len(entries) THEN 0 ELSE None
      BY <1>3 DEF fetch_all_ok
    <2>2. entries \in Seq(Shown)
      BY <1>0, <1>3, <2>1, ListingAnswer, EmptySeq DEF fetch_all_ok
    <2>3. page' \in Nat /\ page' < total_pages(entries)
      BY <1>1, <2>1, <2>2, PagesAreSome
    <2>4. page' = 0 \/ page' * PAGE_SIZE < Len(entries)
      BY <2>2, <2>3, PageBegins
    <2>5. selected' # None => page' * PAGE_SIZE + selected' < Len(identities')
      <3>1. page' * PAGE_SIZE \in Nat
        BY <2>3, PagesGrow
      <3> QED BY <2>1, <3>1
    <2>6. UNCHANGED <<users, user_selected>>
      BY <1>3 DEF fetch_all_ok
    <2> QED BY <1>0, <2>1, <2>4, <2>5, <2>6
        DEF Cursor, SelectionIsShown, PageIsShown, selected_global_index
  <1>4. CASE fetch_users_replied
    <2>1. user_selected' # None => user_selected' < Len(users')
      <3>1. CASE reply.status # "ok"
        BY <1>0, <1>4, <3>1 DEF fetch_users_replied, Cursor, SelectionIsShown
      <3>2. CASE reply.status = "ok"
        <4>1. reply.users \in Seq(User)
          BY <1>0, <1>4, <3>2 DEF fetch_users_replied, AnswersFit, Succeeded
        <4>2. PICK entries \in {reply.users, <<>>} :
                 /\ users' = entries
                 /\ user_selected' = IF entries = <<>> THEN None
                                     ELSE IF user_selected = None THEN 0
                                     ELSE IF user_selected < Len(entries) THEN user_selected
                                     ELSE Len(entries) - 1
          BY <1>4, <3>2 DEF fetch_users_replied
        <4>3. entries \in Seq(User)
          BY <4>1, <4>2, EmptySeq
        <4>4. Len(entries) \in Nat /\ (entries # <<>> => Len(entries) # 0)
          BY <4>3, EmptySeq, LenProperties
        <4> QED BY <1>0, <4>2, <4>4 DEF TypeOK
      <3> QED BY <3>1, <3>2
    <2>2. page' = page \/ page' = 0
      BY <1>4 DEF fetch_users_replied
    <2>3. UNCHANGED <<identities, selected>>
      BY <1>4 DEF fetch_users_replied
    <2>4. selected' # None => page' * PAGE_SIZE + selected' < Len(identities')
      <3>1. 0 * PAGE_SIZE = 0
        BY Bounds
      <3> QED BY <1>1, <1>2, <2>2, <2>3, <3>1
    <2> QED BY <1>0, <2>1, <2>2, <2>3, <2>4
        DEF Cursor, SelectionIsShown, PageIsShown, selected_global_index
  <1>5. CASE prev_page
    <2>1. page' = page - 1 /\ selected' = 0 /\ page > 0 /\ UNCHANGED <<identities, users, user_selected>>
      BY <1>5 DEF prev_page
    <2>2. page * PAGE_SIZE < Len(identities)
      BY <1>0, <1>1, <2>1 DEF Cursor, PageIsShown
    <2>3. page' \in Nat /\ page' * PAGE_SIZE <= page * PAGE_SIZE /\ page' * PAGE_SIZE \in Nat
      BY <1>1, <2>1, PagesGrow
    <2>4. page' * PAGE_SIZE < Len(identities') /\ page' * PAGE_SIZE + 0 < Len(identities')
      BY <1>1, <2>1, <2>2, <2>3
    <2> QED BY <1>0, <2>1, <2>4
        DEF Cursor, SelectionIsShown, PageIsShown, selected_global_index
  <1>6. CASE next_page
    <2>1. page' = page + 1 /\ selected' = 0 /\ page + 1 < total_pages(identities)
          /\ UNCHANGED <<identities, users, user_selected>>
      BY <1>6 DEF next_page
    <2>2. page' * PAGE_SIZE < Len(identities)
      BY <1>0, <1>1, <2>1, PageBegins DEF TypeOK
    <2>3. page' * PAGE_SIZE \in Nat
      BY <1>1, <2>1, PagesGrow
    <2> QED BY <1>0, <2>1, <2>2, <2>3
        DEF Cursor, SelectionIsShown, PageIsShown, selected_global_index
  <1>7. CASE prev_row
    <2>1. selected # None /\ selected' = selected - 1 /\ selected > 0
          /\ UNCHANGED <<identities, page, users, user_selected>>
      BY <1>7 DEF prev_row
    <2>2. page' * PAGE_SIZE + selected' < Len(identities')
      BY <1>1, <1>2, <2>1
    <2> QED BY <1>0, <2>1, <2>2
        DEF Cursor, SelectionIsShown, PageIsShown, selected_global_index
  <1>8. CASE next_row
    <2>1. page * PAGE_SIZE + selected' < Len(identities)
      BY <1>0, <1>8, NextRowIs
    <2>2. UNCHANGED <<identities, page, users, user_selected>>
      BY <1>8 DEF next_row
    <2> QED BY <1>0, <2>1, <2>2
        DEF Cursor, SelectionIsShown, PageIsShown, selected_global_index
  <1>9. CASE move_user
    <2>1. user_selected' < Len(users)
      <3>1. Len(users) \in Nat
        BY <1>0, LenProperties DEF TypeOK
      <3> QED BY <1>9, <3>1 DEF move_user
    <2>2. UNCHANGED <<identities, page, selected, users>>
      BY <1>9 DEF move_user
    <2> QED BY <1>0, <2>1, <2>2
        DEF Cursor, SelectionIsShown, PageIsShown, selected_global_index
  <1>10. CASE toggle_selected_replied
    <2>1. call.confirm \in BOOLEAN /\ call.index \in DOMAIN identities
      BY <1>0, <1>10, CallIs DEF toggle_selected_replied, TypeOK, DecisionsFit
    <2>2. Len(identities') = Len(identities)
      BY <1>0, <1>10, <2>1, ToggleShows DEF toggle_selected_replied, TypeOK
    <2> QED BY <1>0, <1>10, <2>2, CursorStays DEF toggle_selected_replied
  <1>11. CASE toggle_user_approval_replied
    <2>1. Len(identities') = Len(identities)
      BY <1>0, <1>11, ApprovalShows
    <2> QED BY <1>0, <1>11, <2>1, CursorStays DEF toggle_user_approval_replied
  <1>12. CASE Relaunch
    <2>1. selected' = None /\ user_selected' = None /\ page' = 0
      BY <1>12 DEF Relaunch
    <2> QED BY <2>1 DEF Cursor, SelectionIsShown, PageIsShown
  <1>13. CASE UNCHANGED lists
    BY <1>0, <1>13, CursorStays DEF lists
  <1>14. CASE \/ Answer \/ Others \/ fetch_all_fails \/ delete_replied
              \/ toggle_user_deleted_replied \/ export_replied \/ import_replied
    <2>1. UNCHANGED lists
      BY <1>14 DEF Answer, Served, Answer_lost, Not_served, Others, fetch_all_fails, delete_replied,
                   toggle_user_deleted_replied, export_replied, import_replied, screen
    <2> QED BY <1>13, <2>1
  <1>15. CASE \/ Tab \/ toggle_selected \/ arm_delete \/ Delete_answer \/ toggle_user_approval
              \/ toggle_user_deleted \/ Export_key \/ Export_answer \/ Import_key
    <2>1. UNCHANGED lists
      BY <1>15 DEF Tab, toggle_selected, arm_delete, Delete_answer, toggle_user_approval,
                   toggle_user_deleted, Export_key, Export_answer, Import_key, screen
    <2> QED BY <1>13, <2>1
  <1>16. CASE UNCHANGED vars
    BY <1>13, <1>16 DEF vars, screen
  <1> QED BY <1>3, <1>4, <1>5, <1>6, <1>7, <1>8, <1>9, <1>10, <1>11, <1>12, <1>14, <1>15, <1>16
      DEF Next, Press, Continue

-----------------------------------------------------------------------------
(* One question at a time *)

LEMMA QuestionsPreserved == IInv /\ [Next]_vars => Questions'
  <1> SUFFICES ASSUME IInv, [Next]_vars
               PROVE  Questions'
    OBVIOUS
  <1>0. TypeOK /\ Questions /\ AnswersFit
    BY DEF IInv, Knowledge
  <1> USE DEF Questions, OneQuestionAtATime, QuestionsWait
  \* No question is on while a request is under way or a key is read.
  <1>1. call # Reading => pending_delete = None /\ pending_export = FALSE
    BY <1>0 DEF TypeOK
  <1>2. CASE Answer
    <2>1. UNCHANGED <<tab, modals, call>>
      BY <1>2 DEF Answer, Served, Answer_lost, Not_served, screen
    <2> QED BY <1>0, <2>1 DEF modals
  <1>3. CASE Others
    <2>1. UNCHANGED <<tab, modals, call>>
      BY <1>3 DEF Others, screen
    <2> QED BY <1>0, <2>1 DEF modals
  <1>4. CASE Continue
    <2>1. call # Reading
      BY <1>0, <1>4, CallIs
      DEF Continue, fetch_all_ok, fetch_all_fails, Replied, fetch_users_replied,
          toggle_selected_replied, delete_replied, toggle_user_approval_replied,
          toggle_user_deleted_replied, export_replied, import_replied, AnswersFit
    <2>2. UNCHANGED <<pending_delete, pending_export>>
      BY <1>4
      DEF Continue, fetch_all_ok, fetch_all_fails, fetch_users_replied,
          toggle_selected_replied, delete_replied, toggle_user_approval_replied,
          toggle_user_deleted_replied, export_replied, import_replied, screen, modals
    <2> QED BY <1>1, <2>1, <2>2
  <1>5. CASE \/ Tab \/ prev_page \/ next_page \/ prev_row \/ next_row \/ move_user
             \/ toggle_selected \/ toggle_user_approval \/ toggle_user_deleted \/ Import_key
    <2>1. pending_delete = None /\ ~pending_export
      BY <1>5 DEF Tab, prev_page, next_page, prev_row, next_row, move_user, toggle_selected,
                  toggle_user_approval, toggle_user_deleted, Import_key, Key
    <2>2. UNCHANGED <<pending_delete, pending_export>>
      BY <1>5 DEF Tab, prev_page, next_page, prev_row, next_row, move_user, toggle_selected,
                  toggle_user_approval, toggle_user_deleted, Import_key, screen, modals
    <2> QED BY <2>1, <2>2
  <1>6. CASE arm_delete
    <2>1. TABS[tab + 1] = "Devices" /\ ~pending_export /\ ~backend_down /\ call = Reading
      BY <1>6 DEF arm_delete, Key
    <2>2. UNCHANGED <<tab, pending_export, backend_down, call>>
      BY <1>6 DEF arm_delete
    <2> QED BY <2>1, <2>2
  <1>7. CASE Delete_answer
    <2>1. pending_delete' = None /\ pending_export' = FALSE
      BY <1>0, <1>7 DEF Delete_answer, TypeOK
    <2> QED BY <2>1
  <1>8. CASE Export_key
    <2>1. TABS[tab + 1] = "Export" /\ pending_delete = None /\ ~backend_down /\ call = Reading
          /\ ~pending_export
      BY <1>8 DEF Export_key, Key
    <2>2. UNCHANGED <<tab, pending_delete, backend_down>>
      BY <1>8 DEF Export_key
    <2>3. (pending_export' = TRUE /\ UNCHANGED call) \/ UNCHANGED pending_export
      BY <1>8 DEF Export_key
    <2> QED BY <2>1, <2>2, <2>3
  <1>9. CASE Export_answer
    <2>1. pending_delete' = None /\ pending_export' = FALSE
      BY <1>9 DEF Export_answer
    <2> QED BY <2>1
  <1>10. CASE Relaunch
    <2>1. pending_delete' = None /\ pending_export' = FALSE
      BY <1>10 DEF Relaunch
    <2> QED BY <2>1
  <1>11. CASE UNCHANGED vars
    BY <1>0, <1>11 DEF vars, screen, modals
  <1> HIDE DEF Questions, OneQuestionAtATime, QuestionsWait
  <1> QED BY <1>2, <1>3, <1>4, <1>5, <1>6, <1>7, <1>8, <1>9, <1>10, <1>11 DEF Next, Press

-----------------------------------------------------------------------------
(* What the console shows and what the server has *)

\* The columns when no decision is being shown.
Plain ==
    \A i \in DOMAIN identities :
        LET d == identities[i].uuid
        IN Known(d) => /\ identities[i].user_id = rows[d].user_id
                       /\ identities[i].confirmed = rows[d].confirmed

LEMMA ColumnsArePlain ==
    ASSUME ColumnsFit, Succeeded => call.op \notin {"fetch_all", "toggle", "approve"}
    PROVE  Plain
  BY DEF ColumnsFit, Plain, Decided

\* A step of the console that decides nothing and to which nothing was left to show.
LEMMA NothingDecided ==
    ASSUME Knowledge, Plain, UNCHANGED <<rows, stale, identities>>,
           reply' = None, call'.op \notin {"toggle", "approve"}
    PROVE  Knowledge'
  <1>1. ~Succeeded'
    BY DEF Succeeded
  <1>2. AnswersFit' /\ ListsAreDistinct'
    BY <1>1 DEF Knowledge, AnswersFit, ListsAreDistinct, Distinct
  <1>3. ColumnsFit'
    BY <1>1 DEF ColumnsFit, Plain, Known
  <1>4. DecisionsFit' /\ DecisionsReachTheUsersDevices'
    BY <1>1 DEF DecisionsFit, Decided, DecisionsReachTheUsersDevices
  <1> QED BY <1>2, <1>3, <1>4 DEF Knowledge

\* The server, or others, touch devices of which the console can then know nothing.
LEMMA OthersTouch ==
    ASSUME TypeOK, Knowledge, UNCHANGED <<identities, call>>,
           stale \subseteq stale', \A d \in Device \ stale' : rows'[d] = rows[d],
           \/ reply' = reply
           \/ reply = None /\ reply' # None /\ reply'.status # "ok" /\ call # Reading
    PROVE  Knowledge'
  <1>1. /\ Succeeded' => Succeeded /\ reply' = reply
        /\ Succeeded /\ reply' = reply => Succeeded'
    BY DEF Succeeded
  <1>2. ~Succeeded' => Succeeded = FALSE
    BY <1>1 DEF Succeeded
  <1>3. \A d \in Device : Known(d)' => Known(d) /\ rows'[d] = rows[d]
    BY DEF Known
  <1>4. AnswersFit'
    BY <1>1 DEF Knowledge, AnswersFit
  <1>5. ListsAreDistinct'
    BY <1>1 DEF Knowledge, ListsAreDistinct, Distinct
  <1>6. ColumnsFit'
    <2>1. CASE Succeeded' /\ call.op = "fetch_all"
      <3>1. reply' = reply /\ Current(reply.devices) /\ reply.devices \in Seq(Shown)
        BY <1>1, <2>1 DEF Knowledge, ColumnsFit, AnswersFit
      <3>2. ASSUME NEW i \in DOMAIN reply.devices, Known(reply.devices[i].uuid)'
            PROVE  reply.devices[i] = Entry(reply.devices[i].uuid)'
        <4>1. reply.devices[i] \in Shown
          BY <3>1, ElementOfSeq, LenProperties
        <4>2. reply.devices[i].uuid \in Device
          BY <4>1 DEF Shown
        <4>3. Known(reply.devices[i].uuid) /\ rows'[reply.devices[i].uuid] = rows[reply.devices[i].uuid]
          BY <1>3, <3>1, <3>2, <4>2
        <4> QED BY <3>1, <4>3 DEF Current, Entry
      <3> QED BY <2>1, <3>1, <3>2 DEF ColumnsFit, Current
    <2>2. CASE ~(Succeeded' /\ call.op = "fetch_all")
      <3>1. ~(Succeeded /\ call.op = "fetch_all")
        BY <1>1, <1>2, <2>2
      <3>2. ASSUME NEW i \in DOMAIN identities, Known(identities[i].uuid)'
            PROVE  /\ identities[i].user_id = rows'[identities[i].uuid].user_id
                   /\ \/ Decided(identities[i].uuid)'
                      \/ identities[i].confirmed = rows'[identities[i].uuid].confirmed
        <4>1. identities[i].uuid \in Device
          BY Lines DEF TypeOK
        <4>2. Known(identities[i].uuid) /\ rows'[identities[i].uuid] = rows[identities[i].uuid]
          BY <1>3, <3>2, <4>1
        <4>3. /\ identities[i].user_id = rows[identities[i].uuid].user_id
              /\ Decided(identities[i].uuid) \/ identities[i].confirmed = rows[identities[i].uuid].confirmed
          BY <3>1, <4>2 DEF Knowledge, ColumnsFit
        <4>4. Decided(identities[i].uuid) => Decided(identities[i].uuid)'
          BY <1>2 DEF Decided
        <4> QED BY <4>2, <4>3, <4>4
      <3> QED BY <2>2, <3>2 DEF ColumnsFit
    <2> QED BY <2>1, <2>2
  <1>7. DecisionsFit'
    <2>1. ASSUME NEW d \in Device, Decided(d)', d \notin stale'
          PROVE  rows'[d] # None /\ rows'[d].confirmed = call'.confirm
      <3>1. Decided(d) /\ d \notin stale /\ rows'[d] = rows[d]
        BY <1>1, <2>1 DEF Decided
      <3> QED BY <3>1 DEF Knowledge, DecisionsFit
    <2> QED BY <2>1 DEF Knowledge, DecisionsFit
  <1>8. DecisionsReachTheUsersDevices'
    <2>1. ASSUME call.op = "approve", NEW d \in call.acked, d \notin stale'
          PROVE  rows'[d] = [user_id |-> call.user, confirmed |-> call.confirm]
      <3>1. d \in Device
        BY <2>1, CallIs DEF TypeOK
      <3> QED BY <2>1, <3>1 DEF Knowledge, DecisionsReachTheUsersDevices
    <2> QED BY <2>1 DEF DecisionsReachTheUsersDevices
  <1> QED BY <1>4, <1>5, <1>6, <1>7, <1>8 DEF Knowledge

\* Whose rows a request changes.
LEMMA CarriedOut ==
    ASSUME TypeOK, NEW status, NEW touched, Carry_out(status, touched)
    PROVE  /\ \A d \in Device \ touched : rows'[d] = rows[d]
           /\ call.op \notin {"toggle", "approve", "delete", "import"} => rows' = rows
           /\ call.op \in {"toggle", "approve", "delete"} =>
                 call.uuid \in Device /\ touched = {call.uuid}
           /\ call.op \in {"toggle", "approve"} =>
                 \/ status = "refused" /\ rows' = rows
                 \/ /\ status = "ok" /\ rows[call.uuid] # None
                    /\ rows'[call.uuid] = [rows[call.uuid] EXCEPT !.confirmed = call.confirm]
           /\ call.op = "delete" => rows'[call.uuid] = None
  <1>1. CASE call.op \in {"toggle", "approve"}
    <2>1. call.uuid \in Device
      BY <1>1, CallIs DEF TypeOK
    <2> QED BY <1>1, <2>1 DEF Carry_out, TypeOK
  <1>2. CASE call.op = "delete"
    <2>1. call.uuid \in Device
      BY <1>2, CallIs DEF TypeOK
    <2> QED BY <1>2, <2>1 DEF Carry_out, TypeOK
  <1>3. CASE call.op \notin {"toggle", "approve", "delete"}
    BY <1>3 DEF Carry_out
  <1> QED BY <1>1, <1>2, <1>3

LEMMA ServedKeeps ==
    ASSUME IInv, Served
    PROVE  Knowledge'
  <1>0. TypeOK /\ Knowledge
    BY DEF IInv
  <1>1. call # Reading /\ reply = None /\ UNCHANGED <<identities, call>>
    BY DEF Served, screen, lists
  <1>2. Plain
    BY <1>0, <1>1, ColumnsArePlain DEF Knowledge, Succeeded
  <1>3. PICK status \in {"ok", "refused"}, touched \in {{}, Device} \cup {{d} : d \in Device} :
             /\ Carry_out(status, touched)
             /\ IF call.op = "fetch_all"
                THEN /\ reply' = [status |-> "ok", devices |-> find_all]
                     /\ stale' = {}
                ELSE /\ reply' = IF call.op = "fetch_users" THEN [status |-> "ok", users |-> list_users]
                                 ELSE [status |-> status]
                     /\ stale' = IF call.op = "import" THEN Device ELSE stale
    BY DEF Served
  <1>4. reply' # None
    <2>1. reply' \in Answers
      <3>1. [status |-> status] \in Answers
        BY AnswersHave
      <3>2. [status |-> "ok", devices |-> find_all] \in Answers
        BY <1>0, ListingIs, AnswersHave
      <3>3. [status |-> "ok", users |-> list_users] \in Answers
        BY <1>0, UsersListed, AnswersHave
      <3> QED BY <1>3, <3>1, <3>2, <3>3
    <2> QED BY <2>1, NoneIsNoRecord
  <1>5. CASE call.op = "fetch_all"
    <2>1. reply' = [status |-> "ok", devices |-> find_all] /\ stale' = {} /\ rows' = rows
      BY <1>0, <1>3, <1>5, CarriedOut
    <2>2. /\ find_all \in Seq(Shown) /\ Distinct(find_all)
          /\ \A i \in DOMAIN find_all : find_all[i] = Entry(find_all[i].uuid)
      BY <1>0, ListingIs
    <2>3. reply'.devices = find_all /\ reply'.status = "ok" /\ Succeeded'
      BY <1>4, <2>1 DEF Succeeded
    <2>4. AnswersFit'
      BY <1>1, <1>5, <2>1, <2>2 DEF AnswersFit
    <2>5. ListsAreDistinct'
      BY <1>0, <1>1, <2>2, <2>3 DEF Knowledge, ListsAreDistinct, Distinct
    <2>6. ColumnsFit'
      <3>1. PICK listing : listing = find_all
        OBVIOUS
      <3>2. \A i \in DOMAIN listing : listing[i] = Entry(listing[i].uuid)'
        BY <2>1, <2>2, <3>1 DEF Entry
      <3>3. reply'.devices = listing
        BY <2>3, <3>1
      <3> QED BY <1>1, <1>5, <2>3, <3>2, <3>3 DEF ColumnsFit, Current
    <2>7. DecisionsFit' /\ DecisionsReachTheUsersDevices'
      BY <1>1, <1>5 DEF DecisionsFit, Decided, DecisionsReachTheUsersDevices
    <2> QED BY <2>4, <2>5, <2>6, <2>7 DEF Knowledge
  <1>6. CASE call.op \in {"toggle", "approve"}
    <2>1. reply' = [status |-> status] /\ stale' = stale /\ call.uuid \in Device
      BY <1>0, <1>3, <1>6, CarriedOut
    <2>2. Succeeded' <=> status = "ok"
      BY <1>4, <2>1 DEF Succeeded
    <2>3. \A d \in Device : d # call.uuid => rows'[d] = rows[d]
      BY <1>0, <1>3, <1>6, CarriedOut
    <2>4. \/ ~Succeeded' /\ rows' = rows
          \/ /\ Succeeded' /\ rows[call.uuid] # None
             /\ rows'[call.uuid] = [rows[call.uuid] EXCEPT !.confirmed = call.confirm]
      BY <1>0, <1>3, <1>6, <2>2, CarriedOut
    <2>5. rows[call.uuid] # None => rows[call.uuid] \in Row
      BY <1>0, <2>1 DEF TypeOK
    <2>6. Succeeded' => /\ rows[call.uuid] \in Row
                        /\ rows'[call.uuid] \in Row
                        /\ rows'[call.uuid].confirmed = call.confirm
                        /\ rows'[call.uuid].user_id = rows[call.uuid].user_id
      <3>1. call.confirm \in BOOLEAN
        BY <1>0, <1>6, CallIs DEF TypeOK
      <3> QED BY <2>4, <2>5, <3>1 DEF Row
    <2>7. Succeeded' => rows'[call.uuid] # None
      BY <2>6, NoneIsNoRecord
    <2>8. AnswersFit' /\ ListsAreDistinct'
      BY <1>0, <1>1, <1>6 DEF Knowledge, AnswersFit, ListsAreDistinct, Distinct
    <2>9. ColumnsFit'
      <3>1. ASSUME NEW i \in DOMAIN identities, Known(identities[i].uuid)'
            PROVE  /\ identities[i].user_id = rows'[identities[i].uuid].user_id
                   /\ \/ Decided(identities[i].uuid)'
                      \/ identities[i].confirmed = rows'[identities[i].uuid].confirmed
        <4>1. identities[i].uuid \in Device
          BY <1>0, Lines DEF TypeOK
        <4>2. CASE rows'[identities[i].uuid] = rows[identities[i].uuid]
          BY <1>1, <1>2, <2>1, <3>1, <4>2 DEF Plain, Known
        <4>3. CASE identities[i].uuid = call.uuid /\ Succeeded'
          <5>1. Known(identities[i].uuid)
            BY <1>1, <2>1, <2>4, <3>1, <4>3 DEF Known
          <5> QED BY <1>1, <1>2, <1>6, <2>6, <4>3, <5>1 DEF Plain, Decided
        <4> QED BY <2>3, <2>4, <4>1, <4>2, <4>3
      <3> QED BY <1>1, <1>6, <3>1 DEF ColumnsFit
    <2>10. DecisionsFit'
      <3>1. \A d \in Device : Decided(d)' =>
               rows'[d] # None /\ rows'[d].confirmed = call'.confirm
        BY <1>1, <2>6, <2>7 DEF Decided
      <3> QED BY <1>0, <1>1, <3>1 DEF Knowledge, DecisionsFit
    <2>11. DecisionsReachTheUsersDevices'
      <3>1. ASSUME call.op = "approve", NEW d \in call.acked, d \notin stale
            PROVE  rows'[d] = [user_id |-> call.user, confirmed |-> call.confirm]
        <4>1. rows[d] = [user_id |-> call.user, confirmed |-> call.confirm] /\ d \in Device
          BY <1>0, <3>1, CallIs DEF Knowledge, DecisionsReachTheUsersDevices, TypeOK
        <4> QED BY <2>3, <2>4, <4>1
      <3> QED BY <1>1, <2>1, <3>1 DEF DecisionsReachTheUsersDevices
    <2> QED BY <2>8, <2>9, <2>10, <2>11 DEF Knowledge
  <1>7. CASE call.op \notin {"fetch_all", "toggle", "approve"}
    <2>1. stale \subseteq stale'
      BY <1>0, <1>3, <1>7 DEF TypeOK
    <2>2. \A d \in Device \ stale' : rows'[d] = rows[d] \/ rows'[d] = None
      BY <1>0, <1>3, <1>7, CarriedOut
    <2>3. AnswersFit'
      <3>1. call.op = "fetch_users" => reply' \in [status : {"ok"}, users : Seq(User)]
        BY <1>0, <1>3, UsersListed
      <3> QED BY <1>1, <1>7, <3>1 DEF AnswersFit
    <2>4. ListsAreDistinct'
      BY <1>0, <1>1, <1>7 DEF Knowledge, ListsAreDistinct, Distinct
    <2>5. ColumnsFit'
      <3>1. ASSUME NEW i \in DOMAIN identities, Known(identities[i].uuid)'
            PROVE  /\ identities[i].user_id = rows'[identities[i].uuid].user_id
                   /\ identities[i].confirmed = rows'[identities[i].uuid].confirmed
        <4>1. identities[i].uuid \in Device
          BY <1>0, Lines DEF TypeOK
        <4>2. rows'[identities[i].uuid] = rows[identities[i].uuid]
          BY <1>1, <2>2, <3>1, <4>1 DEF Known
        <4> QED BY <1>1, <1>2, <2>1, <3>1, <4>2 DEF Plain, Known
      <3> QED BY <1>1, <1>7, <3>1 DEF ColumnsFit
    <2>6. DecisionsFit' /\ DecisionsReachTheUsersDevices'
      BY <1>1, <1>7 DEF DecisionsFit, Decided, DecisionsReachTheUsersDevices
    <2> QED BY <2>3, <2>4, <2>5, <2>6 DEF Knowledge
  <1> QED BY <1>5, <1>6, <1>7

\* A key that decides something.
LEMMA NewDecision ==
    ASSUME Knowledge, Plain, UNCHANGED <<rows, stale, identities>>, reply' = None,
           call'.op \in {"toggle", "approve"}, call'.op = "approve" => call'.acked = {},
           DecisionsFit'
    PROVE  Knowledge'
  <1>1. ~Succeeded'
    BY DEF Succeeded
  <1>2. AnswersFit' /\ ListsAreDistinct'
    BY <1>1 DEF Knowledge, AnswersFit, ListsAreDistinct, Distinct
  <1>3. ColumnsFit'
    BY <1>1 DEF ColumnsFit, Plain, Known
  <1>4. DecisionsReachTheUsersDevices'
    BY DEF DecisionsReachTheUsersDevices
  <1> QED BY <1>2, <1>3, <1>4 DEF Knowledge

\* The answer to one of a user's devices.
LEMMA ApprovalKeeps ==
    ASSUME TypeOK, Knowledge, toggle_user_approval_replied
    PROVE  Knowledge'
  <1>0. AnswersFit /\ ColumnsFit /\ DecisionsFit /\ ListsAreDistinct
    BY DEF Knowledge
  <1> DEFINE acked == IF reply.status = "ok" THEN call.acked \cup {call.uuid} ELSE call.acked
  <1>1. call.op = "approve" /\ reply # None /\ reply' = None /\ UNCHANGED <<rows, stale>>
    BY DEF toggle_user_approval_replied, Send, server
  <1>2. call \in [op : {"approve"}, user : User, confirm : BOOLEAN, uuid : Device,
                  todo : SUBSET Nat, acked : SUBSET Device]
    BY <1>1, CallIs DEF TypeOK
  <1>3. call' = IF call.todo = {} THEN fetch_all("read")
                ELSE [call EXCEPT !.uuid = identities[First(call.todo)].uuid,
                                  !.todo = @ \ {First(@)}, !.acked = acked]
    BY DEF toggle_user_approval_replied, Send
  <1>4. /\ DOMAIN identities' = DOMAIN identities
        /\ \A i \in DOMAIN identities :
              identities'[i] = IF reply.status = "ok" /\ identities[i].uuid = call.uuid
                               THEN [identities[i] EXCEPT !.confirmed = call.confirm]
                               ELSE identities[i]
    BY ApprovalShows
  <1>5. \A i \in DOMAIN identities :
           /\ identities'[i].uuid = identities[i].uuid
           /\ identities'[i].user_id = identities[i].user_id
           /\ identities'[i].confirmed = IF reply.status = "ok" /\ identities[i].uuid = call.uuid
                                         THEN call.confirm ELSE identities[i].confirmed
    BY <1>4, Lines DEF TypeOK, Shown
  <1>6. ~Succeeded'
    BY <1>1 DEF Succeeded
  <1> HIDE DEF acked
  <1>7. /\ call.todo = {} => call'.op = "fetch_all"
        /\ call.todo # {} => /\ call'.op = "approve" /\ call'.user = call.user
                             /\ call'.confirm = call.confirm /\ call'.acked = acked
                             /\ call'.uuid = identities[First(call.todo)].uuid
                             /\ call'.todo = call.todo \ {First(call.todo)}
    BY <1>2, <1>3 DEF fetch_all
  <1>8. AnswersFit'
    BY <1>1, <1>6 DEF AnswersFit
  <1>9. ListsAreDistinct'
    BY <1>0, <1>4, <1>5, <1>6 DEF ListsAreDistinct, Distinct
  <1>10. \A i \in DOMAIN identities : Known(identities[i].uuid) =>
            identities[i].user_id = rows[identities[i].uuid].user_id
    BY <1>0, <1>1 DEF ColumnsFit
  <1>11. ASSUME reply.status = "ok", call.uuid \notin stale
         PROVE  rows[call.uuid] = [user_id |-> call.user, confirmed |-> call.confirm]
    <2>1. call.uuid \in Device /\ Decided(call.uuid)
      BY <1>1, <1>2, <1>11 DEF Decided, Succeeded
    <2>2. rows[call.uuid] # None /\ rows[call.uuid].confirmed = call.confirm
      BY <1>0, <1>11, <2>1 DEF DecisionsFit
    <2>3. PICK i \in DOMAIN identities : identities[i].user_id = call.user
                                         /\ identities[i].uuid = call.uuid
      BY <1>0, <1>1 DEF DecisionsFit
    <2>4. rows[call.uuid].user_id = call.user
      BY <1>10, <1>11, <2>2, <2>3 DEF Known
    <2>5. rows[call.uuid] \in Row
      BY <2>1, <2>2 DEF TypeOK
    <2> QED BY <2>2, <2>4, <2>5 DEF Row
  <1>12. ASSUME NEW i \in DOMAIN identities, Known(identities[i].uuid)
         PROVE  /\ identities'[i].user_id = rows[identities[i].uuid].user_id
                /\ identities'[i].confirmed = rows[identities[i].uuid].confirmed
    <2>1. /\ identities[i].user_id = rows[identities[i].uuid].user_id
          /\ Decided(identities[i].uuid) \/ identities[i].confirmed = rows[identities[i].uuid].confirmed
      BY <1>0, <1>1, <1>12 DEF ColumnsFit
    <2>2. CASE reply.status = "ok" /\ identities[i].uuid = call.uuid
      <3>1. rows[call.uuid].confirmed = call.confirm
        BY <1>11, <1>12, <2>2 DEF Known
      <3> QED BY <1>5, <2>1, <2>2, <3>1
    <2>3. CASE ~(reply.status = "ok" /\ identities[i].uuid = call.uuid)
      <3>1. ~Decided(identities[i].uuid)
        BY <2>3 DEF Decided, Succeeded
      <3> QED BY <1>5, <2>1, <2>3, <3>1
    <2> QED BY <2>2, <2>3
  <1>13. ColumnsFit'
    <2>1. \A i \in DOMAIN identities' : Known(identities[i].uuid) =>
             /\ identities'[i].user_id = rows[identities[i].uuid].user_id
             /\ identities'[i].confirmed = rows[identities[i].uuid].confirmed
      BY <1>4, <1>12
    <2> QED BY <1>1, <1>4, <1>5, <1>6, <2>1 DEF ColumnsFit, Known
  <1>14. DecisionsFit'
    <2>1. CASE call.todo = {}
      BY <1>6, <1>7, <2>1 DEF DecisionsFit, Decided
    <2>2. CASE call.todo # {}
      <3>1. First(call.todo) \in call.todo
        BY <1>2, <2>2, FirstIsLeast
      <3>2. call.todo \subseteq {i \in DOMAIN identities : identities[i].user_id = call.user}
        BY <1>0, <1>1 DEF DecisionsFit
      <3>3. call'.todo \subseteq {i \in DOMAIN identities' : identities'[i].user_id = call'.user}
        BY <1>4, <1>5, <1>7, <2>2, <3>2
      <3>4. First(call.todo) \in DOMAIN identities' /\ identities'[First(call.todo)].user_id = call'.user
            /\ identities'[First(call.todo)].uuid = call'.uuid
        BY <1>4, <1>5, <1>7, <2>2, <3>1, <3>2
      <3> QED BY <1>6, <1>7, <2>2, <3>3, <3>4 DEF DecisionsFit, Decided
    <2> QED BY <2>1, <2>2
  <1>15. DecisionsReachTheUsersDevices'
    <2>1. ASSUME call'.op = "approve", NEW d \in call'.acked, d \notin stale
          PROVE  rows[d] = [user_id |-> call'.user, confirmed |-> call'.confirm]
      <3>1. call'.user = call.user /\ call'.confirm = call.confirm /\ d \in acked
        BY <1>7, <2>1
      <3>2. CASE d \in call.acked
        BY <1>1, <2>1, <3>1, <3>2 DEF Knowledge, DecisionsReachTheUsersDevices
      <3>3. CASE d \notin call.acked
        <4>1. d = call.uuid /\ reply.status = "ok"
          BY <3>1, <3>3 DEF acked
        <4> QED BY <1>11, <2>1, <3>1, <4>1
      <3> QED BY <3>2, <3>3
    <2> QED BY <1>1, <2>1 DEF DecisionsReachTheUsersDevices
  <1> QED BY <1>8, <1>9, <1>13, <1>14, <1>15 DEF Knowledge

LEMMA KnowledgePreserved == IInv /\ [Next]_vars => Knowledge'
  <1> SUFFICES ASSUME IInv, [Next]_vars
               PROVE  Knowledge'
    OBVIOUS
  <1>0. TypeOK /\ Knowledge /\ AnswersFit /\ ColumnsFit /\ DecisionsFit
        /\ ListsAreDistinct /\ SelectionIsShown
    BY DEF IInv, Knowledge, Cursor
  <1>1. call = Reading => ~Succeeded /\ reply = None /\ Plain
    <2>1. call = Reading => reply = None
      BY <1>0 DEF AnswersFit
    <2> QED BY <1>0, <2>1, ColumnsArePlain DEF Succeeded
  <1>2. CASE Served
    BY <1>2, ServedKeeps
  <1>3. CASE Answer_lost
    <2>1. PICK status \in {"ok", "refused"}, touched \in {{}, Device} \cup {{d} : d \in Device} :
             Carry_out(status, touched) /\ stale' = stale \cup touched
      BY <1>3 DEF Answer_lost
    <2>2. \A d \in Device \ stale' : rows'[d] = rows[d]
      BY <1>0, <2>1, CarriedOut
    <2>3. reply' # None /\ reply'.status # "ok"
      <3>1. reply' = [status |-> "down"]
        BY <1>3 DEF Answer_lost
      <3> QED BY <3>1, AnswersHave, NoneIsNoRecord
    <2>4. UNCHANGED <<identities, call>> /\ reply = None /\ call # Reading
      BY <1>3 DEF Answer_lost, screen, lists
    <2> QED BY <1>0, <2>1, <2>2, <2>3, <2>4, OthersTouch
  <1>4. CASE Not_served
    <2>1. reply' # None /\ reply'.status # "ok"
      <3>1. PICK status \in {"refused", "down"} : reply' = [status |-> status]
        BY <1>4 DEF Not_served
      <3> QED BY <3>1, AnswersHave, NoneIsNoRecord
    <2>2. UNCHANGED <<identities, call, rows, stale>> /\ reply = None /\ call # Reading
      BY <1>4 DEF Not_served, screen, lists, server
    <2> QED BY <1>0, <2>1, <2>2, OthersTouch
  <1>5. CASE Others
    <2>1. UNCHANGED <<identities, call, reply>>
      BY <1>5 DEF Others, screen, lists
    <2> QED BY <1>0, <1>5, <2>1, OthersTyped, OthersTouch
  <1>6. CASE fetch_all_ok
    <2>1. PICK entries \in {reply.devices, <<>>} : identities' = entries
      BY <1>6 DEF fetch_all_ok
    <2>2. Succeeded /\ call.op = "fetch_all" /\ reply.devices \in Seq(Shown)
      BY <1>0, <1>6, ListingAnswer DEF fetch_all_ok, Replied
    <2>3. reply' = None /\ call' \in {Reading, fetch_users("first_page"), fetch_users("read")}
      BY <1>6 DEF fetch_all_ok, Send
    <2>4. call'.op \notin {"fetch_all", "toggle", "approve"} /\ ~Succeeded'
      BY <2>3 DEF Reading, fetch_users, Succeeded
    <2>5. UNCHANGED <<rows, stale>>
      BY <1>6 DEF fetch_all_ok, Replied, server
    <2>6. AnswersFit'
      BY <2>3, <2>4 DEF AnswersFit
    <2>7. ListsAreDistinct'
      <3>1. Distinct(reply.devices) /\ Distinct(<<>>)
        BY <1>0, <2>2 DEF ListsAreDistinct, Distinct
      <3> QED BY <2>1, <2>4, <3>1 DEF ListsAreDistinct, Distinct
    <2>8. ColumnsFit'
      <3>1. CASE entries = <<>>
        BY <2>1, <2>4, <3>1 DEF ColumnsFit
      <3>2. CASE entries = reply.devices
        <4>1. Current(entries)
          BY <1>0, <2>2, <3>2 DEF ColumnsFit
        <4>2. \A i \in DOMAIN entries : Known(entries[i].uuid)' =>
                 /\ entries[i].user_id = rows[entries[i].uuid].user_id
                 /\ entries[i].confirmed = rows[entries[i].uuid].confirmed
          BY <2>5, <4>1 DEF Current, Known, Entry
        <4> QED BY <2>1, <2>4, <2>5, <4>2 DEF ColumnsFit
      <3> QED BY <2>1, <3>1, <3>2
    <2>9. DecisionsFit' /\ DecisionsReachTheUsersDevices'
      BY <2>4 DEF DecisionsFit, Decided, DecisionsReachTheUsersDevices
    <2> QED BY <2>6, <2>7, <2>8, <2>9 DEF Knowledge
  <1>7. CASE \/ fetch_all_fails \/ fetch_users_replied \/ delete_replied
             \/ toggle_user_deleted_replied \/ export_replied \/ import_replied
    <2>1. UNCHANGED <<rows, stale, identities>> /\ reply' = None
      BY <1>7
      DEF fetch_all_fails, fetch_users_replied, delete_replied, toggle_user_deleted_replied,
          export_replied, import_replied, Replied, Send, Back, server, screen, lists
    <2>2. Succeeded => call.op \notin {"fetch_all", "toggle", "approve"}
      BY <1>7
      DEF fetch_all_fails, fetch_users_replied, delete_replied, toggle_user_deleted_replied,
          export_replied, import_replied, Replied, Succeeded
    <2>3. call' \in {Reading, fetch_all("read"), fetch_all("import"),
                    fetch_users("read"), fetch_users("first_page")}
      BY <1>7
      DEF fetch_all_fails, fetch_users_replied, delete_replied, toggle_user_deleted_replied,
          export_replied, import_replied, Send, Back
    <2>4. call'.op \notin {"toggle", "approve"}
      BY <2>3 DEF Reading, fetch_all, fetch_users
    <2> QED BY <1>0, <2>1, <2>2, <2>4, ColumnsArePlain, NothingDecided
  <1>8. CASE toggle_selected_replied
    <2>1. call.op = "toggle" /\ reply # None /\ reply' = None /\ call' = Reading
          /\ UNCHANGED <<rows, stale>>
      BY <1>8 DEF toggle_selected_replied, Send, Back, server
    <2>2. /\ call.confirm \in BOOLEAN /\ call.index \in DOMAIN identities
          /\ identities[call.index].uuid = call.uuid /\ call.uuid \in Device
      BY <1>0, <2>1, CallIs DEF TypeOK, DecisionsFit
    <2>3. /\ DOMAIN identities' = DOMAIN identities
          /\ \A i \in DOMAIN identities :
                identities'[i] = IF reply.status = "ok" /\ i = call.index
                                 THEN [identities[i] EXCEPT !.confirmed = call.confirm]
                                 ELSE identities[i]
      BY <1>0, <1>8, <2>1, <2>2, ToggleShows DEF toggle_selected_replied, TypeOK
    <2>4. \A i \in DOMAIN identities :
             /\ identities'[i].uuid = identities[i].uuid
             /\ identities'[i].user_id = identities[i].user_id
             /\ identities'[i].confirmed = IF reply.status = "ok" /\ i = call.index
                                           THEN call.confirm ELSE identities[i].confirmed
      BY <1>0, <2>3, Lines DEF TypeOK, Shown
    <2>5. call'.op = "none" /\ ~Succeeded'
      BY <2>1 DEF Reading, Succeeded
    <2>6. AnswersFit' /\ DecisionsFit' /\ DecisionsReachTheUsersDevices'
      BY <2>1, <2>5 DEF AnswersFit, DecisionsFit, Decided, DecisionsReachTheUsersDevices
    <2>7. ListsAreDistinct'
      BY <1>0, <2>3, <2>4, <2>5 DEF ListsAreDistinct, Distinct
    <2>8. ASSUME NEW i \in DOMAIN identities, Known(identities[i].uuid)
          PROVE  /\ identities'[i].user_id = rows[identities[i].uuid].user_id
                 /\ identities'[i].confirmed = rows[identities[i].uuid].confirmed
      <3>1. /\ identities[i].user_id = rows[identities[i].uuid].user_id
            /\ Decided(identities[i].uuid) \/ identities[i].confirmed = rows[identities[i].uuid].confirmed
        BY <1>0, <2>1, <2>8 DEF ColumnsFit
      <3>2. CASE i = call.index /\ reply.status = "ok"
        <4>1. Decided(call.uuid) /\ call.uuid \notin stale
          BY <2>1, <2>2, <2>8, <3>2 DEF Decided, Succeeded, Known
        <4>2. rows[call.uuid].confirmed = call.confirm
          BY <1>0, <2>2, <4>1 DEF DecisionsFit
        <4> QED BY <2>2, <2>4, <3>1, <3>2, <4>2
      <3>3. CASE ~(i = call.index /\ reply.status = "ok")
        <4>1. ~Decided(identities[i].uuid)
          BY <1>0, <2>2, <3>3 DEF Decided, Succeeded, ListsAreDistinct, Distinct
        <4> QED BY <2>4, <3>1, <3>3, <4>1
      <3> QED BY <3>2, <3>3
    <2>9. ColumnsFit'
      <3>1. \A i \in DOMAIN identities' : Known(identities[i].uuid) =>
               /\ identities'[i].user_id = rows[identities[i].uuid].user_id
               /\ identities'[i].confirmed = rows[identities[i].uuid].confirmed
        BY <2>3, <2>8
      <3> QED BY <2>1, <2>3, <2>4, <2>5, <3>1 DEF ColumnsFit, Known
    <2> QED BY <2>6, <2>7, <2>9 DEF Knowledge
  <1>9. CASE toggle_user_approval_replied
    BY <1>0, <1>9, ApprovalKeeps
  <1>10. CASE toggle_selected
    <2> DEFINE index == selected_global_index + 1
    <2>1. index \in DOMAIN identities
      BY <1>0, <1>10, Selection DEF toggle_selected
    <2>2. call' = [op |-> "toggle", index |-> index, uuid |-> identities[index].uuid,
                   confirm |-> ~identities[index].confirmed] /\ reply' = None
      BY <1>10 DEF toggle_selected, Send
    <2>3. UNCHANGED <<rows, stale, identities>> /\ call = Reading
      BY <1>10 DEF toggle_selected, Key, server, screen, lists
    <2> HIDE DEF index
    <2>4. call'.op = "toggle" /\ call'.index = index /\ call'.uuid = identities[index].uuid
          /\ reply' = None
      BY <2>2
    <2>5. DecisionsFit'
      BY <2>1, <2>2, <2>3, <2>4 DEF DecisionsFit, Decided, Succeeded
    <2>6. Plain /\ UNCHANGED <<rows, stale, identities>>
      BY <1>1, <2>3
    <2>7. /\ call'.op \in {"toggle", "approve"} /\ (call'.op = "approve" => call'.acked = {})
          /\ reply' = None
      BY <2>4
    <2> QED BY <1>0, <2>5, <2>6, <2>7, NewDecision
  <1>11. CASE toggle_user_approval
    <2> DEFINE user == users[user_selected + 1]
               devices == Devices_of(user)
               all_confirmed == \A i \in devices : identities[i].confirmed
    <2>1. /\ devices \subseteq DOMAIN identities /\ devices \subseteq Nat /\ devices # {}
          /\ \A i \in devices : identities[i].user_id = user
      BY <1>0, <1>11, LenProperties DEF toggle_user_approval, Devices_of, TypeOK
    <2>2. First(devices) \in devices
      BY <2>1, FirstIsLeast
    <2>3. call' = [op |-> "approve", user |-> user, confirm |-> ~all_confirmed,
                   uuid |-> identities[First(devices)].uuid, todo |-> devices \ {First(devices)},
                   acked |-> {}] /\ reply' = None
      BY <1>11 DEF toggle_user_approval, Send
    <2>4. UNCHANGED <<rows, stale, identities>> /\ call = Reading
      BY <1>11 DEF toggle_user_approval, Key, server, screen, lists
    <2> HIDE DEF user, devices, all_confirmed
    <2>5. /\ call'.op = "approve" /\ call'.user = user /\ call'.acked = {}
          /\ call'.uuid = identities[First(devices)].uuid
          /\ call'.todo = devices \ {First(devices)}
      BY <2>3
    <2>6. DecisionsFit'
      BY <2>1, <2>2, <2>3, <2>4, <2>5 DEF DecisionsFit, Decided, Succeeded
    <2> QED BY <1>0, <1>1, <2>3, <2>4, <2>5, <2>6, NewDecision
  <1>12. CASE \/ Tab \/ prev_page \/ next_page \/ prev_row \/ next_row \/ move_user
              \/ arm_delete \/ Delete_answer \/ toggle_user_deleted
              \/ Export_key \/ Export_answer \/ Import_key
    <2>1. UNCHANGED <<rows, stale, identities>> /\ call = Reading
      BY <1>12
      DEF Tab, prev_page, next_page, prev_row, next_row, move_user, arm_delete, Delete_answer,
          toggle_user_deleted, Export_key, Export_answer, Import_key, Key, server, screen, lists
    <2>2. (call' = call /\ reply' = reply)
          \/ (reply' = None /\ call'.op \in {"delete", "toggle_user", "export", "import"})
      BY <1>12
      DEF Tab, prev_page, next_page, prev_row, next_row, move_user, arm_delete, Delete_answer,
          toggle_user_deleted, Export_key, Export_answer, Import_key, Send
    <2>3. reply' = None /\ call'.op \notin {"toggle", "approve"}
      BY <1>1, <2>1, <2>2 DEF Reading
    <2> QED BY <1>0, <1>1, <2>1, <2>3, NothingDecided
  <1>13. CASE Relaunch
    <2>1. identities' = <<>> /\ reply' = None /\ call'.op = "fetch_all"
      BY <1>13 DEF Relaunch, Send, fetch_all
    <2>2. ~Succeeded' /\ DOMAIN identities' = {}
      BY <2>1 DEF Succeeded
    <2> QED BY <2>1, <2>2
      DEF Knowledge, AnswersFit, ListsAreDistinct, Distinct, ColumnsFit, DecisionsFit, Decided,
          DecisionsReachTheUsersDevices
  <1>14. CASE UNCHANGED vars
    <2>1. UNCHANGED <<rows, stale, identities, call, reply>>
      BY <1>14 DEF vars, server, screen, lists
    <2> QED BY <1>0, <2>1, OthersTouch
  <1> QED BY <1>2, <1>3, <1>4, <1>5, <1>6, <1>7, <1>8, <1>9, <1>10, <1>11, <1>12, <1>13, <1>14
      DEF Next, Press, Answer, Continue

-----------------------------------------------------------------------------
(* The theorems *)

LEMMA InitEstablishes == Init => IInv
  <1> SUFFICES ASSUME Init
               PROVE  IInv
    OBVIOUS
  <1>1. TypeOK
    BY InitTypes
  <1>2. Cursor
    BY DEF Init, Cursor, SelectionIsShown, PageIsShown
  <1>3. Questions
    BY DEF Init, Questions, OneQuestionAtATime, QuestionsWait
  <1>4. Knowledge
    <2>1. identities = <<>> /\ reply = None /\ call.op = "fetch_all"
      BY DEF Init, fetch_all
    <2>2. ~Succeeded /\ DOMAIN identities = {}
      BY <2>1 DEF Succeeded
    <2> QED BY <2>1, <2>2
      DEF Knowledge, AnswersFit, ListsAreDistinct, Distinct, ColumnsFit, DecisionsFit, Decided,
          DecisionsReachTheUsersDevices
  <1> QED BY <1>1, <1>2, <1>3, <1>4 DEF IInv

\* The inductive invariant: types, the cursor, the questions, and what the console knows.
THEOREM InvariantHolds == Spec => []IInv
  <1>1. IInv /\ [Next]_vars => IInv'
    BY TypesPreserved, CursorPreserved, QuestionsPreserved, KnowledgePreserved DEF IInv
  <1> QED BY <1>1, InitEstablishes, PTL DEF Spec

\* The variables of the console and the server keep their types, and every request
\* and answer has the fields that its handler reads.
THEOREM TypeCorrect == Spec => []TypeOK
  <1>1. IInv => TypeOK
    BY DEF IInv
  <1> QED BY <1>1, InvariantHolds, PTL

\* Whatever is listed, deleted, paged, signed up or imported, the device and the
\* user that a key acts on are in the lists shown, whichever devices and users an
\* import leaves: toggle_selected never indexes beyond the end.
THEOREM SelectionHolds == Spec => []SelectionIsShown
  <1>1. IInv => SelectionIsShown
    BY DEF IInv, Cursor
  <1> QED BY <1>1, InvariantHolds, PTL

\* A 'y' answers the one question that is on the screen, in any interleaving of
\* keys, answers and failures.
THEOREM QuestionsHold == Spec => []OneQuestionAtATime
  <1>1. IInv => OneQuestionAtATime
    BY DEF IInv, Questions
  <1> QED BY <1>1, InvariantHolds, PTL

\* Between two keys the console shows every device that nobody else has been at as
\* the server has it, however many of its own requests failed.
THEOREM ColumnsHold == Spec => []ColumnsTellTheServer
  <1>1. IInv => ColumnsTellTheServer
    <2> SUFFICES ASSUME IInv, call = Reading, NEW i \in DOMAIN identities,
                        Known(identities[i].uuid)
                 PROVE  identities[i] = Entry(identities[i].uuid)
      BY DEF ColumnsTellTheServer, Known, Entry
    <2>1. TypeOK /\ AnswersFit /\ ColumnsFit
      BY DEF IInv, Knowledge
    <2>2. Plain
      BY <2>1, ColumnsArePlain DEF AnswersFit, Succeeded
    <2>3. identities[i] \in Shown
      BY <2>1, Lines DEF TypeOK
    <2> QED BY <2>2, <2>3 DEF Plain, Entry, Shown
  <1> QED BY <1>1, InvariantHolds, PTL

\* A decision for a user that stops half way has reached the devices that were
\* acknowledged, all of them that user's.
THEOREM DecisionsHold == Spec => []DecisionsReachTheUsersDevices
  <1>1. IInv => DecisionsReachTheUsersDevices
    BY DEF IInv, Knowledge
  <1> QED BY <1>1, InvariantHolds, PTL

===============================================================================
