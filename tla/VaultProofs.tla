------------------------------ MODULE VaultProofs ------------------------------
(* What holds of Vault for any devices, users, calls, groups and passwords. *)
EXTENDS Vault, TLAPS

-----------------------------------------------------------------------------
(* The inductive invariant.  No statement is in a transaction with the one     *)
(* before it, so what a call has read must stay true until it acts on it.  It  *)
(* does, because groups never change their user and passwords only move        *)
(* between groups of one user: what a call knows is kept by what the calls do, *)
(* and what they do is right by what they know.                                *)

\* The devices as DeviceRegistry has them; an owner has an account.
DevicesFit ==
    /\ registry \in [Device -> Registry!Entry \cup {Unknown, Gone}]
    /\ accounts \subseteq Name
    /\ \A d \in Registry!Members : registry[d].owner \in accounts \cup {None}

\* The flag is never set for an owner and an address that no confirm was about.
TrustIsApproved ==
    \A d \in Registry!Members :
        registry[d].trusted /\ registry[d].owner # None => Binding(d) \in approvals

\* A stored password whose group is the user's.
Holds(n, p) == passwords[p] # None /\ OwnerOf(p) = n

\* What a call's locals say of the tables, as it goes on.
Fits(l) ==
    /\ l.at # "idle" => l.session \in approvals /\ l.session.user \in accounts
    /\ l.at = "served" =>
          /\ \A p \in l.shown \cap Password : Holds(l.session.user, p)
          /\ \A g \in l.shown \cap Group : groups[g] = l.session.user
    /\ l.at = "list" => \A g \in l.groups : groups[g] = l.session.user
    /\ l.at \in {"create", "update"} => groups[l.group] = l.session.user
    /\ l.at \in {"get_group", "update_group"} =>
          groups[l.group] # None /\ Holds(groups[l.group], l.password)
    /\ l.at \in {"update_target", "update"} => Holds(l.session.user, l.password)

IInv == /\ TypeOK /\ DevicesFit /\ TrustIsApproved /\ ReferencesHold
        /\ \A c \in Call : Fits(call[c])

\* What no step undoes.
Lasting ==
    /\ accounts \subseteq accounts'
    /\ approvals \subseteq approvals'
    /\ \A g \in Group : groups[g] # None => groups'[g] = groups[g]
    /\ \A p \in Stored : passwords'[p] # None /\ groups'[passwords'[p]] = groups[passwords[p]]

-----------------------------------------------------------------------------
(* What the tag of a call says about its fields *)

LEMMA LocalFields ==
    ASSUME NEW l \in Local
    PROVE  /\ l.at # "idle" => l.session \in Session
           /\ l.at = "served" => l.shown \subseteq Password \cup Group
           /\ l.at = "list" => l.groups \subseteq Group
           /\ l.at = "create" => l.group \in Group
           /\ l.at \in {"get_group", "update_group", "update_target", "update"} =>
                 /\ l.password \in Password /\ l.group \in Group
                 /\ l = [at |-> l.at, session |-> l.session,
                         password |-> l.password, group |-> l.group]
  BY DEF Local

LEMMA SessionFields ==
    ASSUME NEW s \in Session
    PROVE  s.user \in Name /\ s.user # None
  BY NoneIsNoUuid DEF Session

\* A statement leaves the other calls alone.
LEMMA GotoType ==
    ASSUME TypeOK, NEW c \in Call, NEW l \in Local, Goto(c, l)
    PROVE  /\ call' \in [Call -> Local]
           /\ call'[c] = l
           /\ \A d \in Call : d # c => call'[d] = call[d]
  BY DEF TypeOK, Goto

\* What a call has read stays true while nothing is undone.
LEMMA FitsLasts ==
    ASSUME TypeOK, Lasting, NEW l \in Local, Fits(l)
    PROVE  Fits(l)'
  <1>1. l.at = "idle" \/ (l.session \in Session /\ l.session.user # None)
    BY LocalFields, SessionFields
  <1>2. ASSUME NEW g \in Group, groups[g] # None
        PROVE  groups'[g] = groups[g]
    BY <1>2 DEF Lasting
  <1>3. ASSUME NEW n, NEW p \in Password, Holds(n, p)
        PROVE  passwords'[p] # None /\ groups'[passwords'[p]] = n
    BY <1>3 DEF Lasting, Stored, Holds, OwnerOf
  <1>4. l.at # "idle" => l.session \in approvals' /\ l.session.user \in accounts'
    BY DEF Fits, Lasting
  <1>5. ASSUME l.at = "served"
        PROVE  /\ \A p \in l.shown \cap Password :
                     passwords'[p] # None /\ groups'[passwords'[p]] = l.session.user
               /\ \A g \in l.shown \cap Group : groups'[g] = l.session.user
    BY <1>1, <1>2, <1>3, <1>5 DEF Fits
  <1>6. ASSUME l.at = "list"
        PROVE  \A g \in l.groups : groups'[g] = l.session.user
    <2>1. l.groups \subseteq Group
      BY <1>6, LocalFields
    <2> QED BY <1>1, <1>2, <1>6, <2>1 DEF Fits
  <1>7. ASSUME l.at \in {"create", "update"}
        PROVE  groups'[l.group] = l.session.user
    <2>1. l.group \in Group
      BY <1>7, LocalFields
    <2> QED BY <1>1, <1>2, <1>7, <2>1 DEF Fits
  <1>8. ASSUME l.at \in {"get_group", "update_group"}
        PROVE  /\ groups'[l.group] # None /\ passwords'[l.password] # None
               /\ groups'[passwords'[l.password]] = groups'[l.group]
    <2>1. l.group \in Group /\ l.password \in Password
      BY <1>8, LocalFields
    <2>2. groups[l.group] # None /\ Holds(groups[l.group], l.password)
      BY <1>8 DEF Fits
    <2> QED BY <1>2, <1>3, <2>1, <2>2
  <1>9. ASSUME l.at \in {"update_target", "update"}
        PROVE  /\ passwords'[l.password] # None
               /\ groups'[passwords'[l.password]] = l.session.user
    <2>1. l.password \in Password
      BY <1>9, LocalFields
    <2>2. Holds(l.session.user, l.password)
      BY <1>9 DEF Fits
    <2> QED BY <1>3, <2>1, <2>2
  <1> QED BY <1>4, <1>5, <1>6, <1>7, <1>8, <1>9 DEF Fits, Holds, OwnerOf

-----------------------------------------------------------------------------
(* The devices *)

\* The registry stays well-formed, and accounts are for good.
LEMMA RegistryKeepsDevices ==
    ASSUME DevicesFit, [Registry!Next]_devices
    PROVE  DevicesFit' /\ accounts \subseteq accounts'
  <1>1. \A d \in Registry!Members : d \in Device /\ registry[d] \in Registry!Entry
    BY DEF DevicesFit, Registry!Members
  <1>2. ASSUME NEW d \in Device, NEW e, e = Gone \/ (e \in Registry!Entry /\ e.owner \in accounts' \cup {None}),
               Registry!Set(d, e), accounts \subseteq accounts', accounts' \subseteq Name
        PROVE  DevicesFit'
    <2>1. /\ registry' \in [Device -> Registry!Entry \cup {Unknown, Gone}]
          /\ registry'[d] = e
          /\ \A f \in Device : f # d => registry'[f] = registry[f]
      BY <1>2 DEF DevicesFit, Registry!Set
    <2>2. ASSUME NEW f \in Device, registry'[f] \notin {Unknown, Gone}
          PROVE  registry'[f].owner \in accounts' \cup {None}
      <3>1. CASE f = d
        BY <1>2, <2>1, <2>2, <3>1
      <3>2. CASE f # d
        BY <1>2, <2>1, <2>2, <3>2 DEF DevicesFit, Registry!Members
      <3> QED BY <3>1, <3>2
    <2> QED BY <1>2, <2>1, <2>2 DEF DevicesFit, Registry!Members
  <1>3. ASSUME NEW d \in Device, NEW ip \in IP, Registry!Register(d, ip)
        PROVE  DevicesFit' /\ accounts \subseteq accounts'
    <2> DEFINE e == [owner |-> None, address |-> ip, credential |-> None, trusted |-> FALSE]
    <2>1. e \in Registry!Entry /\ e.owner = None
      BY DEF Registry!Entry
    <2> HIDE DEF e
    <2>2. Registry!Set(d, e) /\ UNCHANGED accounts
      BY <1>3 DEF Registry!Register, e
    <2> QED BY <1>2, <2>1, <2>2 DEF DevicesFit
  <1>4. ASSUME NEW d \in Device, NEW n \in Name, NEW t \in Token,
               Registry!Claim(d, n, t), n \in accounts',
               accounts \subseteq accounts', accounts' \subseteq Name
        PROVE  DevicesFit'
    <2> DEFINE e == [owner |-> n, address |-> registry[d].address,
                     credential |-> t, trusted |-> FALSE]
    <2>1. e \in Registry!Entry /\ e.owner = n
      BY <1>1, <1>4 DEF Registry!Entry, Registry!Claim
    <2> HIDE DEF e
    <2>2. Registry!Set(d, e)
      BY <1>4 DEF Registry!Claim, e
    <2> QED BY <1>2, <1>4, <2>1, <2>2
  <1>5. ASSUME NEW d \in Device, NEW n \in Name, NEW t \in Token, Registry!SignUp(d, n, t)
        PROVE  DevicesFit' /\ accounts \subseteq accounts'
    <2>1. accounts' = accounts \cup {n} /\ Registry!Claim(d, n, t)
      BY <1>5 DEF Registry!SignUp
    <2> QED BY <1>4, <2>1 DEF DevicesFit
  <1>6. ASSUME NEW d \in Device, NEW n \in Name, NEW t \in Token, Registry!SignIn(d, n, t)
        PROVE  DevicesFit' /\ accounts \subseteq accounts'
    <2>1. n \in accounts /\ accounts' = accounts /\ Registry!Claim(d, n, t)
      BY <1>6 DEF Registry!SignIn
    <2> QED BY <1>4, <2>1 DEF DevicesFit
  <1>7. ASSUME NEW d \in Registry!Members, NEW ip \in IP, NEW t \in Token \cup {None}, NEW b \in BOOLEAN,
               Registry!Set(d, [owner |-> registry[d].owner, address |-> ip,
                                credential |-> t, trusted |-> b]),
               UNCHANGED accounts
        PROVE  DevicesFit' /\ accounts \subseteq accounts'
    <2> DEFINE e == [owner |-> registry[d].owner, address |-> ip, credential |-> t, trusted |-> b]
    <2>1. e \in Registry!Entry /\ e.owner \in accounts \cup {None}
      BY <1>1 DEF Registry!Entry, DevicesFit
    <2>2. Registry!Set(d, e)
      BY <1>7
    <2> HIDE DEF e
    <2> QED BY <1>1, <1>2, <1>7, <2>1, <2>2 DEF DevicesFit
  <1>8. \A d \in Registry!Members : /\ registry[d].address \in IP
                                    /\ registry[d].credential \in Token \cup {None}
                                    /\ registry[d].trusted \in BOOLEAN
    BY <1>1 DEF Registry!Entry
  <1>9. ASSUME NEW d \in Device, NEW t \in Token, Registry!Rotate(d, t)
        PROVE  DevicesFit' /\ accounts \subseteq accounts'
    BY <1>7, <1>8, <1>9 DEF Registry!Rotate
  <1>10. ASSUME NEW d \in Device, NEW ip \in IP, Registry!Move(d, ip)
         PROVE  DevicesFit' /\ accounts \subseteq accounts'
    BY <1>7, <1>8, <1>10 DEF Registry!Move
  <1>11. ASSUME NEW d \in Device, NEW b \in BOOLEAN, Registry!Trust(d, b)
         PROVE  DevicesFit' /\ accounts \subseteq accounts'
    BY <1>7, <1>8, <1>11 DEF Registry!Trust
  <1>12. ASSUME NEW d \in Device, Registry!Remove(d)
         PROVE  DevicesFit' /\ accounts \subseteq accounts'
    BY <1>2, <1>12 DEF Registry!Remove, DevicesFit
  <1>13. ASSUME UNCHANGED <<registry, accounts>>
         PROVE  DevicesFit' /\ accounts \subseteq accounts'
    BY <1>13 DEF DevicesFit, Registry!Members
  <1>14. ASSUME NEW n \in Name, NEW on \in BOOLEAN, Registry!Block(n, on)
         PROVE  DevicesFit' /\ accounts \subseteq accounts'
    BY <1>13, <1>14 DEF Registry!Block
  <1>15. CASE Registry!Next
    BY <1>3, <1>5, <1>6, <1>9, <1>10, <1>11, <1>12, <1>14, <1>15
       DEF Registry!Next, Registry!Approve, Registry!Operate
  <1>16. CASE UNCHANGED devices
    BY <1>13, <1>16 DEF devices
  <1> QED BY <1>15, <1>16

LEMMA BindingIsSession ==
    ASSUME DevicesFit, NEW d \in Registry!Members, registry[d].owner # None
    PROVE  Binding(d) \in Session
  <1>1. d \in Device /\ registry[d] \in Registry!Entry
    BY DEF DevicesFit, Registry!Members
  <1> QED BY <1>1 DEF Binding, Session, Registry!Entry

\* A new entry that is trusted only for what was approved.
LEMMA EntryKeepsTrust ==
    ASSUME DevicesFit, TrustIsApproved, approvals \subseteq approvals',
           NEW d \in Device, NEW e, Registry!Set(d, e),
           \/ e = Gone
           \/ e.trusted /\ e.owner # None =>
                 [device |-> d, user |-> e.owner, ip |-> e.address] \in approvals'
    PROVE  TrustIsApproved'
  <1>1. /\ registry'[d] = e
        /\ \A f \in Device : f # d => registry'[f] = registry[f]
    BY DEF DevicesFit, Registry!Set
  <1>2. ASSUME NEW f \in Device, registry'[f] \notin {Unknown, Gone},
               registry'[f].trusted, registry'[f].owner # None
        PROVE  [device |-> f, user |-> registry'[f].owner, ip |-> registry'[f].address] \in approvals'
    <2>1. CASE f = d
      BY <1>1, <1>2, <2>1
    <2>2. CASE f # d
      BY <1>1, <1>2, <2>2 DEF TrustIsApproved, Binding, Registry!Members
    <2> QED BY <2>1, <2>2
  <1> QED BY <1>2 DEF TrustIsApproved, Binding, Registry!Members

\* No operation but a confirm makes a device trusted that was not, and none
\* leaves it trusted with another owner or at another address.
LEMMA OperateKeepsTrust ==
    ASSUME DevicesFit, TrustIsApproved, [Registry!Operate]_devices, UNCHANGED approvals
    PROVE  TrustIsApproved'
  <1>1. ASSUME NEW d \in Device, NEW e, Registry!Set(d, e), e = Gone \/ ~e.trusted
        PROVE  TrustIsApproved'
    BY <1>1, EntryKeepsTrust
  <1>2. ASSUME NEW d \in Device, NEW ip \in IP, Registry!Register(d, ip)
        PROVE  TrustIsApproved'
    <2> DEFINE e == [owner |-> None, address |-> ip, credential |-> None, trusted |-> FALSE]
    <2>1. ~e.trusted
      OBVIOUS
    <2> HIDE DEF e
    <2>2. Registry!Set(d, e)
      BY <1>2 DEF Registry!Register, e
    <2> QED BY <1>1, <2>1, <2>2
  <1>3. ASSUME NEW d \in Device, NEW n \in Name, NEW t \in Token, Registry!Claim(d, n, t)
        PROVE  TrustIsApproved'
    <2> DEFINE e == [owner |-> n, address |-> registry[d].address,
                     credential |-> t, trusted |-> FALSE]
    <2>1. ~e.trusted
      OBVIOUS
    <2> HIDE DEF e
    <2>2. Registry!Set(d, e)
      BY <1>3 DEF Registry!Claim, e
    <2> QED BY <1>1, <2>1, <2>2
  <1>4. ASSUME NEW d \in Device, NEW t \in Token, Registry!Rotate(d, t)
        PROVE  TrustIsApproved'
    <2> DEFINE e == [owner |-> registry[d].owner, address |-> registry[d].address,
                     credential |-> t, trusted |-> registry[d].trusted]
    <2>1. /\ e.owner = registry[d].owner /\ e.address = registry[d].address
          /\ e.trusted = registry[d].trusted
      OBVIOUS
    <2> HIDE DEF e
    <2>2. Registry!Set(d, e) /\ d \in Registry!Members
      BY <1>4 DEF Registry!Rotate, e
    <2>3. e.trusted /\ e.owner # None =>
             [device |-> d, user |-> e.owner, ip |-> e.address] \in approvals'
      BY <2>1, <2>2 DEF TrustIsApproved, Binding
    <2> QED BY <2>2, <2>3, EntryKeepsTrust
  <1>5. ASSUME NEW d \in Device, NEW ip \in IP, Registry!Move(d, ip)
        PROVE  TrustIsApproved'
    <2> DEFINE e == [owner |-> registry[d].owner, address |-> ip,
                     credential |-> registry[d].credential, trusted |-> FALSE]
    <2>1. ~e.trusted
      OBVIOUS
    <2> HIDE DEF e
    <2>2. Registry!Set(d, e)
      BY <1>5 DEF Registry!Move, e
    <2> QED BY <1>1, <2>1, <2>2
  <1>6. ASSUME NEW d \in Device, Registry!Trust(d, FALSE)
        PROVE  TrustIsApproved'
    <2> DEFINE e == [owner |-> registry[d].owner, address |-> registry[d].address,
                     credential |-> registry[d].credential, trusted |-> FALSE]
    <2>1. ~e.trusted
      OBVIOUS
    <2> HIDE DEF e
    <2>2. Registry!Set(d, e)
      BY <1>6 DEF Registry!Trust, e
    <2> QED BY <1>1, <2>1, <2>2
  <1>7. ASSUME NEW d \in Device, Registry!Remove(d)
        PROVE  TrustIsApproved'
    BY <1>1, <1>7 DEF Registry!Remove
  <1>8. ASSUME UNCHANGED registry
        PROVE  TrustIsApproved'
    BY <1>8 DEF TrustIsApproved, Binding, Registry!Members
  <1>9. ASSUME NEW n \in Name, NEW on \in BOOLEAN, Registry!Block(n, on)
        PROVE  TrustIsApproved'
    BY <1>8, <1>9 DEF Registry!Block
  <1>10. CASE Registry!Operate
    BY <1>2, <1>3, <1>4, <1>5, <1>6, <1>7, <1>9, <1>10
       DEF Registry!Operate, Registry!SignUp, Registry!SignIn
  <1>11. CASE UNCHANGED devices
    BY <1>8, <1>11 DEF devices
  <1> QED BY <1>10, <1>11

\* A confirm makes it trusted, and is what approves it.
LEMMA ConfirmKeepsTrust ==
    ASSUME DevicesFit, TrustIsApproved, NEW d \in Device, Set_confirm(d)
    PROVE  TrustIsApproved' /\ approvals \subseteq approvals'
  <1> DEFINE e == [owner |-> registry[d].owner, address |-> registry[d].address,
                   credential |-> registry[d].credential, trusted |-> TRUE]
  <1>1. e.owner = registry[d].owner /\ e.address = registry[d].address
    OBVIOUS
  <1> HIDE DEF e
  <1>2. /\ d \in Registry!Members /\ Registry!Set(d, e)
        /\ approvals' = approvals \cup ({Binding(d)} \cap Session)
    BY DEF Set_confirm, Registry!Trust, e
  <1>3. registry[d].owner # None => Binding(d) \in approvals'
    BY <1>2, BindingIsSession
  <1>4. e.owner # None => [device |-> d, user |-> e.owner, ip |-> e.address] \in approvals'
    BY <1>1, <1>3 DEF Binding
  <1> QED BY <1>2, <1>4, EntryKeepsTrust

\* The devices as they are, for the statements of calls.
LEMMA DevicesStay ==
    ASSUME DevicesFit, TrustIsApproved, UNCHANGED <<devices, approvals>>
    PROVE  DevicesFit' /\ TrustIsApproved'
  BY DEF devices, DevicesFit, TrustIsApproved, Binding, Registry!Members

-----------------------------------------------------------------------------
(* The statements of a call *)

LEMMA IdleFits == Idle \in Local /\ Fits(Idle)
  BY DEF Idle, Local, Fits

LEMMA StatementKeeps ==
    ASSUME IInv, NEW c \in Call, NEW l \in Local, Goto(c, l), Fits(l)', Lasting,
           UNCHANGED <<devices, approvals>>, ReferencesHold',
           groups' \in [Group -> Name \cup {None}],
           passwords' \in [Password -> Group \cup {None}]
    PROVE  IInv'
  <1>1. TypeOK'
    BY GotoType DEF IInv, TypeOK
  <1>2. DevicesFit' /\ TrustIsApproved'
    BY DevicesStay DEF IInv
  <1>3. ASSUME NEW d \in Call
        PROVE  Fits(call[d])'
    <2>1. CASE d = c
      BY <2>1, GotoType DEF IInv, Fits, Holds, OwnerOf
    <2>2. CASE d # c
      <3>1. PICK k \in Local : k = call[d]
        BY DEF IInv, TypeOK
      <3>2. Fits(k)'
        BY <3>1, FitsLasts DEF IInv
      <3>3. call'[d] = k
        BY <2>2, <3>1, GotoType DEF IInv
      <3> QED BY <3>2, <3>3 DEF Fits, Holds, OwnerOf
    <2> QED BY <2>1, <2>2
  <1> QED BY <1>1, <1>2, <1>3 DEF IInv

\* A statement that only reads.
LEMMA ReadKeeps ==
    ASSUME IInv, NEW c \in Call, NEW l \in Local, Goto(c, l), Fits(l),
           UNCHANGED <<devices, approvals, tables>>
    PROVE  IInv' /\ Lasting
  <1>1. Lasting
    BY DEF Lasting, Stored, devices, tables
  <1>2. Fits(l)'
    BY <1>1, FitsLasts DEF IInv
  <1>3. ReferencesHold'
    BY DEF IInv, ReferencesHold, Stored, devices, tables
  <1>4. /\ groups' \in [Group -> Name \cup {None}]
        /\ passwords' \in [Password -> Group \cup {None}]
    BY DEF IInv, TypeOK, tables
  <1> QED BY <1>1, <1>2, <1>3, <1>4, StatementKeeps

\* Serving a user what is theirs.
LEMMA ServeFits ==
    ASSUME NEW s \in Session, s \in approvals, s.user \in accounts,
           NEW shown \in SUBSET (Password \cup Group),
           \A p \in shown \cap Password : Holds(s.user, p),
           \A g \in shown \cap Group : groups[g] = s.user
    PROVE  LET l == [at |-> "served", session |-> s, shown |-> shown]
           IN  l \in Local /\ Fits(l)
  BY DEF Local, Fits

\* Whom a call that has begun acts for.
LEMMA SessionOf ==
    ASSUME IInv, NEW c \in Call, call[c].at # "idle"
    PROVE  /\ call[c].session \in Session
           /\ call[c].session \in approvals
           /\ call[c].session.user \in accounts
           /\ call[c].session.user \in Name
           /\ call[c].session.user # None
  BY LocalFields, SessionFields DEF IInv, TypeOK, Fits

LEMMA AuthKeeps ==
    ASSUME IInv, NEW c \in Call, NEW t \in Token, NEW ip \in IP,
           Auth_find_by_device_token(c, t, ip)
    PROVE  IInv' /\ Lasting
  <1>1. PICK d \in Registry!Members :
           /\ registry[d].address = ip
           /\ registry[d].trusted
           /\ registry[d].owner # None
           /\ Goto(c, [at |-> "auth_user",
                       session |-> [device |-> d, user |-> registry[d].owner, ip |-> ip]])
    BY DEF Auth_find_by_device_token
  <1> DEFINE s == [device |-> d, user |-> registry[d].owner, ip |-> ip]
             l == [at |-> "auth_user", session |-> s]
  <1>2. s = Binding(d)
    BY <1>1 DEF Binding
  <1>3. s \in approvals /\ s \in Session /\ s.user \in accounts
    <2>1. Binding(d) \in approvals
      BY <1>1 DEF IInv, TrustIsApproved
    <2>2. Binding(d) \in Session
      BY <1>1, BindingIsSession DEF IInv
    <2>3. registry[d].owner \in accounts
      BY <1>1 DEF IInv, DevicesFit
    <2> QED BY <1>2, <2>1, <2>2, <2>3
  <1>4. l \in Local /\ Fits(l)
    BY <1>3 DEF Local, Fits
  <1>5. Goto(c, l)
    BY <1>1
  <1> HIDE DEF l
  <1> QED BY <1>4, <1>5, ReadKeeps DEF Auth_find_by_device_token, Statement, tables

LEMMA AuthorizeKeeps ==
    ASSUME IInv, NEW c \in Call, Auth_find_by_uuid(c)
    PROVE  IInv' /\ Lasting
  <1> DEFINE l == [at |-> "authorized", session |-> call[c].session]
  <1>1. call[c].at = "auth_user" /\ Goto(c, l) /\ UNCHANGED <<devices, approvals, tables>>
    BY DEF Auth_find_by_uuid, Statement
  <1>2. l \in Local /\ Fits(l)
    BY <1>1, SessionOf DEF Local, Fits
  <1> HIDE DEF l
  <1> QED BY <1>1, <1>2, ReadKeeps

LEMMA EndKeeps ==
    ASSUME IInv, NEW c \in Call, Refuse(c) \/ Answer(c)
    PROVE  IInv' /\ Lasting
  <1>1. Goto(c, Idle) /\ UNCHANGED <<devices, approvals, tables>>
    BY DEF Refuse, Answer, Statement
  <1> QED BY <1>1, IdleFits, ReadKeeps

\* Reads that are answered at once with what is the user's, or with nothing.
LEMMA ServeKeeps ==
    ASSUME IInv, NEW c \in Call, call[c].at # "idle",
           NEW shown \in SUBSET (Password \cup Group), Serve(c, shown),
           \A p \in shown \cap Password : Holds(call[c].session.user, p),
           \A g \in shown \cap Group : groups[g] = call[c].session.user,
           UNCHANGED <<devices, approvals, tables>>
    PROVE  IInv' /\ Lasting
  <1> DEFINE l == [at |-> "served", session |-> call[c].session, shown |-> shown]
  <1>1. Goto(c, l)
    BY DEF Serve
  <1>2. l \in Local /\ Fits(l)
    BY SessionOf, ServeFits
  <1> HIDE DEF l
  <1> QED BY <1>1, <1>2, ReadKeeps

LEMMA VerifyKeeps ==
    ASSUME IInv, NEW c \in Call, Verify(c)
    PROVE  IInv' /\ Lasting
  BY ServeKeeps DEF Verify, Statement

LEMMA GroupListKeeps ==
    ASSUME IInv, NEW c \in Call, Group_list(c)
    PROVE  IInv' /\ Lasting
  BY ServeKeeps, GroupsAreNoPasswords DEF Group_list, Statement, find_by_user

LEMMA ListGroupsKeeps ==
    ASSUME IInv, NEW c \in Call, List_find_by_user(c)
    PROVE  IInv' /\ Lasting
  <1> DEFINE l == [at |-> "list", session |-> call[c].session,
                   groups |-> find_by_user(call[c].session.user)]
  <1>1. call[c].at = "authorized" /\ Goto(c, l) /\ UNCHANGED <<devices, approvals, tables>>
    BY DEF List_find_by_user, Statement
  <1>2. l \in Local /\ Fits(l)
    BY <1>1, SessionOf DEF Local, Fits, find_by_user
  <1> HIDE DEF l
  <1> QED BY <1>1, <1>2, ReadKeeps

LEMMA ListPasswordsKeeps ==
    ASSUME IInv, NEW c \in Call, List_find_by_groups(c)
    PROVE  IInv' /\ Lasting
  <1> DEFINE shown == {p \in Stored : passwords[p] \in call[c].groups}
  <1>1. call[c].at = "list" /\ Serve(c, shown) /\ UNCHANGED <<devices, approvals, tables>>
    BY DEF List_find_by_groups, Statement
  <1>2. \A g \in call[c].groups : groups[g] = call[c].session.user
    BY <1>1 DEF IInv, Fits
  <1>3. \A p \in shown : p \in Password /\ Holds(call[c].session.user, p)
    BY <1>2 DEF Holds, OwnerOf, Stored
  <1>4. shown \in SUBSET (Password \cup Group) /\ shown \cap Group = {}
    BY <1>3, GroupsAreNoPasswords
  <1> HIDE DEF shown
  <1> QED BY <1>1, <1>3, <1>4, ServeKeeps

LEMMA CreateGroupKeeps ==
    ASSUME IInv, NEW c \in Call, Create_find_group(c)
    PROVE  IInv' /\ Lasting
  <1>1. PICK g \in find_by_user(call[c].session.user) :
           Goto(c, [at |-> "create", session |-> call[c].session, group |-> g])
    BY DEF Create_find_group
  <1> DEFINE l == [at |-> "create", session |-> call[c].session, group |-> g]
  <1>2. Goto(c, l) /\ call[c].at = "authorized" /\ UNCHANGED <<devices, approvals, tables>>
    BY <1>1 DEF Create_find_group, Statement
  <1>3. l \in Local /\ Fits(l)
    BY <1>2, SessionOf DEF Local, Fits, find_by_user
  <1> HIDE DEF l
  <1> QED BY <1>2, <1>3, ReadKeeps

LEMMA FindPasswordKeeps ==
    ASSUME IInv, NEW c \in Call, NEW next \in {"get_group", "update_group"}, Find_password(c, next)
    PROVE  IInv' /\ Lasting
  <1>1. PICK p \in Stored : Goto(c, [at |-> next, session |-> call[c].session,
                                     password |-> p, group |-> passwords[p]])
    BY DEF Find_password
  <1> DEFINE l == [at |-> next, session |-> call[c].session,
                   password |-> p, group |-> passwords[p]]
  <1>2. Goto(c, l) /\ call[c].at = "authorized" /\ UNCHANGED <<devices, approvals, tables>>
    BY <1>1 DEF Find_password, Statement
  <1>3. p \in Password /\ passwords[p] \in Group /\ passwords[p] # None
    BY DEF IInv, TypeOK, Stored
  <1>4. groups[passwords[p]] # None /\ Holds(groups[passwords[p]], p)
    BY <1>3 DEF IInv, ReferencesHold, Holds, OwnerOf
  <1>5. l \in Local /\ Fits(l)
    BY <1>2, <1>3, <1>4, SessionOf DEF Local, Fits
  <1> HIDE DEF l
  <1> QED BY <1>2, <1>5, ReadKeeps

LEMMA GetKeeps ==
    ASSUME IInv, NEW c \in Call, Get_find_group(c)
    PROVE  IInv' /\ Lasting
  <1> DEFINE shown == {call[c].password, call[c].group}
  <1>1. /\ call[c].at = "get_group" /\ Serve(c, shown) /\ UNCHANGED <<devices, approvals, tables>>
        /\ groups[call[c].group] = call[c].session.user
    BY DEF Get_find_group, Statement
  <1>2. call[c].password \in Password /\ call[c].group \in Group
    BY <1>1, LocalFields DEF IInv, TypeOK
  <1>3. Holds(call[c].session.user, call[c].password)
    BY <1>1 DEF IInv, Fits
  <1>4. shown \in SUBSET (Password \cup Group)
        /\ (\A p \in shown \cap Password : p = call[c].password)
        /\ (\A g \in shown \cap Group : g = call[c].group)
    BY <1>2, GroupsAreNoPasswords
  <1> HIDE DEF shown
  <1> QED BY <1>1, <1>3, <1>4, ServeKeeps

LEMMA UpdateGroupKeeps ==
    ASSUME IInv, NEW c \in Call, Update_find_group(c)
    PROVE  IInv' /\ Lasting
  <1> DEFINE l == [at |-> "update_target", session |-> call[c].session,
                   password |-> call[c].password, group |-> call[c].group]
  <1>1. /\ call[c].at = "update_group" /\ UNCHANGED <<devices, approvals, tables>>
        /\ groups[call[c].group] = call[c].session.user
    BY DEF Update_find_group, Statement
  <1>2. /\ call[c].password \in Password /\ call[c].group \in Group
        /\ call[c] = [at |-> call[c].at, session |-> call[c].session,
                      password |-> call[c].password, group |-> call[c].group]
    BY <1>1, LocalFields DEF IInv, TypeOK
  <1>3. [call[c] EXCEPT !.at = "update_target"] = l
    BY <1>2
  <1>4. Goto(c, l)
    BY <1>3 DEF Update_find_group
  <1>5. Holds(call[c].session.user, call[c].password)
    BY <1>1 DEF IInv, Fits
  <1>6. l \in Local /\ Fits(l)
    BY <1>1, <1>2, <1>5, SessionOf DEF Local, Fits
  <1> HIDE DEF l
  <1> QED BY <1>1, <1>4, <1>6, ReadKeeps

LEMMA UpdateTargetKeeps ==
    ASSUME IInv, NEW c \in Call, Update_find_target(c)
    PROVE  IInv' /\ Lasting
  <1>1. PICK g \in find_by_user(call[c].session.user) :
           Goto(c, [at |-> "update", session |-> call[c].session,
                    password |-> call[c].password, group |-> g])
    BY DEF Update_find_target
  <1> DEFINE l == [at |-> "update", session |-> call[c].session,
                   password |-> call[c].password, group |-> g]
  <1>2. call[c].at = "update_target" /\ UNCHANGED <<devices, approvals, tables>>
    BY DEF Update_find_target, Statement
  <1>3. call[c].password \in Password
    BY <1>2, LocalFields DEF IInv, TypeOK
  <1>4. Goto(c, l)
    BY <1>1
  <1>5. Holds(call[c].session.user, call[c].password)
    BY <1>2 DEF IInv, Fits
  <1>6. g \in Group /\ groups[g] = call[c].session.user
    BY DEF find_by_user
  <1>7. l \in Local /\ Fits(l)
    BY <1>2, <1>3, <1>5, <1>6, SessionOf DEF Local, Fits
  <1> HIDE DEF l
  <1> QED BY <1>2, <1>4, <1>7, ReadKeeps

-----------------------------------------------------------------------------
(* The three statements that write *)

LEMMA GroupCreateKeeps ==
    ASSUME IInv, NEW c \in Call, Group_create(c)
    PROVE  IInv' /\ Lasting
  <1>1. PICK g \in Group :
           groups[g] = None /\ groups' = [groups EXCEPT ![g] = call[c].session.user]
    BY DEF Group_create
  <1> DEFINE n == call[c].session.user
  <1>2. /\ call[c].at = "authorized" /\ Serve(c, {})
        /\ UNCHANGED <<devices, approvals, passwords>>
    BY DEF Group_create, Statement
  <1>3. n \in Name /\ n # None /\ n \in accounts
    BY <1>2, SessionOf
  <1>4. /\ groups' \in [Group -> Name \cup {None}]
        /\ groups'[g] = n
        /\ \A h \in Group : h # g => groups'[h] = groups[h]
    BY <1>1, <1>3 DEF IInv, TypeOK
  <1>5. \A p \in Stored : /\ p \in Password /\ passwords[p] \in Group
                          /\ passwords[p] # None /\ groups[passwords[p]] # None
    BY DEF IInv, TypeOK, ReferencesHold, Stored
  <1>6. Lasting
    BY <1>1, <1>2, <1>4, <1>5 DEF Lasting, devices
  <1>7. ReferencesHold'
    BY <1>1, <1>2, <1>3, <1>4, <1>5 DEF IInv, ReferencesHold, Stored, devices
  <1>8. PICK l \in Local : Goto(c, l) /\ Fits(l)
    BY <1>2, SessionOf, ServeFits DEF Serve
  <1>9. Fits(l)'
    BY <1>6, <1>8, FitsLasts DEF IInv
  <1> QED BY <1>2, <1>4, <1>6, <1>7, <1>8, <1>9, StatementKeeps DEF IInv, TypeOK

\* A password goes to a group of the user: a new one, or one of the user's own.
LEMMA PutKeeps ==
    ASSUME IInv, NEW c \in Call, call[c].at # "idle",
           NEW p \in Password, NEW g \in Group,
           groups[g] = call[c].session.user,
           p \in Stored => OwnerOf(p) = call[c].session.user,
           passwords' = [passwords EXCEPT ![p] = g],
           NEW shown \in SUBSET {p}, Serve(c, shown),
           UNCHANGED <<devices, approvals, groups>>
    PROVE  IInv' /\ Lasting
  <1>1. PICK s \in Session : s = call[c].session
    BY SessionOf
  <1> DEFINE n == s.user
             l == [at |-> "served", session |-> s, shown |-> shown]
  <1>2. /\ n # None /\ g # None /\ groups'[g] = n
        /\ s \in approvals' /\ n \in accounts'
    BY <1>1, SessionOf, NoneIsNoUuid DEF devices
  <1>3. /\ passwords' \in [Password -> Group \cup {None}]
        /\ passwords'[p] = g
        /\ \A q \in Password : q # p => passwords'[q] = passwords[q]
    BY DEF IInv, TypeOK
  <1>4. Lasting
    BY <1>1, <1>2, <1>3 DEF Lasting, Stored, OwnerOf, devices
  <1>5. ReferencesHold'
    BY <1>2, <1>3 DEF IInv, ReferencesHold, Stored, devices
  <1>6. l \in Local /\ Goto(c, l)
    BY <1>1 DEF Local, Serve
  <1>7. Fits(l)'
    BY <1>2, <1>3, GroupsAreNoPasswords DEF Fits, Holds, OwnerOf
  <1> HIDE DEF l
  <1> QED BY <1>3, <1>4, <1>5, <1>6, <1>7, StatementKeeps DEF IInv, TypeOK

LEMMA CreateKeeps ==
    ASSUME IInv, NEW c \in Call, Create_insert(c)
    PROVE  IInv' /\ Lasting
  <1>1. PICK p \in Password \ Stored :
           passwords' = [passwords EXCEPT ![p] = call[c].group] /\ Serve(c, {p})
    BY DEF Create_insert
  <1>2. call[c].at = "create" /\ UNCHANGED <<devices, approvals, groups>>
    BY DEF Create_insert, Statement
  <1>3. call[c].group \in Group /\ groups[call[c].group] = call[c].session.user
    BY <1>2, LocalFields DEF IInv, TypeOK, Fits
  <1> QED BY <1>1, <1>2, <1>3, PutKeeps

LEMMA UpdateKeeps ==
    ASSUME IInv, NEW c \in Call, Update_update(c)
    PROVE  IInv' /\ Lasting
  <1>1. /\ call[c].at = "update" /\ Serve(c, {})
        /\ passwords' = [passwords EXCEPT ![call[c].password] = call[c].group]
        /\ UNCHANGED <<devices, approvals, groups>>
    BY DEF Update_update, Statement
  <1>2. call[c].password \in Password /\ call[c].group \in Group
    BY <1>1, LocalFields DEF IInv, TypeOK
  <1>3. /\ groups[call[c].group] = call[c].session.user
        /\ OwnerOf(call[c].password) = call[c].session.user
    BY <1>1 DEF IInv, Fits, Holds
  <1> QED BY <1>1, <1>2, <1>3, PutKeeps

-----------------------------------------------------------------------------
(* Every step *)

\* Whatever happens to the devices, the calls in flight are as right as before.
LEMMA DevicesKeep ==
    ASSUME IInv, [Registry!Next]_devices, TrustIsApproved', UNCHANGED <<tables, call>>,
           approvals \subseteq approvals', approvals' \subseteq Session
    PROVE  IInv' /\ Lasting
  <1>1. DevicesFit' /\ accounts \subseteq accounts'
    BY RegistryKeepsDevices DEF IInv
  <1>2. UNCHANGED <<groups, passwords, call>>
    BY DEF tables
  <1>3. Lasting
    BY <1>1, <1>2 DEF Lasting, Stored
  <1>4. TypeOK'
    BY <1>2 DEF IInv, TypeOK
  <1>5. ReferencesHold'
    BY <1>1, <1>2 DEF IInv, ReferencesHold, Stored
  <1>6. ASSUME NEW c \in Call
        PROVE  Fits(call[c])'
    <2>1. PICK k \in Local : k = call[c]
      BY DEF IInv, TypeOK
    <2>2. Fits(k)'
      BY <2>1, <1>3, FitsLasts DEF IInv
    <2>3. call'[c] = k
      BY <2>1, <1>2
    <2> QED BY <2>2, <2>3 DEF Fits, Holds, OwnerOf
  <1> QED BY <1>1, <1>3, <1>4, <1>5, <1>6 DEF IInv

LEMMA RegistryKeeps ==
    ASSUME IInv, Registry_step
    PROVE  IInv' /\ Lasting
  <1>1. /\ [Registry!Operate]_devices /\ UNCHANGED <<tables, call, approvals>>
        /\ [Registry!Next]_devices
    BY DEF Registry_step, Registry!Next
  <1>2. TrustIsApproved'
    BY <1>1, OperateKeepsTrust DEF IInv
  <1> QED BY <1>1, <1>2, DevicesKeep DEF IInv, TypeOK

LEMMA ConfirmKeeps ==
    ASSUME IInv, NEW d \in Device, Set_confirm(d)
    PROVE  IInv' /\ Lasting
  <1>1. /\ UNCHANGED <<tables, call>> /\ Registry!Next
        /\ approvals' = approvals \cup ({Binding(d)} \cap Session)
    BY DEF Set_confirm, Registry!Next, Registry!Approve
  <1>2. TrustIsApproved' /\ approvals \subseteq approvals'
    BY ConfirmKeepsTrust DEF IInv
  <1> QED BY <1>1, <1>2, DevicesKeep DEF IInv, TypeOK

LEMMA CallKeeps ==
    ASSUME IInv, NEW c \in Call, Call_step(c)
    PROVE  IInv' /\ Lasting
  BY AuthKeeps, AuthorizeKeeps, EndKeeps, VerifyKeeps, GroupCreateKeeps, GroupListKeeps,
     ListGroupsKeeps, ListPasswordsKeeps, CreateGroupKeeps, CreateKeeps, FindPasswordKeeps,
     GetKeeps, UpdateGroupKeeps, UpdateTargetKeeps, UpdateKeeps
  DEF Call_step

LEMMA StepKeeps ==
    ASSUME IInv, [Next]_vars
    PROVE  IInv' /\ Lasting
  <1>1. CASE Registry_step
    BY <1>1, RegistryKeeps
  <1>2. ASSUME NEW d \in Device, Set_confirm(d)
        PROVE  IInv' /\ Lasting
    BY <1>2, ConfirmKeeps
  <1>3. ASSUME NEW c \in Call, Call_step(c)
        PROVE  IInv' /\ Lasting
    BY <1>3, CallKeeps
  <1>4. CASE UNCHANGED vars
    BY <1>4 DEF vars, IInv, TypeOK, DevicesFit, TrustIsApproved, ReferencesHold, Binding, Fits,
                Holds, OwnerOf, Stored, Lasting, Registry!Members
  <1> QED BY <1>1, <1>2, <1>3, <1>4 DEF Next

LEMMA InitHolds == Init => IInv
  <1> SUFFICES ASSUME Init
               PROVE  IInv
    OBVIOUS
  <1>1. /\ registry = [d \in Device |-> Unknown] /\ accounts = {}
        /\ groups = [g \in Group |-> None] /\ passwords = [p \in Password |-> None]
        /\ call = [c \in Call |-> Idle] /\ approvals = {}
    BY DEF Init, Registry!Init
  <1>2. Registry!Members = {}
    BY <1>1 DEF Registry!Members
  <1>3. TypeOK
    BY <1>1, IdleFits DEF TypeOK
  <1>4. DevicesFit /\ TrustIsApproved
    BY <1>1, <1>2 DEF DevicesFit, TrustIsApproved
  <1>5. ReferencesHold
    BY <1>1 DEF ReferencesHold, Stored
  <1>6. \A c \in Call : Fits(call[c])
    BY <1>1, IdleFits
  <1> QED BY <1>3, <1>4, <1>5, <1>6 DEF IInv

-----------------------------------------------------------------------------
(* Theorems *)

\* The inductive invariant: types, references, and what every call knows.
THEOREM InvariantHolds == Spec => []IInv
  <1>1. IInv /\ [Next]_vars => IInv'
    BY StepKeeps
  <1> QED BY InitHolds, <1>1, PTL DEF Spec

\* Every variable keeps its type.
THEOREM TypeCorrect == Spec => []TypeOK
  <1>1. IInv => TypeOK
    BY DEF IInv
  <1> QED BY InvariantHolds, <1>1, PTL

\* The rows that groups and passwords refer to are there, without a transaction
\* around the look-up and the insert.
THEOREM ReferencesAreGood == Spec => []ReferencesHold
  <1>1. IInv => ReferencesHold
    BY DEF IInv
  <1> QED BY InvariantHolds, <1>1, PTL

\* What a handler of /pwd or /group answers with is the user's whose session it is.
THEOREM OwnersAreShownTheirs == Spec => []ShownToOwner
  <1>1. IInv => ShownToOwner
    BY DEF IInv, Fits, Holds, ShownToOwner
  <1> QED BY InvariantHolds, <1>1, PTL

\* validate_auth lets in only those whom a confirm approved, as they are: no
\* operation of any device leaves the flag set for another owner or address.
THEOREM ServedAreApproved == Spec => []ServedWhereApproved
  <1>1. IInv => ServedWhereApproved
    BY DEF IInv, Fits, ServedWhereApproved
  <1> QED BY InvariantHolds, <1>1, PTL

\* No create or update hands a password to another user.
THEOREM PasswordsStay == Spec => PasswordsKeepTheirOwner
  <1>1. IInv /\ [Next]_vars => [\A p \in Stored : OwnerOf(p)' = OwnerOf(p)]_vars
    BY StepKeeps DEF Lasting, OwnerOf
  <1> QED BY InvariantHolds, <1>1, PTL DEF Spec, PasswordsKeepTheirOwner

=============================================================================
