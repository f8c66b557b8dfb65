--------------------------- MODULE RideRecordsProofs ---------------------------
(***************************************************************************)
(* Theorems about UserAccounts and RideRecords.  An e-mail address belongs *)
(* to one account and a login reaches it; RideRecords implements the       *)
(* accounts, so that this holds with rides around; no charge at the end of *)
(* a ride is refused; and the three views of who rides, the list of a      *)
(* user, the rides and the active users, agree whatever was restored.      *)
(***************************************************************************)
EXTENDS RideRecords, ListProofs

-----------------------------------------------------------------------------
(* The accounts.                                                            *)

\* The clients' replies describe the accounts, all of them.
Described(accounts, replies) ==
  /\ \A a \in replies : /\ a.uid \in DOMAIN accounts
                        /\ accounts[a.uid].email = Normal[a.email]
                        /\ accounts[a.uid].password = a.password
  /\ \A u \in DOMAIN accounts : \E a \in replies : a.uid = u

OnePerEmail(accounts) ==
  \A u, v \in DOMAIN accounts : accounts[u].email = accounts[v].email => u = v

\* The snapshot is as consistent as memory, so that a crash can fall back on it.
AccountInv ==
  /\ TypeOK /\ EmailIndexConsistent
  /\ Described(users, told)
  /\ Described(disk.users, disk.told) /\ OnePerEmail(disk.users)

-----------------------------------------------------------------------------
LEMMA IndexUnique ==
  ASSUME TypeOK, EmailIndexConsistent
  PROVE  OnePerEmail(users)
<1> SUFFICES ASSUME NEW u \in DOMAIN users, NEW v \in DOMAIN users,
                    users[u].email = users[v].email
             PROVE  u = v
  BY DEF OnePerEmail
<1>1. u \in Uids /\ v \in Uids /\ users[u].email \in Emails
  BY DEF TypeOK, UserTyped
<1> QED  BY <1>1 DEF EmailIndexConsistent

\* add() keeps the two maps together if the address is the user's or is free.
LEMMA StoreKeeps ==
  ASSUME TypeOK, EmailIndexConsistent, NEW u \in Uids, NEW user, UserTyped(user), Store(u, user),
         \/ u \in DOMAIN users /\ users[u].email = user.email
         \/ u \notin DOMAIN users /\ emailIndex[user.email] = None
  PROVE  /\ EmailIndexConsistent'
         /\ DOMAIN users' = DOMAIN users \cup {u} /\ users'[u] = user
         /\ \A x \in DOMAIN users \ {u} : users'[x] = users[x]
         /\ emailIndex' \in [Emails -> Uids \cup {None}]
         /\ \A x \in DOMAIN users' : UserTyped(users'[x])
<1>1. /\ DOMAIN users' = DOMAIN users \cup {u} /\ users'[u] = user
      /\ \A x \in DOMAIN users \ {u} : users'[x] = users[x]
  BY DEF Store
<1>2. user.email \in Emails /\ emailIndex \in [Emails -> Uids \cup {None}]
  BY DEF UserTyped, TypeOK
<1>3. /\ emailIndex' \in [Emails -> Uids \cup {None}]
      /\ emailIndex'[user.email] = u
      /\ \A e \in Emails \ {user.email} : emailIndex'[e] = emailIndex[e]
  BY <1>2 DEF Store
<1>4. \A x \in DOMAIN users' : UserTyped(users'[x])
  BY <1>1 DEF TypeOK
<1>5. ASSUME NEW e \in Emails, NEW x \in Uids
      PROVE  emailIndex'[e] = x <=> x \in DOMAIN users' /\ users'[x].email = e
  <2>1. emailIndex[e] = x <=> x \in DOMAIN users /\ users[x].email = e
    BY DEF EmailIndexConsistent
  <2>2. emailIndex[e] = u <=> u \in DOMAIN users /\ users[u].email = e
    BY DEF EmailIndexConsistent
  <2>3. None # x
    BY InputAssumption
  <2>4. CASE e = user.email
    <3>1. emailIndex[e] \in {u, None}
      BY <1>2, <2>2, <2>4
    <3> QED  BY <1>1, <1>3, <2>1, <2>3, <2>4, <3>1
  <2>5. CASE e # user.email
    BY <1>1, <1>3, <2>1, <2>2, <2>5
  <2> QED  BY <2>4, <2>5
<1> QED  BY <1>1, <1>3, <1>4, <1>5 DEF EmailIndexConsistent

\* Reading a snapshot back gives the users it was made of, filed by e-mail.
LEMMA RestoreKeeps ==
  ASSUME NEW accounts, DOMAIN accounts \subseteq Uids, \A u \in DOMAIN accounts : UserTyped(accounts[u]),
         OnePerEmail(accounts), Restore(accounts)
  PROVE  /\ DOMAIN users' = DOMAIN accounts /\ \A u \in DOMAIN accounts : users'[u] = accounts[u]
         /\ EmailIndexConsistent'
         /\ emailIndex' \in [Emails -> Uids \cup {None}]
<1>1. \A u \in DOMAIN accounts : UserFromDict(accounts[u]) = accounts[u]
  BY DEF UserTyped, UserFromDict
<1>2. DOMAIN users' = DOMAIN accounts /\ \A u \in DOMAIN accounts : users'[u] = accounts[u]
  BY <1>1 DEF Restore
<1> DEFINE Holders(e) == {u \in DOMAIN accounts : accounts[u].email = e}
<1>3. ASSUME NEW e \in Emails
      PROVE  IF Holders(e) = {} THEN emailIndex'[e] = None ELSE emailIndex'[e] \in Holders(e)
  <2> DEFINE Read == {u \in DOMAIN accounts : UserFromDict(accounts[u]).email = e}
  <2>1. Read = Holders(e)
    BY <1>1
  <2>2. emailIndex'[e] = IF Read = {} THEN None ELSE CHOOSE u \in Read : TRUE
    BY <1>3, Zenon DEF Restore
  <2> HIDE DEF Read
  <2>3. Read # {} => (CHOOSE u \in Read : TRUE) \in Read
    OBVIOUS
  <2> QED  BY <2>1, <2>2, <2>3
<1>5. ASSUME NEW e \in Emails, NEW u \in Uids
      PROVE  emailIndex'[e] = u <=> u \in DOMAIN users' /\ users'[u].email = e
  <2>1. u \in DOMAIN users' /\ users'[u].email = e <=> u \in Holders(e)
    BY <1>2
  <2>2. \A x, y \in Holders(e) : x = y
    BY DEF OnePerEmail
  <2>3. None # u
    BY InputAssumption
  <2> QED  BY <1>3, <2>1, <2>2, <2>3
<1>6. emailIndex' \in [Emails -> Uids \cup {None}]
  <2>1. \A e \in Emails : emailIndex'[e] \in Uids \cup {None}
    BY <1>3
  <2>2. emailIndex' = [e \in Emails |-> emailIndex'[e]]
    <3> DEFINE File(e) == LET filed == {u \in DOMAIN accounts : UserFromDict(accounts[u]).email = e}
                          IN  IF filed = {} THEN None ELSE CHOOSE u \in filed : TRUE
    <3>1. emailIndex' = [e \in Emails |-> File(e)]
      BY DEF Restore
    <3> HIDE DEF File
    <3> QED  BY <3>1
  <2> QED  BY <2>1, <2>2
<1> QED  BY <1>2, <1>5, <1>6 DEF EmailIndexConsistent

LEMMA AccountStep ==
  ASSUME AccountInv, [Next]_vars
  PROVE  AccountInv'
<1>0. /\ TypeOK /\ EmailIndexConsistent /\ OnePerEmail(users)
      /\ Described(users, told) /\ Described(disk.users, disk.told)
      /\ OnePerEmail(disk.users)
  BY IndexUnique DEF AccountInv
<1> DEFINE Goal == AccountInv'
<1>1. ASSUME NEW e \in Emails, NEW p \in Passwords, NEW c \in Cards, Register(e, p, c)
      PROVE  Goal
  <2> DEFINE user == User(e, p, c)
  <2>1. PICK u \in Uids \ DOMAIN users :
          /\ Store(u, user)
          /\ told' = told \cup {[uid |-> u, email |-> e, password |-> p]}
    BY <1>1 DEF Register
  <2>2. UserTyped(user) /\ user.email = Normal[e] /\ user.password = p
    BY NormalAssumption DEF User, UserTyped
  <2>3. emailIndex[user.email] = None /\ disk' = disk /\ crashes' = crashes
    BY <1>1, <2>2 DEF Register, GetByEmail
  <2> HIDE DEF user
  <2>4. /\ EmailIndexConsistent'
        /\ DOMAIN users' = DOMAIN users \cup {u} /\ users'[u] = user
        /\ \A x \in DOMAIN users : users'[x] = users[x]
        /\ emailIndex' \in [Emails -> Uids \cup {None}]
        /\ \A x \in DOMAIN users' : UserTyped(users'[x])
    BY <1>0, <2>1, <2>2, <2>3, StoreKeeps
  <2>5. TypeOK'
    BY <1>0, <2>3, <2>4 DEF TypeOK
  <2>6. Described(users, told)'
    <3>1. \A a \in told' : a \in told \/ (a.uid = u /\ a.email = e /\ a.password = p)
      BY <2>1
    <3>2. \E a \in told' : a.uid = u
      <4> DEFINE reply == [uid |-> u, email |-> e, password |-> p]
      <4>1. reply \in told' /\ reply.uid = u
        BY <2>1
      <4> QED  BY <4>1
    <3> QED  BY <1>0, <2>1, <2>2, <2>4, <3>1, <3>2 DEF Described
  <2> QED  BY <1>0, <2>3, <2>4, <2>5, <2>6 DEF AccountInv
\* A stored user is replaced by one with the same address and password.
<1>2. ASSUME NEW u \in DOMAIN users, NEW user, UserTyped(user), Store(u, user),
             user.email = users[u].email, user.password = users[u].password,
             UNCHANGED <<told, disk, crashes>>
      PROVE  Goal
  <2>1. u \in Uids
    BY <1>0 DEF TypeOK
  <2>2. /\ EmailIndexConsistent'
        /\ DOMAIN users' = DOMAIN users /\ users'[u] = user
        /\ \A x \in DOMAIN users \ {u} : users'[x] = users[x]
        /\ emailIndex' \in [Emails -> Uids \cup {None}]
        /\ \A x \in DOMAIN users' : UserTyped(users'[x])
    BY <1>0, <1>2, <2>1, StoreKeeps
  <2>3. TypeOK'
    BY <1>0, <1>2, <2>2 DEF TypeOK
  <2>4. \A x \in DOMAIN users : /\ users'[x].email = users[x].email
                                /\ users'[x].password = users[x].password
    BY <1>2, <2>2
  <2>5. Described(users, told)'
    BY <1>0, <1>2, <2>2, <2>4 DEF Described
  <2> QED  BY <1>0, <1>2, <2>2, <2>3, <2>5 DEF AccountInv
<1>3. ASSUME NEW u \in Uids, NEW c \in Cards, UpdatePaymentMethod(u, c) PROVE Goal
  <2>1. u \in DOMAIN users /\ UserTyped(users[u])
    BY <1>0, <1>3 DEF UpdatePaymentMethod, TypeOK
  <2> DEFINE user == [users[u] EXCEPT !.card = c]
  <2>2. UserTyped(user) /\ user.email = users[u].email /\ user.password = users[u].password
    BY <2>1 DEF UserTyped
  <2> QED  BY <1>2, <1>3, <2>1, <2>2 DEF UpdatePaymentMethod
<1>4. ASSUME NEW u \in Uids, NEW l \in Licenses, Upgrade(u, l) PROVE Goal
  <2>1. u \in DOMAIN users /\ UserTyped(users[u])
    BY <1>0, <1>4 DEF Upgrade, TypeOK
  <2> DEFINE user == [users[u] EXCEPT !.license = l]
  <2>2. UserTyped(user) /\ user.email = users[u].email /\ user.password = users[u].password
    BY <2>1 DEF UserTyped
  <2> QED  BY <1>2, <1>4, <2>1, <2>2 DEF Upgrade
<1>5. ASSUME NEW accounts, NEW replies, Restore(accounts), told' = replies,
             DOMAIN accounts \subseteq Uids, \A u \in DOMAIN accounts : UserTyped(accounts[u]),
             OnePerEmail(accounts), Described(accounts, replies),
             disk' = [users |-> accounts, told |-> replies] \/ disk' = disk,
             crashes' \in 0..MaxCrashes
      PROVE  Goal
  <2>1. /\ DOMAIN users' = DOMAIN accounts /\ \A u \in DOMAIN accounts : users'[u] = accounts[u]
        /\ EmailIndexConsistent'
        /\ emailIndex' \in [Emails -> Uids \cup {None}]
    BY <1>5, RestoreKeeps
  <2>2. Described(users, told)'
    BY <1>5, <2>1 DEF Described
  <2>3. /\ DOMAIN disk'.users \subseteq Uids
        /\ \A u \in DOMAIN disk'.users : UserTyped(disk'.users[u])
        /\ OnePerEmail(disk'.users) /\ Described(disk'.users, disk'.told)
    BY <1>0, <1>5 DEF TypeOK
  <2>4. TypeOK'
    BY <1>5, <2>1, <2>3 DEF TypeOK
  <2> QED  BY <2>1, <2>2, <2>3, <2>4 DEF AccountInv
<1>6. CASE Restart
  BY <1>0, <1>5, <1>6 DEF Restart, TypeOK
<1>7. CASE Crash
  <2>1. crashes' \in 0..MaxCrashes
    BY <1>0, <1>7, CrashAssumption DEF Crash, TypeOK
  <2> QED  BY <1>0, <1>5, <1>7, <2>1 DEF Crash, TypeOK
<1>8. CASE UNCHANGED vars
  BY <1>0, <1>8 DEF vars, AccountInv, TypeOK, EmailIndexConsistent
<1> QED  BY <1>1, <1>3, <1>4, <1>6, <1>7, <1>8 DEF Next, Request

LEMMA AccountInit == Init => AccountInv
<1> SUFFICES ASSUME Init PROVE AccountInv
  OBVIOUS
<1>1. DOMAIN users = {} /\ DOMAIN disk.users = {} /\ told = {} /\ disk.told = {}
  BY DEF Init, NoUsers
<1>2. TypeOK
  BY <1>1, CrashAssumption DEF Init, TypeOK, NoIndex
<1>3. EmailIndexConsistent
  BY <1>1, InputAssumption DEF Init, EmailIndexConsistent, NoIndex
<1> QED  BY <1>1, <1>2, <1>3 DEF AccountInv, Described, OnePerEmail

\* Memory and snapshot are consistent in every reachable state.
THEOREM AccountsSafe == Spec => []AccountInv
<1>1. AccountInv /\ [Next]_vars => AccountInv'
  BY AccountStep
<1> QED  BY <1>1, AccountInit, PTL DEF Spec

\* The e-mail index and the users agree, and the users are well formed.
THEOREM EmailIndexCorrect == Spec => [](TypeOK /\ EmailIndexConsistent)
<1>1. AccountInv => TypeOK /\ EmailIndexConsistent
  BY DEF AccountInv
<1> QED  BY <1>1, AccountsSafe, PTL

LEMMA LoginOwner == AccountInv => LoginReturnsOwner
<1> SUFFICES ASSUME AccountInv, NEW e \in Emails, NEW p \in Passwords
             PROVE  LET owners == {a \in told : Normal[a.email] = Normal[e] /\ a.password = p}
                    IN  /\ Login(e, p) = None => owners = {}
                        /\ Login(e, p) # None => {a.uid : a \in owners} = {Login(e, p)}
  BY DEF LoginReturnsOwner
<1> DEFINE u == emailIndex[Normal[e]]
<1> DEFINE owners == {a \in told : Normal[a.email] = Normal[e] /\ a.password = p}
<1>1. TypeOK /\ EmailIndexConsistent /\ Described(users, told)
  BY DEF AccountInv
<1>2. Normal[e] \in Emails /\ u \in Uids \cup {None} /\ None \notin Uids
  BY <1>1, NormalAssumption, InputAssumption DEF TypeOK
<1>3. Login(e, p) = IF u # None /\ users[u].password = p THEN u ELSE None
  BY DEF Login, GetByEmail
\* Whoever owns the address is the account the index names.
<1>4. ASSUME NEW a \in owners PROVE a.uid = u /\ u # None /\ users[u].password = p
  <2>1. a.uid \in Uids /\ a.uid \in DOMAIN users /\ users[a.uid].email = Normal[e]
    BY <1>1 DEF Described, TypeOK
  <2>2. a.uid = u
    BY <1>1, <1>2, <2>1 DEF EmailIndexConsistent
  <2> QED  BY <1>1, <1>2, <2>1, <2>2 DEF Described
<1>5. ASSUME u # None, users[u].password = p PROVE \E a \in owners : a.uid = u
  <2>1. u \in DOMAIN users /\ users[u].email = Normal[e]
    BY <1>1, <1>2, <1>5 DEF EmailIndexConsistent
  <2> QED  BY <1>1, <1>5, <2>1 DEF Described
<1> HIDE DEF u, owners
<1>6. Login(e, p) = None => owners = {}
  BY <1>3, <1>4
<1>7. Login(e, p) # None => {a.uid : a \in owners} = {Login(e, p)}
  BY <1>3, <1>4, <1>5
<1> QED  BY <1>6, <1>7 DEF owners

\* Whoever registered, and nobody else, logs in to the account.
THEOREM LoginCorrect == Spec => []LoginReturnsOwner
BY LoginOwner, AccountsSafe, PTL

\* Stored users are well formed, in memory and on disk.
THEOREM AccountsTyped == Spec => []TypeOK
<1>1. AccountInv => TypeOK
  BY DEF AccountInv
<1> QED  BY <1>1, AccountsSafe, PTL

-----------------------------------------------------------------------------
\* Storing a user under its old id and with its old license, address and
\* password keeps every account.
LEMMA StoreKeepsAccounts ==
  ASSUME NEW u, NEW user, Store(u, user),
         u \in DOMAIN users => /\ user.email = users[u].email /\ user.password = users[u].password
                               /\ IsPro(users[u]) => user.license = users[u].license
  PROVE  \A x \in DOMAIN users : KeepsAccount(x)
<1>1. /\ DOMAIN users' = DOMAIN users \cup {u} /\ users'[u] = user
      /\ \A x \in DOMAIN users \ {u} : users'[x] = users[x]
  BY DEF Store
<1> QED  BY <1>1 DEF KeepsAccount

LEMMA AccountsStepKeeps ==
  ASSUME AccountInv, [Next]_vars, crashes' = crashes, NEW x \in DOMAIN users
  PROVE  KeepsAccount(x)
<1>0. TypeOK /\ x \in Uids
  BY DEF AccountInv, TypeOK
<1>1. ASSUME NEW e \in Emails, NEW p \in Passwords, NEW c \in Cards, Register(e, p, c)
      PROVE  KeepsAccount(x)
  <2>1. PICK u \in Uids \ DOMAIN users : Store(u, User(e, p, c))
    BY <1>1 DEF Register
  <2> QED  BY <2>1, StoreKeepsAccounts
<1>2. ASSUME NEW u \in Uids, NEW c \in Cards, UpdatePaymentMethod(u, c) PROVE KeepsAccount(x)
  <2>1. u \in DOMAIN users /\ UserTyped(users[u]) /\ Store(u, [users[u] EXCEPT !.card = c])
    BY <1>0, <1>2 DEF UpdatePaymentMethod, TypeOK
  <2> DEFINE user == [users[u] EXCEPT !.card = c]
  <2>2. /\ user.email = users[u].email /\ user.password = users[u].password
        /\ user.license = users[u].license
    BY <2>1 DEF UserTyped
  <2> QED  BY <2>1, <2>2, StoreKeepsAccounts
<1>3. ASSUME NEW u \in Uids, NEW l \in Licenses, Upgrade(u, l) PROVE KeepsAccount(x)
  <2>1. /\ u \in DOMAIN users /\ UserTyped(users[u]) /\ ~IsPro(users[u])
        /\ Store(u, [users[u] EXCEPT !.license = l])
    BY <1>0, <1>3 DEF Upgrade, TypeOK
  <2> DEFINE user == [users[u] EXCEPT !.license = l]
  <2>2. user.email = users[u].email /\ user.password = users[u].password
    BY <2>1 DEF UserTyped
  <2> QED  BY <2>1, <2>2, StoreKeepsAccounts
<1>4. CASE Restart
  <2>1. users' = [u \in DOMAIN users |-> UserFromDict(users[u])]
    BY <1>4 DEF Restart, Restore
  <2>2. UserTyped(users[x])
    BY <1>0 DEF TypeOK
  <2>3. UserFromDict(users[x]) = users[x]
    BY <2>2 DEF UserTyped, UserFromDict
  <2> QED  BY <2>1, <2>3 DEF KeepsAccount
<1>5. CASE Crash
  BY <1>0, <1>5 DEF Crash, TypeOK
<1>6. CASE UNCHANGED vars
  BY <1>6 DEF vars, KeepsAccount
<1> QED  BY <1>1, <1>2, <1>3, <1>4, <1>5, <1>6 DEF Next, Request

\* No step but a crash loses an account, changes its address or password, or
\* takes Pro away from it.
THEOREM AccountsAreKept == Spec => AccountsKept
<1>1. AccountInv /\ [Next]_vars => [crashes' = crashes => \A u \in DOMAIN users : KeepsAccount(u)]_vars
  BY AccountsStepKeeps
<1> QED  BY <1>1, AccountsSafe, PTL DEF Spec, AccountsKept

-----------------------------------------------------------------------------
(* Rides of accounts.                                                       *)

RideTyped(r) ==
  r \in [user : Uids, status : {"active", "completed", "cancelled"},
         ended : BOOLEAN, fee : Nat]

\* Every user can be charged, and every ride is one of a user that exists.
Payable(accounts, rides) ==
  /\ \A u \in DOMAIN accounts : accounts[u].card \notin BlankCards
  /\ \A r \in DOMAIN rides : RideTyped(rides[r]) /\ rides[r].user \in DOMAIN accounts

\* The snapshot is as good as memory, since a crash falls back on it.
RecordsInv ==
  /\ AccountInv
  /\ Payable(users, ride)
  /\ Payable(disk.users, stored.ride)

-----------------------------------------------------------------------------
\* A step of the records is a step of the accounts or leaves them alone.
LEMMA RecordsStepMaps ==
  ASSUME [RecordsNext]_rvars
  PROVE  [Next]_vars
<1>1. CASE Request /\ UNCHANGED <<records, stored>>
  BY <1>1 DEF Next
<1>2. ASSUME NEW u \in Uids, StartRide(u) \/ ReportDegraded(u) PROVE UNCHANGED vars
  BY <1>2 DEF StartRide, ReportDegraded
<1>3. ASSUME NEW r \in RideIds, EndRide(r) \/ CancelRide(r) PROVE UNCHANGED vars
  BY <1>3 DEF EndRide, CancelRide
<1>4. CASE RestartAll
  BY <1>4 DEF RestartAll, Next
<1>5. CASE CrashAll
  BY <1>5 DEF CrashAll, Next
<1>6. CASE UNCHANGED rvars
  BY <1>6 DEF rvars
<1> QED  BY <1>1, <1>2, <1>3, <1>4, <1>5, <1>6 DEF RecordsNext

\* The accounts go on as if there were no rides.
THEOREM RecordsImplementAccounts == RecordsSpec => Spec
<1>1. RecordsInit => Init
  BY DEF RecordsInit
<1>2. [RecordsNext]_rvars => [Next]_vars
  BY RecordsStepMaps
<1> QED  BY <1>1, <1>2, PTL DEF RecordsSpec, Spec

\* With rides around, a login reaches the account of its owner, and only that.
THEOREM RecordsLoginCorrect == RecordsSpec => []LoginReturnsOwner
BY RecordsImplementAccounts, LoginCorrect, PTL

\* With rides around, the e-mail index agrees with the users.
THEOREM RecordsEmailIndexCorrect == RecordsSpec => [](TypeOK /\ EmailIndexConsistent)
BY RecordsImplementAccounts, EmailIndexCorrect, PTL

\* With rides around, no step but a crash loses an account or part of it.
THEOREM RecordsAccountsAreKept == RecordsSpec => AccountsKept
BY RecordsImplementAccounts, AccountsAreKept, PTL

-----------------------------------------------------------------------------
\* add() of a user that can be charged, over the same user or as a new one.
LEMMA StoreKeepsPayable ==
  ASSUME NEW u, NEW user, Store(u, user), user.card \notin BlankCards,
         Payable(users, ride), UNCHANGED ride
  PROVE  Payable(users, ride)'
<1>1. /\ DOMAIN users' = DOMAIN users \cup {u} /\ users'[u] = user
      /\ \A x \in DOMAIN users \ {u} : users'[x] = users[x]
  BY DEF Store
<1> QED  BY <1>1 DEF Payable

LEMMA RequestKeepsPayable ==
  ASSUME AccountInv, Payable(users, ride), Request, UNCHANGED ride
  PROVE  Payable(users, ride)'
<1>1. \A u \in DOMAIN users : UserTyped(users[u]) /\ users[u].card \notin BlankCards
  BY DEF AccountInv, TypeOK, Payable
<1>2. ASSUME NEW e \in Emails, NEW p \in Passwords, NEW c \in Cards, Register(e, p, c)
      PROVE  Payable(users, ride)'
  <2>1. PICK u \in Uids : Store(u, User(e, p, c))
    BY <1>2 DEF Register
  <2>2. User(e, p, c).card \notin BlankCards
    BY <1>2 DEF Register, User
  <2> QED  BY <2>1, <2>2, StoreKeepsPayable
<1>3. ASSUME NEW u \in Uids, NEW c \in Cards, UpdatePaymentMethod(u, c)
      PROVE  Payable(users, ride)'
  <2> DEFINE user == [users[u] EXCEPT !.card = c]
  <2>1. u \in DOMAIN users /\ Store(u, user) /\ c \notin BlankCards
    BY <1>3 DEF UpdatePaymentMethod
  <2>2. user.card = c
    BY <1>1, <2>1 DEF UserTyped
  <2> HIDE DEF user
  <2> QED  BY <2>1, <2>2, StoreKeepsPayable
<1>4. ASSUME NEW u \in Uids, NEW l \in Licenses, Upgrade(u, l)
      PROVE  Payable(users, ride)'
  <2> DEFINE user == [users[u] EXCEPT !.license = l]
  <2>1. u \in DOMAIN users /\ Store(u, user)
    BY <1>4 DEF Upgrade
  <2>2. user.card = users[u].card
    BY <1>1, <2>1 DEF UserTyped
  <2> HIDE DEF user
  <2> QED  BY <1>1, <2>1, <2>2, StoreKeepsPayable
<1> QED  BY <1>2, <1>3, <1>4 DEF Request

\* A ride changes hands with none of the handlers.
LEMMA RideStepKeepsPayable ==
  ASSUME AccountInv, Payable(users, ride), UNCHANGED users,
         \/ \E u \in Uids : StartRide(u) \/ ReportDegraded(u)
         \/ \E r \in RideIds : EndRide(r) \/ CancelRide(r)
  PROVE  Payable(users, ride)'
<1>1. ASSUME NEW u \in Uids, StartRide(u) PROVE Payable(users, ride)'
  <2> DEFINE new == [user |-> u, status |-> "active", ended |-> FALSE, fee |-> 0]
  <2>1. PICK r \in RideIds : ride' = Put(ride, r, new)
    BY <1>1 DEF StartRide
  <2>2. RideTyped(new) /\ new.user \in DOMAIN users
    BY <1>1 DEF RideTyped, StartRide, MayStart
  <2> HIDE DEF new
  <2> QED  BY <2>1, <2>2 DEF Put, Payable
\* Every other step changes status, end and fee of one ride.
<1>2. ASSUME NEW r, NEW new, RideTyped(new), new.user = ride[r].user,
             ride' = [ride EXCEPT ![r] = new]
      PROVE  Payable(users, ride)'
  BY <1>2 DEF Payable
<1>3. ASSUME NEW r \in DOMAIN ride, NEW fee \in Nat
      PROVE  RideTyped(Ended(ride[r], fee)) /\ Ended(ride[r], fee).user = ride[r].user
  BY <1>3 DEF Payable, RideTyped, Ended
<1>4. ASSUME NEW r \in RideIds, EndRide(r) PROVE Payable(users, ride)'
  <2>1. r \in DOMAIN ride /\ ride' = [ride EXCEPT ![r] = Ended(ride[r], RideFee)]
    BY <1>4 DEF EndRide
  <2> QED  BY <1>2, <1>3, <2>1 DEF RideFee
<1>5. ASSUME NEW r \in RideIds, CancelRide(r) PROVE Payable(users, ride)'
  <2> DEFINE new == [ride[r] EXCEPT !.status = "cancelled"]
  <2>1. r \in DOMAIN ride /\ ride' = [ride EXCEPT ![r] = new]
    BY <1>5 DEF CancelRide
  <2>2. RideTyped(new) /\ new.user = ride[r].user
    BY <2>1 DEF Payable, RideTyped
  <2> HIDE DEF new
  <2> QED  BY <1>2, <2>1, <2>2
<1>6. ASSUME NEW u \in Uids, ReportDegraded(u) PROVE Payable(users, ride)'
  <2> DEFINE r == ActiveRideOf(u)
  <2>1. ride' = [ride EXCEPT ![r] = Ended(ride[r], 0)]
    BY <1>6 DEF ReportDegraded
  <2> HIDE DEF r
  <2>2. CASE r \in DOMAIN ride
    BY <1>2, <1>3, <2>1, <2>2
  <2>3. CASE r \notin DOMAIN ride
    BY <2>1, <2>3 DEF Payable
  <2> QED  BY <2>2, <2>3
<1> QED  BY <1>1, <1>4, <1>5, <1>6

\* The records read back are those of the snapshot, but for the status.
LEMMA RestoreGivesPayable ==
  ASSUME NEW accounts, NEW d, Payable(accounts, d.ride),
         \A u \in DOMAIN accounts : UserTyped(accounts[u]),
         Restore(accounts), RestoreRecords(d)
  PROVE  Payable(users, ride)'
<1>1. /\ DOMAIN users' = DOMAIN accounts
      /\ \A u \in DOMAIN accounts : users'[u] = UserFromDict(accounts[u])
  BY DEF Restore
<1>2. ASSUME NEW u \in DOMAIN accounts PROVE users'[u].card \notin BlankCards
  <2>1. UserFromDict(accounts[u]).card = accounts[u].card
    BY DEF UserTyped, UserFromDict
  <2> QED  BY <1>1, <2>1 DEF Payable
<1>3. ride' = [r \in DOMAIN d.ride |-> RideFromDict(d.ride[r])]
  BY DEF RestoreRecords
<1>4. ASSUME NEW r \in DOMAIN d.ride
      PROVE  RideTyped(RideFromDict(d.ride[r])) /\ RideFromDict(d.ride[r]).user \in DOMAIN accounts
  BY DEF Payable, RideTyped, RideFromDict
<1> QED  BY <1>1, <1>2, <1>3, <1>4 DEF Payable

LEMMA RecordsStep ==
  ASSUME RecordsInv, [RecordsNext]_rvars
  PROVE  RecordsInv'
<1>0. /\ AccountInv /\ Payable(users, ride) /\ Payable(disk.users, stored.ride)
      /\ \A u \in DOMAIN users : UserTyped(users[u])
      /\ \A u \in DOMAIN disk.users : UserTyped(disk.users[u])
  BY DEF RecordsInv, AccountInv, TypeOK
<1>1. AccountInv'
  BY <1>0, RecordsStepMaps, AccountStep
<1>2. CASE Request /\ UNCHANGED <<records, stored>>
  <2>1. UNCHANGED disk
    BY <1>2 DEF Request, Register, UpdatePaymentMethod, Upgrade
  <2>2. Payable(users, ride)'
    BY <1>0, <1>2, RequestKeepsPayable DEF records
  <2> QED  BY <1>0, <1>1, <1>2, <2>1, <2>2 DEF RecordsInv
<1>3. CASE \/ \E u \in Uids : StartRide(u) \/ ReportDegraded(u)
           \/ \E r \in RideIds : EndRide(r) \/ CancelRide(r)
  <2>1. UNCHANGED <<vars, stored>>
    BY <1>3 DEF StartRide, ReportDegraded, EndRide, CancelRide
  <2>2. Payable(users, ride)'
    BY <1>0, <1>3, <2>1, RideStepKeepsPayable DEF vars
  <2> QED  BY <1>0, <1>1, <2>1, <2>2 DEF RecordsInv, vars
<1>4. CASE RestartAll
  <2>1. /\ Restore(users) /\ RestoreRecords(Snapshot) /\ Snapshot.ride = ride
        /\ disk'.users = users /\ stored'.ride = ride
    BY <1>4 DEF RestartAll, Restart, Snapshot
  <2>2. Payable(users, ride)'
    BY <1>0, <2>1, RestoreGivesPayable
  <2> QED  BY <1>0, <1>1, <2>1, <2>2 DEF RecordsInv
<1>5. CASE CrashAll
  <2>1. Restore(disk.users) /\ RestoreRecords(stored) /\ UNCHANGED <<disk, stored>>
    BY <1>5 DEF CrashAll, Crash
  <2>2. Payable(users, ride)'
    BY <1>0, <2>1, RestoreGivesPayable
  <2> QED  BY <1>0, <1>1, <2>1, <2>2 DEF RecordsInv
<1>6. CASE UNCHANGED rvars
  BY <1>0, <1>1, <1>6 DEF rvars, vars, records, RecordsInv
<1> QED  BY <1>2, <1>3, <1>4, <1>5, <1>6 DEF RecordsNext

LEMMA RecordsInitially == RecordsInit => RecordsInv
<1> SUFFICES ASSUME RecordsInit PROVE RecordsInv
  OBVIOUS
<1>1. DOMAIN users = {} /\ DOMAIN disk.users = {} /\ DOMAIN ride = {} /\ DOMAIN stored.ride = {}
  BY DEF RecordsInit, Init, NoUsers, EmptyDict
<1>2. AccountInv
  BY AccountInit DEF RecordsInit
<1> QED  BY <1>1, <1>2 DEF RecordsInv, Payable

\* No charge is ever refused: whoever has an active ride has an account with a
\* payment method, whatever happened since the ride began.
THEOREM ChargeCorrect == RecordsSpec => []ChargeNeverRefused
<1>1. RecordsInv /\ [RecordsNext]_rvars => RecordsInv'
  BY RecordsStep
<1>2. RecordsInv => ChargeNeverRefused
  BY DEF RecordsInv, Payable, ChargeNeverRefused, Chargeable
<1> QED  BY <1>1, <1>2, RecordsInitially, PTL DEF RecordsSpec

-----------------------------------------------------------------------------
(* Rides, their lists and the active users.                                 *)

\* The order has every ride; a ride that ended is completed, no other is.
Ordered(rides, order) ==
  /\ rides = [r \in DOMAIN rides |-> rides[r]]
  /\ order \in Seq(DOMAIN rides) /\ Elements(order) = DOMAIN rides /\ Distinct(order)
  /\ \A r \in DOMAIN rides : rides[r].ended <=> rides[r].status = "completed"

\* Who has an active ride is an active user, on that ride.
Named(rides, names) ==
  \A r \in DOMAIN rides :
    rides[r].status = "active" => /\ rides[r].user \in DOMAIN names
                                  /\ names[rides[r].user] = r

ListsMatch == \A u \in Uids : Listed(ridesOf, u) = Kept(rideOrder, RidesOfUser(u))

ListsInv ==
  /\ ridesOf \in Dicts(Uids, DOMAIN ride)
  /\ DOMAIN ridesOf = {ride[r].user : r \in DOMAIN ride}
  /\ ListsMatch

\* The snapshot has no lists: they are filed again when it is read.
RidersInv ==
  /\ RecordsInv
  /\ ListsInv
  /\ Ordered(ride, rideOrder) /\ Named(ride, active)
  /\ Ordered(stored.ride, stored.rideOrder) /\ Named(stored.ride, stored.active)

-----------------------------------------------------------------------------
\* What is written of a ride is what is read.
LEMMA RideReadBack ==
  ASSUME NEW d, RideTyped(d), d.ended <=> d.status = "completed"
  PROVE  RideFromDict(d) = d
<1>1. /\ d.status \in {"active", "completed", "cancelled"} /\ d.ended \in BOOLEAN
      /\ [d EXCEPT !.status = d.status] = d
  BY DEF RideTyped
<1> DEFINE status == CASE d.ended -> "completed"
                       [] ~d.ended /\ d.status = "cancelled" -> "cancelled"
                       [] OTHER -> "active"
<1>2. status = d.status
  <2>1. CASE d.ended
    BY <2>1
  <2>2. CASE ~d.ended
    BY <1>1, <2>2
  <2> QED  BY <2>1, <2>2
<1>3. RideFromDict(d) = [d EXCEPT !.status = status]
  BY DEF RideFromDict
<1> QED  BY <1>1, <1>2, <1>3

\* restore() files the rides as add() did.
LEMMA RestoreFiles ==
  ASSUME NEW accounts, NEW d, DOMAIN accounts \subseteq Uids, Payable(accounts, d.ride),
         Ordered(d.ride, d.rideOrder), RestoreRecords(d)
  PROVE  ride' = d.ride /\ ListsInv'
<1> DEFINE D == DOMAIN d.ride
           key == [r \in D |-> d.ride[r].user]
           value == [r \in D |-> r]
           G == Grouped(d.rideOrder, key, value)
<1>1. ride' = d.ride
  <2>1. \A r \in D : RideFromDict(d.ride[r]) = d.ride[r]
    BY RideReadBack DEF Payable, Ordered
  <2>2. ride' = [r \in D |-> d.ride[r]]
    BY <2>1 DEF RestoreRecords
  <2> QED  BY <2>2 DEF Ordered
<1>2. rideOrder' = d.rideOrder /\ ridesOf' = G
  BY DEF RestoreRecords
<1>3. Keyed(D, Uids, D, key, value) /\ d.rideOrder \in Seq(D) /\ Elements(d.rideOrder) = D
  BY DEF Keyed, Payable, Ordered
<1>4. G \in Dicts(Uids, D) /\ FiledBy(G, D, d.rideOrder, key, value)
  <2> HIDE DEF D, key, value
  <2> QED  BY <1>3, GroupedLists
<1>5. DOMAIN ridesOf' = {ride'[r].user : r \in DOMAIN ride'}
  <2>1. DOMAIN G = {key[x] : x \in D}
    BY <1>3, <1>4 DEF FiledBy
  <2>2. {key[x] : x \in D} = {d.ride[r].user : r \in D}
    OBVIOUS
  <2> QED  BY <1>1, <1>2, <2>1, <2>2
<1>6. ASSUME NEW u \in Uids
      PROVE  Listed(G, u) = Kept(d.rideOrder, {r \in D : d.ride[r].user = u})
  <2> DEFINE own == Kept(d.rideOrder, {r \in D : key[r] = u})
  <2>1. Listed(G, u) = [i \in DOMAIN own |-> value[own[i]]]
    <3> HIDE DEF D, key, value
    <3> QED  BY <1>4, Zenon DEF FiledBy
  <2>2. own \in Seq(D)
    BY <1>3, KeptList
  <2>3. {r \in D : key[r] = u} = {r \in D : d.ride[r].user = u}
    OBVIOUS
  <2>4. [i \in DOMAIN own |-> value[own[i]]] = own
    <3> HIDE DEF own
    <3>1. own = [i \in DOMAIN own |-> own[i]] /\ \A i \in DOMAIN own : own[i] \in D
      BY <2>2, LenProperties
    <3>2. \A i \in DOMAIN own : value[own[i]] = own[i]
      BY <3>1
    <3> HIDE DEF value
    <3>3. [i \in DOMAIN own |-> value[own[i]]] = [i \in DOMAIN own |-> own[i]]
      BY <3>2
    <3> QED  BY <3>1, <3>3
  <2> QED  BY <2>1, <2>3, <2>4
<1>7. ListsMatch'
  BY <1>1, <1>2, <1>6 DEF ListsMatch, RidesOfUser
<1> QED  BY <1>1, <1>2, <1>4, <1>5, <1>7 DEF ListsInv

-----------------------------------------------------------------------------
\* report_degraded_vehicle finds an active ride of the user, or none.
LEMMA FoundIsActive ==
  ASSUME ListsInv, Ordered(ride, rideOrder), NEW u \in Uids
  PROVE  IF RidesOfUser(u) \cap ActiveRides = {} THEN ActiveRideOf(u) = None
         ELSE ActiveRideOf(u) \in RidesOfUser(u) \cap ActiveRides
<1> DEFINE own == Kept(rideOrder, RidesOfUser(u))
           found == Kept(own, ActiveRides)
<1>1. own \in Seq(DOMAIN ride) /\ Elements(own) = RidesOfUser(u)
  <2>1. rideOrder \in Seq(DOMAIN ride) /\ Elements(rideOrder) = DOMAIN ride
    BY DEF Ordered
  <2>2. own \in Seq(DOMAIN ride) /\ Elements(own) = DOMAIN ride \cap RidesOfUser(u)
    BY <2>1, KeptList
  <2> QED  BY <2>2 DEF RidesOfUser
<1>2. found \in Seq(DOMAIN ride) /\ Elements(found) = RidesOfUser(u) \cap ActiveRides
  <2> HIDE DEF own
  <2> QED  BY <1>1, KeptList
<1>3. ActiveRideOf(u) = IF found = <<>> THEN None ELSE Head(found)
  BY DEF ActiveRideOf, ListsInv, ListsMatch
<1> HIDE DEF found
<1>4. CASE found = <<>>
  BY <1>2, <1>3, <1>4, ElementsEmpty
<1>5. CASE found # <<>>
  <2>1. 1 \in DOMAIN found /\ Head(found) = found[1]
    BY <1>2, <1>5, EmptySeq, LenProperties
  <2>2. Head(found) \in Elements(found)
    BY <2>1 DEF Elements
  <2> QED  BY <1>2, <1>3, <1>5, <2>2
<1> QED  BY <1>4, <1>5

LEMMA OneActiveRide ==
  ASSUME Named(ride, active), NEW r \in ActiveRides, NEW q \in ActiveRides,
         ride[r].user = ride[q].user
  PROVE  r = q
BY DEF Named, ActiveRides

LEMMA NamedGivesActiveRideNamed ==
  ASSUME RidersInv
  PROVE  ActiveRideNamed
<1> SUFFICES ASSUME NEW r \in DOMAIN ride, ride[r].status = "active"
             PROVE  /\ ride[r].user \in DOMAIN active /\ active[ride[r].user] = r
                    /\ ActiveRideOf(ride[r].user) = r
  BY DEF ActiveRideNamed
<1>1. PICK u : u = ride[r].user
  OBVIOUS
<1>2. u \in Uids /\ r \in RidesOfUser(u) \cap ActiveRides
  BY <1>1 DEF RidersInv, RecordsInv, Payable, RideTyped, RidesOfUser, ActiveRides
<1>3. ActiveRideOf(u) \in RidesOfUser(u) \cap ActiveRides
  BY <1>2, FoundIsActive DEF RidersInv
<1>4. ActiveRideOf(u) = r
  BY <1>1, <1>3, <1>2, OneActiveRide DEF RidersInv, RidesOfUser
<1> QED  BY <1>1, <1>4 DEF RidersInv, Named

-----------------------------------------------------------------------------
(* Steps.                                                                   *)

\* What RidersInv says of memory.
RidersNow == ListsInv /\ Ordered(ride, rideOrder) /\ Named(ride, active)

LEMMA StartKeepsRiders ==
  ASSUME RidersInv, NEW u \in Uids, StartRide(u)
  PROVE  RidersNow'
<1>1. PICK r \in RideIds \ DOMAIN ride :
        /\ ride' = Put(ride, r, [user |-> u, status |-> "active", ended |-> FALSE, fee |-> 0])
        /\ rideOrder' = Append(rideOrder, r)
        /\ ridesOf' = Filed(ridesOf, u, r)
        /\ active' = Put(active, u, r)
  BY DEF StartRide
<1> DEFINE D == DOMAIN ride
<1>2. /\ DOMAIN ride' = D \cup {r}
      /\ \A q \in D : ride'[q] = ride[q]
      /\ ride'[r].user = u /\ ride'[r].status = "active" /\ ride'[r].ended = FALSE
      /\ ride' = [q \in DOMAIN ride' |-> ride'[q]]
  BY <1>1 DEF Put
<1>3. /\ rideOrder \in Seq(D) /\ Elements(rideOrder) = D /\ Distinct(rideOrder)
      /\ rideOrder \in Seq(D \cup {r})
  <2>1. rideOrder \in Seq(D) /\ Elements(rideOrder) = D /\ Distinct(rideOrder)
    BY DEF RidersInv, Ordered
  <2> QED  BY <2>1
<1>4. rideOrder' \in Seq(D \cup {r}) /\ Elements(rideOrder') = D \cup {r} /\ Distinct(rideOrder')
  BY <1>1, <1>3, AppendProperties, ElementsAppend
<1>5. Ordered(ride, rideOrder)'
  <2>1. ASSUME NEW q \in DOMAIN ride' PROVE ride'[q].ended <=> ride'[q].status = "completed"
    <3>1. CASE q = r
      BY <1>2, <3>1
    <3>2. CASE q # r
      BY <1>2, <2>1, <3>2 DEF RidersInv, Ordered
    <3> QED  BY <3>1, <3>2
  <2> QED  BY <1>2, <1>4, <2>1 DEF Ordered
<1>6. Named(ride, active)'
  <2>1. DOMAIN active' = DOMAIN active \cup {u} /\ active'[u] = r
        /\ \A x \in DOMAIN active : x # u => active'[x] = active[x]
    BY <1>1 DEF Put
  <2>2. u \notin DOMAIN active
    BY DEF StartRide, MayStart
  <2>3. ASSUME NEW q \in DOMAIN ride', ride'[q].status = "active"
        PROVE  ride'[q].user \in DOMAIN active' /\ active'[ride'[q].user] = q
    <3>1. CASE q = r
      BY <1>2, <2>1, <3>1
    <3>2. CASE q # r
      <4>1. q \in D /\ ride'[q] = ride[q]
        BY <1>2, <3>2
      <4>2. ride[q].user \in DOMAIN active /\ active[ride[q].user] = q
        BY <2>3, <4>1 DEF RidersInv, Named
      <4> QED  BY <2>1, <2>2, <4>1, <4>2
    <3> QED  BY <3>1, <3>2
  <2> QED  BY <2>3 DEF Named
<1>7. ridesOf \in Dicts(Uids, D \cup {r})
  <2>1. PICK K \in SUBSET Uids : ridesOf \in [K -> Seq(D)]
    BY DEF RidersInv, ListsInv, Dicts
  <2>2. Seq(D) \subseteq Seq(D \cup {r})
    OBVIOUS
  <2>3. ridesOf \in [K -> Seq(D \cup {r})]
    BY <2>1, <2>2
  <2> QED  BY <2>1, <2>3 DEF Dicts
<1>8. ridesOf' \in Dicts(Uids, D \cup {r}) /\ FilesOne(ridesOf', ridesOf, u, r)
  BY <1>1, <1>7, FiledLists
<1>9. DOMAIN ridesOf' = {ride'[q].user : q \in DOMAIN ride'}
  BY <1>2, <1>8 DEF FilesOne, RidersInv, ListsInv
<1>10. ASSUME NEW w \in Uids
       PROVE  Listed(ridesOf', w) = Kept(rideOrder', RidesOfUser(w)')
  <2>1. RidesOfUser(w)' = IF w = u THEN RidesOfUser(w) \cup {r} ELSE RidesOfUser(w)
    BY <1>2 DEF RidesOfUser
  <2>2. Listed(ridesOf, w) = Kept(rideOrder, RidesOfUser(w))
    BY DEF RidersInv, ListsInv, ListsMatch
  <2>3. Kept(rideOrder, RidesOfUser(w)') = Kept(rideOrder, RidesOfUser(w))
    <3>1. Elements(rideOrder) \cap RidesOfUser(w)' = Elements(rideOrder) \cap RidesOfUser(w)
      BY <1>1, <1>3, <2>1
    <3> QED  BY <1>3, <3>1, KeptSame
  <2>4. Kept(rideOrder', RidesOfUser(w)')
          = IF r \in RidesOfUser(w)' THEN Append(Kept(rideOrder, RidesOfUser(w)'), r)
            ELSE Kept(rideOrder, RidesOfUser(w)')
    BY <1>1, <1>3, KeptAppend
  <2>5. r \in RidesOfUser(w)' <=> w = u
    BY <1>1, <2>1 DEF RidesOfUser
  <2> QED  BY <1>8, <2>2, <2>3, <2>4, <2>5 DEF FilesOne
<1>11. ListsMatch'
  BY <1>10 DEF ListsMatch
<1>12. ListsInv'
  BY <1>2, <1>8, <1>9, <1>11 DEF ListsInv
<1> QED  BY <1>5, <1>6, <1>12 DEF RidersNow

\* An active ride is over, and its user still filed as active or not.
LEMMA OverKeepsRiders ==
  ASSUME RidersInv, NEW r \in ActiveRides, NEW new,
         ride' = [ride EXCEPT ![r] = new],
         new.user = ride[r].user, new.status # "active", new.ended <=> new.status = "completed",
         active' = active \/ active' = Without(active, ride[r].user),
         UNCHANGED <<rideOrder, ridesOf>>
  PROVE  RidersNow'
<1>1. /\ DOMAIN ride' = DOMAIN ride /\ r \in DOMAIN ride /\ ride'[r] = new
      /\ \A q \in DOMAIN ride \ {r} : ride'[q] = ride[q]
      /\ ride' = [q \in DOMAIN ride' |-> ride'[q]]
  BY DEF ActiveRides
<1>2. \A q \in DOMAIN ride : ride'[q].user = ride[q].user
  BY <1>1
<1>3. ListsInv'
  <2>1. \A u : RidesOfUser(u)' = RidesOfUser(u)
    BY <1>1, <1>2 DEF RidesOfUser
  <2>2. ListsMatch'
    BY <2>1 DEF RidersInv, ListsInv, ListsMatch
  <2>3. {ride'[q].user : q \in DOMAIN ride'} = {ride[q].user : q \in DOMAIN ride}
    BY <1>1, <1>2
  <2> QED  BY <1>1, <2>2, <2>3 DEF RidersInv, ListsInv
<1>4. Ordered(ride, rideOrder)'
  <2>1. ASSUME NEW q \in DOMAIN ride' PROVE ride'[q].ended <=> ride'[q].status = "completed"
    <3>1. CASE q = r
      BY <1>1, <3>1
    <3>2. CASE q # r
      BY <1>1, <2>1, <3>2 DEF RidersInv, Ordered
    <3> QED  BY <3>1, <3>2
  <2>2. /\ rideOrder' \in Seq(DOMAIN ride') /\ Elements(rideOrder') = DOMAIN ride'
        /\ Distinct(rideOrder')
    BY <1>1 DEF RidersInv, Ordered
  <2> QED  BY <1>1, <2>1, <2>2 DEF Ordered
<1>5. Named(ride, active)'
  <2>1. ASSUME NEW q \in DOMAIN ride', ride'[q].status = "active"
        PROVE  ride'[q].user \in DOMAIN active' /\ active'[ride'[q].user] = q
    <3>1. q # r /\ q \in DOMAIN ride /\ ride'[q] = ride[q]
      BY <1>1, <2>1
    <3>2. ride[q].user \in DOMAIN active /\ active[ride[q].user] = q
      BY <2>1, <3>1 DEF RidersInv, Named
    <3>3. ride[q].user # ride[r].user
      BY <2>1, <3>1, OneActiveRide DEF RidersInv, ActiveRides
    <3>4. ride[q].user \in DOMAIN active' /\ active'[ride[q].user] = active[ride[q].user]
      BY <3>2, <3>3 DEF Without
    <3> QED  BY <3>1, <3>2, <3>4
  <2> QED  BY <2>1 DEF Named
<1> QED  BY <1>3, <1>4, <1>5 DEF RidersNow

LEMMA RideStepKeepsRiders ==
  ASSUME RidersInv,
         \/ \E u \in Uids : StartRide(u) \/ ReportDegraded(u)
         \/ \E r \in RideIds : EndRide(r) \/ CancelRide(r)
  PROVE  RidersNow'
<1>0. \A r \in DOMAIN ride : RideTyped(ride[r])
  BY DEF RidersInv, RecordsInv, Payable
<1>1. ASSUME NEW r \in ActiveRides, NEW fee
      PROVE  /\ Ended(ride[r], fee).user = ride[r].user /\ Ended(ride[r], fee).status # "active"
             /\ Ended(ride[r], fee).ended <=> Ended(ride[r], fee).status = "completed"
  BY <1>0 DEF Ended, ActiveRides, RideTyped
<1>2. ASSUME NEW u \in Uids, StartRide(u) PROVE RidersNow'
  BY <1>2, StartKeepsRiders
<1>3. ASSUME NEW u \in Uids, ReportDegraded(u) PROVE RidersNow'
  <2>1. PICK r : r = ActiveRideOf(u)
    OBVIOUS
  <2>2. r \in RidesOfUser(u) \cap ActiveRides
    BY <1>3, <2>1, FoundIsActive DEF ReportDegraded, RidersInv
  <2>3. ride[r].user = u
    BY <2>2 DEF RidesOfUser
  <2>4. /\ ride' = [ride EXCEPT ![r] = Ended(ride[r], 0)] /\ active' = Without(active, ride[r].user)
        /\ UNCHANGED <<rideOrder, ridesOf>>
    BY <1>3, <2>1, <2>3 DEF ReportDegraded
  <2> QED  BY <1>1, <2>2, <2>4, OverKeepsRiders
<1>4. ASSUME NEW r \in RideIds, EndRide(r) PROVE RidersNow'
  <2>1. /\ r \in ActiveRides /\ ride' = [ride EXCEPT ![r] = Ended(ride[r], RideFee)]
        /\ active' = active \/ active' = Without(active, ride[r].user)
        /\ UNCHANGED <<rideOrder, ridesOf>>
    BY <1>4 DEF EndRide, ActiveRides
  <2> QED  BY <1>1, <2>1, OverKeepsRiders
<1>5. ASSUME NEW r \in RideIds, CancelRide(r) PROVE RidersNow'
  <2> DEFINE new == [ride[r] EXCEPT !.status = "cancelled"]
  <2>1. /\ r \in ActiveRides /\ ride' = [ride EXCEPT ![r] = new]
        /\ UNCHANGED <<rideOrder, ridesOf, active>>
    BY <1>5 DEF CancelRide, ActiveRides
  <2>2. new.user = ride[r].user /\ new.status = "cancelled" /\ new.ended = ride[r].ended
    BY <1>0, <2>1 DEF ActiveRides, RideTyped
  <2>3. ~ride[r].ended
    BY <2>1 DEF RidersInv, Ordered, ActiveRides
  <2> HIDE DEF new
  <2> QED  BY <2>1, <2>2, <2>3, OverKeepsRiders
<1> QED  BY <1>2, <1>3, <1>4, <1>5

LEMMA RidersStep ==
  ASSUME RidersInv, [RecordsNext]_rvars
  PROVE  RidersInv'
<1>0. RecordsInv'
  BY RecordsStep DEF RidersInv
<1>1. /\ DOMAIN users \subseteq Uids /\ DOMAIN disk.users \subseteq Uids
      /\ Payable(users, ride) /\ Payable(disk.users, stored.ride)
  BY DEF RidersInv, RecordsInv, AccountInv, TypeOK
<1>2. ASSUME NEW d, Ordered(d.ride, d.rideOrder), Named(d.ride, d.active),
             NEW accounts, DOMAIN accounts \subseteq Uids, Payable(accounts, d.ride),
             RestoreRecords(d)
      PROVE  RidersNow'
  <2>1. ride' = d.ride /\ ListsInv'
    BY <1>2, RestoreFiles
  <2>2. rideOrder' = d.rideOrder /\ active' = d.active
    BY <1>2 DEF RestoreRecords
  <2>3. Ordered(ride', rideOrder') /\ Named(ride', active')
    BY <1>2, <2>1, <2>2
  <2> QED  BY <2>1, <2>3 DEF RidersNow
<1>3. CASE Request /\ UNCHANGED <<records, stored>>
  BY <1>0, <1>3 DEF records, RidersInv, ListsInv, ListsMatch, RidesOfUser, Ordered, Named
<1>4. CASE \/ \E u \in Uids : StartRide(u) \/ ReportDegraded(u)
           \/ \E r \in RideIds : EndRide(r) \/ CancelRide(r)
  <2>1. UNCHANGED stored
    BY <1>4 DEF StartRide, ReportDegraded, EndRide, CancelRide
  <2>2. RidersNow'
    BY <1>4, RideStepKeepsRiders
  <2> QED  BY <1>0, <2>1, <2>2 DEF RidersInv, RidersNow
<1>5. CASE RestartAll
  <2>1. /\ RestoreRecords(Snapshot) /\ stored' = Snapshot
        /\ Snapshot.ride = ride /\ Snapshot.rideOrder = rideOrder /\ Snapshot.active = active
    BY <1>5 DEF RestartAll, Snapshot
  <2>2. Ordered(Snapshot.ride, Snapshot.rideOrder) /\ Named(Snapshot.ride, Snapshot.active)
    BY <2>1 DEF RidersInv
  <2>3. RidersNow'
    BY <1>1, <1>2, <2>1, <2>2
  <2>4. Ordered(stored'.ride, stored'.rideOrder) /\ Named(stored'.ride, stored'.active)
    BY <2>1, <2>2
  <2> QED  BY <1>0, <2>3, <2>4 DEF RidersInv, RidersNow
<1>6. CASE CrashAll
  <2>1. RestoreRecords(stored) /\ UNCHANGED stored
    BY <1>6 DEF CrashAll
  <2>2. RidersNow'
    BY <1>1, <1>2, <2>1 DEF RidersInv
  <2> QED  BY <1>0, <2>1, <2>2 DEF RidersInv, RidersNow
<1>7. CASE UNCHANGED rvars
  BY <1>0, <1>7 DEF rvars, records, RidersInv, ListsInv, ListsMatch, RidesOfUser, Ordered, Named
<1> QED  BY <1>3, <1>4, <1>5, <1>6, <1>7 DEF RecordsNext

LEMMA RidersInitially == RecordsInit => RidersInv
<1> SUFFICES ASSUME RecordsInit PROVE RidersInv
  OBVIOUS
<1>1. /\ ride = EmptyDict /\ rideOrder = <<>> /\ ridesOf = EmptyDict
      /\ stored.ride = EmptyDict /\ stored.rideOrder = <<>>
  BY DEF RecordsInit
<1>2. DOMAIN EmptyDict = {} /\ EmptyDict = [x \in DOMAIN EmptyDict |-> EmptyDict[x]]
      /\ EmptyDict \in [{} -> Seq({})]
  BY DEF EmptyDict
<1>3. Elements(<<>>) = {} /\ Distinct(<<>>) /\ <<>> \in Seq({})
  BY ElementsEmpty, EmptySeq
<1>4. Ordered(ride, rideOrder) /\ Ordered(stored.ride, stored.rideOrder)
  BY <1>1, <1>2, <1>3 DEF Ordered
<1>5. Named(ride, active) /\ Named(stored.ride, stored.active)
  BY <1>1, <1>2 DEF Named
<1>6. ListsMatch
  BY <1>1, <1>2, KeptNothing DEF ListsMatch, Listed
<1>7. ridesOf \in Dicts(Uids, DOMAIN ride)
  BY <1>1, <1>2 DEF Dicts
<1> QED  BY <1>1, <1>2, <1>4, <1>5, <1>6, <1>7, RecordsInitially DEF RidersInv, ListsInv

-----------------------------------------------------------------------------
\* The list of a user has the rides of the user, all of them, once each and in the
\* order they were started, whether add() filed them or restore() did.
THEOREM RideListsCorrect == RecordsSpec => []RideListsAgree
<1>1. RidersInv /\ [RecordsNext]_rvars => RidersInv'
  BY RidersStep
<1>2. RidersInv => RideListsAgree
  <2> SUFFICES ASSUME RidersInv, NEW u \in Uids
               PROVE  /\ Listed(ridesOf, u) = Kept(rideOrder, RidesOfUser(u))
                      /\ Distinct(Listed(ridesOf, u))
    BY DEF RideListsAgree, Distinct
  <2>1. Listed(ridesOf, u) = Kept(rideOrder, RidesOfUser(u))
    BY DEF RidersInv, ListsInv, ListsMatch
  <2>2. Distinct(Kept(rideOrder, RidesOfUser(u)))
    BY KeptList DEF RidersInv, Ordered
  <2> QED  BY <2>1, <2>2
<1> QED  BY <1>1, <1>2, RidersInitially, PTL DEF RecordsSpec

\* A report and an end request that look for the active ride of a user find the
\* same one, and active_users names it.
THEOREM ActiveRideCorrect == RecordsSpec => []ActiveRideNamed
<1>1. RidersInv /\ [RecordsNext]_rvars => RidersInv'
  BY RidersStep
<1>2. RidersInv => ActiveRideNamed
  BY NamedGivesActiveRideNamed
<1> QED  BY <1>1, <1>2, RidersInitially, PTL DEF RecordsSpec

\* A graceful restart changes nothing about rides and active users.
THEOREM RestartCorrect == RecordsSpec => RestartKeepsRides
<1>1. RidersInv /\ [RecordsNext]_rvars => RidersInv'
  BY RidersStep
<1>2. RidersInv /\ RidersInv' => (RestartAll => UNCHANGED records)
  <2> SUFFICES ASSUME RidersInv, RidersInv', RestartAll PROVE UNCHANGED records
    OBVIOUS
  <2>1. /\ RestoreRecords(Snapshot)
        /\ Snapshot.ride = ride /\ Snapshot.rideOrder = rideOrder /\ Snapshot.active = active
    BY DEF RestartAll, Snapshot
  <2>2. rideOrder' = rideOrder /\ active' = active
    BY <2>1 DEF RestoreRecords
  <2>3. ride' = ride
    <3>1. DOMAIN users \subseteq Uids /\ Payable(users, Snapshot.ride)
          /\ Ordered(Snapshot.ride, Snapshot.rideOrder)
      BY <2>1 DEF RidersInv, RecordsInv, AccountInv, TypeOK
    <3> QED  BY <2>1, <3>1, RestoreFiles
  <2>4. \A u \in Uids : Listed(ridesOf', u) = Listed(ridesOf, u)
    BY <2>2, <2>3 DEF RidersInv, ListsInv, ListsMatch, RidesOfUser
  <2>5. DOMAIN ridesOf' = DOMAIN ridesOf
    BY <2>3 DEF RidersInv, ListsInv
  <2>6. ridesOf' = ridesOf
    BY <2>4, <2>5, SameLists DEF RidersInv, ListsInv
  <2> QED  BY <2>2, <2>3, <2>6 DEF records
<1>3. [][RidersInv /\ RidersInv']_rvars => RestartKeepsRides
  BY <1>2, PTL DEF RestartKeepsRides
<1> QED  BY <1>1, <1>3, RidersInitially, PTL DEF RecordsSpec
=============================================================================
