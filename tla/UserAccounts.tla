------------------------------ MODULE UserAccounts ------------------------------
(***************************************************************************)
(* User accounts of TLVFlow: registration, login, payment method, upgrade  *)
(* to Pro, and the users repository across restarts.                       *)
(*                                                                         *)
(* None of these handlers awaits anything that suspends: each is one step. *)
(* A password hash is modelled by the one property the code uses: it is    *)
(* verified by the password it was made from and by no other.              *)
(***************************************************************************)
EXTENDS Naturals, FiniteSets

CONSTANTS
  Uids,        \* BOUND: the uuid4 user ids that can ever be drawn
  Emails,      \* e-mail addresses as clients type them
  Normal,      \* Normal[e]: e stripped and lower-cased
  Malformed,   \* addresses that _EMAIL_RE does not match
  Passwords,   \* passwords clients choose or try
  TooShort,    \* those of fewer than 8 characters
  Cards,       \* payment method ids
  BlankCards,  \* those that are empty or all blanks
  Licenses,    \* driver's licenses: a number and an expiry date
  Expired,     \* those whose expiry date has passed
  MaxCrashes,  \* BOUND: crashes in a behaviour
  None         \* Python's None

ASSUME NormalAssumption ==
  /\ Normal \in [Emails -> Emails]
  /\ \A e \in Emails : Normal[Normal[e]] = Normal[e]

ASSUME InputAssumption ==
  /\ Malformed \subseteq Emails /\ TooShort \subseteq Passwords
  /\ BlankCards \subseteq Cards /\ Expired \subseteq Licenses
  /\ None \notin Uids \cup Licenses

ASSUME CrashAssumption == MaxCrashes \in Nat

VARIABLES
  users,       \* _users_by_id: user id -> user, a partial function
  emailIndex,  \* _user_id_by_email: e-mail -> user id or None
  told,        \* the replies clients hold: [uid, email, password] of each account
  disk,        \* the users part of state.json and `told` when it was written
  crashes      \* crashes so far

vars == <<users, emailIndex, told, disk, crashes>>

NoIndex == [e \in Emails |-> None]

NoUsers == [u \in {} |-> None]

-----------------------------------------------------------------------------
(* The users repository and the domain class.                               *)

User_AsTyped(email, password, card) ==
  [email |-> email, password |-> password, card |-> card, license |-> None]

User(email, password, card) ==
  [email |-> Normal[email], password |-> password, card |-> card, license |-> None]

IsPro(user) == user.license # None

GetByEmail_AsTyped(e) == emailIndex[e]

\* get_by_email normalises the address it is asked for.
GetByEmail(e) == emailIndex[Normal[e]]

Store_NoIndex(u, user) ==
  /\ users' = [x \in DOMAIN users \cup {u} |-> IF x = u THEN user ELSE users[x]]
  /\ UNCHANGED emailIndex

\* add(): stores the user and files it under its e-mail.
Store(u, user) ==
  /\ users' = [x \in DOMAIN users \cup {u} |-> IF x = u THEN user ELSE users[x]]
  /\ emailIndex' = [emailIndex EXCEPT ![user.email] = u]

\* What POST /login answers: the user id, or None for 401.
Login(e, password) ==
  LET u == GetByEmail(e)
  IN  IF u # None /\ users[u].password = password THEN u ELSE None

-----------------------------------------------------------------------------
Init ==
  /\ users = NoUsers
  /\ emailIndex = NoIndex
  /\ told = {}
  /\ disk = [users |-> NoUsers, told |-> {}]
  /\ crashes = 0

\* POST /register: the address must be free, the input valid.
Register(e, password, card) ==
  /\ GetByEmail(e) = None
  /\ e \notin Malformed /\ password \notin TooShort /\ card \notin BlankCards
  /\ \E u \in Uids \ DOMAIN users :
       /\ Store(u, User(e, password, card))
       /\ told' = told \cup {[uid |-> u, email |-> e, password |-> password]}
  /\ UNCHANGED <<disk, crashes>>

UpdatePaymentMethod_Blank(u, card) ==
  /\ u \in DOMAIN users
  /\ Store(u, [users[u] EXCEPT !.card = card])
  /\ UNCHANGED <<told, disk, crashes>>

\* PATCH /users/{user_id}/payment-method
UpdatePaymentMethod(u, card) ==
  /\ u \in DOMAIN users
  /\ card \notin BlankCards
  /\ Store(u, [users[u] EXCEPT !.card = card])
  /\ UNCHANGED <<told, disk, crashes>>

\* POST /user/upgrade: a ProUser with the same identity and credentials takes
\* the user's place.  The expiry date is stored and not compared to the clock.
Upgrade(u, license) ==
  /\ u \in DOMAIN users
  /\ ~IsPro(users[u])
  /\ Store(u, [users[u] EXCEPT !.license = license])
  /\ UNCHANGED <<told, disk, crashes>>

-----------------------------------------------------------------------------
(* Restarts.                                                                *)

UserFromDict_Basic(d) == [d EXCEPT !.license = None]

\* The user that the stored dictionary of a user is read back as.
UserFromDict(d) == [d EXCEPT !.email = Normal[d.email]]

\* restore(): every stored user, filed again under its e-mail.
Restore(stored) ==
  /\ users' = [u \in DOMAIN stored |-> UserFromDict(stored[u])]
  /\ emailIndex' = [e \in Emails |->
       LET filed == {u \in DOMAIN stored : UserFromDict(stored[u]).email = e}
       IN  IF filed = {} THEN None ELSE CHOOSE u \in filed : TRUE]

\* Shutdown writes the users out and the next startup reads them back.
Restart ==
  /\ disk' = [users |-> users, told |-> told]
  /\ Restore(users)
  /\ UNCHANGED <<told, crashes>>

\* Nothing is written: the next startup reads the previous snapshot, and the
\* accounts opened since are gone.
Crash ==
  /\ crashes < MaxCrashes
  /\ crashes' = crashes + 1
  /\ Restore(disk.users)
  /\ told' = disk.told
  /\ UNCHANGED disk

Request ==
  \/ \E e \in Emails, p \in Passwords, c \in Cards : Register(e, p, c)
  \/ \E u \in Uids, c \in Cards : UpdatePaymentMethod(u, c)
  \/ \E u \in Uids, l \in Licenses : Upgrade(u, l)

Next == Request \/ Restart \/ Crash

Spec == Init /\ [][Next]_vars

-----------------------------------------------------------------------------
(* Properties.                                                              *)

UserTyped(user) ==
  /\ user \in [email : Emails, password : Passwords, card : Cards,
               license : Licenses \cup {None}]
  /\ Normal[user.email] = user.email

\* Stored users are well formed, in memory and on disk, and their e-mail is in
\* normal form.
TypeOK ==
  /\ DOMAIN users \subseteq Uids /\ \A u \in DOMAIN users : UserTyped(users[u])
  /\ DOMAIN disk.users \subseteq Uids
  /\ \A u \in DOMAIN disk.users : UserTyped(disk.users[u])
  /\ emailIndex \in [Emails -> Uids \cup {None}]
  /\ crashes \in 0..MaxCrashes

\* The two maps of UsersRepository agree, so an address belongs to one account
\* at most (README "email uniqueness enforcement", users_repository.py:27).
EmailIndexConsistent ==
  \A e \in Emails, u \in Uids :
    emailIndex[e] = u <=> u \in DOMAIN users /\ users[u].email = e

\* Whoever was given an account logs in to that account and to no other, with
\* any spelling of its address and the password it was opened with, whatever
\* upgrades, card changes and restarts happened since; nobody else logs in
\* (users_service.py:11, users.py:148).
LoginReturnsOwner ==
  \A e \in Emails, p \in Passwords :
    LET owners == {a \in told : Normal[a.email] = Normal[e] /\ a.password = p}
    IN  /\ Login(e, p) = None => owners = {}
        /\ Login(e, p) # None => {a.uid : a \in owners} = {Login(e, p)}

KeepsAccount(u) ==
  /\ u \in DOMAIN users'
  /\ users'[u].email = users[u].email /\ users'[u].password = users[u].password
  /\ IsPro(users[u]) => users'[u].license = users[u].license

\* Short of a crash no step loses an account, changes its address or password,
\* or takes Pro away from it (users.py:152, users_repository.py:36).
AccountsKept == [][crashes' = crashes => \A u \in DOMAIN users : KeepsAccount(u)]_vars

\* users.py:354 "license was verified at upgrade": no Pro user has a license
\* that had expired when it was handed in.
LicenseVerified == \A u \in DOMAIN users : users[u].license \notin Expired
=============================================================================
