--------------------------- MODULE ServicesProofs ---------------------------
(***************************************************************************)
(* Theorems about the parts of the services, for any number of accounts,   *)
(* requests, checkouts, orders and events: the users of the admin panel,   *)
(* the health endpoints, the checkout, and the inventories with their      *)
(* rows.                                                                   *)
(***************************************************************************)
EXTENDS MCServices, SequenceTheorems, FiniteSetTheorems, TLAPS

(* Users of the admin panel.                                               *)
UserObjects == [email : Emails, name : Usernames, roles : UserRoles]
UserViews == [email : Emails, name : Usernames, roles : UserRoles \union {Untold}]
UserRequests == {NoRequest}
                \union [op : {"create"}, email : Emails, name : Usernames, roles : UserRoles]
                \union [op : {"update"}, id : Accounts, command : Updates]

Creating(r) == hashing[r].op = "create"
Updating(r) == hashing[r].op = "update"

(* The object of a user is there as long as the Map or a request has it.   *)
UserTypes ==
  /\ user \in [Accounts -> UserObjects \union {NoAccount}]
  /\ told \in [Accounts -> UserViews \union {NoAccount}]
  /\ hashing \in [Requests -> UserRequests]
  /\ users \subseteq Accounts /\ raced \in BOOLEAN /\ halfway \in BOOLEAN
  /\ \A u \in users : user[u] # NoAccount
  /\ \A r \in Requests : Updating(r) => user[hashing[r].id] # NoAccount

(* What a request that hashes has checked stays true while nobody writes;  *)
(* one update at the most is under way, whose user the log cannot tell yet.*)
ChecksStillHold ==
  /\ \A r \in Requests : Creating(r) => EmailIsFree(hashing[r].email) /\ NameIsFree(hashing[r].name)
  /\ \A r \in Requests : Updating(r) =>
       /\ hashing[r].id \in users
       /\ user[hashing[r].id].email = hashing[r].command.email
       /\ user[hashing[r].id].name = hashing[r].command.name
  /\ \A r, q \in Requests : Updating(r) /\ Updating(q) => r = q

LogTellsOthers ==
  /\ users = {u \in Accounts : told[u] # NoAccount}
  /\ \A u \in users :
       /\ told[u].roles \in {Untold, user[u].roles}
       /\ (\A r \in Requests : Updating(r) => hashing[r].id # u) =>
            user[u].email = told[u].email /\ user[u].name = told[u].name

UserInv ==
  /\ UserTypes
  /\ ~raced => UsersAreDistinct /\ ChecksStillHold /\ (~halfway => LogTellsOthers)

LEMMA UserFields ==
  /\ \A x \in UserObjects : x.email \in Emails /\ x.name \in Usernames /\ x.roles \in UserRoles
  /\ \A x \in UserViews : /\ x.email \in Emails /\ x.name \in Usernames
                          /\ x.roles \in UserRoles \union {Untold}
  /\ NoAccount \notin UserObjects /\ NoAccount \notin UserViews
  /\ \A c \in Updates : c.email \in Emails /\ c.name \in Usernames
  /\ \A x \in UserObjects, c \in Updates :
       Updated(x, c) \in UserObjects /\ Updated(x, c).email = c.email
         /\ Updated(x, c).name = c.name /\ Updated(x, c).roles = x.roles
  /\ \A x \in UserViews, c \in Updates :
       Updated(x, c) \in UserViews /\ Updated(x, c).email = c.email
         /\ Updated(x, c).name = c.name /\ Updated(x, c).roles = x.roles
<1>1. UserObjects \subseteq UserViews
  BY DEF UserObjects, UserViews
<1> QED BY <1>1, UserAdminAssumption DEF UserObjects, UserViews, Updates, Updated

LEMMA RequestKinds ==
  \A c \in UserRequests :
    \/ c = NoRequest /\ c.op = "none"
    \/ /\ c.op = "create" /\ c # NoRequest
       /\ c.email \in Emails /\ c.name \in Usernames /\ c.roles \in UserRoles
    \/ c.op = "update" /\ c # NoRequest /\ c.id \in Accounts /\ c.command \in Updates
BY DEF UserRequests, NoRequest

LEMMA InitUsers == UserInit => UserInv
<1> SUFFICES ASSUME UserInit PROVE UserInv
  OBVIOUS
<1>1. NoRequest \in UserRequests /\ NoRequest.op = "none"
  BY DEF UserRequests, NoRequest
<1>2. \A r \in Requests : ~Creating(r) /\ ~Updating(r)
  BY <1>1 DEF UserInit, Creating, Updating
<1>3. UserTypes
  BY <1>1, <1>2 DEF UserInit, UserTypes
<1>4. UsersAreDistinct /\ ChecksStillHold /\ LogTellsOthers
  BY <1>2 DEF UserInit, UsersAreDistinct, ChecksStillHold, LogTellsOthers
<1> QED BY <1>3, <1>4 DEF UserInv

LEMMA CreateUserStep ==
  ASSUME UserInv, NEW r \in Requests, NEW email \in Emails, NEW name \in Usernames,
         NEW roles \in UserRoles, CreateUser(r, email, name, roles)
  PROVE  UserInv'
<1> DEFINE c == [op |-> "create", email |-> email, name |-> name, roles |-> roles]
<1>1. /\ hashing[r] = NoRequest /\ EmailIsFree(email) /\ NameIsFree(name)
      /\ hashing' = [hashing EXCEPT ![r] = c]
      /\ UNCHANGED <<user, users, told, raced, halfway>>
  BY DEF CreateUser
<1>2. c \in UserRequests /\ c.op = "create" /\ c.email = email /\ c.name = name
  BY DEF UserRequests
<1>3. hashing \in [Requests -> UserRequests]
  BY DEF UserInv, UserTypes
<1> HIDE DEF c
<1>4. /\ hashing'[r] = c
      /\ \A q \in Requests : q # r => hashing'[q] = hashing[q]
      /\ hashing' \in [Requests -> UserRequests]
  BY <1>1, <1>2, <1>3
<1>5. ~Updating(r)'
  BY <1>2, <1>4 DEF Updating
<1>6. \A q \in Requests : Updating(q)' => Updating(q) /\ hashing'[q] = hashing[q]
  BY <1>4, <1>5 DEF Updating
<1>7. UserTypes'
  BY <1>1, <1>4, <1>6 DEF UserInv, UserTypes
<1>8. ASSUME ~raced PROVE UsersAreDistinct' /\ ChecksStillHold'
  <2>1. UsersAreDistinct /\ ChecksStillHold
    BY <1>8 DEF UserInv
  <2>2. UsersAreDistinct'
    BY <1>1, <2>1 DEF UsersAreDistinct
  <2>3. ASSUME NEW q \in Requests, Creating(q)'
        PROVE  (EmailIsFree(hashing[q].email) /\ NameIsFree(hashing[q].name))'
    BY <1>1, <1>2, <1>4, <2>1, <2>3 DEF ChecksStillHold, Creating, EmailIsFree, NameIsFree
  <2> QED BY <1>1, <1>6, <2>1, <2>2, <2>3 DEF ChecksStillHold
<1>9. ASSUME ~raced, ~halfway PROVE LogTellsOthers'
  <2>1. ASSUME NEW u \in users PROVE (\A q \in Requests : Updating(q)' => hashing'[q].id # u) =>
                                       \A q \in Requests : Updating(q) => hashing[q].id # u
    <3>1. \A q \in Requests : Updating(q) => Updating(q)' /\ hashing'[q] = hashing[q]
      BY <1>1, <1>4, RequestKinds DEF Updating, NoRequest
    <3> QED BY <3>1
  <2>2. LogTellsOthers
    BY <1>9 DEF UserInv
  <2> QED BY <1>1, <2>1, <2>2 DEF LogTellsOthers
<1> QED BY <1>1, <1>7, <1>8, <1>9 DEF UserInv

LEMMA SaveCreatedStep == ASSUME UserInv, NEW r \in Requests, SaveCreated(r) PROVE UserInv'
<1> DEFINE c == hashing[r]
<1>1. c.op = "create"
  BY DEF SaveCreated
<1>2. PICK u \in Accounts :
        /\ user[u] = NoAccount
        /\ user' = [user EXCEPT ![u] = [email |-> c.email, name |-> c.name, roles |-> c.roles]]
        /\ users' = users \union {u}
        /\ told' = [told EXCEPT ![u] = [email |-> c.email, name |-> c.name, roles |-> Untold]]
  BY DEF SaveCreated
<1>3. /\ hashing' = [hashing EXCEPT ![r] = NoRequest]
      /\ raced' = (raced \/ \E q \in Requests \ {r} : hashing[q] # NoRequest)
      /\ UNCHANGED halfway
  BY DEF SaveCreated, Written
<1>4. UserTypes
  BY DEF UserInv
<1>5. c.email \in Emails /\ c.name \in Usernames /\ c.roles \in UserRoles
  BY <1>1, <1>4, RequestKinds DEF UserTypes
<1> DEFINE x == [email |-> c.email, name |-> c.name, roles |-> c.roles]
           y == [email |-> c.email, name |-> c.name, roles |-> Untold]
<1>6. /\ x \in UserObjects /\ x # NoAccount /\ x.email = c.email /\ x.name = c.name
      /\ y \in UserViews /\ y # NoAccount /\ y.email = c.email /\ y.name = c.name
      /\ y.roles = Untold
  <2>1. x \in UserObjects /\ y \in UserViews
    BY <1>5 DEF UserObjects, UserViews
  <2> QED BY <2>1, UserFields
<1>7. /\ user' = [user EXCEPT ![u] = x] /\ told' = [told EXCEPT ![u] = y]
  BY <1>2
<1> HIDE DEF c, x, y
<1>8. u \notin users /\ NoRequest \in UserRequests /\ NoRequest.op = "none"
  BY <1>2, <1>4 DEF UserTypes, UserRequests, NoRequest
<1>9. UserTypes'
  <2>1. user' \in [Accounts -> UserObjects \union {NoAccount}] /\ told' \in [Accounts -> UserViews \union {NoAccount}]
    BY <1>4, <1>6, <1>7 DEF UserTypes
  <2>2. hashing' \in [Requests -> UserRequests] /\ raced' \in BOOLEAN /\ halfway' \in BOOLEAN
        /\ users' \subseteq Accounts
    BY <1>2, <1>3, <1>4, <1>8 DEF UserTypes
  <2>3. \A v \in users' : user'[v] # NoAccount
    BY <1>2, <1>4, <1>6, <1>7 DEF UserTypes
  <2>4. \A q \in Requests : Updating(q)' => Updating(q) /\ hashing'[q] = hashing[q]
    BY <1>3, <1>4, <1>8 DEF UserTypes, Updating
  <2>5. \A q \in Requests : Updating(q)' => user'[hashing'[q].id] # NoAccount
    BY <1>4, <1>6, <1>7, <2>4, RequestKinds DEF UserTypes, Updating
  <2> QED BY <2>1, <2>2, <2>3, <2>5 DEF UserTypes
<1>10. ASSUME ~raced'
       PROVE  UsersAreDistinct' /\ ChecksStillHold' /\ (~halfway' => LogTellsOthers')
  <2>1. /\ ~raced /\ \A q \in Requests : q # r => hashing[q] = NoRequest
        /\ UsersAreDistinct /\ ChecksStillHold /\ (~halfway => LogTellsOthers)
    BY <1>3, <1>10 DEF UserInv
  <2>2. \A q \in Requests : hashing'[q] = NoRequest
    BY <1>3, <1>4, <2>1 DEF UserTypes
  <2>3. \A q \in Requests : ~Creating(q)' /\ ~Updating(q)'
    BY <1>8, <2>2 DEF Creating, Updating
  <2>4. \A v \in users : user'[v] = user[v] /\ told'[v] = told[v] /\ v # u
    BY <1>4, <1>7, <1>8 DEF UserTypes
  <2>5. user'[u] = x /\ told'[u] = y
    BY <1>4, <1>7 DEF UserTypes
  <2>6. \A v \in users : user[v].email # c.email /\ user[v].name # c.name
    BY <1>1, <2>1 DEF ChecksStillHold, Creating, EmailIsFree, NameIsFree, c
  <2>7. UsersAreDistinct'
    BY <1>2, <1>6, <2>1, <2>4, <2>5, <2>6 DEF UsersAreDistinct
  <2>8. ChecksStillHold'
    BY <2>3 DEF ChecksStillHold
  <2>9. ASSUME ~halfway' PROVE LogTellsOthers'
    <3>1. LogTellsOthers /\ \A q \in Requests : ~Updating(q)
      BY <1>1, <1>3, <1>8, <2>1, <2>9 DEF Updating, c
    <3>2. users' = {v \in Accounts : told'[v] # NoAccount}
      BY <1>2, <1>4, <1>6, <1>7, <3>1 DEF LogTellsOthers, UserTypes
    <3>3. ASSUME NEW v \in users'
          PROVE  /\ told'[v].roles \in {Untold, user'[v].roles}
                 /\ user'[v].email = told'[v].email /\ user'[v].name = told'[v].name
      BY <1>2, <1>6, <2>4, <2>5, <3>1 DEF LogTellsOthers
    <3> QED BY <3>2, <3>3 DEF LogTellsOthers
  <2> QED BY <2>7, <2>8, <2>9
<1> QED BY <1>9, <1>10 DEF UserInv

(* An update takes an email and a name that nobody else has.               *)
LEMMA NobodyElseHasIt ==
  ASSUME UsersAreDistinct, NEW u \in users, NEW c
  PROVE  \A v \in users : v # u =>
           /\ MayTakeEmail(u, c) => user[v].email # c.email
           /\ MayTakeName(u, c) => user[v].name # c.name
BY DEF UsersAreDistinct, MayTakeEmail, MayTakeName, EmailIsFree, NameIsFree

LEMMA UpdateUserStep ==
  ASSUME UserInv, NEW u \in Accounts, NEW c \in Updates, UpdateUser(u, c)
  PROVE  UserInv'
<1>1. /\ u \in users /\ MayTakeEmail(u, c) /\ MayTakeName(u, c)
      /\ user' = [user EXCEPT ![u] = Updated(user[u], c)]
      /\ told' = IF told[u] = NoAccount THEN told ELSE [told EXCEPT ![u] = Updated(told[u], c)]
      /\ raced' = (raced \/ \E q \in Requests : hashing[q] # NoRequest)
      /\ UNCHANGED <<users, hashing, halfway>>
  BY DEF UpdateUser, TellUpdate, Tell, Written
<1>2. UserTypes /\ user[u] \in UserObjects
  BY <1>1 DEF UserInv, UserTypes
<1> DEFINE x == Updated(user[u], c)
           y == Updated(told[u], c)
<1>3. /\ x \in UserObjects /\ x # NoAccount
      /\ x.email = c.email /\ x.name = c.name /\ x.roles = user[u].roles
  BY <1>2, UserFields
<1>4. told[u] # NoAccount => /\ y \in UserViews /\ y # NoAccount
                             /\ y.email = c.email /\ y.name = c.name /\ y.roles = told[u].roles
  BY <1>2, UserFields DEF UserTypes
<1> HIDE DEF x, y
<1>5. user' = [user EXCEPT ![u] = x]
      /\ told' = IF told[u] = NoAccount THEN told ELSE [told EXCEPT ![u] = y]
  BY <1>1 DEF x, y
<1>6. UserTypes'
  <2>1. user' \in [Accounts -> UserObjects \union {NoAccount}] /\ told' \in [Accounts -> UserViews \union {NoAccount}]
    BY <1>2, <1>3, <1>4, <1>5 DEF UserTypes
  <2>2. \A v \in Accounts : user[v] # NoAccount => user'[v] # NoAccount
    BY <1>2, <1>3, <1>5 DEF UserTypes
  <2>3. \A v \in users' : user'[v] # NoAccount
    BY <1>1, <1>2, <2>2 DEF UserTypes
  <2>4. \A q \in Requests : Updating(q)' => user'[hashing'[q].id] # NoAccount
    BY <1>1, <1>2, <2>2, RequestKinds DEF UserTypes, Updating
  <2> QED BY <1>1, <1>2, <2>1, <2>3, <2>4 DEF UserTypes
<1>7. ASSUME ~raced'
      PROVE  UsersAreDistinct' /\ ChecksStillHold' /\ (~halfway' => LogTellsOthers')
  <2>1. /\ \A q \in Requests : hashing[q] = NoRequest
        /\ UsersAreDistinct /\ ChecksStillHold /\ (~halfway => LogTellsOthers)
    BY <1>1, <1>7 DEF UserInv
  <2>2. \A q \in Requests : ~Creating(q) /\ ~Updating(q) /\ ~Creating(q)' /\ ~Updating(q)'
    BY <1>1, <2>1 DEF Creating, Updating, NoRequest
  <2>3. /\ \A v \in users : v # u => user'[v] = user[v] /\ told'[v] = told[v]
        /\ user'[u] = x
    BY <1>2, <1>5 DEF UserTypes
  <2>4. UsersAreDistinct'
    BY <1>1, <1>3, <2>1, <2>3, NobodyElseHasIt DEF UsersAreDistinct
  <2>5. ChecksStillHold'
    BY <2>2 DEF ChecksStillHold
  <2>6. ASSUME ~halfway' PROVE LogTellsOthers'
    <3>1. LogTellsOthers /\ told[u] # NoAccount
      BY <1>1, <2>1, <2>6 DEF LogTellsOthers
    <3>2. told'[u] = y /\ \A v \in Accounts : told'[v] # NoAccount <=> told[v] # NoAccount
      BY <1>2, <1>4, <1>5, <3>1 DEF UserTypes
    <3>3. users' = {v \in Accounts : told'[v] # NoAccount}
      BY <1>1, <3>1, <3>2 DEF LogTellsOthers
    <3>4. ASSUME NEW v \in users'
          PROVE  /\ told'[v].roles \in {Untold, user'[v].roles}
                 /\ user'[v].email = told'[v].email /\ user'[v].name = told'[v].name
      BY <1>1, <1>3, <1>4, <2>2, <2>3, <3>1, <3>2 DEF LogTellsOthers
    <3> QED BY <3>3, <3>4 DEF LogTellsOthers
  <2> QED BY <2>4, <2>5, <2>6
<1> QED BY <1>6, <1>7 DEF UserInv

LEMMA UpdateRefusedStep ==
  ASSUME UserInv, NEW u \in Accounts, NEW c \in Updates, UpdateRefused(u, c)
  PROVE  UserInv'
<1>1. /\ u \in users /\ MayTakeEmail(u, c)
      /\ user' = [user EXCEPT ![u] = [user[u] EXCEPT !.email = c.email]]
      /\ raced' = (raced \/ \E q \in Requests : hashing[q] # NoRequest)
      /\ halfway' = TRUE
      /\ UNCHANGED <<users, hashing, told>>
  BY DEF UpdateRefused, Written
<1>2. UserTypes /\ user[u] \in UserObjects
  BY <1>1 DEF UserInv, UserTypes
<1> DEFINE x == [user[u] EXCEPT !.email = c.email]
<1>3. x \in UserObjects /\ x # NoAccount /\ x.email = c.email /\ x.name = user[u].name
  <2>1. x \in UserObjects /\ x.email = c.email /\ x.name = user[u].name
    BY <1>2, UserFields DEF UserObjects
  <2> QED BY <2>1, UserFields
<1> HIDE DEF x
<1>4. user' = [user EXCEPT ![u] = x]
  BY <1>1 DEF x
<1>5. UserTypes'
  <2>1. user' \in [Accounts -> UserObjects \union {NoAccount}]
    BY <1>2, <1>3, <1>4 DEF UserTypes
  <2>2. \A v \in Accounts : user[v] # NoAccount => user'[v] # NoAccount
    BY <1>2, <1>3, <1>4 DEF UserTypes
  <2>3. \A v \in users' : user'[v] # NoAccount
    BY <1>1, <1>2, <2>2 DEF UserTypes
  <2>4. \A q \in Requests : Updating(q)' => user'[hashing'[q].id] # NoAccount
    BY <1>1, <1>2, <2>2, RequestKinds DEF UserTypes, Updating
  <2> QED BY <1>1, <1>2, <2>1, <2>3, <2>4 DEF UserTypes
<1>6. ASSUME ~raced' PROVE UsersAreDistinct' /\ ChecksStillHold'
  <2>1. (\A q \in Requests : hashing[q] = NoRequest) /\ UsersAreDistinct
    BY <1>1, <1>6 DEF UserInv
  <2>2. \A q \in Requests : ~Creating(q)' /\ ~Updating(q)'
    BY <1>1, <2>1 DEF Creating, Updating, NoRequest
  <2>3. (\A v \in users : v # u => user'[v] = user[v]) /\ user'[u] = x
    BY <1>2, <1>4 DEF UserTypes
  <2>4. UsersAreDistinct'
    BY <1>1, <1>3, <2>1, <2>3, NobodyElseHasIt DEF UsersAreDistinct
  <2> QED BY <2>2, <2>4 DEF ChecksStillHold
<1> QED BY <1>1, <1>5, <1>6 DEF UserInv

LEMMA UpdateRolesStep ==
  ASSUME UserInv, NEW u \in Accounts, NEW roles \in UserRoles, UpdateUserRoles(u, roles)
  PROVE  UserInv'
<1> DEFINE x == [user[u] EXCEPT !.roles = roles]
           y == [told[u] EXCEPT !.roles = roles]
<1>1. /\ u \in users
      /\ user' = [user EXCEPT ![u] = x]
      /\ told' = IF told[u] = NoAccount THEN told ELSE [told EXCEPT ![u] = y]
      /\ raced' = (raced \/ \E q \in Requests : hashing[q] # NoRequest)
      /\ UNCHANGED <<users, hashing, halfway>>
  BY DEF UpdateUserRoles, Tell, Written
<1>2. UserTypes /\ user[u] \in UserObjects
  BY <1>1 DEF UserInv, UserTypes
<1>3. x \in UserObjects /\ x # NoAccount
      /\ x.email = user[u].email /\ x.name = user[u].name /\ x.roles = roles
  <2>1. x \in UserObjects /\ x.email = user[u].email /\ x.name = user[u].name /\ x.roles = roles
    BY <1>2 DEF UserObjects
  <2> QED BY <2>1, UserFields
<1>4. told[u] # NoAccount => /\ y \in UserViews /\ y # NoAccount
                             /\ y.email = told[u].email /\ y.name = told[u].name /\ y.roles = roles
  <2>1. told[u] \in UserViews => /\ y \in UserViews
                                 /\ y.email = told[u].email /\ y.name = told[u].name /\ y.roles = roles
    BY DEF UserViews
  <2> QED BY <1>2, <2>1, UserFields DEF UserTypes
<1> HIDE DEF x, y
<1>5. UserTypes'
  <2>1. user' \in [Accounts -> UserObjects \union {NoAccount}] /\ told' \in [Accounts -> UserViews \union {NoAccount}]
    BY <1>1, <1>2, <1>3, <1>4 DEF UserTypes
  <2>2. \A v \in Accounts : user[v] # NoAccount => user'[v] # NoAccount
    BY <1>1, <1>2, <1>3 DEF UserTypes
  <2>3. \A v \in users' : user'[v] # NoAccount
    BY <1>1, <1>2, <2>2 DEF UserTypes
  <2>4. \A q \in Requests : Updating(q)' => user'[hashing'[q].id] # NoAccount
    BY <1>1, <1>2, <2>2, RequestKinds DEF UserTypes, Updating
  <2> QED BY <1>1, <1>2, <2>1, <2>3, <2>4 DEF UserTypes
<1>6. ASSUME ~raced'
      PROVE  UsersAreDistinct' /\ ChecksStillHold' /\ (~halfway' => LogTellsOthers')
  <2>1. /\ \A q \in Requests : hashing[q] = NoRequest
        /\ UsersAreDistinct /\ (~halfway => LogTellsOthers)
    BY <1>1, <1>6 DEF UserInv
  <2>2. \A q \in Requests : ~Updating(q) /\ ~Creating(q)' /\ ~Updating(q)'
    BY <1>1, <2>1 DEF Creating, Updating, NoRequest
  <2>3. /\ \A v \in users : v # u => user'[v] = user[v] /\ told'[v] = told[v]
        /\ user'[u] = x
    BY <1>1, <1>2 DEF UserTypes
  <2>4. UsersAreDistinct'
    BY <1>1, <1>3, <2>1, <2>3 DEF UsersAreDistinct
  <2>5. ChecksStillHold'
    BY <2>2 DEF ChecksStillHold
  <2>6. ASSUME ~halfway' PROVE LogTellsOthers'
    <3>1. LogTellsOthers /\ told[u] # NoAccount
      BY <1>1, <2>1, <2>6 DEF LogTellsOthers
    <3>2. told'[u] = y /\ \A v \in Accounts : told'[v] # NoAccount <=> told[v] # NoAccount
      BY <1>1, <1>2, <1>4, <3>1 DEF UserTypes
    <3>3. users' = {v \in Accounts : told'[v] # NoAccount}
      BY <1>1, <3>1, <3>2 DEF LogTellsOthers
    <3>4. ASSUME NEW v \in users'
          PROVE  /\ told'[v].roles \in {Untold, user'[v].roles}
                 /\ user'[v].email = told'[v].email /\ user'[v].name = told'[v].name
      BY <1>1, <1>3, <1>4, <2>2, <2>3, <3>1, <3>2 DEF LogTellsOthers
    <3> QED BY <3>3, <3>4 DEF LogTellsOthers
  <2> QED BY <2>4, <2>5, <2>6
<1> QED BY <1>5, <1>6 DEF UserInv

LEMMA UpdateWithPasswordStep ==
  ASSUME UserInv, NEW r \in Requests, NEW u \in Accounts, NEW c \in Updates,
         UpdateWithPassword(r, u, c)
  PROVE  UserInv'
<1> DEFINE x == Updated(user[u], c)
           d == [op |-> "update", id |-> u, command |-> c]
<1>1. /\ hashing[r] = NoRequest
      /\ u \in users /\ MayTakeEmail(u, c) /\ MayTakeName(u, c)
      /\ user' = [user EXCEPT ![u] = x]
      /\ hashing' = [hashing EXCEPT ![r] = d]
      /\ raced' = (raced \/ \E q \in Requests \ {r} : hashing[q] # NoRequest)
      /\ UNCHANGED <<users, told, halfway>>
  BY DEF UpdateWithPassword, Written
<1>2. UserTypes /\ user[u] \in UserObjects
  BY <1>1 DEF UserInv, UserTypes
<1>3. /\ x \in UserObjects /\ x # NoAccount
      /\ x.email = c.email /\ x.name = c.name /\ x.roles = user[u].roles
  BY <1>2, UserFields
<1>4. d \in UserRequests /\ d.op = "update" /\ d.id = u /\ d.command = c
  BY DEF UserRequests
<1> HIDE DEF x, d
<1>5. /\ hashing' \in [Requests -> UserRequests] /\ hashing'[r] = d
      /\ \A q \in Requests : q # r => hashing'[q] = hashing[q]
  BY <1>1, <1>2, <1>4 DEF UserTypes
<1>6. UserTypes'
  <2>1. user' \in [Accounts -> UserObjects \union {NoAccount}]
    BY <1>1, <1>2, <1>3 DEF UserTypes
  <2>2. user'[u] # NoAccount /\ \A v \in Accounts : user[v] # NoAccount => user'[v] # NoAccount
    BY <1>1, <1>2, <1>3 DEF UserTypes
  <2>3. \A v \in users' : user'[v] # NoAccount
    BY <1>1, <1>2, <2>2 DEF UserTypes
  <2>4. \A q \in Requests : Updating(q)' => user'[hashing'[q].id] # NoAccount
    <3> SUFFICES ASSUME NEW q \in Requests, Updating(q)' PROVE user'[hashing'[q].id] # NoAccount
      OBVIOUS
    <3>1. CASE q = r
      BY <1>4, <1>5, <2>2, <3>1
    <3>2. CASE q # r
      BY <1>2, <1>5, <2>2, <3>2, RequestKinds DEF UserTypes, Updating
    <3> QED BY <3>1, <3>2
  <2> QED BY <1>1, <1>2, <1>5, <2>1, <2>3, <2>4 DEF UserTypes
<1>7. ASSUME ~raced'
      PROVE  UsersAreDistinct' /\ ChecksStillHold' /\ (~halfway' => LogTellsOthers')
  <2>1. /\ \A q \in Requests : q # r => hashing[q] = NoRequest
        /\ UsersAreDistinct /\ (~halfway => LogTellsOthers)
    BY <1>1, <1>7 DEF UserInv
  <2>2. \A q \in Requests : ~Creating(q)' /\ (Updating(q)' => q = r)
    BY <1>4, <1>5, <2>1 DEF Creating, Updating, NoRequest
  <2>3. (\A v \in users : v # u => user'[v] = user[v]) /\ user'[u] = x
    BY <1>1, <1>2 DEF UserTypes
  <2>4. UsersAreDistinct'
    BY <1>1, <1>3, <2>1, <2>3, NobodyElseHasIt DEF UsersAreDistinct
  <2>5. ChecksStillHold'
    BY <1>1, <1>3, <1>4, <1>5, <2>2, <2>3 DEF ChecksStillHold
  <2>6. ASSUME ~halfway' PROVE LogTellsOthers'
    <3>1. LogTellsOthers /\ \A q \in Requests : ~Updating(q)
      BY <1>1, <2>1, <2>6 DEF Updating, NoRequest
    <3>2. Updating(r)' /\ hashing'[r].id = u
      BY <1>4, <1>5 DEF Updating
    <3>3. ASSUME NEW v \in users'
          PROVE  /\ told[v].roles \in {Untold, user'[v].roles}
                 /\ v # u => user'[v].email = told[v].email /\ user'[v].name = told[v].name
      BY <1>1, <1>3, <2>3, <3>1 DEF LogTellsOthers
    <3> QED BY <1>1, <3>1, <3>2, <3>3 DEF LogTellsOthers
  <2> QED BY <2>4, <2>5, <2>6
<1> QED BY <1>6, <1>7 DEF UserInv

LEMMA SaveUpdatedStep == ASSUME UserInv, NEW r \in Requests, SaveUpdated(r) PROVE UserInv'
<1> DEFINE u == hashing[r].id
           c == hashing[r].command
           y == Updated(told[u], c)
<1>1. /\ hashing[r].op = "update"
      /\ users' = users \union {u}
      /\ told' = IF told[u] = NoAccount THEN told ELSE [told EXCEPT ![u] = y]
      /\ hashing' = [hashing EXCEPT ![r] = NoRequest]
      /\ raced' = (raced \/ \E q \in Requests \ {r} : hashing[q] # NoRequest)
      /\ UNCHANGED <<user, halfway>>
  BY DEF SaveUpdated, TellUpdate, Tell, Written
<1>2. UserTypes
  BY DEF UserInv
<1>3. u \in Accounts /\ c \in Updates /\ user[u] # NoAccount
  BY <1>1, <1>2, RequestKinds DEF UserTypes, Updating
<1>4. told[u] # NoAccount => /\ y \in UserViews /\ y # NoAccount
                             /\ y.email = c.email /\ y.name = c.name /\ y.roles = told[u].roles
  BY <1>2, <1>3, UserFields DEF UserTypes
<1>5. ~raced => u \in users /\ user[u].email = c.email /\ user[u].name = c.name
  BY <1>1 DEF UserInv, ChecksStillHold, Updating
<1> HIDE DEF u, c, y
<1>6. NoRequest \in UserRequests /\ NoRequest.op = "none"
  BY DEF UserRequests, NoRequest
<1>7. UserTypes'
  <2>1. told' \in [Accounts -> UserViews \union {NoAccount}]
    BY <1>1, <1>2, <1>4 DEF UserTypes
  <2>2. hashing' \in [Requests -> UserRequests]
    BY <1>1, <1>2, <1>6 DEF UserTypes
  <2>3. \A q \in Requests : Updating(q)' => Updating(q) /\ hashing'[q] = hashing[q]
    BY <1>1, <1>2, <1>6 DEF UserTypes, Updating
  <2> QED BY <1>1, <1>2, <1>3, <2>1, <2>2, <2>3 DEF UserTypes
<1>8. ASSUME ~raced'
      PROVE  UsersAreDistinct' /\ ChecksStillHold' /\ (~halfway' => LogTellsOthers')
  <2>1. /\ ~raced /\ (\A q \in Requests : q # r => hashing[q] = NoRequest)
        /\ UsersAreDistinct /\ (~halfway => LogTellsOthers)
    BY <1>1, <1>8 DEF UserInv
  <2>2. users' = users
    BY <1>1, <1>5, <2>1
  <2>3. \A q \in Requests : ~Creating(q)' /\ ~Updating(q)'
    BY <1>1, <1>2, <1>6, <2>1 DEF UserTypes, Creating, Updating
  <2>4. UsersAreDistinct' /\ ChecksStillHold'
    BY <1>1, <2>1, <2>2, <2>3 DEF UsersAreDistinct, ChecksStillHold
  <2>5. ASSUME ~halfway' PROVE LogTellsOthers'
    <3>1. LogTellsOthers /\ told[u] # NoAccount
      BY <1>1, <1>3, <1>5, <2>1, <2>5 DEF LogTellsOthers
    <3>2. told'[u] = y /\ \A v \in Accounts : v # u => told'[v] = told[v]
      BY <1>1, <1>2, <1>3, <3>1 DEF UserTypes
    <3>3. users' = {v \in Accounts : told'[v] # NoAccount}
      BY <1>4, <2>2, <3>1, <3>2 DEF LogTellsOthers
    <3>4. \A v \in users, q \in Requests : v # u => (Updating(q) => hashing[q].id # v)
      BY <2>1 DEF Updating, NoRequest, u
    <3>5. ASSUME NEW v \in users'
          PROVE  /\ told'[v].roles \in {Untold, user[v].roles}
                 /\ user[v].email = told'[v].email /\ user[v].name = told'[v].name
      BY <1>4, <1>5, <1>2, <2>1, <2>2, <3>1, <3>2, <3>4 DEF LogTellsOthers, UserTypes
    <3> QED BY <1>1, <3>3, <3>5 DEF LogTellsOthers
  <2> QED BY <2>4, <2>5
<1> QED BY <1>7, <1>8 DEF UserInv

LEMMA HashFailsStep == ASSUME UserInv, NEW r \in Requests, HashFails(r) PROVE UserInv'
<1>1. /\ hashing[r] # NoRequest
      /\ hashing' = [hashing EXCEPT ![r] = NoRequest]
      /\ halfway' = (halfway \/ hashing[r].op = "update")
      /\ user' = [v \in Accounts |-> IF v \in users \union Held(Requests \ {r}) THEN user[v]
                                       ELSE NoAccount]
      /\ UNCHANGED <<users, told, raced>>
  BY DEF HashFails
<1>2. UserTypes
  BY DEF UserInv
<1>3. NoRequest \in UserRequests /\ NoRequest.op = "none"
  BY DEF UserRequests, NoRequest
<1>4. /\ hashing' \in [Requests -> UserRequests] /\ hashing'[r] = NoRequest
      /\ \A q \in Requests : q # r => hashing'[q] = hashing[q]
  BY <1>1, <1>2, <1>3 DEF UserTypes
<1>5. \A q \in Requests : /\ Updating(q)' => Updating(q) /\ q # r
                          /\ Creating(q)' => Creating(q) /\ q # r
  BY <1>3, <1>4 DEF Updating, Creating
<1>6. users' = users /\ \A v \in users : user'[v] = user[v]
  BY <1>1, <1>2 DEF UserTypes
<1>7. UserTypes'
  <2>1. user' \in [Accounts -> UserObjects \union {NoAccount}]
    BY <1>1, <1>2 DEF UserTypes
  <2>2. ASSUME NEW q \in Requests, Updating(q)' PROVE user'[hashing'[q].id] # NoAccount
    <3>1. Updating(q) /\ q # r /\ hashing'[q] = hashing[q] /\ hashing[q].op = "update"
      BY <1>4, <1>5, <2>2 DEF Updating
    <3>2. hashing[q].id \in Accounts /\ user[hashing[q].id] # NoAccount
      BY <1>2, <3>1, RequestKinds DEF UserTypes
    <3>3. hashing[q].id \in Held(Requests \ {r})
      BY <3>1, <3>2 DEF Held
    <3> QED BY <1>1, <3>1, <3>2, <3>3
  <2> QED BY <1>1, <1>2, <1>4, <1>6, <2>1, <2>2 DEF UserTypes
<1>8. ASSUME ~raced PROVE UsersAreDistinct' /\ ChecksStillHold'
  <2>1. UsersAreDistinct /\ ChecksStillHold
    BY <1>8 DEF UserInv
  <2>2. UsersAreDistinct'
    BY <1>6, <2>1 DEF UsersAreDistinct
  <2>3. ASSUME NEW q \in Requests, Creating(q)'
        PROVE  (EmailIsFree(hashing[q].email) /\ NameIsFree(hashing[q].name))'
    BY <1>4, <1>5, <1>6, <2>1, <2>3 DEF ChecksStillHold, EmailIsFree, NameIsFree
  <2>4. ASSUME NEW q \in Requests, Updating(q)'
        PROVE  (/\ hashing[q].id \in users
                /\ user[hashing[q].id].email = hashing[q].command.email
                /\ user[hashing[q].id].name = hashing[q].command.name)'
    BY <1>4, <1>5, <1>6, <2>1, <2>4 DEF ChecksStillHold
  <2>5. (\A q, p \in Requests : Updating(q) /\ Updating(p) => q = p)'
    BY <1>5, <2>1 DEF ChecksStillHold
  <2> QED BY <2>2, <2>3, <2>4, <2>5 DEF ChecksStillHold
<1>9. ASSUME ~raced, ~halfway' PROVE LogTellsOthers'
  <2>1. LogTellsOthers /\ ~Updating(r)
    BY <1>1, <1>9 DEF UserInv, Updating
  <2>2. \A q \in Requests : Updating(q) => Updating(q)' /\ hashing'[q] = hashing[q]
    BY <1>4, <2>1 DEF Updating
  <2>3. ASSUME NEW v \in users'
        PROVE  (/\ told[v].roles \in {Untold, user[v].roles}
                /\ (\A q \in Requests : Updating(q) => hashing[q].id # v) =>
                     user[v].email = told[v].email /\ user[v].name = told[v].name)'
    BY <1>1, <1>6, <2>1, <2>2, <2>3 DEF LogTellsOthers
  <2>4. (users = {v \in Accounts : told[v] # NoAccount})'
    BY <1>1, <2>1 DEF LogTellsOthers
  <2> QED BY <2>3, <2>4 DEF LogTellsOthers
<1> QED BY <1>1, <1>7, <1>8, <1>9 DEF UserInv

LEMMA DeleteUserStep == ASSUME UserInv, NEW u \in Accounts, DeleteUser(u) PROVE UserInv'
<1>1. /\ u \in users /\ users' = users \ {u}
      /\ told' = [told EXCEPT ![u] = NoAccount]
      /\ user' = [user EXCEPT ![u] = IF u \in Held(Requests) THEN user[u] ELSE NoAccount]
      /\ raced' = (raced \/ \E q \in Requests : hashing[q] # NoRequest)
      /\ UNCHANGED <<hashing, halfway>>
  BY DEF DeleteUser, Written
<1>2. UserTypes
  BY DEF UserInv
<1>3. /\ \A v \in Accounts : v # u => user'[v] = user[v] /\ told'[v] = told[v]
      /\ told'[u] = NoAccount
      /\ u \in Held(Requests) => user'[u] = user[u]
  BY <1>1, <1>2 DEF UserTypes
<1>4. UserTypes'
  <2>1. user' \in [Accounts -> UserObjects \union {NoAccount}] /\ told' \in [Accounts -> UserViews \union {NoAccount}]
    BY <1>1, <1>2 DEF UserTypes
  <2>2. ASSUME NEW q \in Requests, Updating(q)' PROVE user'[hashing'[q].id] # NoAccount
    <3>1. hashing[q].op = "update" /\ hashing'[q] = hashing[q]
      BY <1>1, <2>2 DEF Updating
    <3>2. hashing[q].id \in Held(Requests) /\ user[hashing[q].id] # NoAccount
          /\ hashing[q].id \in Accounts
      BY <1>2, <3>1, RequestKinds DEF UserTypes, Updating, Held
    <3> QED BY <1>3, <3>1, <3>2
  <2> QED BY <1>1, <1>2, <1>3, <2>1, <2>2 DEF UserTypes
<1>5. ASSUME ~raced'
      PROVE  UsersAreDistinct' /\ ChecksStillHold' /\ (~halfway' => LogTellsOthers')
  <2>1. /\ \A q \in Requests : hashing[q] = NoRequest
        /\ UsersAreDistinct /\ (~halfway => LogTellsOthers)
    BY <1>1, <1>5 DEF UserInv
  <2>2. \A q \in Requests : ~Updating(q) /\ ~Creating(q)' /\ ~Updating(q)'
    BY <1>1, <2>1 DEF Creating, Updating, NoRequest
  <2>3. UsersAreDistinct' /\ ChecksStillHold'
    BY <1>1, <1>2, <1>3, <2>1, <2>2 DEF UsersAreDistinct, ChecksStillHold, UserTypes
  <2>4. ASSUME ~halfway' PROVE LogTellsOthers'
    <3>1. LogTellsOthers
      BY <1>1, <2>1, <2>4
    <3>2. users' = {v \in Accounts : told'[v] # NoAccount}
      BY <1>1, <1>3, <3>1 DEF LogTellsOthers
    <3>3. ASSUME NEW v \in users'
          PROVE  /\ told'[v].roles \in {Untold, user'[v].roles}
                 /\ user'[v].email = told'[v].email /\ user'[v].name = told'[v].name
      BY <1>1, <1>2, <1>3, <2>2, <3>1 DEF LogTellsOthers, UserTypes
    <3> QED BY <3>2, <3>3 DEF LogTellsOthers
  <2> QED BY <2>3, <2>4
<1> QED BY <1>4, <1>5 DEF UserInv

LEMMA UsersStay == ASSUME UserInv, UNCHANGED userVars PROVE UserInv'
<1>1. /\ UNCHANGED <<user, users, hashing, told, raced, halfway>>
  BY DEF userVars
<1>2. (UserTypes)' = UserTypes /\ UsersAreDistinct' = UsersAreDistinct
      /\ ChecksStillHold' = ChecksStillHold /\ LogTellsOthers' = LogTellsOthers
  BY <1>1 DEF UserTypes, UsersAreDistinct, ChecksStillHold, LogTellsOthers, Creating, Updating,
              EmailIsFree, NameIsFree
<1> QED BY <1>1, <1>2 DEF UserInv

LEMMA UserKeeps == UserInv /\ [UserNext]_userVars => UserInv'
BY CreateUserStep, SaveCreatedStep, UpdateUserStep, UpdateRefusedStep, UpdateWithPasswordStep,
   SaveUpdatedStep, HashFailsStep, UpdateRolesStep, DeleteUserStep, UsersStay DEF UserNext

LEMMA UserPartStep == [ServicesNext]_servicesVars => [UserNext]_userVars
BY DEF ServicesNext, servicesVars, sideVars

(* user-management.service.ts:136-152, 183-208, for any number of accounts *)
(* and of requests that hash at once: as long as nothing is written while  *)
(* another request awaits its hash, no two users share an email or a name, *)
(* and, no update having failed halfway, the audit log tells who there is. *)
THEOREM UsersAreAccounted == ServicesSpec => []UsersAreAccountedFor
<1>1. ServicesInit => UserInv
  BY InitUsers DEF ServicesInit
<1>2. UserInv => UsersAreAccountedFor
  <2> SUFFICES ASSUME UserInv, ~raced PROVE
        /\ UsersAreDistinct
        /\ ~halfway /\ (\A r \in Requests : hashing[r] = NoRequest) => AuditTellsUsers
    BY DEF UsersAreAccountedFor
  <2>1. ASSUME ~halfway, \A r \in Requests : hashing[r] = NoRequest PROVE AuditTellsUsers
    <3>1. LogTellsOthers /\ \A r \in Requests : ~Updating(r)
      BY <2>1 DEF UserInv, Updating, NoRequest
    <3> QED BY <3>1 DEF LogTellsOthers, AuditTellsUsers
  <2> QED BY <2>1 DEF UserInv
<1>3. UserInv /\ [ServicesNext]_servicesVars => UserInv'
  BY UserKeeps, UserPartStep
<1> QED BY <1>1, <1>2, <1>3, PTL DEF ServicesSpec

-----------------------------------------------------------------------------
(* Health.  A probe has seen what works now and what does not; what its    *)
(* checks have found was there to be seen.                                 *)
CheckStages == {"begun", "connected", "written", "read", "failed", "done"}
CheckResults == {"", "UP", "DOWN", "DEGRADED"}

HealthProbe ==
  [kind : {"live", "ready", "full"}, key : TestKeys, said : {0, 200, 503},
   doing : [Registered -> CheckStages], result : [Registered -> CheckResults],
   ill : SUBSET Faults, well : SUBSET Faults, overlapped : BOOLEAN]

SeesThePresent(p) == ill \subseteq p.ill /\ Faults \ ill \subseteq p.well

FindsWhatWas(p) ==
  \A n \in Registered :
    /\ p.result[n] = "UP" => FaultsOf(n) \subseteq p.well
    /\ p.result[n] = "DOWN" => MayHang(n) \intersect p.ill # {} \/ p.overlapped
    /\ p.result[n] = "DEGRADED" => FaultsOf(n) \intersect p.ill # {} /\ (n = "memory" \/ n \in p.well)
    /\ p.doing[n] = "connected" => n \in p.well
    /\ p.doing[n] = "failed" => n \in p.ill

AnswersTruly(p) ==
  /\ p.said = 200 => \A n \in Checked(p.kind) :
       IF p.kind = "full" THEN n \in p.well \/ n = "memory" ELSE FaultsOf(n) \subseteq p.well
  /\ p.said = 503 =>
       \/ p.overlapped \/ Registered = {}
       \/ \E n \in Checked(p.kind) :
            (IF p.kind = "full" THEN MayHang(n) ELSE FaultsOf(n)) \intersect p.ill # {}

SoundProbe(p) == p \in HealthProbe /\ SeesThePresent(p) /\ FindsWhatWas(p) /\ AnswersTruly(p)

UsesCache(p) == "cache" \in Checked(p.kind) /\ p.doing["cache"] # "done"

(* A key that nobody shares is there as long as its check needs it.        *)
KeyIsThere(p) == p.doing["cache"] = "written" => p.key \in cached

HealthInv ==
  /\ registered \in Registrations
  /\ probe \in [Probes -> HealthProbe \union {NoProbe}]
  /\ cached \subseteq TestKeys /\ ill \subseteq Faults /\ turns \in 0 .. MaxTurns
  /\ \A r \in Running : SoundProbe(probe[r])
  /\ \A r \in Running : UsesCache(probe[r]) /\ ~probe[r].overlapped =>
       /\ KeyIsThere(probe[r])
       /\ \A q \in Running : q # r /\ UsesCache(probe[q]) => probe[q].key # probe[r].key

LEMMA RegisteredIsKnown ==
  ASSUME registered \in Registrations
  PROVE  Registered \subseteq IndicatorNames /\ \A path : Checked(path) \subseteq Registered
BY HealthAssumption DEF Registered, Checked

LEMMA FaultsAreOfThings ==
  ASSUME NEW n
  PROVE  /\ n \in Registered => FaultsOf(n) \subseteq Faults
         /\ n \in FaultsOf(n) /\ MayHang(n) \subseteq FaultsOf(n)
         /\ n \notin {"memory", "space"} => n \in MayHang(n)
         /\ n \notin {"rabbitmq", "disk"} => FaultsOf(n) = {n}
         /\ n = "rabbitmq" => FaultsOf(n) = {"rabbitmq", "queues"} /\ MayHang(n) = FaultsOf(n)
         /\ n = "disk" => FaultsOf(n) = {"disk", "space"} /\ MayHang(n) = {"disk"}
<1>1. /\ n = "rabbitmq" => FaultsOf(n) = {"rabbitmq", "queues"}
      /\ n = "disk" => FaultsOf(n) = {"disk", "space"}
      /\ n \notin {"rabbitmq", "disk"} => FaultsOf(n) = {n}
  BY DEF FaultsOf
<1>2. n \in FaultsOf(n)
  BY <1>1
<1> QED BY <1>1, <1>2 DEF MayHang, Faults

LEMMA NoProbeIsNone == NoProbe \notin HealthProbe
BY DEF NoProbe, HealthProbe

(* How a probe is updated.                                                 *)
SameQuestion(q, p) == q.kind = p.kind /\ q.key = p.key

LEMMA ChecksMoved ==
  ASSUME NEW p \in HealthProbe, NEW d \in [Registered -> CheckStages],
         NEW q, q = [p EXCEPT !.doing = d]
  PROVE  /\ q \in HealthProbe /\ SameQuestion(q, p)
         /\ q.doing = d /\ q.result = p.result /\ q.said = p.said
         /\ q.overlapped = p.overlapped /\ q.ill = p.ill /\ q.well = p.well
BY DEF HealthProbe, SameQuestion

LEMMA ChecksTimedOut ==
  ASSUME NEW p \in HealthProbe, NEW f \in [Registered -> CheckResults],
         NEW q, q = [p EXCEPT !.result = f]
  PROVE  /\ q \in HealthProbe /\ SameQuestion(q, p)
         /\ q.doing = p.doing /\ q.result = f /\ q.said = p.said
         /\ q.overlapped = p.overlapped /\ q.ill = p.ill /\ q.well = p.well
BY DEF HealthProbe, SameQuestion

HasFound(q, p, d, f) == q = [p EXCEPT !.doing = d, !.result = f]

LEMMA CheckFound ==
  ASSUME NEW p \in HealthProbe, NEW d \in [Registered -> CheckStages],
         NEW f \in [Registered -> CheckResults],
         NEW q, HasFound(q, p, d, f)
  PROVE  /\ q \in HealthProbe /\ SameQuestion(q, p)
         /\ q.doing = d /\ q.result = f /\ q.said = p.said
         /\ q.overlapped = p.overlapped /\ q.ill = p.ill /\ q.well = p.well
<1> USE DEF HasFound
<1>1. q \in HealthProbe
  <2> DEFINE D == [Registered -> CheckStages]
             R == [Registered -> CheckResults]
             S == SUBSET Faults
  <2>1. HealthProbe = [kind : {"live", "ready", "full"}, key : TestKeys, said : {0, 200, 503},
                       doing : D, result : R, ill : S, well : S, overlapped : BOOLEAN]
    BY DEF HealthProbe
  <2>2. d \in D /\ f \in R
    OBVIOUS
  <2> HIDE DEF D, R, S
  <2> QED BY <2>1, <2>2, ZenonT(60)
<1>2. /\ q.kind = p.kind /\ q.key = p.key /\ q.doing = d /\ q.result = f /\ q.said = p.said
      /\ q.overlapped = p.overlapped /\ q.ill = p.ill /\ q.well = p.well
  BY DEF HealthProbe
<1> QED BY <1>1, <1>2 DEF SameQuestion

LEMMA ProbeAnswered ==
  ASSUME NEW p \in HealthProbe, NEW s \in {0, 200, 503}, NEW q, q = [p EXCEPT !.said = s]
  PROVE  /\ q \in HealthProbe /\ SameQuestion(q, p)
         /\ q.doing = p.doing /\ q.result = p.result /\ q.said = s
         /\ q.overlapped = p.overlapped /\ q.ill = p.ill /\ q.well = p.well
BY DEF HealthProbe, SameQuestion

LEMMA ProbeOverlaps ==
  ASSUME NEW p \in HealthProbe, NEW q, q = [p EXCEPT !.overlapped = TRUE]
  PROVE  /\ q \in HealthProbe /\ SameQuestion(q, p)
         /\ q.doing = p.doing /\ q.result = p.result /\ q.said = p.said
         /\ q.overlapped /\ q.ill = p.ill /\ q.well = p.well
<1>1. q \in HealthProbe
  BY ZenonT(40) DEF HealthProbe
<1>2. /\ q.kind = p.kind /\ q.key = p.key /\ q.doing = p.doing /\ q.result = p.result
      /\ q.said = p.said /\ q.overlapped /\ q.ill = p.ill /\ q.well = p.well
  BY DEF HealthProbe
<1> QED BY <1>1, <1>2 DEF SameQuestion

LEMMA InitHealth == HealthInit => HealthInv
<1> SUFFICES ASSUME HealthInit PROVE HealthInv
  OBVIOUS
<1>1. Running = {}
  BY DEF HealthInit, Running
<1>2. turns \in 0 .. MaxTurns
  BY HealthAssumption DEF HealthInit
<1> QED BY <1>1, <1>2 DEF HealthInit, HealthInv

(* Nothing but one probe and perhaps the cache has changed.                *)
LEMMA OneProbe ==
  ASSUME HealthInv, NEW r \in Running, NEW q, SoundProbe(q),
         SameQuestion(q, probe[r]), q.overlapped = probe[r].overlapped,
         UsesCache(q) => UsesCache(probe[r]),
         probe' = [probe EXCEPT ![r] = q], UNCHANGED <<registered, ill, turns>>,
         cached' \subseteq TestKeys,
         cached' = cached \/ (UsesCache(probe[r]) /\ cached \ {probe[r].key} \subseteq cached'),
         UsesCache(q) /\ ~q.overlapped /\ q.doing["cache"] = "written" => q.key \in cached'
  PROVE  HealthInv'
<1>1. r \in Probes /\ probe \in [Probes -> HealthProbe \union {NoProbe}]
  BY DEF HealthInv, Running
<1>2. /\ Registered' = Registered /\ HealthProbe' = HealthProbe
      /\ Faults' = Faults /\ \A path : (Checked(path))' = Checked(path)
  BY DEF Registered, Faults, HealthProbe, Checked
<1>3. q \in HealthProbe /\ q # NoProbe
  BY NoProbeIsNone DEF SoundProbe
<1>4. /\ probe'[r] = q /\ \A s \in Probes : s # r => probe'[s] = probe[s]
      /\ probe' \in [Probes -> HealthProbe \union {NoProbe}]
  BY <1>1, <1>3
<1>5. Running' = Running
  BY <1>1, <1>3, <1>4 DEF Running
<1>6. ASSUME NEW s \in Running PROVE (SoundProbe(probe[s]))'
  <2>1. SoundProbe(probe'[s])
    BY <1>1, <1>4, <1>6 DEF HealthInv, Running
  <2> QED BY <1>2, <2>1 DEF SoundProbe, SeesThePresent, FindsWhatWas, AnswersTruly
<1>7. ASSUME NEW s \in Running PROVE (UsesCache(probe[s]))' => UsesCache(probe[s])
  BY <1>1, <1>2, <1>4 DEF UsesCache, Running
<1>8. \A s \in Running : probe'[s].key = probe[s].key /\ probe'[s].overlapped = probe[s].overlapped
  BY <1>1, <1>4 DEF SameQuestion, Running
<1>9. ASSUME NEW s \in Running, (UsesCache(probe[s]))', ~probe'[s].overlapped
      PROVE  /\ (KeyIsThere(probe[s]))'
             /\ \A t \in Running : t # s /\ (UsesCache(probe[t]))' => probe'[t].key # probe'[s].key
  <2>1. UsesCache(probe[s]) /\ ~probe[s].overlapped
    BY <1>7, <1>8, <1>9
  <2>2. /\ KeyIsThere(probe[s])
        /\ \A t \in Running : t # s /\ UsesCache(probe[t]) => probe[t].key # probe[s].key
    BY <2>1 DEF HealthInv
  <2>3. \A t \in Running : t # s /\ (UsesCache(probe[t]))' => probe'[t].key # probe'[s].key
    BY <1>7, <1>8, <2>2
  <2>4. CASE s = r
    BY <1>2, <1>4, <1>9, <2>3, <2>4 DEF KeyIsThere, UsesCache
  <2>5. CASE s # r
    <3>1. probe'[s] = probe[s] /\ (UsesCache(probe[r]) => probe[r].key # probe[s].key)
      BY <1>4, <2>2, <2>5 DEF Running
    <3>2. probe[s].doing["cache"] = "written" => probe[s].key \in cached'
      BY <2>2, <3>1 DEF KeyIsThere
    <3> QED BY <2>3, <3>1, <3>2 DEF KeyIsThere
  <2> QED BY <2>4, <2>5
<1> QED BY <1>2, <1>4, <1>5, <1>6, <1>9 DEF HealthInv

(* A check of a probe comes to its end, or goes on.                        *)
LEMMA NestedUpdate ==
  ASSUME NEW D, NEW S, NEW f \in [D -> S], NEW r \in D, NEW n, NEW x
  PROVE  /\ [f EXCEPT ![r].doing[n] = x] = [f EXCEPT ![r] = [f[r] EXCEPT !.doing = [f[r].doing EXCEPT ![n] = x]]]
         /\ [f EXCEPT ![r].result[n] = x] = [f EXCEPT ![r] = [f[r] EXCEPT !.result = [f[r].result EXCEPT ![n] = x]]]
         /\ [f EXCEPT ![r].said = x] = [f EXCEPT ![r] = [f[r] EXCEPT !.said = x]]
OBVIOUS

Finding(p, n, status) ==
  [p EXCEPT !.doing = [p.doing EXCEPT ![n] = "done"],
            !.result = [p.result EXCEPT ![n] = IF p.result[n] = "" THEN status ELSE p.result[n]]]

LEMMA FindsStep ==
  ASSUME HealthInv, NEW r \in Running, NEW n, Checking(r, n), NEW status \in {"UP", "DOWN", "DEGRADED"},
         status = "UP" => FaultsOf(n) \intersect ill = {},
         status = "DOWN" => MayHang(n) \intersect probe[r].ill # {} \/ probe[r].overlapped,
         status = "DEGRADED" => FaultsOf(n) \intersect ill # {} /\ n \in probe[r].well,
         Finds(r, n, status), UNCHANGED <<registered, ill, turns>>,
         cached' \subseteq TestKeys,
         cached' = cached \/ (n = "cache" /\ cached \ {probe[r].key} \subseteq cached')
  PROVE  HealthInv'
<1> DEFINE p == probe[r]
           d == [p.doing EXCEPT ![n] = "done"]
           f == [p.result EXCEPT ![n] = IF p.result[n] = "" THEN status ELSE p.result[n]]
           q == [p EXCEPT !.doing = d, !.result = f]
<1>1. probe \in [Probes -> HealthProbe \union {NoProbe}] /\ r \in Probes
  BY DEF HealthInv, Running
<1>2. probe' = [probe EXCEPT ![r] = q]
  <2>1. probe' = [probe EXCEPT ![r] = Finding(probe[r], n, status)]
    BY <1>1 DEF Finds, Finding
  <2> QED BY <2>1 DEF Finding
<1>3. SoundProbe(p) /\ p \in HealthProbe /\ n \in Registered
  BY RegisteredIsKnown DEF HealthInv, SoundProbe, Checking
<1>4. p.doing \in [Registered -> CheckStages] /\ p.result \in [Registered -> CheckResults]
  BY <1>3 DEF HealthProbe
<1>5. d \in [Registered -> CheckStages] /\ f \in [Registered -> CheckResults]
  BY <1>3, <1>4 DEF CheckStages, CheckResults
<1>6. /\ d[n] = "done" /\ f[n] = (IF p.result[n] = "" THEN status ELSE p.result[n])
      /\ \A m \in Registered : m # n => d[m] = p.doing[m] /\ f[m] = p.result[m]
  BY <1>3, <1>4
<1> HIDE DEF p, d, f
<1>a. HasFound(q, p, d, f)
  BY DEF HasFound
<1> HIDE DEF q
<1>7. /\ q \in HealthProbe /\ SameQuestion(q, p)
      /\ q.doing = d /\ q.result = f /\ q.said = p.said
      /\ q.overlapped = p.overlapped /\ q.ill = p.ill /\ q.well = p.well
  BY <1>a, <1>3, <1>5, CheckFound
<1>8. UsesCache(p) \/ n # "cache"
  BY DEF UsesCache, Checking, p
<1>9. SoundProbe(q)
  <2>1. SeesThePresent(q) /\ AnswersTruly(q)
    BY <1>3, <1>7 DEF SoundProbe, SeesThePresent, AnswersTruly, SameQuestion
  <2>2. ASSUME NEW m \in Registered, m # n
        PROVE  /\ q.result[m] = "UP" => FaultsOf(m) \subseteq q.well
               /\ q.result[m] = "DOWN" => MayHang(m) \intersect q.ill # {} \/ q.overlapped
               /\ q.result[m] = "DEGRADED" => FaultsOf(m) \intersect q.ill # {} /\ (m = "memory" \/ m \in q.well)
               /\ q.doing[m] = "connected" => m \in q.well
               /\ q.doing[m] = "failed" => m \in q.ill
    BY <1>3, <1>6, <1>7, <2>2 DEF SoundProbe, FindsWhatWas
  <2>3. /\ status = "UP" => FaultsOf(n) \subseteq p.well
        /\ status = "DOWN" => MayHang(n) \intersect p.ill # {} \/ p.overlapped
        /\ status = "DEGRADED" => FaultsOf(n) \intersect p.ill # {} /\ n \in p.well
    BY <1>3, FaultsAreOfThings DEF SoundProbe, SeesThePresent, p
  <2>4. /\ q.result[n] = "UP" => FaultsOf(n) \subseteq q.well
        /\ q.result[n] = "DOWN" => MayHang(n) \intersect q.ill # {} \/ q.overlapped
        /\ q.result[n] = "DEGRADED" => FaultsOf(n) \intersect q.ill # {} /\ (n = "memory" \/ n \in q.well)
        /\ q.doing[n] = "done"
    BY <1>3, <1>6, <1>7, <2>3 DEF SoundProbe, FindsWhatWas
  <2>5. FindsWhatWas(q)
    BY <2>2, <2>4 DEF FindsWhatWas
  <2> QED BY <1>7, <2>1, <2>5 DEF SoundProbe
<1>10. UsesCache(q) => UsesCache(p) /\ n # "cache" /\ q.doing["cache"] = p.doing["cache"]
  BY <1>6, <1>7, RegisteredIsKnown DEF UsesCache, SameQuestion, HealthInv
<1>11. UsesCache(q) /\ ~q.overlapped /\ q.doing["cache"] = "written" => q.key \in cached'
  <2>1. UsesCache(p) /\ ~p.overlapped => KeyIsThere(p)
    BY DEF HealthInv, p
  <2> QED BY <1>7, <1>10, <2>1 DEF KeyIsThere, SameQuestion
<1>12. cached' = cached \/ (UsesCache(p) /\ cached \ {p.key} \subseteq cached')
  BY <1>8 DEF p
<1>13. SameQuestion(q, probe[r]) /\ q.overlapped = probe[r].overlapped
       /\ (UsesCache(q) => UsesCache(probe[r]))
       /\ (cached' = cached \/ (UsesCache(probe[r]) /\ cached \ {probe[r].key} \subseteq cached'))
  BY <1>7, <1>10, <1>12 DEF p
<1> QED BY <1>2, <1>9, <1>11, <1>13, OneProbe

LEMMA GoesOnStep ==
  ASSUME HealthInv, NEW r \in Running, NEW n, Checking(r, n), NEW stage \in CheckStages \ {"done"},
         stage = "connected" => n \notin ill,
         stage = "failed" => n \in ill,
         CheckGoesOn(r, n, stage), UNCHANGED <<registered, ill, turns>>,
         cached' \subseteq TestKeys, cached \subseteq cached',
         cached' = cached \/ n = "cache",
         n = "cache" /\ stage = "written" => probe[r].key \in cached'
  PROVE  HealthInv'
<1> DEFINE p == probe[r]
           d == [p.doing EXCEPT ![n] = stage]
           q == [p EXCEPT !.doing = d]
<1>1. probe \in [Probes -> HealthProbe \union {NoProbe}] /\ r \in Probes
  BY DEF HealthInv, Running
<1>2. probe' = [probe EXCEPT ![r] = q]
  BY <1>1, NestedUpdate DEF CheckGoesOn
<1>3. SoundProbe(p) /\ p \in HealthProbe /\ n \in Registered
  BY RegisteredIsKnown DEF HealthInv, SoundProbe, Checking
<1>4. p.doing \in [Registered -> CheckStages]
  BY <1>3 DEF HealthProbe
<1>5. d \in [Registered -> CheckStages]
  BY <1>3, <1>4
<1>6. d[n] = stage /\ \A m \in Registered : m # n => d[m] = p.doing[m]
  BY <1>3, <1>4
<1> HIDE DEF d
<1>7. /\ q \in HealthProbe /\ SameQuestion(q, p)
      /\ q.doing = d /\ q.result = p.result /\ q.said = p.said
      /\ q.overlapped = p.overlapped /\ q.ill = p.ill /\ q.well = p.well
  BY <1>3, <1>5, ChecksMoved
<1>8. UsesCache(p) \/ n # "cache"
  BY DEF UsesCache, Checking
<1> HIDE DEF p, q
<1>9. SoundProbe(q)
  <2>1. SeesThePresent(q) /\ AnswersTruly(q)
    BY <1>3, <1>7 DEF SoundProbe, SeesThePresent, AnswersTruly, SameQuestion
  <2>2. (stage = "connected" => n \in p.well) /\ (stage = "failed" => n \in p.ill)
    BY <1>3, FaultsAreOfThings DEF SoundProbe, SeesThePresent, p
  <2>3. FindsWhatWas(q)
    BY <1>3, <1>6, <1>7, <2>2 DEF SoundProbe, FindsWhatWas
  <2> QED BY <1>7, <2>1, <2>3 DEF SoundProbe
<1>10. UsesCache(q) => UsesCache(p)
  <2>1. n # "cache" /\ UsesCache(q) => q.doing["cache"] = p.doing["cache"]
    BY <1>6, <1>7, RegisteredIsKnown DEF UsesCache, SameQuestion, HealthInv
  <2> QED BY <1>7, <1>8, <2>1 DEF UsesCache, SameQuestion
<1>11. UsesCache(q) /\ ~q.overlapped /\ q.doing["cache"] = "written" => q.key \in cached'
  <2>1. UsesCache(p) /\ ~p.overlapped => KeyIsThere(p)
    BY DEF HealthInv, p
  <2>2. n # "cache" /\ UsesCache(q) => q.doing["cache"] = p.doing["cache"]
    BY <1>6, <1>7, RegisteredIsKnown DEF UsesCache, SameQuestion, HealthInv
  <2>3. n = "cache" => q.doing["cache"] = stage /\ (stage = "written" => q.key \in cached')
    BY <1>6, <1>7 DEF SameQuestion, p
  <2> QED BY <1>7, <1>10, <2>1, <2>2, <2>3 DEF KeyIsThere, SameQuestion
<1>12. SameQuestion(q, probe[r]) /\ q.overlapped = probe[r].overlapped
       /\ (UsesCache(q) => UsesCache(probe[r]))
       /\ (cached' = cached \/ (UsesCache(probe[r]) /\ cached \ {probe[r].key} \subseteq cached'))
  BY <1>7, <1>8, <1>10 DEF p
<1> QED BY <1>2, <1>9, <1>11, <1>12, OneProbe

LEMMA TimesOutStep ==
  ASSUME HealthInv, NEW r \in Running, TimesOut(r)
  PROVE  HealthInv'
<1> DEFINE p == probe[r]
<1>1. PICK n \in Registered : /\ Checking(r, n) /\ p.result[n] = ""
                              /\ MayHang(n) \intersect p.ill # {}
                              /\ probe' = [probe EXCEPT ![r].result[n] = "DOWN"]
  BY DEF TimesOut
<1> DEFINE f == [p.result EXCEPT ![n] = "DOWN"]
           q == [p EXCEPT !.result = f]
<1>2. probe \in [Probes -> HealthProbe \union {NoProbe}] /\ r \in Probes
  BY DEF HealthInv, Running
<1>3. probe' = [probe EXCEPT ![r] = q]
  BY <1>1, <1>2, NestedUpdate
<1>4. SoundProbe(p) /\ p \in HealthProbe /\ n \in Registered
  BY <1>1, RegisteredIsKnown DEF HealthInv, SoundProbe, Checking
<1>5. p.result \in [Registered -> CheckResults]
  BY <1>4 DEF HealthProbe
<1>6. f \in [Registered -> CheckResults]
  BY <1>4, <1>5 DEF CheckResults
<1>7. f[n] = "DOWN" /\ \A m \in Registered : m # n => f[m] = p.result[m]
  BY <1>4, <1>5
<1> HIDE DEF f
<1>8. /\ q \in HealthProbe /\ SameQuestion(q, p)
      /\ q.doing = p.doing /\ q.result = f /\ q.said = p.said
      /\ q.overlapped = p.overlapped /\ q.ill = p.ill /\ q.well = p.well
  BY <1>4, <1>6, ChecksTimedOut
<1> HIDE DEF q
<1>9. SoundProbe(q)
  <2>1. SeesThePresent(q) /\ AnswersTruly(q)
    BY <1>4, <1>8 DEF SoundProbe, SeesThePresent, AnswersTruly, SameQuestion
  <2>2. FindsWhatWas(q)
    BY <1>1, <1>4, <1>7, <1>8 DEF SoundProbe, FindsWhatWas
  <2> QED BY <1>8, <2>1, <2>2 DEF SoundProbe
<1>10. UsesCache(q) <=> UsesCache(p)
  BY <1>8 DEF UsesCache, SameQuestion
<1>11. UsesCache(q) /\ ~q.overlapped /\ q.doing["cache"] = "written" => q.key \in cached
  BY <1>8, <1>10 DEF HealthInv, KeyIsThere, SameQuestion
<1>12. UNCHANGED <<registered, cached, ill, turns>> /\ cached \subseteq TestKeys
  BY DEF TimesOut, HealthInv
<1> QED BY <1>3, <1>8, <1>9, <1>10, <1>11, <1>12, OneProbe

(* What the answer says is what the results say.                           *)
LEMMA ResultsSay ==
  ASSUME NEW results, results \subseteq CheckResults
  PROVE  /\ OverallStatus(results) = "UP" => results \subseteq {"", "UP"} /\ results # {}
         /\ OverallStatus(results) = "DEGRADED" => "DOWN" \notin results
         /\ results # {} /\ OverallStatus(results) # "UP" =>
              "DOWN" \in results \/ "DEGRADED" \in results
         /\ results # {} /\ OverallStatus(results) \notin {"UP", "DEGRADED"} => "DOWN" \in results
<1>1. CASE results = {}
  BY <1>1 DEF OverallStatus
<1>2. CASE results # {} /\ "DOWN" \in results
  BY <1>2 DEF OverallStatus
<1>3. CASE results # {} /\ "DOWN" \notin results /\ "DEGRADED" \in results
  BY <1>3 DEF OverallStatus
<1>4. CASE results # {} /\ "DOWN" \notin results /\ "DEGRADED" \notin results
  BY <1>4 DEF OverallStatus, CheckResults
<1> QED BY <1>1, <1>2, <1>3, <1>4

LEMMA RespondStep ==
  ASSUME HealthInv, NEW r \in Running, Respond(r)
  PROVE  HealthInv'
<1> DEFINE p == probe[r]
           results == {p.result[n] : n \in Checked(p.kind)}
           good == CASE p.kind = "live"  -> results \subseteq {"UP"}
                     [] p.kind = "ready" -> OverallStatus(results) = "UP"
                     [] p.kind = "full"  -> OverallStatus(results) \in {"UP", "DEGRADED"}
           s == IF good THEN 200 ELSE 503
           q == [p EXCEPT !.said = s]
<1>1. "" \notin results /\ probe' = [probe EXCEPT ![r].said = s]
      /\ UNCHANGED <<registered, cached, ill, turns>>
  BY DEF Respond
<1>2. probe \in [Probes -> HealthProbe \union {NoProbe}] /\ r \in Probes
  BY DEF HealthInv, Running
<1>3. SoundProbe(p) /\ p \in HealthProbe /\ p.kind \in {"live", "ready", "full"}
      /\ p.result \in [Registered -> CheckResults]
  BY DEF HealthInv, SoundProbe, HealthProbe
<1>4. Checked(p.kind) \subseteq Registered /\ (p.kind # "live" => Checked(p.kind) = Registered)
  BY RegisteredIsKnown DEF HealthInv, Checked
<1>5. s \in {0, 200, 503} /\ (s = 200 => good) /\ (s = 503 => ~good)
  <2> HIDE DEF good
  <2> QED OBVIOUS
<1>6. \A n \in Checked(p.kind) : p.result[n] \in results \ {""} /\ p.result[n] \in CheckResults
  BY <1>1, <1>3, <1>4
<1>7. \A x \in results : \E n \in Checked(p.kind) : x = p.result[n]
  OBVIOUS
<1>8. results \subseteq CheckResults /\ "" \notin results
  BY <1>1, <1>3, <1>4
<1>9. results = {} => Checked(p.kind) = {}
  OBVIOUS
<1>10. /\ good /\ p.kind \in {"live", "ready"} => results \subseteq {"UP"}
       /\ good /\ p.kind = "full" => "DOWN" \notin results
       /\ ~good => \/ "DOWN" \in results \/ (p.kind # "full" /\ "DEGRADED" \in results)
                   \/ p.kind # "live" /\ results = {}
  <2> HIDE DEF results
  <2>1. CASE p.kind = "live"
    BY <1>8, <2>1 DEF CheckResults
  <2>2. CASE p.kind = "ready"
    BY <1>8, <2>2, ResultsSay
  <2>3. CASE p.kind = "full"
    BY <1>8, <2>3, ResultsSay
  <2> QED BY <1>3, <2>1, <2>2, <2>3
<1>11. probe' = [probe EXCEPT ![r] = q]
  <2> HIDE DEF s
  <2> QED BY <1>1, <1>2, NestedUpdate
<1> HIDE DEF p, results, good, s
<1>12. /\ q \in HealthProbe /\ SameQuestion(q, p)
       /\ q.doing = p.doing /\ q.result = p.result /\ q.said = s
       /\ q.overlapped = p.overlapped /\ q.ill = p.ill /\ q.well = p.well
  BY <1>3, <1>5, ProbeAnswered
<1> HIDE DEF q
<1>13. SoundProbe(q)
  <2>1. SeesThePresent(q) /\ FindsWhatWas(q)
    BY <1>3, <1>12 DEF SoundProbe, SeesThePresent, FindsWhatWas
  <2>2. ASSUME s = 200, NEW n \in Checked(p.kind)
        PROVE  IF p.kind = "full" THEN n \in p.well \/ n = "memory" ELSE FaultsOf(n) \subseteq p.well
    <3>1. p.result[n] \in {"UP", "DEGRADED"} /\ (p.kind # "full" => p.result[n] = "UP")
      <4>1. good
        BY <1>5, <2>2
      <4>2. p.result[n] \in results \ {""} /\ p.result[n] \in CheckResults
        BY <1>6, <2>2
      <4>3. CASE p.kind \in {"live", "ready"}
        BY <1>10, <4>1, <4>2, <4>3
      <4>4. CASE p.kind = "full"
        BY <1>10, <4>1, <4>2, <4>4 DEF CheckResults
      <4> QED BY <1>3, <4>3, <4>4
    <3> QED BY <1>3, <1>4, <3>1, FaultsAreOfThings DEF SoundProbe, FindsWhatWas
  <2>3. ASSUME s = 503
        PROVE  \/ p.overlapped \/ Registered = {}
               \/ \E n \in Checked(p.kind) :
                    (IF p.kind = "full" THEN MayHang(n) ELSE FaultsOf(n)) \intersect p.ill # {}
    <3>1. CASE results = {} /\ p.kind # "live"
      BY <1>4, <1>9, <3>1
    <3>2. CASE "DOWN" \in results \/ (p.kind # "full" /\ "DEGRADED" \in results)
      <4>1. PICK n \in Checked(p.kind) :
              p.result[n] = "DOWN" \/ (p.kind # "full" /\ p.result[n] = "DEGRADED")
        BY <1>7, <3>2
      <4>2. \/ MayHang(n) \intersect p.ill # {} \/ p.overlapped
            \/ p.kind # "full" /\ FaultsOf(n) \intersect p.ill # {}
        BY <1>3, <1>4, <4>1 DEF SoundProbe, FindsWhatWas
      <4>3. MayHang(n) \intersect p.ill # {} => FaultsOf(n) \intersect p.ill # {}
        BY FaultsAreOfThings
      <4> QED BY <4>2, <4>3
    <3> QED BY <1>5, <1>10, <2>3, <3>1, <3>2
  <2>4. AnswersTruly(q)
    BY <1>12, <2>2, <2>3 DEF AnswersTruly, SameQuestion
  <2> QED BY <1>12, <2>1, <2>4 DEF SoundProbe
<1>14. UsesCache(q) <=> UsesCache(p)
  BY <1>12 DEF UsesCache, SameQuestion
<1>15. UsesCache(q) /\ ~q.overlapped /\ q.doing["cache"] = "written" => q.key \in cached
  BY <1>12, <1>14 DEF HealthInv, KeyIsThere, SameQuestion, p
<1>16. cached \subseteq TestKeys
  BY DEF HealthInv
<1> QED
  <2> USE DEF p
  <2> QED BY <1>1, <1>11, <1>12, <1>13, <1>14, <1>15, <1>16, OneProbe

(* What an ill thing is to a running probe.                                *)
LEMMA RunningSees ==
  ASSUME HealthInv, NEW r \in Running
  PROVE  /\ ill \subseteq probe[r].ill
         /\ \A n \in Registered : probe[r].doing[n] = "connected" => n \in probe[r].well
         /\ \A n \in Registered : probe[r].doing[n] = "failed" => n \in probe[r].ill
         /\ UsesCache(probe[r]) /\ ~probe[r].overlapped => KeyIsThere(probe[r])
         /\ probe[r].key \in TestKeys /\ cached \subseteq TestKeys
BY DEF HealthInv, SoundProbe, SeesThePresent, FindsWhatWas, HealthProbe

LEMMA CheckingIsRegistered ==
  ASSUME HealthInv, NEW r, NEW n, Checking(r, n)
  PROVE  r \in Running /\ n \in Registered
BY RegisteredIsKnown DEF HealthInv, Checking

LEMMA QueryStep ==
  ASSUME HealthInv, NEW r \in Running,
         Ping(r) \/ CheckDisk(r) \/ CheckConnection(r) \/ CheckQueues(r)
  PROVE  HealthInv'
<1>1. cached' = cached /\ UNCHANGED <<registered, ill, turns>> /\ cached' \subseteq TestKeys
  BY RunningSees DEF Ping, CheckDisk, CheckConnection, CheckQueues
<1>a. /\ ill \subseteq probe[r].ill
      /\ \A n \in Registered : FaultsOf(n) \subseteq Faults /\ n \in FaultsOf(n)
      /\ \A n \in Faults : n \in ill \/ n \in probe[r].well
  BY FaultsAreOfThings DEF HealthInv, SoundProbe, SeesThePresent
<1>2. CASE Ping(r)
  <2>1. Checking(r, "postgresql") /\ FaultsOf("postgresql") = {"postgresql"}
        /\ "postgresql" \in MayHang("postgresql")
    BY <1>2, FaultsAreOfThings DEF Ping
  <2>2. CASE "postgresql" \in ill
    BY <1>1, <1>a, <1>2, <2>1, <2>2, FindsStep DEF Ping
  <2>3. CASE "postgresql" \notin ill
    BY <1>1, <1>2, <2>1, <2>3, FindsStep DEF Ping
  <2> QED BY <2>2, <2>3
<1>b. CASE CheckDisk(r)
  <2>1. Checking(r, "disk") /\ FaultsOf("disk") = {"disk", "space"} /\ "disk" \in MayHang("disk")
    BY <1>b, FaultsAreOfThings DEF CheckDisk
  <2>2. CASE "disk" \in ill
    BY <1>1, <1>a, <1>b, <2>1, <2>2, FindsStep DEF CheckDisk
  <2>3. CASE "disk" \notin ill /\ "space" \in ill
    <3>1. "disk" \in probe[r].well
      BY <1>a, <2>1, <2>3, CheckingIsRegistered
    <3> QED BY <1>1, <1>b, <2>1, <2>3, <3>1, FindsStep DEF CheckDisk
  <2>4. CASE "disk" \notin ill /\ "space" \notin ill
    BY <1>1, <1>b, <2>1, <2>4, FindsStep DEF CheckDisk
  <2> QED BY <2>2, <2>3, <2>4
<1>3. CASE CheckConnection(r)
  <2>1. CASE "rabbitmq" \in ill
    <3>1. "rabbitmq" \in MayHang("rabbitmq") /\ Checking(r, "rabbitmq")
      BY <1>3, FaultsAreOfThings DEF CheckConnection
    <3> QED BY <1>1, <1>a, <1>3, <2>1, <3>1, FindsStep DEF CheckConnection
  <2>2. CASE "rabbitmq" \notin ill
    BY <1>1, <1>3, <2>2, GoesOnStep DEF CheckConnection, CheckStages
  <2> QED BY <2>1, <2>2
<1>4. CASE CheckQueues(r)
  <2>1. Checking(r, "rabbitmq") /\ "rabbitmq" \in probe[r].well
    BY <1>4, CheckingIsRegistered, RunningSees DEF CheckQueues
  <2>2. CASE ill \intersect FaultsOf("rabbitmq") # {}
    BY <1>1, <1>4, <2>1, <2>2, FindsStep DEF CheckQueues
  <2>3. CASE ill \intersect FaultsOf("rabbitmq") = {}
    BY <1>1, <1>4, <2>1, <2>3, FindsStep DEF CheckQueues
  <2> QED BY <2>2, <2>3
<1> QED BY <1>2, <1>b, <1>3, <1>4

LEMMA KeyStep ==
  ASSUME HealthInv, NEW r \in Running, CacheFails(r) \/ SetKey(r) \/ GetKey(r) \/ DeleteKey(r)
  PROVE  HealthInv'
<1>a. FaultsOf("cache") = {"cache"} /\ "cache" \in MayHang("cache")
  BY FaultsAreOfThings
<1>1. Checking(r, "cache") /\ UNCHANGED <<registered, ill, turns>>
  BY DEF CacheFails, SetKey, GetKey, DeleteKey, CacheStep
<1>2. UsesCache(probe[r]) /\ "cache" \in Registered
  BY <1>1, CheckingIsRegistered DEF UsesCache, Checking
<1>3. probe[r].key \in TestKeys /\ cached \subseteq TestKeys /\ TestKey(probe[r].key) = probe[r].key
  BY RunningSees DEF TestKey
<1>4. CASE CacheFails(r)
  BY <1>1, <1>3, <1>4, GoesOnStep DEF CacheFails, CheckStages
<1>5. CASE SetKey(r)
  <2>1. cached' = cached \union {probe[r].key} /\ CheckGoesOn(r, "cache", "written")
    BY <1>3, <1>5 DEF SetKey
  <2>2. cached' \subseteq TestKeys /\ cached \subseteq cached' /\ probe[r].key \in cached'
    BY <1>3, <2>1
  <2>3. "written" \in CheckStages \ {"done"}
    BY DEF CheckStages
  <2> QED BY <1>1, <2>1, <2>2, <2>3, GoesOnStep
<1>6. CASE GetKey(r)
  <2>1. CASE probe[r].key \in cached
    BY <1>1, <1>3, <1>6, <2>1, GoesOnStep DEF GetKey, CheckStages
  <2>2. CASE probe[r].key \notin cached
    <3>1. probe[r].doing["cache"] = "written" /\ cached' = cached /\ Finds(r, "cache", "DOWN")
      BY <1>3, <1>6, <2>2 DEF GetKey, CacheStep
    <3>2. probe[r].overlapped
      BY <1>2, <2>2, <3>1, RunningSees DEF KeyIsThere
    <3> QED BY <1>1, <1>3, <3>1, <3>2, FindsStep
  <2> QED BY <2>1, <2>2
<1>7. CASE DeleteKey(r)
  <2>1. cached' \subseteq TestKeys /\ cached \ {probe[r].key} \subseteq cached'
    BY <1>3, <1>7 DEF DeleteKey
  <2>2. CASE "cache" \notin ill /\ Finds(r, "cache", "UP")
    BY <1>a, <1>1, <2>1, <2>2, FindsStep
  <2>3. CASE probe[r].doing["cache"] = "failed" /\ Finds(r, "cache", "DOWN")
    <3>1. "cache" \in probe[r].ill
      BY <1>2, <2>3, RunningSees
    <3> QED BY <1>a, <1>1, <2>1, <2>3, <3>1, FindsStep
  <2> QED BY <1>7, <2>2, <2>3 DEF DeleteKey, CacheStep
<1> QED BY <1>4, <1>5, <1>6, <1>7

LEMMA TurnStep == ASSUME HealthInv, Turn PROVE HealthInv'
<1>1. turns' \in 0 .. MaxTurns /\ UNCHANGED <<registered, cached>> /\ ill' \subseteq Faults
  <2>1. turns' \in 0 .. MaxTurns
    <3>1. turns > 0 /\ turns' = turns - 1 /\ turns \in 0 .. MaxTurns
      BY DEF HealthInv, Turn
    <3>2. MaxTurns \in Nat
      BY HealthAssumption
    <3> QED BY <3>1, <3>2
  <2>2. ill' \subseteq Faults
    BY DEF HealthInv, Turn
  <2> QED BY <2>1, <2>2 DEF Turn
<1>2. /\ Registered' = Registered /\ HealthProbe' = HealthProbe
      /\ Faults' = Faults /\ \A path : (Checked(path))' = Checked(path)
  BY <1>1 DEF Registered, Faults, HealthProbe, Checked
<1> DEFINE i(r) == probe[r].ill \union ill'
           w(r) == probe[r].well \union (Faults \ ill')
           q(r) == [probe[r] EXCEPT !.ill = i(r), !.well = w(r)]
<1>3. probe' = [r \in Probes |-> IF r \in Running THEN q(r) ELSE NoProbe]
  BY DEF Turn
<1>4. ASSUME NEW r \in Running
      PROVE  /\ q(r) \in HealthProbe /\ SameQuestion(q(r), probe[r])
             /\ q(r).doing = probe[r].doing /\ q(r).result = probe[r].result
             /\ q(r).said = probe[r].said /\ q(r).overlapped = probe[r].overlapped
             /\ q(r).ill = i(r) /\ q(r).well = w(r)
  <2>1. probe[r] \in HealthProbe
    BY DEF HealthInv, SoundProbe
  <2>2. i(r) \in SUBSET Faults /\ w(r) \in SUBSET Faults
    BY <1>1, <2>1 DEF HealthProbe
  <2> HIDE DEF i, w
  <2>3. q(r) \in HealthProbe
    BY <2>1, <2>2, ZenonT(40) DEF HealthProbe
  <2>4. /\ q(r).kind = probe[r].kind /\ q(r).key = probe[r].key
        /\ q(r).doing = probe[r].doing /\ q(r).result = probe[r].result
        /\ q(r).said = probe[r].said /\ q(r).overlapped = probe[r].overlapped
        /\ q(r).ill = i(r) /\ q(r).well = w(r)
    BY <2>1 DEF HealthProbe
  <2> QED BY <2>3, <2>4 DEF SameQuestion
<1> HIDE DEF q
<1>5. \A r \in Running : probe'[r] = q(r)
  BY <1>3 DEF Running
<1>6. probe' \in [Probes -> HealthProbe \union {NoProbe}] /\ Running' = Running
  <2>1. probe' \in [Probes -> HealthProbe \union {NoProbe}]
    BY <1>3, <1>4
  <2>2. \A r \in Probes : probe'[r] # NoProbe <=> r \in Running
    BY <1>3, <1>4, NoProbeIsNone
  <2> QED BY <2>1, <2>2 DEF Running
<1>7. ASSUME NEW r \in Running PROVE (SoundProbe(probe[r]))'
  <2>1. SoundProbe(probe[r])
    BY DEF HealthInv
  <2>2. /\ ill' \subseteq q(r).ill /\ Faults \ ill' \subseteq q(r).well
        /\ probe[r].ill \subseteq q(r).ill /\ probe[r].well \subseteq q(r).well
    BY <1>4
  <2>3. (SeesThePresent(probe[r]))'
    BY <1>2, <1>5, <2>2 DEF SeesThePresent
  <2>4. (FindsWhatWas(probe[r]))'
    BY <1>2, <1>4, <1>5, <2>1, <2>2 DEF FindsWhatWas, SoundProbe
  <2>5. (AnswersTruly(probe[r]))'
    <3>1. AnswersTruly(q(r))
      BY <1>4, <2>1, <2>2 DEF AnswersTruly, SoundProbe, SameQuestion
    <3> QED BY <1>2, <1>5, <3>1 DEF AnswersTruly
  <2> QED BY <1>2, <1>4, <1>5, <2>3, <2>4, <2>5 DEF SoundProbe
<1>8. ASSUME NEW r \in Running
      PROVE  /\ (UsesCache(probe[r]))' <=> UsesCache(probe[r])
             /\ (KeyIsThere(probe[r]))' <=> KeyIsThere(probe[r])
             /\ probe'[r].key = probe[r].key /\ probe'[r].overlapped = probe[r].overlapped
  BY <1>1, <1>2, <1>4, <1>5 DEF UsesCache, KeyIsThere, SameQuestion
<1>9. (\A r \in Running : UsesCache(probe[r]) /\ ~probe[r].overlapped =>
         /\ KeyIsThere(probe[r])
         /\ \A s \in Running : s # r /\ UsesCache(probe[s]) => probe[s].key # probe[r].key)'
  BY <1>6, <1>8 DEF HealthInv
<1> QED BY <1>1, <1>2, <1>6, <1>7, <1>9 DEF HealthInv

(* A probe begins: it and those that check with the same key overlap.      *)
LEMMA ProbeStep ==
  ASSUME HealthInv, NEW r \in Probes, NEW path \in {"live", "ready", "full"}, NEW key \in TestKeys,
         Probe(r, path, key)
  PROVE  HealthInv'
<1> DEFINE others == {other \in Probes : "cache" \in Checked(path) /\ SharesKey(other, key)}
           d == [n \in Registered |-> IF n = "memory" THEN "done" ELSE "begun"]
           f == [n \in Registered |-> IF n # "memory" THEN ""
                                        ELSE IF n \in ill THEN "DEGRADED" ELSE "UP"]
           started == [kind |-> path, key |-> key, said |-> 0, doing |-> d, result |-> f,
                       ill |-> ill, well |-> Faults \ ill, overlapped |-> others # {}]
           marked(s) == [probe[s] EXCEPT !.overlapped = TRUE]
<1>1. /\ probe[r] = NoProbe
      /\ probe' = [s \in Probes |-> IF s = r THEN started
                                      ELSE IF s \in others THEN marked(s) ELSE probe[s]]
      /\ UNCHANGED <<registered, cached, ill, turns>>
  BY DEF Probe
<1>2. /\ Registered' = Registered /\ HealthProbe' = HealthProbe
      /\ Faults' = Faults /\ \A k : (Checked(k))' = Checked(k)
  <2>1. registered' = registered
    BY <1>1
  <2> QED BY <2>1, SMTT(30) DEF Registered, Faults, HealthProbe, Checked
<1>3. d \in [Registered -> CheckStages] /\ f \in [Registered -> CheckResults] /\ ill \subseteq Faults
  <2>1. d \in [Registered -> CheckStages]
    BY DEF CheckStages
  <2>2. f \in [Registered -> CheckResults]
    BY DEF CheckResults
  <2>3. ill \subseteq Faults
    BY DEF HealthInv
  <2> HIDE DEF d, f
  <2> QED BY <2>1, <2>2, <2>3
<1>4. \A n \in Registered : d[n] = (IF n = "memory" THEN "done" ELSE "begun")
                            /\ f[n] = (IF n # "memory" THEN "" ELSE IF n \in ill THEN "DEGRADED" ELSE "UP")
  OBVIOUS
<1>5. \A s \in others : s \in Running /\ UsesCache(probe[s]) /\ probe[s].key = key
  BY DEF SharesKey, Checking, UsesCache
<1>6. \A s \in Running : UsesCache(probe[s]) /\ probe[s].key = key /\ "cache" \in Checked(path)
                           => s \in others
  BY DEF SharesKey, Checking, UsesCache, Running
<1> HIDE DEF d, f, others
<1>7. started \in HealthProbe
  BY <1>3 DEF HealthProbe
<1>8. SoundProbe(started)
  <2>1. ASSUME NEW n \in Registered
        PROVE  /\ f[n] = "UP" => n = "memory" /\ n \notin ill
               /\ f[n] # "DOWN" /\ (f[n] = "DEGRADED" => n = "memory" /\ n \in ill)
               /\ d[n] \notin {"connected", "failed"}
    BY <1>4
  <2>3. FaultsOf("memory") = {"memory"} /\ \A n \in Registered : n \in Faults \/ n # "memory"
    BY FaultsAreOfThings
  <2>4. FindsWhatWas(started)
    BY <2>1, <2>3 DEF FindsWhatWas
  <2>2. SeesThePresent(started) /\ AnswersTruly(started)
    BY DEF SeesThePresent, AnswersTruly
  <2> QED BY <1>7, <2>2, <2>4 DEF SoundProbe
<1>9. /\ started.key = key /\ started.overlapped = (others # {})
      /\ (UsesCache(started) => "cache" \in Checked(path))
      /\ UsesCache(started) => started.doing["cache"] = "begun"
  BY <1>4, RegisteredIsKnown DEF UsesCache, HealthInv
<1> HIDE DEF started
<1>10. ASSUME NEW s \in others
       PROVE  /\ SoundProbe(marked(s)) /\ SameQuestion(marked(s), probe[s])
              /\ marked(s).doing = probe[s].doing /\ marked(s).overlapped
  <2>1. SoundProbe(probe[s]) /\ probe[s] \in HealthProbe
    BY <1>5 DEF HealthInv, SoundProbe
  <2>2. /\ marked(s) \in HealthProbe /\ SameQuestion(marked(s), probe[s])
        /\ marked(s).doing = probe[s].doing /\ marked(s).result = probe[s].result
        /\ marked(s).said = probe[s].said /\ marked(s).overlapped
        /\ marked(s).ill = probe[s].ill /\ marked(s).well = probe[s].well
    BY <2>1, ProbeOverlaps
  <2> HIDE DEF marked
  <2> QED BY <2>1, <2>2 DEF SoundProbe, SeesThePresent, FindsWhatWas, AnswersTruly, SameQuestion
<1> HIDE DEF marked
<1>11. r \notin Running /\ r \notin others /\ probe \in [Probes -> HealthProbe \union {NoProbe}]
  BY <1>1, <1>5 DEF Running, HealthInv
<1>12. /\ probe'[r] = started
       /\ \A s \in others : probe'[s] = marked(s)
       /\ \A s \in Running \ others : probe'[s] = probe[s]
       /\ Running' = Running \union {r}
  <2>1. /\ probe'[r] = started
        /\ \A s \in others : probe'[s] = marked(s)
        /\ \A s \in Probes \ others : s # r => probe'[s] = probe[s]
    BY <1>1, <1>5, <1>11 DEF Running
  <2>2. \A s \in Probes : probe'[s] # NoProbe <=> s \in Running \/ s = r
    BY <1>5, <1>7, <1>10, <1>11, <2>1, NoProbeIsNone DEF SoundProbe, Running
  <2> QED BY <1>11, <2>1, <2>2 DEF Running
<1>13. probe' \in [Probes -> HealthProbe \union {NoProbe}]
  BY <1>1, <1>7, <1>10, <1>11 DEF SoundProbe
<1>14. ASSUME NEW s \in Running' PROVE (SoundProbe(probe[s]))'
  <2>1. SoundProbe(probe'[s])
    BY <1>8, <1>10, <1>12 DEF HealthInv
  <2> QED BY <1>1, <1>2, <2>1 DEF SoundProbe, SeesThePresent, FindsWhatWas, AnswersTruly
<1>15. ASSUME NEW s \in Running
       PROVE  /\ (UsesCache(probe[s]))' <=> UsesCache(probe[s])
              /\ (KeyIsThere(probe[s]))' <=> KeyIsThere(probe[s])
              /\ probe'[s].key = probe[s].key
              /\ ~probe'[s].overlapped => ~probe[s].overlapped /\ s \notin others
  <2>1. CASE s \in others
    BY <1>1, <1>2, <1>10, <1>12, <2>1 DEF UsesCache, KeyIsThere, SameQuestion
  <2>2. CASE s \notin others
    BY <1>1, <1>2, <1>12, <2>2 DEF UsesCache, KeyIsThere
  <2> QED BY <2>1, <2>2
<1>16. (UsesCache(probe[r]))' => /\ "cache" \in Checked(path)
                                 /\ (KeyIsThere(probe[r]))'
  BY <1>2, <1>9, <1>12 DEF UsesCache, KeyIsThere
<1>17. ASSUME NEW s \in Running', (UsesCache(probe[s]))', ~probe'[s].overlapped
       PROVE  /\ (KeyIsThere(probe[s]))'
              /\ \A t \in Running' : t # s /\ (UsesCache(probe[t]))' => probe'[t].key # probe'[s].key
  <2>1. CASE s = r
    <3>1. others = {}
      BY <1>9, <1>12, <1>17, <2>1
    <3> QED BY <1>6, <1>9, <1>12, <1>15, <1>16, <1>17, <2>1, <3>1
  <2>2. CASE s \in Running
    <3>1. /\ (KeyIsThere(probe[s]))' /\ s \notin others
          /\ \A t \in Running : t # s /\ (UsesCache(probe[t]))' => probe'[t].key # probe'[s].key
      BY <1>15, <1>17, <2>2 DEF HealthInv
    <3>2. (UsesCache(probe[r]))' => probe'[r].key # probe'[s].key
      BY <1>6, <1>9, <1>12, <1>15, <1>16, <1>17, <2>2, <3>1
    <3> QED BY <1>12, <3>1, <3>2
  <2> QED BY <1>12, <2>1, <2>2
<1>18. cached' \subseteq TestKeys /\ ill' \subseteq Faults /\ turns' \in 0 .. MaxTurns
       /\ registered' \in Registrations
  BY <1>1 DEF HealthInv
<1> QED BY <1>2, <1>13, <1>14, <1>17, <1>18 DEF HealthInv

LEMMA HealthStays == ASSUME HealthInv, UNCHANGED healthVars PROVE HealthInv'
<1>1. UNCHANGED <<registered, probe, cached, ill, turns>>
  BY DEF healthVars
<1>2. /\ Registered' = Registered /\ HealthProbe' = HealthProbe /\ Running' = Running
      /\ Faults' = Faults /\ \A k : (Checked(k))' = Checked(k)
  BY <1>1 DEF Registered, Faults, HealthProbe, Running, Checked
<1>3. ASSUME NEW r \in Running
      PROVE  /\ (SoundProbe(probe[r]))' <=> SoundProbe(probe[r])
             /\ (UsesCache(probe[r]))' <=> UsesCache(probe[r])
             /\ (KeyIsThere(probe[r]))' <=> KeyIsThere(probe[r])
  BY <1>1, <1>2 DEF SoundProbe, SeesThePresent, FindsWhatWas, AnswersTruly, UsesCache, KeyIsThere
<1> QED BY <1>1, <1>2, <1>3 DEF HealthInv

LEMMA HealthKeeps == HealthInv /\ [HealthNext]_healthVars => HealthInv'
<1> SUFFICES ASSUME HealthInv, [HealthNext]_healthVars PROVE HealthInv'
  OBVIOUS
<1>1. CASE UNCHANGED healthVars
  BY <1>1, HealthStays
<1>2. CASE Turn
  BY <1>2, TurnStep
<1>3. ASSUME NEW r \in Probes, NEW path \in {"live", "ready", "full"}, NEW key \in TestKeys,
             Probe(r, path, key)
      PROVE  HealthInv'
  BY <1>3, ProbeStep
<1>4. ASSUME NEW r \in Running,
             \/ Ping(r) \/ CheckDisk(r) \/ CheckConnection(r) \/ CheckQueues(r)
             \/ CacheFails(r) \/ SetKey(r) \/ GetKey(r) \/ DeleteKey(r)
             \/ TimesOut(r) \/ Respond(r)
      PROVE  HealthInv'
  BY <1>4, QueryStep, KeyStep, TimesOutStep, RespondStep
<1> QED BY <1>1, <1>2, <1>3, <1>4 DEF HealthNext

LEMMA HealthPartStep == [ServicesNext]_servicesVars => [HealthNext]_healthVars
BY DEF ServicesNext, servicesVars, sideVars

(* Whatever falls ill and recovers while any number of probes run, time out*)
(* and share keys: 200 of liveness and readiness says that nothing was     *)
(* wrong with each thing checked at some time since the probe began, 200 of*)
(* the full answer only that each worked, though a queue, the disk's space *)
(* or the memory may be in trouble all the time; 503 says that the probe   *)
(* met a fault (the full answer: one that is not mere pressure), that a key*)
(* was shared or that nothing is registered.                               *)
THEOREM ProbesAreHonest == ServicesSpec => []ProbesTellTheTruth
<1>1. ServicesInit => HealthInv
  BY InitHealth DEF ServicesInit
<1>2. HealthInv => ProbesTellTheTruth
  <2> SUFFICES ASSUME HealthInv, NEW r \in Running
               PROVE  LET checked == Checked(probe[r].kind)
                          Pressure == IF probe[r].kind = "full" THEN {"memory", "space"} ELSE {}
                          Trouble == IF probe[r].kind = "full" THEN {"memory", "space", "queues"} ELSE {}
                      IN /\ probe[r].said = 200 =>
                              \A n \in checked : FaultsOf(n) \ Trouble \subseteq probe[r].well
                         /\ probe[r].said = 503 =>
                              \/ probe[r].overlapped \/ Registered = {}
                              \/ \E n \in checked : (FaultsOf(n) \ Pressure) \intersect probe[r].ill # {}
    BY DEF ProbesTellTheTruth
  <2>1. AnswersTruly(probe[r]) /\ Checked(probe[r].kind) \subseteq IndicatorNames
    BY RegisteredIsKnown DEF HealthInv, SoundProbe
  <2>2. \A n \in IndicatorNames :
          FaultsOf(n) \ {"memory", "space", "queues"} \subseteq {n} \ {"memory"}
    BY FaultsAreOfThings DEF IndicatorNames
  <2>3. CASE probe[r].kind = "full"
    BY <2>1, <2>2, <2>3 DEF AnswersTruly, MayHang
  <2>4. CASE probe[r].kind # "full"
    BY <2>1, <2>4 DEF AnswersTruly
  <2> QED BY <2>3, <2>4
<1>3. HealthInv /\ [ServicesNext]_servicesVars => HealthInv'
  BY HealthKeeps, HealthPartStep
<1> QED BY <1>1, <1>2, <1>3, PTL DEF ServicesSpec

-----------------------------------------------------------------------------
(* The checkout of an order.                                               *)
OrderFacts == INSTANCE OrderAggregateProofs
                WITH Payments <- {}, NoPayment <- "none", MaxPaymentFailures <- 3, MaxItems <- CheckoutItems

CheckoutEvents == [type : {"CREATED", "ITEM_ADDED", "CONFIRMED", "CANCELLED"},
                   payment : {"none"}, n : 0 .. CheckoutItems]
CheckoutOrders == [status : {"DRAFT", "AWAITING_INVENTORY", "CANCELLED"}, items : 0 .. CheckoutItems,
                   failures : {0}, payment : {"none"}]
CheckoutRows == [at : Nat, status : {"none", "DRAFT", "AWAITING_INVENTORY", "CANCELLED"},
                 items : 0 .. CheckoutItems, total : 0 .. CheckoutItems]
CheckoutCalls ==
  [doing : {"idle", "read", "created", "processed", "answered", "lost"}, seen : CheckoutRows,
   said : {"nothing", "success", "failure", "failure of payment"}]
PayEvents == [type : {"CREATED", "PROCESSING", "COMPLETED", "FAILED"}, amount : {0}]

CheckoutTypes ==
  /\ orderLog \in Seq(CheckoutEvents) /\ orderRow \in CheckoutRows
  /\ payLog \in [Checkouts -> Seq(PayEvents)] /\ amount \in [Checkouts -> 0 .. CheckoutItems]
  /\ checkout \in [Checkouts -> CheckoutCalls]

TheOrder == Order!Rehydrate(orderLog)

(* How many items the first n events add.                                  *)
AdditionsIn(events, n) == {v \in 1 .. n : events[v].type = "ITEM_ADDED"}
ItemsIn(events, n) == Cardinality(AdditionsIn(events, n))
ItemsAt(n) == ItemsIn(orderLog, n)

(* The order counts its items, and they stay what was confirmed.           *)
ItemsAreCounted ==
  /\ TheOrder \in CheckoutOrders /\ TheOrder.items = ItemsAt(Len(orderLog))
  /\ \A p \in 1 .. Len(orderLog) :
       orderLog[p].type = "CONFIRMED" =>
         TheOrder.status # "DRAFT" /\ orderLog[p].n = TheOrder.items

(* A row is the order after its first events; the row of one more item may *)
(* be there already.                                                       *)
RowIsOf(r) == r.at <= Len(orderLog) /\ r.total = ItemsAt(r.at)

RowsFollow ==
  /\ RowIsOf(orderRow) /\ \A c \in Checkouts : RowIsOf(checkout[c].seen)
  /\ \/ orderRow.items = orderRow.total
     \/ /\ orderRow.items = orderRow.total + 1 /\ orderRow.at < Len(orderLog)
        /\ orderLog[orderRow.at + 1].type = "ITEM_ADDED"

Processed(c) == \E k \in 1 .. Len(payLog[c]) : payLog[c][k].type = "PROCESSING"
Confirmed == \E p \in 1 .. Len(orderLog) : orderLog[p].type = "CONFIRMED"
Says(c, said) == checkout[c].said = said

(* What the payment of a call is, by how far the call has come.            *)
PaymentKeepsUp(c) ==
  /\ checkout[c].doing \in {"idle", "read"} => payLog[c] = <<>>
  /\ checkout[c].doing # "answered" => Says(c, "nothing")
  /\ checkout[c].doing \in {"created", "processed"} \/ Says(c, "success") =>
       amount[c] = checkout[c].seen.total
  /\ checkout[c].doing = "processed" \/ Says(c, "success") => Processed(c)
  /\ Says(c, "failure") => ~Processed(c)

CheckoutInv ==
  /\ CheckoutTypes /\ ItemsAreCounted /\ RowsFollow
  /\ \A c \in Checkouts : PaymentKeepsUp(c) /\ (Says(c, "success") => Confirmed)
  /\ \A c, d \in Checkouts : Says(c, "success") /\ Says(d, "success") => c = d

LEMMA SameReplay == ASSUME NEW o, NEW b PROVE Order!Replay(o, b) = OrderFacts!Replay(o, b)
BY DEF Order!Replay, OrderFacts!Replay, Order!Apply, OrderFacts!Apply, Order!FoldLeft,
       OrderFacts!FoldLeft, Order!MapThenFoldSet, OrderFacts!MapThenFoldSet, Order!Max, OrderFacts!Max

LEMMA RehydrateAppend ==
  ASSUME NEW b \in Seq(CheckoutEvents), NEW e \in CheckoutEvents
  PROVE  Order!Rehydrate(Append(b, e)) = Order!Apply(Order!Rehydrate(b), e)
<1> DEFINE o == Order!NewOrder
<1>1. OrderFacts!Replay(o, Append(b, e)) = OrderFacts!Apply(OrderFacts!Replay(o, b), e)
  BY OrderFacts!ReplayAppend
<1>2. \A x : OrderFacts!Apply(x, e) = Order!Apply(x, e)
  BY DEF Order!Apply, OrderFacts!Apply
<1> QED BY <1>1, <1>2, SameReplay DEF Order!Rehydrate

LEMMA RehydrateEmpty == Order!Rehydrate(<<>>) = Order!NewOrder
BY SameReplay, OrderFacts!ReplayEmpty DEF Order!Rehydrate

(* Counting the items of a log that grows.                                 *)
LEMMA CountFacts ==
  /\ \A b : ItemsIn(b, 0) = 0
  /\ \A b : \A n \in Nat : /\ IsFiniteSet(AdditionsIn(b, n)) /\ ItemsIn(b, n) \in Nat
                           /\ ItemsIn(b, n + 1) = IF b[n + 1].type = "ITEM_ADDED"
                                                  THEN ItemsIn(b, n) + 1 ELSE ItemsIn(b, n)
<1>1. ASSUME NEW b PROVE ItemsIn(b, 0) = 0
  <2>1. AdditionsIn(b, 0) = {}
    BY DEF AdditionsIn
  <2> QED BY <2>1, FS_EmptySet DEF ItemsIn
<1>2. ASSUME NEW b, NEW n \in Nat
      PROVE  /\ IsFiniteSet(AdditionsIn(b, n)) /\ ItemsIn(b, n) \in Nat
             /\ ItemsIn(b, n + 1) = IF b[n + 1].type = "ITEM_ADDED"
                                    THEN ItemsIn(b, n) + 1 ELSE ItemsIn(b, n)
  <2> DEFINE A == AdditionsIn(b, n)
             B == AdditionsIn(b, n + 1)
  <2>1. IsFiniteSet(1 .. n) /\ A \subseteq 1 .. n
    <3>1. IsFiniteSet(1 .. n)
      BY FS_Interval
    <3> QED BY <3>1 DEF AdditionsIn
  <2>2. IsFiniteSet(A)
    BY <2>1, FS_Subset
  <2>3. Cardinality(A) \in Nat
    BY <2>2, FS_CardinalityType
  <2>4. B = IF b[n + 1].type = "ITEM_ADDED" THEN A \union {n + 1} ELSE A
    BY DEF AdditionsIn
  <2>5. n + 1 \notin A
    BY DEF AdditionsIn
  <2>6. Cardinality(A \union {n + 1}) = Cardinality(A) + 1
    BY <2>2, <2>5, FS_AddElement
  <2> HIDE DEF A, B
  <2>7. Cardinality(B) = IF b[n + 1].type = "ITEM_ADDED" THEN Cardinality(A) + 1 ELSE Cardinality(A)
    BY <2>4, <2>6
  <2> QED BY <2>2, <2>3, <2>7 DEF ItemsIn, A, B
<1> QED BY <1>1, <1>2

LEMMA CountsAgree ==
  ASSUME NEW b \in Seq(CheckoutEvents), NEW e \in CheckoutEvents, NEW n \in 0 .. Len(b)
  PROVE  ItemsIn(Append(b, e), n) = ItemsIn(b, n)
<1>1. AdditionsIn(Append(b, e), n) = AdditionsIn(b, n)
  BY DEF AdditionsIn
<1> QED BY <1>1 DEF ItemsIn

LEMMA CountsGrow ==
  ASSUME NEW b, NEW n \in Nat, NEW m \in Nat, m <= n
  PROVE  ItemsIn(b, m) <= ItemsIn(b, n)
<1>1. IsFiniteSet(AdditionsIn(b, n)) /\ IsFiniteSet(AdditionsIn(b, m))
  BY CountFacts
<1>2. AdditionsIn(b, m) \subseteq AdditionsIn(b, n)
  BY DEF AdditionsIn
<1> QED BY <1>1, <1>2, FS_Subset DEF ItemsIn

(* One more event of the order, as the handlers raise it.                  *)
OrderTakes(e) ==
  /\ e \in CheckoutEvents /\ orderLog' = Append(orderLog, e)
  /\ \/ orderLog = <<>> /\ e.type = "CREATED"
     \/ TheOrder.status = "DRAFT" /\ TheOrder.items < CheckoutItems /\ e.type = "ITEM_ADDED"
     \/ TheOrder.status = "DRAFT" /\ e.type = "CONFIRMED" /\ e.n = TheOrder.items
     \/ e.type = "CANCELLED"

OrderCommandNames == {"CreateOrder", "AddItem", "Confirm", "Cancel"}

LEMMA CommandTakes ==
  ASSUME CheckoutInv, NEW name \in OrderCommandNames,
         NEW raised \in Order!OrderRaises(orderLog, [name |-> name]), orderLog' = orderLog \o raised
  PROVE  \E e : OrderTakes(e) /\ (name = "Confirm" => e.type = "CONFIRMED" /\ TheOrder.status = "DRAFT")
<1>1. orderLog \in Seq(CheckoutEvents) /\ TheOrder \in CheckoutOrders /\ CheckoutItems \in Nat
  BY CheckoutAssumption DEF CheckoutInv, CheckoutTypes, ItemsAreCounted
<1>2. TheOrder.items \in 0 .. CheckoutItems /\ TheOrder.payment = "none"
  BY <1>1 DEF CheckoutOrders
<1> DEFINE created == Order!Event("CREATED")
           added == Order!Event("ITEM_ADDED")
           confirmed == [Order!Event("CONFIRMED") EXCEPT !.n = TheOrder.items]
           cancelled == [Order!Event("CANCELLED") EXCEPT !.payment = TheOrder.payment]
<1>3. /\ created \in CheckoutEvents /\ created.type = "CREATED"
      /\ added \in CheckoutEvents /\ added.type = "ITEM_ADDED"
      /\ confirmed \in CheckoutEvents /\ confirmed.type = "CONFIRMED" /\ confirmed.n = TheOrder.items
      /\ cancelled \in CheckoutEvents /\ cancelled.type = "CANCELLED"
  BY <1>1, <1>2 DEF CheckoutEvents, Order!Event
<1>4. \/ orderLog = <<>> /\ raised = <<created>> /\ name = "CreateOrder"
      \/ TheOrder.status = "DRAFT" /\ TheOrder.items < CheckoutItems /\ raised = <<added>>
         /\ name = "AddItem"
      \/ TheOrder.status = "DRAFT" /\ raised = <<confirmed>> /\ name = "Confirm"
      \/ raised = <<cancelled>> /\ name = "Cancel"
  BY DEF OrderCommandNames, Order!OrderRaises, TheOrder, Order!When, Order!AddItem, Order!Confirm, Order!Cancel
<1>5. \A e : orderLog \o <<e>> = Append(orderLog, e)
  BY <1>1
<1> HIDE DEF created, added, confirmed, cancelled
<1> QED BY <1>3, <1>4, <1>5 DEF OrderTakes

LEMMA ApplyFacts ==
  ASSUME NEW o \in CheckoutOrders, NEW e \in CheckoutEvents
  PROVE  Order!Apply(o, e) =
           IF e.type = "CREATED" THEN [o EXCEPT !.status = "DRAFT", !.items = 0]
           ELSE IF e.type = "ITEM_ADDED" THEN [o EXCEPT !.items = @ + 1]
           ELSE IF e.type = "CONFIRMED" THEN [o EXCEPT !.status = "AWAITING_INVENTORY"]
           ELSE [o EXCEPT !.status = "CANCELLED"]
<1>1. e.type \in {"CREATED", "ITEM_ADDED", "CONFIRMED", "CANCELLED"}
  BY DEF CheckoutEvents
<1>2. CASE e.type = "CREATED"
  BY <1>2 DEF Order!Apply
<1>3. CASE e.type = "ITEM_ADDED"
  BY <1>3 DEF Order!Apply
<1>4. CASE e.type = "CONFIRMED"
  BY <1>4 DEF Order!Apply
<1>5. CASE e.type = "CANCELLED"
  BY <1>5 DEF Order!Apply
<1> QED BY <1>1, <1>2, <1>3, <1>4, <1>5

LEMMA ApplyEffect ==
  ASSUME NEW o \in CheckoutOrders, NEW e \in CheckoutEvents,
         e.type = "ITEM_ADDED" => o.items < CheckoutItems
  PROVE  LET q == Order!Apply(o, e)
         IN /\ q \in CheckoutOrders
            /\ e.type = "CREATED" => q.items = 0 /\ q.status = "DRAFT"
            /\ e.type = "ITEM_ADDED" => q.items = o.items + 1 /\ q.status = o.status
            /\ e.type = "CONFIRMED" => q.items = o.items /\ q.status = "AWAITING_INVENTORY"
            /\ e.type = "CANCELLED" => q.items = o.items /\ q.status = "CANCELLED"
<1>1. CheckoutItems \in Nat /\ o.items \in 0 .. CheckoutItems
  BY CheckoutAssumption DEF CheckoutOrders
<1>2. e.type \in {"CREATED", "ITEM_ADDED", "CONFIRMED", "CANCELLED"}
  BY DEF CheckoutEvents
<1>3. CASE e.type = "CREATED"
  <2> DEFINE p == [o EXCEPT !.status = "DRAFT"]
  <2>1. Order!Apply(o, e) = [p EXCEPT !.items = 0]
    BY <1>3, ApplyFacts
  <2>2. p \in CheckoutOrders /\ p.status = "DRAFT" /\ 0 \in 0 .. CheckoutItems
    BY <1>1 DEF CheckoutOrders
  <2> HIDE DEF p
  <2>3. [p EXCEPT !.items = 0] \in CheckoutOrders /\ [p EXCEPT !.items = 0].items = 0
        /\ [p EXCEPT !.items = 0].status = "DRAFT"
    BY <2>2 DEF CheckoutOrders
  <2> QED BY <1>3, <2>1, <2>3
<1>4. CASE e.type = "ITEM_ADDED"
  <2>1. Order!Apply(o, e) = [o EXCEPT !.items = o.items + 1]
    BY <1>4, ApplyFacts
  <2>2. o.items + 1 \in 0 .. CheckoutItems
    BY <1>1, <1>4
  <2> QED BY <1>4, <2>1, <2>2 DEF CheckoutOrders
<1>5. CASE e.type = "CONFIRMED"
  BY <1>1, <1>5, ApplyFacts DEF CheckoutOrders
<1>6. CASE e.type = "CANCELLED"
  BY <1>1, <1>6, ApplyFacts DEF CheckoutOrders
<1> QED BY <1>2, <1>3, <1>4, <1>5, <1>6

(* What an event leaves of the rows and of what is known of the order.     *)
OrderStillCounts ==
  /\ orderLog' \in Seq(CheckoutEvents) /\ Len(orderLog') = Len(orderLog) + 1
  /\ \A p \in 1 .. Len(orderLog) : orderLog'[p] = orderLog[p]
  /\ ItemsAreCounted'
  /\ \A r \in CheckoutRows : RowIsOf(r) => RowIsOf(r)'

LEMMA OrderGrows ==
  ASSUME CheckoutInv, NEW e, OrderTakes(e)
  PROVE  OrderStillCounts /\ orderLog'[Len(orderLog) + 1] = e
<1> DEFINE n == Len(orderLog)
<1>1. /\ orderLog \in Seq(CheckoutEvents) /\ e \in CheckoutEvents /\ orderLog' = Append(orderLog, e)
      /\ TheOrder \in CheckoutOrders /\ TheOrder.items = ItemsIn(orderLog, n)
      /\ e.type = "ITEM_ADDED" => TheOrder.items < CheckoutItems
  BY DEF CheckoutInv, CheckoutTypes, ItemsAreCounted, OrderTakes, ItemsAt
<1>2. /\ n \in Nat /\ orderLog' \in Seq(CheckoutEvents) /\ Len(orderLog') = n + 1
      /\ orderLog'[n + 1] = e /\ \A p \in 1 .. n : orderLog'[p] = orderLog[p]
  BY <1>1
<1>3. TheOrder' = Order!Apply(TheOrder, e)
  BY <1>1, RehydrateAppend DEF TheOrder
<1>4. \A m \in 0 .. n : ItemsIn(orderLog', m) = ItemsIn(orderLog, m)
  BY <1>1, CountsAgree
<1>5. ItemsIn(orderLog', n + 1) = IF e.type = "ITEM_ADDED" THEN ItemsIn(orderLog, n) + 1
                                  ELSE ItemsIn(orderLog, n)
  <2>1. ItemsIn(orderLog', n + 1) = IF orderLog'[n + 1].type = "ITEM_ADDED"
                                    THEN ItemsIn(orderLog', n) + 1 ELSE ItemsIn(orderLog', n)
    BY <1>2, CountFacts, Zenon
  <2>2. ItemsIn(orderLog', n) = ItemsIn(orderLog, n)
    BY <1>2, <1>4
  <2> QED BY <1>2, <2>1, <2>2
<1>6. TheOrder' \in CheckoutOrders
  BY <1>1, <1>3, ApplyEffect
<1>7. e.type = "CREATED" => ItemsIn(orderLog, n) = 0 /\ n = 0
  <2> SUFFICES ASSUME e.type = "CREATED" PROVE ItemsIn(orderLog, n) = 0 /\ n = 0
    OBVIOUS
  <2>1. orderLog = <<>>
    BY DEF OrderTakes
  <2>2. n = 0
    BY <2>1
  <2>3. ItemsIn(orderLog, 0) = 0
    BY CountFacts, Zenon
  <2> QED BY <2>2, <2>3
<1>8. e.type \in {"CREATED", "ITEM_ADDED", "CONFIRMED", "CANCELLED"}
  BY <1>1 DEF CheckoutEvents
<1>9. /\ e.type = "CREATED" => TheOrder'.items = 0 /\ TheOrder'.status = "DRAFT"
      /\ e.type = "ITEM_ADDED" => TheOrder'.items = TheOrder.items + 1 /\ TheOrder'.status = TheOrder.status
      /\ e.type = "CONFIRMED" => TheOrder'.items = TheOrder.items /\ TheOrder'.status = "AWAITING_INVENTORY"
      /\ e.type = "CANCELLED" => TheOrder'.items = TheOrder.items /\ TheOrder'.status = "CANCELLED"
  BY <1>1, <1>3, ApplyEffect
<1>10. TheOrder'.items = ItemsIn(orderLog', n + 1)
  BY <1>1, <1>5, <1>7, <1>8, <1>9
<1>11. ASSUME NEW p \in 1 .. (n + 1), orderLog'[p].type = "CONFIRMED"
       PROVE  TheOrder'.status # "DRAFT" /\ orderLog'[p].n = TheOrder'.items
  <2>1. CASE p = n + 1
    <3>1. e.type = "CONFIRMED"
      BY <1>2, <1>11, <2>1
    <3>2. e.n = TheOrder.items
      BY <3>1 DEF OrderTakes
    <3> QED BY <1>2, <1>9, <2>1, <3>1, <3>2
  <2>2. CASE p # n + 1
    <3>1. p \in 1 .. n /\ orderLog'[p] = orderLog[p]
      BY <1>2, <2>2
    <3>2. TheOrder.status # "DRAFT" /\ orderLog[p].n = TheOrder.items
      BY <1>11, <3>1 DEF CheckoutInv, ItemsAreCounted
    <3>3. e.type \notin {"CREATED", "ITEM_ADDED"}
      BY <1>7, <3>1, <3>2 DEF OrderTakes
    <3> QED BY <1>8, <1>9, <3>1, <3>2, <3>3
  <2> QED BY <2>1, <2>2
<1>12. ItemsAreCounted'
  BY <1>2, <1>6, <1>10, <1>11 DEF ItemsAreCounted, ItemsAt
<1>13. ASSUME NEW r \in CheckoutRows, RowIsOf(r) PROVE RowIsOf(r)'
  <2>1. r.at \in 0 .. n /\ r.at <= n + 1 /\ r.total = ItemsIn(orderLog, r.at)
    BY <1>2, <1>13 DEF RowIsOf, CheckoutRows, ItemsAt
  <2>2. r.total = ItemsIn(orderLog', r.at)
    BY <1>4, <2>1
  <2> QED BY <1>2, <2>1, <2>2 DEF RowIsOf, ItemsAt
<1> QED BY <1>2, <1>12, <1>13 DEF OrderStillCounts

LEMMA RowsStillFollow ==
  ASSUME CheckoutInv, OrderStillCounts, orderRow' = orderRow,
         checkout' \in [Checkouts -> CheckoutCalls],
         \A c \in Checkouts : checkout'[c].seen = checkout[c].seen
  PROVE  RowsFollow' /\ (Confirmed => Confirmed')
<1>1. /\ orderRow \in CheckoutRows /\ \A c \in Checkouts : checkout[c].seen \in CheckoutRows
      /\ orderLog \in Seq(CheckoutEvents) /\ orderRow.at \in Nat
  <2>1. checkout \in [Checkouts -> CheckoutCalls] /\ orderRow \in CheckoutRows
        /\ orderLog \in Seq(CheckoutEvents)
    BY DEF CheckoutInv, CheckoutTypes
  <2> QED BY <2>1 DEF CheckoutCalls, CheckoutRows
<1>2. RowIsOf(orderRow) /\ \A c \in Checkouts : RowIsOf(checkout[c].seen)
  BY DEF CheckoutInv, RowsFollow
<1>3. RowIsOf(orderRow)' /\ \A c \in Checkouts : RowIsOf(checkout[c].seen)'
  <2>1. \A r \in CheckoutRows : RowIsOf(r) => RowIsOf(r)'
    BY DEF OrderStillCounts
  <2>2. \A r : RowIsOf(r)' <=> r.at <= Len(orderLog') /\ r.total = ItemsIn(orderLog', r.at)
    BY DEF RowIsOf, ItemsAt
  <2>3. \A c \in Checkouts : checkout'[c].seen.at <= Len(orderLog')
                             /\ checkout'[c].seen.total = ItemsIn(orderLog', checkout'[c].seen.at)
    BY <1>1, <1>2, <2>1, <2>2
  <2>4. orderRow'.at <= Len(orderLog') /\ orderRow'.total = ItemsIn(orderLog', orderRow'.at)
    BY <1>1, <1>2, <2>1, <2>2
  <2> QED BY <2>3, <2>4 DEF RowIsOf, ItemsAt
<1>4. \/ orderRow'.items = orderRow'.total
      \/ /\ orderRow'.items = orderRow'.total + 1 /\ orderRow'.at < Len(orderLog')
         /\ orderLog'[orderRow'.at + 1].type = "ITEM_ADDED"
  <2>1. CASE orderRow.items = orderRow.total
    BY <2>1
  <2>2. CASE /\ orderRow.items = orderRow.total + 1 /\ orderRow.at < Len(orderLog)
             /\ orderLog[orderRow.at + 1].type = "ITEM_ADDED"
    <3>1. orderRow.at + 1 \in 1 .. Len(orderLog) /\ Len(orderLog') = Len(orderLog) + 1
      BY <1>1, <2>2 DEF OrderStillCounts
    <3>2. orderLog'[orderRow.at + 1] = orderLog[orderRow.at + 1]
      BY <3>1 DEF OrderStillCounts
    <3> QED BY <1>1, <2>2, <3>1, <3>2
  <2> QED BY <2>1, <2>2 DEF CheckoutInv, RowsFollow
<1>5. Confirmed => Confirmed'
  <2>1. \A p \in 1 .. Len(orderLog) : p \in 1 .. Len(orderLog') /\ orderLog'[p] = orderLog[p]
    BY <1>1 DEF OrderStillCounts
  <2> QED BY <2>1 DEF Confirmed
<1> QED BY <1>3, <1>4, <1>5 DEF RowsFollow

(* Calls and payments other than those of c.                               *)
OthersStay(c) == \A d \in Checkouts \ {c} :
  checkout'[d] = checkout[d] /\ payLog'[d] = payLog[d] /\ amount'[d] = amount[d]

LEMMA CallsKeepUp ==
  ASSUME CheckoutInv, NEW c \in Checkouts, OthersStay(c), PaymentKeepsUp(c)'
  PROVE  \A d \in Checkouts : PaymentKeepsUp(d)'
<1> SUFFICES ASSUME NEW d \in Checkouts \ {c} PROVE PaymentKeepsUp(d)'
  OBVIOUS
<1>1. checkout'[d] = checkout[d] /\ payLog'[d] = payLog[d] /\ amount'[d] = amount[d]
  BY DEF OthersStay
<1>2. PaymentKeepsUp(d)
  BY DEF CheckoutInv
<1> QED BY <1>1, <1>2 DEF PaymentKeepsUp, Processed, Says

LEMMA OrderStays ==
  ASSUME CheckoutInv, orderLog' = orderLog
  PROVE  /\ ItemsAreCounted' /\ Confirmed' = Confirmed /\ TheOrder' = TheOrder
         /\ \A r : RowIsOf(r)' <=> RowIsOf(r)
BY DEF CheckoutInv, ItemsAreCounted, Confirmed, TheOrder, ItemsAt, RowIsOf

LEMMA ChangeOrderKeeps == ASSUME CheckoutInv, ChangeOrder PROVE CheckoutInv'
<1>1. PICK name \in OrderCommandNames : \E raised \in Order!OrderRaises(orderLog, [name |-> name]) :
         orderLog' = orderLog \o raised
  BY DEF ChangeOrder, OrderCommandNames
<1>2. PICK e : OrderTakes(e)
  BY <1>1, CommandTakes
<1>3. OrderStillCounts
  BY <1>2, OrderGrows
<1>4. UNCHANGED <<orderRow, payLog, amount, checkout>>
  BY DEF ChangeOrder
<1>5. CheckoutTypes'
  BY <1>3, <1>4 DEF CheckoutTypes, CheckoutInv, OrderStillCounts
<1>6. RowsFollow' /\ (Confirmed => Confirmed')
  BY <1>3, <1>4, RowsStillFollow DEF CheckoutInv, CheckoutTypes
<1>7. ItemsAreCounted'
  BY <1>3 DEF OrderStillCounts
<1>8. \A c \in Checkouts : /\ PaymentKeepsUp(c)' <=> PaymentKeepsUp(c)
                           /\ \A s : Says(c, s)' <=> Says(c, s)
  BY <1>4 DEF PaymentKeepsUp, Processed, Says
<1>9. /\ \A c \in Checkouts : PaymentKeepsUp(c)' /\ (Says(c, "success")' => Confirmed')
      /\ \A c, d \in Checkouts : Says(c, "success")' /\ Says(d, "success")' => c = d
  BY <1>6, <1>8 DEF CheckoutInv
<1> QED BY <1>5, <1>6, <1>7, <1>9 DEF CheckoutInv

LEMMA ProjectOrderKeeps == ASSUME CheckoutInv, ProjectOrder PROVE CheckoutInv'
<1> DEFINE at == orderRow.at
           n == Len(orderLog)
           status == CASE orderLog[at + 1].type = "CREATED" -> "DRAFT"
                       [] orderLog[at + 1].type = "CONFIRMED" -> "AWAITING_INVENTORY"
                       [] orderLog[at + 1].type = "CANCELLED" -> "CANCELLED"
                       [] OTHER -> orderRow.status
           next == [at |-> at + 1, items |-> orderRow.items, total |-> orderRow.items, status |-> status]
           more == [orderRow EXCEPT !.items = orderRow.items + 1]
<1>1. /\ orderLog \in Seq(CheckoutEvents) /\ orderRow \in CheckoutRows
      /\ at \in Nat /\ n \in Nat /\ at < n /\ at + 1 \in 1 .. n
      /\ UNCHANGED <<orderLog, payLog, amount, checkout>>
  <2>1. orderLog \in Seq(CheckoutEvents) /\ orderRow \in CheckoutRows
        /\ UNCHANGED <<orderLog, payLog, amount, checkout>> /\ at < n
    BY DEF CheckoutInv, CheckoutTypes, ProjectOrder
  <2>2. at \in Nat /\ n \in Nat
    BY <2>1 DEF CheckoutRows
  <2> QED BY <2>1, <2>2
<1>2. orderRow' = IF orderLog[at + 1].type = "ITEM_ADDED" /\ orderRow.items = orderRow.total
                  THEN more ELSE next
  BY DEF ProjectOrder
<1>3. /\ orderRow.items \in 0 .. CheckoutItems /\ orderRow.total \in 0 .. CheckoutItems
      /\ CheckoutItems \in Nat /\ orderRow.total = ItemsIn(orderLog, at)
      /\ orderRow.status \in {"none", "DRAFT", "AWAITING_INVENTORY", "CANCELLED"}
  BY <1>1, CheckoutAssumption DEF CheckoutRows, CheckoutInv, RowsFollow, RowIsOf, ItemsAt
<1>4. \/ orderRow.items = orderRow.total
      \/ orderRow.items = orderRow.total + 1 /\ orderLog[at + 1].type = "ITEM_ADDED"
  BY DEF CheckoutInv, RowsFollow
<1>5. ItemsIn(orderLog, at + 1) = IF orderLog[at + 1].type = "ITEM_ADDED"
                                  THEN orderRow.total + 1 ELSE orderRow.total
  BY <1>1, <1>3, CountFacts, Zenon
<1>6. ItemsIn(orderLog, at + 1) <= CheckoutItems
  <2>1. ItemsIn(orderLog, at + 1) <= ItemsIn(orderLog, n)
    BY <1>1, CountsGrow
  <2>2. ItemsIn(orderLog, n) = TheOrder.items /\ TheOrder \in CheckoutOrders
    BY DEF CheckoutInv, ItemsAreCounted, ItemsAt
  <2>3. ItemsIn(orderLog, at + 1) \in Nat
    BY <1>3, <1>5
  <2>4. TheOrder.items \in 0 .. CheckoutItems
    BY <2>2 DEF CheckoutOrders
  <2> QED BY <1>3, <2>1, <2>2, <2>3, <2>4
<1>7. status \in {"none", "DRAFT", "AWAITING_INVENTORY", "CANCELLED"}
  BY <1>3
<1> HIDE DEF status
<1>8. /\ orderRow' \in CheckoutRows /\ orderRow'.at <= n
      /\ orderRow'.total = ItemsIn(orderLog, orderRow'.at)
      /\ \/ orderRow'.items = orderRow'.total
         \/ /\ orderRow'.items = orderRow'.total + 1 /\ orderRow'.at < n
            /\ orderLog[orderRow'.at + 1].type = "ITEM_ADDED"
  <2>1. CASE orderLog[at + 1].type = "ITEM_ADDED" /\ orderRow.items = orderRow.total
    <3>1. orderRow.items + 1 \in 0 .. CheckoutItems
      BY <1>3, <1>5, <1>6, <2>1
    <3>2. orderRow' = more
      BY <1>2, <2>1
    <3>3. more \in CheckoutRows /\ more.at = at /\ more.total = orderRow.total
          /\ more.items = orderRow.total + 1
      BY <1>1, <2>1, <3>1 DEF CheckoutRows
    <3> HIDE DEF more
    <3> QED BY <1>1, <1>3, <2>1, <3>2, <3>3
  <2>2. CASE ~(orderLog[at + 1].type = "ITEM_ADDED" /\ orderRow.items = orderRow.total)
    <3>1. orderRow' = next
      BY <1>2, <2>2
    <3>2. next \in CheckoutRows /\ next.at = at + 1 /\ next.total = orderRow.items
          /\ next.items = orderRow.items
      BY <1>1, <1>3, <1>7 DEF CheckoutRows
    <3>3. orderRow.items = ItemsIn(orderLog, at + 1)
      BY <1>3, <1>4, <1>5, <2>2
    <3> HIDE DEF next
    <3> QED BY <1>1, <3>1, <3>2, <3>3
  <2> QED BY <2>1, <2>2
<1>9. CheckoutTypes'
  BY <1>1, <1>8 DEF CheckoutTypes, CheckoutInv
<1>10. /\ ItemsAreCounted' /\ Confirmed' = Confirmed
       /\ \A r : RowIsOf(r)' <=> RowIsOf(r)
  BY <1>1, OrderStays
<1>11. RowsFollow'
  <2>1. \A c \in Checkouts : RowIsOf(checkout[c].seen)'
    BY <1>1, <1>10 DEF CheckoutInv, RowsFollow, RowIsOf, ItemsAt
  <2> QED BY <1>1, <1>8, <2>1 DEF RowsFollow, RowIsOf, ItemsAt
<1>12. \A c \in Checkouts : /\ PaymentKeepsUp(c)' <=> PaymentKeepsUp(c)
                            /\ \A s : Says(c, s)' <=> Says(c, s)
  BY <1>1 DEF PaymentKeepsUp, Processed, Says
<1>13. /\ \A c \in Checkouts : PaymentKeepsUp(c)' /\ (Says(c, "success")' => Confirmed')
       /\ \A c, d \in Checkouts : Says(c, "success")' /\ Says(d, "success")' => c = d
  BY <1>10, <1>12 DEF CheckoutInv
<1> QED BY <1>9, <1>10, <1>11, <1>13 DEF CheckoutInv

(* The steps of one call or of its payment.                                *)
CallTypes ==
  /\ payLog \in [Checkouts -> Seq(PayEvents)] /\ amount \in [Checkouts -> 0 .. CheckoutItems]
  /\ checkout \in [Checkouts -> CheckoutCalls]

LEMMA CallStep ==
  ASSUME CheckoutInv, NEW c \in Checkouts, UNCHANGED <<orderLog, orderRow>>, OthersStay(c),
         CallTypes', RowIsOf(checkout'[c].seen), PaymentKeepsUp(c)',
         Says(c, "success")' => Says(c, "success")
  PROVE  CheckoutInv'
<1>1. CheckoutTypes'
  BY DEF CheckoutInv, CheckoutTypes, CallTypes
<1>2. ItemsAreCounted' /\ Confirmed' = Confirmed /\ \A r : RowIsOf(r)' <=> RowIsOf(r)
  BY OrderStays
<1>3. \A d \in Checkouts : PaymentKeepsUp(d)'
  BY CallsKeepUp
<1>4. \A d \in Checkouts : Says(d, "success")' => Says(d, "success")
  BY DEF Says, OthersStay
<1>5. RowsFollow'
  <2>1. \A d \in Checkouts : RowIsOf(checkout'[d].seen)
    BY DEF CheckoutInv, RowsFollow, OthersStay
  <2>2. \A d \in Checkouts : RowIsOf(checkout[d].seen)'
    BY <2>1 DEF RowIsOf, ItemsAt
  <2>3. RowIsOf(orderRow)'
    BY DEF CheckoutInv, RowsFollow, RowIsOf, ItemsAt
  <2> QED BY <2>2, <2>3 DEF CheckoutInv, RowsFollow
<1> QED BY <1>1, <1>2, <1>3, <1>4, <1>5 DEF CheckoutInv

LEMMA PaymentGrows ==
  ASSUME CheckoutInv, NEW c \in Checkouts, NEW e \in PayEvents,
         payLog' = [payLog EXCEPT ![c] = payLog[c] \o <<e>>]
  PROVE  /\ payLog' \in [Checkouts -> Seq(PayEvents)]
         /\ \A d \in Checkouts \ {c} : payLog'[d] = payLog[d]
         /\ payLog'[c] # <<>>
         /\ Processed(c)' <=> Processed(c) \/ e.type = "PROCESSING"
<1>1. payLog \in [Checkouts -> Seq(PayEvents)]
  BY DEF CheckoutInv, CheckoutTypes
<1> DEFINE b == payLog[c]
           q == payLog[c] \o <<e>>
           n == Len(b)
<1>2. b \in Seq(PayEvents)
  BY <1>1
<1>3. /\ q \in Seq(PayEvents) /\ Len(q) = n + 1 /\ n \in Nat
      /\ q[n + 1] = e /\ \A k \in 1 .. n : q[k] = b[k]
  BY <1>2
<1>4. payLog'[c] = q /\ \A d \in Checkouts \ {c} : payLog'[d] = payLog[d]
  BY <1>1
<1>5. payLog' \in [Checkouts -> Seq(PayEvents)]
  BY <1>1, <1>3
<1>6. q # <<>>
  BY <1>3
<1> HIDE DEF q
<1>7. (\E k \in 1 .. Len(q) : q[k].type = "PROCESSING") <=>
         (\E k \in 1 .. n : b[k].type = "PROCESSING") \/ e.type = "PROCESSING"
  <2>1. n + 1 \in 1 .. Len(q) /\ \A k \in 1 .. n : k \in 1 .. Len(q)
    BY <1>3
  <2>2. \A k \in 1 .. Len(q) : k \in 1 .. n \/ k = n + 1
    BY <1>3
  <2> HIDE DEF n, b
  <2> QED BY <1>3, <2>1, <2>2
<1> QED BY <1>4, <1>5, <1>6, <1>7 DEF Processed

LEMMA ChangePaymentKeeps == ASSUME CheckoutInv, NEW c \in Checkouts, ChangePayment(c) PROVE CheckoutInv'
<1> DEFINE failed == Payment!PaymentEvent("FAILED", 0)
           completed == Payment!PaymentEvent("COMPLETED", 0)
<1>1. PICK raised \in Payment!FailPayment(Payment!PaymentFrom(payLog[c]))
                      \union Payment!CompletePayment(Payment!PaymentFrom(payLog[c])) :
         payLog' = [payLog EXCEPT ![c] = payLog[c] \o raised]
  BY DEF ChangePayment
<1>2. raised \in {<<failed>>, <<completed>>}
  BY DEF Payment!FailPayment, Payment!CompletePayment, Payment!PaymentRaises
<1>3. /\ failed \in PayEvents /\ completed \in PayEvents
      /\ failed.type # "PROCESSING" /\ completed.type # "PROCESSING"
  BY DEF Payment!PaymentEvent, PayEvents
<1>4. PICK e \in PayEvents : raised = <<e>> /\ e.type # "PROCESSING"
  BY <1>2, <1>3
<1>5. /\ payLog' \in [Checkouts -> Seq(PayEvents)]
      /\ \A d \in Checkouts \ {c} : payLog'[d] = payLog[d]
      /\ Processed(c)' <=> Processed(c)
  BY <1>1, <1>4, PaymentGrows
<1>6. UNCHANGED <<orderLog, orderRow, amount, checkout>> /\ payLog[c] # <<>>
  BY DEF ChangePayment
<1>7. OthersStay(c) /\ CallTypes' /\ RowIsOf(checkout'[c].seen)
  BY <1>5, <1>6 DEF OthersStay, CallTypes, CheckoutInv, CheckoutTypes, RowsFollow
<1>8. PaymentKeepsUp(c)' /\ (Says(c, "success")' => Says(c, "success"))
  BY <1>5, <1>6 DEF PaymentKeepsUp, CheckoutInv, Says
<1> QED BY <1>6, <1>7, <1>8, CallStep

(* What becomes of a call: how far it is, the row it has seen, its answer. *)
Becomes(c, doing, seen, said) ==
  /\ checkout' \in [Checkouts -> CheckoutCalls]
  /\ checkout'[c].doing = doing /\ checkout'[c].seen = seen /\ checkout'[c].said = said
  /\ \A d \in Checkouts \ {c} : checkout'[d] = checkout[d]

CheckoutDoings == {"idle", "read", "created", "processed", "answered", "lost"}
CheckoutAnswers == {"nothing", "success", "failure", "failure of payment"}

LEMMA GoesBecomes ==
  ASSUME CheckoutInv, NEW c \in Checkouts, NEW doing \in CheckoutDoings, Goes(c, doing)
  PROVE  Becomes(c, doing, checkout[c].seen, checkout[c].said)
<1>1. checkout \in [Checkouts -> CheckoutCalls] /\ checkout' = [checkout EXCEPT ![c].doing = doing]
  BY DEF CheckoutInv, CheckoutTypes, Goes
<1>2. [checkout[c] EXCEPT !.doing = doing] \in CheckoutCalls
  BY <1>1 DEF CheckoutCalls, CheckoutDoings
<1>3. checkout' \in [Checkouts -> CheckoutCalls]
  BY <1>1, <1>2
<1>4. checkout'[c] = [checkout[c] EXCEPT !.doing = doing]
  BY <1>1
<1>5. checkout'[c].doing = doing /\ checkout'[c].seen = checkout[c].seen /\ checkout'[c].said = checkout[c].said
  BY <1>1, <1>4 DEF CheckoutCalls
<1>6. \A d \in Checkouts \ {c} : checkout'[d] = checkout[d]
  BY <1>1
<1> QED BY <1>3, <1>5, <1>6 DEF Becomes

LEMMA AnswersBecomes ==
  ASSUME CheckoutInv, NEW c \in Checkouts, NEW said \in CheckoutAnswers, Answers(c, said)
  PROVE  Becomes(c, "answered", checkout[c].seen, said)
<1> DEFINE new == [checkout[c] EXCEPT !.doing = "answered", !.said = said]
<1>1. checkout \in [Checkouts -> CheckoutCalls] /\ checkout' = [checkout EXCEPT ![c] = new]
  BY DEF CheckoutInv, CheckoutTypes, Answers
<1>2. checkout[c] \in CheckoutCalls
  BY <1>1
<1>3. new \in CheckoutCalls /\ new.doing = "answered" /\ new.seen = checkout[c].seen /\ new.said = said
  <2> DEFINE p == [checkout[c] EXCEPT !.doing = "answered"]
  <2>1. p \in CheckoutCalls /\ p.doing = "answered" /\ p.seen = checkout[c].seen /\ new = [p EXCEPT !.said = said]
    BY <1>2 DEF CheckoutCalls
  <2> HIDE DEF p, new
  <2> QED BY <2>1 DEF CheckoutCalls, CheckoutAnswers
<1> HIDE DEF new
<1>4. checkout' \in [Checkouts -> CheckoutCalls] /\ checkout'[c] = new
      /\ \A d \in Checkouts \ {c} : checkout'[d] = checkout[d]
  BY <1>1, <1>3
<1> QED BY <1>3, <1>4 DEF Becomes

LEMMA StepFetchOrderKeeps ==
  ASSUME CheckoutInv, NEW c \in Checkouts, StepFetchOrder(c) PROVE CheckoutInv'
<1>1. /\ checkout[c].doing = "idle" /\ UNCHANGED <<orderLog, orderRow, payLog, amount>>
      /\ orderRow \in CheckoutRows /\ checkout \in [Checkouts -> CheckoutCalls]
      /\ payLog \in [Checkouts -> Seq(PayEvents)] /\ amount \in [Checkouts -> 0 .. CheckoutItems]
      /\ RowIsOf(orderRow) /\ RowIsOf(checkout[c].seen)
  BY DEF StepFetchOrder, CheckoutInv, CheckoutTypes, RowsFollow
<1>2. payLog[c] = <<>> /\ ~Processed(c)
  BY <1>1 DEF CheckoutInv, PaymentKeepsUp, Processed
<1>3. \E seen \in {orderRow, checkout[c].seen} :
        Becomes(c, "answered", seen, "failure") \/ Becomes(c, "read", seen, "nothing")
  <2>1. CASE Answers(c, "failure")
    <3>1. Becomes(c, "answered", checkout[c].seen, "failure")
      BY <2>1, AnswersBecomes DEF CheckoutAnswers
    <3> QED BY <3>1
  <2>2. CASE checkout' = [checkout EXCEPT ![c] =
               IF orderRow.status # "DRAFT" \/ orderRow.items = 0
               THEN [doing |-> "answered", seen |-> orderRow, said |-> "failure"]
               ELSE [doing |-> "read", seen |-> orderRow, said |-> "nothing"]]
    <3> DEFINE failed == [doing |-> "answered", seen |-> orderRow, said |-> "failure"]
               read == [doing |-> "read", seen |-> orderRow, said |-> "nothing"]
    <3>1. PICK new \in {failed, read} : checkout' = [checkout EXCEPT ![c] = new]
      BY <2>2
    <3>2. failed \in CheckoutCalls /\ read \in CheckoutCalls
      BY <1>1 DEF CheckoutCalls
    <3>3. /\ checkout' \in [Checkouts -> CheckoutCalls] /\ checkout'[c] = new
          /\ \A d \in Checkouts \ {c} : checkout'[d] = checkout[d]
      BY <1>1, <3>1, <3>2
    <3> QED BY <3>1, <3>3 DEF Becomes
  <2> QED BY <2>1, <2>2 DEF StepFetchOrder
<1>4. PICK seen \in {orderRow, checkout[c].seen} :
        Becomes(c, "answered", seen, "failure") \/ Becomes(c, "read", seen, "nothing")
  BY <1>3
<1>5. OthersStay(c) /\ CallTypes' /\ RowIsOf(checkout'[c].seen)
  BY <1>1, <1>4 DEF OthersStay, CallTypes, Becomes
<1>6. PaymentKeepsUp(c)' /\ ~Says(c, "success")'
  BY <1>1, <1>2, <1>4 DEF PaymentKeepsUp, Processed, Says, Becomes
<1> QED BY <1>1, <1>5, <1>6, CallStep

LEMMA StepCreatePaymentKeeps ==
  ASSUME CheckoutInv, NEW c \in Checkouts, StepCreatePayment(c) PROVE CheckoutInv'
<1> DEFINE e == Payment!PaymentEvent("CREATED", 0)
           created == [payLog EXCEPT ![c] = <<e>>]
           seen == checkout[c].seen
<1>1. /\ checkout[c].doing = "read" /\ UNCHANGED <<orderLog, orderRow>>
      /\ checkout \in [Checkouts -> CheckoutCalls]
      /\ payLog \in [Checkouts -> Seq(PayEvents)] /\ amount \in [Checkouts -> 0 .. CheckoutItems]
      /\ RowIsOf(seen) /\ amount' = [amount EXCEPT ![c] = seen.total]
  BY DEF StepCreatePayment, CheckoutInv, CheckoutTypes, RowsFollow
<1>2. payLog[c] = <<>> /\ Says(c, "nothing")
  BY <1>1 DEF CheckoutInv, PaymentKeepsUp
<1>3. e \in PayEvents /\ e.type = "CREATED"
  BY DEF Payment!PaymentEvent, PayEvents
<1>4. /\ Becomes(c, "created", seen, "nothing") \/ Becomes(c, "answered", seen, "failure")
      /\ payLog' \in {payLog, created}
  <2>1. CASE Goes(c, "created") /\ payLog' = created
    BY <1>2, <2>1, GoesBecomes DEF CheckoutDoings, Says
  <2>2. CASE Answers(c, "failure") /\ payLog' \in {payLog, created}
    BY <2>2, AnswersBecomes DEF CheckoutAnswers
  <2> QED BY <2>1, <2>2 DEF StepCreatePayment
<1>5. <<e>> \in Seq(PayEvents) /\ \A k \in 1 .. Len(<<e>>) : <<e>>[k].type # "PROCESSING"
  BY <1>3
<1>6. created \in [Checkouts -> Seq(PayEvents)] /\ created[c] = <<e>>
      /\ \A d \in Checkouts \ {c} : created[d] = payLog[d]
  BY <1>1, <1>5
<1> HIDE DEF e, created
<1>7. /\ payLog' \in [Checkouts -> Seq(PayEvents)] /\ payLog'[c] \in {<<>>, <<e>>}
      /\ \A d \in Checkouts \ {c} : payLog'[d] = payLog[d]
  BY <1>1, <1>2, <1>4, <1>6
<1>8. ~Processed(c)'
  BY <1>5, <1>7 DEF Processed
<1>9. seen.total \in 0 .. CheckoutItems
  <2>1. seen \in CheckoutRows
    BY <1>1 DEF CheckoutCalls
  <2> QED BY <2>1 DEF CheckoutRows
<1>10. /\ amount' \in [Checkouts -> 0 .. CheckoutItems] /\ amount'[c] = seen.total
       /\ \A d \in Checkouts \ {c} : amount'[d] = amount[d]
  BY <1>1, <1>9
<1>11. OthersStay(c) /\ CallTypes' /\ RowIsOf(checkout'[c].seen)
  BY <1>1, <1>4, <1>7, <1>10 DEF OthersStay, CallTypes, Becomes
<1>12. PaymentKeepsUp(c)' /\ ~Says(c, "success")'
  BY <1>4, <1>8, <1>10 DEF PaymentKeepsUp, Says, Becomes
<1> QED BY <1>1, <1>11, <1>12, CallStep

LEMMA StepProcessPaymentKeeps ==
  ASSUME CheckoutInv, NEW c \in Checkouts, StepProcessPayment(c) PROVE CheckoutInv'
<1> DEFINE e == Payment!PaymentEvent("PROCESSING", 0)
           batches == Payment!ProcessPayment(Payment!PaymentFrom(payLog[c]))
           processed == {[payLog EXCEPT ![c] = payLog[c] \o b] : b \in batches}
           seen == checkout[c].seen
<1>1. /\ checkout[c].doing = "created" /\ UNCHANGED <<orderLog, orderRow, amount>>
      /\ payLog \in [Checkouts -> Seq(PayEvents)] /\ amount \in [Checkouts -> 0 .. CheckoutItems]
      /\ RowIsOf(seen)
  BY DEF StepProcessPayment, CheckoutInv, CheckoutTypes, RowsFollow
<1>2. amount[c] = seen.total /\ Says(c, "nothing")
  BY <1>1 DEF CheckoutInv, PaymentKeepsUp
<1>3. e \in PayEvents /\ e.type = "PROCESSING"
  BY DEF Payment!PaymentEvent, PayEvents
<1>4. \A b \in batches : b = <<e>>
  BY DEF Payment!ProcessPayment, Payment!PaymentRaises
<1>5. \/ payLog' \in processed /\ Becomes(c, "processed", seen, "nothing")
      \/ payLog' \in processed \union {payLog} /\ Becomes(c, "answered", seen, "failure of payment")
  <2>1. CASE Goes(c, "processed") /\ payLog' \in processed
    BY <1>2, <2>1, GoesBecomes DEF CheckoutDoings, Says
  <2>2. CASE Answers(c, "failure of payment") /\ payLog' \in processed \union {payLog}
    BY <2>2, AnswersBecomes DEF CheckoutAnswers
  <2> QED BY <2>1, <2>2 DEF StepProcessPayment
<1>6. payLog' \in processed => /\ payLog' \in [Checkouts -> Seq(PayEvents)] /\ Processed(c)'
                               /\ \A d \in Checkouts \ {c} : payLog'[d] = payLog[d]
  <2>1. payLog' \in processed => payLog' = [payLog EXCEPT ![c] = payLog[c] \o <<e>>]
    BY <1>4
  <2> HIDE DEF processed, e
  <2> QED BY <1>3, <2>1, PaymentGrows
<1> HIDE DEF processed
<1>7. /\ payLog' \in [Checkouts -> Seq(PayEvents)] /\ \A d \in Checkouts \ {c} : payLog'[d] = payLog[d]
      /\ \/ Processed(c)' /\ Becomes(c, "processed", seen, "nothing")
         \/ Becomes(c, "answered", seen, "failure of payment")
  BY <1>1, <1>5, <1>6
<1>8. OthersStay(c) /\ CallTypes' /\ RowIsOf(checkout'[c].seen)
  BY <1>1, <1>7 DEF OthersStay, CallTypes, Becomes
<1>9. PaymentKeepsUp(c)' /\ ~Says(c, "success")'
  BY <1>1, <1>2, <1>7 DEF PaymentKeepsUp, Says, Becomes
<1> QED BY <1>1, <1>8, <1>9, CallStep

LEMMA StepConfirmOrderKeeps ==
  ASSUME CheckoutInv, NEW c \in Checkouts, StepConfirmOrder(c) PROVE CheckoutInv'
<1> DEFINE batches == Order!OrderRaises(orderLog, [name |-> "Confirm"])
           confirmed == {orderLog \o b : b \in batches}
           seen == checkout[c].seen
<1>1. /\ checkout[c].doing = "processed" /\ UNCHANGED <<orderRow, payLog, amount>>
      /\ RowIsOf(seen) /\ PaymentKeepsUp(c) /\ CallTypes
  BY DEF StepConfirmOrder, CheckoutInv, CheckoutTypes, RowsFollow, CallTypes
<1>2. \/ orderLog' \in confirmed /\ Becomes(c, "answered", seen, "success")
      \/ orderLog' \in confirmed \union {orderLog} /\ Becomes(c, "answered", seen, "failure of payment")
  <2>1. CASE Answers(c, "success") /\ orderLog' \in confirmed
    BY <2>1, AnswersBecomes DEF CheckoutAnswers
  <2>2. CASE Answers(c, "failure of payment") /\ orderLog' \in confirmed \union {orderLog}
    BY <2>2, AnswersBecomes DEF CheckoutAnswers
  <2> QED BY <2>1, <2>2 DEF StepConfirmOrder
<1>3. OthersStay(c) /\ CallTypes' /\ checkout'[c].seen = seen
  BY <1>1, <1>2 DEF OthersStay, CallTypes, Becomes
<1>4. PaymentKeepsUp(c)'
  BY <1>1, <1>2 DEF PaymentKeepsUp, Says, Becomes, Processed
<1>5. CASE orderLog' = orderLog /\ ~Says(c, "success")'
  BY <1>1, <1>3, <1>4, <1>5, CallStep
<1>6. CASE orderLog' \in confirmed
  <2>1. PICK e : OrderTakes(e) /\ e.type = "CONFIRMED" /\ TheOrder.status = "DRAFT"
    <3>1. PICK b \in batches : orderLog' = orderLog \o b
      BY <1>6
    <3>2. "Confirm" \in OrderCommandNames
      BY DEF OrderCommandNames
    <3> QED BY <3>1, <3>2, CommandTakes
  <2>2. OrderStillCounts /\ orderLog'[Len(orderLog) + 1] = e
    BY <2>1, OrderGrows
  <2>3. CheckoutTypes'
    BY <1>1, <1>3, <2>2 DEF CheckoutInv, CheckoutTypes, CallTypes, OrderStillCounts
  <2>4. \A d \in Checkouts : checkout'[d].seen = checkout[d].seen
    BY <1>3 DEF OthersStay
  <2>5. RowsFollow'
    BY <1>1, <1>3, <2>2, <2>4, RowsStillFollow DEF CallTypes
  <2>6. Confirmed'
    <3>1. Len(orderLog) + 1 \in 1 .. Len(orderLog')
      BY <2>2 DEF OrderStillCounts, CheckoutInv, CheckoutTypes
    <3> QED BY <2>1, <2>2, <3>1 DEF Confirmed
  <2>7. ~Confirmed
    BY <2>1 DEF Confirmed, CheckoutInv, ItemsAreCounted
  <2>8. \A d \in Checkouts \ {c} : ~Says(d, "success")'
    BY <2>7, <1>3 DEF CheckoutInv, Says, OthersStay
  <2>9. \A d \in Checkouts : PaymentKeepsUp(d)'
    BY <1>3, <1>4, CallsKeepUp
  <2> QED BY <2>2, <2>3, <2>5, <2>6, <2>8, <2>9 DEF CheckoutInv, OrderStillCounts
<1>7. Becomes(c, "answered", seen, "failure of payment") => ~Says(c, "success")'
  BY DEF Becomes, Says
<1> QED BY <1>2, <1>5, <1>6, <1>7

LEMMA CrashCheckoutsKeeps == ASSUME CheckoutInv, CrashCheckouts PROVE CheckoutInv'
<1>1. /\ UNCHANGED <<orderLog, orderRow, payLog, amount>>
      /\ checkout \in [Checkouts -> CheckoutCalls]
      /\ checkout' = [c \in Checkouts |->
                        IF checkout[c].doing \in {"idle", "answered"} THEN checkout[c]
                        ELSE [checkout[c] EXCEPT !.doing = "lost"]]
  BY DEF CrashCheckouts, CheckoutInv, CheckoutTypes
<1>2. ASSUME NEW c \in Checkouts
      PROVE  /\ checkout'[c] \in CheckoutCalls /\ checkout'[c].seen = checkout[c].seen
             /\ checkout'[c].said = checkout[c].said
             /\ \/ checkout'[c].doing = checkout[c].doing
                \/ checkout'[c].doing = "lost" /\ checkout[c].doing # "answered"
  <2>1. checkout[c] \in CheckoutCalls
    BY <1>1
  <2> DEFINE p == checkout[c]
  <2>2. checkout'[c] = IF p.doing \in {"idle", "answered"} THEN p ELSE [p EXCEPT !.doing = "lost"]
    BY <1>1
  <2> HIDE DEF p
  <2>3. p \in CheckoutCalls
    BY <2>1 DEF p
  <2>4. /\ checkout'[c] \in CheckoutCalls /\ checkout'[c].seen = p.seen
        /\ checkout'[c].said = p.said
        /\ \/ checkout'[c].doing = p.doing
           \/ checkout'[c].doing = "lost" /\ p.doing # "answered"
    BY <2>2, <2>3 DEF CheckoutCalls
  <2> QED BY <2>4 DEF p
<1>3. CheckoutTypes'
  BY <1>1, <1>2 DEF CheckoutInv, CheckoutTypes
<1>4. /\ ItemsAreCounted' /\ Confirmed' = Confirmed /\ \A r : RowIsOf(r)' <=> RowIsOf(r)
  BY <1>1, OrderStays
<1>5. RowsFollow'
  BY <1>1, <1>2 DEF CheckoutInv, RowsFollow, RowIsOf, ItemsAt
<1>6. ASSUME NEW c \in Checkouts PROVE PaymentKeepsUp(c)'
  <2>1. PaymentKeepsUp(c)
    BY DEF CheckoutInv
  <2> QED BY <1>1, <1>2, <2>1 DEF PaymentKeepsUp, Processed, Says
<1>7. \A c \in Checkouts : \A s : Says(c, s)' <=> Says(c, s)
  BY <1>2 DEF Says
<1> QED BY <1>3, <1>4, <1>5, <1>6, <1>7 DEF CheckoutInv

LEMMA InitCheckout == CheckoutInit => CheckoutInv
<1> SUFFICES ASSUME CheckoutInit PROVE CheckoutInv
  OBVIOUS
<1> DEFINE idle == [doing |-> "idle", seen |-> NoOrderRow, said |-> "nothing"]
<1>1. /\ orderLog = <<>> /\ orderRow = NoOrderRow
      /\ payLog = [c \in Checkouts |-> <<>>] /\ amount = [c \in Checkouts |-> 0]
      /\ checkout = [c \in Checkouts |-> idle]
      /\ CheckoutItems \in Nat
  BY CheckoutAssumption DEF CheckoutInit
<1>2. NoOrderRow \in CheckoutRows /\ NoOrderRow.at = 0 /\ NoOrderRow.total = 0 /\ NoOrderRow.items = 0
  BY <1>1 DEF NoOrderRow, CheckoutRows
<1>3. idle \in CheckoutCalls
  BY <1>2 DEF CheckoutCalls
<1>4. orderLog \in Seq(CheckoutEvents) /\ Len(orderLog) = 0
  BY <1>1
<1>5. CheckoutTypes
  BY <1>1, <1>2, <1>3, <1>4 DEF CheckoutTypes
<1>6. ItemsIn(orderLog, 0) = 0
  BY CountFacts, Zenon
<1>7. ItemsAreCounted
  <2>1. TheOrder = Order!NewOrder
    BY <1>1, RehydrateEmpty DEF TheOrder
  <2>2. TheOrder \in CheckoutOrders /\ TheOrder.items = 0
    BY <1>1, <2>1 DEF CheckoutOrders, Order!NewOrder
  <2> QED BY <1>4, <1>6, <2>2 DEF ItemsAreCounted, ItemsAt
<1>8. RowIsOf(NoOrderRow)
  BY <1>2, <1>4, <1>6 DEF RowIsOf, ItemsAt
<1>9. RowsFollow
  BY <1>1, <1>2, <1>8 DEF RowsFollow
<1>10. \A c \in Checkouts : PaymentKeepsUp(c) /\ ~Says(c, "success")
  <2>1. Len(<<>>) = 0
    OBVIOUS
  <2> QED BY <1>1, <2>1 DEF PaymentKeepsUp, Processed, Says
<1> QED BY <1>5, <1>7, <1>9, <1>10 DEF CheckoutInv

LEMMA CheckoutKeeps == CheckoutInv /\ [CheckoutNext]_checkoutVars => CheckoutInv'
<1> SUFFICES ASSUME CheckoutInv, [CheckoutNext]_checkoutVars PROVE CheckoutInv'
  OBVIOUS
<1>1. CASE UNCHANGED checkoutVars
  <2>1. UNCHANGED <<orderLog, orderRow, payLog, amount, checkout>>
    BY <1>1 DEF checkoutVars
  <2>2. CheckoutTypes' /\ ItemsAreCounted' /\ RowsFollow' /\ Confirmed' = Confirmed
    BY <2>1, OrderStays DEF CheckoutInv, CheckoutTypes, RowsFollow, RowIsOf, ItemsAt
  <2>3. \A c \in Checkouts : PaymentKeepsUp(c)' /\ \A s : Says(c, s)' <=> Says(c, s)
    BY <2>1 DEF CheckoutInv, PaymentKeepsUp, Processed, Says
  <2> QED BY <2>2, <2>3 DEF CheckoutInv
<1>2. CASE ChangeOrder
  BY <1>2, ChangeOrderKeeps
<1>3. CASE ProjectOrder
  BY <1>3, ProjectOrderKeeps
<1>4. CASE CrashCheckouts
  BY <1>4, CrashCheckoutsKeeps
<1>5. ASSUME NEW c \in Checkouts,
             \/ ChangePayment(c) \/ StepFetchOrder(c) \/ StepCreatePayment(c)
             \/ StepProcessPayment(c) \/ StepConfirmOrder(c)
      PROVE  CheckoutInv'
  BY <1>5, ChangePaymentKeeps, StepFetchOrderKeeps, StepCreatePaymentKeeps,
     StepProcessPaymentKeeps, StepConfirmOrderKeeps
<1> QED BY <1>1, <1>2, <1>3, <1>4, <1>5 DEF CheckoutNext

LEMMA CheckoutPartStep == [ServicesNext]_servicesVars => [CheckoutNext]_checkoutVars
BY DEF ServicesNext, servicesVars, ordersVars

(* Any number of checkouts of an order that clients change, cancel and     *)
(* confirm meanwhile, whatever faults and crashes there are: one succeeds  *)
(* at the most, with its payment in process, of the amount confirmed if it *)
(* had seen every item; a plain failure has asked nobody for money.        *)
THEOREM CheckoutsArePaidFor == ServicesSpec => []CheckoutIsPaidFor
<1>1. ServicesInit => CheckoutInv
  BY InitCheckout DEF ServicesInit
<1>2. CheckoutInv => CheckoutIsPaidFor
  <2> SUFFICES ASSUME CheckoutInv PROVE CheckoutIsPaidFor
    OBVIOUS
  <2> DEFINE processed(c) == \E e \in ToSet(payLog[c]) : e.type = "PROCESSING"
             added(from) == {v \in from .. Len(orderLog) : orderLog[v].type = "ITEM_ADDED"}
  <2>1. orderLog \in Seq(CheckoutEvents) /\ \A c \in Checkouts : payLog[c] \in Seq(PayEvents)
    BY DEF CheckoutInv, CheckoutTypes
  <2>2. \A c \in Checkouts : processed(c) <=> Processed(c)
    <3>1. ASSUME NEW c \in Checkouts PROVE processed(c) <=> Processed(c)
      <4>1. DOMAIN payLog[c] = 1 .. Len(payLog[c])
        BY <2>1
      <4>2. ToSet(payLog[c]) = {payLog[c][k] : k \in 1 .. Len(payLog[c])}
        BY <4>1 DEF ToSet
      <4> QED BY <4>2 DEF Processed
    <3> QED BY <3>1
  <2>3. ASSUME NEW c \in Checkouts, checkout[c].said = "success"
        PROVE  \E e \in ToSet(orderLog) :
                 /\ e.type = "CONFIRMED" /\ processed(c)
                 /\ added(checkout[c].seen.at + 1) = {} => amount[c] = e.n
    <3> DEFINE at == checkout[c].seen.at
               n == Len(orderLog)
    <3>1. PICK p \in 1 .. n : orderLog[p].type = "CONFIRMED"
      BY <2>3 DEF CheckoutInv, Confirmed, Says
    <3>2. orderLog[p] \in ToSet(orderLog)
      <4>1. p \in DOMAIN orderLog
        BY <2>1
      <4> QED BY <4>1 DEF ToSet
    <3>3. processed(c) /\ amount[c] = checkout[c].seen.total
      BY <2>2, <2>3 DEF CheckoutInv, PaymentKeepsUp, Says
    <3>4. checkout[c].seen \in CheckoutRows /\ n \in Nat /\ at \in Nat
      <4>1. checkout[c] \in CheckoutCalls /\ n \in Nat
        BY <2>1 DEF CheckoutInv, CheckoutTypes
      <4>2. checkout[c].seen \in CheckoutRows
        BY <4>1 DEF CheckoutCalls
      <4> QED BY <4>1, <4>2 DEF CheckoutRows
    <3>5. at \in 0 .. n /\ checkout[c].seen.total = ItemsIn(orderLog, at)
      <4>1. RowIsOf(checkout[c].seen)
        BY DEF CheckoutInv, RowsFollow
      <4>2. at <= n /\ checkout[c].seen.total = ItemsIn(orderLog, at)
        BY <4>1 DEF RowIsOf, ItemsAt
      <4> QED BY <3>4, <4>2
    <3>6. orderLog[p].n = ItemsIn(orderLog, n)
      BY <3>1 DEF CheckoutInv, ItemsAreCounted, ItemsAt
    <3>7. ASSUME added(at + 1) = {} PROVE ItemsIn(orderLog, at) = ItemsIn(orderLog, n)
      <4>1. \A v \in 1 .. n : v \in 1 .. at \/ v \in at + 1 .. n
        BY <3>5
      <4>2. \A v \in 1 .. at : v \in 1 .. n
        BY <3>5
      <4>3. \A v \in at + 1 .. n : orderLog[v].type # "ITEM_ADDED"
        BY <3>7
      <4> HIDE DEF at, n
      <4>4. AdditionsIn(orderLog, at) = AdditionsIn(orderLog, n)
        BY <4>1, <4>2, <4>3 DEF AdditionsIn
      <4> QED BY <4>4 DEF ItemsIn
    <3> HIDE DEF processed, added, at, n
    <3>8. added(at + 1) = {} => amount[c] = orderLog[p].n
      BY <3>3, <3>5, <3>6, <3>7
    <3> QED BY <3>1, <3>2, <3>3, <3>8 DEF at
  <2>4. \A c, d \in Checkouts : checkout[c].said = "success" /\ checkout[d].said = "success" => c = d
    BY DEF CheckoutInv, Says
  <2>5. \A c \in Checkouts : checkout[c].said = "failure" => ~processed(c)
    BY <2>2 DEF CheckoutInv, PaymentKeepsUp, Says
  <2> QED BY <2>3, <2>4, <2>5, Zenon DEF CheckoutIsPaidFor
<1>3. CheckoutInv /\ [ServicesNext]_servicesVars => CheckoutInv'
  BY CheckoutKeeps, CheckoutPartStep
<1> QED BY <1>1, <1>2, <1>3, PTL DEF ServicesSpec

-----------------------------------------------------------------------------
(* The stock of the admin panel.  First: what the history of an inventory, *)
(* its stock and what has come in become with one more event.              *)
KeptBy(i, b, f, n) ==
  f = [k \in 0 .. n |-> IF k = 0 THEN <<>> ELSE Keeping(i, f[k - 1], b[k])]

LEMMA KeptByExists == ASSUME NEW i, NEW b, NEW n \in Nat PROVE \E f : KeptBy(i, b, f, n)
<1> DEFINE T == {k \in Nat : \E f : KeptBy(i, b, f, k)}
<1>1. 0 \in T
  <2> DEFINE f == [k \in 0 .. 0 |-> <<>>]
  <2>1. KeptBy(i, b, f, 0)
    BY DEF KeptBy
  <2> QED BY <2>1
<1>2. ASSUME NEW k \in Nat, k \in T PROVE k + 1 \in T
  <2>1. PICK f : KeptBy(i, b, f, k)
    BY <1>2
  <2> DEFINE g == [m \in 0 .. (k + 1) |-> IF m = k + 1 THEN Keeping(i, f[k], b[k + 1]) ELSE f[m]]
  <2>2. ASSUME NEW m \in 0 .. (k + 1)
        PROVE  g[m] = IF m = 0 THEN <<>> ELSE Keeping(i, g[m - 1], b[m])
    <3>1. CASE m = k + 1
      <4>1. m - 1 = k /\ k \in 0 .. (k + 1) /\ k # k + 1 /\ m # 0
        BY <3>1
      <4>2. g[k] = f[k]
        BY <4>1
      <4> QED BY <3>1, <4>1, <4>2
    <3>2. CASE m # k + 1
      <4>1. m \in 0 .. k /\ (m # 0 => m - 1 \in 0 .. k /\ m - 1 \in 0 .. (k + 1) /\ m - 1 # k + 1)
        BY <3>2
      <4>2. f[m] = IF m = 0 THEN <<>> ELSE Keeping(i, f[m - 1], b[m])
        BY <2>1, <4>1 DEF KeptBy
      <4>3. g[m] = f[m] /\ (m # 0 => g[m - 1] = f[m - 1])
        BY <3>2, <4>1
      <4> QED BY <4>2, <4>3
    <3> QED BY <3>1, <3>2
  <2>3. KeptBy(i, b, g, k + 1)
    BY <2>2 DEF KeptBy
  <2> QED BY <2>3
<1> HIDE DEF T
<1>3. \A k \in Nat : k \in T
  BY <1>1, <1>2, OrderFacts!NatSetInduction
<1> QED BY <1>3 DEF T

LEMMA KeptByAt ==
  ASSUME NEW i, NEW b, NEW f, NEW n \in Nat, KeptBy(i, b, f, n)
  PROVE  f[0] = <<>> /\ \A k \in 1 .. n : f[k] = Keeping(i, f[k - 1], b[k])
<1>1. 0 \in 0 .. n /\ \A k \in 1 .. n : k \in 0 .. n /\ k # 0
  OBVIOUS
<1> QED BY <1>1 DEF KeptBy

LEMMA HistoryIsKept ==
  ASSUME NEW i, NEW S, NEW b \in Seq(S)
  PROVE  \E f : KeptBy(i, b, f, Len(b)) /\ History(i, b) = f[Len(b)]
<1> DEFINE f == CHOOSE f : KeptBy(i, b, f, Len(b))
<1>1. KeptBy(i, b, f, Len(b))
  BY KeptByExists
<1>2. History(i, b) = f[Len(b)]
  BY DEF History, KeptBy
<1> QED BY <1>1, <1>2

Shifted(b, c, d, m) == \A k \in 1 .. m : b[d + k] = c[k]

(* f and g go through b and c, where b is c from position d on and f has   *)
(* kept nothing till there.                                                *)
Alike(i, b, c, f, g, d, m, n) ==
  /\ m \in Nat /\ n \in Nat /\ d \in Nat /\ m <= n
  /\ KeptBy(i, b, f, d + m) /\ KeptBy(i, c, g, n)
  /\ f[d] = <<>> /\ Shifted(b, c, d, m)

LEMMA KeptBySame ==
  ASSUME NEW i, NEW b, NEW c, NEW f, NEW g, NEW d, NEW m, NEW n, Alike(i, b, c, f, g, d, m, n)
  PROVE  f[d + m] = g[m]
<1>a. /\ m \in Nat /\ n \in Nat /\ d \in Nat /\ m <= n
      /\ KeptBy(i, b, f, d + m) /\ KeptBy(i, c, g, n)
      /\ f[d] = <<>> /\ Shifted(b, c, d, m)
  BY DEF Alike
<1> DEFINE T == {k \in Nat : k <= m => f[d + k] = g[k]}
<1>1. 0 \in T
  <2>1. d + 0 = d /\ g[0] = <<>>
    BY <1>a, KeptByAt
  <2> QED BY <1>a, <2>1
<1>2. ASSUME NEW k \in Nat, k \in T PROVE k + 1 \in T
  <2> SUFFICES ASSUME k + 1 <= m PROVE f[d + (k + 1)] = g[k + 1]
    OBVIOUS
  <2>1. /\ d + (k + 1) \in 1 .. (d + m) /\ (d + (k + 1)) - 1 = d + k
        /\ k + 1 \in 1 .. n /\ (k + 1) - 1 = k /\ k + 1 \in 1 .. m /\ d + m \in Nat
    BY <1>a
  <2>2. f[d + (k + 1)] = Keeping(i, f[d + k], b[d + (k + 1)])
    <3>1. \A j \in 1 .. (d + m) : f[j] = Keeping(i, f[j - 1], b[j])
      BY <1>a, <2>1, KeptByAt
    <3> QED BY ONLY <2>1, <3>1, SMTT(20)
  <2>3. g[k + 1] = Keeping(i, g[k], c[k + 1])
    <3>1. \A j \in 1 .. n : g[j] = Keeping(i, g[j - 1], c[j])
      BY <1>a, KeptByAt
    <3> QED BY <2>1, <3>1
  <2>4. f[d + k] = g[k] /\ b[d + (k + 1)] = c[k + 1]
    BY <1>a, <1>2, <2>1 DEF Shifted
  <2> QED BY <2>2, <2>3, <2>4
<1> HIDE DEF T
<1>3. \A k \in Nat : k \in T => k + 1 \in T
  BY ONLY <1>2
<1>4. \A k \in Nat : k \in T
  BY ONLY <1>1, <1>3, OrderFacts!NatSetInduction
<1>5. m \in T
  BY <1>a, <1>4
<1> QED BY <1>a, <1>5 DEF T

LEMMA HistoryEmpty == ASSUME NEW i PROVE History(i, <<>>) = <<>>
<1> DEFINE b == <<>>
<1>1. b \in Seq({}) /\ Len(b) = 0
  OBVIOUS
<1> HIDE DEF b
<1>2. PICK f : KeptBy(i, b, f, Len(b)) /\ History(i, b) = f[Len(b)]
  BY <1>1, HistoryIsKept
<1>3. History(i, b) = <<>>
  BY <1>1, <1>2, KeptByAt
<1> QED BY <1>3 DEF b

LEMMA HistoryAppend ==
  ASSUME NEW i, NEW S, NEW b \in Seq(S), NEW e \in S
  PROVE  History(i, Append(b, e)) = Keeping(i, History(i, b), e)
<1> DEFINE n == Len(b)
           c == Append(b, e)
           m == Len(c)
<1>1. /\ c \in Seq(S) /\ m \in Nat /\ n \in Nat /\ m = n + 1 /\ n <= m /\ m \in 1 .. m /\ m - 1 = n
      /\ c[m] = e /\ 0 \in Nat /\ 0 + n = n
      /\ \A k \in 1 .. n : b[0 + k] = c[k]
  OBVIOUS
<1>2. PICK f : KeptBy(i, b, f, n) /\ History(i, b) = f[n]
  BY HistoryIsKept
<1>3. PICK g : KeptBy(i, c, g, m) /\ History(i, c) = g[m]
  BY <1>1, HistoryIsKept
<1> HIDE DEF n, c, m
<1>4. f[n] = g[n]
  <2>1. PICK d \in Nat : d = 0
    OBVIOUS
  <2>2. d + n = n
    BY <1>1, <2>1
  <2>6. Shifted(b, c, d, n)
    BY <1>1, <2>1 DEF Shifted
  <2>3. f[d] = <<>> /\ KeptBy(i, b, f, d + n)
    BY <1>1, <1>2, <2>1, <2>2, KeptByAt
  <2>4. n \in Nat /\ m \in Nat /\ d \in Nat /\ KeptBy(i, c, g, m) /\ n <= m
    BY <1>1, <1>3
  <2>7. Alike(i, b, c, f, g, d, n, m)
    BY <2>3, <2>4, <2>6 DEF Alike
  <2>5. f[d + n] = g[n]
    BY ONLY <2>7, KeptBySame
  <2> QED BY <2>2, <2>5
<1>5. g[m] = Keeping(i, g[m - 1], c[m])
  BY <1>1, <1>3, KeptByAt
<1> QED BY <1>1, <1>2, <1>3, <1>4, <1>5 DEF c

(* Without events of an inventory its history is empty; leaving out a part *)
(* before its first event leaves it as it is.                              *)
IsRest(i, S, b, d, c) ==
  /\ b \in Seq(S) /\ c \in Seq(S) /\ d \in 0 .. Len(b) /\ \A p \in 1 .. d : b[p].inv # i
  /\ Len(c) = Len(b) - d /\ \A k \in 1 .. Len(c) : b[d + k] = c[k]

LEMMA HistorySkips ==
  ASSUME NEW i, NEW S, NEW b, NEW d, NEW c, IsRest(i, S, b, d, c)
  PROVE  History(i, c) = History(i, b)
<1> DEFINE n == Len(b)
           m == Len(c)
<1>0. /\ b \in Seq(S) /\ c \in Seq(S) /\ d \in 0 .. Len(b) /\ \A p \in 1 .. d : b[p].inv # i
      /\ Len(c) = Len(b) - d /\ \A k \in 1 .. Len(c) : b[d + k] = c[k]
  BY DEF IsRest
<1>1. n \in Nat /\ m \in Nat /\ d \in Nat /\ d + m = n /\ d <= n /\ m <= m
  BY <1>0
<1>2. PICK f : KeptBy(i, b, f, n) /\ History(i, b) = f[n]
  BY <1>0, HistoryIsKept
<1>3. PICK g : KeptBy(i, c, g, m) /\ History(i, c) = g[m]
  BY <1>0, HistoryIsKept
<1>a. Shifted(b, c, d, m)
  BY <1>0 DEF Shifted
<1> HIDE DEF n, m
<1>4. f[d] = <<>>
  <2> DEFINE T == {k \in Nat : k <= d => f[k] = <<>>}
  <2>1. 0 \in T
    BY <1>1, <1>2, KeptByAt
  <2>2. ASSUME NEW k \in Nat, k \in T PROVE k + 1 \in T
    <3> SUFFICES ASSUME k + 1 <= d PROVE f[k + 1] = <<>>
      OBVIOUS
    <3>1. k + 1 \in 1 .. n /\ (k + 1) - 1 = k /\ k + 1 \in 1 .. d
      BY <1>1
    <3>2. f[k + 1] = Keeping(i, f[k], b[k + 1])
      <4>1. \A j \in 1 .. n : f[j] = Keeping(i, f[j - 1], b[j])
        BY ONLY <1>1, <1>2, KeptByAt
      <4> QED BY ONLY <3>1, <4>1
    <3>3. f[k] = <<>> /\ b[k + 1].inv # i
      BY <1>0, <1>1, <2>2, <3>1
    <3> QED BY <3>2, <3>3 DEF Keeping
  <2> HIDE DEF T
  <2>3. \A k \in Nat : k \in T => k + 1 \in T
    BY ONLY <2>2
  <2>4. \A k \in Nat : k \in T
    BY ONLY <2>1, <2>3, OrderFacts!NatSetInduction
  <2>5. d \in T
    BY <1>1, <2>4
  <2> QED BY <1>1, <2>5 DEF T
<1>5. f[d + m] = g[m]
  <2>1. KeptBy(i, b, f, d + m)
    BY <1>1, <1>2
  <2>2. Alike(i, b, c, f, g, d, m, m)
    BY <1>a, <1>1, <1>3, <1>4, <2>1 DEF Alike
  <2> QED BY <2>2, KeptBySame
<1> QED BY <1>1, <1>2, <1>3, <1>5

-----------------------------------------------------------------------------
(* The folds of the services: each goes through events by a step of its    *)
(* own.  f[1 .. k] is x after the first k events of b.                     *)
FoldStep(what, x, e) ==
  CASE what = "stock"   -> StockApply(x, e)
    [] what = "coming"  -> Coming(x, e)
    [] what = "order"   -> Apply(x, e)
    [] what = "payment" -> PaymentApply(x, e)
    [] what = "product" -> ProductApply(x, e)

Folding(what, x, b, f, n) ==
  f = [s \in SUBSET (1 .. n) |-> IF s = {} THEN x ELSE FoldStep(what, f[s \ {Max(s)}], b[Max(s)])]

UpTo(n) == 1 .. n
PartsOf(n) == SUBSET (1 .. n)

LEMMA UpToFacts ==
  /\ UpTo(0) = {}
  /\ \A n \in Nat \ {0} : UpTo(n) # {} /\ Max(UpTo(n)) = n /\ UpTo(n) \ {n} = UpTo(n - 1)
  /\ \A m, n \in Nat : m <= n => UpTo(m) \in PartsOf(n)
BY OrderFacts!UpToFacts DEF UpTo, PartsOf, Max, OrderFacts!UpTo, OrderFacts!PartsOf, OrderFacts!Max

LEMMA MaxInterval ==
  ASSUME NEW n \in Nat, NEW s \in SUBSET (1 .. (n + 1)), n + 1 \in s
  PROVE  Max(s) = n + 1
BY OrderFacts!MaxInterval DEF Max, OrderFacts!Max

LEMMA FoldingExists ==
  ASSUME NEW what, NEW x, NEW b, NEW n \in Nat
  PROVE  \E f : Folding(what, x, b, f, n)
<1> DEFINE T == {k \in Nat : \E f : Folding(what, x, b, f, k)}
<1>1. 0 \in T
  <2> DEFINE f == [s \in SUBSET (1 .. 0) |-> x]
  <2>1. \A s \in SUBSET (1 .. 0) : s = {}
    OBVIOUS
  <2>2. f = [s \in SUBSET (1 .. 0) |->
               IF s = {} THEN x ELSE FoldStep(what, f[s \ {Max(s)}], b[Max(s)])]
    BY <2>1, Zenon
  <2> QED BY <2>2 DEF Folding
<1>2. ASSUME NEW k \in Nat, k \in T PROVE k + 1 \in T
  <2>1. PICK f : Folding(what, x, b, f, k)
    BY <1>2
  <2> DEFINE g == [s \in SUBSET (1 .. (k + 1)) |->
                     IF k + 1 \in s THEN FoldStep(what, f[s \ {k + 1}], b[k + 1]) ELSE f[s]]
  <2>2. ASSUME NEW s \in SUBSET (1 .. (k + 1))
        PROVE  g[s] = IF s = {} THEN x ELSE FoldStep(what, g[s \ {Max(s)}], b[Max(s)])
    <3>1. CASE k + 1 \in s
      <4>1. Max(s) = k + 1
        BY <3>1, MaxInterval
      <4>2. g[s \ {k + 1}] = f[s \ {k + 1}]
        OBVIOUS
      <4> QED BY <3>1, <4>1, <4>2
    <3>2. CASE k + 1 \notin s
      <4>1. s \in SUBSET (1 .. k)
        BY <3>2
      <4>2. f[s] = IF s = {} THEN x ELSE FoldStep(what, f[s \ {Max(s)}], b[Max(s)])
        BY <2>1, <4>1 DEF Folding
      <4>3. g[s] = f[s] /\ g[s \ {Max(s)}] = f[s \ {Max(s)}]
        BY <3>2
      <4> QED BY <4>2, <4>3
    <3> QED BY <3>1, <3>2
  <2>3. Folding(what, x, b, g, k + 1)
    BY <2>2 DEF Folding
  <2> QED BY <2>3
<1> HIDE DEF T
<1>3. \A k \in Nat : k \in T
  BY <1>1, <1>2, OrderFacts!NatSetInduction
<1> QED BY <1>3 DEF T

LEMMA FoldingAtZero ==
  ASSUME NEW what, NEW x, NEW b, NEW f, NEW n \in Nat, Folding(what, x, b, f, n)
  PROVE  f[UpTo(0)] = x
<1>1. UpTo(0) \in PartsOf(n) /\ UpTo(0) = {}
  BY UpToFacts
<1> QED BY <1>1 DEF Folding, PartsOf

LEMMA FoldingAt ==
  ASSUME NEW what, NEW x, NEW b, NEW f, NEW n \in Nat, Folding(what, x, b, f, n), NEW k \in 1 .. n
  PROVE  f[UpTo(k)] = FoldStep(what, f[UpTo(k - 1)], b[k])
<1>1. UpTo(k) \in PartsOf(n) /\ UpTo(k) # {} /\ Max(UpTo(k)) = k
      /\ UpTo(k) \ {k} = UpTo(k - 1)
  BY UpToFacts
<1>2. \A s \in PartsOf(n) : s # {} => f[s] = FoldStep(what, f[s \ {Max(s)}], b[Max(s)])
  BY DEF Folding, PartsOf
<1> QED BY <1>1, <1>2

(* f and g go through b and c, which begin alike.                          *)
BeginAlike(what, x, b, c, f, g, m, n) ==
  /\ m \in Nat /\ n \in Nat /\ m <= n
  /\ Folding(what, x, b, f, m) /\ Folding(what, x, c, g, n)
  /\ \A k \in 1 .. m : b[k] = c[k]

LEMMA FoldingUnique ==
  ASSUME NEW what, NEW x, NEW b, NEW c, NEW f, NEW g, NEW m, NEW n,
         BeginAlike(what, x, b, c, f, g, m, n)
  PROVE  f[UpTo(m)] = g[UpTo(m)]
<1>a. /\ m \in Nat /\ n \in Nat /\ m <= n
      /\ Folding(what, x, b, f, m) /\ Folding(what, x, c, g, n)
      /\ \A k \in 1 .. m : b[k] = c[k]
  BY DEF BeginAlike
<1> DEFINE T == {k \in Nat : k <= m => f[UpTo(k)] = g[UpTo(k)]}
<1>1. 0 \in T
  BY <1>a, FoldingAtZero
<1>2. ASSUME NEW k \in Nat, k \in T PROVE k + 1 \in T
  <2> SUFFICES ASSUME k + 1 <= m PROVE f[UpTo(k + 1)] = g[UpTo(k + 1)]
    OBVIOUS
  <2>0. k + 1 \in 1 .. m /\ k + 1 \in 1 .. n /\ (k + 1) - 1 = k
    BY <1>a
  <2>1. f[UpTo(k + 1)] = FoldStep(what, f[UpTo(k)], b[k + 1])
    BY <1>a, <2>0, FoldingAt
  <2>2. g[UpTo(k + 1)] = FoldStep(what, g[UpTo(k)], c[k + 1])
    BY <1>a, <2>0, FoldingAt
  <2>3. f[UpTo(k)] = g[UpTo(k)] /\ b[k + 1] = c[k + 1]
    BY <1>2, <1>a, <2>0
  <2> QED BY <2>1, <2>2, <2>3
<1> HIDE DEF T
<1>3. \A k \in Nat : k \in T => k + 1 \in T
  BY ONLY <1>2
<1>4. \A k \in Nat : k \in T
  BY ONLY <1>1, <1>3, OrderFacts!NatSetInduction
<1>5. m \in T
  BY <1>a, <1>4
<1> QED BY <1>a, <1>5 DEF T

(* r is what the fold makes of b.                                          *)
FoldsTo(what, x, b, r) == \E f : Folding(what, x, b, f, Len(b)) /\ r = f[UpTo(Len(b))]

LEMMA FoldsToStep ==
  ASSUME NEW what, NEW x, NEW S, NEW b \in Seq(S), NEW e \in S, NEW r, NEW q,
         FoldsTo(what, x, b, r), FoldsTo(what, x, Append(b, e), q)
  PROVE  q = FoldStep(what, r, e)
<1> DEFINE n == Len(b)
           c == Append(b, e)
           m == Len(c)
<1>1. /\ c \in Seq(S) /\ m \in Nat /\ n \in Nat /\ m - 1 = n /\ n <= m /\ m \in 1 .. m
      /\ c[m] = e /\ \A k \in 1 .. n : b[k] = c[k]
  OBVIOUS
<1>2. PICK f : Folding(what, x, b, f, n) /\ r = f[UpTo(n)]
  BY DEF FoldsTo
<1>3. PICK g : Folding(what, x, c, g, m) /\ q = g[UpTo(m)]
  BY DEF FoldsTo
<1> HIDE DEF n, c, m
<1>4. BeginAlike(what, x, b, c, f, g, n, m)
  BY <1>1, <1>2, <1>3 DEF BeginAlike
<1>5. f[UpTo(n)] = g[UpTo(n)]
  BY <1>4, FoldingUnique
<1>6. g[UpTo(m)] = FoldStep(what, g[UpTo(m - 1)], c[m])
  BY <1>1, <1>3, FoldingAt
<1> QED BY <1>1, <1>2, <1>3, <1>5, <1>6 DEF c

LEMMA FoldsToStart ==
  ASSUME NEW what, NEW x, NEW r, FoldsTo(what, x, <<>>, r) PROVE r = x
<1>1. Len(<<>>) = 0
  OBVIOUS
<1>2. PICK f : Folding(what, x, <<>>, f, 0) /\ r = f[UpTo(0)]
  BY <1>1 DEF FoldsTo
<1> QED BY <1>2, FoldingAtZero

(* The five folds.                                                         *)
LEMMA StockFolds ==
  ASSUME NEW S, NEW b \in Seq(S) PROVE FoldsTo("stock", NewInventory, b, StockFrom(b))
<1> DEFINE n == Len(b)
           Is(f) == f = [s \in SUBSET (1 .. n) |->
                           IF s = {} THEN NewInventory ELSE StockApply(f[s \ {Max(s)}], b[Max(s)])]
<1>a. \A y, e : FoldStep("stock", y, e) = StockApply(y, e)
  BY DEF FoldStep
<1>1. \A f : Is(f) <=> Folding("stock", NewInventory, b, f, n)
  BY <1>a DEF Folding
<1>2. \E f : Is(f)
  <2> HIDE DEF Is
  <2>1. n \in Nat
    OBVIOUS
  <2>2. PICK f : Folding("stock", NewInventory, b, f, n)
    BY <2>1, FoldingExists
  <2> QED BY <1>1, <2>2
<1>3. DOMAIN b = 1 .. n
  OBVIOUS
<1>4. StockFrom(b) = (CHOOSE f : Is(f))[UpTo(n)]
  BY <1>3 DEF StockFrom, FoldLeft, MapThenFoldSet, UpTo
<1> HIDE DEF Is
<1> QED BY <1>1, <1>2, <1>4 DEF FoldsTo

LEMMA ComingFolds ==
  ASSUME NEW S, NEW b \in Seq(S) PROVE FoldsTo("coming", 0, b, FoldLeft(Coming, 0, b))
<1> DEFINE n == Len(b)
           Is(f) == f = [s \in SUBSET (1 .. n) |->
                           IF s = {} THEN 0 ELSE Coming(f[s \ {Max(s)}], b[Max(s)])]
<1>a. \A y, e : FoldStep("coming", y, e) = Coming(y, e)
  BY DEF FoldStep
<1>1. \A f : Is(f) <=> Folding("coming", 0, b, f, n)
  BY <1>a DEF Folding
<1>2. \E f : Is(f)
  <2> HIDE DEF Is
  <2>1. n \in Nat
    OBVIOUS
  <2>2. PICK f : Folding("coming", 0, b, f, n)
    BY <2>1, FoldingExists
  <2> QED BY <1>1, <2>2
<1>3. DOMAIN b = 1 .. n
  OBVIOUS
<1>4. FoldLeft(Coming, 0, b) = (CHOOSE f : Is(f))[UpTo(n)]
  BY <1>3 DEF FoldLeft, MapThenFoldSet, UpTo
<1> HIDE DEF Is
<1> QED BY <1>1, <1>2, <1>4 DEF FoldsTo
-----------------------------------------------------------------------------
(* Sums of the quantities of reservations: f[s] is the sum over s.         *)
SumOver(r, s) == MapThenSumSet(LAMBDA o : r[o].quantity, s)

Chosen(s) == CHOOSE o \in s : TRUE

Sums(r, f, D) ==
  f = [s \in D |-> IF s = {} THEN 0 ELSE r[Chosen(s)].quantity + f[s \ {Chosen(s)}]]

Counted(r, s) == \A o \in s : r[o].quantity \in Nat

UpToSize(S, n) == {s \in SUBSET S : Cardinality(s) <= n}

LEMMA SmallerSets ==
  ASSUME NEW S, IsFiniteSet(S)
  PROVE  \A s \in SUBSET S : /\ IsFiniteSet(s) /\ Cardinality(s) \in Nat
                             /\ Cardinality(s) <= Cardinality(S)
                             /\ (Cardinality(s) = 0 <=> s = {})
                             /\ \A x \in s : Cardinality(s \ {x}) = Cardinality(s) - 1
<1> SUFFICES ASSUME NEW s \in SUBSET S
             PROVE  /\ IsFiniteSet(s) /\ Cardinality(s) \in Nat
                    /\ Cardinality(s) <= Cardinality(S)
                    /\ (Cardinality(s) = 0 <=> s = {})
                    /\ \A x \in s : Cardinality(s \ {x}) = Cardinality(s) - 1
  OBVIOUS
<1>1. IsFiniteSet(s) /\ Cardinality(s) <= Cardinality(S)
  BY FS_Subset
<1>2. Cardinality(s) \in Nat /\ (Cardinality(s) = 0 <=> s = {})
  BY <1>1, FS_CardinalityType, FS_EmptySet
<1>3. \A x \in s : Cardinality(s \ {x}) = Cardinality(s) - 1
  BY <1>1, FS_RemoveElement
<1> QED BY <1>1, <1>2, <1>3

LEMMA SumsExist == ASSUME NEW r, NEW S, IsFiniteSet(S) PROVE \E f : Sums(r, f, SUBSET S)
<1> DEFINE T == {n \in Nat : \E f : Sums(r, f, UpToSize(S, n))}
<1>1. 0 \in T
  <2> DEFINE f == [s \in UpToSize(S, 0) |-> 0]
  <2>1. \A s \in UpToSize(S, 0) : s = {}
    BY SmallerSets DEF UpToSize
  <2>2. f = [s \in UpToSize(S, 0) |->
               IF s = {} THEN 0 ELSE r[Chosen(s)].quantity + f[s \ {Chosen(s)}]]
    BY <2>1, Zenon
  <2> QED BY <2>2 DEF Sums
<1>2. ASSUME NEW n \in Nat, n \in T PROVE n + 1 \in T
  <2>1. PICK f : Sums(r, f, UpToSize(S, n))
    BY <1>2
  <2> DEFINE g == [s \in UpToSize(S, n + 1) |->
                     IF s = {} THEN 0
                     ELSE r[Chosen(s)].quantity + f[s \ {Chosen(s)}]]
  <2>2. ASSUME NEW s \in UpToSize(S, n + 1)
        PROVE  g[s] = IF s = {} THEN 0 ELSE r[Chosen(s)].quantity + g[s \ {Chosen(s)}]
    <3> SUFFICES ASSUME s # {} PROVE g[s \ {Chosen(s)}] = f[s \ {Chosen(s)}]
      OBVIOUS
    <3> DEFINE d == s \ {Chosen(s)}
    <3>1. Chosen(s) \in s /\ s \in SUBSET S /\ Cardinality(s) <= n + 1
      BY DEF Chosen, UpToSize
    <3>2. d \in SUBSET S /\ Cardinality(d) = Cardinality(s) - 1 /\ Cardinality(s) \in Nat
      BY <3>1, SmallerSets
    <3>3. Cardinality(d) <= n /\ Cardinality(d) <= n + 1
      BY <3>1, <3>2
    <3>4. d \in UpToSize(S, n) /\ d \in UpToSize(S, n + 1)
      BY <3>2, <3>3 DEF UpToSize
    <3> HIDE DEF d
    <3>5. f[d] = IF d = {} THEN 0 ELSE r[Chosen(d)].quantity + f[d \ {Chosen(d)}]
      BY <2>1, <3>4 DEF Sums
    <3>6. g[d] = IF d = {} THEN 0 ELSE r[Chosen(d)].quantity + f[d \ {Chosen(d)}]
      BY <3>4
    <3>7. g[d] = f[d]
      BY <3>5, <3>6
    <3> QED BY <3>7 DEF d
  <2>3. Sums(r, g, UpToSize(S, n + 1))
    BY <2>2 DEF Sums
  <2> QED BY <2>3
<1> HIDE DEF T
<1>3. \A n \in Nat : n \in T => n + 1 \in T
  BY ONLY <1>2
<1>4. \A n \in Nat : n \in T
  BY ONLY <1>1, <1>3, OrderFacts!NatSetInduction
<1>5. Cardinality(S) \in Nat /\ UpToSize(S, Cardinality(S)) = SUBSET S
  BY SmallerSets DEF UpToSize
<1> QED BY <1>4, <1>5 DEF T

(* The order in which the orders are chosen does not matter.               *)
SumsAnyhow(r, f, s) == f[s] \in Nat /\ \A x \in s : f[s] = r[x].quantity + f[s \ {x}]

LEMMA SumsInAnyOrder ==
  ASSUME NEW r, NEW S, IsFiniteSet(S), NEW f, Sums(r, f, SUBSET S), Counted(r, S)
  PROVE  f[{}] = 0 /\ \A s \in SUBSET S : SumsAnyhow(r, f, s)
<1>a. \A s \in SUBSET S : f[s] = IF s = {} THEN 0 ELSE r[Chosen(s)].quantity + f[s \ {Chosen(s)}]
  BY DEF Sums
<1>b. f[{}] = 0
  BY <1>a
<1> DEFINE T == {n \in Nat : \A s \in UpToSize(S, n) : SumsAnyhow(r, f, s)}
<1>1. 0 \in T
  <2>1. \A s \in UpToSize(S, 0) : s = {}
    BY SmallerSets DEF UpToSize
  <2> QED BY <1>b, <2>1 DEF SumsAnyhow
<1>2. ASSUME NEW n \in Nat, n \in T PROVE n + 1 \in T
  <2> SUFFICES ASSUME NEW s \in UpToSize(S, n + 1) PROVE SumsAnyhow(r, f, s)
    OBVIOUS
  <2> DEFINE c == Chosen(s)
  <2>0. \A d \in UpToSize(S, n) : SumsAnyhow(r, f, d)
    BY <1>2
  <2>1. s \in SUBSET S /\ Cardinality(s) <= n + 1
    BY DEF UpToSize
  <2>2. ASSUME s = {} PROVE SumsAnyhow(r, f, s)
    BY <1>b, <2>2 DEF SumsAnyhow
  <2>3. ASSUME s # {} PROVE SumsAnyhow(r, f, s)
    <3>1. c \in s /\ f[s] = r[c].quantity + f[s \ {c}]
      BY <1>a, <2>1, <2>3 DEF Chosen
    <3> HIDE DEF c
    <3>2. ASSUME NEW x \in s
          PROVE  /\ SumsAnyhow(r, f, s \ {x}) /\ r[x].quantity \in Nat
                 /\ \A y \in s : SumsAnyhow(r, f, (s \ {x}) \ {y})
      <4>1. /\ s \ {x} \in SUBSET S /\ Cardinality(s \ {x}) <= n
            /\ Cardinality(s \ {x}) \in Nat
        BY <2>1, SmallerSets
      <4>2. ASSUME NEW y \in s PROVE (s \ {x}) \ {y} \in UpToSize(S, n)
        <5>1. IsFiniteSet(s \ {x}) /\ (s \ {x}) \ {y} \in SUBSET (s \ {x})
          BY <4>1, SmallerSets
        <5>2. /\ Cardinality((s \ {x}) \ {y}) <= Cardinality(s \ {x})
              /\ Cardinality((s \ {x}) \ {y}) \in Nat
          BY <5>1, SmallerSets
        <5>3. Cardinality((s \ {x}) \ {y}) <= n
          BY <4>1, <5>2
        <5> QED BY <4>1, <5>3 DEF UpToSize
      <4>3. s \ {x} \in UpToSize(S, n)
        BY <4>1 DEF UpToSize
      <4>4. r[x].quantity \in Nat
        BY <2>1 DEF Counted
      <4> QED BY <2>0, <4>2, <4>3, <4>4
    <3>3. f[s] \in Nat
      BY <3>1, <3>2 DEF SumsAnyhow
    <3>4. ASSUME NEW x \in s PROVE f[s] = r[x].quantity + f[s \ {x}]
      <4>1. CASE x = c
        BY <3>1, <4>1
      <4>2. CASE x # c
        <5> DEFINE d == (s \ {c}) \ {x}
        <5>1. x \in s \ {c} /\ c \in s \ {x} /\ (s \ {x}) \ {c} = d
          BY <3>1, <4>2
        <5>2. f[s \ {c}] = r[x].quantity + f[d] /\ f[d] \in Nat
          BY <3>1, <3>2, <5>1 DEF SumsAnyhow
        <5>3. f[s \ {x}] = r[c].quantity + f[d]
          <6>1. SumsAnyhow(r, f, s \ {x})
            BY <3>2
          <6>2. f[s \ {x}] = r[c].quantity + f[(s \ {x}) \ {c}]
            BY <5>1, <6>1 DEF SumsAnyhow
          <6> QED BY <5>1, <6>2
        <5>4. r[x].quantity \in Nat /\ r[c].quantity \in Nat
          BY <3>1, <3>2
        <5> HIDE DEF d
        <5> QED BY <3>1, <5>2, <5>3, <5>4
      <4> QED BY <4>1, <4>2
    <3> QED BY <3>3, <3>4 DEF SumsAnyhow
  <2> QED BY <2>2, <2>3
<1> HIDE DEF T
<1>3. \A n \in Nat : n \in T => n + 1 \in T
  BY ONLY <1>2
<1>4. \A n \in Nat : n \in T
  BY ONLY <1>1, <1>3, OrderFacts!NatSetInduction
<1>5. Cardinality(S) \in Nat /\ UpToSize(S, Cardinality(S)) = SUBSET S
  BY SmallerSets DEF UpToSize
<1>6. \A s \in UpToSize(S, Cardinality(S)) : SumsAnyhow(r, f, s)
  BY <1>4, <1>5 DEF T
<1> QED BY <1>b, <1>5, <1>6

(* Two sums over the same orders, of reservations that agree there.        *)
AgreeOn(r, p, s) == \A o \in s : r[o].quantity = p[o].quantity

LEMMA SumsUnique ==
  ASSUME NEW S, IsFiniteSet(S), NEW r, NEW p, AgreeOn(r, p, S), Counted(r, S),
         NEW V, S \subseteq V, NEW f, NEW g, Sums(r, f, SUBSET S), Sums(p, g, SUBSET V)
  PROVE  f[S] = g[S]
<1>a. \A s \in SUBSET S : f[s] = IF s = {} THEN 0 ELSE r[Chosen(s)].quantity + f[s \ {Chosen(s)}]
  BY DEF Sums
<1>b. \A s \in SUBSET S : g[s] = IF s = {} THEN 0 ELSE p[Chosen(s)].quantity + g[s \ {Chosen(s)}]
  BY DEF Sums
<1> DEFINE T == {n \in Nat : \A s \in UpToSize(S, n) : f[s] = g[s]}
<1>1. 0 \in T
  <2>1. \A s \in UpToSize(S, 0) : s = {} /\ s \in SUBSET S
    BY SmallerSets DEF UpToSize
  <2> QED BY <1>a, <1>b, <2>1
<1>2. ASSUME NEW n \in Nat, n \in T PROVE n + 1 \in T
  <2> SUFFICES ASSUME NEW s \in UpToSize(S, n + 1) PROVE f[s] = g[s]
    OBVIOUS
  <2> DEFINE c == Chosen(s)
  <2>1. s \in SUBSET S /\ Cardinality(s) <= n + 1
    BY DEF UpToSize
  <2>2. CASE s = {}
    BY <1>a, <1>b, <2>1, <2>2
  <2>3. CASE s # {}
    <3>1. c \in s /\ f[s] = r[c].quantity + f[s \ {c}] /\ g[s] = p[c].quantity + g[s \ {c}]
      BY <1>a, <1>b, <2>1, <2>3 DEF Chosen
    <3> HIDE DEF c
    <3>2. /\ s \ {c} \in SUBSET S /\ Cardinality(s \ {c}) <= n
      BY <2>1, <3>1, SmallerSets
    <3>3. s \ {c} \in UpToSize(S, n)
      BY <3>2 DEF UpToSize
    <3>4. f[s \ {c}] = g[s \ {c}]
      BY <1>2, <3>3
    <3>5. r[c].quantity = p[c].quantity
      BY <2>1, <3>1 DEF AgreeOn
    <3> QED BY <3>1, <3>4, <3>5
  <2> QED BY <2>2, <2>3
<1> HIDE DEF T
<1>3. \A n \in Nat : n \in T => n + 1 \in T
  BY ONLY <1>2
<1>4. \A n \in Nat : n \in T
  BY ONLY <1>1, <1>3, OrderFacts!NatSetInduction
<1>5. Cardinality(S) \in Nat /\ S \in UpToSize(S, Cardinality(S))
  BY SmallerSets DEF UpToSize
<1> QED BY <1>4, <1>5 DEF T

LEMMA SumOverIs ==
  ASSUME NEW r, NEW S, IsFiniteSet(S)
  PROVE  \E f : Sums(r, f, SUBSET S) /\ SumOver(r, S) = f[S]
<1> DEFINE Is(f) == f = [s \in SUBSET S |->
                           IF s = {} THEN 0 ELSE r[Chosen(s)].quantity + f[s \ {Chosen(s)}]]
<1>1. \A f : Is(f) <=> Sums(r, f, SUBSET S)
  BY DEF Sums
<1>2. \E f : Is(f)
  <2> HIDE DEF Is
  <2> QED BY <1>1, SumsExist
<1>3. SumOver(r, S) = (CHOOSE f : Is(f))[S]
  BY DEF SumOver, MapThenSumSet, MapThenFoldSet, Chosen
<1> HIDE DEF Is
<1> QED BY <1>1, <1>2, <1>3

LEMMA SumOfNone == ASSUME NEW r PROVE SumOver(r, {}) = 0
<1>1. IsFiniteSet({})
  BY FS_EmptySet
<1>2. PICK f : Sums(r, f, SUBSET {}) /\ SumOver(r, {}) = f[{}]
  BY <1>1, SumOverIs
<1> QED BY <1>2 DEF Sums

LEMMA SumSame ==
  ASSUME NEW r, NEW p, NEW S, IsFiniteSet(S), AgreeOn(r, p, S), Counted(r, S)
  PROVE  SumOver(r, S) = SumOver(p, S) /\ SumOver(r, S) \in Nat
<1>1. PICK f : Sums(r, f, SUBSET S) /\ SumOver(r, S) = f[S]
  BY SumOverIs
<1>2. PICK g : Sums(p, g, SUBSET S) /\ SumOver(p, S) = g[S]
  BY SumOverIs
<1>3. f[S] = g[S]
  BY <1>1, <1>2, SumsUnique
<1>4. f[S] \in Nat
  BY <1>1, SumsInAnyOrder DEF SumsAnyhow
<1> QED BY <1>1, <1>2, <1>3, <1>4

LEMMA SumWithout ==
  ASSUME NEW r, NEW S, IsFiniteSet(S), Counted(r, S), NEW o \in S
  PROVE  SumOver(r, S) = r[o].quantity + SumOver(r, S \ {o})
<1>1. PICK f : Sums(r, f, SUBSET S) /\ SumOver(r, S) = f[S]
  BY SumOverIs
<1>2. IsFiniteSet(S \ {o}) /\ S \ {o} \subseteq S
  BY SmallerSets
<1>3. PICK g : Sums(r, g, SUBSET (S \ {o})) /\ SumOver(r, S \ {o}) = g[S \ {o}]
  BY <1>2, SumOverIs
<1>4. AgreeOn(r, r, S \ {o}) /\ Counted(r, S \ {o})
  BY DEF AgreeOn, Counted
<1>5. g[S \ {o}] = f[S \ {o}]
  <2> DEFINE U == S \ {o}
  <2>1. /\ IsFiniteSet(U) /\ AgreeOn(r, r, U) /\ Counted(r, U) /\ U \subseteq S
        /\ Sums(r, g, SUBSET U) /\ Sums(r, f, SUBSET S)
    BY <1>1, <1>2, <1>3, <1>4
  <2> HIDE DEF U
  <2>2. g[U] = f[U]
    BY ONLY <2>1, SumsUnique
  <2> QED BY <2>2 DEF U
<1>6. f[S] = r[o].quantity + f[S \ {o}]
  BY <1>1, SumsInAnyOrder DEF SumsAnyhow
<1> QED BY <1>1, <1>3, <1>5, <1>6
-----------------------------------------------------------------------------
(* Stock.                                                                  *)
StockStatuses == {"NONE", "PENDING", "CONFIRMED", "RELEASED"}

StockStates ==
  [total : Nat, reserved : Nat, resv : [StockOrders -> [status : StockStatuses, quantity : Nat]]]

StockEventTypes == {"CREATED", "ADDED", "RESERVED", "CONFIRMED", "RELEASED", "RESERVATION_FAILED"}

StockEvents ==
  [inv : Inventories, type : StockEventTypes, order : StockOrders \union {NoStockOrder},
   quantity : Nat, total : Nat]

With(r, status) == {o \in StockOrders : r[o].status = status}

(* Of the stock s after n has come in: what is reserved is what is         *)
(* pending, no more than there is, and what has left is confirmed.         *)
Balanced(s, n) ==
  /\ s \in StockStates /\ n \in Nat
  /\ \A status \in {"PENDING", "CONFIRMED"} : IsFiniteSet(With(s.resv, status))
  /\ s.reserved = SumOver(s.resv, With(s.resv, "PENDING")) /\ s.reserved <= s.total
  /\ s.total + SumOver(s.resv, With(s.resv, "CONFIRMED")) = n

Come(i) == FoldLeft(Coming, 0, History(i, stockLog))

(* The creation of an inventory is its first event.                        *)
CreatedFirst ==
  \A n \in 1 .. Len(stockLog) :
    stockLog[n].type = "CREATED" => \A p \in 1 .. n - 1 : stockLog[p].inv # stockLog[n].inv

StockInv ==
  /\ stockLog \in Seq(StockEvents)
  /\ \A i \in Inventories : History(i, stockLog) \in Seq(StockEvents) /\ Balanced(Stock(i), Come(i))
  /\ CreatedFirst
  /\ \A n \in 1 .. Len(stockLog) : Exists(stockLog[n].inv)

(* e is about one of the orders of s, with the status and the quantity.    *)
IsAbout(s, e, status) == e.order \in StockOrders /\ s.resv[e.order].status = status

TakesPending(s, e) == IsAbout(s, e, "PENDING") /\ e.quantity = s.resv[e.order].quantity

(* e is raised by stock s, new when no event came before.                  *)
Fits(s, new, e) ==
  \/ e.type = "CREATED" /\ new
  \/ e.type = "ADDED" /\ e.total = s.total + e.quantity
  \/ e.type = "RESERVED" /\ IsAbout(s, e, "NONE") /\ e.quantity <= s.total - s.reserved
  \/ e.type = "CONFIRMED" /\ TakesPending(s, e) /\ e.total = s.total - e.quantity
  \/ e.type = "RELEASED" /\ TakesPending(s, e)
  \/ e.type = "RESERVATION_FAILED"

(* The projection, as long as it handles the events of an inventory one at *)
(* a time.                                                                 *)
InOrder == lost = 0 /\ ~overlapped

Unlisted(i) == \A o \in StockOrders : listed[i][o] = "NONE"

RowHas(i, s) == stockRow[i] = [kept |-> TRUE, total |-> s.total, reserved |-> s.reserved]

ListHas(i, s) == \A o \in StockOrders : listed[i][o] = s.resv[o].status

Overshadowed(i) == \E j \in Inventories \ {i} : ProductOf[j] = ProductOf[i] /\ stockRow[j].kept

(* The read model has inventory i as s, or leaves it out.                  *)
Follows(i, s) ==
  \/ RowHas(i, s) /\ ListHas(i, s)
  \/ ~stockRow[i].kept /\ Unlisted(i) /\ Overshadowed(i)

(* A handler of event e of an inventory that was p before.                 *)
InProgress(job, p, e) ==
  LET i == job.inv
  IN \/ e.type = "CREATED" /\ job.doing = "begun" /\ ~stockRow[i].kept /\ Unlisted(i)
     \/ e.type # "CREATED" /\ job.doing = "begun" /\ Follows(i, p)
     \/ e.type # "CREATED" /\ job.doing = "read" /\ job.read = stockRow[i] /\ RowHas(i, p) /\ ListHas(i, p)
     \/ /\ e.type \in {"RESERVED", "CONFIRMED", "RELEASED"} /\ job.doing = "upserted"
        /\ RowHas(i, Stock(i)) /\ ListHas(i, p)

(* A handler is at the latest event of its inventory, which was p before.  *)
Handles(job, p, e) ==
  /\ EventOf(job) = e /\ e.type # "RESERVATION_FAILED" /\ Fits(p, p = NewInventory, e)
  /\ Stock(job.inv) = StockApply(p, e)
  /\ InProgress(job, p, e)

InHand(job) ==
  /\ job.inv \in Inventories /\ Exists(job.inv) /\ job.at = Len(History(job.inv, stockLog))
  /\ job = [inv |-> job.inv, at |-> job.at, doing |-> job.doing, read |-> job.read]
  /\ \E p \in StockStates, e \in StockEvents : Handles(job, p, e)

RowIsSettled(i) == IF Exists(i) THEN Follows(i, Stock(i)) ELSE ~stockRow[i].kept /\ Unlisted(i)

ProjectionIsOrdered ==
  /\ \A i \in Inventories : stockRow[i].kept => Exists(i)
  /\ \A job \in projecting : InHand(job)
  /\ \A job, other \in projecting : job.inv = other.inv => job = other
  /\ \A i \in Inventories : (\A job \in projecting : job.inv # i) => RowIsSettled(i)

ProjectionInv ==
  /\ DOMAIN stockRow = Inventories /\ lost \in Nat
  /\ DOMAIN listed = Inventories /\ \A i \in Inventories : DOMAIN listed[i] = StockOrders
  /\ InOrder => ProjectionIsOrdered

Reservations == [StockOrders -> [status : StockStatuses, quantity : Nat]]

LEMMA ReservationsFacts ==
  ASSUME NEW r \in Reservations, NEW o \in StockOrders
  PROVE  r[o] \in [status : StockStatuses, quantity : Nat] /\ r[o].status \in StockStatuses /\ r[o].quantity \in Nat
<1>1. r[o] \in [status : StockStatuses, quantity : Nat]
  BY DEF Reservations
<1> QED BY <1>1

(* p is r with another reservation for order o.                            *)
Changed(r, p, o) ==
  /\ r \in Reservations /\ p \in Reservations /\ o \in StockOrders
  /\ \A other \in StockOrders \ {o} : p[other] = r[other]

Share(r, o, status) == IF r[o].status = status THEN r[o].quantity ELSE 0

LEMMA SumHasShare ==
  ASSUME NEW r \in Reservations, NEW o \in StockOrders, NEW status, IsFiniteSet(With(r, status))
  PROVE  /\ IsFiniteSet(With(r, status) \ {o}) /\ SumOver(r, With(r, status) \ {o}) \in Nat
         /\ SumOver(r, With(r, status)) = Share(r, o, status) + SumOver(r, With(r, status) \ {o})
<1> DEFINE U == With(r, status)
<1>1. Counted(r, U) /\ Counted(r, U \ {o})
  BY ReservationsFacts DEF Counted, With
<1>2. IsFiniteSet(U \ {o})
  BY SmallerSets
<1>3. AgreeOn(r, r, U \ {o}) /\ AgreeOn(r, r, U)
  BY DEF AgreeOn
<1> HIDE DEF U
<1>4. SumOver(r, U \ {o}) \in Nat
  BY <1>1, <1>2, <1>3, SumSame
<1>5. CASE r[o].status = status
  <2>1. o \in U
    BY <1>5 DEF U, With
  <2>2. SumOver(r, U) = r[o].quantity + SumOver(r, U \ {o})
    BY <1>1, <2>1, SumWithout DEF U
  <2> QED BY <1>2, <1>4, <1>5, <2>2 DEF Share, U
<1>6. CASE r[o].status # status
  <2>1. U \ {o} = U
    BY <1>6 DEF U, With
  <2> QED BY <1>2, <1>4, <1>6, <2>1 DEF Share, U
<1> QED BY <1>5, <1>6

LEMMA SumMoves ==
  ASSUME NEW r, NEW p, NEW o, Changed(r, p, o), NEW status, IsFiniteSet(With(r, status))
  PROVE  /\ IsFiniteSet(With(p, status))
         /\ \E k \in Nat : /\ SumOver(r, With(r, status)) = Share(r, o, status) + k
                           /\ SumOver(p, With(p, status)) = Share(p, o, status) + k
<1> DEFINE U == With(r, status) \ {o}
<1>0. r \in Reservations /\ p \in Reservations /\ o \in StockOrders
  BY DEF Changed
<1>1. U = With(p, status) \ {o} /\ AgreeOn(r, p, U)
  BY DEF Changed, With, AgreeOn
<1>2. IsFiniteSet(U) /\ SumOver(r, U) \in Nat
      /\ SumOver(r, With(r, status)) = Share(r, o, status) + SumOver(r, U)
  BY <1>0, SumHasShare
<1>3. IsFiniteSet(With(p, status))
  <2>1. IsFiniteSet(U \union {o})
    BY <1>2, FS_AddElement
  <2>2. With(p, status) \in SUBSET (U \union {o})
    BY <1>1
  <2> QED BY <2>1, <2>2, SmallerSets
<1>4. SumOver(p, With(p, status)) = Share(p, o, status) + SumOver(p, U)
  BY <1>0, <1>1, <1>3, SumHasShare
<1>5. Counted(r, U)
  BY <1>0, ReservationsFacts DEF Counted, With
<1>6. SumOver(r, U) = SumOver(p, U)
  BY <1>1, <1>2, <1>5, SumSame
<1> HIDE DEF U
<1> QED BY <1>2, <1>3, <1>4, <1>6

(* What the pending and the confirmed reservations ask for.                *)
Asked(r, status) == SumOver(r, With(r, status))

LEMMA AskedIsNat ==
  ASSUME NEW r \in Reservations, NEW status, IsFiniteSet(With(r, status))
  PROVE  Asked(r, status) \in Nat
<1>1. Counted(r, With(r, status)) /\ AgreeOn(r, r, With(r, status))
  BY ReservationsFacts DEF Counted, With, AgreeOn
<1> QED BY <1>1, SumSame DEF Asked

(* A pending reservation asks for no more than is reserved.                *)
LEMMA PendingIsReserved ==
  ASSUME NEW s, NEW n, Balanced(s, n), NEW o \in StockOrders, s.resv[o].status = "PENDING"
  PROVE  s.resv[o].quantity \in Nat /\ s.resv[o].quantity <= s.reserved /\ s.reserved <= s.total
<1>1. s.resv \in Reservations /\ IsFiniteSet(With(s.resv, "PENDING"))
      /\ s.reserved = SumOver(s.resv, With(s.resv, "PENDING")) /\ s.reserved <= s.total
  BY DEF Balanced, StockStates, Reservations
<1>2. s.reserved = Share(s.resv, o, "PENDING") + SumOver(s.resv, With(s.resv, "PENDING") \ {o})
      /\ SumOver(s.resv, With(s.resv, "PENDING") \ {o}) \in Nat
  BY <1>1, SumHasShare
<1>3. s.resv[o].quantity \in Nat
  BY <1>1, ReservationsFacts
<1> QED BY <1>1, <1>2, <1>3 DEF Share

LEMMA NewIsBalanced == Balanced(NewInventory, 0)
<1>1. NewInventory \in StockStates
  BY DEF NewInventory, StockStates, StockStatuses
<1>2. \A status \in {"PENDING", "CONFIRMED"} : With(NewInventory.resv, status) = {}
  BY DEF With, NewInventory
<1>3. IsFiniteSet({})
  BY FS_EmptySet
<1>4. NewInventory.reserved = 0 /\ NewInventory.total = 0
  BY DEF NewInventory
<1> QED BY <1>1, <1>2, <1>3, <1>4, SumOfNone DEF Balanced

(* What the events make of the stock.                                      *)
LEMMA StockApplied ==
  ASSUME NEW s \in StockStates, NEW e
  PROVE  /\ e.type = "CREATED" /\ s = NewInventory =>
              StockApply(s, e) = [total |-> e.total, reserved |-> 0, resv |-> s.resv]
         /\ e.type = "ADDED" => StockApply(s, e) = [total |-> e.total, reserved |-> s.reserved, resv |-> s.resv]
         /\ e.type = "RESERVED" =>
              StockApply(s, e) =
                [total |-> s.total, reserved |-> s.reserved + e.quantity,
                 resv |-> [s.resv EXCEPT ![e.order] = [status |-> "PENDING", quantity |-> e.quantity]]]
         /\ e.type = "CONFIRMED" /\ TakesPending(s, e) =>
              StockApply(s, e) =
                [total |-> e.total, reserved |-> s.reserved - e.quantity,
                 resv |-> [s.resv EXCEPT ![e.order].status = "CONFIRMED"]]
         /\ e.type = "RELEASED" /\ TakesPending(s, e) =>
              StockApply(s, e) =
                [total |-> s.total, reserved |-> s.reserved - e.quantity,
                 resv |-> [s.resv EXCEPT ![e.order].status = "RELEASED"]]
         /\ e.type = "RESERVATION_FAILED" => StockApply(s, e) = s
<1> DEFINE t == StockApply(s, e)
           r == s.resv
<1>1. ASSUME e.type = "CREATED", s = NewInventory
      PROVE  t = [total |-> e.total, reserved |-> 0, resv |-> r]
  <2>1. t = [[s EXCEPT !.total = e.total] EXCEPT !.reserved = 0]
    BY <1>1 DEF StockApply
  <2>2. s = [total |-> 0, reserved |-> 0, resv |-> r]
    BY <1>1 DEF NewInventory, StockStates
  <2> HIDE DEF t, r
  <2> QED BY <2>1, <2>2
<1>2. ASSUME e.type = "ADDED" PROVE t = [total |-> e.total, reserved |-> s.reserved, resv |-> r]
  BY <1>2 DEF StockApply, StockStates
<1>3. ASSUME e.type = "RESERVED"
      PROVE  t = [total |-> s.total, reserved |-> s.reserved + e.quantity,
                  resv |-> [r EXCEPT ![e.order] = [status |-> "PENDING", quantity |-> e.quantity]]]
  <2> DEFINE u == [s EXCEPT !.reserved = @ + e.quantity]
             q == [status |-> "PENDING", quantity |-> e.quantity]
  <2>1. t = [u EXCEPT !.resv[e.order] = q]
    BY <1>3 DEF StockApply
  <2>2. u = [total |-> s.total, reserved |-> s.reserved + e.quantity, resv |-> r]
    BY DEF StockStates
  <2> HIDE DEF t, r, u, q
  <2>3. t = [total |-> s.total, reserved |-> s.reserved + e.quantity, resv |-> [r EXCEPT ![e.order] = q]]
    BY <2>1, <2>2
  <2> QED BY <2>3 DEF q
<1>4. ASSUME e.type = "CONFIRMED", TakesPending(s, e)
     PROVE  t = [total |-> e.total, reserved |-> s.reserved - e.quantity,
                 resv |-> [r EXCEPT ![e.order].status = "CONFIRMED"]]
  <2> DEFINE u == [s EXCEPT !.total = e.total]
             v == [u EXCEPT !.resv[e.order].status = "CONFIRMED"]
  <2>1. t = [v EXCEPT !.reserved = @ - e.quantity]
    BY <1>4 DEF StockApply, TakesPending
  <2>2. u = [total |-> e.total, reserved |-> s.reserved, resv |-> r]
    BY DEF StockStates
  <2> HIDE DEF t, r, u
  <2>3. v = [total |-> e.total, reserved |-> s.reserved, resv |-> [r EXCEPT ![e.order].status = "CONFIRMED"]]
    BY <2>2
  <2> HIDE DEF v
  <2> QED BY <2>1, <2>3
<1>5. ASSUME e.type = "RELEASED", TakesPending(s, e)
     PROVE  t = [total |-> s.total, reserved |-> s.reserved - e.quantity,
                 resv |-> [r EXCEPT ![e.order].status = "RELEASED"]]
  <2> DEFINE u == s
             v == [u EXCEPT !.resv[e.order].status = "RELEASED"]
  <2>1. t = [v EXCEPT !.reserved = @ - e.quantity]
    BY <1>5 DEF StockApply, TakesPending
  <2>2. u = [total |-> s.total, reserved |-> s.reserved, resv |-> r]
    BY DEF StockStates
  <2> HIDE DEF t, r, u
  <2>3. v = [total |-> s.total, reserved |-> s.reserved, resv |-> [r EXCEPT ![e.order].status = "RELEASED"]]
    BY <2>2
  <2> HIDE DEF v
  <2> QED BY <2>1, <2>3
<1>6. ASSUME e.type = "RESERVATION_FAILED" PROVE t = s
  BY <1>6 DEF StockApply
<1> QED BY <1>1, <1>2, <1>3, <1>4, <1>5, <1>6

(* An event that fits leaves the stock balanced.                           *)
LEMMA BalancedStep ==
  ASSUME NEW s, NEW n, Balanced(s, n), NEW new, new => s = NewInventory /\ n = 0,
         NEW e \in StockEvents, Fits(s, new, e)
  PROVE  Balanced(StockApply(s, e), Coming(n, e))
<1> DEFINE t == StockApply(s, e)
           r == s.resv
<1>1. /\ s \in StockStates /\ r \in Reservations /\ s.total \in Nat /\ s.reserved \in Nat /\ n \in Nat
      /\ e.quantity \in Nat /\ e.total \in Nat
  BY DEF Balanced, StockStates, StockEvents, Reservations
<1>2. /\ IsFiniteSet(With(r, "PENDING")) /\ IsFiniteSet(With(r, "CONFIRMED"))
      /\ s.reserved = Asked(r, "PENDING") /\ s.reserved <= s.total /\ s.total + Asked(r, "CONFIRMED") = n
  BY DEF Balanced, Asked
<1>3. Asked(r, "PENDING") \in Nat /\ Asked(r, "CONFIRMED") \in Nat
  BY <1>1, <1>2, AskedIsNat
<1>4. SUFFICES /\ t \in StockStates /\ Coming(n, e) \in Nat
               /\ IsFiniteSet(With(t.resv, "PENDING")) /\ IsFiniteSet(With(t.resv, "CONFIRMED"))
               /\ t.reserved = Asked(t.resv, "PENDING") /\ t.reserved <= t.total
               /\ t.total + Asked(t.resv, "CONFIRMED") = Coming(n, e)
  BY DEF Balanced, Asked
<1>5. ASSUME e.type = "CREATED", new
      PROVE  t = [total |-> e.total, reserved |-> 0, resv |-> r] /\ Coming(n, e) = n + e.total
             /\ s.total = 0 /\ s.reserved = 0 /\ n = 0
  <2>1. Coming(n, e) = n + e.total
    BY <1>5 DEF Coming
  <2>2. s.total = 0 /\ s.reserved = 0
    BY <1>5 DEF NewInventory
  <2> QED BY <1>1, <1>5, <2>1, <2>2, StockApplied
<1>6. ASSUME e.type = "ADDED"
      PROVE  t = [total |-> e.total, reserved |-> s.reserved, resv |-> r] /\ Coming(n, e) = n + e.quantity
  <2>1. Coming(n, e) = n + e.quantity
    BY <1>6 DEF Coming
  <2> QED BY <1>1, <1>6, <2>1, StockApplied
<1>7. ASSUME e.type = "RESERVATION_FAILED" PROVE t = s /\ Coming(n, e) = n
  <2>1. Coming(n, e) = n
    BY <1>1, <1>7 DEF Coming
  <2> QED BY <1>1, <1>7, <2>1, StockApplied
<1>8. ASSUME e.type = "RESERVED"
      PROVE  /\ t = [total |-> s.total, reserved |-> s.reserved + e.quantity,
                     resv |-> [r EXCEPT ![e.order] = [status |-> "PENDING", quantity |-> e.quantity]]]
             /\ Coming(n, e) = n
  <2>1. Coming(n, e) = n
    BY <1>1, <1>8 DEF Coming
  <2> QED BY <1>1, <1>8, <2>1, StockApplied
<1>9. ASSUME e.type = "CONFIRMED", TakesPending(s, e)
      PROVE  /\ t = [total |-> e.total, reserved |-> s.reserved - e.quantity,
                     resv |-> [r EXCEPT ![e.order].status = "CONFIRMED"]]
             /\ Coming(n, e) = n
  <2>1. Coming(n, e) = n
    BY <1>1, <1>9 DEF Coming
  <2> QED BY <1>1, <1>9, <2>1, StockApplied
<1>10. ASSUME e.type = "RELEASED", TakesPending(s, e)
       PROVE  /\ t = [total |-> s.total, reserved |-> s.reserved - e.quantity,
                      resv |-> [r EXCEPT ![e.order].status = "RELEASED"]]
              /\ Coming(n, e) = n
  <2>1. Coming(n, e) = n
    BY <1>1, <1>10 DEF Coming
  <2> QED BY <1>1, <1>10, <2>1, StockApplied
<1>a. ASSUME NEW p, Changed(r, p, e.order)
      PROVE  /\ IsFiniteSet(With(p, "PENDING")) /\ IsFiniteSet(With(p, "CONFIRMED"))
             /\ \E k \in Nat : /\ Asked(r, "PENDING") = Share(r, e.order, "PENDING") + k
                               /\ Asked(p, "PENDING") = Share(p, e.order, "PENDING") + k
             /\ \E k \in Nat : /\ Asked(r, "CONFIRMED") = Share(r, e.order, "CONFIRMED") + k
                               /\ Asked(p, "CONFIRMED") = Share(p, e.order, "CONFIRMED") + k
  <2> HIDE DEF r
  <2> QED BY <1>a, <1>2, SumMoves DEF Asked
<1>b. CASE e.type = "CREATED" /\ new
  BY <1>1, <1>2, <1>3, <1>5, <1>b DEF StockStates, Reservations
<1>c. CASE e.type = "ADDED" /\ e.total = s.total + e.quantity
  BY <1>1, <1>2, <1>3, <1>6, <1>c DEF StockStates, Reservations
<1>d. CASE e.type = "RESERVED" /\ IsAbout(s, e, "NONE") /\ e.quantity <= s.total - s.reserved
  <2> DEFINE p == [r EXCEPT ![e.order] = [status |-> "PENDING", quantity |-> e.quantity]]
  <2>1. Changed(r, p, e.order) /\ p[e.order] = [status |-> "PENDING", quantity |-> e.quantity]
    BY <1>1, <1>d DEF Changed, Reservations, IsAbout, StockStatuses
  <2>2. Share(r, e.order, "PENDING") = 0 /\ Share(r, e.order, "CONFIRMED") = 0
        /\ Share(p, e.order, "PENDING") = e.quantity /\ Share(p, e.order, "CONFIRMED") = 0
    BY <1>d, <2>1 DEF Share, IsAbout
  <2>3. p \in Reservations /\ t = [total |-> s.total, reserved |-> s.reserved + e.quantity, resv |-> p]
        /\ Coming(n, e) = n
    BY <1>8, <1>d, <2>1 DEF Changed
  <2> HIDE DEF p, t, r
  <2>4. /\ IsFiniteSet(With(p, "PENDING")) /\ IsFiniteSet(With(p, "CONFIRMED"))
        /\ Asked(p, "PENDING") = Asked(r, "PENDING") + e.quantity
        /\ Asked(p, "CONFIRMED") = Asked(r, "CONFIRMED")
    BY <1>a, <1>1, <2>1, <2>2
  <2> QED BY <1>1, <1>2, <1>3, <1>d, <2>3, <2>4 DEF StockStates, Reservations
<1>p. ASSUME TakesPending(s, e), NEW status \in {"CONFIRMED", "RELEASED"},
             NEW p, p = [r EXCEPT ![e.order].status = status]
      PROVE  /\ p \in Reservations /\ e.quantity <= s.reserved
             /\ IsFiniteSet(With(p, "PENDING")) /\ IsFiniteSet(With(p, "CONFIRMED"))
             /\ Asked(p, "PENDING") = Asked(r, "PENDING") - e.quantity
             /\ Asked(p, "CONFIRMED") = Asked(r, "CONFIRMED")
                                        + (IF status = "CONFIRMED" THEN e.quantity ELSE 0)
  <2>1. e.order \in StockOrders /\ r[e.order].status = "PENDING" /\ r[e.order].quantity = e.quantity
    BY <1>p DEF TakesPending, IsAbout
  <2>2. r[e.order] \in [status : StockStatuses, quantity : Nat]
    BY <1>1, <2>1, ReservationsFacts
  <2>3. p[e.order] = [status |-> status, quantity |-> e.quantity] /\ \A o \in StockOrders \ {e.order} : p[o] = r[o]
    BY <1>1, <1>p, <2>1, <2>2 DEF Reservations
  <2>4. p \in Reservations
    BY <1>1, <1>p, <2>1, <2>2, <2>3 DEF Reservations, StockStatuses
  <2>5. Changed(r, p, e.order)
    BY <1>1, <2>1, <2>3, <2>4 DEF Changed
  <2>6. Share(r, e.order, "PENDING") = e.quantity /\ Share(r, e.order, "CONFIRMED") = 0
        /\ Share(p, e.order, "PENDING") = 0
        /\ Share(p, e.order, "CONFIRMED") = IF status = "CONFIRMED" THEN e.quantity ELSE 0
    BY <1>p, <2>1, <2>3 DEF Share
  <2> HIDE DEF r
  <2>7. /\ IsFiniteSet(With(p, "PENDING")) /\ IsFiniteSet(With(p, "CONFIRMED"))
        /\ Asked(r, "PENDING") = Asked(p, "PENDING") + e.quantity /\ Asked(p, "PENDING") \in Nat
        /\ Asked(p, "CONFIRMED") = Asked(r, "CONFIRMED") + (IF status = "CONFIRMED" THEN e.quantity ELSE 0)
    BY <1>a, <1>1, <2>5, <2>6
  <2> QED BY <1>1, <1>2, <2>4, <2>7
<1>e. CASE e.type = "CONFIRMED" /\ TakesPending(s, e) /\ e.total = s.total - e.quantity
  <2>1. PICK p : p = [r EXCEPT ![e.order].status = "CONFIRMED"]
    OBVIOUS
  <2>2. t = [total |-> e.total, reserved |-> s.reserved - e.quantity, resv |-> p] /\ Coming(n, e) = n
    BY <1>9, <1>e, <2>1
  <2>3. /\ p \in Reservations /\ e.quantity <= s.reserved
        /\ IsFiniteSet(With(p, "PENDING")) /\ IsFiniteSet(With(p, "CONFIRMED"))
        /\ Asked(p, "PENDING") = Asked(r, "PENDING") - e.quantity
        /\ Asked(p, "CONFIRMED") = Asked(r, "CONFIRMED") + e.quantity
    BY <1>e, <1>p, <2>1
  <2> HIDE DEF t, r
  <2> QED BY <1>1, <1>2, <1>3, <1>e, <2>2, <2>3 DEF StockStates, Reservations
<1>f. CASE e.type = "RELEASED" /\ TakesPending(s, e)
  <2>1. PICK p : p = [r EXCEPT ![e.order].status = "RELEASED"]
    OBVIOUS
  <2>2. t = [total |-> s.total, reserved |-> s.reserved - e.quantity, resv |-> p] /\ Coming(n, e) = n
    BY <1>10, <1>f, <2>1
  <2>3. /\ p \in Reservations /\ e.quantity <= s.reserved
        /\ IsFiniteSet(With(p, "PENDING")) /\ IsFiniteSet(With(p, "CONFIRMED"))
        /\ Asked(p, "PENDING") = Asked(r, "PENDING") - e.quantity
        /\ Asked(p, "CONFIRMED") = Asked(r, "CONFIRMED") + 0
    BY <1>f, <1>p, <2>1
  <2> HIDE DEF t, r
  <2> QED BY <1>1, <1>2, <1>3, <1>f, <2>2, <2>3 DEF StockStates, Reservations
<1>g. CASE e.type = "RESERVATION_FAILED"
  BY <1>1, <1>2, <1>3, <1>7, <1>g
<1> QED BY <1>b, <1>c, <1>d, <1>e, <1>f, <1>g DEF Fits
LEMMA StockAppend ==
  ASSUME NEW S, NEW b \in Seq(S), NEW e \in S
  PROVE  /\ StockFrom(Append(b, e)) = StockApply(StockFrom(b), e)
         /\ FoldLeft(Coming, 0, Append(b, e)) = Coming(FoldLeft(Coming, 0, b), e)
<1>1. Append(b, e) \in Seq(S)
  OBVIOUS
<1>2. StockFrom(Append(b, e)) = FoldStep("stock", StockFrom(b), e)
  BY <1>1, StockFolds, FoldsToStep
<1>3. FoldLeft(Coming, 0, Append(b, e)) = FoldStep("coming", FoldLeft(Coming, 0, b), e)
  <2> DEFINE r == FoldLeft(Coming, 0, b)
             q == FoldLeft(Coming, 0, Append(b, e))
  <2>1. FoldsTo("coming", 0, b, r) /\ FoldsTo("coming", 0, Append(b, e), q)
    BY <1>1, ComingFolds
  <2> HIDE DEF r, q
  <2>2. q = FoldStep("coming", r, e)
    BY <2>1, FoldsToStep
  <2> QED BY <2>2 DEF r, q
<1>4. FoldStep("stock", StockFrom(b), e) = StockApply(StockFrom(b), e)
  BY DEF FoldStep
<1>5. FoldStep("coming", FoldLeft(Coming, 0, b), e) = Coming(FoldLeft(Coming, 0, b), e)
  BY DEF FoldStep
<1> QED BY <1>2, <1>3, <1>4, <1>5

LEMMA StockStart == StockFrom(<<>>) = NewInventory /\ FoldLeft(Coming, 0, <<>>) = 0
<1>1. <<>> \in Seq({})
  OBVIOUS
<1>2. FoldsTo("stock", NewInventory, <<>>, StockFrom(<<>>)) /\ FoldsTo("coming", 0, <<>>, FoldLeft(Coming, 0, <<>>))
  BY <1>1, StockFolds, ComingFolds
<1>3. StockFrom(<<>>) = NewInventory
  BY <1>2, FoldsToStart
<1>4. FoldLeft(Coming, 0, <<>>) = 0
  <2> DEFINE q == FoldLeft(Coming, 0, <<>>)
  <2>1. FoldsTo("coming", 0, <<>>, q)
    BY <1>2
  <2> HIDE DEF q
  <2>2. q = 0
    BY <2>1, FoldsToStart
  <2> QED BY <2>2 DEF q
<1> QED BY <1>3, <1>4

LEMMA StocksAreBalanced ==
  ASSUME StockInv, NEW i \in Inventories
  PROVE  /\ Stock(i) \in StockStates /\ Stock(i).total \in Nat /\ Stock(i).reserved \in Nat
         /\ Stock(i).resv \in Reservations
         /\ \A o \in StockOrders : Stock(i).resv[o].quantity \in Nat
         /\ \A o \in StockOrders : Stock(i).resv[o].status = "PENDING" =>
              Stock(i).resv[o].quantity <= Stock(i).total
         /\ ~Exists(i) => Stock(i) = NewInventory /\ Come(i) = 0
<1>1. Balanced(Stock(i), Come(i))
  BY DEF StockInv
<1>2. Stock(i) \in StockStates
  BY <1>1 DEF Balanced
<1>3. Stock(i).total \in Nat /\ Stock(i).reserved \in Nat /\ Stock(i).resv \in Reservations
  BY <1>2 DEF StockStates, Reservations
<1>4. \A o \in StockOrders : Stock(i).resv[o].quantity \in Nat
  BY <1>3, ReservationsFacts
<1>5. ASSUME NEW o \in StockOrders, Stock(i).resv[o].status = "PENDING"
      PROVE  Stock(i).resv[o].quantity <= Stock(i).total
  <2>1. Stock(i).resv[o].quantity <= Stock(i).reserved /\ Stock(i).reserved <= Stock(i).total
    BY <1>1, <1>5, PendingIsReserved
  <2> QED BY <1>3, <1>4, <2>1
<1>6. ASSUME ~Exists(i) PROVE Stock(i) = NewInventory /\ Come(i) = 0
  BY <1>6, StockStart DEF Exists, Stock, Come
<1> QED BY <1>2, <1>3, <1>4, <1>5, <1>6

Raised(i, e) == e \in StockEvents /\ e.inv = i /\ Fits(Stock(i), ~Exists(i), e) /\ (Exists(i) \/ e.type = "CREATED")

LEMMA MethodsRaise ==
  ASSUME StockInv, NEW i \in Inventories, Exists(i), NEW o \in StockOrders, NEW n \in Nat
  PROVE  /\ \A e \in AddStock(i, Stock(i), n) : Raised(i, e)
         /\ \A e \in ReserveStock(i, Stock(i), o, n) : Raised(i, e)
         /\ \A e \in ConfirmReservation(i, Stock(i), o) : Raised(i, e)
         /\ \A e \in ReleaseReservation(i, Stock(i), o) : Raised(i, e)
<1> DEFINE s == Stock(i)
<1>1. /\ s.total \in Nat /\ s.reserved \in Nat /\ s.resv[o].quantity \in Nat
      /\ s.resv[o].status = "PENDING" => s.resv[o].quantity <= s.total
  BY StocksAreBalanced
<1> HIDE DEF s
<1>2. \A e \in AddStock(i, s, n) : Raised(i, e)
  <2> SUFFICES ASSUME NEW e \in AddStock(i, s, n) PROVE Raised(i, e)
    OBVIOUS
  <2>1. e = StockEvent(i, "ADDED", NoStockOrder, n, s.total + n)
    BY DEF AddStock
  <2>2. s.total + n \in Nat
    BY <1>1
  <2> QED BY <2>1, <2>2 DEF StockEvent, Raised, StockEvents, StockEventTypes, Fits, s
<1>3. \A e \in ReserveStock(i, s, o, n) : Raised(i, e)
  <2> SUFFICES ASSUME NEW e \in ReserveStock(i, s, o, n) PROVE Raised(i, e)
    OBVIOUS
  <2>1. CASE n > Free(s)
    <3>1. e = StockEvent(i, "RESERVATION_FAILED", o, n, s.total)
      BY <2>1 DEF ReserveStock
    <3> QED BY <1>1, <3>1 DEF StockEvent, Raised, StockEvents, StockEventTypes, Fits
  <2>2. CASE ~(n > Free(s))
    <3>1. e = StockEvent(i, "RESERVED", o, n, s.total) /\ s.resv[o].status = "NONE"
      BY <2>2 DEF ReserveStock
    <3>2. n <= s.total - s.reserved
      BY <1>1, <2>2 DEF Free
    <3> QED BY <1>1, <3>1, <3>2 DEF StockEvent, Raised, StockEvents, StockEventTypes, Fits, IsAbout, s
  <2> QED BY <2>1, <2>2
<1>4. \A e \in ConfirmReservation(i, s, o) : Raised(i, e)
  <2> SUFFICES ASSUME NEW e \in ConfirmReservation(i, s, o) PROVE Raised(i, e)
    OBVIOUS
  <2>1. /\ e = StockEvent(i, "CONFIRMED", o, s.resv[o].quantity, s.total - s.resv[o].quantity)
        /\ s.resv[o].status = "PENDING"
    BY DEF ConfirmReservation
  <2>2. s.total - s.resv[o].quantity \in Nat
    BY <1>1, <2>1
  <2>3. e \in StockEvents /\ e.inv = i /\ e.type = "CONFIRMED"
    BY <1>1, <2>1, <2>2 DEF StockEvent, StockEvents, StockEventTypes
  <2>4. TakesPending(s, e) /\ e.total = s.total - e.quantity
    BY <2>1 DEF StockEvent, TakesPending, IsAbout
  <2> QED BY <2>3, <2>4 DEF Raised, Fits, s
<1>5. \A e \in ReleaseReservation(i, s, o) : Raised(i, e)
  <2> SUFFICES ASSUME NEW e \in ReleaseReservation(i, s, o) PROVE Raised(i, e)
    OBVIOUS
  <2>1. /\ e = StockEvent(i, "RELEASED", o, s.resv[o].quantity, s.total)
        /\ s.resv[o].status = "PENDING"
    BY DEF ReleaseReservation
  <2>3. e \in StockEvents /\ e.inv = i /\ e.type = "RELEASED"
    BY <1>1, <2>1 DEF StockEvent, StockEvents, StockEventTypes
  <2>4. TakesPending(s, e)
    BY <2>1 DEF StockEvent, TakesPending, IsAbout
  <2> QED BY <2>3, <2>4 DEF Raised, Fits, s
<1> QED BY <1>2, <1>3, <1>4, <1>5 DEF s

(* The lookup by product misses no event of what it finds: the events it   *)
(* leaves out are older than the creation it found.                        *)
LEMMA FetchedFacts ==
  ASSUME stockLog \in Seq(StockEvents)
  PROVE  \E d \in 0 .. Len(stockLog) :
           /\ Fetched \in Seq(StockEvents) /\ Len(Fetched) = Len(stockLog) - d
           /\ \A k \in 1 .. Len(Fetched) : stockLog[d + k] = Fetched[k]
<1> DEFINE n == Len(stockLog)
           lo == IF n <= EventLimit THEN 1 ELSE n - EventLimit + 1
<1>1. n \in Nat /\ EventLimit \in Nat
  BY StockAssumption
<1>2. lo \in 1 .. n + 1
  BY <1>1
<1>3. Fetched = SubSeq(stockLog, lo, n)
  BY DEF Fetched
<1> HIDE DEF lo
<1>4. SubSeq(stockLog, lo, n) \in Seq(StockEvents) /\ Len(SubSeq(stockLog, lo, n)) = n - (lo - 1)
  BY <1>1, <1>2
<1>5. \A k \in 1 .. Len(SubSeq(stockLog, lo, n)) : stockLog[(lo - 1) + k] = SubSeq(stockLog, lo, n)[k]
  BY <1>1, <1>2, <1>4
<1>6. lo - 1 \in 0 .. n
  BY <1>1, <1>2
<1> QED BY <1>3, <1>4, <1>5, <1>6

LEMMA LookupsAreWhole == StockInv => LookupIsWhole
<1> SUFFICES ASSUME StockInv, NEW i \in Inventories, NEW found \in FindByProductId(ProductOf[i])
             PROVE  History(found, Fetched) = History(found, stockLog)
  BY DEF LookupIsWhole
<1>1. stockLog \in Seq(StockEvents) /\ CreatedFirst
  BY DEF StockInv
<1>2. PICK d \in 0 .. Len(stockLog) :
        /\ Fetched \in Seq(StockEvents) /\ Len(Fetched) = Len(stockLog) - d
        /\ \A k \in 1 .. Len(Fetched) : stockLog[d + k] = Fetched[k]
  BY <1>1, FetchedFacts
<1>3. \E e \in ToSet(Fetched) : e.inv = found /\ e.type = "CREATED"
  BY DEF FindByProductId
<1>4. PICK k \in 1 .. Len(Fetched) : Fetched[k].inv = found /\ Fetched[k].type = "CREATED"
  <2>1. DOMAIN Fetched = 1 .. Len(Fetched)
    BY <1>2
  <2> QED BY <1>3, <2>1 DEF ToSet
<1>5. d + k \in 1 .. Len(stockLog) /\ stockLog[d + k] = Fetched[k] /\ \A p \in 1 .. d : p \in 1 .. (d + k) - 1
  BY <1>1, <1>2, <1>4
<1>6. \A p \in 1 .. (d + k) - 1 : stockLog[p].inv # stockLog[d + k].inv
  BY <1>1, <1>4, <1>5 DEF CreatedFirst
<1>7. \A p \in 1 .. d : stockLog[p].inv # found
  BY <1>4, <1>5, <1>6
<1>8. IsRest(found, StockEvents, stockLog, d, Fetched)
  BY <1>1, <1>2, <1>7 DEF IsRest
<1> QED BY <1>8, HistorySkips

(* A command stores one event and emits or loses it.                       *)
JobOf(e) ==
  [inv |-> e.inv, at |-> Len(History(e.inv, stockLog)) + 1, doing |-> "begun",
   read |-> [kept |-> FALSE]]

Saves(e) ==
  /\ stockLog' = Append(stockLog, e)
  /\ \/ /\ projecting' = IF e.type = "RESERVATION_FAILED" THEN projecting ELSE projecting \union {JobOf(e)}
        /\ overlapped' = (overlapped \/ \E other \in projecting : other.inv = e.inv)
        /\ UNCHANGED lost
     \/ lost' = lost + 1 /\ UNCHANGED <<projecting, overlapped>>
  /\ UNCHANGED <<stockRow, listed>>

LEMMA SavingSaves ==
  ASSUME NEW i, NEW events, \A e \in events : Raised(i, e), SaveInventory(events)
  PROVE  \E e \in StockEvents : Raised(i, e) /\ Saves(e)
BY DEF SaveInventory, Saves, JobOf, Raised

LEMMA CommandSaves ==
  ASSUME StockInv, StockCommand
  PROVE  \E i \in Inventories, e \in StockEvents : Raised(i, e) /\ Saves(e)
<1>q. \A n \in Quantities : n \in Nat
  BY StockAssumption
<1>1. ASSUME NEW i \in Inventories, CreateInventory(i)
      PROVE  \E e \in StockEvents : Raised(i, e) /\ Saves(e)
  <2> DEFINE events == {StockEvent(i, "CREATED", NoStockOrder, 0, n) : n \in Quantities}
  <2>1. ~Exists(i) /\ SaveInventory(events)
    BY <1>1 DEF CreateInventory
  <2>2. ASSUME NEW e \in events PROVE Raised(i, e)
    <3>1. PICK n \in Quantities : e = StockEvent(i, "CREATED", NoStockOrder, 0, n)
      OBVIOUS
    <3> QED BY <1>q, <2>1, <3>1 DEF StockEvent, Raised, StockEvents, StockEventTypes, Fits
  <2> HIDE DEF events
  <2> QED BY <2>1, <2>2, SavingSaves
<1>2. ASSUME NEW i \in Inventories, AddStockTo(i)
      PROVE  \E e \in StockEvents : Raised(i, e) /\ Saves(e)
  <2> DEFINE events == UNION {AddStock(i, Stock(i), n) : n \in Quantities}
  <2>1. Exists(i) /\ SaveInventory(events)
    BY <1>2 DEF AddStockTo
  <2>2. ASSUME NEW e \in events PROVE Raised(i, e)
    <3>1. PICK n \in Quantities : e \in AddStock(i, Stock(i), n)
      OBVIOUS
    <3>2. e = StockEvent(i, "ADDED", NoStockOrder, n, Stock(i).total + n)
      BY <3>1 DEF AddStock
    <3>3. n \in Nat /\ Stock(i).total + n \in Nat
      BY <1>q, StocksAreBalanced
    <3> QED BY <2>1, <3>2, <3>3 DEF StockEvent, Raised, StockEvents, StockEventTypes, Fits
  <2> HIDE DEF events
  <2> QED BY <2>1, <2>2, SavingSaves
<1>3. ASSUME NEW i \in Inventories, NEW o \in StockOrders, Exists(i), NEW whole, whole = Stock(i),
             SaveInventory(UNION {ReserveStock(i, whole, o, n) : n \in Quantities \ {0}})
      PROVE  \E e \in StockEvents : Raised(i, e) /\ Saves(e)
  <2> DEFINE events == UNION {ReserveStock(i, whole, o, n) : n \in Quantities \ {0}}
  <2>2. ASSUME NEW e \in events PROVE Raised(i, e)
    <3>1. PICK n \in Quantities : e \in ReserveStock(i, Stock(i), o, n)
      BY <1>3
    <3> QED BY <1>q, <1>3, <3>1, MethodsRaise
  <2>3. SaveInventory(events)
    BY <1>3
  <2> HIDE DEF events
  <2> QED BY <2>2, <2>3, SavingSaves
<1>4. ASSUME NEW i \in Inventories, NEW o \in StockOrders, ConfirmStock(i, o) \/ ReleaseStock(i, o)
      PROVE  \E e \in StockEvents : Raised(i, e) /\ Saves(e)
  <2>0. 0 \in Nat
    OBVIOUS
  <2>1. CASE ConfirmStock(i, o)
    <3>1. Exists(i) /\ SaveInventory(ConfirmReservation(i, Stock(i), o))
      BY <2>1 DEF ConfirmStock
    <3>2. \A e \in ConfirmReservation(i, Stock(i), o) : Raised(i, e)
      BY <2>0, <3>1, MethodsRaise
    <3> QED BY <3>1, <3>2, SavingSaves
  <2>2. CASE ReleaseStock(i, o)
    <3>1. Exists(i) /\ SaveInventory(ReleaseReservation(i, Stock(i), o))
      BY <2>2 DEF ReleaseStock
    <3>2. \A e \in ReleaseReservation(i, Stock(i), o) : Raised(i, e)
      BY <2>0, <3>1, MethodsRaise
    <3> QED BY <3>1, <3>2, SavingSaves
  <2> QED BY <1>4, <2>1, <2>2
<1>5. ASSUME NEW i \in Inventories, NEW o \in StockOrders, ReserveStockOf(i, o)
      PROVE  \E e \in StockEvents : Raised(i, e) /\ Saves(e)
  BY <1>3, <1>5 DEF ReserveStockOf
<1>6. ASSUME NEW i \in Inventories, NEW o \in StockOrders, ReserveByProduct(ProductOf[i], o)
      PROVE  \E j \in Inventories, e \in StockEvents : Raised(j, e) /\ Saves(e)
  <2>1. PICK j \in FindByProductId(ProductOf[i]) :
          SaveInventory(UNION {ReserveStock(j, StockFrom(History(j, Fetched)), o, n) : n \in Quantities \ {0}})
    BY <1>6 DEF ReserveByProduct
  <2>2. j \in Inventories /\ \E e \in ToSet(Fetched) : e.inv = j
    BY DEF FindByProductId
  <2>3. StockFrom(History(j, Fetched)) = Stock(j)
    BY LookupsAreWhole DEF LookupIsWhole, Stock
  <2>4. Exists(j)
    <3>1. PICK d \in 0 .. Len(stockLog) :
            /\ Fetched \in Seq(StockEvents) /\ Len(Fetched) = Len(stockLog) - d
            /\ \A k \in 1 .. Len(Fetched) : stockLog[d + k] = Fetched[k]
      BY FetchedFacts DEF StockInv
    <3>2. DOMAIN Fetched = 1 .. Len(Fetched)
      BY <3>1
    <3>3. PICK k \in 1 .. Len(Fetched) : Fetched[k].inv = j
      BY <2>2, <3>2 DEF ToSet
    <3>4. stockLog \in Seq(StockEvents)
      BY DEF StockInv
    <3>5. d + k \in 1 .. Len(stockLog)
      BY <3>1, <3>4
    <3> QED BY <3>1, <3>3, <3>5 DEF StockInv
  <2> QED BY <1>3, <2>1, <2>2, <2>3, <2>4
<1>7. ASSUME NEW o \in StockOrders, ReleaseByOrder(o)
      PROVE  \E i \in Inventories, e \in StockEvents : Raised(i, e) /\ Saves(e)
  <2>1. PICK i \in Inventories : ReleaseStock(i, o)
    BY <1>7 DEF ReleaseByOrder
  <2> QED BY <1>4, <2>1
<1> QED BY <1>1, <1>2, <1>4, <1>5, <1>6, <1>7 DEF StockCommand

LEMMA SavedHistory ==
  ASSUME StockInv, NEW e \in StockEvents, Saves(e), NEW i \in Inventories
  PROVE  /\ History(i, stockLog') = Keeping(i, History(i, stockLog), e)
         /\ Stock(i)' = IF e.inv = i THEN StockApply(Stock(i), e) ELSE Stock(i)
         /\ Come(i)' = IF e.inv = i THEN Coming(Come(i), e) ELSE Come(i)
         /\ History(i, stockLog) \in Seq(StockEvents) /\ History(i, stockLog') \in Seq(StockEvents)
         /\ e.inv = i => History(i, stockLog') = Append(History(i, stockLog), e) /\ Exists(i)'
         /\ e.inv # i => History(i, stockLog') = History(i, stockLog)
<1>1. stockLog' = Append(stockLog, e) /\ stockLog \in Seq(StockEvents) /\ History(i, stockLog) \in Seq(StockEvents)
  BY DEF Saves, StockInv
<1>2. History(i, stockLog') = Keeping(i, History(i, stockLog), e)
  BY <1>1, HistoryAppend
<1>3. CASE e.inv = i
  <2>1. History(i, stockLog') = Append(History(i, stockLog), e)
    BY <1>2, <1>3 DEF Keeping
  <2>2. /\ StockFrom(History(i, stockLog')) = StockApply(Stock(i), e)
        /\ FoldLeft(Coming, 0, History(i, stockLog')) = Coming(Come(i), e)
    BY <1>1, <2>1, StockAppend DEF Stock, Come
  <2>3. Append(History(i, stockLog), e) # <<>> /\ Append(History(i, stockLog), e) \in Seq(StockEvents)
    BY <1>1
  <2> QED BY <1>1, <1>2, <1>3, <2>1, <2>2, <2>3 DEF Stock, Come, Exists
<1>4. CASE e.inv # i
  <2>1. History(i, stockLog') = History(i, stockLog)
    BY <1>2, <1>4 DEF Keeping
  <2> QED BY <1>1, <1>2, <1>4, <2>1 DEF Stock, Come
<1> QED BY <1>3, <1>4

LEMMA SavesKeeps == ASSUME StockInv, NEW i \in Inventories, NEW e \in StockEvents, Raised(i, e), Saves(e)
                    PROVE  StockInv'
<1> DEFINE n == Len(stockLog)
<1>1. /\ e.inv = i /\ stockLog \in Seq(StockEvents) /\ stockLog' = Append(stockLog, e) /\ n \in Nat
      /\ stockLog' \in Seq(StockEvents) /\ Len(stockLog') = n + 1 /\ stockLog'[n + 1] = e
      /\ \A k \in 1 .. n : stockLog'[k] = stockLog[k]
  BY DEF Raised, Saves, StockInv
<1>2. ASSUME NEW j \in Inventories
      PROVE  History(j, stockLog') \in Seq(StockEvents) /\ Balanced(Stock(j)', Come(j)')
  <2>1. Balanced(Stock(j), Come(j))
    BY DEF StockInv
  <2>2. CASE j = i
    <3>1. ~Exists(i) => Stock(i) = NewInventory /\ Come(i) = 0
      BY StocksAreBalanced
    <3>2. Balanced(StockApply(Stock(i), e), Coming(Come(i), e))
      BY <2>1, <2>2, <3>1, BalancedStep DEF Raised
    <3> QED BY <1>1, <2>2, <3>2, SavedHistory
  <2>3. CASE j # i
    BY <1>1, <2>1, <2>3, SavedHistory
  <2> QED BY <2>2, <2>3
<1>3. \A k \in 1 .. n + 1 : k \in 1 .. n \/ k = n + 1
  BY <1>1
<1>4. \A k \in 1 .. n : stockLog[k].inv \in Inventories /\ Exists(stockLog[k].inv)
  <2>1. \A k \in 1 .. n : stockLog[k] \in StockEvents
    BY <1>1
  <2>2. \A k \in 1 .. n : stockLog[k].inv \in Inventories
    BY <2>1 DEF StockEvents
  <2> QED BY <2>2 DEF StockInv
<1>5. \A k \in 1 .. n + 1 : History(stockLog'[k].inv, stockLog') # <<>>
  <2>1. ASSUME NEW k \in 1 .. n PROVE History(stockLog[k].inv, stockLog') # <<>>
    <3> DEFINE j == stockLog[k].inv
    <3>1. j \in Inventories /\ Exists(j)
      BY <1>4
    <3> HIDE DEF j
    <3>2. History(j, stockLog') # <<>>
      <4>1. j = e.inv \/ History(j, stockLog') = History(j, stockLog)
        BY <3>1, SavedHistory
      <4>2. j = e.inv => History(j, stockLog') # <<>>
        BY <3>1, SavedHistory DEF Exists
      <4> QED BY <3>1, <4>1, <4>2 DEF Exists
    <3> QED BY <3>2 DEF j
  <2>2. History(e.inv, stockLog') # <<>>
    BY <1>1, SavedHistory DEF Exists
  <2> QED BY <1>1, <1>3, <2>1, <2>2
<1>6. ASSUME NEW k \in 1 .. n + 1, stockLog'[k].type = "CREATED", NEW p \in 1 .. k - 1
      PROVE  stockLog'[p].inv # stockLog'[k].inv
  <2>1. p \in 1 .. n
    BY <1>1
  <2>2. CASE k \in 1 .. n
    <3>1. stockLog[k].type = "CREATED" /\ CreatedFirst
      BY <1>1, <1>6, <2>2 DEF StockInv
    <3>2. stockLog[p].inv # stockLog[k].inv
      BY <2>2, <3>1 DEF CreatedFirst
    <3> QED BY <1>1, <2>1, <2>2, <3>2
  <2>3. CASE k = n + 1
    <3>1. ~Exists(i)
      BY <1>1, <1>6, <2>3 DEF Raised, Fits
    <3> QED BY <1>1, <1>4, <2>1, <2>3, <3>1
  <2> QED BY <1>3, <2>2, <2>3
<1> HIDE DEF n
<1>7. CreatedFirst'
  BY <1>1, <1>6 DEF CreatedFirst
<1> QED BY <1>1, <1>2, <1>5, <1>7 DEF StockInv, Exists

(* What the logs add up to says that nothing is sold twice.                *)
LEMMA StockIsBalanced == StockInv => StockIsNeverOversold
<1> SUFFICES ASSUME StockInv PROVE StockIsNeverOversold
  OBVIOUS
<1>1. LookupIsWhole
  BY LookupsAreWhole
<1>2. ASSUME NEW i \in Inventories PROVE Balanced(Stock(i), Come(i))
  BY DEF StockInv
<1> QED BY <1>1, <1>2 DEF StockIsNeverOversold, Balanced, Come, SumOver, With

LEMMA InitStock == StockInit => StockInv /\ ProjectionInv
<1> SUFFICES ASSUME StockInit PROVE StockInv /\ ProjectionInv
  OBVIOUS
<1>1. /\ stockLog = <<>> /\ projecting = {} /\ lost = 0
      /\ stockRow = [i \in Inventories |-> [kept |-> FALSE]]
      /\ listed = [i \in Inventories |-> [o \in StockOrders |-> "NONE"]]
  BY DEF StockInit
<1>2. \A i \in Inventories : History(i, stockLog) = <<>>
  BY <1>1, HistoryEmpty
<1>3. \A i \in Inventories : Stock(i) = NewInventory /\ Come(i) = 0 /\ ~Exists(i)
  BY <1>2, StockStart DEF Stock, Come, Exists
<1>4. stockLog \in Seq(StockEvents) /\ Len(stockLog) = 0 /\ <<>> \in Seq(StockEvents)
  BY <1>1
<1>5. 1 .. Len(stockLog) = {}
  BY <1>4
<1>6. StockInv
  BY <1>2, <1>3, <1>4, <1>5, NewIsBalanced DEF StockInv, CreatedFirst
<1>7. \A i \in Inventories : ~stockRow[i].kept /\ Unlisted(i)
  BY <1>1 DEF Unlisted
<1>8. ProjectionIsOrdered
  BY <1>1, <1>3, <1>7 DEF ProjectionIsOrdered, RowIsSettled
<1> QED BY <1>1, <1>6, <1>8 DEF ProjectionInv

(* What is said of an inventory holds on when the step is about another.   *)
SameLog == UNCHANGED <<stockLog, lost, overlapped>>

LEMMA LogKept ==
  ASSUME SameLog
  PROVE  /\ \A i : Stock(i)' = Stock(i) /\ Exists(i)' = Exists(i)
         /\ \A i : History(i, stockLog') = History(i, stockLog)
         /\ \A job : EventOf(job)' = EventOf(job)
         /\ InOrder' = InOrder /\ (StockInv => StockInv')
BY DEF SameLog, Stock, Exists, EventOf, InOrder, StockInv, Balanced, Come, CreatedFirst

RowOnly(i) ==
  /\ DOMAIN stockRow' = DOMAIN stockRow /\ DOMAIN listed' = DOMAIN listed
  /\ \A j \in Inventories : DOMAIN listed'[j] = DOMAIN listed[j]
  /\ \A j \in Inventories \ {i} : stockRow'[j] = stockRow[j] /\ listed'[j] = listed[j]
  /\ stockRow[i].kept => stockRow'[i].kept

LEMMA FollowsKept ==
  ASSUME NEW i \in Inventories, RowOnly(i), NEW j \in Inventories \ {i}, NEW s
  PROVE  /\ RowHas(j, s)' = RowHas(j, s) /\ ListHas(j, s)' = ListHas(j, s) /\ Unlisted(j)' = Unlisted(j)
         /\ Follows(j, s) => Follows(j, s)'
<1>1. RowHas(j, s)' = RowHas(j, s) /\ ListHas(j, s)' = ListHas(j, s) /\ Unlisted(j)' = Unlisted(j)
  BY DEF RowOnly, RowHas, ListHas, Unlisted
<1>2. Overshadowed(j) => Overshadowed(j)'
  BY DEF RowOnly, Overshadowed
<1>3. stockRow'[j] = stockRow[j]
  BY DEF RowOnly
<1> QED BY <1>1, <1>2, <1>3 DEF Follows
LEMMA HandlesKept ==
  ASSUME NEW i \in Inventories, RowOnly(i), NEW job, job.inv \in Inventories \ {i},
         EventOf(job)' = EventOf(job), Stock(job.inv)' = Stock(job.inv),
         NEW p \in StockStates, NEW e \in StockEvents, Handles(job, p, e)
  PROVE  Handles(job, p, e)'
<1> DEFINE j == job.inv
<1>1. /\ EventOf(job)' = e /\ e.type # "RESERVATION_FAILED" /\ Fits(p, p = NewInventory, e)
      /\ Stock(j)' = StockApply(p, e)
  BY DEF Handles
<1>2. /\ RowHas(j, p)' = RowHas(j, p) /\ ListHas(j, p)' = ListHas(j, p) /\ Unlisted(j)' = Unlisted(j)
      /\ RowHas(j, Stock(j))' <=> RowHas(j, Stock(j))
      /\ Follows(j, p) => Follows(j, p)'
  <2>1. RowHas(j, p)' = RowHas(j, p) /\ ListHas(j, p)' = ListHas(j, p) /\ Unlisted(j)' = Unlisted(j)
        /\ (Follows(j, p) => Follows(j, p)')
    BY FollowsKept
  <2>2. stockRow'[j] = stockRow[j]
    BY DEF RowOnly
  <2>3. RowHas(j, Stock(j))' <=> RowHas(j, Stock(j))
    BY <2>2 DEF RowHas
  <2> QED BY <2>1, <2>3
<1>3. stockRow'[j] = stockRow[j]
  BY DEF RowOnly
<1>4. InProgress(job, p, e)
  BY DEF Handles
<1>5. InProgress(job, p, e)'
  <2>1. \/ e.type = "CREATED" /\ job.doing = "begun" /\ ~stockRow[j].kept /\ Unlisted(j)
        \/ e.type # "CREATED" /\ job.doing = "begun" /\ Follows(j, p)
        \/ e.type # "CREATED" /\ job.doing = "read" /\ job.read = stockRow[j] /\ RowHas(j, p) /\ ListHas(j, p)
        \/ /\ e.type \in {"RESERVED", "CONFIRMED", "RELEASED"} /\ job.doing = "upserted"
           /\ RowHas(j, Stock(j)) /\ ListHas(j, p)
    BY <1>4 DEF InProgress
  <2> HIDE DEF j
  <2>2. \/ e.type = "CREATED" /\ job.doing = "begun" /\ ~stockRow'[j].kept /\ Unlisted(j)'
        \/ e.type # "CREATED" /\ job.doing = "begun" /\ Follows(j, p)'
        \/ e.type # "CREATED" /\ job.doing = "read" /\ job.read = stockRow'[j] /\ RowHas(j, p)' /\ ListHas(j, p)'
        \/ /\ e.type \in {"RESERVED", "CONFIRMED", "RELEASED"} /\ job.doing = "upserted"
           /\ RowHas(j, Stock(j))' /\ ListHas(j, p)'
    BY <1>2, <1>3, <2>1
  <2> QED BY <2>2 DEF InProgress, j
<1> QED BY <1>1, <1>5 DEF Handles

LEMMA SavesProjects ==
  ASSUME StockInv, ProjectionInv, NEW i \in Inventories, NEW e \in StockEvents, Raised(i, e), Saves(e)
  PROVE  ProjectionInv'
<1>1. /\ e.inv = i /\ stockRow' = stockRow /\ listed' = listed /\ lost \in Nat /\ lost' \in Nat
      /\ Fits(Stock(i), ~Exists(i), e) /\ (Exists(i) \/ e.type = "CREATED")
  BY DEF Raised, Saves, ProjectionInv
<1>2. SUFFICES ASSUME InOrder' PROVE ProjectionIsOrdered'
  BY <1>1 DEF ProjectionInv
<1>3. /\ InOrder /\ \A other \in projecting : other.inv # i
      /\ projecting' = IF e.type = "RESERVATION_FAILED" THEN projecting ELSE projecting \union {JobOf(e)}
  <2>1. CASE /\ projecting' = IF e.type = "RESERVATION_FAILED" THEN projecting ELSE projecting \union {JobOf(e)}
             /\ overlapped' = (overlapped \/ \E other \in projecting : other.inv = e.inv)
             /\ UNCHANGED lost
    BY <1>1, <1>2, <2>1 DEF InOrder
  <2>2. CASE lost' = lost + 1
    BY <1>1, <1>2, <2>2 DEF InOrder
  <2> QED BY <2>1, <2>2 DEF Saves
<1>4. ProjectionIsOrdered
  BY <1>3 DEF ProjectionInv
<1>5. RowOnly(i)
  BY <1>1 DEF RowOnly
<1>6. \A j \in Inventories : Exists(j) => Exists(j)'
  <2> SUFFICES ASSUME NEW j \in Inventories, Exists(j) PROVE Exists(j)'
    OBVIOUS
  <2>1. j = i => Exists(j)'
    BY <1>1, SavedHistory
  <2>2. j # i => History(j, stockLog') = History(j, stockLog)
    BY <1>1, SavedHistory
  <2> QED BY <2>1, <2>2 DEF Exists
<1>7. \A j \in Inventories \ {i} : /\ Stock(j)' = Stock(j) /\ (Exists(j)' <=> Exists(j))
                                   /\ History(j, stockLog') = History(j, stockLog)
  <2> SUFFICES ASSUME NEW j \in Inventories \ {i}
               PROVE  /\ Stock(j)' = Stock(j) /\ (Exists(j)' <=> Exists(j))
                      /\ History(j, stockLog') = History(j, stockLog)
    OBVIOUS
  <2>1. e.inv # j
    BY <1>1
  <2>2. History(j, stockLog') = History(j, stockLog) /\ Stock(j)' = Stock(j)
    BY <2>1, SavedHistory
  <2> QED BY <2>2 DEF Exists
<1>8. ASSUME NEW job \in projecting PROVE InHand(job)'
  <2> DEFINE j == job.inv
  <2>1. /\ j \in Inventories \ {i} /\ Exists(j) /\ job.at = Len(History(j, stockLog))
        /\ job = [inv |-> job.inv, at |-> job.at, doing |-> job.doing, read |-> job.read]
    BY <1>3, <1>4 DEF ProjectionIsOrdered, InHand
  <2>2. PICK p \in StockStates, f \in StockEvents : Handles(job, p, f)
    BY <1>4 DEF ProjectionIsOrdered, InHand
  <2>3. /\ Stock(j)' = Stock(j) /\ (Exists(j)' <=> Exists(j))
        /\ History(j, stockLog') = History(j, stockLog)
    BY <1>7, <2>1
  <2>4. EventOf(job)' = EventOf(job)
    BY <2>3 DEF EventOf
  <2>5. Handles(job, p, f)'
    BY <1>5, <2>1, <2>2, <2>3, <2>4, HandlesKept
  <2> QED BY <2>1, <2>3, <2>5 DEF InHand
<1>9. /\ Stock(i)' = StockApply(Stock(i), e) /\ Exists(i)' /\ Stock(i) \in StockStates
      /\ History(i, stockLog) \in Seq(StockEvents)
      /\ History(i, stockLog') = Append(History(i, stockLog), e)
      /\ ~Exists(i) => Stock(i) = NewInventory
  BY <1>1, SavedHistory, StocksAreBalanced
<1>10. RowIsSettled(i)
  BY <1>3, <1>4 DEF ProjectionIsOrdered
<1>f. \A s : Follows(i, s) => Follows(i, s)'
  BY <1>1 DEF Follows, RowHas, ListHas, Unlisted, Overshadowed
<1>p. PICK p \in StockStates : p = Stock(i)
  BY <1>9
<1>j. PICK job : job = JobOf(e)
  OBVIOUS
<1>11. job.inv = i /\ (e.type # "RESERVATION_FAILED" => InHand(job)')
  <2> DEFINE n == Len(History(i, stockLog))
  <2>1. job = [inv |-> i, at |-> n + 1, doing |-> "begun", read |-> [kept |-> FALSE]]
    BY <1>1, <1>j DEF JobOf
  <2>2. job.inv = i /\ job.at = n + 1 /\ job.doing = "begun"
        /\ job = [inv |-> job.inv, at |-> job.at, doing |-> job.doing, read |-> job.read]
    BY <2>1
  <2>3. n \in Nat /\ Len(History(i, stockLog')) = n + 1 /\ History(i, stockLog')[n + 1] = e
    BY <1>9
  <2> HIDE DEF n
  <2>4. EventOf(job)' = e
    BY <2>2, <2>3 DEF EventOf
  <2>5. Fits(p, p = NewInventory, e)
    BY <1>1, <1>9, <1>p DEF Fits
  <2>6. InProgress(job, p, e)'
    <3>1. CASE Exists(i)
      <4>1. Follows(i, p)'
        BY <1>10, <1>f, <1>p, <3>1 DEF RowIsSettled
      <4>2. e.type # "CREATED"
        BY <1>1, <3>1 DEF Fits
      <4> QED BY <2>2, <4>1, <4>2 DEF InProgress
    <3>2. CASE ~Exists(i)
      <4>1. ~stockRow[i].kept /\ Unlisted(i)
        BY <1>10, <3>2 DEF RowIsSettled
      <4>2. ~stockRow'[i].kept /\ Unlisted(i)'
        BY <1>1, <4>1 DEF Unlisted
      <4> QED BY <1>1, <2>2, <3>2, <4>2 DEF InProgress
    <3> QED BY <3>1, <3>2
  <2>7. e.type # "RESERVATION_FAILED" => Handles(job, p, e)'
    BY <1>9, <1>p, <2>2, <2>4, <2>5, <2>6 DEF Handles
  <2>8. e \in StockEvents /\ p \in StockStates
    OBVIOUS
  <2> QED BY <1>9, <2>2, <2>3, <2>7, <2>8 DEF InHand
<1>12. \A j \in Inventories : (\A other \in projecting' : other.inv # j) => RowIsSettled(j)'
  <2> SUFFICES ASSUME NEW j \in Inventories, \A other \in projecting' : other.inv # j
               PROVE  RowIsSettled(j)'
    OBVIOUS
  <2>1. CASE j = i
    <3>1. e.type = "RESERVATION_FAILED"
      BY <1>3, <1>11, <1>j, <2>1
    <3>2. Exists(i) /\ Stock(i)' = Stock(i)
      BY <1>1, <1>9, <3>1, StockApplied
    <3>3. Follows(i, p)'
      BY <1>10, <1>f, <1>p, <3>2 DEF RowIsSettled
    <3>4. Exists(i)' /\ p = Stock(i)'
      BY <1>9, <1>p, <3>2
    <3> QED BY <2>1, <3>3, <3>4 DEF RowIsSettled, Follows, RowHas, ListHas
  <2>2. CASE j # i
    <3>1. \A other \in projecting : other.inv # j
      BY <1>3
    <3>2. RowIsSettled(j)
      BY <1>4, <3>1 DEF ProjectionIsOrdered
    <3>3. Stock(j)' = Stock(j) /\ (Exists(j)' <=> Exists(j))
      BY <1>7, <2>2
    <3> QED BY <1>1, <3>2, <3>3 DEF RowIsSettled, Follows, RowHas, ListHas, Unlisted, Overshadowed
  <2> QED BY <2>1, <2>2
<1>13. \A one, other \in projecting' : one.inv = other.inv => one = other
  BY <1>3, <1>4, <1>11, <1>j DEF ProjectionIsOrdered
<1>14. \A one \in projecting' : InHand(one)'
  BY <1>3, <1>8, <1>11, <1>j
<1>15. \A j \in Inventories : stockRow'[j].kept => Exists(j)'
  BY <1>1, <1>4, <1>6 DEF ProjectionIsOrdered
<1> QED BY <1>12, <1>13, <1>14, <1>15 DEF ProjectionIsOrdered

(* A handler's step: it is done with its inventory, or goes on.            *)
Advances(job, p, e) ==
  LET i == job.inv
  IN \/ projecting' = projecting \ {job} /\ Follows(i, Stock(i))'
     \/ \E next \in {[inv |-> i, at |-> job.at, doing |-> d, read |-> r] :
                       d \in {"read", "upserted"}, r \in {[kept |-> FALSE], stockRow[i]}} :
          projecting' = (projecting \ {job}) \union {next} /\ InProgress(next, p, e)'

LEMMA StepsProject ==
  ASSUME ProjectionInv, InOrder, SameLog, NEW job \in projecting, RowOnly(job.inv),
         NEW p \in StockStates, NEW e \in StockEvents, Handles(job, p, e), Advances(job, p, e)
  PROVE  ProjectionInv'
<1> DEFINE i == job.inv
<1>1. ProjectionIsOrdered
  BY DEF ProjectionInv
<1>2. /\ \A j : Stock(j)' = Stock(j) /\ Exists(j)' = Exists(j)
      /\ \A j : History(j, stockLog') = History(j, stockLog)
      /\ \A other : EventOf(other)' = EventOf(other)
  BY LogKept
<1>3. /\ i \in Inventories /\ Exists(i) /\ job.at = Len(History(i, stockLog))
      /\ \A other \in projecting : InHand(other) /\ (other # job => other.inv # i)
      /\ \A j \in Inventories : stockRow[j].kept => Exists(j)
  BY <1>1 DEF ProjectionIsOrdered, InHand
<1>4. ASSUME NEW other \in projecting \ {job} PROVE InHand(other)'
  <2>1. other.inv \in Inventories \ {i} /\ InHand(other)
    BY <1>3 DEF InHand
  <2>2. PICK q \in StockStates, f \in StockEvents : Handles(other, q, f)
    BY <2>1 DEF InHand
  <2>3. EventOf(other)' = EventOf(other) /\ Stock(other.inv)' = Stock(other.inv)
    BY <1>2
  <2>4. Handles(other, q, f)'
    BY <1>3, <2>1, <2>2, <2>3, HandlesKept
  <2> QED BY <1>2, <2>1, <2>4 DEF InHand
<1>5. ASSUME NEW j \in Inventories \ {i}, \A other \in projecting \ {job} : other.inv # j
      PROVE  RowIsSettled(j)'
  <2>1. RowIsSettled(j)
    BY <1>1, <1>5 DEF ProjectionIsOrdered
  <2>2. PICK s : s = Stock(j)
    OBVIOUS
  <2>3. s = Stock(j)' /\ Exists(j)' = Exists(j)
    BY <1>2, <2>2
  <2>4. /\ stockRow'[j] = stockRow[j] /\ Unlisted(j)' = Unlisted(j) /\ (Follows(j, s) => Follows(j, s)')
    BY <1>3, FollowsKept DEF RowOnly
  <2>5. Follows(j, s)' <=> Follows(j, Stock(j))'
    BY <2>3 DEF Follows, RowHas, ListHas
  <2> QED BY <2>1, <2>2, <2>3, <2>4, <2>5 DEF RowIsSettled
<1>6. \A j \in Inventories : stockRow'[j].kept => Exists(j)'
  <2> SUFFICES ASSUME NEW j \in Inventories, stockRow'[j].kept PROVE Exists(j)'
    OBVIOUS
  <2>1. j # i => stockRow'[j] = stockRow[j]
    BY <1>3 DEF RowOnly
  <2> QED BY <1>2, <1>3, <2>1
<1>7. ProjectionIsOrdered'
  <2>1. CASE projecting' = projecting \ {job} /\ Follows(i, Stock(i))'
    <3>1. RowIsSettled(i)'
      BY <1>2, <1>3, <2>1 DEF RowIsSettled
    <3> QED BY <1>1, <1>4, <1>5, <1>6, <2>1, <3>1 DEF ProjectionIsOrdered
  <2>2. ASSUME NEW next, NEW d, NEW r, next = [inv |-> i, at |-> job.at, doing |-> d, read |-> r],
               projecting' = (projecting \ {job}) \union {next}, InProgress(next, p, e)'
        PROVE  ProjectionIsOrdered'
    <3>1. /\ next.inv = i /\ next.at = job.at
          /\ next = [inv |-> next.inv, at |-> next.at, doing |-> next.doing, read |-> next.read]
      BY <2>2
    <3>2. EventOf(next)' = EventOf(job)
      BY <1>2, <3>1 DEF EventOf
    <3>3. Handles(next, p, e)'
      BY <1>2, <2>2, <3>1, <3>2 DEF Handles
    <3>4. InHand(next)'
      BY <1>2, <1>3, <3>1, <3>3 DEF InHand
    <3>5. \A j \in Inventories : (\A other \in projecting' : other.inv # j) => RowIsSettled(j)'
      BY <1>5, <2>2, <3>1
    <3>6. \A one, other \in projecting' : one.inv = other.inv => one = other
      BY <1>1, <1>3, <2>2, <3>1 DEF ProjectionIsOrdered
    <3>7. \A one \in projecting' : InHand(one)'
      BY <1>4, <2>2, <3>4
    <3> QED BY <1>6, <3>5, <3>6, <3>7 DEF ProjectionIsOrdered
  <2> QED BY <2>1, <2>2 DEF Advances
<1> QED BY <1>3, <1>7 DEF ProjectionInv, RowOnly, SameLog
LEMMA JobShapes ==
  ASSUME NEW job, ProjectionInv,
         ProjectCreated(job) \/ FindRow(job) \/ UpsertRow(job) \/ ListReservation(job)
  PROVE  /\ DOMAIN stockRow' = DOMAIN stockRow /\ DOMAIN listed' = DOMAIN listed
         /\ \A j \in Inventories : DOMAIN listed'[j] = DOMAIN listed[j]
         /\ \A j \in Inventories \ {job.inv} : stockRow'[j] = stockRow[j] /\ listed'[j] = listed[j]
<1>0. DOMAIN stockRow = Inventories /\ DOMAIN listed = Inventories
  BY DEF ProjectionInv
<1>1. CASE ProjectCreated(job)
  BY <1>0, <1>1 DEF ProjectCreated
<1>2. CASE FindRow(job)
  BY <1>2 DEF FindRow
<1>3. CASE UpsertRow(job)
  BY <1>0, <1>3 DEF UpsertRow
<1>4. CASE ListReservation(job)
  <2>1. PICK o, status : listed' = [listed EXCEPT ![job.inv][o] = status]
    BY <1>4 DEF ListReservation
  <2> QED BY <1>0, <1>4, <2>1 DEF ListReservation
<1> QED BY <1>1, <1>2, <1>3, <1>4

InHands(job, p, e) ==
  /\ ProjectionInv /\ InOrder /\ SameLog /\ job \in projecting
  /\ p \in StockStates /\ e \in StockEvents /\ Handles(job, p, e)

LEMMA InHandsFacts ==
  ASSUME NEW job, NEW p, NEW e, InHands(job, p, e)
  PROVE  /\ job.inv \in Inventories /\ DOMAIN stockRow = Inventories
         /\ DOMAIN listed = Inventories /\ DOMAIN listed[job.inv] = StockOrders
         /\ job = [inv |-> job.inv, at |-> job.at, doing |-> job.doing, read |-> job.read]
         /\ EventOf(job) = e /\ Fits(p, p = NewInventory, e) /\ e.type # "RESERVATION_FAILED"
         /\ e.type \in StockEventTypes /\ e.quantity \in Nat /\ e.total \in Nat
         /\ p.total \in Nat /\ p.reserved \in Nat /\ p.resv \in Reservations
         /\ Stock(job.inv)' = Stock(job.inv) /\ Stock(job.inv) = StockApply(p, e)
         /\ InProgress(job, p, e)
<1>1. InHand(job)
  BY DEF InHands, ProjectionInv, ProjectionIsOrdered
<1>2. job.inv \in Inventories
      /\ job = [inv |-> job.inv, at |-> job.at, doing |-> job.doing, read |-> job.read]
  BY <1>1 DEF InHand
<1>3. e \in StockEvents /\ p \in StockStates /\ SameLog
  BY DEF InHands
<1>4. e.type \in StockEventTypes /\ e.quantity \in Nat /\ e.total \in Nat
      /\ p.total \in Nat /\ p.reserved \in Nat /\ p.resv \in Reservations
  BY <1>3 DEF StockEvents, StockStates, Reservations
<1>5. Stock(job.inv)' = Stock(job.inv)
  BY <1>3, LogKept
<1> QED BY <1>2, <1>4, <1>5 DEF InHands, Handles, ProjectionInv

LEMMA JobGoesOn ==
  ASSUME NEW job, NEW p, NEW e, InHands(job, p, e), NEW d, NEW r
  PROVE  [job EXCEPT !.doing = d, !.read = r] = [inv |-> job.inv, at |-> job.at, doing |-> d, read |-> r]
<1> DEFINE u == [job EXCEPT !.doing = d]
<1>1. job = [inv |-> job.inv, at |-> job.at, doing |-> job.doing, read |-> job.read]
  BY InHandsFacts
<1>2. u = [inv |-> job.inv, at |-> job.at, doing |-> d, read |-> job.read]
  BY <1>1
<1>3. [job EXCEPT !.doing = d, !.read = r] = [u EXCEPT !.read = r]
  OBVIOUS
<1> HIDE DEF u
<1> QED BY <1>2, <1>3

LEMMA ProjectCreatedAdvances ==
  ASSUME NEW job, NEW p, NEW e, InHands(job, p, e), ProjectCreated(job)
  PROVE  RowOnly(job.inv) /\ Advances(job, p, e)
<1> DEFINE i == job.inv
<1>1. /\ i \in Inventories /\ DOMAIN stockRow = Inventories /\ EventOf(job) = e /\ InProgress(job, p, e)
      /\ Fits(p, p = NewInventory, e) /\ p \in StockStates
      /\ Stock(i)' = StockApply(p, e)
  BY InHandsFacts DEF InHands
<1>2. /\ e.type = "CREATED" /\ projecting' = projecting \ {job} /\ listed' = listed
      /\ \/ Overshadowed(i) /\ stockRow' = stockRow
         \/ stockRow' = [stockRow EXCEPT ![i] = [kept |-> TRUE, total |-> e.total, reserved |-> 0]]
  BY <1>1 DEF ProjectCreated, Handled, Overshadowed
<1>3. ~stockRow[i].kept /\ Unlisted(i) /\ p = NewInventory
  BY <1>1, <1>2 DEF InProgress, Fits
<1>4. Stock(i)' = [total |-> e.total, reserved |-> 0, resv |-> NewInventory.resv]
  BY <1>1, <1>2, <1>3, StockApplied
<1>5. RowOnly(i)
  <2>1. stockRow[i].kept => stockRow'[i].kept
    BY <1>3
  <2> QED BY <2>1, JobShapes DEF RowOnly, InHands
<1>6. Follows(i, Stock(i))'
  <2>1. CASE Overshadowed(i) /\ stockRow' = stockRow
    BY <1>2, <1>3, <2>1 DEF Follows, Unlisted, Overshadowed
  <2>2. CASE stockRow' = [stockRow EXCEPT ![i] = [kept |-> TRUE, total |-> e.total, reserved |-> 0]]
    <3>1. RowHas(i, Stock(i))'
      BY <1>1, <1>4, <2>2 DEF RowHas
    <3>2. ListHas(i, Stock(i))'
      BY <1>2, <1>3, <1>4 DEF ListHas, Unlisted, NewInventory
    <3> QED BY <3>1, <3>2 DEF Follows
  <2> QED BY <1>2, <2>1, <2>2
<1> QED BY <1>2, <1>5, <1>6 DEF Advances

LEMMA FindRowAdvances ==
  ASSUME NEW job, NEW p, NEW e, InHands(job, p, e), FindRow(job)
  PROVE  RowOnly(job.inv) /\ Advances(job, p, e)
<1> DEFINE i == job.inv
<1>1. EventOf(job) = e /\ InProgress(job, p, e) /\ Stock(i)' = Stock(i)
  BY InHandsFacts
<1>2. /\ e.type # "CREATED" /\ job.doing = "begun" /\ stockRow' = stockRow /\ listed' = listed
      /\ IF ~stockRow[i].kept THEN projecting' = projecting \ {job}
         ELSE projecting' = (projecting \ {job})
                            \union {[inv |-> i, at |-> job.at, doing |-> "read", read |-> stockRow[i]]}
  <2>1. [job EXCEPT !.doing = "read", !.read = stockRow[i]]
          = [inv |-> i, at |-> job.at, doing |-> "read", read |-> stockRow[i]]
    BY JobGoesOn
  <2> QED BY <1>1, <2>1 DEF FindRow, Handled, Proceed
<1>3. Follows(i, p)
  BY <1>1, <1>2 DEF InProgress
<1>4. RowOnly(i)
  BY <1>2 DEF RowOnly
<1>5. CASE ~stockRow[i].kept
  <2>1. ~RowHas(i, p)
    BY <1>5 DEF RowHas
  <2>2. Follows(i, Stock(i))'
    BY <1>2, <1>3, <1>5, <2>1 DEF Follows, Unlisted, Overshadowed
  <2> QED BY <1>2, <1>4, <1>5, <2>2 DEF Advances
<1>6. CASE stockRow[i].kept
  <2>1. RowHas(i, p) /\ ListHas(i, p)
    BY <1>3, <1>6 DEF Follows
  <2>2. PICK next : next = [inv |-> i, at |-> job.at, doing |-> "read", read |-> stockRow[i]]
    OBVIOUS
  <2>3. next.inv = i /\ next.doing = "read" /\ next.read = stockRow'[i] /\ RowHas(i, p)' /\ ListHas(i, p)'
    BY <1>2, <2>1, <2>2 DEF RowHas, ListHas
  <2>4. InProgress(next, p, e)'
    BY <1>2, <2>3 DEF InProgress
  <2>5. projecting' = (projecting \ {job}) \union {next}
    BY <1>2, <1>6, <2>2
  <2> QED BY <1>4, <2>2, <2>4, <2>5 DEF Advances
<1> QED BY <1>5, <1>6

LEMMA UpsertRowAdvances ==
  ASSUME NEW job, NEW p, NEW e, InHands(job, p, e), UpsertRow(job)
  PROVE  RowOnly(job.inv) /\ Advances(job, p, e)
<1> DEFINE i == job.inv
<1>1. /\ i \in Inventories /\ DOMAIN stockRow = Inventories /\ EventOf(job) = e /\ InProgress(job, p, e)
      /\ Fits(p, p = NewInventory, e) /\ p \in StockStates /\ e.type # "RESERVATION_FAILED"
      /\ e.type \in StockEventTypes /\ Stock(i)' = Stock(i) /\ Stock(i) = StockApply(p, e)
  BY InHandsFacts DEF InHands
<1>2. /\ job.doing = "read" /\ stockRow' = [stockRow EXCEPT ![i] = ChangedRow(job)] /\ listed' = listed
      /\ IF e.type = "ADDED" THEN projecting' = projecting \ {job}
         ELSE projecting' = (projecting \ {job})
                            \union {[inv |-> i, at |-> job.at, doing |-> "upserted", read |-> [kept |-> FALSE]]}
  <2>1. [job EXCEPT !.doing = "upserted", !.read = [kept |-> FALSE]]
          = [inv |-> i, at |-> job.at, doing |-> "upserted", read |-> [kept |-> FALSE]]
    BY JobGoesOn
  <2> QED BY <1>1, <2>1 DEF UpsertRow, Handled, Proceed
<1>3. e.type # "CREATED" /\ job.read = stockRow[i] /\ RowHas(i, p) /\ ListHas(i, p)
  BY <1>1, <1>2 DEF InProgress
<1>4. job.read.total = p.total /\ job.read.reserved = p.reserved
  BY <1>3 DEF RowHas
<1>5. e.type \in {"ADDED", "RESERVED", "CONFIRMED", "RELEASED"}
  BY <1>1, <1>3 DEF StockEventTypes
<1>s. p \in StockStates /\ Stock(i) = StockApply(p, e)
  BY <1>1
<1>6. ChangedRow(job) = [kept |-> TRUE, total |-> Stock(i).total, reserved |-> Stock(i).reserved]
  <2> DEFINE s == StockApply(p, e)
             total == IF e.type \in {"ADDED", "CONFIRMED"} THEN e.total ELSE p.total
             reserved == CASE e.type = "RESERVED" -> p.reserved + e.quantity
                           [] e.type = "ADDED" -> p.reserved
                           [] OTHER -> p.reserved - e.quantity
  <2>1. ChangedRow(job) = [kept |-> TRUE, total |-> total, reserved |-> reserved]
    BY <1>1, <1>4 DEF ChangedRow
  <2>2. CASE e.type = "ADDED"
    <3>1. total = e.total /\ reserved = p.reserved
      BY <2>2
    <3> HIDE DEF total, reserved
    <3>2. StockApply(p, e) = [total |-> e.total, reserved |-> p.reserved, resv |-> p.resv]
      BY <1>s, <2>2, StockApplied
    <3> QED BY <1>s, <2>1, <3>1, <3>2
  <2>3. CASE e.type = "RESERVED"
    <3>1. total = p.total /\ reserved = p.reserved + e.quantity
      BY <2>3
    <3> HIDE DEF total, reserved
    <3>2. StockApply(p, e) = [total |-> p.total, reserved |-> p.reserved + e.quantity,
                              resv |-> [p.resv EXCEPT ![e.order] = [status |-> "PENDING", quantity |-> e.quantity]]]
      BY <1>s, <2>3, StockApplied
    <3> QED BY <1>s, <2>1, <3>1, <3>2
  <2>4. CASE e.type = "CONFIRMED"
    <3>1. total = e.total /\ reserved = p.reserved - e.quantity
      BY <2>4
    <3>2. TakesPending(p, e)
      BY <1>1, <2>4 DEF Fits
    <3> HIDE DEF total, reserved
    <3>3. StockApply(p, e) = [total |-> e.total, reserved |-> p.reserved - e.quantity,
                              resv |-> [p.resv EXCEPT ![e.order].status = "CONFIRMED"]]
      BY <1>s, <2>4, <3>2, StockApplied
    <3> QED BY <1>s, <2>1, <3>1, <3>3
  <2>5. CASE e.type = "RELEASED"
    <3>1. total = p.total /\ reserved = p.reserved - e.quantity
      BY <2>5
    <3>2. TakesPending(p, e)
      BY <1>1, <2>5 DEF Fits
    <3> HIDE DEF total, reserved
    <3>3. StockApply(p, e) = [total |-> p.total, reserved |-> p.reserved - e.quantity,
                              resv |-> [p.resv EXCEPT ![e.order].status = "RELEASED"]]
      BY <1>s, <2>5, <3>2, StockApplied
    <3> QED BY <1>s, <2>1, <3>1, <3>3
  <2> QED BY <1>5, <2>2, <2>3, <2>4, <2>5
<1>7. RowHas(i, Stock(i))' /\ ListHas(i, p)' /\ stockRow'[i].kept
  BY <1>1, <1>2, <1>3, <1>6 DEF RowHas, ListHas
<1>8. RowOnly(i)
  BY <1>7, JobShapes DEF RowOnly, InHands
<1>9. CASE e.type = "ADDED"
  <2>1. Stock(i).resv = p.resv
    <3>1. StockApply(p, e) = [total |-> e.total, reserved |-> p.reserved, resv |-> p.resv]
      BY <1>s, <1>9, StockApplied
    <3> QED BY <1>s, <3>1
  <2>2. ListHas(i, Stock(i))'
    BY <1>1, <1>7, <2>1 DEF ListHas
  <2> QED BY <1>2, <1>7, <1>8, <1>9, <2>2 DEF Advances, Follows
<1>10. CASE e.type # "ADDED"
  <2>1. PICK next : next = [inv |-> i, at |-> job.at, doing |-> "upserted", read |-> [kept |-> FALSE]]
    OBVIOUS
  <2>2. next.inv = i /\ next.doing = "upserted"
    BY <2>1
  <2>3. InProgress(next, p, e)'
    <3>1. RowHas(next.inv, Stock(next.inv))' /\ ListHas(next.inv, p)'
      BY <1>7, <2>2
    <3>2. e.type \in {"RESERVED", "CONFIRMED", "RELEASED"}
      BY <1>5, <1>10
    <3> QED BY <2>2, <3>1, <3>2 DEF InProgress
  <2>4. projecting' = (projecting \ {job}) \union {next}
    BY <1>2, <1>10, <2>1
  <2>5. next \in {[inv |-> i, at |-> job.at, doing |-> d, read |-> r] :
                     d \in {"read", "upserted"}, r \in {[kept |-> FALSE], stockRow[i]}}
    BY <2>1
  <2>6. Advances(job, p, e)
    BY <2>3, <2>4, <2>5 DEF Advances
  <2> QED BY <1>8, <2>6
<1> QED BY <1>9, <1>10

LEMMA ListReservationAdvances ==
  ASSUME NEW job, NEW p, NEW e, InHands(job, p, e), ListReservation(job)
  PROVE  RowOnly(job.inv) /\ Advances(job, p, e)
<1> DEFINE i == job.inv
<1>1. /\ i \in Inventories /\ DOMAIN listed = Inventories /\ DOMAIN listed[i] = StockOrders
      /\ EventOf(job) = e /\ InProgress(job, p, e)
      /\ Fits(p, p = NewInventory, e) /\ p \in StockStates
      /\ Stock(i)' = Stock(i) /\ Stock(i) = StockApply(p, e) /\ p.resv \in Reservations
  BY InHandsFacts DEF InHands
<1>2. /\ job.doing = "upserted" /\ projecting' = projecting \ {job} /\ stockRow' = stockRow
      /\ listed' = [listed EXCEPT ![i][e.order] = IF e.type = "RESERVED" THEN "PENDING"
                                                  ELSE IF @ = "NONE" THEN "NONE" ELSE e.type]
  BY <1>1 DEF ListReservation, Handled
<1>3. e.type \in {"RESERVED", "CONFIRMED", "RELEASED"} /\ RowHas(i, Stock(i)) /\ ListHas(i, p)
  BY <1>1, <1>2 DEF InProgress
<1>4. RowHas(i, Stock(i))'
  BY <1>1, <1>2, <1>3 DEF RowHas
<1>5. RowOnly(i)
  BY <1>2, JobShapes DEF RowOnly, InHands
<1>6. /\ e.order \in StockOrders
      /\ p.resv[e.order].status = IF e.type = "RESERVED" THEN "NONE" ELSE "PENDING"
      /\ e.type # "RESERVED" => TakesPending(p, e)
  BY <1>1, <1>3 DEF Fits, IsAbout, TakesPending
<1>7. \A o \in StockOrders : listed'[i][o] =
        IF o = e.order THEN IF e.type = "RESERVED" THEN "PENDING" ELSE e.type ELSE p.resv[o].status
  <2>1. listed[i][e.order] = p.resv[e.order].status
    BY <1>3, <1>6 DEF ListHas
  <2>2. listed'[i][e.order] = IF e.type = "RESERVED" THEN "PENDING"
                              ELSE IF listed[i][e.order] = "NONE" THEN "NONE" ELSE e.type
    BY <1>1, <1>2, <1>6
  <2>3. listed'[i][e.order] = IF e.type = "RESERVED" THEN "PENDING" ELSE e.type
    BY <1>6, <2>1, <2>2
  <2>4. \A o \in StockOrders \ {e.order} : listed'[i][o] = listed[i][o]
    BY <1>1, <1>2
  <2> QED BY <1>3, <2>3, <2>4 DEF ListHas
<1>s. p \in StockStates /\ Stock(i) = StockApply(p, e)
  BY <1>1
<1>8. \A o \in StockOrders : Stock(i).resv[o].status =
        IF o = e.order THEN IF e.type = "RESERVED" THEN "PENDING" ELSE e.type ELSE p.resv[o].status
  <2>1. DOMAIN p.resv = StockOrders /\ p.resv[e.order] \in [status : StockStatuses, quantity : Nat]
    BY <1>1, <1>6, ReservationsFacts DEF Reservations
  <2>2. CASE e.type = "RESERVED"
    <3>1. Stock(i).resv = [p.resv EXCEPT ![e.order] = [status |-> "PENDING", quantity |-> e.quantity]]
      <4>1. StockApply(p, e) = [total |-> p.total, reserved |-> p.reserved + e.quantity,
                              resv |-> [p.resv EXCEPT ![e.order] = [status |-> "PENDING", quantity |-> e.quantity]]]
        BY <1>s, <2>2, StockApplied
      <4> QED BY <1>s, <4>1
    <3> QED BY <1>6, <2>1, <2>2, <3>1
  <2>3. CASE e.type = "CONFIRMED"
    <3>1. Stock(i).resv = [p.resv EXCEPT ![e.order].status = "CONFIRMED"]
      <4>0. TakesPending(p, e)
        BY <1>6, <2>3
      <4>1. StockApply(p, e) = [total |-> e.total, reserved |-> p.reserved - e.quantity,
                              resv |-> [p.resv EXCEPT ![e.order].status = "CONFIRMED"]]
        BY <1>s, <2>3, <4>0, StockApplied
      <4> QED BY <1>s, <4>1
    <3> QED BY <1>6, <2>1, <2>3, <3>1
  <2>4. CASE e.type = "RELEASED"
    <3>1. Stock(i).resv = [p.resv EXCEPT ![e.order].status = "RELEASED"]
      <4>0. TakesPending(p, e)
        BY <1>6, <2>4
      <4>1. StockApply(p, e) = [total |-> p.total, reserved |-> p.reserved - e.quantity,
                              resv |-> [p.resv EXCEPT ![e.order].status = "RELEASED"]]
        BY <1>s, <2>4, <4>0, StockApplied
      <4> QED BY <1>s, <4>1
    <3> QED BY <1>6, <2>1, <2>4, <3>1
  <2> QED BY <1>3, <2>2, <2>3, <2>4
<1>9. ListHas(i, Stock(i))'
  BY <1>1, <1>7, <1>8 DEF ListHas
<1> QED BY <1>2, <1>4, <1>5, <1>9 DEF Advances, Follows

LEMMA ProjectingKeeps == ASSUME StockInv, ProjectionInv, ProjectStock PROVE StockInv' /\ ProjectionInv'
<1>1. SameLog
  BY DEF ProjectStock, SameLog
<1>2. PICK job \in projecting : ProjectCreated(job) \/ FindRow(job) \/ UpsertRow(job) \/ ListReservation(job)
  BY DEF ProjectStock
<1>3. StockInv' /\ InOrder' = InOrder
  BY <1>1, LogKept
<1>4. CASE InOrder
  <2>1. InHand(job)
    BY <1>4 DEF ProjectionInv, ProjectionIsOrdered
  <2>2. PICK p \in StockStates, e \in StockEvents : Handles(job, p, e)
    BY <2>1 DEF InHand
  <2>3. InHands(job, p, e)
    BY <1>1, <1>4, <2>2 DEF InHands
  <2>4. RowOnly(job.inv) /\ Advances(job, p, e)
    BY <1>2, <2>3, ProjectCreatedAdvances, FindRowAdvances, UpsertRowAdvances, ListReservationAdvances
  <2>5. ProjectionInv'
    BY <1>1, <1>4, <2>2, <2>4, StepsProject
  <2> QED BY <1>3, <2>5
<1>5. CASE ~InOrder
  <2>1. /\ DOMAIN stockRow' = DOMAIN stockRow /\ DOMAIN listed' = DOMAIN listed
        /\ \A j \in Inventories : DOMAIN listed'[j] = DOMAIN listed[j]
    BY <1>2, JobShapes
  <2> QED BY <1>1, <1>3, <1>5, <2>1 DEF ProjectionInv, SameLog
<1> QED BY <1>4, <1>5

LEMMA StockPartStep == [ServicesNext]_servicesVars => [StockNext]_stockVars
BY DEF ServicesNext, servicesVars, ordersVars

LEMMA StockKeeps == StockInv /\ ProjectionInv /\ [StockNext]_stockVars => StockInv' /\ ProjectionInv'
<1> SUFFICES ASSUME StockInv, ProjectionInv, [StockNext]_stockVars PROVE StockInv' /\ ProjectionInv'
  OBVIOUS
<1>1. CASE StockCommand
  <2>1. PICK i \in Inventories, e \in StockEvents : Raised(i, e) /\ Saves(e)
    BY <1>1, CommandSaves
  <2> QED BY <2>1, SavesKeeps, SavesProjects
<1>2. CASE ProjectStock
  BY <1>2, ProjectingKeeps
<1>3. CASE UNCHANGED stockVars
  <2>1. /\ SameLog /\ projecting' = projecting /\ stockRow' = stockRow /\ listed' = listed
    BY <1>3 DEF stockVars, SameLog
  <2>2. StockInv' /\ InOrder' = InOrder
    BY <2>1, LogKept
  <2>3. /\ \A j : Stock(j)' = Stock(j) /\ Exists(j)' = Exists(j)
        /\ \A j : History(j, stockLog') = History(j, stockLog)
        /\ \A other : EventOf(other)' = EventOf(other)
    BY <2>1, LogKept
  <2>5. \A i, s : /\ RowHas(i, s)' = RowHas(i, s) /\ ListHas(i, s)' = ListHas(i, s)
                  /\ Unlisted(i)' = Unlisted(i) /\ Follows(i, s)' = Follows(i, s)
    BY <2>1 DEF RowHas, ListHas, Unlisted, Follows, Overshadowed
  <2>6. \A i : /\ RowHas(i, Stock(i))' = RowHas(i, Stock(i)) /\ Follows(i, Stock(i))' = Follows(i, Stock(i))
    BY <2>1, <2>3 DEF RowHas, ListHas, Unlisted, Follows, Overshadowed
  <2>7. \A job, p, e : Handles(job, p, e) => Handles(job, p, e)'
    BY <2>1, <2>3, <2>5, <2>6 DEF Handles, InProgress
  <2>8. \A job : InHand(job) => InHand(job)'
    BY <2>3, <2>7 DEF InHand
  <2>9. \A i : RowIsSettled(i)' = RowIsSettled(i)
    BY <2>1, <2>3, <2>5, <2>6 DEF RowIsSettled
  <2>4. ProjectionIsOrdered => ProjectionIsOrdered'
    BY <2>1, <2>3, <2>8, <2>9 DEF ProjectionIsOrdered
  <2> QED BY <2>1, <2>2, <2>4 DEF ProjectionInv, SameLog
<1> QED BY <1>1, <1>2, <1>3 DEF StockNext

LEMMA StockInvHolds == ServicesSpec => [](StockInv /\ ProjectionInv)
<1>1. ServicesInit => StockInv /\ ProjectionInv
  BY InitStock DEF ServicesInit
<1>2. StockInv /\ ProjectionInv /\ [ServicesNext]_servicesVars => (StockInv /\ ProjectionInv)'
  BY StockPartStep, StockKeeps
<1> QED BY <1>1, <1>2, PTL DEF ServicesSpec

(* Any number of inventories, products, orders and events: what is         *)
(* reserved is what the pending reservations ask for and never more than   *)
(* there is, stock leaves once for a confirmed one, and a lookup by        *)
(* product rebuilds an inventory from all of its events.                   *)
THEOREM StockIsSafe == ServicesSpec => []StockIsNeverOversold
BY StockInvHolds, StockIsBalanced, PTL

(* As long as no event is lost and no two handlers of an inventory run     *)
(* together, whatever inventories share a product: once the handlers are   *)
(* done, a row is as its aggregate, or was refused for another's.          *)
THEOREM StockRowsFollow == ServicesSpec => []StockRowFollows
<1>1. ProjectionInv => StockRowFollows
  <2> SUFFICES ASSUME ProjectionInv, projecting = {}, lost = 0, ~overlapped,
                      NEW i \in Inventories, Exists(i)
               PROVE  IF \A other \in Inventories \ {i} : Exists(other) => ProductOf[other] # ProductOf[i]
                      THEN /\ stockRow[i].total = Stock(i).total
                           /\ stockRow[i].reserved = Stock(i).reserved
                           /\ \A o \in StockOrders : listed[i][o] = Stock(i).resv[o].status
                      ELSE \A o \in StockOrders : listed[i][o] \in {"NONE", Stock(i).resv[o].status}
    BY DEF StockRowFollows
  <2>1. ProjectionIsOrdered
    BY DEF ProjectionInv, InOrder
  <2>2. Follows(i, Stock(i)) /\ \A j \in Inventories : stockRow[j].kept => Exists(j)
    BY <2>1 DEF ProjectionIsOrdered, RowIsSettled
  <2>3. CASE RowHas(i, Stock(i)) /\ ListHas(i, Stock(i))
    BY <2>3 DEF RowHas, ListHas
  <2>4. CASE ~stockRow[i].kept /\ Unlisted(i) /\ Overshadowed(i)
    BY <2>2, <2>4 DEF Unlisted, Overshadowed
  <2> QED BY <2>2, <2>3, <2>4 DEF Follows
<1> QED BY <1>1, StockInvHolds, PTL

-----------------------------------------------------------------------------
(* Types of the stock: a handler of the projection is at an event of its   *)
(* inventory, and only as far as that event lets it come.                  *)
JobIsTyped(job) ==
  /\ job.inv \in Inventories /\ job.at \in 1 .. Len(History(job.inv, stockLog))
  /\ EventOf(job).type # "RESERVATION_FAILED"
  /\ job.doing # "begun" => EventOf(job).type # "CREATED"
  /\ job.doing = "upserted" => EventOf(job).type # "ADDED"

StockIsTyped == StockTypeOK /\ \A job \in projecting : JobIsTyped(job)

LEMMA SavingIsBounded ==
  ASSUME NEW events, SaveInventory(events) PROVE Len(stockLog) < MaxStockLog /\ (lost' = lost \/ lost < MaxLost)
BY DEF SaveInventory

LEMMA CommandIsBounded ==
  ASSUME StockCommand PROVE Len(stockLog) < MaxStockLog /\ (lost' = lost \/ lost < MaxLost)
<1>1. \E events : SaveInventory(events)
  BY DEF StockCommand, CreateInventory, AddStockTo, ReserveStockOf, ConfirmStock, ReleaseStock, ReserveByProduct,
         ReleaseByOrder
<1> QED BY <1>1, SavingIsBounded

LEMMA InitStockIsTyped == StockInit => StockIsTyped
<1> SUFFICES ASSUME StockInit PROVE StockIsTyped
  OBVIOUS
<1>1. /\ stockLog = <<>> /\ projecting = {} /\ lost = 0 /\ overlapped = FALSE
      /\ stockRow = [i \in Inventories |-> [kept |-> FALSE]]
      /\ listed = [i \in Inventories |-> [o \in StockOrders |-> "NONE"]]
  BY DEF StockInit
<1>2. Len(stockLog) <= MaxStockLog /\ lost \in 0 .. MaxLost
  BY <1>1, StockAssumption
<1> QED BY <1>1, <1>2 DEF StockIsTyped, StockTypeOK

LEMMA SavesTypes ==
  ASSUME StockInv, StockIsTyped, NEW e \in StockEvents, Saves(e),
         Len(stockLog) < MaxStockLog, lost' = lost \/ lost < MaxLost
  PROVE  StockIsTyped'
<1> DEFINE n == Len(stockLog)
           h == History(e.inv, stockLog)
<1>1. /\ stockLog \in Seq(StockEvents) /\ stockLog' = Append(stockLog, e) /\ n \in Nat /\ e.inv \in Inventories
      /\ stockRow' = stockRow /\ listed' = listed /\ StockTypeOK
      /\ MaxStockLog \in Nat /\ MaxLost \in Nat
  BY StockAssumption DEF StockInv, Saves, StockEvents, StockIsTyped
<1>2. Len(stockLog') <= MaxStockLog
  BY <1>1
<1>3. lost' \in 0 .. MaxLost /\ overlapped' \in BOOLEAN
  <2>1. lost \in 0 .. MaxLost /\ overlapped \in BOOLEAN
    BY <1>1 DEF StockTypeOK
  <2>2. lost' = lost \/ lost' = lost + 1
    BY DEF Saves
  <2>3. lost' \in 0 .. MaxLost
    BY <1>1, <2>1, <2>2
  <2>4. overlapped' \in BOOLEAN
    BY <2>1 DEF Saves
  <2> QED BY <2>3, <2>4
<1>4. StockTypeOK'
  BY <1>1, <1>2, <1>3 DEF StockTypeOK
<1>5. ASSUME NEW job \in projecting PROVE JobIsTyped(job)'
  <2>1. JobIsTyped(job)
    BY DEF StockIsTyped
  <2> DEFINE b == History(job.inv, stockLog)
             c == History(job.inv, stockLog')
  <2>2. job.inv \in Inventories /\ job.at \in 1 .. Len(b)
    BY <2>1 DEF JobIsTyped
  <2>3. b \in Seq(StockEvents) /\ (c = Append(b, e) \/ c = b)
    <3>1. /\ History(job.inv, stockLog) \in Seq(StockEvents)
          /\ e.inv = job.inv => History(job.inv, stockLog') = Append(History(job.inv, stockLog), e)
          /\ e.inv # job.inv => History(job.inv, stockLog') = History(job.inv, stockLog)
      BY <2>2, SavedHistory
    <3> QED BY <3>1
  <2> HIDE DEF b, c
  <2>4. job.at \in 1 .. Len(c) /\ c[job.at] = b[job.at]
    BY <2>2, <2>3
  <2>5. EventOf(job)' = EventOf(job)
    BY <2>4 DEF EventOf, b, c
  <2>6. job.at \in 1 .. Len(History(job.inv, stockLog'))
    BY <2>4 DEF c
  <2> QED BY <2>1, <2>2, <2>5, <2>6 DEF JobIsTyped
<1>6. ASSUME NEW job, job = JobOf(e), e.type # "RESERVATION_FAILED" PROVE JobIsTyped(job)'
  <2>1. h \in Seq(StockEvents) /\ History(e.inv, stockLog') = Append(h, e)
    BY <1>1, SavedHistory
  <2>2. job.inv = e.inv /\ job.at = Len(h) + 1 /\ job.doing = "begun"
    BY <1>6 DEF JobOf
  <2> HIDE DEF h
  <2>3. /\ Len(h) + 1 \in 1 .. Len(Append(h, e)) /\ Append(h, e)[Len(h) + 1] = e
    BY <2>1
  <2>4. EventOf(job)' = e /\ job.at \in 1 .. Len(History(job.inv, stockLog'))
    BY <2>1, <2>2, <2>3 DEF EventOf
  <2> QED BY <1>1, <1>6, <2>2, <2>4 DEF JobIsTyped
<1>7. projecting' \subseteq projecting \/ (e.type # "RESERVATION_FAILED" /\ projecting' = projecting \union {JobOf(e)})
  BY DEF Saves
<1> HIDE DEF n, h
<1>8. \A job \in projecting' : JobIsTyped(job)'
  BY <1>5, <1>6, <1>7
<1> QED BY <1>4, <1>8 DEF StockIsTyped

LEMMA JobProceeds ==
  ASSUME SameLog, NEW job, JobIsTyped(job), NEW d, NEW r,
         d # "begun" => EventOf(job).type # "CREATED", d = "upserted" => EventOf(job).type # "ADDED",
         NEW next, next = [job EXCEPT !.doing = d, !.read = r], next.doing \in {d, job.doing}
  PROVE  JobIsTyped(next)'
<1>1. next.inv = job.inv /\ next.at = job.at
  OBVIOUS
<1>2. EventOf(next) = EventOf(job)
  BY <1>1 DEF EventOf
<1>3. JobIsTyped(next)
  BY <1>1, <1>2 DEF JobIsTyped
<1>4. EventOf(next)' = EventOf(next) /\ History(next.inv, stockLog') = History(next.inv, stockLog)
  BY LogKept
<1> QED BY <1>3, <1>4 DEF JobIsTyped

LEMMA ProjectingTypes == ASSUME StockInv, StockIsTyped, ProjectStock PROVE StockIsTyped'
<1>1. SameLog /\ StockTypeOK
  BY DEF ProjectStock, SameLog, StockIsTyped
<1>2. PICK job \in projecting : ProjectCreated(job) \/ FindRow(job) \/ UpsertRow(job) \/ ListReservation(job)
  BY DEF ProjectStock
<1> DEFINE e == EventOf(job)
<1>3. JobIsTyped(job) /\ job.inv \in Inventories
  BY DEF StockIsTyped, JobIsTyped
<1>4. /\ DOMAIN stockRow = Inventories
      /\ listed \in [Inventories -> [StockOrders -> {"NONE", "PENDING", "CONFIRMED", "RELEASED"}]]
  BY <1>1 DEF StockTypeOK
<1>5. ASSUME NEW other \in projecting PROVE JobIsTyped(other)'
  <2>1. JobIsTyped(other)
    BY DEF StockIsTyped
  <2>2. EventOf(other)' = EventOf(other) /\ History(other.inv, stockLog') = History(other.inv, stockLog)
    BY <1>1, LogKept
  <2> QED BY <2>1, <2>2 DEF JobIsTyped
<1>6. e.type \in StockEventTypes
  <2>1. History(job.inv, stockLog) \in Seq(StockEvents) /\ job.at \in 1 .. Len(History(job.inv, stockLog))
    BY <1>3 DEF StockInv, JobIsTyped
  <2>2. e \in StockEvents
    BY <2>1 DEF EventOf
  <2> HIDE DEF e
  <2> QED BY <2>2 DEF StockEvents
<1> HIDE DEF e
<1>7. ASSUME NEW next, projecting' = (projecting \ {job}) \union {next}, JobIsTyped(next)',
             DOMAIN stockRow' = Inventories, listed' = listed
      PROVE  StockIsTyped'
  <2>1. \A other \in projecting' : JobIsTyped(other)'
    BY <1>5, <1>7
  <2> QED BY <1>1, <1>4, <1>7, <2>1 DEF StockIsTyped, StockTypeOK, SameLog
<1>8. ASSUME Handled(job), DOMAIN stockRow' = Inventories,
             listed' \in [Inventories -> [StockOrders -> {"NONE", "PENDING", "CONFIRMED", "RELEASED"}]]
      PROVE  StockIsTyped'
  <2>1. \A other \in projecting' : JobIsTyped(other)'
    BY <1>5, <1>8 DEF Handled
  <2> QED BY <1>1, <1>8, <2>1 DEF StockIsTyped, StockTypeOK, SameLog
<1>9. CASE ProjectCreated(job)
  BY <1>4, <1>8, <1>9 DEF ProjectCreated
<1>10. CASE FindRow(job)
  <2>1. e.type # "CREATED" /\ stockRow' = stockRow /\ listed' = listed
        /\ (Handled(job) \/ Proceed(job, "read", stockRow[job.inv]))
    BY <1>10 DEF FindRow, e
  <2>2. CASE Handled(job)
    BY <1>4, <1>8, <2>1, <2>2
  <2>3. CASE Proceed(job, "read", stockRow[job.inv])
    <3>1. PICK next : next = [job EXCEPT !.doing = "read", !.read = stockRow[job.inv]]
      OBVIOUS
    <3>2. next.doing \in {"read", job.doing}
      BY <3>1
    <3>3. JobIsTyped(next)'
      BY <1>1, <1>3, <2>1, <3>1, <3>2, JobProceeds DEF e
    <3> QED BY <1>4, <1>7, <2>1, <2>3, <3>1, <3>3 DEF Proceed
  <2> QED BY <2>1, <2>2, <2>3
<1>11. CASE UpsertRow(job)
  <2>1. e.type # "CREATED" /\ DOMAIN stockRow' = Inventories /\ listed' = listed
        /\ (Handled(job) \/ (e.type # "ADDED" /\ Proceed(job, "upserted", [kept |-> FALSE])))
    BY <1>3, <1>4, <1>11 DEF UpsertRow, JobIsTyped, e
  <2>2. CASE Handled(job)
    BY <1>4, <1>8, <2>1, <2>2
  <2>3. CASE e.type # "ADDED" /\ Proceed(job, "upserted", [kept |-> FALSE])
    <3>1. PICK next : next = [job EXCEPT !.doing = "upserted", !.read = [kept |-> FALSE]]
      OBVIOUS
    <3>2. next.doing \in {"upserted", job.doing}
      BY <3>1
    <3>3. JobIsTyped(next)'
      BY <1>1, <1>3, <2>1, <2>3, <3>1, <3>2, JobProceeds DEF e
    <3> QED BY <1>4, <1>7, <2>1, <2>3, <3>1, <3>3 DEF Proceed
  <2> QED BY <2>1, <2>2, <2>3
<1>12. CASE ListReservation(job)
  <2> DEFINE S == {"NONE", "PENDING", "CONFIRMED", "RELEASED"}
             i == job.inv
             v == IF e.type = "RESERVED" THEN "PENDING" ELSE IF listed[i][e.order] = "NONE" THEN "NONE" ELSE e.type
  <2>1. /\ job.doing = "upserted" /\ Handled(job) /\ stockRow' = stockRow
        /\ listed' = [listed EXCEPT ![i][e.order] = IF e.type = "RESERVED" THEN "PENDING"
                                                    ELSE IF @ = "NONE" THEN "NONE" ELSE e.type]
    BY <1>12 DEF ListReservation, e
  <2>2. e.type \in {"RESERVED", "CONFIRMED", "RELEASED"}
    BY <1>3, <1>6, <2>1 DEF JobIsTyped, StockEventTypes, e
  <2>3. v \in S
    BY <2>2
  <2>4. listed' = [listed EXCEPT ![i] = [listed[i] EXCEPT ![e.order] = v]]
    BY <2>1
  <2> HIDE DEF v
  <2>5. [listed[i] EXCEPT ![e.order] = v] \in [StockOrders -> S]
    BY <1>3, <1>4, <2>3
  <2>6. listed' \in [Inventories -> [StockOrders -> S]]
    BY <1>3, <1>4, <2>4, <2>5
  <2> QED BY <1>4, <1>8, <2>1, <2>6
<1> QED BY <1>2, <1>9, <1>10, <1>11, <1>12

LEMMA StockTypesStep == StockInv /\ StockIsTyped /\ [StockNext]_stockVars => StockIsTyped'
<1> SUFFICES ASSUME StockInv, StockIsTyped, [StockNext]_stockVars PROVE StockIsTyped'
  OBVIOUS
<1>1. CASE StockCommand
  <2>1. PICK i \in Inventories, e \in StockEvents : Raised(i, e) /\ Saves(e)
    BY <1>1, CommandSaves
  <2> QED BY <1>1, <2>1, CommandIsBounded, SavesTypes
<1>2. CASE ProjectStock
  BY <1>2, ProjectingTypes
<1>3. CASE UNCHANGED stockVars
  <2>1. SameLog /\ projecting' = projecting /\ stockRow' = stockRow /\ listed' = listed
        /\ stockLog' = stockLog /\ lost' = lost /\ overlapped' = overlapped
    BY <1>3 DEF stockVars, SameLog
  <2>2. \A job : JobIsTyped(job) => JobIsTyped(job)'
    BY <2>1, LogKept DEF JobIsTyped
  <2> QED BY <2>1, <2>2 DEF StockIsTyped, StockTypeOK
<1> QED BY <1>1, <1>2, <1>3 DEF StockNext
=============================================================================
