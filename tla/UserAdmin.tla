------------------------------ MODULE UserAdmin -----------------------------
(***************************************************************************)
(* User management of the admin panel: UserController,                     *)
(* UserManagementService and the in-memory repositories of users and audit *)
(* logs.  Their awaits resolve at once and let no other request in; only   *)
(* passwordService.hash leaves the event loop.  A request is therefore one *)
(* step, or two when it hashes a password.  Requests that are refused      *)
(* before they change anything are not shown.                              *)
(***************************************************************************)
EXTENDS FiniteSets

CONSTANTS Accounts,    \* identifiers a user may get, free again when nothing has it
          Emails, Usernames, UserRoles,
          Untold,      \* the log has not told the roles
          NoAccount,   \* there is no such account
          Requests     \* bound: requests that hash at the same time

ASSUME UserAdminAssumption ==
  NoAccount \notin [email : Emails, name : Usernames, roles : UserRoles \union {Untold}]

VARIABLES
  user,     \* user[u]: the object of account u, as long as something refers to it
  users,    \* accounts in the repository's Map
  hashing,  \* hashing[r]: the command of request r, which awaits the hash
  told,     \* what the entries of the audit log tell of each account
  raced,    \* history: something was written while a request was hashing
  halfway   \* history: an update was refused after it had changed the user

userVars == <<user, users, hashing, told, raced, halfway>>

NoRequest == [op |-> "none"]

UserInit ==
  /\ user = [u \in Accounts |-> NoAccount] /\ users = {}
  /\ hashing = [r \in Requests |-> NoRequest]
  /\ told = [u \in Accounts |-> NoAccount]
  /\ raced = FALSE /\ halfway = FALSE

(* A write on behalf of the requests in mine.                              *)
Written(mine) == raced' = (raced \/ \E r \in Requests \ mine : hashing[r] # NoRequest)

(* Accounts whose object a request is about to save.                       *)
Held(mine) == {u \in Accounts : \E r \in mine : hashing[r].op = "update" /\ hashing[r].id = u}

(* findByEmail, findByUsername: nobody in the Map has it.                  *)
EmailIsFree(email) == \A u \in users : user[u].email # email
NameIsFree(name) == \A u \in users : user[u].name # name

-----------------------------------------------------------------------------
(* createUser: both checks, then the hash, which nobody stores.            *)
CreateUser(r, email, name, roles) ==
  /\ hashing[r] = NoRequest /\ EmailIsFree(email) /\ NameIsFree(name)
  /\ hashing' = [hashing EXCEPT ![r] = [op |-> "create", email |-> email, name |-> name,
                                        roles |-> roles]]
  /\ UNCHANGED <<user, users, told, raced, halfway>>

(* Saved under a random id, and logged with its email and name.            *)
SaveCreated(r) ==
  /\ hashing[r].op = "create"
  /\ \E u \in {free \in Accounts : user[free] = NoAccount} :
       LET c == hashing[r]
       IN /\ user' = [user EXCEPT ![u] = [email |-> c.email, name |-> c.name, roles |-> c.roles]]
          /\ users' = users \union {u}
          /\ told' = [told EXCEPT ![u] = [email |-> c.email, name |-> c.name,
                                          roles |-> Untold]]
  /\ hashing' = [hashing EXCEPT ![r] = NoRequest]
  /\ Written({r}) /\ UNCHANGED halfway

-----------------------------------------------------------------------------
(* What the log tells of u after an entry.                                 *)
Tell(u, view) == told' = IF told[u] = NoAccount THEN told ELSE [told EXCEPT ![u] = view]

Updated(view, c) == [email |-> c.email, name |-> c.name, roles |-> view.roles]

TellUpdate(u, c) == Tell(u, Updated(told[u], c))

(* A slip this code could have had: a new email is not looked up.          *)
FaultyMayTakeEmail(u, c) == TRUE

MayTakeEmail(u, c) == c.email = user[u].email \/ EmailIsFree(c.email)

MayTakeName(u, c) == c.name = user[u].name \/ NameIsFree(c.name)

(* updateUser changes the user object, which is the one in the Map, before *)
(* it has checked the username.                                            *)
UpdateUser(u, c) ==
  /\ u \in users /\ MayTakeEmail(u, c) /\ MayTakeName(u, c)
  /\ user' = [user EXCEPT ![u] = Updated(@, c)]
  /\ TellUpdate(u, c)
  /\ Written({}) /\ UNCHANGED <<users, hashing, halfway>>

UpdateRefused(u, c) ==
  /\ u \in users /\ MayTakeEmail(u, c) /\ ~MayTakeName(u, c)
  /\ c.email # user[u].email
  /\ user' = [user EXCEPT ![u].email = c.email]
  /\ halfway' = TRUE
  /\ Written({}) /\ UNCHANGED <<users, hashing, told>>

(* With a password: hash before the rest.                                  *)
UpdateWithPassword(r, u, c) ==
  /\ hashing[r] = NoRequest
  /\ u \in users /\ MayTakeEmail(u, c) /\ MayTakeName(u, c)
  /\ user' = [user EXCEPT ![u] = Updated(@, c)]
  /\ hashing' = [hashing EXCEPT ![r] = [op |-> "update", id |-> u, command |-> c]]
  /\ Written({r}) /\ UNCHANGED <<users, told, halfway>>

(* save puts the object in the Map, also when it was deleted meanwhile.    *)
SaveUpdated(r) ==
  /\ hashing[r].op = "update"
  /\ users' = users \union {hashing[r].id}
  /\ TellUpdate(hashing[r].id, hashing[r].command)
  /\ hashing' = [hashing EXCEPT ![r] = NoRequest]
  /\ Written({r}) /\ UNCHANGED <<user, halfway>>

(* hash rejects: nothing is saved or logged.                               *)
HashFails(r) ==
  /\ hashing[r] # NoRequest
  /\ hashing' = [hashing EXCEPT ![r] = NoRequest]
  /\ halfway' = (halfway \/ hashing[r].op = "update")
  /\ user' = [u \in Accounts |-> IF u \in users \union Held(Requests \ {r}) THEN user[u]
                                   ELSE NoAccount]
  /\ UNCHANGED <<users, told, raced>>

-----------------------------------------------------------------------------
(* The roles are replaced and logged.                                      *)
UpdateUserRoles(u, roles) ==
  /\ u \in users
  /\ user' = [user EXCEPT ![u].roles = roles]
  /\ Tell(u, [told[u] EXCEPT !.roles = roles])
  /\ Written({}) /\ UNCHANGED <<users, hashing, halfway>>

DeleteUser(u) ==
  /\ u \in users /\ users' = users \ {u}
  /\ told' = [told EXCEPT ![u] = NoAccount]
  /\ user' = [user EXCEPT ![u] = IF u \in Held(Requests) THEN @ ELSE NoAccount]
  /\ Written({}) /\ UNCHANGED <<hashing, halfway>>

(* A field left undefined does what one that repeats the value does.       *)
Updates == [email : Emails, name : Usernames]

UserNext ==
  \/ \E r \in Requests : \/ SaveCreated(r) \/ SaveUpdated(r) \/ HashFails(r)
                         \/ \E email \in Emails, name \in Usernames, roles \in UserRoles :
                              CreateUser(r, email, name, roles)
                         \/ \E u \in Accounts, c \in Updates : UpdateWithPassword(r, u, c)
  \/ \E u \in Accounts :
       \/ \E c \in Updates : UpdateUser(u, c) \/ UpdateRefused(u, c)
       \/ \E roles \in UserRoles : UpdateUserRoles(u, roles)
       \/ DeleteUser(u)

-----------------------------------------------------------------------------
UserTypeOK ==
  /\ users \subseteq {u \in Accounts : user[u] # NoAccount}
  /\ \A u \in users : user[u] \in [email : Emails, name : Usernames, roles : UserRoles]
  /\ DOMAIN hashing = Requests /\ DOMAIN told = Accounts
  /\ {raced, halfway} \subseteq BOOLEAN

(* user-management.service.ts:136-152, 183-208: as long as nothing is      *)
(* written while another request hashes its password, two users never have *)
(* the same email or username; and the audit log accounts for them: but    *)
(* for updates that fail halfway the Map holds what the entries tell.      *)
UsersAreDistinct ==
  \A u, v \in users : u # v => user[u].email # user[v].email /\ user[u].name # user[v].name

AuditTellsUsers ==
  /\ users = {u \in Accounts : told[u] # NoAccount}
  /\ \A u \in users :
       /\ user[u].email = told[u].email /\ user[u].name = told[u].name
       /\ told[u].roles \in {Untold, user[u].roles}

UsersAreAccountedFor ==
  ~raced => /\ UsersAreDistinct
            /\ ~halfway /\ (\A r \in Requests : hashing[r] = NoRequest) => AuditTellsUsers
=============================================================================
