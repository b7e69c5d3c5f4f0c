--------------------------- MODULE EmployeeCalls ---------------------------
(***************************************************************************)
(* The values an Employee stores, the calls its clients make on it and the *)
(* results they get, shared by the abstract Account and by Employee.       *)
(***************************************************************************)

CONSTANTS
    Threads,        \* the threads that call one shared Employee
    Password,       \* the passwords clients supply, none of them empty
    LongEnough,     \* the passwords of at least eight characters
    Image,          \* Image[p]: the block that is salted and hashed for p
    Salt,           \* the values nextBytes(salt,32) draws
    NoSalt,         \* stands for the uninitialised local salt array
    NoThread,       \* stands for the owner of a free lock
    Pay,            \* the salaries clients set
    Incoming,       \* the Employee objects assigned to the shared one
    Ops             \* the operations the clients of an instance call

(* The permissions and statuses that the code tests for.                   *)
Permission == {"AUTH", "ADMINISTRATOR"}

Status == {"ONLINE", "OFFLINE"}

AuthenticationResult ==
    {"FAIL_BAD_PASSWORD", "FAIL_CANT_AUTHENTICATE", "SUCCESS",
     "SUCCESS_ADMIN", "PASSWORD_CHANGED", "NEW_PASSWORD_NOT_VALID"}

Images == {Image[p] : p \in Password}

(* SHA256 over the salted image: equal only for equal images and salts.    *)
Digest(image, s) == [image |-> image, salt |-> s]

EmployeeState ==
    [salt : Salt, hash : [image : Images, salt : Salt],
     permissions : SUBSET Permission, salary : Pay, s : Status,
     dirty : BOOLEAN]

(* The hash is that of some password under the stored salt.                *)
CredentialsMatch(e) == e.hash.salt = e.salt

Request ==
    [op : {"authenticate"} \cap Ops, pwd : Password]
      \cup [op : {"changePassword"} \cap Ops, pwd : Password, new : Password]
      \cup [op : {"setPassword"} \cap Ops, new : Password]
      \cup [op : {"addPermission", "removePermission"} \cap Ops,
            perm : Permission]
      \cup [op : {"setPay"} \cap Ops, salary : Pay]
      \cup [op : {"setStatus"} \cap Ops, s : Status]
      \cup [op : {"assign"} \cap Ops, from : Incoming]
      \cup [op : {"markDirty", "markClean"} \cap Ops]

(* The calls that read or change the credential or the permissions.        *)
AccountOps ==
    {"authenticate", "changePassword", "setPassword", "addPermission",
     "removePermission", "assign"}

AccountRequest == {r \in Request : r.op \in AccountOps}

(* What a thread shows when it has no call in progress.                    *)
Idle == [op |-> "idle"]

ASSUME PasswordAssumption ==
    /\ Image \in [Password -> Images]
    /\ LongEnough \subseteq Password

ASSUME SentinelAssumption ==
    /\ NoSalt \notin Salt
    /\ NoThread \notin Threads

ASSUME IncomingAssumption ==
    /\ Incoming \subseteq EmployeeState
    /\ \A e \in Incoming : CredentialsMatch(e)
=============================================================================
