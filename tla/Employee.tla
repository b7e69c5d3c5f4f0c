------------------------------ MODULE Employee ------------------------------
(***************************************************************************)
(* One Employee object shared by the threads of a process                  *)
(* (BindingsImpl.cpp).  Every mutator takes the object's recursive mutex   *)
(* and then writes the fields one after another; each write below is a     *)
(* step of its own, because the getters read the fields without the mutex. *)
(* A nested acquisition by the owner never blocks, so the guards of the    *)
(* nested calls (changePassword calls authenticate and setPassword, which  *)
(* call markDirty) are one acquisition here, released by the last write.   *)
(***************************************************************************)
EXTENDS EmployeeCalls

VARIABLES
    emp,        \* the fields of the object
    owner,      \* the thread that holds the mutex, or NoThread
    pc,         \* pc[t]: the next step of the call of t, "idle" between calls
    request,    \* request[t]: the call t is executing, or Idle
    drawn,      \* drawn[t]: the local salt of setPassword
    answer,     \* answer[t]: the last AuthenticationResult t was given
    modified,   \* history: a mutator wrote a persistent field or markDirty
                \* was called, since construction or the last markClean
    replaced    \* history: operator= ran after the last of those calls

histories == <<modified, replaced>>

vars == <<emp, owner, pc, request, drawn, answer, modified, replaced>>

Labels ==
    {"idle", "lock", "authenticate", "checkPassword", "copySalt", "copyHash",
     "markFirst", "changePermissions", "writePay", "markDirty", "markClean",
     "writeStatus", "assignFields", "assignSalt", "assignHash"}

(* The first step under the mutex of each operation.                       *)
FirstStep(op) ==
    CASE op = "changePassword" -> "checkPassword"
      [] op = "setPassword" -> "copySalt"
      [] op \in {"addPermission", "removePermission"} -> "markFirst"
      [] op = "setPay" -> "writePay"
      [] op = "setStatus" -> "writeStatus"
      [] op = "assign" -> "assignFields"
      [] OTHER -> op       \* authenticate, markDirty, markClean

Init ==
    /\ emp \in {e \in EmployeeState : /\ CredentialsMatch(e)
                                      /\ e.s = "OFFLINE"
                                      /\ ~e.dirty}
    /\ owner = NoThread
    /\ pc = [t \in Threads |-> "idle"]
    /\ request = [t \in Threads |-> Idle]
    /\ drawn = [t \in Threads |-> NoSalt]
    /\ answer = [t \in Threads |-> "none"]
    /\ modified = FALSE
    /\ replaced = FALSE

-----------------------------------------------------------------------------
(* The frame of a call.                                                    *)

At(t, label) == pc[t] = label

Goto(t, label) == pc' = [pc EXCEPT ![t] = label]

Invoke(t) ==
    /\ At(t, "idle")
    /\ \E r \in Request : request' = [request EXCEPT ![t] = r]
    /\ Goto(t, "lock")
    /\ UNCHANGED <<emp, owner, drawn, answer, histories>>

(* Fault: a method without its lock_guard.                                 *)
LockUnguarded(t) ==
    /\ At(t, "lock")
    /\ owner' = t
    /\ Goto(t, FirstStep(request[t].op))
    /\ UNCHANGED <<emp, request, drawn, answer, histories>>

(* std::lock_guard<recursive_mutex> sync(lock): the owner is never blocked *)
Lock(t) ==
    /\ At(t, "lock")
    /\ owner \in {NoThread, t}
    /\ owner' = t
    /\ Goto(t, FirstStep(request[t].op))
    /\ UNCHANGED <<emp, request, drawn, answer, histories>>

(* The outermost guard goes out of scope.                                  *)
Return(t) ==
    /\ owner' = NoThread
    /\ Goto(t, "idle")
    /\ request' = [request EXCEPT ![t] = Idle]
    /\ drawn' = [drawn EXCEPT ![t] = NoSalt]

Answer(t, result) == answer' = [answer EXCEPT ![t] = result]

-----------------------------------------------------------------------------
(* authenticate, changePassword, setPassword                               *)

PasswordIs(p) == emp.hash = Digest(Image[p], emp.salt)

Authentication(p) ==
    CASE ~PasswordIs(p) -> "FAIL_BAD_PASSWORD"
      [] PasswordIs(p) /\ "AUTH" \notin emp.permissions
            -> "FAIL_CANT_AUTHENTICATE"
      [] PasswordIs(p) /\ {"AUTH", "ADMINISTRATOR"} \subseteq emp.permissions
            -> "SUCCESS_ADMIN"
      [] OTHER -> "SUCCESS"

Authenticate(t) ==
    /\ At(t, "authenticate")
    /\ Answer(t, Authentication(request[t].pwd))
    /\ Return(t)
    /\ UNCHANGED <<emp, histories>>

(* changePassword refuses only on FAIL_BAD_PASSWORD: an account without    *)
(* the permission AUTH may change its password.                            *)
RefuseChange(t) ==
    /\ At(t, "checkPassword")
    /\ \/ /\ ~PasswordIs(request[t].pwd)
          /\ Answer(t, "FAIL_BAD_PASSWORD")
       \/ /\ PasswordIs(request[t].pwd)
          /\ request[t].new \notin LongEnough
          /\ Answer(t, "NEW_PASSWORD_NOT_VALID")
    /\ Return(t)
    /\ UNCHANGED <<emp, histories>>

(* Fault: the guard covers the check of the old password only.             *)
AcceptChangeUnlocked(t) ==
    /\ At(t, "checkPassword")
    /\ PasswordIs(request[t].pwd)
    /\ request[t].new \in LongEnough
    /\ owner' = NoThread
    /\ Goto(t, "copySalt")
    /\ UNCHANGED <<emp, request, drawn, answer, histories>>

AcceptChange(t) ==
    /\ At(t, "checkPassword")
    /\ PasswordIs(request[t].pwd)
    /\ request[t].new \in LongEnough
    /\ Goto(t, "copySalt")
    /\ UNCHANGED <<emp, owner, request, drawn, answer, histories>>

(* Fault: the local array is copied before it is filled.                   *)
CopySaltUndrawn(t) ==
    /\ At(t, "copySalt")
    /\ emp' = [emp EXCEPT !.salt = drawn[t]]
    /\ modified' = TRUE
    /\ Goto(t, "copyHash")
    /\ UNCHANGED <<owner, request, drawn, answer, replaced>>

(* employeeRandom.nextBytes(salt,32); memcpy(this->salt,salt,32)           *)
CopySalt(t) ==
    /\ At(t, "copySalt")
    /\ \E s \in Salt :
         /\ drawn' = [drawn EXCEPT ![t] = s]
         /\ emp' = [emp EXCEPT !.salt = s]
    /\ modified' = TRUE
    /\ Goto(t, "copyHash")
    /\ UNCHANGED <<owner, request, answer, replaced>>

CopyHash(t) ==
    /\ At(t, "copyHash")
    /\ emp' = [emp EXCEPT !.hash = Digest(Image[request[t].new], drawn[t])]
    /\ modified' = TRUE
    /\ Goto(t, "markDirty")
    /\ UNCHANGED <<owner, request, drawn, answer, replaced>>

-----------------------------------------------------------------------------
(* addPermission and removePermission mark the object before they change   *)
(* it, setPassword and setPay after.                                       *)

MarkFirst(t) ==
    /\ At(t, "markFirst")
    /\ emp' = [emp EXCEPT !.dirty = TRUE]
    /\ Goto(t, "changePermissions")
    /\ UNCHANGED <<owner, request, drawn, answer, histories>>

ChangePermissions(t) ==
    /\ At(t, "changePermissions")
    /\ emp' = [emp EXCEPT !.permissions =
                   IF request[t].op = "addPermission"
                   THEN @ \cup {request[t].perm}
                   ELSE @ \ {request[t].perm}]
    /\ modified' = TRUE
    /\ replaced' = FALSE
    /\ Return(t)
    /\ UNCHANGED answer

WritePay(t) ==
    /\ At(t, "writePay")
    /\ emp' = [emp EXCEPT !.salary = request[t].salary]
    /\ modified' = TRUE
    /\ Goto(t, "markDirty")
    /\ UNCHANGED <<owner, request, drawn, answer, replaced>>

(* The tail of setPassword, changePassword and setPay, and the whole of    *)
(* markDirty.                                                              *)
MarkDirty(t) ==
    /\ At(t, "markDirty")
    /\ emp' = [emp EXCEPT !.dirty = TRUE]
    /\ IF request[t].op = "changePassword"
       THEN Answer(t, "PASSWORD_CHANGED")
       ELSE UNCHANGED answer
    /\ modified' = (modified \/ request[t].op = "markDirty")
    /\ replaced' = FALSE
    /\ Return(t)

MarkClean(t) ==
    /\ At(t, "markClean")
    /\ emp' = [emp EXCEPT !.dirty = FALSE]
    /\ modified' = FALSE
    /\ replaced' = FALSE
    /\ Return(t)
    /\ UNCHANGED answer

(* Fault: lock.lock() without unlock().                                    *)
WriteStatusHeld(t) ==
    /\ At(t, "writeStatus")
    /\ emp' = [emp EXCEPT !.s = request[t].s]
    /\ Goto(t, "idle")
    /\ request' = [request EXCEPT ![t] = Idle]
    /\ UNCHANGED <<owner, drawn, answer, histories>>

(* The status is not persistent: setStatus does not mark the object.       *)
WriteStatus(t) ==
    /\ At(t, "writeStatus")
    /\ emp' = [emp EXCEPT !.s = request[t].s]
    /\ Return(t)
    /\ UNCHANGED <<answer, histories>>

-----------------------------------------------------------------------------
(* operator=: all scalar fields, then salt, then hash.  The object takes   *)
(* over the source's dirty mark, whatever was called on the object itself. *)

AssignFields(t) ==
    /\ At(t, "assignFields")
    /\ LET e == request[t].from IN
         emp' = [emp EXCEPT !.salary = e.salary,
                            !.permissions = e.permissions,
                            !.s = e.s, !.dirty = e.dirty]
    /\ replaced' = TRUE
    /\ Goto(t, "assignSalt")
    /\ UNCHANGED <<owner, request, drawn, answer, modified>>

AssignSalt(t) ==
    /\ At(t, "assignSalt")
    /\ emp' = [emp EXCEPT !.salt = request[t].from.salt]
    /\ Goto(t, "assignHash")
    /\ UNCHANGED <<owner, request, drawn, answer, histories>>

AssignHash(t) ==
    /\ At(t, "assignHash")
    /\ emp' = [emp EXCEPT !.hash = request[t].from.hash]
    /\ Return(t)
    /\ UNCHANGED <<answer, histories>>

-----------------------------------------------------------------------------

Body(t) ==
    \/ Authenticate(t)
    \/ RefuseChange(t)
    \/ AcceptChange(t)
    \/ CopySalt(t)
    \/ CopyHash(t)
    \/ MarkFirst(t)
    \/ ChangePermissions(t)
    \/ WritePay(t)
    \/ MarkDirty(t)
    \/ MarkClean(t)
    \/ WriteStatus(t)
    \/ AssignFields(t)
    \/ AssignSalt(t)
    \/ AssignHash(t)

Next == \E t \in Threads : Invoke(t) \/ Lock(t) \/ Body(t)

(* A thread inside a call runs on; nothing makes a client call again, and  *)
(* the mutex grants no thread its turn.                                    *)
Fairness == \A t \in Threads : WF_vars(Body(t))

Spec == Init /\ [][Next]_vars /\ Fairness

-----------------------------------------------------------------------------

TypeOK ==
    /\ emp \in EmployeeState
    /\ owner \in Threads \cup {NoThread}
    /\ pc \in [Threads -> Labels]
    /\ request \in [Threads -> Request \cup {Idle}]
    /\ drawn \in [Threads -> Salt \cup {NoSalt}]
    /\ answer \in [Threads -> AuthenticationResult \cup {"none"}]
    /\ modified \in BOOLEAN
    /\ replaced \in BOOLEAN
    /\ \A t \in Threads :
         \/ pc[t] = "idle" /\ request[t] = Idle
         \/ pc[t] # "idle" /\ request[t] \in Request

(* Whenever the mutex is free the stored hash is that of some password     *)
(* under the stored salt: no interleaving of setPassword, changePassword   *)
(* and operator= leaves an account that no password opens.                 *)
CredentialsAgree == owner = NoThread => CredentialsMatch(emp)

(* isDirty is true exactly when a mutator wrote a persistent field or      *)
(* markDirty was called since construction or the last markClean (its      *)
(* contract, Bindings.hpp:195-198), except after operator=, which puts the *)
(* mark of its source in the place of the object's own: only it can make   *)
(* isDirty and the calls disagree, and only until the next call that marks *)
(* or markClean.  Mutators may mark before or after they write, but no     *)
(* markClean of another thread slips in between, and setStatus, whose      *)
(* field is not persistent, marks nothing.                                 *)
MarkTellsChanges ==
    owner = NoThread /\ ~replaced => (emp.dirty <=> modified)

(* Every call that enters the mutex leaves it: no early return or error    *)
(* path of an operation keeps the object locked for the other threads.     *)
MutexReleased == \A t \in Threads : owner = t ~> owner # t

(* The calls on credential and permissions take effect atomically.  A      *)
(* password change takes effect with the copy of the hash and an           *)
(* assignment with the copy of the permissions; what remains of the call   *)
(* is invisible to the other callers.                                      *)
Assigning(t) == pc[t] \in {"assignSalt", "assignHash"}

AbstractCredential ==
    IF \E t \in Threads : Assigning(t)
    THEN request[CHOOSE t \in Threads : Assigning(t)].from.hash.image
    ELSE emp.hash.image

AbstractCall ==
    [t \in Threads |->
        IF \/ request[t].op \notin AccountOps
           \/ pc[t] \in {"markDirty", "assignSalt", "assignHash"}
        THEN Idle ELSE request[t]]

AbstractAnswer ==
    [t \in Threads |->
        IF pc[t] = "markDirty" /\ request[t].op = "changePassword"
        THEN "PASSWORD_CHANGED" ELSE answer[t]]

A == INSTANCE Account WITH
        credential <- AbstractCredential,
        permissions <- emp.permissions,
        call <- AbstractCall,
        answer <- AbstractAnswer

ImplementsAccount == A!Spec
=============================================================================
