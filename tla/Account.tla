------------------------------ MODULE Account ------------------------------
(***************************************************************************)
(* What an Employee promises to the threads that share it: each call on    *)
(* the login credential and the permission set takes effect at one instant *)
(* between its invocation and its return, and is answered according to the *)
(* state at that instant (Bindings.hpp, authenticate and changePassword).  *)
(*                                                                         *)
(* A credential is the image of the password.  Salts, hashes, the lock and *)
(* the dirty mark are the business of Employee, which implements this      *)
(* module.                                                                 *)
(***************************************************************************)
EXTENDS EmployeeCalls

VARIABLES
    credential,     \* the image that authenticates
    permissions,    \* the permissions granted
    call,           \* call[t]: the request of t not yet in effect, or Idle
    answer          \* answer[t]: the last result t got from a call

accountVars == <<credential, permissions, call, answer>>

Authentication(p) ==
    CASE Image[p] # credential -> "FAIL_BAD_PASSWORD"
      [] Image[p] = credential /\ "AUTH" \notin permissions
            -> "FAIL_CANT_AUTHENTICATE"
      [] Image[p] = credential /\ {"AUTH", "ADMINISTRATOR"} \subseteq permissions
            -> "SUCCESS_ADMIN"
      [] OTHER -> "SUCCESS"

Init ==
    /\ credential \in Images
    /\ permissions \in SUBSET Permission
    /\ call = [t \in Threads |-> Idle]
    /\ answer = [t \in Threads |-> "none"]

Invoke(t) ==
    /\ call[t] = Idle
    /\ \E r \in AccountRequest : call' = [call EXCEPT ![t] = r]
    /\ UNCHANGED <<credential, permissions, answer>>

Return(t) == call' = [call EXCEPT ![t] = Idle]

Answer(t, result) ==
    /\ Return(t)
    /\ answer' = [answer EXCEPT ![t] = result]

Authenticate(t) ==
    /\ call[t].op = "authenticate"
    /\ Answer(t, Authentication(call[t].pwd))
    /\ UNCHANGED <<credential, permissions>>

(* A refused change leaves the credential alone.                           *)
RefuseChange(t) ==
    /\ call[t].op = "changePassword"
    /\ \/ /\ Image[call[t].pwd] # credential
          /\ Answer(t, "FAIL_BAD_PASSWORD")
       \/ /\ Image[call[t].pwd] = credential
          /\ call[t].new \notin LongEnough
          /\ Answer(t, "NEW_PASSWORD_NOT_VALID")
    /\ UNCHANGED <<credential, permissions>>

(* The old password is checked and replaced in one step.                   *)
ChangePassword(t) ==
    /\ call[t].op = "changePassword"
    /\ Image[call[t].pwd] = credential
    /\ call[t].new \in LongEnough
    /\ credential' = Image[call[t].new]
    /\ Answer(t, "PASSWORD_CHANGED")
    /\ UNCHANGED permissions

SetPassword(t) ==
    /\ call[t].op = "setPassword"
    /\ credential' = Image[call[t].new]
    /\ Return(t)
    /\ UNCHANGED <<permissions, answer>>

ChangePermissions(t) ==
    /\ \/ /\ call[t].op = "addPermission"
          /\ permissions' = permissions \cup {call[t].perm}
       \/ /\ call[t].op = "removePermission"
          /\ permissions' = permissions \ {call[t].perm}
    /\ Return(t)
    /\ UNCHANGED <<credential, answer>>

(* Assignment replaces credential and permissions together.                *)
Assign(t) ==
    /\ call[t].op = "assign"
    /\ credential' = call[t].from.hash.image
    /\ permissions' = call[t].from.permissions
    /\ Return(t)
    /\ UNCHANGED answer

Next ==
    \E t \in Threads :
        \/ Invoke(t)
        \/ Authenticate(t)
        \/ RefuseChange(t)
        \/ ChangePassword(t)
        \/ SetPassword(t)
        \/ ChangePermissions(t)
        \/ Assign(t)

Spec == Init /\ [][Next]_accountVars
=============================================================================
