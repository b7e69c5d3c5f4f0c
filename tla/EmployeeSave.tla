---------------------------- MODULE EmployeeSave ----------------------------
(***************************************************************************)
(* The loop body of Employees::save for one Employee that other threads    *)
(* are using.  save holds the mutex of Employees and the file's mutex but  *)
(* not the mutex of the Employee: its getters run between the writes of    *)
(* the mutators of module Employee.                                        *)
(***************************************************************************)
EXTENDS Employee

VARIABLES
    stage,      \* the field save reads next; "idle" before, "saved" after
    entry       \* the JSON object save builds

saveVars == <<stage, entry>>

Entry == [salt : Salt, hash : [image : Images, salt : Salt], pay : Pay,
          permissions : SUBSET Permission, hashCode : Pay]

(* hashCode covers name, id and salary, of which only the salary changes.  *)
EntryOf(e) == [salt |-> e.salt, hash |-> e.hash, pay |-> e.salary,
               permissions |-> e.permissions, hashCode |-> e.salary]

SaveInit == stage = "idle" /\ entry = EntryOf(emp)

Read(from, to, field, value) ==
    /\ stage = from
    /\ stage' = to
    /\ entry' = [entry EXCEPT ![field] = value]
    /\ UNCHANGED vars

Save ==
    \/ Read("idle", "hash", "salt", emp.salt)
    \/ Read("hash", "pay", "hash", emp.hash)
    \/ Read("pay", "permissions", "pay", emp.salary)
    \/ Read("permissions", "hashCode", "permissions", emp.permissions)
    \/ Read("hashCode", "saved", "hashCode", emp.salary)

(* The next call of save starts over.                                      *)
SaveAgain ==
    /\ stage = "saved"
    /\ stage' = "idle"
    /\ UNCHANGED <<vars, entry>>

SharedInit == Init /\ SaveInit

SharedNext == (Next /\ UNCHANGED saveVars) \/ Save \/ SaveAgain

SharedSpec == SharedInit /\ [][SharedNext]_<<vars, saveVars>>

SavedTypeOK ==
    /\ stage \in {"idle", "hash", "pay", "permissions", "hashCode", "saved"}
    /\ entry \in Entry

(* A saved account can be opened by a password: an Employee is usable in a *)
(* multithreaded context (Bindings.hpp, comment on class Employee).        *)
SavedCredentialsAgree ==
    stage = "saved" => entry.hash.salt = entry.salt
=============================================================================
