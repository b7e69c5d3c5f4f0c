------------------------------ MODULE Session ------------------------------
(***************************************************************************)
(* The programs that use the employee list and its file, one after the     *)
(* other: the installation check (checkInstallation) and the interactive   *)
(* program (main, Main.cpp), whose loop switches between the employee menu *)
(* at login and the menus of a normal and of an administrator session.     *)
(* Either may be killed at any step, and only the file outlives it.        *)
(***************************************************************************)
EXTENDS Employees

CONSTANTS
    Password,       \* the passwords users type, none of them empty
    LongEnough,     \* those of at least eight characters
    DefaultPassword,\* of the account the installation check creates
    Status,         \* the statuses the status menu offers
    Nobody          \* the employee pointer before the first login

Permission == {"AUTH", "ADMINISTRATOR"}

(* In this module Content is what a session reads and changes.             *)
ASSUME SessionAssumption ==
    /\ Content = [pwd : Password, perms : SUBSET Permission]
    /\ \A f \in InitialFiles : f.kind # "whole" => f.list = <<>>
    /\ LongEnough \subseteq Password
    /\ DefaultPassword \in Password
    /\ Nobody \notin Uuid
    /\ "OFFLINE" \in Status

VARIABLES
    program,    \* the program running and how far it is
    mode,       \* mode of main
    employee,   \* the employee main's pointer designates
    status,     \* status[u]: field s of the employee, never stored
    exit,       \* how the last program ended
    unsaved,    \* history: employees changed since the process loaded them
    stored,     \* history: employees some complete file has held
    unopened,   \* history: this process failed to open a file that exists
    overwritten \* history: stored employees such a process saved over, until
                \* a complete file holds them again

histories == <<unsaved, stored, unopened, overwritten>>
sessionVars == <<program, mode, employee, status, exit, histories>>
allVars == <<vars, sessionVars>>

Ids(f) == {f.list[i].uuid : i \in DOMAIN f.list}

SessionInit ==
    /\ Init
    /\ program = "none"
    /\ mode = "LOGGED_OUT"
    /\ employee = Nobody
    /\ status = [u \in Uuid |-> "OFFLINE"]
    /\ exit = "success"
    /\ unsaved = {}
    /\ stored = Ids(file)
    /\ unopened = FALSE
    /\ overwritten = {}

Account(u) == heap[map[u]].content

(* The process ends: exit is what main returns, or "crash".                *)
End(how) ==
    /\ Stop
    /\ program' = "none"
    /\ mode' = "LOGGED_OUT"
    /\ employee' = Nobody
    /\ status' = [u \in Uuid |-> "OFFLINE"]
    /\ exit' = how
    /\ UNCHANGED histories

-----------------------------------------------------------------------------
(* Both programs begin by loading the list.                                *)

Run(p) ==
    /\ program = "none"
    /\ Start
    /\ program' = p
    /\ exit' = "running"
    /\ unsaved' = {}
    /\ unopened' = FALSE
    /\ UNCHANGED <<mode, employee, status, stored, overwritten>>

Loading == program \in {"install:load", "main:load"}

LoadFile ==
    /\ Loading
    /\ LoadOpen
    /\ program' = IF program = "install:load" THEN "install:loading"
                  ELSE "main:loading"
    /\ UNCHANGED <<mode, employee, status, exit, histories>>

AfterLoad == IF program = "install:load" THEN "install:check" ELSE "main"

(* load returns at once, and says nothing, when the file cannot be opened: *)
(* there is none, or opening the one there is fails.                       *)
SkipLoad ==
    /\ Loading
    /\ program' = AfterLoad
    /\ unopened' = (file.kind # "absent")
    /\ UNCHANGED <<vars, mode, employee, status, exit, unsaved, stored,
                   overwritten>>

(* Fault: the exception is caught, and the list taken for an empty one.    *)
LoadThrowsCaught ==
    /\ Loading
    /\ file.kind = "torn"
    /\ program' = AfterLoad
    /\ UNCHANGED <<vars, mode, employee, status, exit, histories>>

(* The JSON reader throws on a file that was cut off; nothing catches it.  *)
LoadThrows ==
    /\ Loading
    /\ file.kind = "torn"
    /\ End("crash")

LoadNext ==
    /\ program \in {"install:loading", "main:loading"}
    /\ LoadEntry
    /\ UNCHANGED sessionVars

LoadDone ==
    /\ program \in {"install:loading", "main:loading"}
    /\ LoadEnd
    /\ program' = IF program = "install:loading" THEN "install:check"
                  ELSE "main"
    /\ UNCHANGED <<mode, employee, status, exit, histories>>

-----------------------------------------------------------------------------
(* checkInstallation                                                       *)

(* An empty list gets the account sysadmin, with permission ADMINISTRATOR, *)
(* under a new UUID.                                                       *)
CreateAdmin ==
    /\ program = "install:check"
    /\ registry = <<>>
    /\ \E u \in Uuid : Put(u, [pwd |-> DefaultPassword,
                               perms |-> {"AUTH", "ADMINISTRATOR"}])
    /\ program' = "install:save"
    /\ UNCHANGED <<file, phase, toLoad, mode, employee, status, exit,
                   histories>>

KeepAccounts ==
    /\ program = "install:check"
    /\ registry # <<>>
    /\ End("success")

-----------------------------------------------------------------------------
(* e.save() of both programs, after which they return.                     *)

Save ==
    /\ program \in {"main:save", "install:save"}
    /\ SaveOpen
    /\ program' = "saving"
    /\ overwritten' = IF unopened THEN stored ELSE overwritten
    /\ UNCHANGED <<mode, employee, status, exit, unsaved, stored, unopened>>

(* save writes to a stream that was not opened, and says nothing.          *)
SkipSave ==
    /\ program \in {"main:save", "install:save"}
    /\ program' = "return"
    /\ UNCHANGED <<vars, mode, employee, status, exit, histories>>

Saved ==
    /\ program = "saving"
    /\ SaveClose
    /\ program' = "return"
    /\ unsaved' = {}
    /\ stored' = stored \cup Ids(file')
    /\ overwritten' = overwritten \ Ids(file')
    /\ UNCHANGED <<mode, employee, status, exit, unopened>>

ReturnSuccess ==
    /\ program = "return"
    /\ End("success")

-----------------------------------------------------------------------------
(* main, mode LOGGED_OUT: the menu of employees.                           *)

ExitAtLogin ==
    /\ program = "main" /\ mode = "LOGGED_OUT"
    /\ End("success")

(* Fault: FAIL_CANT_AUTHENTICATE is taken for a success.                   *)
LoginUnchecked(i, p) ==
    /\ program = "main" /\ mode = "LOGGED_OUT"
    /\ LET u == heap[registry[i]].uuid IN
         /\ Account(u).pwd = p
         /\ employee' = u
         /\ mode' = IF "ADMINISTRATOR" \in Account(u).perms
                    THEN "ELEVATED" ELSE "NORMAL"
    /\ UNCHANGED <<vars, program, status, exit, histories>>

(* Selecting entry i of the menu and typing password p.  The pointer is    *)
(* set before the password is checked.                                     *)
Login(i, p) ==
    /\ program = "main" /\ mode = "LOGGED_OUT"
    /\ LET u == heap[registry[i]].uuid IN
         /\ Account(u).pwd = p
         /\ "AUTH" \in Account(u).perms
         /\ employee' = u
         /\ mode' = IF "ADMINISTRATOR" \in Account(u).perms
                    THEN "ELEVATED" ELSE "NORMAL"
    /\ UNCHANGED <<vars, program, status, exit, histories>>

LoginFails(i, p) ==
    /\ program = "main" /\ mode = "LOGGED_OUT"
    /\ LET u == heap[registry[i]].uuid IN
         Account(u).pwd # p \/ "AUTH" \notin Account(u).perms
    /\ End("failure")

-----------------------------------------------------------------------------
(* main, modes NORMAL and ELEVATED.  The other entries of both menus do    *)
(* nothing to the list.                                                    *)

LogOut ==
    /\ program = "main" /\ mode # "LOGGED_OUT"
    /\ mode' = "LOGGED_OUT"
    /\ UNCHANGED <<vars, program, employee, status, exit, histories>>

ExitMenu ==
    /\ program = "main" /\ mode # "LOGGED_OUT"
    /\ program' = "main:save"
    /\ UNCHANGED <<vars, mode, employee, status, exit, histories>>

SetStatus(s) ==
    /\ program = "main" /\ mode = "NORMAL"
    /\ status' = [status EXCEPT ![employee] = s]
    /\ UNCHANGED <<vars, program, mode, employee, exit, histories>>

(* A refused change leaves everything alone; its result is not shown.      *)
ChangePassword(old, new) ==
    /\ program = "main" /\ mode = "NORMAL"
    /\ Account(employee).pwd = old
    /\ new \in LongEnough
    /\ Update(employee, [Account(employee) EXCEPT !.pwd = new])
    /\ unsaved' = unsaved \cup {employee}
    /\ UNCHANGED <<program, mode, employee, status, exit, stored, unopened,
                   overwritten>>

-----------------------------------------------------------------------------

SessionNext ==
    \/ Run("install:load")
    \/ Run("main:load")
    \/ LoadFile
    \/ SkipLoad
    \/ LoadThrows
    \/ LoadNext
    \/ LoadDone
    \/ CreateAdmin
    \/ KeepAccounts
    \/ Save
    \/ SkipSave
    \/ Saved
    \/ ReturnSuccess
    \/ ExitAtLogin
    \/ \E i \in DOMAIN registry, p \in Password : Login(i, p)
    \/ \E i \in DOMAIN registry, p \in Password : LoginFails(i, p)
    \/ LogOut
    \/ ExitMenu
    \/ \E s \in Status : SetStatus(s)
    \/ \E old, new \in Password : ChangePassword(old, new)
    \/ program # "none" /\ End("crash")

SessionSpec == SessionInit /\ [][SessionNext]_allVars

-----------------------------------------------------------------------------

SessionTypeOK ==
    /\ TypeOK
    /\ program \in {"none", "install:load", "install:loading",
                    "install:check", "install:save", "main:load",
                    "main:loading", "main", "main:save", "saving", "return"}
    /\ mode \in {"LOGGED_OUT", "NORMAL", "ELEVATED"}
    /\ employee \in Uuid \cup {Nobody}
    /\ status \in [Uuid -> Status]
    /\ exit \in {"running", "success", "failure", "crash"}
    /\ unsaved \in SUBSET Uuid
    /\ stored \in SUBSET Uuid
    /\ unopened \in BOOLEAN
    /\ overwritten \in SUBSET Uuid

(* Whatever crashes and programs come between, an account is lost only     *)
(* where a program saves over a file it failed to open: load returns       *)
(* without a word (BindingsImpl.cpp:268-270), and the installation check   *)
(* then takes the list for empty and writes its own.  Otherwise no file    *)
(* that can be read lacks an employee an earlier one had: the installation *)
(* check creates its account only where there are none, and a save cut off *)
(* by a crash is not mistaken for an empty or missing list.                *)
AccountsSurvive ==
    file.kind = "whole" => stored \ overwritten \subseteq Ids(file)

(* A session is always that of an employee of the list who may log in, and *)
(* its menu is the one of the permissions that employee has, through every *)
(* change of user, list or password in one run of main.                    *)
SessionMatchesEmployee ==
    mode # "LOGGED_OUT" =>
        /\ employee \in Uuid
        /\ map[employee] # NoNode
        /\ "AUTH" \in Account(employee).perms
        /\ mode = "ELEVATED" <=> "ADMINISTRATOR" \in Account(employee).perms

(* When main or the installation check returns success, the changes made   *)
(* in it are in the file: Change Password sends its data to Users' Data    *)
(* (AnalysisReport.md, processes 5 and 7).                                 *)
SuccessKeepsChanges == exit = "success" => unsaved = {}
=============================================================================
