---------------------------- MODULE SessionProofs ----------------------------
(***************************************************************************)
(* Theorems about Session: they build on the invariant of the employee     *)
(* list (EmployeesProofs), of which the programs are one client.           *)
(***************************************************************************)
EXTENDS Session, EmployeesProofs

-----------------------------------------------------------------------------
(* The inductive invariant.                                                *)

Fields ==
    /\ program \in {"none", "install:load", "install:loading",
                    "install:check", "install:save", "main:load",
                    "main:loading", "main", "main:save", "saving", "return"}
    /\ mode \in {"LOGGED_OUT", "NORMAL", "ELEVATED"}
    /\ employee \in Uuid \cup {Nobody}
    /\ status \in [Uuid -> Status]
    /\ exit \in {"running", "success", "failure", "crash"}
    /\ unsaved \in SUBSET Uuid
    /\ stored \in SUBSET Uuid
    /\ unopened \in BOOLEAN
    /\ overwritten \in SUBSET Uuid

LoadingList == program \in {"install:loading", "main:loading"}

(* The list is in the call the program is in.                              *)
InStep ==
    /\ program = "none" <=> phase = "down"
    /\ LoadingList <=> phase = "loading"
    /\ program = "saving" <=> phase = "saving"

(* There is a session in main's loop and in the save after it only.        *)
SessionInMain ==
    mode # "LOGGED_OUT" => program \in {"main", "main:save", "saving", "return"}

SInv ==
    /\ IInv
    /\ Fields
    /\ InStep
    /\ SessionInMain
    /\ RemovedFromList
    /\ SessionMatchesEmployee

(* The invariant about stored accounts, apart because it needs that load   *)
(* accepts what a file holds.                                              *)
AllAccepted(list) == \A i \in DOMAIN list : Accepted(list[i])

(* Every hash code found is accepted, and so is an entry without one.      *)
LoadsAll ==
    /\ Validation # "Strict"
    /\ \A f \in InitialFiles : AllAccepted(f.list)

Found(u) ==
    \/ map[u] # NoNode
    \/ LoadingList /\ \E i \in DOMAIN toLoad : toLoad[i].uuid = u

StoredFound ==
    /\ AllAccepted(file.list)
    /\ AllAccepted(toLoad)
    /\ file.kind = "absent" => stored = {}
    /\ AccountsSurvive
    /\ program \notin {"none", "install:load", "main:load", "return"} =>
         unopened \/ \A u \in stored \ overwritten : Found(u)
    /\ program = "saving" /\ unopened => stored \subseteq overwritten

-----------------------------------------------------------------------------

(* The UUIDs of a file of the right type are UUIDs.                        *)
LEMMA IdsAreUuids == IInv => Ids(file) \subseteq Uuid
  <1> SUFFICES ASSUME IInv, NEW i \in DOMAIN file.list
               PROVE  file.list[i].uuid \in Uuid
    BY DEF Ids
  <1>1. file.list \in Seq(Entry)
    BY DEF IInv, TypeOK
  <1>2. file.list[i] \in Entry
    BY <1>1, LenProperties, ElementOfSeq
  <1> QED BY <1>2 DEF Entry

(* Without removals every entry of the menu is an employee of the map.     *)
LEMMA ListedIsLive ==
    ASSUME IInv, RemovedFromList, NEW i \in DOMAIN registry
    PROVE  LET u == heap[registry[i]].uuid IN
           /\ u \in Uuid
           /\ map[u] = registry[i]
           /\ map[u] # NoNode
  <1>1. registry[i] \in Address
    BY LenProperties, ElementOfSeq DEF IInv, TypeOK
  <1>2. PICK v \in Uuid : map[v] = registry[i]
    BY DEF RemovedFromList, Live
  <1>3. map[v] # NoNode
    BY <1>1, <1>2, EmployeesAssumption
  <1>4. heap[map[v]].uuid = v
    BY <1>3 DEF IInv, MapConsistent
  <1> QED BY <1>2, <1>3, <1>4

(* Putting an employee into the map loses none, and lists a live one.      *)
LEMMA PutGrows ==
    ASSUME IInv, RemovedFromList, NEW u \in Uuid, NEW c \in Content, Put(u, c)
    PROVE  /\ RemovedFromList'
           /\ map'[u] # NoNode
           /\ \A v \in Uuid : map[v] # NoNode => map'[v] # NoNode
  <1> PICK a \in Address :
        /\ IF map[u] = NoNode THEN ~Live(a) ELSE a = map[u]
        /\ map' = [map EXCEPT ![u] = a]
        /\ registry' = Append(registry, a)
    BY DEF Put
  <1>1. /\ map \in [Uuid -> Address \cup {NoNode}]
        /\ registry \in Seq(Address)
        /\ a # NoNode
    BY EmployeesAssumption DEF IInv, TypeOK
  <1>2. /\ map'[u] = a
        /\ \A v \in Uuid \ {u} : map'[v] = map[v]
    BY <1>1
  <1>3. /\ Len(registry) \in Nat
        /\ DOMAIN registry = 1 .. Len(registry)
        /\ DOMAIN registry' = 1 .. Len(registry) + 1
        /\ \A i \in 1 .. Len(registry) : registry'[i] = registry[i]
        /\ registry'[Len(registry) + 1] = a
    BY <1>1, AppendProperties, LenProperties
  <1>4. ASSUME NEW i \in DOMAIN registry'
        PROVE  \E v \in Uuid : map'[v] = registry'[i]
    <2>1. CASE registry'[i] = a
      BY <1>2, <2>1
    <2>2. CASE registry'[i] # a
      <3>1. i \in DOMAIN registry /\ registry'[i] = registry[i]
        BY <1>3, <2>2
      <3>2. PICK v \in Uuid : map[v] = registry[i]
        BY <3>1 DEF RemovedFromList, Live
      <3>3. registry[i] \in Address /\ map[v] # NoNode
        BY <3>1, <3>2, <1>1, LenProperties, ElementOfSeq, EmployeesAssumption
      <3>4. v # u
        BY <2>2, <3>1, <3>2, <3>3
      <3> QED BY <1>2, <3>1, <3>2, <3>4
    <2> QED BY <2>1, <2>2
  <1> QED BY <1>1, <1>2, <1>4 DEF RemovedFromList, Live

(* The invariant holds before the first program runs.                      *)
LEMMA SessionInitially == SessionInit => SInv
  <1> SUFFICES ASSUME SessionInit PROVE SInv
    OBVIOUS
  <1>1. IInv
    BY Initially DEF SessionInit
  <1>2. stored \in SUBSET Uuid /\ unopened \in BOOLEAN /\ overwritten \in SUBSET Uuid
    BY <1>1, IdsAreUuids DEF SessionInit
  <1>3. status \in [Uuid -> Status]
    BY SessionAssumption DEF SessionInit
  <1>4. Fields
    BY <1>2, <1>3 DEF SessionInit, Fields
  <1>5. InStep
    BY DEF SessionInit, Init, InStep, LoadingList
  <1>6. SessionInMain /\ SessionMatchesEmployee
    BY DEF SessionInit, SessionInMain, SessionMatchesEmployee
  <1>7. RemovedFromList
    BY DEF SessionInit, Init, EmptyList, RemovedFromList
  <1> QED BY <1>1, <1>4, <1>5, <1>6, <1>7 DEF SInv

-----------------------------------------------------------------------------

(* A program that ends, by return or by a crash, leaves only its file.     *)
LEMMA EndKeeps ==
    ASSUME SInv, NEW how \in {"success", "failure", "crash"}, End(how)
    PROVE  SInv'
  <1>1. IInv /\ Stop /\ Fields
    BY DEF SInv, End
  <1>2. IInv'
    BY <1>1, Inductive DEF Next
  <1>3. Fields'
    <2>1. status' \in [Uuid -> Status]
      BY SessionAssumption DEF End
    <2> QED BY <1>1, <2>1 DEF End, Fields, histories
  <1>4. InStep' /\ SessionInMain' /\ SessionMatchesEmployee'
    BY DEF End, Stop, InStep, LoadingList, SessionInMain,
       SessionMatchesEmployee
  <1>5. RemovedFromList'
    BY DEF End, Stop, RemovedFromList
  <1> QED BY <1>2, <1>3, <1>4, <1>5 DEF SInv

(* Loading an entry adds to the list and is no part of a session.          *)
LEMMA LoadNextKeeps ==
    ASSUME SInv, LoadNext
    PROVE  SInv'
  <1>1. /\ IInv /\ Fields /\ InStep /\ SessionInMain /\ RemovedFromList
        /\ LoadEntry
        /\ UNCHANGED sessionVars
        /\ program \in {"install:loading", "main:loading"}
    BY DEF SInv, LoadNext
  <1>2. IInv'
    BY <1>1, Inductive DEF Next
  <1>3. /\ mode' = "LOGGED_OUT"
        /\ Fields' /\ InStep' /\ SessionInMain'
    BY <1>1 DEF LoadEntry, sessionVars, histories, Fields, InStep, LoadingList,
       SessionInMain
  <1>4. RemovedFromList'
    <2>1. CASE Accepted(Head(toLoad))
      <3>1. Put(Head(toLoad).uuid, Head(toLoad).content)
        BY <1>1, <2>1 DEF LoadEntry
      <3>2. Head(toLoad) \in Entry
        BY <1>1, HeadTailProperties DEF LoadEntry, IInv, TypeOK
      <3>3. Head(toLoad).uuid \in Uuid /\ Head(toLoad).content \in Content
        BY <3>2 DEF Entry
      <3> QED BY <1>1, <3>1, <3>3, PutGrows
    <2>2. CASE ~Accepted(Head(toLoad))
      BY <1>1, <2>2 DEF LoadEntry, RemovedFromList, Live
    <2> QED BY <2>1, <2>2
  <1> QED BY <1>2, <1>3, <1>4 DEF SInv, SessionMatchesEmployee

(* So does creating the first administrator.                               *)
LEMMA CreateAdminKeeps ==
    ASSUME SInv, CreateAdmin
    PROVE  SInv'
  <1>1. /\ IInv /\ Fields /\ InStep /\ SessionInMain /\ RemovedFromList
        /\ program = "install:check" /\ program' = "install:save"
        /\ UNCHANGED <<file, phase, toLoad, mode, employee, status, exit,
                       histories>>
    BY DEF SInv, CreateAdmin
  <1> DEFINE admin == [pwd |-> DefaultPassword,
                       perms |-> {"AUTH", "ADMINISTRATOR"}]
  <1>2. PICK u \in Uuid : Put(u, admin)
    BY DEF CreateAdmin
  <1>3. admin \in Content
    BY SessionAssumption DEF Permission
  <1> HIDE DEF admin
  <1>4. RemovedFromList'
    BY <1>1, <1>2, <1>3, PutGrows
  <1>5. IInv'
    <2>1. /\ map' \in [Uuid -> Address \cup {NoNode}]
          /\ registry' \in Seq(Address)
          /\ heap' \in [Address -> Node \cup {Garbage}]
          /\ MapConsistent' /\ MapEnumerated'
      BY <1>1, <1>2, <1>3, PutKeeps
    <2>2. phase # "saving"
      BY <1>1 DEF InStep
    <2> QED BY <1>1, <2>1, <2>2 DEF IInv, TypeOK, SaveReadable
  <1>6. mode' = "LOGGED_OUT" /\ Fields' /\ InStep' /\ SessionInMain'
    BY <1>1 DEF Fields, InStep, LoadingList, SessionInMain, histories
  <1> QED BY <1>4, <1>5, <1>6 DEF SInv, SessionMatchesEmployee

(* The steps that leave the list alone but for the call it is in.          *)
LEMMA OtherStepsKeep ==
    ASSUME SInv, Fields', InStep', SessionInMain',
           [Next]_vars, UNCHANGED <<map, registry, heap>>,
           mode' # "LOGGED_OUT" => UNCHANGED <<mode, employee>>
    PROVE  SInv'
  <1>1. IInv'
    BY Inductive DEF SInv
  <1>2. RemovedFromList'
    BY DEF SInv, RemovedFromList, Live
  <1>3. SessionMatchesEmployee'
    BY DEF SInv, SessionMatchesEmployee, Account
  <1> QED BY <1>1, <1>2, <1>3 DEF SInv

(* A login takes an employee of the list whose permissions allow it.       *)
LEMMA LoginKeeps ==
    ASSUME SInv, NEW i \in DOMAIN registry, NEW p \in Password, Login(i, p)
    PROVE  SInv'
  <1> DEFINE u == heap[registry[i]].uuid
  <1>1. /\ IInv /\ Fields /\ InStep /\ SessionInMain /\ RemovedFromList
        /\ program = "main"
        /\ "AUTH" \in Account(u).perms
        /\ employee' = u
        /\ mode' = IF "ADMINISTRATOR" \in Account(u).perms
                   THEN "ELEVATED" ELSE "NORMAL"
        /\ UNCHANGED <<vars, program, status, exit, histories>>
    BY DEF SInv, Login
  <1>2. u \in Uuid /\ map[u] # NoNode
    BY <1>1, ListedIsLive
  <1> HIDE DEF u
  <1>3. IInv'
    BY <1>1, Inductive
  <1>4. /\ Fields' /\ InStep' /\ SessionInMain' /\ RemovedFromList'
    BY <1>1, <1>2 DEF Fields, InStep, LoadingList, SessionInMain,
       RemovedFromList, Live, vars, histories
  <1>5. UNCHANGED <<map, heap>>
    BY <1>1 DEF vars
  <1>6. SessionMatchesEmployee'
    BY <1>1, <1>2, <1>5 DEF SessionMatchesEmployee, Account
  <1> QED BY <1>3, <1>4, <1>6 DEF SInv

(* A changed password changes no permission of the employee.               *)
LEMMA ChangePasswordKeeps ==
    ASSUME SInv, NEW old \in Password, NEW new \in Password,
           ChangePassword(old, new)
    PROVE  SInv'
  <1> DEFINE c == [Account(employee) EXCEPT !.pwd = new]
  <1>1. /\ IInv /\ Fields /\ InStep /\ SessionInMain /\ RemovedFromList
        /\ program = "main" /\ mode = "NORMAL"
        /\ Update(employee, c)
        /\ unsaved' = unsaved \cup {employee}
        /\ UNCHANGED <<program, mode, employee, status, exit, stored,
                       unopened, overwritten>>
    BY DEF SInv, ChangePassword
  <1>2. /\ employee \in Uuid
        /\ map[employee] # NoNode
        /\ "AUTH" \in Account(employee).perms
        /\ "ADMINISTRATOR" \notin Account(employee).perms
    BY <1>1 DEF SInv, SessionMatchesEmployee
  <1>3. map[employee] \in Address /\ heap[map[employee]] \in Node
    BY <1>1, <1>2 DEF IInv, TypeOK, MapConsistent
  <1>4. Account(employee) \in [pwd : Password, perms : SUBSET Permission]
    BY <1>3, SessionAssumption DEF Account, Node
  <1>5. c \in Content /\ c.perms = Account(employee).perms
    BY <1>4, SessionAssumption
  <1> HIDE DEF c
  <1>6. IInv'
    BY <1>1, <1>2, <1>5, Inductive DEF Next
  <1>7. /\ Fields' /\ InStep' /\ SessionInMain' /\ RemovedFromList'
    BY <1>1, <1>2 DEF Update, Fields, InStep, LoadingList, SessionInMain,
       RemovedFromList, Live
  <1>8. /\ map' = map
        /\ heap' = [heap EXCEPT ![map[employee]].content = c]
        /\ heap \in [Address -> Node \cup {Garbage}]
    BY <1>1 DEF Update, IInv, TypeOK
  <1>9. heap'[map[employee]].content = c
    BY <1>3, <1>8 DEF Node
  <1>10. SessionMatchesEmployee'
    BY <1>1, <1>2, <1>5, <1>8, <1>9 DEF SessionMatchesEmployee, Account
  <1> QED BY <1>6, <1>7, <1>10 DEF SInv

(* Every step of every program keeps the invariant.                        *)
LEMMA SessionInductive == SInv /\ [SessionNext]_allVars => SInv'
  <1> SUFFICES ASSUME SInv, [SessionNext]_allVars PROVE SInv'
    OBVIOUS
  <1>0. /\ IInv /\ Fields /\ InStep /\ SessionInMain
    BY DEF SInv
  <1> USE DEF Fields, InStep, LoadingList, SessionInMain, histories
  <1>1. ASSUME NEW p \in {"install:load", "main:load"}, Run(p) PROVE SInv'
    BY <1>0, <1>1, OtherStepsKeep DEF Run, Start, Next
  <1>2. CASE LoadFile
    BY <1>0, <1>2, OtherStepsKeep DEF LoadFile, Loading, LoadOpen, Next
  <1>3. CASE SkipLoad
    BY <1>0, <1>3, OtherStepsKeep DEF SkipLoad, Loading, AfterLoad, vars
  <1>4. CASE LoadThrows
    BY <1>4, EndKeeps DEF LoadThrows
  <1>5. CASE LoadNext
    BY <1>5, LoadNextKeeps
  <1>6. CASE LoadDone
    BY <1>0, <1>6, OtherStepsKeep DEF LoadDone, LoadEnd, Next
  <1>7. CASE CreateAdmin
    BY <1>7, CreateAdminKeeps
  <1>8. CASE KeepAccounts \/ ReturnSuccess \/ ExitAtLogin
    BY <1>8, EndKeeps DEF KeepAccounts, ReturnSuccess, ExitAtLogin
  <1>9. CASE Save \/ SkipSave
    BY <1>0, <1>9, OtherStepsKeep DEF Save, SkipSave, SaveOpen, Next, vars
  <1>10. CASE Saved
    <2>1. SaveClose /\ Next
      BY <1>10 DEF Saved, Next
    <2>2. (Ids(file) \subseteq Uuid)'
      <3>1. IInv'
        BY <1>0, <2>1, Inductive
      <3> QED BY <3>1, IdsAreUuids, PTL
    <2>3. Fields'
      BY <1>0, <1>10, <2>2 DEF Saved
    <2> QED
      BY <1>0, <1>10, <2>1, <2>3, OtherStepsKeep DEF Saved, SaveClose
  <1>11. ASSUME NEW i \in DOMAIN registry, NEW p \in Password, Login(i, p)
         PROVE  SInv'
    BY <1>11, LoginKeeps
  <1>12. ASSUME NEW i \in DOMAIN registry, NEW p \in Password, LoginFails(i, p)
         PROVE  SInv'
    BY <1>12, EndKeeps DEF LoginFails
  <1>13. CASE LogOut
    BY <1>0, <1>13, OtherStepsKeep DEF LogOut, vars
  <1>14. CASE ExitMenu
    BY <1>0, <1>14, OtherStepsKeep DEF ExitMenu, vars
  <1>15. ASSUME NEW s \in Status, SetStatus(s) PROVE SInv'
    BY <1>0, <1>15, OtherStepsKeep DEF SetStatus, vars
  <1>16. ASSUME NEW old \in Password, NEW new \in Password,
                ChangePassword(old, new)
         PROVE  SInv'
    BY <1>16, ChangePasswordKeeps
  <1>17. CASE End("crash")
    BY <1>17, EndKeeps
  <1>18. CASE UNCHANGED allVars
    BY <1>0, <1>18, OtherStepsKeep DEF allVars, vars, sessionVars
  <1> QED
    BY <1>1, <1>2, <1>3, <1>4, <1>5, <1>6, <1>7, <1>8, <1>9, <1>10, <1>11,
       <1>12, <1>13, <1>14, <1>15, <1>16, <1>17, <1>18 DEF SessionNext

(* Hence it holds throughout.                                              *)
LEMMA SessionInvariant == SessionSpec => []SInv
  BY SessionInitially, SessionInductive, PTL DEF SessionSpec

(* The programs and the list they use are well typed.                      *)
THEOREM SessionTypeCorrect == SessionSpec => []SessionTypeOK
  <1>1. SInv => SessionTypeOK
    BY DEF SInv, IInv, Fields, SessionTypeOK
  <1> QED BY <1>1, SessionInvariant, PTL

(* The menus of a session are those of an employee who may log in, with    *)
(* the permissions that employee has (Main.cpp, modes of main).            *)
THEOREM SessionIsOfAnEmployee == SessionSpec => []SessionMatchesEmployee
  <1>1. SInv => SessionMatchesEmployee
    BY DEF SInv
  <1> QED BY <1>1, SessionInvariant, PTL

-----------------------------------------------------------------------------
(* No account is lost.                                                     *)

(* At first stored is what the file has.                                   *)
LEMMA FoundInitially == LoadsAll /\ SessionInit => StoredFound
  <1> SUFFICES ASSUME LoadsAll, SessionInit PROVE StoredFound
    OBVIOUS
  <1>1. /\ file \in InitialFiles
        /\ toLoad = <<>>
        /\ program = "none"
        /\ stored = Ids(file)
    BY DEF SessionInit, Init
  <1>2. AllAccepted(file.list) /\ AllAccepted(toLoad)
    BY <1>1 DEF LoadsAll, AllAccepted
  <1>3. file.kind = "absent" => stored = {}
    BY <1>1, SessionAssumption DEF Ids
  <1> QED BY <1>1, <1>2, <1>3 DEF StoredFound, AccountsSurvive

(* Whether a list is accepted depends on its entries only.                 *)
LEMMA AcceptedLists ==
    ASSUME StoredFound
    PROVE  /\ file' = file => AllAccepted(file.list)'
           /\ file'.list = <<>> => AllAccepted(file.list)'
           /\ toLoad' = toLoad => AllAccepted(toLoad)'
           /\ toLoad' = <<>> => AllAccepted(toLoad)'
           /\ toLoad' = file.list => AllAccepted(toLoad)'
  <1>1. AllAccepted(<<>>)
    BY DEF AllAccepted
  <1> QED BY <1>1, Zenon DEF StoredFound

(* Steps outside load and save leave both the accounts and the file.       *)
LEMMA FoundUnchanged ==
    ASSUME StoredFound, UNCHANGED <<file, stored, overwritten, toLoad>>,
           program' # "saving",
           \/ program' \in {"none", "install:load", "main:load", "return"}
           \/ stored = {}
           \/ unopened'
           \/ /\ UNCHANGED <<map, unopened>>
              /\ LoadingList' <=> LoadingList
              /\ program \notin {"none", "install:load", "main:load", "return"}
    PROVE  StoredFound'
  <1>1. /\ AllAccepted(file.list)' /\ AllAccepted(toLoad)'
        /\ (file.kind = "absent" => stored = {})'
        /\ AccountsSurvive'
    BY AcceptedLists DEF StoredFound, AccountsSurvive, Ids
  <1>2. ASSUME program' \notin {"none", "install:load", "main:load", "return"},
               ~unopened', NEW u \in stored \ overwritten
        PROVE  Found(u)'
    <2>1. /\ UNCHANGED <<map, toLoad>> /\ ~unopened
          /\ LoadingList' <=> LoadingList
          /\ program \notin {"none", "install:load", "main:load", "return"}
      BY <1>2
    <2>2. Found(u)
      BY <1>2, <2>1 DEF StoredFound
    <2> QED BY <2>1, <2>2 DEF Found
  <1> QED BY <1>1, <1>2 DEF StoredFound

(* An entry that is loaded need not be found among the rest any more.      *)
LEMMA FoundByLoadNext ==
    ASSUME SInv, StoredFound, LoadNext
    PROVE  StoredFound'
  <1> DEFINE e == Head(toLoad)
  <1>1. /\ IInv /\ RemovedFromList /\ stored \in SUBSET Uuid
        /\ LoadingList /\ LoadingList'
        /\ UNCHANGED <<file, program, stored, unopened, overwritten>>
        /\ toLoad # <<>> /\ toLoad' = Tail(toLoad)
        /\ toLoad \in Seq(Entry)
    BY DEF SInv, Fields, LoadNext, LoadEntry, LoadingList, sessionVars,
       histories, IInv, TypeOK
  <1>2. /\ Len(toLoad) \in Nat /\ Len(toLoad) >= 1
        /\ DOMAIN toLoad = 1 .. Len(toLoad)
        /\ e = toLoad[1] /\ e \in Entry
        /\ DOMAIN toLoad' = 1 .. Len(toLoad) - 1
        /\ \A k \in 1 .. Len(toLoad) - 1 : toLoad'[k] = toLoad[k + 1]
    <2>1. /\ Head(toLoad) = toLoad[1] /\ Head(toLoad) \in Entry
          /\ Tail(toLoad) \in Seq(Entry)
          /\ Len(Tail(toLoad)) = Len(toLoad) - 1
          /\ \A k \in 1 .. Len(Tail(toLoad)) : Tail(toLoad)[k] = toLoad[k + 1]
      BY <1>1, HeadTailProperties
    <2>2. Len(toLoad) \in Nat /\ DOMAIN toLoad = 1 .. Len(toLoad)
      BY <1>1, LenProperties
    <2>3. Len(toLoad) # 0
      BY <1>1, EmptySeq
    <2>4. DOMAIN Tail(toLoad) = 1 .. Len(Tail(toLoad))
      BY <2>1, LenProperties
    <2> QED BY <1>1, <2>1, <2>2, <2>3, <2>4
  <1>3. Accepted(e)
    BY <1>2 DEF StoredFound, AllAccepted
  <1>4. /\ map'[e.uuid] # NoNode
        /\ \A v \in Uuid : map[v] # NoNode => map'[v] # NoNode
    <2>1. Put(e.uuid, e.content)
      BY <1>3 DEF LoadNext, LoadEntry
    <2>2. e.uuid \in Uuid /\ e.content \in Content
      BY <1>2 DEF Entry
    <2> HIDE DEF e
    <2> QED BY <1>1, <2>1, <2>2, PutGrows
  <1>5. AllAccepted(file.list)' /\ AllAccepted(toLoad)'
    <2>1. AllAccepted(toLoad')
      <3> SUFFICES ASSUME NEW k \in 1 .. Len(toLoad) - 1
                   PROVE  Accepted(toLoad[k + 1])
        BY <1>2 DEF AllAccepted
      <3>1. k + 1 \in DOMAIN toLoad
        BY <1>2
      <3> QED BY <3>1 DEF StoredFound, AllAccepted
    <2> QED BY <1>1, <2>1, AcceptedLists
  <1>6. ASSUME NEW u \in stored \ overwritten, ~unopened PROVE Found(u)'
    <2>1. CASE map[u] # NoNode
      BY <1>1, <1>4, <2>1 DEF Found
    <2>2. ASSUME NEW i \in DOMAIN toLoad, toLoad[i].uuid = u
          PROVE  Found(u)'
      <3>1. CASE i = 1
        BY <1>2, <1>4, <2>2, <3>1 DEF Found
      <3>2. CASE i # 1
        <4>1. i - 1 \in DOMAIN toLoad' /\ toLoad'[i - 1] = toLoad[i]
          BY <1>2, <3>2
        <4> QED BY <1>1, <2>2, <4>1 DEF Found
      <3> QED BY <3>1, <3>2
    <2>3. Found(u)
      BY <1>1, <1>6 DEF StoredFound, LoadingList
    <2> QED BY <2>1, <2>2, <2>3 DEF Found
  <1> QED
    BY <1>1, <1>5, <1>6 DEF StoredFound, AccountsSurvive, Ids, LoadingList

(* What save writes has every account that is found.                       *)
LEMMA FoundBySaved ==
    ASSUME SInv, StoredFound, LoadsAll, Saved
    PROVE  StoredFound'
  <1> DEFINE list == [i \in DOMAIN registry |-> Written(registry[i])]
  <1>1. /\ IInv /\ InStep /\ stored \in SUBSET Uuid
        /\ program = "saving" /\ program' = "return"
        /\ file' = Whole(list)
        /\ UNCHANGED toLoad
        /\ stored' = stored \cup Ids(file')
        /\ overwritten' = overwritten \ Ids(file')
    BY DEF SInv, Fields, Saved, SaveClose
  <1>2. /\ DOMAIN list = DOMAIN registry
        /\ \A i \in DOMAIN registry :
             /\ list[i].uuid = heap[registry[i]].uuid
             /\ list[i].hashcode = "none"
    BY DEF Written
  <1> HIDE DEF list
  <1>3. file'.list = list /\ file'.kind = "whole"
    BY <1>1 DEF Whole
  <1>4. AllAccepted(file'.list)
    BY <1>2, <1>3, EmployeesAssumption DEF AllAccepted, Accepted, LoadsAll
  <1>5. ASSUME NEW u \in stored \ overwritten PROVE u \in Ids(file')
    <2>1. map[u] # NoNode
      BY <1>1 DEF StoredFound, Found, LoadingList
    <2>2. PICK i \in DOMAIN registry : registry[i] = map[u]
      BY <1>1, <2>1 DEF IInv, MapEnumerated
    <2>3. heap[map[u]].uuid = u
      BY <1>1, <2>1 DEF IInv, MapConsistent
    <2> QED BY <1>2, <1>3, <2>2, <2>3 DEF Ids
  <1>6. AccountsSurvive'
    BY <1>1, <1>5 DEF AccountsSurvive
  <1>7. AllAccepted(toLoad')
    BY <1>1 DEF StoredFound, AllAccepted, Accepted
  <1> QED BY <1>1, <1>3, <1>4, <1>6, <1>7 DEF StoredFound

(* Every step keeps every stored account found.                            *)
LEMMA FoundInductive ==
    LoadsAll /\ SInv /\ StoredFound /\ [SessionNext]_allVars => StoredFound'
  <1> SUFFICES ASSUME LoadsAll, SInv, StoredFound, [SessionNext]_allVars
               PROVE  StoredFound'
    OBVIOUS
  <1> DEFINE Ended == \E how \in {"success", "failure", "crash"} : End(how)
  <1>1. CASE Ended
    <2>1. /\ UNCHANGED <<file, stored, overwritten>>
          /\ toLoad' = <<>>
          /\ program' = "none"
      BY <1>1 DEF End, Stop, histories
    <2> QED
      BY <2>1, AcceptedLists DEF StoredFound, AccountsSurvive, Ids
  <1>2. CASE Run("install:load") \/ Run("main:load")
    BY <1>2, FoundUnchanged DEF Run, Start
  <1>3. CASE LoadFile
    <2>1. /\ UNCHANGED <<file, stored, overwritten, map>>
          /\ toLoad' = file.list /\ file.kind = "whole"
          /\ LoadingList'
      BY <1>3 DEF LoadFile, LoadOpen, LoadingList, histories
    <2>2. \A u \in stored \ overwritten : \E i \in DOMAIN toLoad' : toLoad'[i].uuid = u
      BY <2>1 DEF StoredFound, AccountsSurvive, Ids
    <2> QED
      BY <2>1, <2>2, AcceptedLists DEF StoredFound, AccountsSurvive, Found,
         Ids, LoadingList
  <1>4. CASE SkipLoad
    <2>1. stored = {} \/ unopened'
      BY <1>4 DEF SkipLoad, StoredFound
    <2> QED BY <1>4, <2>1, FoundUnchanged DEF SkipLoad, AfterLoad, vars
  <1>5. CASE LoadNext
    BY <1>5, FoundByLoadNext
  <1>6. CASE LoadDone
    <2>1. /\ UNCHANGED <<file, stored, unopened, overwritten, map, toLoad>>
          /\ toLoad = <<>>
          /\ program \notin {"none", "install:load", "main:load", "return"}
          /\ program' # "saving"
      BY <1>6 DEF LoadDone, LoadEnd, histories
    <2>2. unopened \/ \A u \in stored \ overwritten : map[u] # NoNode
      BY <2>1 DEF StoredFound, Found
    <2> QED
      BY <2>1, <2>2, AcceptedLists DEF StoredFound, AccountsSurvive, Found,
         Ids
  <1>7. CASE CreateAdmin
    <2>1. /\ UNCHANGED <<file, stored, unopened, overwritten, toLoad>>
          /\ program = "install:check" /\ program' = "install:save"
          /\ IInv /\ RemovedFromList /\ stored \in SUBSET Uuid
      BY <1>7 DEF CreateAdmin, SInv, Fields, histories
    <2> DEFINE admin == [pwd |-> DefaultPassword,
                         perms |-> {"AUTH", "ADMINISTRATOR"}]
    <2>2. PICK u \in Uuid : Put(u, admin)
      BY <1>7 DEF CreateAdmin
    <2>3. admin \in Content
      BY SessionAssumption DEF Permission
    <2> HIDE DEF admin
    <2>4. \A v \in Uuid : map[v] # NoNode => map'[v] # NoNode
      BY <2>1, <2>2, <2>3, PutGrows
    <2>5. unopened \/ \A v \in stored \ overwritten : map'[v] # NoNode
      BY <2>1, <2>4 DEF StoredFound, Found, LoadingList
    <2> QED
      BY <2>1, <2>5, AcceptedLists DEF StoredFound, AccountsSurvive, Found,
         Ids
  <1>8. CASE Save
    <2>1. /\ UNCHANGED <<stored, unopened, map, toLoad>>
          /\ overwritten' = IF unopened THEN stored ELSE overwritten
          /\ program \in {"main:save", "install:save"}
          /\ program' = "saving"
          /\ file'.kind = "torn" /\ file'.list = <<>>
      BY <1>8 DEF Save, SaveOpen, Torn
    <2> QED
      BY <2>1, AcceptedLists DEF StoredFound, AccountsSurvive, Found,
         LoadingList
  <1>9. CASE Saved
    BY <1>9, FoundBySaved
  <1>10. ASSUME NEW i \in DOMAIN registry, NEW p \in Password, Login(i, p)
         PROVE  StoredFound'
    BY <1>10, FoundUnchanged DEF Login, vars, histories, LoadingList
  <1>11. CASE LogOut \/ ExitMenu \/ SkipSave
    BY <1>11, FoundUnchanged
    DEF LogOut, ExitMenu, SkipSave, vars, histories, LoadingList
  <1>12. ASSUME NEW s \in Status, SetStatus(s) PROVE StoredFound'
    BY <1>12, FoundUnchanged DEF SetStatus, vars, histories, LoadingList
  <1>13. ASSUME NEW old \in Password, NEW new \in Password,
                ChangePassword(old, new)
         PROVE  StoredFound'
    BY <1>13, FoundUnchanged DEF ChangePassword, Update, LoadingList
  <1>14. CASE UNCHANGED allVars
    BY <1>14, AcceptedLists DEF allVars, vars, sessionVars, histories,
       StoredFound, AccountsSurvive, Found, LoadingList, Ids
  <1> QED
    BY <1>1, <1>2, <1>3, <1>4, <1>5, <1>6, <1>7, <1>8, <1>9, <1>10, <1>11,
       <1>12, <1>13, <1>14 DEF SessionNext, LoadThrows, KeepAccounts,
       ReturnSuccess, ExitAtLogin, LoginFails

(* A complete file lacks an account an earlier one held only where a       *)
(* program saved over a file that exists and that it had failed to open,   *)
(* provided load accepts entries without hash code: in validation mode     *)
(* Strict it refuses what save writes (BindingsImpl.cpp:283).              *)
THEOREM NoAccountLost ==
    ASSUME LoadsAll
    PROVE  SessionSpec => []AccountsSurvive
  <1>1. SessionInit => StoredFound
    BY FoundInitially
  <1>2. SInv /\ StoredFound /\ [SessionNext]_allVars => StoredFound'
    BY FoundInductive
  <1>3. StoredFound => AccountsSurvive
    BY DEF StoredFound
  <1> QED BY <1>1, <1>2, <1>3, SessionInvariant, PTL DEF SessionSpec

-----------------------------------------------------------------------------
(* The programs and the account store.                                     *)

(* A program uses the list by the calls of Employees, none of them a       *)
(* removal; creating the first administrator enters an employee too.       *)
LEMMA SessionListStep ==
    ASSUME SInv, [SessionNext]_allVars
    PROVE  [ListStep]_vars
  <1>0. /\ IInv /\ Fields /\ InStep
        /\ phase \in {"down", "ready", "loading", "saving"}
    BY DEF SInv, IInv, TypeOK
  <1>1. ASSUME \E p \in {"install:load", "main:load"} : Run(p)
        PROVE  ListStep
    BY <1>1 DEF Run, ListStep
  <1>2. CASE LoadFile \/ LoadNext \/ LoadDone \/ Save \/ Saved
    BY <1>2 DEF LoadFile, LoadNext, LoadDone, Save, Saved, ListStep
  <1>3. ASSUME NEW how \in {"success", "failure", "crash"}, End(how)
        PROVE  ListStep
    BY <1>3 DEF End, ListStep
  <1>4. CASE CreateAdmin
    <2> DEFINE admin == [pwd |-> DefaultPassword,
                         perms |-> {"AUTH", "ADMINISTRATOR"}]
    <2>1. admin \in Content
      BY SessionAssumption DEF Permission
    <2>2. PICK u \in Uuid : Put(u, admin)
      BY <1>4 DEF CreateAdmin
    <2>3. phase = "ready"
      BY <1>0, <1>4 DEF CreateAdmin, InStep, LoadingList
    <2>4. UNCHANGED <<file, phase, toLoad>>
      BY <1>4 DEF CreateAdmin
    <2> HIDE DEF admin
    <2>5. Enter(u, admin)
      BY <2>2, <2>3, <2>4 DEF Enter
    <2> QED
      BY <2>1, <2>5 DEF ListStep
  <1>5. ASSUME NEW old \in Password, NEW new \in Password,
               ChangePassword(old, new)
        PROVE  ListStep
    <2> DEFINE c == [Account(employee) EXCEPT !.pwd = new]
    <2>1. Update(employee, c)
      BY <1>5 DEF ChangePassword
    <2>2. employee \in Uuid /\ map[employee] # NoNode
      BY <1>5 DEF ChangePassword, SInv, SessionMatchesEmployee
    <2>3. map[employee] \in Address /\ heap[map[employee]] \in Node
      BY <1>0, <2>2 DEF IInv, TypeOK, MapConsistent
    <2>4. Account(employee) \in [pwd : Password, perms : SUBSET Permission]
      BY <2>3, SessionAssumption DEF Account, Node
    <2>5. c \in Content
      BY <2>4, SessionAssumption
    <2> HIDE DEF c
    <2> QED
      BY <2>1, <2>2, <2>5 DEF ListStep
  <1>6. ASSUME \/ SkipLoad \/ SkipSave \/ LogOut \/ ExitMenu
               \/ \E i \in DOMAIN registry, p \in Password : Login(i, p)
               \/ \E s \in Status : SetStatus(s)
               \/ UNCHANGED allVars
        PROVE  UNCHANGED vars
    BY <1>6 DEF SkipLoad, SkipSave, LogOut, ExitMenu, Login, SetStatus, allVars
  <1> QED
    BY <1>1, <1>2, <1>3, <1>4, <1>5, <1>6
    DEF SessionNext, LoadThrows, KeepAccounts, ReturnSuccess, ExitAtLogin,
        LoginFails

(* Whatever the programs do, the file and the list they share are the      *)
(* promised account store: installation check, logins and the changes of a *)
(* session amount to starts, stops, loads, saves and changes of accounts.  *)
(* The programs remove nobody, so no assumption on freed memory; the       *)
(* mode has to accept what save writes (BindingsImpl.cpp:283).             *)
THEOREM SessionImplementsStore ==
    ASSUME Validation # "Strict"
    PROVE  SessionSpec => ImplementsAccountStore
  <1>1. SessionInit => StoreInv /\ S!Init
    BY StoreInitially, InitImplements DEF SessionInit
  <1>2. SInv /\ SInv' /\ StoreInv /\ [SessionNext]_allVars => StoreInv'
    BY SessionListStep, StepKeepsStore DEF SInv
  <1>3. SInv /\ StoreInv /\ StoreInv' /\ [SessionNext]_allVars
          => [S!Next]_(S!storeVars)
    BY SessionListStep, StepImplements
  <1> QED
    BY <1>1, <1>2, <1>3, SessionInvariant, PTL
    DEF SessionSpec, ImplementsAccountStore, S!Spec
=============================================================================
