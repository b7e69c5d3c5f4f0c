--------------------------- MODULE EmployeeProofs ---------------------------
(***************************************************************************)
(* Theorems about Employee, for every number of threads and every set of   *)
(* passwords, salts, pays and assigned objects.                            *)
(***************************************************************************)
EXTENDS Employee, TLAPS

(* Which calls pass through a step.                                        *)
OpsAt(label) ==
    CASE label = "authenticate" -> {"authenticate"}
      [] label = "checkPassword" -> {"changePassword"}
      [] label \in {"copySalt", "copyHash"} -> {"changePassword", "setPassword"}
      [] label \in {"markFirst", "changePermissions"}
            -> {"addPermission", "removePermission"}
      [] label = "writePay" -> {"setPay"}
      [] label = "markDirty"
            -> {"changePassword", "setPassword", "setPay", "markDirty"}
      [] label = "markClean" -> {"markClean"}
      [] label = "writeStatus" -> {"setStatus"}
      [] OTHER -> {"assign"}

Inside(t) == pc[t] \notin {"idle", "lock"}

StepsMatchCalls ==
    \A t \in Threads :
        /\ Inside(t) => request[t].op \in OpsAt(pc[t])
        /\ pc[t] = "copyHash" => drawn[t] \in Salt

Typed == TypeOK /\ StepsMatchCalls

(* The fields that a request of each operation has.                        *)
LEMMA RequestFields ==
    ASSUME NEW r \in Request
    PROVE  /\ r.op \in {"authenticate", "changePassword", "setPassword",
                        "addPermission", "removePermission", "setPay",
                        "setStatus", "assign", "markDirty", "markClean"}
           /\ r.op = "authenticate" => r.pwd \in Password
           /\ r.op = "changePassword" => r.pwd \in Password /\ r.new \in Password
           /\ r.op = "setPassword" => r.new \in Password
           /\ r.op \in {"addPermission", "removePermission"}
                => r.perm \in Permission
           /\ r.op = "setPay" => r.salary \in Pay
           /\ r.op = "setStatus" => r.s \in Status
           /\ r.op = "assign" => r.from \in Incoming
  BY DEF Request

(* The first step of an operation is one that serves it.                   *)
LEMMA FirstStepMatches ==
    ASSUME NEW r \in Request
    PROVE  /\ FirstStep(r.op) \in Labels \ {"idle", "lock", "copyHash",
                                            "assignHash", "changePermissions"}
           /\ r.op \in OpsAt(FirstStep(r.op))
  BY RequestFields DEF FirstStep, Labels, OpsAt

(* Every password has an image.                                            *)
LEMMA ImageType == \A p \in Password : Image[p] \in Images
  BY PasswordAssumption DEF Images

(* What is known of an object assigned from.                               *)
LEMMA IncomingFields ==
    ASSUME NEW e \in Incoming
    PROVE  /\ e \in EmployeeState
           /\ e.salt \in Salt
           /\ e.hash \in [image : Images, salt : Salt]
           /\ e.permissions \in SUBSET Permission
           /\ e.salary \in Pay
           /\ e.s \in Status
           /\ e.dirty \in BOOLEAN
           /\ e.hash.salt = e.salt
  BY IncomingAssumption DEF EmployeeState, CredentialsMatch

-----------------------------------------------------------------------------
(* Type correctness.  A step finds in the request the argument it uses     *)
(* because only the calls named by OpsAt reach it.                         *)

(* Initially no call is in progress.                                       *)
LEMMA TypedInit == Init => Typed
  BY DEF Init, Typed, TypeOK, StepsMatchCalls, Inside, Labels, Idle

(* The frame shared by the actions: a return, and a step inside a call.    *)
LEMMA TypedReturn ==
    ASSUME Typed, NEW t \in Threads, Return(t),
           emp' \in EmployeeState, modified' \in BOOLEAN, replaced' \in BOOLEAN,
           answer' \in [Threads -> AuthenticationResult \cup {"none"}]
    PROVE  Typed'
  <1> USE DEF Typed, TypeOK
  <1>1. owner' \in Threads \cup {NoThread}
    BY DEF Return
  <1>2. pc' \in [Threads -> Labels]
    BY DEF Return, Goto, Labels
  <1>3. request' \in [Threads -> Request \cup {Idle}]
    BY DEF Return
  <1>4. drawn' \in [Threads -> Salt \cup {NoSalt}]
    BY DEF Return
  <1>5. \A u \in Threads : \/ pc'[u] = "idle" /\ request'[u] = Idle
                           \/ pc'[u] # "idle" /\ request'[u] \in Request
    BY DEF Return, Goto
  <1>6. StepsMatchCalls'
    BY DEF Return, Goto, StepsMatchCalls, Inside
  <1> QED
    BY <1>1, <1>2, <1>3, <1>4, <1>5, <1>6

(* A step that stays in the call keeps requests and locals typed.          *)
LEMMA TypedGoto ==
    ASSUME Typed, NEW t \in Threads, NEW label \in Labels \ {"idle", "lock"},
           pc[t] # "idle", Goto(t, label), request' = request,
           request[t].op \in OpsAt(label),
           emp' \in EmployeeState, modified' \in BOOLEAN, replaced' \in BOOLEAN,
           owner' \in Threads \cup {NoThread}, answer' = answer,
           drawn' \in [Threads -> Salt \cup {NoSalt}],
           \A u \in Threads \ {t} : drawn'[u] = drawn[u],
           label = "copyHash" => drawn'[t] \in Salt
    PROVE  Typed'
  <1> USE DEF Typed, TypeOK
  <1>1. pc' \in [Threads -> Labels]
    BY DEF Goto
  <1>2. \A u \in Threads : \/ pc'[u] = "idle" /\ request'[u] = Idle
                           \/ pc'[u] # "idle" /\ request'[u] \in Request
    BY DEF Goto
  <1>3. StepsMatchCalls'
    BY DEF Goto, StepsMatchCalls, Inside
  <1> QED
    BY <1>1, <1>2, <1>3

(* Every step keeps types, and arguments with the steps that use them.     *)
LEMMA TypedNext == Typed /\ [Next]_vars => Typed'
  <1> SUFFICES ASSUME Typed, [Next]_vars
               PROVE  Typed'
    OBVIOUS
  <1> USE DEF Typed, TypeOK, histories
  <1>1. ASSUME NEW t \in Threads, Invoke(t)
        PROVE  Typed'
    BY <1>1 DEF Invoke, At, Goto, StepsMatchCalls, Inside, Labels
  <1>2. ASSUME NEW t \in Threads, Lock(t)
        PROVE  Typed'
    <2>1. request[t] \in Request
      BY <1>2 DEF Lock, At
    <2>2. PICK label \in Labels \ {"idle", "lock"} :
             Goto(t, label) /\ request[t].op \in OpsAt(label)
                            /\ label # "copyHash"
      BY <1>2, <2>1, FirstStepMatches DEF Lock
    <2> QED
      BY <1>2, <2>2, TypedGoto DEF Lock, At
  <1>3. ASSUME NEW t \in Threads, Authenticate(t)
        PROVE  Typed'
    <2>1. answer' \in [Threads -> AuthenticationResult \cup {"none"}]
      BY <1>3 DEF Authenticate, Answer, Authentication, AuthenticationResult
    <2> QED
      BY <1>3, <2>1, TypedReturn DEF Authenticate
  <1>4. ASSUME NEW t \in Threads, RefuseChange(t)
        PROVE  Typed'
    <2>1. answer' \in [Threads -> AuthenticationResult \cup {"none"}]
      BY <1>4 DEF RefuseChange, Answer, AuthenticationResult
    <2> QED
      BY <1>4, <2>1, TypedReturn DEF RefuseChange
  <1>5. ASSUME NEW t \in Threads, AcceptChange(t)
        PROVE  Typed'
    <2>1. request[t].op \in OpsAt("copySalt")
      BY <1>5 DEF AcceptChange, At, StepsMatchCalls, Inside, OpsAt
    <2> QED
      BY <1>5, <2>1, TypedGoto DEF AcceptChange, At, Labels
  <1>6. ASSUME NEW t \in Threads, CopySalt(t)
        PROVE  Typed'
    <2>1. request[t].op \in OpsAt("copyHash")
      BY <1>6 DEF CopySalt, At, StepsMatchCalls, Inside, OpsAt
    <2>2. PICK s \in Salt : /\ drawn' = [drawn EXCEPT ![t] = s]
                           /\ emp' = [emp EXCEPT !.salt = s]
      BY <1>6 DEF CopySalt
    <2>3. emp' \in EmployeeState
      BY <2>2 DEF EmployeeState
    <2> QED
      BY <1>6, <2>1, <2>2, <2>3, TypedGoto DEF CopySalt, At, Labels
  <1>7. ASSUME NEW t \in Threads, CopyHash(t)
        PROVE  Typed'
    <2>1. /\ request[t] \in Request
          /\ request[t].op \in {"changePassword", "setPassword"}
          /\ drawn[t] \in Salt
      BY <1>7 DEF CopyHash, At, StepsMatchCalls, Inside, OpsAt
    <2>2. Image[request[t].new] \in Images
      BY <2>1, RequestFields, ImageType
    <2>3. emp' \in EmployeeState
      BY <1>7, <2>1, <2>2 DEF CopyHash, EmployeeState, Digest
    <2>4. request[t].op \in OpsAt("markDirty")
      BY <2>1 DEF OpsAt
    <2> QED
      BY <1>7, <2>3, <2>4, TypedGoto DEF CopyHash, At, Labels
  <1>8. ASSUME NEW t \in Threads, MarkFirst(t)
        PROVE  Typed'
    <2>1. request[t].op \in OpsAt("changePermissions")
      BY <1>8 DEF MarkFirst, At, StepsMatchCalls, Inside, OpsAt
    <2>2. emp' \in EmployeeState
      BY <1>8 DEF MarkFirst, EmployeeState
    <2> QED
      BY <1>8, <2>1, <2>2, TypedGoto DEF MarkFirst, At, Labels
  <1>9. ASSUME NEW t \in Threads, ChangePermissions(t)
        PROVE  Typed'
    <2>1. /\ request[t] \in Request
          /\ request[t].op \in {"addPermission", "removePermission"}
      BY <1>9 DEF ChangePermissions, At, StepsMatchCalls, Inside, OpsAt
    <2>2. request[t].perm \in Permission
      BY <2>1, RequestFields
    <2>3. emp' \in EmployeeState
      BY <1>9, <2>2 DEF ChangePermissions, EmployeeState
    <2> QED
      BY <1>9, <2>3, TypedReturn DEF ChangePermissions
  <1>10. ASSUME NEW t \in Threads, WritePay(t)
         PROVE  Typed'
    <2>1. request[t] \in Request /\ request[t].op = "setPay"
      BY <1>10 DEF WritePay, At, StepsMatchCalls, Inside, OpsAt
    <2>2. emp' \in EmployeeState
      BY <1>10, <2>1, RequestFields DEF WritePay, EmployeeState
    <2>3. request[t].op \in OpsAt("markDirty")
      BY <2>1 DEF OpsAt
    <2> QED
      BY <1>10, <2>2, <2>3, TypedGoto DEF WritePay, At, Labels
  <1>11. ASSUME NEW t \in Threads, MarkDirty(t)
         PROVE  Typed'
    <2>1. emp' \in EmployeeState
      BY <1>11 DEF MarkDirty, EmployeeState
    <2>2. answer' \in [Threads -> AuthenticationResult \cup {"none"}]
      BY <1>11 DEF MarkDirty, Answer, AuthenticationResult
    <2> QED
      BY <1>11, <2>1, <2>2, TypedReturn DEF MarkDirty
  <1>12. ASSUME NEW t \in Threads, MarkClean(t)
         PROVE  Typed'
    <2>1. emp' \in EmployeeState
      BY <1>12 DEF MarkClean, EmployeeState
    <2> QED
      BY <1>12, <2>1, TypedReturn DEF MarkClean
  <1>13. ASSUME NEW t \in Threads, WriteStatus(t)
         PROVE  Typed'
    <2>1. request[t] \in Request /\ request[t].op = "setStatus"
      BY <1>13 DEF WriteStatus, At, StepsMatchCalls, Inside, OpsAt
    <2>2. emp' \in EmployeeState
      BY <1>13, <2>1, RequestFields DEF WriteStatus, EmployeeState
    <2> QED
      BY <1>13, <2>2, TypedReturn DEF WriteStatus
  <1>14. ASSUME NEW t \in Threads,
                AssignFields(t) \/ AssignSalt(t) \/ AssignHash(t)
         PROVE  Typed'
    <2> DEFINE e == request[t].from
    <2>1. request[t] \in Request /\ request[t].op = "assign"
      BY <1>14 DEF AssignFields, AssignSalt, AssignHash, At,
                   StepsMatchCalls, Inside, OpsAt
    <2>2. e \in Incoming
      BY <2>1, RequestFields
    <2>3. emp' \in EmployeeState
      BY <1>14, <2>2, IncomingFields
      DEF AssignFields, AssignSalt, AssignHash, EmployeeState
    <2>4. modified' \in BOOLEAN /\ replaced' \in BOOLEAN
      BY <1>14, <2>2, IncomingFields
      DEF AssignFields, AssignSalt, AssignHash
    <2>5. /\ request[t].op \in OpsAt("assignSalt")
          /\ request[t].op \in OpsAt("assignHash")
      BY <2>1 DEF OpsAt
    <2>6. CASE AssignFields(t)
      BY <2>3, <2>4, <2>5, <2>6, TypedGoto DEF AssignFields, At, Labels
    <2>7. CASE AssignSalt(t)
      BY <2>3, <2>4, <2>5, <2>7, TypedGoto DEF AssignSalt, At, Labels
    <2>8. CASE AssignHash(t)
      BY <2>3, <2>4, <2>8, TypedReturn DEF AssignHash
    <2> QED
      BY <1>14, <2>6, <2>7, <2>8
  <1>15. CASE UNCHANGED vars
    BY <1>15 DEF vars, StepsMatchCalls, Inside
  <1> QED
    BY <1>1, <1>2, <1>3, <1>4, <1>5, <1>6, <1>7, <1>8, <1>9, <1>10, <1>11,
       <1>12, <1>13, <1>14, <1>15 DEF Next, Body

(* Every variable keeps its type, and no step reads an argument the call   *)
(* it serves does not carry.                                               *)
THEOREM TypeCorrect == Spec => []TypeOK
  <1>1. Typed => TypeOK
    BY DEF Typed
  <1> QED
    BY TypedInit, TypedNext, <1>1, PTL DEF Spec

-----------------------------------------------------------------------------
(* Mutual exclusion: the threads past the acquisition of the mutex are     *)
(* exactly its owner.                                                      *)

MutexHeld == \A t \in Threads : Inside(t) <=> owner = t

(* Only the owner of the mutex is inside a body.                           *)
LEMMA MutexHeldNext == Typed /\ MutexHeld /\ [Next]_vars => MutexHeld'
  <1> SUFFICES ASSUME Typed, MutexHeld, [Next]_vars
               PROVE  MutexHeld'
    OBVIOUS
  <1> USE DEF Typed, TypeOK, MutexHeld, Inside
  <1>1. ASSUME NEW t \in Threads, Invoke(t)
        PROVE  MutexHeld'
    BY <1>1 DEF Invoke, At, Goto
  <1>2. ASSUME NEW t \in Threads, Lock(t)
        PROVE  MutexHeld'
    <2>1. /\ request[t] \in Request
          /\ owner = NoThread \/ owner = t
          /\ \A u \in Threads \ {t} : owner # u
      BY <1>2, SentinelAssumption DEF Lock, At
    <2>2. FirstStep(request[t].op) \notin {"idle", "lock"}
      BY <2>1, FirstStepMatches
    <2> QED
      BY <1>2, <2>1, <2>2 DEF Lock, At, Goto
  <1>3. ASSUME NEW t \in Threads, Body(t)
        PROVE  MutexHeld'
    <2>1. owner = t
      BY <1>3 DEF Body, At, Authenticate, RefuseChange, AcceptChange, CopySalt,
                  CopyHash, MarkFirst, ChangePermissions, WritePay, MarkDirty,
                  MarkClean, WriteStatus, AssignFields, AssignSalt, AssignHash
    <2>2. CASE Return(t)
      BY <2>1, <2>2, SentinelAssumption DEF Return, Goto
    <2>3. ASSUME NEW label \in Labels \ {"idle", "lock"},
                 Goto(t, label), owner' = owner
          PROVE  MutexHeld'
      BY <2>1, <2>3 DEF Goto
    <2> QED
      BY <1>3, <2>2, <2>3
      DEF Body, Labels, Authenticate, RefuseChange, AcceptChange, CopySalt,
          CopyHash, MarkFirst, ChangePermissions, WritePay, MarkDirty,
          MarkClean, WriteStatus, AssignFields, AssignSalt, AssignHash
  <1>4. CASE UNCHANGED vars
    BY <1>4 DEF vars
  <1> QED
    BY <1>1, <1>2, <1>3, <1>4 DEF Next

-----------------------------------------------------------------------------
(* Between the copies of salt and hash the two may disagree; only the      *)
(* owner of the mutex can be there, and it knows the salt that is stored.  *)

Replacing(t) == pc[t] \in {"copyHash", "assignHash"}

CredentialsInv ==
    /\ \A t \in Threads :
         /\ pc[t] = "copyHash" => emp.salt = drawn[t]
         /\ pc[t] = "assignHash" => emp.salt = request[t].from.salt
    /\ CredentialsMatch(emp) \/ \E t \in Threads : Replacing(t)

IInv == Typed /\ MutexHeld /\ CredentialsInv

(* The first object has a hash that matches its salt.                      *)
LEMMA IInvInit == Init => IInv
  <1> SUFFICES ASSUME Init PROVE IInv
    OBVIOUS
  <1>1. Typed
    BY TypedInit
  <1>2. MutexHeld
    BY SentinelAssumption DEF Init, MutexHeld, Inside
  <1>3. CredentialsInv
    BY DEF Init, CredentialsInv
  <1> QED
    BY <1>1, <1>2, <1>3 DEF IInv

(* A step that writes neither salt nor hash, of a thread that is not about *)
(* to write the hash and does not go there.                                *)
LEMMA CredentialsKept ==
    ASSUME IInv, NEW t \in Threads, ~Replacing(t),
           pc'[t] \notin {"copyHash", "assignHash"},
           \A u \in Threads \ {t} : /\ pc'[u] = pc[u]
                                    /\ drawn'[u] = drawn[u]
                                    /\ request'[u] = request[u],
           emp'.salt = emp.salt, emp'.hash = emp.hash
    PROVE  CredentialsInv'
  BY DEF IInv, CredentialsInv, CredentialsMatch, Replacing

(* Salt and hash stay related as the label of the owner says.              *)
LEMMA CredentialsNext == IInv /\ [Next]_vars => CredentialsInv'
  <1> SUFFICES ASSUME IInv, [Next]_vars
               PROVE  CredentialsInv'
    OBVIOUS
  <1> USE DEF IInv, Typed, TypeOK, At, Goto
  <1>1. ASSUME NEW t \in Threads, Invoke(t)
        PROVE  CredentialsInv'
    BY <1>1, CredentialsKept DEF Invoke, Replacing
  <1>2. ASSUME NEW t \in Threads, Lock(t)
        PROVE  CredentialsInv'
    <2>1. FirstStep(request[t].op) \notin {"copyHash", "assignHash"}
      BY <1>2, FirstStepMatches DEF Lock
    <2> QED
      BY <1>2, <2>1, CredentialsKept DEF Lock, Replacing
  <1>3. ASSUME NEW t \in Threads,
               \/ Authenticate(t)
               \/ RefuseChange(t)
               \/ AcceptChange(t)
        PROVE  CredentialsInv'
    BY <1>3, CredentialsKept
    DEF Authenticate, RefuseChange, AcceptChange, Return, Replacing
  <1>4. ASSUME NEW t \in Threads,
               \/ MarkFirst(t)
               \/ ChangePermissions(t)
               \/ WritePay(t)
               \/ MarkDirty(t)
               \/ MarkClean(t)
               \/ WriteStatus(t)
               \/ AssignFields(t)
        PROVE  CredentialsInv'
    <2>1. emp'.salt = emp.salt /\ emp'.hash = emp.hash
      BY <1>4 DEF MarkFirst, ChangePermissions, WritePay, MarkDirty,
                  MarkClean, WriteStatus, AssignFields, EmployeeState
    <2> QED
      BY <1>4, <2>1, CredentialsKept
      DEF MarkFirst, ChangePermissions, WritePay, MarkDirty, MarkClean,
          WriteStatus, AssignFields, Return, Replacing
  <1>5. ASSUME NEW t \in Threads, CopySalt(t)
        PROVE  CredentialsInv'
    <2>1. \A u \in Threads \ {t} : ~Inside(u) /\ pc'[u] = pc[u]
      BY <1>5 DEF CopySalt, MutexHeld, Inside
    <2>2. pc'[t] = "copyHash" /\ emp'.salt = drawn'[t]
      BY <1>5 DEF CopySalt, EmployeeState
    <2> QED
      BY <2>1, <2>2 DEF CredentialsInv, Replacing, Inside
  <1>6. ASSUME NEW t \in Threads, CopyHash(t)
        PROVE  CredentialsInv'
    <2>1. \A u \in Threads \ {t} : ~Inside(u) /\ pc'[u] = pc[u]
      BY <1>6 DEF CopyHash, MutexHeld, Inside
    <2>2. pc'[t] = "markDirty"
      BY <1>6 DEF CopyHash
    <2>3. CredentialsMatch(emp')
      BY <1>6 DEF CopyHash, CredentialsInv, CredentialsMatch, Digest,
                  EmployeeState
    <2> QED
      BY <2>1, <2>2, <2>3 DEF CredentialsInv, CredentialsMatch, Inside
  <1>7. ASSUME NEW t \in Threads, AssignSalt(t)
        PROVE  CredentialsInv'
    <2>1. \A u \in Threads \ {t} : ~Inside(u) /\ pc'[u] = pc[u]
      BY <1>7 DEF AssignSalt, MutexHeld, Inside
    <2>2. pc'[t] = "assignHash" /\ emp'.salt = request'[t].from.salt
      BY <1>7 DEF AssignSalt, EmployeeState
    <2> QED
      BY <2>1, <2>2 DEF CredentialsInv, Replacing, Inside
  <1>8. ASSUME NEW t \in Threads, AssignHash(t)
        PROVE  CredentialsInv'
    <2>1. \A u \in Threads \ {t} : ~Inside(u) /\ pc'[u] = pc[u]
      BY <1>8 DEF AssignHash, Return, MutexHeld, Inside
    <2>2. pc'[t] = "idle"
      BY <1>8 DEF AssignHash, Return
    <2>3. request[t] \in Request /\ request[t].op = "assign"
      BY <1>8 DEF AssignHash, StepsMatchCalls, Inside, OpsAt
    <2>4. request[t].from \in Incoming
      BY <2>3, RequestFields
    <2>5. emp'.hash = request[t].from.hash /\ emp'.salt = emp.salt
      BY <1>8 DEF AssignHash, EmployeeState
    <2>6. emp.salt = request[t].from.salt
      BY <1>8 DEF AssignHash, CredentialsInv
    <2>7. CredentialsMatch(emp')
      BY <2>4, <2>5, <2>6, IncomingFields DEF CredentialsMatch
    <2> QED
      BY <2>1, <2>2, <2>7 DEF CredentialsInv, CredentialsMatch, Inside
  <1>9. CASE UNCHANGED vars
    BY <1>9 DEF vars, CredentialsInv, CredentialsMatch, Replacing
  <1> QED
    BY <1>1, <1>2, <1>3, <1>4, <1>5, <1>6, <1>7, <1>8, <1>9 DEF Next, Body

(* The conjunction is inductive and so holds throughout.                   *)
LEMMA Inductive == Spec => []IInv
  <1>1. IInv /\ [Next]_vars => IInv'
    BY TypedNext, MutexHeldNext, CredentialsNext DEF IInv
  <1> QED
    BY IInvInit, <1>1, PTL DEF Spec

(* Whenever the mutex is free the stored hash and salt belong together, so *)
(* the next caller of authenticate finds an account its password opens.    *)
THEOREM CredentialsAlwaysAgree == Spec => []CredentialsAgree
  <1>1. IInv => CredentialsAgree
    BY SentinelAssumption
    DEF IInv, MutexHeld, Inside, CredentialsInv, Replacing, CredentialsAgree
  <1> QED
    BY Inductive, <1>1, PTL

-----------------------------------------------------------------------------
(* While no operator= intervened, changes and mark disagree only while the *)
(* author of the change holds the mutex, on the way to markDirty.          *)

Unmarked(t) == pc[t] \in {"copyHash", "markDirty", "changePermissions"}

MarksInv ==
    /\ \A t \in Threads :
         /\ pc[t] = "changePermissions" => emp.dirty
         /\ pc[t] = "markDirty" => modified \/ request[t].op = "markDirty"
    /\ \/ replaced
       \/ emp.dirty <=> modified
       \/ \E t \in Threads : Unmarked(t)

(* A new object is unchanged and clean.                                    *)
LEMMA MarksInit == Init => MarksInv
  BY DEF Init, MarksInv

(* Under the mutex no other thread is between a write and its mark.        *)
LEMMA OthersOutside ==
    ASSUME IInv, NEW t \in Threads, Inside(t),
           \A u \in Threads \ {t} : pc'[u] = pc[u]
    PROVE  \A u \in Threads \ {t} : ~Unmarked(u) /\ ~Unmarked(u)'
  BY DEF IInv, MutexHeld, Inside, Unmarked

(* Marks stay related to changes as the label of the owner says.           *)
LEMMA MarksNext == IInv /\ MarksInv /\ [Next]_vars => MarksInv'
  <1> SUFFICES ASSUME IInv, MarksInv, [Next]_vars
               PROVE  MarksInv'
    OBVIOUS
  <1> USE DEF IInv, Typed, TypeOK, At, Goto
  <1>1. ASSUME NEW t \in Threads, Invoke(t)
        PROVE  MarksInv'
    BY <1>1 DEF Invoke, MarksInv, Unmarked, histories
  <1>2. ASSUME NEW t \in Threads, Lock(t)
        PROVE  MarksInv'
    <2>1. /\ FirstStep(request[t].op) # "changePermissions"
          /\ FirstStep(request[t].op) = "markDirty"
               => request[t].op = "markDirty"
      BY <1>2, FirstStepMatches, RequestFields DEF Lock, FirstStep
    <2> QED
      BY <1>2, <2>1 DEF Lock, MarksInv, Unmarked, histories
  <1>3. ASSUME NEW t \in Threads, Body(t), emp' = emp, UNCHANGED histories,
               ~Unmarked(t), ~Unmarked(t)',
               \A u \in Threads \ {t} : pc'[u] = pc[u] /\ request'[u] = request[u]
        PROVE  MarksInv'
    BY <1>3 DEF MarksInv, Unmarked, histories
  <1>4. ASSUME NEW t \in Threads,
               \/ Authenticate(t)
               \/ RefuseChange(t)
               \/ AcceptChange(t)
        PROVE  MarksInv'
    BY <1>4, <1>3
    DEF Authenticate, RefuseChange, AcceptChange, Body, Return, Unmarked
  <1>5. ASSUME NEW t \in Threads, CopySalt(t) \/ CopyHash(t) \/ WritePay(t)
        PROVE  MarksInv'
    <2>1. Unmarked(t)' /\ pc'[t] # "changePermissions" /\ modified'
      BY <1>5 DEF CopySalt, CopyHash, WritePay, Unmarked
    <2>2. \A u \in Threads \ {t} : ~Unmarked(u)'
      BY <1>5, OthersOutside DEF CopySalt, CopyHash, WritePay, Inside
    <2> QED
      BY <2>1, <2>2 DEF MarksInv, Unmarked
  <1>6. ASSUME NEW t \in Threads, MarkFirst(t)
        PROVE  MarksInv'
    <2>1. emp'.dirty /\ pc'[t] = "changePermissions"
      BY <1>6 DEF MarkFirst, EmployeeState
    <2>2. \A u \in Threads \ {t} : ~Unmarked(u)'
      BY <1>6, OthersOutside DEF MarkFirst, Inside
    <2> QED
      BY <2>1, <2>2 DEF MarksInv, Unmarked
  <1>7. ASSUME NEW t \in Threads, ChangePermissions(t) \/ MarkDirty(t)
        PROVE  MarksInv'
    <2>1. emp'.dirty
      BY <1>7 DEF ChangePermissions, MarkDirty, MarksInv, EmployeeState
    <2>2. modified'
      BY <1>7 DEF ChangePermissions, MarkDirty, MarksInv
    <2>3. /\ pc'[t] = "idle"
          /\ \A u \in Threads \ {t} : ~Unmarked(u)'
      BY <1>7, OthersOutside DEF ChangePermissions, MarkDirty, Return, Inside
    <2> QED
      BY <2>1, <2>2, <2>3 DEF MarksInv, Unmarked
  <1>8. ASSUME NEW t \in Threads,
               \/ MarkClean(t)
               \/ WriteStatus(t)
               \/ AssignFields(t)
               \/ AssignSalt(t)
               \/ AssignHash(t)
        PROVE  MarksInv'
    <2>1. /\ Inside(t)
          /\ ~Unmarked(t)
          /\ ~Unmarked(t)'
          /\ \A u \in Threads \ {t} : pc'[u] = pc[u]
      BY <1>8 DEF MarkClean, WriteStatus, AssignFields, AssignSalt, AssignHash,
                  Return, Inside, Unmarked
    <2>2. \A u \in Threads : ~Unmarked(u) /\ ~Unmarked(u)'
      BY <2>1, OthersOutside
    <2>3. replaced \/ (emp.dirty <=> modified)
      BY <2>2 DEF MarksInv
    <2>4. replaced' \/ (emp'.dirty <=> modified')
      <3>1. CASE MarkClean(t)
        BY <3>1 DEF MarkClean, EmployeeState
      <3>2. CASE AssignFields(t)
        BY <3>2 DEF AssignFields
      <3>3. CASE WriteStatus(t) \/ AssignSalt(t) \/ AssignHash(t)
        <4>1. emp'.dirty = emp.dirty /\ UNCHANGED histories
          BY <3>3 DEF WriteStatus, AssignSalt, AssignHash, EmployeeState
        <4> QED
          BY <2>3, <4>1 DEF histories
      <3> QED
        BY <1>8, <3>1, <3>2, <3>3
    <2> QED
      BY <2>2, <2>4 DEF MarksInv, Unmarked
  <1>9. CASE UNCHANGED vars
    BY <1>9 DEF vars, MarksInv, Unmarked
  <1> QED
    BY <1>1, <1>2, <1>4, <1>5, <1>6, <1>7, <1>8, <1>9 DEF Next, Body

(* Whenever the mutex is free and operator= was not the last to touch the  *)
(* mark, isDirty tells exactly whether a mutator or markDirty ran since    *)
(* construction or the last markClean.                                     *)
THEOREM MarkAlwaysTellsChanges == Spec => []MarkTellsChanges
  <1>1. IInv /\ MarksInv => MarkTellsChanges
    BY SentinelAssumption
    DEF IInv, MutexHeld, Inside, MarksInv, Unmarked, MarkTellsChanges
  <1>2. IInv /\ MarksInv /\ [Next]_vars => MarksInv'
    BY MarksNext
  <1> QED
    BY Inductive, MarksInit, <1>1, <1>2, PTL DEF Spec

-----------------------------------------------------------------------------
(* Employee implements Account: under every interleaving of its steps the  *)
(* calls on credential and permissions behave as if each took effect at    *)
(* one instant.                                                            *)

(* At most one thread is assigning; the credential callers can observe is  *)
(* then already that of the object assigned from.                          *)
CredentialShape ==
    /\ \A t \in Threads :
         Assigning(t) => AbstractCredential = request[t].from.hash.image
    /\ (\A t \in Threads : ~Assigning(t))
         => AbstractCredential = emp.hash.image

(* At most one thread assigns, so the choice has one outcome.              *)
LEMMA CredentialIs == IInv => CredentialShape
  <1> SUFFICES ASSUME IInv PROVE CredentialShape
    OBVIOUS
  <1>1. ASSUME NEW t \in Threads, Assigning(t)
        PROVE  AbstractCredential = request[t].from.hash.image
    <2>1. \A u \in Threads : Assigning(u) => u = t
      BY <1>1 DEF IInv, MutexHeld, Inside, Assigning
    <2>2. (CHOOSE u \in Threads : Assigning(u)) = t
      BY <1>1, <2>1
    <2> QED
      BY <1>1, <2>2 DEF AbstractCredential
  <1>2. ASSUME \A t \in Threads : ~Assigning(t)
        PROVE  AbstractCredential = emp.hash.image
    BY <1>2 DEF AbstractCredential
  <1> QED
    BY <1>1, <1>2 DEF CredentialShape

(* The same after a step.                                                  *)
LEMMA CredentialIsNext == IInv' => CredentialShape'
  BY CredentialIs, PTL

(* What the abstract state shows of one step of t.                         *)
LEMMA CallOf ==
    ASSUME NEW t \in Threads,
           \A u \in Threads \ {t} : pc'[u] = pc[u] /\ request'[u] = request[u]
    PROVE  AbstractCall' = [AbstractCall EXCEPT ![t] = AbstractCall'[t]]
  BY DEF AbstractCall

(* The same for the answers.                                               *)
LEMMA AnswerOf ==
    ASSUME NEW t \in Threads,
           \A u \in Threads \ {t} : /\ pc'[u] = pc[u]
                                    /\ request'[u] = request[u]
                                    /\ answer'[u] = answer[u]
    PROVE  AbstractAnswer' = [AbstractAnswer EXCEPT ![t] = AbstractAnswer'[t]]
  BY DEF AbstractAnswer

(* Both modules speak of the same calls.                                   *)
LEMMA SameCalls ==
    /\ A!Images = Images
    /\ A!Permission = Permission
    /\ A!Idle = Idle
    /\ A!AccountRequest = AccountRequest
  BY DEF A!Images, Images, A!Permission, Permission, A!Idle, Idle,
         A!AccountRequest, AccountRequest, A!Request, Request,
         A!AccountOps, AccountOps, A!Status, Status

(* Initial states map to initial states.                                   *)
LEMMA InitImplements == Init => A!Init
  <1> SUFFICES ASSUME Init PROVE A!Init
    OBVIOUS
  <1>1. IInv
    BY IInvInit
  <1>2. AbstractCredential = emp.hash.image
    BY <1>1, CredentialIs DEF CredentialShape, Init, Assigning
  <1>3. emp.hash.image \in Images /\ emp.permissions \in SUBSET Permission
    BY DEF Init, EmployeeState
  <1>4. AbstractCall = [t \in Threads |-> Idle]
    BY DEF Init, AbstractCall, Idle, AccountOps
  <1>5. AbstractAnswer = [t \in Threads |-> "none"]
    BY DEF Init, AbstractAnswer
  <1> QED
    BY <1>2, <1>3, <1>4, <1>5, SameCalls DEF A!Init

(* A step that is a stutter of Account: nothing it shows changes.          *)
LEMMA Stutter ==
    ASSUME IInv, IInv', NEW t \in Threads,
           \A u \in Threads \ {t} : /\ pc'[u] = pc[u]
                                    /\ request'[u] = request[u]
                                    /\ answer'[u] = answer[u],
           AbstractCall'[t] = AbstractCall[t],
           AbstractAnswer'[t] = AbstractAnswer[t],
           AbstractCredential' = AbstractCredential,
           emp'.permissions = emp.permissions
    PROVE  UNCHANGED A!accountVars
  <1>1. AbstractCall' = AbstractCall
    BY CallOf DEF AbstractCall
  <1>2. AbstractAnswer' = AbstractAnswer
    BY AnswerOf DEF AbstractAnswer
  <1> QED
    BY <1>1, <1>2 DEF A!accountVars

(* A step of a thread that neither is nor comes to be assigning, while no  *)
(* other thread can be.                                                    *)
LEMMA CredentialOfHash ==
    ASSUME IInv, IInv', NEW t \in Threads, Inside(t),
           ~Assigning(t), ~Assigning(t)',
           \A u \in Threads \ {t} : pc'[u] = pc[u]
    PROVE  /\ AbstractCredential = emp.hash.image
           /\ AbstractCredential' = emp'.hash.image
  <1>1. \A u \in Threads : ~Assigning(u) /\ ~Assigning(u)'
    BY DEF IInv, MutexHeld, Inside, Assigning
  <1> QED
    BY <1>1, CredentialIs, CredentialIsNext DEF CredentialShape

(* The same for a step that leaves object and mutex alone.                 *)
LEMMA CredentialUnmoved ==
    ASSUME IInv, IInv', NEW t \in Threads, emp' = emp,
           ~Assigning(t), ~Assigning(t)',
           \A u \in Threads \ {t} : pc'[u] = pc[u] /\ request'[u] = request[u]
    PROVE  AbstractCredential' = AbstractCredential
  <1>1. CASE \E u \in Threads : Assigning(u)
    <2>1. PICK u \in Threads : Assigning(u)
      BY <1>1
    <2>2. u # t /\ Assigning(u)' /\ request'[u] = request[u]
      BY <2>1 DEF Assigning
    <2> QED
      BY <2>1, <2>2, CredentialIs, CredentialIsNext DEF CredentialShape
  <1>2. CASE \A u \in Threads : ~Assigning(u)
    <2>1. \A u \in Threads : ~Assigning(u)'
      BY <1>2 DEF Assigning
    <2> QED
      BY <1>2, <2>1, CredentialIs, CredentialIsNext DEF CredentialShape
  <1> QED
    BY <1>1, <1>2

(* A call of Account begins, or one that Account does not have.            *)
LEMMA InvokeImplements ==
    ASSUME IInv, IInv', NEW t \in Threads, Invoke(t)
    PROVE  A!Next \/ UNCHANGED A!accountVars
  <1>1. PICK r \in Request : request' = [request EXCEPT ![t] = r]
    BY DEF Invoke
  <1>2. /\ pc[t] = "idle" /\ pc' = [pc EXCEPT ![t] = "lock"]
        /\ emp' = emp /\ answer' = answer /\ request[t] = Idle
        /\ pc \in [Threads -> Labels]
        /\ request \in [Threads -> Request \cup {Idle}]
    BY DEF Invoke, At, Goto, IInv, Typed, TypeOK
  <1>3. AbstractCall[t] = Idle /\ AbstractAnswer'[t] = AbstractAnswer[t]
    BY <1>2 DEF AbstractCall, AbstractAnswer, Idle, AccountOps
  <1>4. AbstractCall'[t] = IF r.op \in AccountOps THEN r ELSE Idle
    BY <1>1, <1>2 DEF AbstractCall
  <1>5. AbstractCredential' = AbstractCredential
    BY <1>1, <1>2, CredentialUnmoved DEF Assigning
  <1>6. CASE r.op \in AccountOps
    <2>1. r \in A!AccountRequest
      BY <1>6, SameCalls DEF AccountRequest
    <2>2. AbstractCall' = [AbstractCall EXCEPT ![t] = r]
      BY <1>1, <1>2, <1>4, <1>6, CallOf
    <2>3. AbstractAnswer' = AbstractAnswer
      BY <1>1, <1>2, <1>3, AnswerOf DEF AbstractAnswer
    <2>4. A!Invoke(t)
      BY <1>2, <1>3, <1>5, <2>1, <2>2, <2>3, SameCalls DEF A!Invoke
    <2> QED
      BY <2>4 DEF A!Next
  <1>7. CASE r.op \notin AccountOps
    BY <1>1, <1>2, <1>3, <1>4, <1>5, <1>7, Stutter
  <1> QED
    BY <1>6, <1>7

(* Acquiring the mutex is invisible.                                       *)
LEMMA LockImplements ==
    ASSUME IInv, IInv', NEW t \in Threads, Lock(t)
    PROVE  UNCHANGED A!accountVars
  <1>1. /\ pc[t] = "lock" /\ request' = request /\ answer' = answer
        /\ request[t] \in Request /\ emp' = emp
        /\ pc' = [pc EXCEPT ![t] = FirstStep(request[t].op)]
        /\ pc \in [Threads -> Labels]
    BY DEF Lock, At, Goto, IInv, Typed, TypeOK
  <1>2. /\ pc'[t] \notin {"assignSalt", "assignHash"}
        /\ request[t].op \in AccountOps => pc'[t] # "markDirty"
    BY <1>1, RequestFields DEF FirstStep, AccountOps
  <1>3. AbstractCredential' = AbstractCredential
    BY <1>1, <1>2, CredentialUnmoved DEF Assigning
  <1>4. AbstractCall'[t] = AbstractCall[t]
    BY <1>1, <1>2 DEF AbstractCall
  <1>5. AbstractAnswer'[t] = AbstractAnswer[t]
    BY <1>1, <1>2 DEF AbstractAnswer, AccountOps
  <1> QED
    BY <1>1, <1>3, <1>4, <1>5, Stutter

(* Under the mutex, between the updates of salt and hash, comparing the    *)
(* salted hashes compares the images.                                      *)
LEMMA PasswordCheck ==
    ASSUME IInv, NEW t \in Threads, Inside(t), ~Replacing(t), NEW p \in Password
    PROVE  PasswordIs(p) <=> Image[p] = emp.hash.image
  <1>1. \A u \in Threads : ~Replacing(u)
    BY DEF IInv, MutexHeld, Inside, Replacing
  <1>2. emp.hash.salt = emp.salt
    BY <1>1 DEF IInv, CredentialsInv, CredentialsMatch
  <1>3. emp.hash \in [image : Images, salt : Salt]
    BY DEF IInv, Typed, TypeOK, EmployeeState
  <1> QED
    BY <1>2, <1>3 DEF PasswordIs, Digest

(* How a return shows.                                                     *)
LEMMA ReturnShows ==
    ASSUME IInv, NEW t \in Threads, Return(t)
    PROVE  /\ AbstractCall' = [AbstractCall EXCEPT ![t] = Idle]
           /\ AbstractAnswer'[t] = answer'[t]
           /\ ~Assigning(t)'
           /\ \A u \in Threads \ {t} : pc'[u] = pc[u] /\ request'[u] = request[u]
  <1>1. /\ pc'[t] = "idle" /\ request'[t] = Idle
        /\ \A u \in Threads \ {t} : pc'[u] = pc[u] /\ request'[u] = request[u]
    BY DEF Return, Goto, IInv, Typed, TypeOK
  <1>2. AbstractCall'[t] = Idle
    BY <1>1 DEF AbstractCall, Idle, AccountOps
  <1> QED
    BY <1>1, <1>2, CallOf DEF AbstractAnswer, Assigning

(* The digest comparison decides as the credential does.                   *)
LEMMA AuthenticateImplements ==
    ASSUME IInv, IInv', NEW t \in Threads, Authenticate(t)
    PROVE  A!Authenticate(t)
  <1> DEFINE p == request[t].pwd
  <1>1. /\ pc[t] = "authenticate" /\ Inside(t)
        /\ request[t] \in Request /\ request[t].op = "authenticate"
        /\ emp' = emp /\ Return(t)
        /\ answer' = [answer EXCEPT ![t] = Authentication(p)]
        /\ answer \in [Threads -> AuthenticationResult \cup {"none"}]
    BY DEF Authenticate, At, Answer, IInv, Typed, TypeOK, StepsMatchCalls,
           Inside, OpsAt
  <1>2. PasswordIs(p) <=> Image[p] = emp.hash.image
    BY <1>1, RequestFields, PasswordCheck DEF Replacing
  <1>3. AbstractCredential = emp.hash.image /\ AbstractCredential' = emp.hash.image
    BY <1>1, ReturnShows, CredentialOfHash DEF Assigning
  <1>4. AbstractCall[t] = request[t]
    BY <1>1 DEF AbstractCall, AccountOps
  <1>5. A!Authentication(p) = Authentication(p)
    BY <1>2, <1>3, SameCalls DEF A!Authentication, Authentication
  <1>6. \A u \in Threads \ {t} : AbstractAnswer'[u] = AbstractAnswer[u]
    BY <1>1, ReturnShows DEF AbstractAnswer
  <1>7. AbstractAnswer' = [AbstractAnswer EXCEPT ![t] = Authentication(p)]
    BY <1>1, <1>6, ReturnShows, AnswerOf DEF AbstractAnswer
  <1> QED
    BY <1>1, <1>3, <1>4, <1>5, <1>7, ReturnShows, SameCalls
    DEF A!Authenticate, A!Answer, A!Return

(* A refusal is one of Account's refusals.                                 *)
LEMMA RefuseImplements ==
    ASSUME IInv, IInv', NEW t \in Threads, RefuseChange(t)
    PROVE  A!RefuseChange(t)
  <1> DEFINE p == request[t].pwd
  <1>1. /\ pc[t] = "checkPassword" /\ Inside(t)
        /\ request[t] \in Request /\ request[t].op = "changePassword"
        /\ emp' = emp /\ Return(t)
        /\ answer \in [Threads -> AuthenticationResult \cup {"none"}]
    BY DEF RefuseChange, At, IInv, Typed, TypeOK, StepsMatchCalls, Inside, OpsAt
  <1>2. PasswordIs(p) <=> Image[p] = emp.hash.image
    BY <1>1, RequestFields, PasswordCheck DEF Replacing
  <1>3. AbstractCredential = emp.hash.image /\ AbstractCredential' = emp.hash.image
    BY <1>1, ReturnShows, CredentialOfHash DEF Assigning
  <1>4. AbstractCall[t] = request[t]
    BY <1>1 DEF AbstractCall, AccountOps
  <1>5. ASSUME NEW result, Answer(t, result)
        PROVE  AbstractAnswer' = [AbstractAnswer EXCEPT ![t] = result]
    BY <1>1, <1>5, ReturnShows, AnswerOf DEF Answer, AbstractAnswer
  <1> QED
    BY <1>1, <1>2, <1>3, <1>4, <1>5, ReturnShows, SameCalls
    DEF RefuseChange, A!RefuseChange, A!Answer, A!Return

-----------------------------------------------------------------------------
(* The password changePassword verified is still in force when the new     *)
(* hash is copied: the mutex is not released in between.                   *)

VerifiedInv ==
    \A t \in Threads :
        /\ pc[t] \in {"copySalt", "copyHash"}
        /\ request[t].op = "changePassword"
        => /\ Image[request[t].pwd] = emp.hash.image
           /\ request[t].new \in LongEnough

(* Initially no change is under way.                                       *)
LEMMA VerifiedInit == Init => VerifiedInv
  BY DEF Init, VerifiedInv

(* What was verified stays true, for the mutex is held.                    *)
LEMMA VerifiedNext == IInv /\ VerifiedInv /\ [Next]_vars => VerifiedInv'
  <1> SUFFICES ASSUME IInv, VerifiedInv, [Next]_vars
               PROVE  VerifiedInv'
    OBVIOUS
  <1> USE DEF IInv, Typed, TypeOK, At, Goto
  <1>1. ASSUME NEW t \in Threads, Invoke(t)
        PROVE  VerifiedInv'
    BY <1>1 DEF Invoke, VerifiedInv
  <1>2. ASSUME NEW t \in Threads, Lock(t)
        PROVE  VerifiedInv'
    <2>1. /\ request[t].op = "changePassword" => pc'[t] = "checkPassword"
          /\ emp' = emp /\ request' = request
          /\ \A u \in Threads \ {t} : pc'[u] = pc[u]
      BY <1>2 DEF Lock, FirstStep
    <2> QED
      BY <2>1 DEF VerifiedInv
  <1>3. ASSUME NEW t \in Threads, Inside(t), request'[t] = request[t],
               \A u \in Threads \ {t} : pc'[u] = pc[u],
               /\ pc'[t] \in {"copySalt", "copyHash"}
               /\ request[t].op = "changePassword"
               => /\ Image[request[t].pwd] = emp'.hash.image
                  /\ request[t].new \in LongEnough
        PROVE  VerifiedInv'
    <2>1. \A u \in Threads \ {t} : pc'[u] \in {"idle", "lock"}
      BY <1>3 DEF MutexHeld, Inside
    <2> QED
      BY <1>3, <2>1 DEF VerifiedInv
  <1>4. ASSUME NEW t \in Threads, AcceptChange(t)
        PROVE  VerifiedInv'
    <2>1. request[t] \in Request /\ request[t].op = "changePassword"
      BY <1>4 DEF AcceptChange, StepsMatchCalls, Inside, OpsAt
    <2>2. Image[request[t].pwd] = emp.hash.image
      BY <1>4, <2>1, RequestFields, PasswordCheck
      DEF AcceptChange, Inside, Replacing
    <2> QED
      BY <1>3, <1>4, <2>2 DEF AcceptChange, Inside
  <1>5. ASSUME NEW t \in Threads, CopySalt(t)
        PROVE  VerifiedInv'
    <2>1. emp'.hash = emp.hash
      BY <1>5 DEF CopySalt, EmployeeState
    <2> QED
      BY <1>3, <1>5, <2>1 DEF CopySalt, Inside, VerifiedInv
  <1>6. ASSUME NEW t \in Threads, Return(t), Inside(t)
        PROVE  VerifiedInv'
    <2>1. /\ pc'[t] = "idle"
          /\ \A u \in Threads \ {t} : pc'[u] \in {"idle", "lock"}
      BY <1>6 DEF Return, MutexHeld, Inside
    <2> QED
      BY <2>1 DEF VerifiedInv
  <1>7. ASSUME NEW t \in Threads,
               \/ CopyHash(t)
               \/ MarkFirst(t)
               \/ WritePay(t)
               \/ AssignFields(t)
               \/ AssignSalt(t)
        PROVE  VerifiedInv'
    BY <1>3, <1>7
    DEF CopyHash, MarkFirst, WritePay, AssignFields, AssignSalt, Inside
  <1>8. ASSUME NEW t \in Threads,
               \/ Authenticate(t)
               \/ RefuseChange(t)
               \/ ChangePermissions(t)
               \/ MarkDirty(t)
               \/ MarkClean(t)
               \/ WriteStatus(t)
               \/ AssignHash(t)
        PROVE  VerifiedInv'
    BY <1>6, <1>8
    DEF Authenticate, RefuseChange, ChangePermissions, MarkDirty, MarkClean,
        WriteStatus, AssignHash, Inside
  <1>9. CASE UNCHANGED vars
    BY <1>9 DEF vars, VerifiedInv
  <1> QED
    BY <1>1, <1>2, <1>4, <1>5, <1>7, <1>8, <1>9 DEF Next, Body

-----------------------------------------------------------------------------

(* Copying the hash is the password change of Account.                     *)
LEMMA CopyHashImplements ==
    ASSUME IInv, IInv', VerifiedInv, NEW t \in Threads, CopyHash(t)
    PROVE  A!ChangePassword(t) \/ A!SetPassword(t)
  <1>1. /\ pc[t] = "copyHash" /\ Inside(t) /\ request[t] \in Request
        /\ request[t].op \in {"changePassword", "setPassword"}
        /\ pc'[t] = "markDirty" /\ request' = request /\ answer' = answer
        /\ \A u \in Threads \ {t} : pc'[u] = pc[u]
    BY DEF CopyHash, At, Goto, IInv, Typed, TypeOK, StepsMatchCalls, Inside,
           OpsAt
  <1>2. /\ emp'.hash.image = Image[request[t].new]
        /\ emp'.permissions = emp.permissions
    BY DEF CopyHash, Digest, IInv, Typed, TypeOK, EmployeeState
  <1>3. /\ AbstractCredential = emp.hash.image
        /\ AbstractCredential' = Image[request[t].new]
    BY <1>1, <1>2, CredentialOfHash DEF Assigning
  <1>4. AbstractCall[t] = request[t]
    BY <1>1 DEF AbstractCall, AccountOps
  <1>5. AbstractCall' = [AbstractCall EXCEPT ![t] = Idle]
    BY <1>1, CallOf DEF AbstractCall
  <1>6. CASE request[t].op = "changePassword"
    <2>1. AbstractAnswer' = [AbstractAnswer EXCEPT ![t] = "PASSWORD_CHANGED"]
      BY <1>1, <1>6, AnswerOf DEF AbstractAnswer
    <2>2. /\ Image[request[t].pwd] = AbstractCredential
          /\ request[t].new \in LongEnough
      BY <1>1, <1>3, <1>6 DEF VerifiedInv
    <2> QED
      BY <1>2, <1>3, <1>4, <1>5, <1>6, <2>1, <2>2, SameCalls
      DEF A!ChangePassword, A!Answer, A!Return
  <1>7. CASE request[t].op = "setPassword"
    <2>1. AbstractAnswer' = AbstractAnswer
      BY <1>1, <1>7 DEF AbstractAnswer
    <2> QED
      BY <1>2, <1>3, <1>4, <1>5, <1>7, <2>1, SameCalls
      DEF A!SetPassword, A!Return
  <1> QED
    BY <1>1, <1>6, <1>7

(* The permission calls correspond one to one.                             *)
LEMMA PermissionsImplement ==
    ASSUME IInv, IInv', NEW t \in Threads, ChangePermissions(t)
    PROVE  A!ChangePermissions(t)
  <1>1. /\ pc[t] = "changePermissions" /\ Inside(t) /\ request[t] \in Request
        /\ request[t].op \in {"addPermission", "removePermission"}
        /\ Return(t) /\ answer' = answer
    BY DEF ChangePermissions, At, IInv, Typed, TypeOK, StepsMatchCalls, Inside,
           OpsAt
  <1>2. /\ emp'.hash = emp.hash
        /\ emp'.permissions = IF request[t].op = "addPermission"
                              THEN emp.permissions \cup {request[t].perm}
                              ELSE emp.permissions \ {request[t].perm}
    BY DEF ChangePermissions, IInv, Typed, TypeOK, EmployeeState
  <1>3. AbstractCredential' = AbstractCredential
    BY <1>1, <1>2, ReturnShows, CredentialOfHash DEF Assigning
  <1>4. AbstractCall[t] = request[t]
    BY <1>1 DEF AbstractCall, AccountOps
  <1>5. AbstractAnswer' = AbstractAnswer
    BY <1>1, ReturnShows DEF AbstractAnswer
  <1> QED
    BY <1>1, <1>2, <1>3, <1>4, <1>5, ReturnShows, SameCalls
    DEF A!ChangePermissions, A!Return

(* Copying the permissions is the assignment of Account.                   *)
LEMMA AssignFieldsImplements ==
    ASSUME IInv, IInv', NEW t \in Threads, AssignFields(t)
    PROVE  A!Assign(t)
  <1>1. /\ pc[t] = "assignFields" /\ Inside(t) /\ request[t] \in Request
        /\ request[t].op = "assign"
        /\ pc'[t] = "assignSalt" /\ request' = request /\ answer' = answer
        /\ \A u \in Threads \ {t} : pc'[u] = pc[u]
    BY DEF AssignFields, At, Goto, IInv, Typed, TypeOK, StepsMatchCalls,
           Inside, OpsAt
  <1>2. emp'.permissions = request[t].from.permissions
    BY DEF AssignFields, IInv, Typed, TypeOK, EmployeeState
  <1>3. AbstractCredential' = request[t].from.hash.image
    BY <1>1, CredentialIsNext DEF CredentialShape, Assigning
  <1>4. AbstractCall[t] = request[t]
    BY <1>1 DEF AbstractCall, AccountOps
  <1>5. AbstractCall' = [AbstractCall EXCEPT ![t] = Idle]
    BY <1>1, CallOf DEF AbstractCall
  <1>6. AbstractAnswer' = AbstractAnswer
    BY <1>1 DEF AbstractAnswer
  <1> QED
    BY <1>1, <1>2, <1>3, <1>4, <1>5, <1>6, SameCalls DEF A!Assign, A!Return

(* Steps that stay in the call, before or after it takes effect.           *)
LEMMA GotoStutters ==
    ASSUME IInv, IInv', NEW t \in Threads,
           AcceptChange(t) \/ CopySalt(t) \/ MarkFirst(t) \/ WritePay(t)
    PROVE  UNCHANGED A!accountVars
  <1>1. /\ pc[t] \in {"checkPassword", "copySalt", "markFirst", "writePay"}
        /\ pc'[t] \in {"copySalt", "copyHash", "changePermissions", "markDirty"}
        /\ pc'[t] = "markDirty" => pc[t] = "writePay"
        /\ request' = request /\ answer' = answer
        /\ \A u \in Threads \ {t} : pc'[u] = pc[u]
    <2> USE DEF At, Goto, IInv, Typed, TypeOK
    <2>1. CASE AcceptChange(t)
      BY <2>1 DEF AcceptChange
    <2>2. CASE CopySalt(t)
      BY <2>2 DEF CopySalt
    <2>3. CASE MarkFirst(t)
      BY <2>3 DEF MarkFirst
    <2>4. CASE WritePay(t)
      BY <2>4 DEF WritePay
    <2> QED
      BY <2>1, <2>2, <2>3, <2>4
  <1>2. emp'.hash = emp.hash /\ emp'.permissions = emp.permissions
    BY DEF AcceptChange, CopySalt, MarkFirst, WritePay, IInv, Typed, TypeOK,
           EmployeeState
  <1>3. Inside(t) /\ (pc[t] = "writePay" => request[t].op = "setPay")
    BY <1>1 DEF IInv, Typed, StepsMatchCalls, Inside, OpsAt
  <1>4. AbstractCredential' = AbstractCredential
    BY <1>1, <1>2, <1>3, CredentialOfHash DEF Assigning
  <1>5. AbstractCall'[t] = AbstractCall[t] /\ AbstractAnswer'[t] = AbstractAnswer[t]
    BY <1>1, <1>3 DEF AbstractCall, AbstractAnswer, AccountOps
  <1> QED
    BY <1>1, <1>2, <1>4, <1>5, Stutter

(* Copying salt and hash afterwards is invisible.                          *)
LEMMA AssignSaltStutters ==
    ASSUME IInv, IInv', NEW t \in Threads, AssignSalt(t)
    PROVE  UNCHANGED A!accountVars
  <1>1. /\ pc[t] = "assignSalt" /\ pc'[t] = "assignHash"
        /\ request' = request /\ answer' = answer
        /\ \A u \in Threads \ {t} : pc'[u] = pc[u]
    BY DEF AssignSalt, At, Goto, IInv, Typed, TypeOK
  <1>2. emp'.permissions = emp.permissions
    BY DEF AssignSalt, IInv, Typed, TypeOK, EmployeeState
  <1>3. AbstractCredential' = AbstractCredential
    BY <1>1, CredentialIs, CredentialIsNext DEF CredentialShape, Assigning
  <1>4. AbstractCall'[t] = AbstractCall[t] /\ AbstractAnswer'[t] = AbstractAnswer[t]
    BY <1>1 DEF AbstractCall, AbstractAnswer
  <1> QED
    BY <1>1, <1>2, <1>3, <1>4, Stutter

(* Returns of calls that took effect earlier or that Account does not have.*)
LEMMA ReturnStutters ==
    ASSUME IInv, IInv', NEW t \in Threads,
           MarkDirty(t) \/ MarkClean(t) \/ WriteStatus(t) \/ AssignHash(t)
    PROVE  UNCHANGED A!accountVars
  <1>1. /\ pc[t] \in {"markDirty", "markClean", "writeStatus", "assignHash"}
        /\ Return(t) /\ Inside(t) /\ request[t] \in Request
        /\ answer \in [Threads -> AuthenticationResult \cup {"none"}]
        /\ \A u \in Threads \ {t} : answer'[u] = answer[u]
    BY DEF MarkDirty, MarkClean, WriteStatus, AssignHash, At, Answer, IInv,
           Typed, TypeOK, Inside
  <1>2. emp'.permissions = emp.permissions
    BY DEF MarkDirty, MarkClean, WriteStatus, AssignHash, IInv, Typed, TypeOK,
           EmployeeState
  <1>3. AbstractCall[t] = Idle
    BY <1>1 DEF AbstractCall, IInv, Typed, StepsMatchCalls, Inside, OpsAt,
                AccountOps
  <1>4. AbstractAnswer'[t] = AbstractAnswer[t]
    <2>1. answer'[t] = IF pc[t] = "markDirty" /\ request[t].op = "changePassword"
                       THEN "PASSWORD_CHANGED" ELSE answer[t]
      BY <1>1 DEF MarkDirty, MarkClean, WriteStatus, AssignHash, At, Answer
    <2> QED
      BY <1>1, <2>1, ReturnShows DEF AbstractAnswer
  <1>5. AbstractCredential' = AbstractCredential
    <2>1. CASE AssignHash(t)
      <3>1. emp'.hash = request[t].from.hash
        BY <2>1 DEF AssignHash, IInv, Typed, TypeOK, EmployeeState
      <3>2. AbstractCredential = request[t].from.hash.image
        BY <2>1, CredentialIs DEF AssignHash, At, CredentialShape, Assigning
      <3>3. \A u \in Threads : ~Assigning(u)'
        BY <1>1, ReturnShows DEF IInv, MutexHeld, Inside, Assigning
      <3> QED
        BY <3>1, <3>2, <3>3, CredentialIsNext DEF CredentialShape
    <2>2. CASE ~AssignHash(t)
      <3>1. emp'.hash = emp.hash /\ ~Assigning(t)
        BY <2>2 DEF MarkDirty, MarkClean, WriteStatus, At, Assigning, IInv,
                    Typed, TypeOK, EmployeeState
      <3> QED
        BY <1>1, <3>1, ReturnShows, CredentialOfHash
    <2> QED
      BY <2>1, <2>2
  <1>6. AbstractCall'[t] = AbstractCall[t]
    BY <1>1, <1>3, ReturnShows DEF AbstractCall
  <1> QED
    BY <1>1, <1>2, <1>4, <1>5, <1>6, ReturnShows, Stutter

(* Every step maps to a step or a stutter.                                 *)
LEMMA NextImplements ==
    ASSUME IInv, IInv', VerifiedInv, [Next]_vars
    PROVE  [A!Next]_(A!accountVars)
  <1>1. ASSUME NEW t \in Threads, Invoke(t)
        PROVE  A!Next \/ UNCHANGED A!accountVars
    BY <1>1, InvokeImplements
  <1>2. ASSUME NEW t \in Threads, Lock(t)
        PROVE  UNCHANGED A!accountVars
    BY <1>2, LockImplements
  <1>3. ASSUME NEW t \in Threads, Body(t)
        PROVE  A!Next \/ UNCHANGED A!accountVars
    <2>1. CASE Authenticate(t)
      BY <2>1, AuthenticateImplements DEF A!Next
    <2>2. CASE RefuseChange(t)
      BY <2>2, RefuseImplements DEF A!Next
    <2>3. CASE CopyHash(t)
      BY <2>3, CopyHashImplements DEF A!Next
    <2>4. CASE ChangePermissions(t)
      BY <2>4, PermissionsImplement DEF A!Next
    <2>5. CASE AssignFields(t)
      BY <2>5, AssignFieldsImplements DEF A!Next
    <2>6. CASE AcceptChange(t) \/ CopySalt(t) \/ MarkFirst(t) \/ WritePay(t)
      BY <2>6, GotoStutters
    <2>7. CASE AssignSalt(t)
      BY <2>7, AssignSaltStutters
    <2>8. CASE MarkDirty(t) \/ MarkClean(t) \/ WriteStatus(t) \/ AssignHash(t)
      BY <2>8, ReturnStutters
    <2> QED
      BY <1>3, <2>1, <2>2, <2>3, <2>4, <2>5, <2>6, <2>7, <2>8 DEF Body
  <1>4. CASE UNCHANGED vars
    BY <1>4 DEF vars, A!accountVars, AbstractCredential, AbstractCall,
                AbstractAnswer, Assigning
  <1> QED
    BY <1>1, <1>2, <1>3, <1>4 DEF Next

(* Every behaviour of Employee is, through the refinement mapping of that  *)
(* module, a behaviour of Account: authenticate and changePassword answer  *)
(* for one instant of a call, and no call is refused or granted by a       *)
(* credential that is half replaced.                                       *)
THEOREM EmployeeImplementsAccount == Spec => ImplementsAccount
  <1>1. Init => A!Init
    BY InitImplements
  <1>2. IInv /\ VerifiedInv /\ [Next]_vars => VerifiedInv'
    BY VerifiedNext
  <1>3. IInv /\ IInv' /\ VerifiedInv /\ [Next]_vars => [A!Next]_(A!accountVars)
    BY NextImplements
  <1> QED
    BY Inductive, VerifiedInit, <1>1, <1>2, <1>3, PTL
    DEF Spec, ImplementsAccount, A!Spec
=============================================================================
