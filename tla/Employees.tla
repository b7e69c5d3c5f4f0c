----------------------------- MODULE Employees -----------------------------
(***************************************************************************)
(* The employee list of one process and its file (BindingsImpl.cpp, class  *)
(* Employees): a map from UUID to employee, a registry of pointers to the  *)
(* map's nodes, and a JSON file that load reads and save rewrites.         *)
(*                                                                         *)
(* load, save, addEmployee and removeEmployee run under the recursive      *)
(* mutex of the list, so calls of one process do not overlap; what remains *)
(* between the steps of a call is the end of the process.                  *)
(* A load or a save that cannot open the file returns at once and changes  *)
(* nothing: it is no step here, and what it leads to is in Session.        *)
(***************************************************************************)
EXTENDS Naturals, Sequences, SequencesExt

CONSTANTS
    Uuid,           \* the identifiers of employees
    Content,        \* name, pay, salt, hash and permissions of an employee
    Address,        \* the places std::map allocates nodes at
    NoNode,         \* map[u] when u has no employee
    Garbage,        \* the memory of a freed node that was overwritten
    Validation,     \* the HashValidationMode configured for employees
    InitialFiles,   \* the files found when the system is first started
    FreedMemory,    \* what a freed node may read as in the build: "kept",
                    \* "overwritten" or either
    Ops,            \* the calls the clients of an instance make
    MaxRegistry,    \* bound: registry entries an instance may reach
    NoAccount, Lost \* sentinels of AccountStore

VARIABLES
    file,       \* the employee file: its state and the entries of its list
    map,        \* employeeMap: UUID -> address of the node, or NoNode
    registry,   \* employeeRegistry: addresses in order of insertion
    heap,       \* heap[a]: the employee stored at a, live or left behind
    phase,      \* what the process is doing
    toLoad      \* the entries load has not visited yet

vars == <<file, map, registry, heap, phase, toLoad>>

Node == [uuid : Uuid, content : Content]

(* load looks for a key "hashcode", which save never writes.               *)
Entry == [uuid : Uuid, content : Content,
          hashcode : {"none", "match", "mismatch"}]

Absent == [kind |-> "absent", list |-> <<>>]
Torn == [kind |-> "torn", list |-> <<>>]
Whole(list) == [kind |-> "whole", list |-> list]

ASSUME EmployeesAssumption ==
    /\ Validation \in {"None", "Loose", "Strict"}
    /\ NoNode \notin Address
    /\ Garbage \notin Node
    /\ FreedMemory \subseteq {"kept", "overwritten"}
    /\ MaxRegistry \in Nat
    /\ InitialFiles \subseteq [kind : {"absent", "torn", "whole"},
                               list : Seq(Entry)]
    /\ NoAccount \notin Content
    /\ Lost \notin [Uuid -> Content \cup {NoAccount}]

Live(a) == \E u \in Uuid : map[u] = a

EmptyList ==
    /\ map = [u \in Uuid |-> NoNode]
    /\ registry = <<>>

Init ==
    /\ file \in InitialFiles
    /\ EmptyList
    /\ heap = [a \in Address |-> Garbage]
    /\ phase = "down"
    /\ toLoad = <<>>

-----------------------------------------------------------------------------

(* A process starts with a default-constructed list.                       *)
Start ==
    /\ phase = "down"
    /\ phase' = "ready"
    /\ UNCHANGED <<file, map, registry, heap, toLoad>>

(* The process exits or crashes: only the file remains.                    *)
Stop ==
    /\ phase # "down"
    /\ phase' = "down"
    /\ map' = [u \in Uuid |-> NoNode]
    /\ registry' = <<>>
    /\ heap' = [a \in Address |-> Garbage]
    /\ toLoad' = <<>>
    /\ UNCHANGED file

(* Fault: the pointer is taken before the map inserts the node.            *)
PutStale(u, c) ==
    \E a \in Address :
        /\ IF map[u] = NoNode THEN ~Live(a) ELSE a = map[u]
        /\ map' = [map EXCEPT ![u] = a]
        /\ heap' = [heap EXCEPT ![a] = [uuid |-> u, content |-> c]]
        /\ registry' = Append(registry, map[u])

(* employeeMap[id] = e, then registry.push_back(&employeeMap[id]), also    *)
(* when the id was present.                                                *)
Put(u, c) ==
    \E a \in Address :
        /\ IF map[u] = NoNode THEN ~Live(a) ELSE a = map[u]
        /\ map' = [map EXCEPT ![u] = a]
        /\ heap' = [heap EXCEPT ![a] = [uuid |-> u, content |-> c]]
        /\ registry' = Append(registry, a)

AddEmployee(u, c) ==
    /\ "add" \in Ops
    /\ phase = "ready"
    /\ Len(registry) < MaxRegistry
    /\ Put(u, c)
    /\ UNCHANGED <<file, phase, toLoad>>

(* A mutator of Employee called through a reference from getEmployee.      *)
Update(u, c) ==
    /\ "update" \in Ops
    /\ phase = "ready"
    /\ map[u] # NoNode
    /\ heap' = [heap EXCEPT ![map[u]].content = c]
    /\ UNCHANGED <<file, map, registry, phase, toLoad>>

(* Fault: erase(it, end()) where erase(it) is meant.                       *)
UnregisterToEnd(u, memory) ==
    LET hits == {i \in DOMAIN registry :
                    /\ memory[registry[i]] # Garbage
                    /\ memory[registry[i]].uuid = u}
    IN registry' = SubSeq(registry, 1,
                          Cardinality({k \in DOMAIN registry :
                                          \A i \in hits : k < i}))

(* The node is freed before the registry is searched through pointers that *)
(* include the freed one; its memory still reads as before or does not.    *)
(* Only the first pointer that reads as u is erased.                       *)
Unregister(u, memory) ==
    LET hits == {i \in DOMAIN registry :
                    /\ memory[registry[i]] # Garbage
                    /\ memory[registry[i]].uuid = u}
    IN \/ hits = {} /\ UNCHANGED registry
       \/ \E i \in hits : /\ \A j \in hits : i <= j
                          /\ registry' = RemoveAt(registry, i)

(* Fault: the employee is destroyed, its key stays in the map.             *)
RemoveEmployeeUnmapped(u) ==
    /\ "remove" \in Ops
    /\ phase = "ready"
    /\ map[u] # NoNode
    /\ heap' = [heap EXCEPT ![map[u]] = Garbage]
    /\ Unregister(u, heap')
    /\ UNCHANGED <<file, map, phase, toLoad>>

RemoveEmployee(u) ==
    /\ "remove" \in Ops
    /\ phase = "ready"
    /\ map' = [map EXCEPT ![u] = NoNode]
    /\ \/ /\ "kept" \in FreedMemory \/ map[u] = NoNode
          /\ heap' = heap
       \/ /\ "overwritten" \in FreedMemory
          /\ map[u] # NoNode
          /\ heap' = [heap EXCEPT ![map[u]] = Garbage]
    /\ Unregister(u, heap')
    /\ UNCHANGED <<file, phase, toLoad>>

-----------------------------------------------------------------------------
(* load: a missing file leaves the list alone, a file that is not JSON     *)
(* ends the process with an exception.                                     *)

Accepted(e) ==
    CASE Validation = "None" -> TRUE
      [] Validation = "Loose" -> e.hashcode # "mismatch"
      [] Validation = "Strict" -> e.hashcode = "match"

LoadOpen ==
    /\ "load" \in Ops
    /\ phase = "ready"
    /\ file.kind = "whole"
    /\ Len(registry) + Len(file.list) <= MaxRegistry
    /\ toLoad' = file.list
    /\ phase' = "loading"
    /\ UNCHANGED <<file, map, registry, heap>>

(* Fault: employeeMap.insert, which keeps the employee already there.      *)
LoadEntryKeeping ==
    /\ phase = "loading"
    /\ toLoad # <<>>
    /\ toLoad' = Tail(toLoad)
    /\ LET e == Head(toLoad) IN
         IF Accepted(e) /\ map[e.uuid] = NoNode
         THEN Put(e.uuid, e.content)
         ELSE UNCHANGED <<map, registry, heap>>
    /\ UNCHANGED <<file, phase>>

LoadEntry ==
    /\ phase = "loading"
    /\ toLoad # <<>>
    /\ toLoad' = Tail(toLoad)
    /\ LET e == Head(toLoad) IN
         IF Accepted(e)
         THEN Put(e.uuid, e.content)
         ELSE UNCHANGED <<map, registry, heap>>
    /\ UNCHANGED <<file, phase>>

LoadEnd ==
    /\ phase = "loading"
    /\ toLoad = <<>>
    /\ phase' = "ready"
    /\ UNCHANGED <<file, map, registry, heap, toLoad>>

-----------------------------------------------------------------------------
(* save: the list is built through the registry, then the file is opened   *)
(* (and truncated), written and closed.  A pointer to overwritten memory   *)
(* is not followed further here: such a process may only stop.             *)

Written(a) ==
    [uuid |-> heap[a].uuid, content |-> heap[a].content, hashcode |-> "none"]

SaveOpen ==
    /\ "save" \in Ops
    /\ phase = "ready"
    /\ \A i \in DOMAIN registry : heap[registry[i]] # Garbage
    /\ file' = Torn
    /\ phase' = "saving"
    /\ UNCHANGED <<map, registry, heap, toLoad>>

SaveClose ==
    /\ phase = "saving"
    /\ file' = Whole([i \in DOMAIN registry |-> Written(registry[i])])
    /\ phase' = "ready"
    /\ UNCHANGED <<map, registry, heap, toLoad>>

Next ==
    \/ Start
    \/ Stop
    \/ \E u \in Uuid, c \in Content : AddEmployee(u, c) \/ Update(u, c)
    \/ \E u \in Uuid : RemoveEmployee(u)
    \/ LoadOpen
    \/ LoadEntry
    \/ LoadEnd
    \/ SaveOpen
    \/ SaveClose

Spec == Init /\ [][Next]_vars

-----------------------------------------------------------------------------

TypeOK ==
    /\ file \in [kind : {"absent", "torn", "whole"}, list : Seq(Entry)]
    /\ map \in [Uuid -> Address \cup {NoNode}]
    /\ registry \in Seq(Address)
    /\ heap \in [Address -> Node \cup {Garbage}]
    /\ phase \in {"down", "ready", "loading", "saving"}
    /\ toLoad \in Seq(Entry)

(* Two employees never share a node, and the node found under a UUID holds *)
(* the employee with that UUID, whatever memory a removal freed for reuse. *)
MapConsistent ==
    \A u \in Uuid : map[u] # NoNode =>
        /\ heap[map[u]] # Garbage
        /\ heap[map[u]].uuid = u
        /\ \A v \in Uuid : map[v] = map[u] => v = u

(* Every employee that getEmployee(UUID) finds is also reached through the *)
(* registry, the only way save, length and the menus enumerate employees:  *)
(* no sequence of loads, additions and removals hides one from save.       *)
MapEnumerated ==
    \A u \in Uuid : map[u] # NoNode =>
        \E i \in DOMAIN registry : registry[i] = map[u]

(* An employee that was removed is removed from the list too (Bindings.hpp,*)
(* comment on removeEmployee): no registry pointer outlives its node.      *)
RemovedFromList == \A i \in DOMAIN registry : Live(registry[i])

(* The accounts that remain once load has visited list.                    *)
Loaded(list, base) ==
    LET of(u) == {i \in DOMAIN list : list[i].uuid = u /\ Accepted(list[i])}
    IN [u \in Uuid |->
          IF of(u) = {} THEN base[u]
          ELSE list[CHOOSE i \in of(u) : \A j \in of(u) : j <= i].content]

InMemory ==
    [u \in Uuid |-> IF map[u] = NoNode THEN NoAccount
                    ELSE heap[map[u]].content]

Durable ==
    IF file.kind = "torn" THEN Lost
    ELSE Loaded(file.list, [u \in Uuid |-> NoAccount])

(* A load takes effect when it opens the file.                             *)
Volatile == Loaded(toLoad, InMemory)

S == INSTANCE AccountStore WITH
        durable <- Durable,
        volatile <- Volatile,
        activity <- phase

(* The list is the promised account store: whatever duplicates, rejected   *)
(* entries and stale pointers there are, a completed save and the next     *)
(* load bring back the accounts that were in memory, entry by entry but in *)
(* effect at once, and a crash changes nothing that was not being saved.   *)
ImplementsAccountStore == S!Spec
=============================================================================
