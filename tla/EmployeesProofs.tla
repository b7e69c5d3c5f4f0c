-------------------------- MODULE EmployeesProofs --------------------------
(***************************************************************************)
(* Theorems about Employees, for every set of identifiers, contents and    *)
(* addresses, every validation mode and every bound.                       *)
(***************************************************************************)
EXTENDS Employees, SequenceTheorems, WellFoundedInduction, TLAPS

(* What the provers need to know of sequences.                             *)
LEMMA SeqDomain ==
    ASSUME NEW T, NEW s \in Seq(T)
    PROVE  /\ Len(s) \in Nat
           /\ DOMAIN s = 1 .. Len(s)
           /\ \A i \in DOMAIN s : i \in Nat /\ s[i] \in T
  BY LenProperties, ElementOfSeq

(* Erasing position i keeps every other element.                           *)
LEMMA RemoveAtKeeps ==
    ASSUME NEW T, NEW s \in Seq(T), NEW i \in DOMAIN s
    PROVE  /\ RemoveAt(s, i) \in Seq(T)
           /\ \A k \in DOMAIN RemoveAt(s, i) :
                \E j \in DOMAIN s : RemoveAt(s, i)[k] = s[j]
           /\ \A j \in DOMAIN s \ {i} :
                \E k \in DOMAIN RemoveAt(s, i) : RemoveAt(s, i)[k] = s[j]
  <1> DEFINE n == Len(s)
             front == SubSeq(s, 1, i - 1)
             back == SubSeq(s, i + 1, n)
             r == front \o back
  <1>1. /\ n \in Nat
        /\ DOMAIN s = 1 .. n
        /\ i \in 1 .. n
        /\ \A j \in 1 .. n : s[j] \in T
    BY LenProperties, ElementOfSeq
  <1>2. /\ front \in Seq(T)
        /\ Len(front) = i - 1
        /\ \A j \in 1 .. i - 1 : front[j] = s[j]
    <2> \A j \in 1 .. i - 1 : s[j] \in T
      BY <1>1
    <2> QED
      BY <1>1, SubSeqProperties, Z3
  <1>3. /\ back \in Seq(T)
        /\ Len(back) = n - i
        /\ \A j \in 1 .. n - i : back[j] = s[i + j]
    <2> \A j \in i + 1 .. n : s[j] \in T
      BY <1>1
    <2> QED
      BY <1>1, SubSeqProperties, Z3
  <1> HIDE DEF front, back
  <1>4. /\ r \in Seq(T)
        /\ Len(r) = n - 1
        /\ DOMAIN r = 1 .. n - 1
        /\ \A j \in 1 .. n - 1 :
             r[j] = IF j <= i - 1 THEN front[j] ELSE back[j - (i - 1)]
    <2>1. /\ r \in Seq(T)
          /\ Len(r) = Len(front) + Len(back)
          /\ \A j \in 1 .. Len(front) + Len(back) :
               r[j] = IF j <= Len(front) THEN front[j]
                      ELSE back[j - Len(front)]
      BY <1>2, <1>3, ConcatProperties, Zenon
    <2>2. Len(front) + Len(back) = n - 1
      BY <1>1, <1>2, <1>3
    <2>3. DOMAIN r = 1 .. Len(r)
      BY <2>1, LenProperties, Zenon
    <2> HIDE DEF r
    <2> QED
      BY <1>2, <2>1, <2>2, <2>3
  <1>5. r = RemoveAt(s, i)
    BY DEF RemoveAt, front, back
  <1> HIDE DEF r
  <1>6. ASSUME NEW k \in 1 .. n - 1
        PROVE  \E j \in 1 .. n : r[k] = s[j]
    <2>1. CASE k <= i - 1
      BY <1>1, <1>2, <1>4, <2>1
    <2>2. CASE ~(k <= i - 1)
      <3>1. r[k] = back[k - (i - 1)] /\ k - (i - 1) \in 1 .. n - i
        BY <1>1, <1>4, <2>2
      <3>2. back[k - (i - 1)] = s[i + (k - (i - 1))]
        BY <1>3, <3>1
      <3>3. i + (k - (i - 1)) \in 1 .. n
        BY <1>1
      <3> QED
        BY <3>1, <3>2, <3>3
    <2> QED
      BY <2>1, <2>2
  <1>7. ASSUME NEW j \in 1 .. n, j # i
        PROVE  \E k \in 1 .. n - 1 : r[k] = s[j]
    <2>1. CASE j < i
      <3>1. j \in 1 .. n - 1 /\ j <= i - 1 /\ j \in 1 .. i - 1
        BY <1>1, <2>1
      <3> QED
        BY <1>2, <1>4, <3>1
    <2>2. CASE i < j
      <3>1. /\ j - 1 \in 1 .. n - 1
            /\ ~(j - 1 <= i - 1)
            /\ (j - 1) - (i - 1) = j - i
            /\ j - i \in 1 .. n - i
            /\ i + (j - i) = j
        BY <1>1, <2>2
      <3>2. r[j - 1] = back[j - i]
        BY <1>4, <3>1
      <3>3. back[j - i] = s[j]
        BY <1>3, <3>1
      <3> QED
        BY <3>1, <3>2, <3>3
    <2> QED
      BY <1>1, <1>7, <2>1, <2>2
  <1> QED
    BY <1>1, <1>4, <1>5, <1>6, <1>7

-----------------------------------------------------------------------------
(* The inductive invariant.                                                *)

(* A save that has begun can read every registered employee.               *)
SaveReadable ==
    phase = "saving" => \A i \in DOMAIN registry : heap[registry[i]] # Garbage

IInv ==
    /\ TypeOK
    /\ MapConsistent
    /\ MapEnumerated
    /\ SaveReadable

(* Whatever file a first process finds, nothing is listed yet.              *)
LEMMA Initially == Init => IInv
  <1> SUFFICES ASSUME Init PROVE IInv
    OBVIOUS
  <1>1. file \in [kind : {"absent", "torn", "whole"}, list : Seq(Entry)]
    BY EmployeesAssumption DEF Init
  <1>2. registry \in Seq(Address) /\ toLoad \in Seq(Entry)
    BY EmptySeq DEF Init, EmptyList
  <1>3. TypeOK
    BY <1>1, <1>2 DEF Init, EmptyList, TypeOK
  <1>4. MapConsistent /\ MapEnumerated /\ SaveReadable
    BY DEF Init, EmptyList, MapConsistent, MapEnumerated, SaveReadable
  <1> QED
    BY <1>3, <1>4 DEF IInv

(* Appending keeps every element where it is and adds one at the end.      *)
LEMMA AppendKeeps ==
    ASSUME NEW T, NEW s \in Seq(T), NEW a \in T
    PROVE  /\ Append(s, a) \in Seq(T)
           /\ \A i \in DOMAIN s : i \in DOMAIN Append(s, a) /\ Append(s, a)[i] = s[i]
           /\ \E i \in DOMAIN Append(s, a) : Append(s, a)[i] = a
  <1>1. /\ Len(s) \in Nat
        /\ DOMAIN s = 1 .. Len(s)
    BY LenProperties
  <1>2. /\ Append(s, a) \in Seq(T)
        /\ Len(Append(s, a)) = Len(s) + 1
        /\ \A i \in 1 .. Len(s) : Append(s, a)[i] = s[i]
        /\ Append(s, a)[Len(s) + 1] = a
    BY <1>1, AppendProperties
  <1>3. DOMAIN Append(s, a) = 1 .. Len(s) + 1
    BY <1>2, LenProperties
  <1> QED
    BY <1>1, <1>2, <1>3

(* Putting an employee into the map: the node is fresh or the employee's   *)
(* own, so no other employee is disturbed.                                 *)
LEMMA PutKeeps ==
    ASSUME IInv, NEW u \in Uuid, NEW c \in Content, Put(u, c)
    PROVE  /\ map' \in [Uuid -> Address \cup {NoNode}]
           /\ registry' \in Seq(Address)
           /\ heap' \in [Address -> Node \cup {Garbage}]
           /\ MapConsistent'
           /\ MapEnumerated'
  <1> PICK a \in Address :
        /\ IF map[u] = NoNode THEN ~Live(a) ELSE a = map[u]
        /\ map' = [map EXCEPT ![u] = a]
        /\ heap' = [heap EXCEPT ![a] = [uuid |-> u, content |-> c]]
        /\ registry' = Append(registry, a)
    BY DEF Put
  <1>1. /\ map \in [Uuid -> Address \cup {NoNode}]
        /\ registry \in Seq(Address)
        /\ heap \in [Address -> Node \cup {Garbage}]
    BY DEF IInv, TypeOK
  <1>2. [uuid |-> u, content |-> c] \in Node
    BY DEF Node
  <1>3. a # NoNode /\ [uuid |-> u, content |-> c] # Garbage
    BY <1>2, EmployeesAssumption
  <1>4. /\ map' \in [Uuid -> Address \cup {NoNode}]
        /\ heap' \in [Address -> Node \cup {Garbage}]
        /\ map'[u] = a
        /\ \A v \in Uuid \ {u} : map'[v] = map[v]
        /\ heap'[a] = [uuid |-> u, content |-> c]
        /\ \A b \in Address \ {a} : heap'[b] = heap[b]
    BY <1>1, <1>2
  <1>5. \A v \in Uuid \ {u} : map[v] # a
    <2>1. CASE map[u] = NoNode
      BY <2>1 DEF Live
    <2>2. CASE map[u] # NoNode
      BY <2>2, <1>3 DEF IInv, MapConsistent
    <2> QED
      BY <2>1, <2>2
  <1>6. MapConsistent'
    <2> SUFFICES ASSUME NEW v \in Uuid, map'[v] # NoNode
                 PROVE  /\ heap'[map'[v]] # Garbage
                        /\ heap'[map'[v]].uuid = v
                        /\ \A w \in Uuid : map'[w] = map'[v] => w = v
      BY DEF MapConsistent
    <2>1. CASE v = u
      BY <2>1, <1>3, <1>4, <1>5
    <2>2. CASE v # u
      <3>1. map'[v] = map[v] /\ map[v] \in Address \ {a}
        BY <2>2, <1>1, <1>4, <1>5
      <3>2. /\ heap[map[v]] # Garbage
            /\ heap[map[v]].uuid = v
            /\ \A w \in Uuid : map[w] = map[v] => w = v
        BY <3>1 DEF IInv, MapConsistent
      <3> QED
        BY <3>1, <3>2, <1>4
    <2> QED
      BY <2>1, <2>2
  <1>7. /\ registry' \in Seq(Address)
        /\ \A i \in DOMAIN registry :
             i \in DOMAIN registry' /\ registry'[i] = registry[i]
        /\ \E i \in DOMAIN registry' : registry'[i] = a
    BY <1>1, AppendKeeps
  <1>8. MapEnumerated'
    <2> SUFFICES ASSUME NEW v \in Uuid, map'[v] # NoNode
                 PROVE  \E i \in DOMAIN registry' : registry'[i] = map'[v]
      BY DEF MapEnumerated
    <2>1. CASE v = u
      BY <2>1, <1>4, <1>7
    <2>2. CASE v # u
      <3>1. map'[v] = map[v]
        BY <2>2, <1>4
      <3>2. \E i \in DOMAIN registry : registry[i] = map[v]
        BY <3>1 DEF IInv, MapEnumerated
      <3> QED
        BY <3>1, <3>2, <1>7
    <2> QED
      BY <2>1, <2>2
  <1> QED
    BY <1>4, <1>6, <1>7, <1>8

(* A removal may erase the entry of no other employee: the pointer it      *)
(* erases reads as the removed UUID.                                       *)
LEMMA RemoveKeeps ==
    ASSUME IInv, NEW u \in Uuid, RemoveEmployee(u)
    PROVE  IInv'
  <1>1. /\ map \in [Uuid -> Address \cup {NoNode}]
        /\ registry \in Seq(Address)
        /\ heap \in [Address -> Node \cup {Garbage}]
    BY DEF IInv, TypeOK
  <1>2. /\ map' = [map EXCEPT ![u] = NoNode]
        /\ phase = "ready"
        /\ UNCHANGED <<file, phase, toLoad>>
        /\ Unregister(u, heap')
    BY DEF RemoveEmployee
  <1>3. /\ map' \in [Uuid -> Address \cup {NoNode}]
        /\ map'[u] = NoNode
        /\ \A v \in Uuid \ {u} : map'[v] = map[v]
    BY <1>1, <1>2
  <1>4. /\ heap' \in [Address -> Node \cup {Garbage}]
        /\ \A b \in Address : b # map[u] => heap'[b] = heap[b]
    <2>1. CASE heap' = heap
      BY <2>1, <1>1
    <2>2. CASE heap' = [heap EXCEPT ![map[u]] = Garbage]
      BY <2>2, <1>1
    <2> QED
      BY <2>1, <2>2 DEF RemoveEmployee
  <1>5. ASSUME NEW v \in Uuid, map'[v] # NoNode
        PROVE  /\ v # u
               /\ map'[v] = map[v]
               /\ map[v] \in Address
               /\ heap'[map[v]] = heap[map[v]]
               /\ heap[map[v]] # Garbage
               /\ heap[map[v]].uuid = v
               /\ \A w \in Uuid : map[w] = map[v] => w = v
    <2>1. v # u /\ map'[v] = map[v] /\ map[v] \in Address
      BY <1>1, <1>3, <1>5
    <2>2. /\ heap[map[v]] # Garbage
          /\ heap[map[v]].uuid = v
          /\ \A w \in Uuid : map[w] = map[v] => w = v
      BY <1>5, <2>1 DEF IInv, MapConsistent
    <2>3. heap'[map[v]] = heap[map[v]]
      BY <1>4, <2>1, <2>2
    <2> QED
      BY <2>1, <2>2, <2>3
  <1>6. MapConsistent'
    <2> SUFFICES ASSUME NEW v \in Uuid, map'[v] # NoNode
                 PROVE  /\ heap'[map'[v]] # Garbage
                        /\ heap'[map'[v]].uuid = v
                        /\ \A w \in Uuid : map'[w] = map'[v] => w = v
      BY DEF MapConsistent
    <2>1. \A w \in Uuid : map'[w] = map'[v] => map[w] = map[v]
      BY <1>3, <1>5
    <2> QED
      BY <1>5, <2>1
  <1>7. /\ registry' \in Seq(Address)
        /\ \A i \in DOMAIN registry :
             \/ heap'[registry[i]].uuid = u
             \/ \E k \in DOMAIN registry' : registry'[k] = registry[i]
    <2> DEFINE hits == {i \in DOMAIN registry :
                           /\ heap'[registry[i]] # Garbage
                           /\ heap'[registry[i]].uuid = u}
    <2>1. CASE hits = {} /\ UNCHANGED registry
      BY <2>1, <1>1
    <2>2. ASSUME NEW first \in hits, registry' = RemoveAt(registry, first)
          PROVE  /\ registry' \in Seq(Address)
                 /\ \A i \in DOMAIN registry :
                      \/ heap'[registry[i]].uuid = u
                      \/ \E k \in DOMAIN registry' :
                           registry'[k] = registry[i]
      <3>1. first \in DOMAIN registry /\ heap'[registry[first]].uuid = u
        BY <2>2
      <3> HIDE DEF hits
      <3>2. /\ RemoveAt(registry, first) \in Seq(Address)
            /\ \A i \in DOMAIN registry \ {first} :
                 \E k \in DOMAIN RemoveAt(registry, first) :
                   RemoveAt(registry, first)[k] = registry[i]
        BY <1>1, <3>1, RemoveAtKeeps
      <3> QED
        BY <2>2, <3>1, <3>2
    <2> QED
      BY <1>2, <2>1, <2>2 DEF Unregister
  <1>8. MapEnumerated'
    <2> SUFFICES ASSUME NEW v \in Uuid, map'[v] # NoNode
                 PROVE  \E k \in DOMAIN registry' : registry'[k] = map'[v]
      BY DEF MapEnumerated
    <2>1. PICK i \in DOMAIN registry : registry[i] = map[v]
      BY <1>5, <1>3 DEF IInv, MapEnumerated
    <2>2. heap'[registry[i]].uuid = v /\ v # u
      BY <1>5, <2>1
    <2>3. \E k \in DOMAIN registry' : registry'[k] = registry[i]
      BY <1>7, <2>2
    <2> QED
      BY <1>5, <2>1, <2>3
  <1>9. TypeOK'
    BY <1>2, <1>3, <1>4, <1>7 DEF IInv, TypeOK
  <1> QED
    BY <1>2, <1>6, <1>8, <1>9 DEF IInv, SaveReadable

-----------------------------------------------------------------------------

(* Every step keeps the inductive invariant.                               *)
LEMMA Inductive == IInv /\ [Next]_vars => IInv'
  <1> SUFFICES ASSUME IInv, [Next]_vars PROVE IInv'
    OBVIOUS
  <1> USE DEF IInv
  <1>1. CASE Start
    BY <1>1 DEF Start, TypeOK, MapConsistent, MapEnumerated, SaveReadable
  <1>2. CASE Stop
    <2>1. registry' \in Seq(Address) /\ toLoad' \in Seq(Entry)
      BY <1>2, EmptySeq DEF Stop
    <2> QED
      BY <1>2, <2>1
         DEF Stop, TypeOK, MapConsistent, MapEnumerated, SaveReadable
  <1>3. ASSUME NEW u \in Uuid, NEW c \in Content, AddEmployee(u, c)
        PROVE  IInv'
    <2>1. Put(u, c) /\ phase = "ready" /\ UNCHANGED <<file, phase, toLoad>>
      BY <1>3 DEF AddEmployee
    <2> QED
      BY <2>1, PutKeeps DEF TypeOK, SaveReadable
  <1>4. ASSUME NEW u \in Uuid, NEW c \in Content, Update(u, c)
        PROVE  IInv'
    <2>1. /\ map[u] \in Address
          /\ phase = "ready"
          /\ heap' = [heap EXCEPT ![map[u]].content = c]
          /\ UNCHANGED <<file, map, registry, phase, toLoad>>
      BY <1>4 DEF Update, TypeOK
    <2>2. heap[map[u]] \in Node
      BY <1>4, <2>1 DEF Update, TypeOK, MapConsistent
    <2>3. /\ heap'[map[u]] \in Node
          /\ heap'[map[u]].uuid = heap[map[u]].uuid
          /\ \A a \in Address \ {map[u]} : heap'[a] = heap[a]
          /\ heap' \in [Address -> Node \cup {Garbage}]
      BY <2>1, <2>2 DEF TypeOK, Node
    <2>4. MapConsistent'
      <3> SUFFICES ASSUME NEW v \in Uuid, map[v] # NoNode
                   PROVE  /\ heap'[map[v]] # Garbage
                          /\ heap'[map[v]].uuid = v
                          /\ \A w \in Uuid : map[w] = map[v] => w = v
        BY <2>1 DEF MapConsistent
      <3>1. /\ map[v] \in Address
            /\ heap[map[v]] # Garbage
            /\ heap[map[v]].uuid = v
            /\ \A w \in Uuid : map[w] = map[v] => w = v
        BY DEF TypeOK, MapConsistent
      <3>2. CASE map[v] = map[u]
        BY <2>3, <3>1, <3>2, EmployeesAssumption
      <3>3. CASE map[v] # map[u]
        BY <2>3, <3>1, <3>3
      <3> QED
        BY <3>1, <3>2, <3>3
    <2>5. TypeOK' /\ MapEnumerated'
      BY <2>1, <2>3 DEF TypeOK, MapEnumerated
    <2>6. SaveReadable'
      BY <2>1 DEF SaveReadable
    <2> QED
      BY <2>4, <2>5, <2>6
  <1>5. ASSUME NEW u \in Uuid, RemoveEmployee(u)
        PROVE  IInv'
    BY <1>5, RemoveKeeps
  <1>6. CASE LoadOpen
    BY <1>6 DEF LoadOpen, TypeOK, MapConsistent, MapEnumerated, SaveReadable
  <1>7. CASE LoadEntry
    <2>1. /\ toLoad \in Seq(Entry) /\ toLoad # <<>>
          /\ toLoad' = Tail(toLoad)
          /\ phase = "loading" /\ UNCHANGED <<file, phase>>
      BY <1>7 DEF LoadEntry, TypeOK
    <2>2. Head(toLoad) \in Entry /\ toLoad' \in Seq(Entry)
      BY <2>1, HeadTailProperties
    <2>3. CASE Accepted(Head(toLoad))
      <3>1. Put(Head(toLoad).uuid, Head(toLoad).content)
        BY <1>7, <2>3 DEF LoadEntry
      <3>2. Head(toLoad).uuid \in Uuid /\ Head(toLoad).content \in Content
        BY <2>2 DEF Entry
      <3> QED
        BY <2>1, <2>2, <3>1, <3>2, PutKeeps DEF TypeOK, SaveReadable
    <2>4. CASE ~Accepted(Head(toLoad))
      <3>1. UNCHANGED <<map, registry, heap>>
        BY <1>7, <2>4 DEF LoadEntry
      <3> QED
        BY <2>1, <2>2, <3>1
           DEF TypeOK, MapConsistent, MapEnumerated, SaveReadable
    <2> QED
      BY <2>3, <2>4
  <1>8. CASE LoadEnd
    BY <1>8 DEF LoadEnd, TypeOK, MapConsistent, MapEnumerated, SaveReadable
  <1>9. CASE SaveOpen
    <2>1. file' \in [kind : {"absent", "torn", "whole"}, list : Seq(Entry)]
      BY <1>9, EmptySeq DEF SaveOpen, Torn
    <2> QED
      BY <1>9, <2>1
         DEF SaveOpen, TypeOK, MapConsistent, MapEnumerated, SaveReadable
  <1>10. CASE SaveClose
    <2> DEFINE list == [i \in DOMAIN registry |-> Written(registry[i])]
    <2>1. ASSUME NEW i \in DOMAIN registry
          PROVE  Written(registry[i]) \in Entry
      <3>1. registry[i] \in Address
        BY LenProperties, ElementOfSeq DEF TypeOK
      <3>2. heap[registry[i]] \in Node
        BY <1>10, <3>1 DEF SaveClose, SaveReadable, TypeOK
      <3> QED
        BY <3>2 DEF Written, Node, Entry
    <2>2. list \in Seq(Entry)
      <3>1. list \in [1 .. Len(registry) -> Entry] /\ Len(registry) \in Nat
        BY <2>1, LenProperties DEF TypeOK
      <3> HIDE DEF list
      <3> QED
        BY <3>1
    <2>3. file' = Whole(list)
      BY <1>10 DEF SaveClose
    <2> HIDE DEF list
    <2>4. file' \in [kind : {"absent", "torn", "whole"}, list : Seq(Entry)]
      BY <2>2, <2>3 DEF Whole
    <2> QED
      BY <1>10, <2>4
         DEF SaveClose, TypeOK, MapConsistent, MapEnumerated, SaveReadable
  <1>11. CASE UNCHANGED vars
    BY <1>11 DEF vars, TypeOK, MapConsistent, MapEnumerated, SaveReadable
  <1> QED
    BY <1>1, <1>2, <1>3, <1>4, <1>5, <1>6, <1>7, <1>8, <1>9, <1>10, <1>11
       DEF Next

(* Hence it holds throughout.                                              *)
LEMMA Invariant == Spec => []IInv
  BY Initially, Inductive, PTL DEF Spec

(* The list and its file are well typed: no operation stores a dangling    *)
(* node's contents into the file.                                          *)
THEOREM ListTypeCorrect == Spec => []TypeOK
  <1>1. IInv => TypeOK
    BY DEF IInv
  <1> QED
    BY Invariant, <1>1, PTL

(* The node found under a UUID is that employee's and no other's, however  *)
(* loads, additions and removals reuse memory.                             *)
THEOREM MapAlwaysConsistent == Spec => []MapConsistent
  <1>1. IInv => MapConsistent
    BY DEF IInv
  <1> QED
    BY Invariant, <1>1, PTL

(* save reaches every employee that getEmployee finds, although            *)
(* removeEmployee searches the registry through dangling pointers.         *)
THEOREM MapAlwaysEnumerated == Spec => []MapEnumerated
  <1>1. IInv => MapEnumerated
    BY DEF IInv
  <1> QED
    BY Invariant, <1>1, PTL

-----------------------------------------------------------------------------
(* What a list of entries leaves once it is loaded.                        *)

(* The entries that put u.                                                 *)
Hits(list, u) == {i \in DOMAIN list : list[i].uuid = u /\ Accepted(list[i])}

(* A set of positions that is not empty has a last one: the distances from *)
(* the end have a least one.                                               *)
LEMMA LastPosition ==
    ASSUME NEW n \in Nat, NEW T, T \subseteq 1 .. n, T # {}
    PROVE  \E i \in T : \A j \in T : j <= i
  <1> DEFINE D == {n - i : i \in T}
             R == OpToRel(<, Nat)
  <1>1. D \subseteq Nat
    <2>1. \A i \in T : n - i \in Nat
      OBVIOUS
    <2> HIDE DEF R
    <2> QED
      BY <2>1
  <1>2. D # {}
    <2> HIDE DEF R
    <2> QED
      OBVIOUS
  <1>3. IsWellFoundedOn(R, Nat)
    BY NatLessThanWellFounded, Zenon
  <1>4. \A x, y \in Nat : y < x => <<y, x>> \in R
    BY DEF OpToRel
  <1> HIDE DEF R, D
  <1>5. PICK x \in D : \A y \in D : ~(<<y, x>> \in R)
    BY <1>1, <1>2, <1>3, WFMin
  <1>6. PICK i \in T : x = n - i
    BY DEF D
  <1>7. ASSUME NEW j \in T
        PROVE  j <= i
    <2>1. n - j \in D
      BY DEF D
    <2>2. ~(n - j < n - i)
      BY <1>1, <1>4, <1>5, <1>6, <2>1
    <2> QED
      BY <2>2
  <1> QED
    BY <1>7

(* Loading keeps the last entry of an employee, or what there was.           *)
LEMMA LoadedAt ==
    ASSUME NEW list \in Seq(Entry), NEW base, NEW u \in Uuid
    PROVE  /\ Hits(list, u) = {} => Loaded(list, base)[u] = base[u]
           /\ \A i \in Hits(list, u) :
                (\A j \in Hits(list, u) : j <= i)
                => Loaded(list, base)[u] = list[i].content
           /\ Hits(list, u) # {}
                => \E i \in Hits(list, u) : \A j \in Hits(list, u) : j <= i
  <1>1. Len(list) \in Nat /\ Hits(list, u) \subseteq 1 .. Len(list)
    BY SeqDomain DEF Hits
  <1>2. Loaded(list, base)[u] =
          IF Hits(list, u) = {} THEN base[u]
          ELSE list[CHOOSE i \in Hits(list, u) :
                      \A j \in Hits(list, u) : j <= i].content
    BY DEF Loaded, Hits
  <1> HIDE DEF Hits
  <1>3. ASSUME NEW i \in Hits(list, u), \A j \in Hits(list, u) : j <= i
        PROVE  (CHOOSE k \in Hits(list, u) : \A j \in Hits(list, u) : j <= k) = i
    <2> DEFINE last == CHOOSE k \in Hits(list, u) :
                         \A j \in Hits(list, u) : j <= k
    <2>1. last \in Hits(list, u) /\ \A j \in Hits(list, u) : j <= last
      BY <1>3
    <2> HIDE DEF last
    <2>2. last <= i /\ i <= last /\ i \in Nat /\ last \in Nat
      BY <1>1, <1>3, <2>1
    <2>3. last = i
      BY <2>2
    <2> QED
      BY <2>3 DEF last
  <1>4. Hits(list, u) # {}
          => \E i \in Hits(list, u) : \A j \in Hits(list, u) : j <= i
    BY <1>1, LastPosition
  <1> QED
    BY <1>2, <1>3, <1>4

(* It is a function of the UUIDs.                                       *)
LEMMA LoadedFcn ==
    \A list, base : Loaded(list, base) = [u \in Uuid |-> Loaded(list, base)[u]]
  BY DEF Loaded

(* Its values are contents, or what there was.                             *)
LEMMA LoadedType ==
    ASSUME NEW list \in Seq(Entry), NEW base \in S!Accounts
    PROVE  Loaded(list, base) \in S!Accounts
  <1>1. ASSUME NEW u \in Uuid
        PROVE  Loaded(list, base)[u] \in Content \cup {NoAccount}
    <2>1. CASE Hits(list, u) = {}
      BY <2>1, LoadedAt DEF S!Accounts
    <2>2. CASE Hits(list, u) # {}
      <3>1. PICK i \in Hits(list, u) : \A j \in Hits(list, u) : j <= i
        BY <2>2, LoadedAt
      <3>2. Loaded(list, base)[u] = list[i].content
        BY <3>1, LoadedAt
      <3>3. list[i] \in Entry
        BY SeqDomain DEF Hits
      <3> QED
        BY <3>2, <3>3 DEF Entry
    <2> QED
      BY <2>1, <2>2
  <1> QED
    BY <1>1, LoadedFcn DEF S!Accounts

(* An empty list changes nothing.                                          *)
LEMMA LoadedNothing ==
    ASSUME NEW base \in S!Accounts
    PROVE  Loaded(<<>>, base) = base
  <1>1. <<>> \in Seq(Entry) /\ \A u : Hits(<<>>, u) = {}
    BY EmptySeq DEF Hits
  <1>2. \A u \in Uuid : Loaded(<<>>, base)[u] = base[u]
    BY <1>1, LoadedAt
  <1> QED
    BY <1>2, LoadedFcn DEF S!Accounts

(* Loading over what there was is the Merge of AccountStore.               *)
LEMMA LoadedMerges ==
    ASSUME NEW list \in Seq(Entry), NEW base
    PROVE  Loaded(list, base) =
             S!Merge(Loaded(list, [u \in Uuid |-> NoAccount]), base)
  <1> DEFINE none == [u \in Uuid |-> NoAccount]
  <1>1. ASSUME NEW u \in Uuid
        PROVE  Loaded(list, base)[u] =
                 IF Loaded(list, none)[u] # NoAccount
                 THEN Loaded(list, none)[u] ELSE base[u]
    <2>1. CASE Hits(list, u) = {}
      <3>1. Loaded(list, none)[u] = none[u] /\ Loaded(list, base)[u] = base[u]
        BY <2>1, LoadedAt
      <3> QED
        BY <3>1
    <2>2. CASE Hits(list, u) # {}
      <3>1. PICK i \in Hits(list, u) : \A j \in Hits(list, u) : j <= i
        BY <2>2, LoadedAt
      <3>2. /\ Loaded(list, base)[u] = list[i].content
            /\ Loaded(list, none)[u] = list[i].content
        BY <3>1, LoadedAt
      <3>3. list[i] \in Entry
        BY SeqDomain DEF Hits
      <3>4. list[i].content # NoAccount
        BY <3>3, EmployeesAssumption DEF Entry
      <3> QED
        BY <3>2, <3>4
    <2> QED
      BY <2>1, <2>2
  <1> QED
    BY <1>1, LoadedFcn DEF S!Merge

(* Visiting the first entry leaves what loading the whole list would.      *)
LEMMA LoadedStep ==
    ASSUME NEW list \in Seq(Entry), list # <<>>,
           NEW base \in S!Accounts, NEW base2,
           base2 = IF Accepted(Head(list))
                   THEN [base EXCEPT ![Head(list).uuid] = Head(list).content]
                   ELSE base
    PROVE  Loaded(Tail(list), base2) = Loaded(list, base)
  <1> DEFINE rest == Tail(list)
  <1>1. /\ Len(list) \in Nat /\ Len(list) > 0
        /\ DOMAIN list = 1 .. Len(list)
        /\ Head(list) = list[1]
        /\ rest \in Seq(Entry)
        /\ DOMAIN rest = 1 .. Len(list) - 1
        /\ \A i \in 1 .. Len(list) - 1 : rest[i] = list[i + 1]
    <2>1. Len(list) \in Nat /\ Len(list) > 0 /\ DOMAIN list = 1 .. Len(list)
      BY EmptySeq, LenProperties
    <2>2. /\ Head(list) = list[1]
          /\ Tail(list) \in Seq(Entry)
          /\ Len(Tail(list)) = Len(list) - 1
          /\ \A i \in 1 .. Len(Tail(list)) : Tail(list)[i] = list[i + 1]
      BY HeadTailProperties
    <2> QED
      BY <2>1, <2>2, LenProperties
  <1> HIDE DEF rest
  <1>2. ASSUME NEW u \in Uuid
        PROVE  Loaded(rest, base2)[u] = Loaded(list, base)[u]
    <2>1. \A i \in 1 .. Len(list) - 1 :
             i \in Hits(rest, u) <=> i + 1 \in Hits(list, u)
      BY <1>1 DEF Hits
    <2>2. Hits(rest, u) \subseteq 1 .. Len(list) - 1
          /\ Hits(list, u) \subseteq 1 .. Len(list)
      BY <1>1 DEF Hits
    <2>3. CASE Hits(rest, u) # {}
      <3>1. PICK i \in Hits(rest, u) :
               \A j \in Hits(rest, u) : j <= i
        BY <1>1, <2>3, LoadedAt
      <3>2. /\ i \in 1 .. Len(list) - 1
            /\ i + 1 \in Hits(list, u)
            /\ rest[i] = list[i + 1]
        BY <1>1, <2>1, <2>2, <3>1
      <3>3. ASSUME NEW j \in Hits(list, u)
            PROVE  j <= i + 1
        <4>1. CASE j = 1
          BY <1>1, <3>2, <4>1
        <4>2. CASE j # 1
          <5>1. j - 1 \in 1 .. Len(list) - 1 /\ (j - 1) + 1 = j
            BY <1>1, <2>2, <4>2
          <5>2. j - 1 \in Hits(rest, u)
            BY <2>1, <5>1
          <5> QED
            BY <2>2, <3>1, <3>2, <5>1, <5>2
        <4> QED
          BY <4>1, <4>2
      <3>4. Loaded(rest, base2)[u] = rest[i].content
        BY <1>1, <3>1, LoadedAt
      <3>5. Loaded(list, base)[u] = list[i + 1].content
        BY <3>2, <3>3, LoadedAt
      <3> QED
        BY <3>2, <3>4, <3>5
    <2>4. CASE Hits(rest, u) = {}
      <3>1. Loaded(rest, base2)[u] = base2[u]
        BY <1>1, <2>4, LoadedAt
      <3>2. Hits(list, u) \subseteq {1}
        <4> SUFFICES ASSUME NEW j \in Hits(list, u), j # 1 PROVE FALSE
          OBVIOUS
        <4>1. j - 1 \in 1 .. Len(list) - 1 /\ (j - 1) + 1 = j
          BY <1>1, <2>2
        <4> QED
          BY <2>1, <2>4, <4>1
      <3>3. CASE 1 \in Hits(list, u)
        <4>1. Loaded(list, base)[u] = list[1].content
          BY <3>2, <3>3, LoadedAt
        <4>2. Accepted(Head(list)) /\ Head(list).uuid = u
          BY <1>1, <3>3 DEF Hits
        <4>3. base2[u] = list[1].content
          BY <1>1, <4>2 DEF S!Accounts
        <4> QED
          BY <3>1, <4>1, <4>3
      <3>4. CASE 1 \notin Hits(list, u)
        <4>1. Loaded(list, base)[u] = base[u]
          BY <3>2, <3>4, LoadedAt
        <4>2. ~(Accepted(Head(list)) /\ Head(list).uuid = u)
          BY <1>1, <3>4 DEF Hits
        <4>3. base2[u] = base[u]
          BY <4>2 DEF S!Accounts
        <4> QED
          BY <3>1, <4>1, <4>3
      <3> QED
        BY <3>3, <3>4
    <2> QED
      BY <2>3, <2>4
  <1>3. /\ Loaded(list, base) = [u \in Uuid |-> Loaded(list, base)[u]]
        /\ Loaded(rest, base2)
             = [u \in Uuid |-> Loaded(rest, base2)[u]]
    BY LoadedFcn
  <1> QED
    BY <1>2, <1>3 DEF rest

-----------------------------------------------------------------------------
(* Employees implements AccountStore.                                      *)

(* load has a list only while it runs.                                     *)
IdleEmpty == phase # "loading" => toLoad = <<>>

(* Memory that can be read belongs to an employee.                         *)
HeapLive == \A a \in Address : heap[a] # Garbage => Live(a)

StoreInv ==
    /\ IInv
    /\ IdleEmpty
    /\ HeapLive

(* Putting an employee between loads and saves: addEmployee, or another    *)
(* client of the list (Session).                                           *)
Enter(u, c) ==
    /\ phase = "ready"
    /\ Put(u, c)
    /\ UNCHANGED <<file, phase, toLoad>>

(* Every step but a removal.                                               *)
ListStep ==
    \/ Start
    \/ Stop
    \/ \E u \in Uuid, c \in Content : Enter(u, c) \/ Update(u, c)
    \/ LoadOpen
    \/ LoadEntry
    \/ LoadEnd
    \/ SaveOpen
    \/ SaveClose

(* Where nothing is removed, or what is removed is overwritten, no pointer *)
(* of the registry reads as an employee that was removed.                  *)
FreedIsOverwritten == "remove" \in Ops => FreedMemory \subseteq {"overwritten"}

(* Initially.                                                              *)
LEMMA StoreInitially == Init => StoreInv
  <1> SUFFICES ASSUME Init PROVE IdleEmpty /\ HeapLive
    BY Initially DEF StoreInv
  <1> QED
    BY DEF Init, IdleEmpty, HeapLive

(* What Put does to the map and the memory.                                *)
LEMMA PutEffect ==
    ASSUME StoreInv, NEW u \in Uuid, NEW c \in Content, Put(u, c)
    PROVE  /\ HeapLive'
           /\ InMemory' = [InMemory EXCEPT ![u] = c]
  <1> PICK a \in Address :
        /\ IF map[u] = NoNode THEN ~Live(a) ELSE a = map[u]
        /\ map' = [map EXCEPT ![u] = a]
        /\ heap' = [heap EXCEPT ![a] = [uuid |-> u, content |-> c]]
    BY DEF Put
  <1>1. /\ map \in [Uuid -> Address \cup {NoNode}]
        /\ heap \in [Address -> Node \cup {Garbage}]
        /\ a # NoNode
    BY EmployeesAssumption DEF StoreInv, IInv, TypeOK
  <1>2. /\ map'[u] = a
        /\ \A v \in Uuid \ {u} : map'[v] = map[v]
        /\ heap'[a].content = c
        /\ \A b \in Address \ {a} : heap'[b] = heap[b]
    BY <1>1
  <1>3. \A v \in Uuid \ {u} : map[v] # a
    <2>1. CASE map[u] = NoNode
      BY <2>1 DEF Live
    <2>2. CASE map[u] # NoNode
      BY <1>1, <2>2 DEF StoreInv, IInv, MapConsistent
    <2> QED
      BY <2>1, <2>2
  <1>4. HeapLive'
    <2> SUFFICES ASSUME NEW b \in Address, heap'[b] # Garbage
                 PROVE  \E v \in Uuid : map'[v] = b
      BY DEF HeapLive, Live
    <2>1. CASE b = a
      BY <1>2, <2>1
    <2>2. CASE b # a
      <3>1. PICK v \in Uuid : map[v] = b
        BY <1>2, <2>2 DEF StoreInv, HeapLive, Live
      <3>2. CASE v = u
        BY <1>1, <2>2, <3>1, <3>2, EmployeesAssumption
      <3>3. CASE v # u
        BY <1>2, <3>1, <3>3
      <3> QED
        BY <3>2, <3>3
    <2> QED
      BY <2>1, <2>2
  <1>5. InMemory'[u] = c
    BY <1>1, <1>2 DEF InMemory
  <1>6. ASSUME NEW v \in Uuid \ {u}
        PROVE  InMemory'[v] = InMemory[v]
    <2>1. /\ map'[v] = map[v]
          /\ map[v] # NoNode => heap'[map[v]] = heap[map[v]]
      BY <1>1, <1>2, <1>3
    <2> QED
      BY <2>1 DEF InMemory
  <1>7. /\ InMemory = [v \in Uuid |-> InMemory[v]]
        /\ InMemory' = [v \in Uuid |-> InMemory'[v]]
    BY DEF InMemory
  <1> QED
    BY <1>4, <1>5, <1>6, <1>7

(* What a mutator called through getEmployee changes.                      *)
LEMMA UpdateEffect ==
    ASSUME StoreInv, NEW u \in Uuid, NEW c \in Content, Update(u, c)
    PROVE  /\ HeapLive'
           /\ InMemory' = [InMemory EXCEPT ![u] = c]
  <1>1. /\ map[u] \in Address /\ map[u] # NoNode
        /\ heap' = [heap EXCEPT ![map[u]].content = c]
        /\ map' = map
        /\ heap \in [Address -> Node \cup {Garbage}]
    BY DEF Update, StoreInv, IInv, TypeOK
  <1>2. heap[map[u]] \in Node
    BY <1>1 DEF StoreInv, IInv, MapConsistent
  <1>3. /\ heap'[map[u]].content = c
        /\ \A b \in Address \ {map[u]} : heap'[b] = heap[b]
    BY <1>1, <1>2 DEF Node
  <1>4. HeapLive'
    BY <1>1, <1>3 DEF StoreInv, HeapLive, Live
  <1>5. \A v \in Uuid \ {u} :
           map[v] # NoNode => map[v] \in Address \ {map[u]}
    BY <1>1 DEF StoreInv, IInv, TypeOK, MapConsistent
  <1>6. InMemory'[u] = c
    BY <1>1, <1>3 DEF InMemory
  <1>7. ASSUME NEW v \in Uuid \ {u}
        PROVE  InMemory'[v] = InMemory[v]
    BY <1>1, <1>3, <1>5 DEF InMemory
  <1>8. InMemory' = [InMemory EXCEPT ![u] = c]
    BY <1>6, <1>7 DEF InMemory
  <1> QED
    BY <1>4, <1>8

(* Every step but a removal keeps the invariant.                           *)
LEMMA StepKeepsStore ==
    ASSUME StoreInv, IInv', [ListStep]_vars
    PROVE  StoreInv'
  <1> USE DEF StoreInv, IdleEmpty
  <1>1. CASE UNCHANGED <<map, heap>> /\ IdleEmpty'
    BY <1>1 DEF HeapLive, Live
  <1>2. CASE Stop
    BY <1>2 DEF Stop, HeapLive
  <1>3. ASSUME NEW u \in Uuid, NEW c \in Content, Enter(u, c) \/ Update(u, c)
        PROVE  StoreInv'
    <2>1. CASE Enter(u, c)
      BY <2>1, PutEffect DEF Enter
    <2>2. CASE Update(u, c)
      BY <2>2, UpdateEffect DEF Update
    <2> QED
      BY <1>3, <2>1, <2>2
  <1>4. CASE LoadEntry
    <2>1. /\ toLoad \in Seq(Entry) /\ toLoad # <<>> /\ phase' = "loading"
      BY <1>4 DEF LoadEntry, IInv, TypeOK
    <2>2. CASE Accepted(Head(toLoad))
      <3>1. Put(Head(toLoad).uuid, Head(toLoad).content)
        BY <1>4, <2>2 DEF LoadEntry
      <3>2. Head(toLoad) \in Entry
        BY <2>1, HeadTailProperties
      <3>3. Head(toLoad).uuid \in Uuid /\ Head(toLoad).content \in Content
        BY <3>2 DEF Entry
      <3> QED
        BY <2>1, <3>1, <3>3, PutEffect
    <2>3. CASE ~Accepted(Head(toLoad))
      BY <1>1, <1>4, <2>1, <2>3 DEF LoadEntry
    <2> QED
      BY <2>2, <2>3
  <1> QED
    BY <1>1, <1>2, <1>3, <1>4
    DEF ListStep, vars, Start, LoadOpen, LoadEnd, SaveOpen, SaveClose

(* A removal takes one employee out of memory, and if the freed memory is  *)
(* overwritten nothing can be read there.                                  *)
LEMMA RemoveEffect ==
    ASSUME StoreInv, NEW u \in Uuid, RemoveEmployee(u)
    PROVE  /\ InMemory' = [InMemory EXCEPT ![u] = NoAccount]
           /\ FreedIsOverwritten => StoreInv'
  <1>1. /\ map \in [Uuid -> Address \cup {NoNode}]
        /\ heap \in [Address -> Node \cup {Garbage}]
        /\ map' = [map EXCEPT ![u] = NoNode]
        /\ UNCHANGED <<file, phase, toLoad>>
        /\ IInv'
    BY RemoveKeeps DEF RemoveEmployee, StoreInv, IInv, TypeOK
  <1>2. map'[u] = NoNode /\ \A v \in Uuid \ {u} : map'[v] = map[v]
    BY <1>1
  <1>3. \A b \in Address : b # map[u] => heap'[b] = heap[b]
    <2>1. CASE heap' = heap
      BY <2>1
    <2>2. CASE heap' = [heap EXCEPT ![map[u]] = Garbage]
      BY <1>1, <2>2
    <2> QED
      BY <2>1, <2>2 DEF RemoveEmployee
  <1>4. \A v \in Uuid \ {u} :
           map[v] # NoNode => map[v] \in Address /\ map[v] # map[u]
    BY <1>1 DEF StoreInv, IInv, MapConsistent
  <1>5. InMemory' = [InMemory EXCEPT ![u] = NoAccount]
    BY <1>2, <1>3, <1>4 DEF InMemory
  <1>6. ASSUME FreedIsOverwritten
        PROVE  HeapLive'
    <2> SUFFICES ASSUME NEW b \in Address, heap'[b] # Garbage
                 PROVE  \E v \in Uuid : map'[v] = b
      BY DEF HeapLive, Live
    <2>1. b # map[u]
      <3>1. CASE map[u] = NoNode
        BY <3>1, EmployeesAssumption
      <3>2. CASE map[u] # NoNode
        <4>1. heap' = [heap EXCEPT ![map[u]] = Garbage]
          BY <1>6, <3>2 DEF FreedIsOverwritten, RemoveEmployee
        <4> QED
          BY <1>1, <4>1
      <3> QED
        BY <3>1, <3>2
    <2>2. PICK v \in Uuid : map[v] = b
      BY <1>3, <2>1 DEF StoreInv, HeapLive, Live
    <2> QED
      BY <1>2, <2>1, <2>2
  <1> QED
    BY <1>1, <1>5, <1>6 DEF StoreInv, IdleEmpty

(* The employees in memory are contents.                                   *)
LEMMA InMemoryType == StoreInv => InMemory \in S!Accounts
  <1> SUFFICES ASSUME StoreInv, NEW u \in Uuid, map[u] # NoNode
               PROVE  heap[map[u]].content \in Content
    BY DEF InMemory, S!Accounts
  <1>1. map[u] \in Address /\ heap[map[u]] # Garbage
    BY DEF StoreInv, IInv, TypeOK, MapConsistent
  <1>2. heap[map[u]] \in Node
    BY <1>1 DEF StoreInv, IInv, TypeOK
  <1> QED
    BY <1>2 DEF Node

(* A file that was not cut off holds accounts.                             *)
LEMMA DurableType ==
    ASSUME StoreInv
    PROVE  /\ file.list \in Seq(Entry)
           /\ file.kind # "torn" =>
                /\ Durable = Loaded(file.list, S!NoAccounts)
                /\ Durable \in S!Accounts
                /\ Durable # Lost
  <1>1. file.list \in Seq(Entry)
    BY DEF StoreInv, IInv, TypeOK
  <1>2. S!NoAccounts \in S!Accounts
    BY DEF S!NoAccounts, S!Accounts
  <1>3. Loaded(file.list, S!NoAccounts) \in S!Accounts
    BY <1>1, <1>2, LoadedType
  <1>4. Lost \notin S!Accounts
    BY EmployeesAssumption DEF S!Accounts
  <1>5. file.kind # "torn" => Durable = Loaded(file.list, S!NoAccounts)
    BY DEF Durable, S!NoAccounts
  <1> QED
    BY <1>1, <1>3, <1>4, <1>5

(* Between loads the accounts are those in memory.                         *)
VolatileShape == phase # "loading" => Volatile = InMemory

(* For then no entry is left to be visited.                                *)
LEMMA VolatileIs == StoreInv => VolatileShape
  BY InMemoryType, LoadedNothing
  DEF StoreInv, IdleEmpty, Volatile, VolatileShape

(* The same after a step.                                                  *)
LEMMA VolatileIsNext == StoreInv' => VolatileShape'
  BY VolatileIs, PTL

(* Whatever the first process finds is a state of the store.               *)
LEMMA InitImplements == Init => S!Init
  <1> SUFFICES ASSUME Init PROVE S!Init
    OBVIOUS
  <1>1. StoreInv
    BY StoreInitially
  <1>2. Durable \in S!Accounts \cup {Lost}
    BY <1>1, DurableType DEF Durable
  <1>3. Volatile = S!NoAccounts
    BY <1>1, VolatileIs
    DEF VolatileShape, Init, EmptyList, InMemory, S!NoAccounts
  <1> QED
    BY <1>2, <1>3 DEF Init, S!Init

(* Starting and ending a process.                                          *)
LEMMA ProcessImplements ==
    ASSUME StoreInv, StoreInv', Start \/ Stop
    PROVE  S!Next
  <1>1. CASE Start
    <2>1. /\ phase = "down" /\ phase' = "ready"
          /\ UNCHANGED <<file, map, heap>>
      BY <1>1 DEF Start
    <2>2. Durable' = Durable /\ Volatile' = Volatile
      BY <2>1, VolatileIs, VolatileIsNext
      DEF VolatileShape, Durable, InMemory
    <2>3. S!Open
      BY <2>1, <2>2 DEF S!Open, S!Become
    <2> QED
      BY <2>3 DEF S!Next
  <1>2. CASE Stop
    <2>1. /\ phase # "down" /\ phase' = "down" /\ file' = file
          /\ map' = [u \in Uuid |-> NoNode]
      BY <1>2 DEF Stop
    <2>2. Durable' = Durable
      BY <2>1 DEF Durable
    <2>3. Volatile' = S!NoAccounts
      BY <2>1, VolatileIsNext DEF VolatileShape, InMemory, S!NoAccounts
    <2>4. S!Stop
      BY <2>1, <2>2, <2>3 DEF S!Stop
    <2> QED
      BY <2>4 DEF S!Next
  <1> QED
    BY <1>1, <1>2

(* Putting and changing an employee are one step of the store.             *)
LEMMA ChangeImplements ==
    ASSUME StoreInv, StoreInv', NEW u \in Uuid, NEW c \in Content,
           Enter(u, c) \/ Update(u, c)
    PROVE  S!Next
  <1>1. phase = "ready" /\ phase' = "ready" /\ file' = file
    BY DEF Enter, Update
  <1>2. InMemory' = [InMemory EXCEPT ![u] = c]
    <2>1. CASE Enter(u, c)
      BY <2>1, PutEffect DEF Enter
    <2>2. CASE Update(u, c)
      BY <2>2, UpdateEffect
    <2> QED
      BY <2>1, <2>2
  <1>3. Volatile = InMemory /\ Volatile' = InMemory' /\ Durable' = Durable
    BY <1>1, VolatileIs, VolatileIsNext DEF VolatileShape, Durable
  <1>4. S!Put(u, c)
    BY <1>1, <1>2, <1>3 DEF S!Put
  <1> QED
    BY <1>4 DEF S!Next

(* So is a removal.                                                        *)
LEMMA RemoveImplements ==
    ASSUME StoreInv, StoreInv', NEW u \in Uuid, RemoveEmployee(u)
    PROVE  S!Next
  <1>1. phase = "ready" /\ phase' = "ready" /\ file' = file
    BY DEF RemoveEmployee
  <1>2. Volatile = InMemory /\ Volatile' = InMemory' /\ Durable' = Durable
    BY <1>1, VolatileIs, VolatileIsNext DEF VolatileShape, Durable
  <1>3. S!Remove(u)
    BY <1>1, <1>2, RemoveEffect DEF S!Remove
  <1> QED
    BY <1>3 DEF S!Next

(* A load is one step of the store, where it opens the file.               *)
LEMMA LoadImplements ==
    ASSUME StoreInv, StoreInv', LoadOpen \/ LoadEntry \/ LoadEnd
    PROVE  [S!Next]_(S!storeVars)
  <1>1. InMemory \in S!Accounts /\ toLoad \in Seq(Entry)
    BY InMemoryType DEF StoreInv, IInv, TypeOK
  <1>2. CASE LoadOpen
    <2>1. /\ phase = "ready" /\ phase' = "loading"
          /\ file.kind = "whole" /\ toLoad' = file.list
          /\ UNCHANGED <<file, map, registry, heap>>
      BY <1>2 DEF LoadOpen
    <2>2. /\ file.list \in Seq(Entry)
          /\ Durable = Loaded(file.list, [u \in Uuid |-> NoAccount])
          /\ Durable # Lost /\ Durable' = Durable
      BY <2>1, DurableType DEF Durable
    <2>3. Volatile = InMemory /\ Volatile' = Loaded(file.list, InMemory)
      BY <2>1, VolatileIs DEF VolatileShape, Volatile, InMemory
    <2>4. Volatile' = S!Merge(Durable, Volatile)
      BY <2>2, <2>3, LoadedMerges
    <2>5. S!BeginLoad
      BY <2>1, <2>2, <2>4 DEF S!BeginLoad, S!Become
    <2> QED
      BY <2>5 DEF S!Next
  <1>3. CASE LoadEntry
    <2>1. /\ toLoad # <<>>
          /\ toLoad' = Tail(toLoad)
          /\ UNCHANGED <<file, phase>>
      BY <1>3 DEF LoadEntry
    <2>2. InMemory' = IF Accepted(Head(toLoad))
                      THEN [InMemory EXCEPT ![Head(toLoad).uuid]
                              = Head(toLoad).content]
                      ELSE InMemory
      <3>1. CASE Accepted(Head(toLoad))
        <4>1. Put(Head(toLoad).uuid, Head(toLoad).content)
          BY <1>3, <3>1 DEF LoadEntry
        <4>2. Head(toLoad) \in Entry
          BY <1>1, <2>1, HeadTailProperties
        <4>3. Head(toLoad).uuid \in Uuid /\ Head(toLoad).content \in Content
          BY <4>2 DEF Entry
        <4> QED
          BY <3>1, <4>1, <4>3, PutEffect
      <3>2. CASE ~Accepted(Head(toLoad))
        BY <1>3, <3>2 DEF LoadEntry, InMemory
      <3> QED
        BY <3>1, <3>2
    <2>3. Loaded(Tail(toLoad), InMemory') = Loaded(toLoad, InMemory)
      BY <1>1, <2>1, <2>2, LoadedStep
    <2>4. Volatile' = Volatile /\ Durable' = Durable
      BY <2>1, <2>3 DEF Volatile, Durable
    <2> QED
      BY <2>1, <2>4 DEF S!storeVars
  <1>4. CASE LoadEnd
    <2>1. /\ phase = "loading" /\ phase' = "ready"
          /\ UNCHANGED <<file, map, registry, heap, toLoad>>
      BY <1>4 DEF LoadEnd
    <2>2. Volatile' = Volatile /\ Durable' = Durable
      BY <2>1 DEF Volatile, Durable, InMemory
    <2>3. S!EndLoad
      BY <2>1, <2>2 DEF S!EndLoad, S!Become
    <2> QED
      BY <2>3 DEF S!Next
  <1> QED
    BY <1>2, <1>3, <1>4

(* Where nothing can be read but employees, the pointers of the registry   *)
(* that read as u are those to the employee u: however many there are, the *)
(* list that save writes puts u as it is in memory, and nobody else.       *)
LEMMA WrittenIsInMemory ==
    ASSUME StoreInv, phase = "saving", Validation # "Strict",
           NEW list \in Seq(Entry),
           list = [i \in DOMAIN registry |-> Written(registry[i])]
    PROVE  Loaded(list, S!NoAccounts) = InMemory
  <1>1. /\ DOMAIN list = DOMAIN registry
        /\ \A i \in DOMAIN list :
             /\ list[i].uuid = heap[registry[i]].uuid
             /\ list[i].content = heap[registry[i]].content
             /\ list[i].hashcode = "none"
    BY DEF Written
  <1>2. \A i \in DOMAIN registry :
           registry[i] \in Address /\ heap[registry[i]] # Garbage
    BY SeqDomain DEF StoreInv, IInv, TypeOK, SaveReadable
  <1>3. ASSUME NEW u \in Uuid
        PROVE  Loaded(list, S!NoAccounts)[u] = InMemory[u]
    <2>1. ASSUME NEW i \in DOMAIN list
          PROVE  i \in Hits(list, u) <=> registry[i] = map[u]
      <3>1. i \in Hits(list, u) <=> heap[registry[i]].uuid = u
        BY <1>1, EmployeesAssumption DEF Hits, Accepted
      <3>2. PICK v \in Uuid : map[v] = registry[i]
        BY <1>1, <1>2 DEF StoreInv, HeapLive, Live
      <3>3. map[v] # NoNode
        BY <1>1, <1>2, <3>2, EmployeesAssumption
      <3>4. /\ heap[map[v]].uuid = v
            /\ \A w \in Uuid : map[w] = map[v] => w = v
        BY <3>3 DEF StoreInv, IInv, MapConsistent
      <3> QED
        BY <3>1, <3>2, <3>4
    <2>2. Hits(list, u) \subseteq DOMAIN list
      BY DEF Hits
    <2>3. CASE map[u] = NoNode
      <3>1. Hits(list, u) = {}
        BY <1>1, <1>2, <2>1, <2>2, <2>3, EmployeesAssumption
      <3>2. Loaded(list, S!NoAccounts)[u] = S!NoAccounts[u]
        BY <3>1, LoadedAt
      <3> QED
        BY <2>3, <3>2 DEF S!NoAccounts, InMemory
    <2>4. CASE map[u] # NoNode
      <3>1. Hits(list, u) # {}
        BY <1>1, <2>1, <2>4 DEF StoreInv, IInv, MapEnumerated
      <3>2. PICK i \in Hits(list, u) : \A j \in Hits(list, u) : j <= i
        BY <3>1, LoadedAt
      <3>3. Loaded(list, S!NoAccounts)[u] = list[i].content
        BY <3>2, LoadedAt
      <3>4. i \in DOMAIN list /\ registry[i] = map[u]
        BY <2>1, <2>2
      <3> QED
        BY <1>1, <2>4, <3>3, <3>4 DEF InMemory
    <2> QED
      BY <2>3, <2>4
  <1>4. /\ Loaded(list, S!NoAccounts)
             = [u \in Uuid |-> Loaded(list, S!NoAccounts)[u]]
        /\ InMemory = [u \in Uuid |-> InMemory[u]]
    BY LoadedFcn DEF InMemory
  <1> QED
    BY <1>3, <1>4

(* A save begins and ends for the store where it opens and closes the file.*)
LEMMA SaveImplements ==
    ASSUME StoreInv, StoreInv', Validation # "Strict", SaveOpen \/ SaveClose
    PROVE  S!Next
  <1>1. CASE SaveOpen
    <2>1. /\ phase = "ready" /\ phase' = "saving" /\ file' = Torn
          /\ UNCHANGED <<map, heap>>
      BY <1>1 DEF SaveOpen
    <2>2. Durable' = Lost
      BY <2>1 DEF Durable, Torn
    <2>3. Volatile' = Volatile
      BY <2>1, VolatileIs, VolatileIsNext DEF VolatileShape, InMemory
    <2>4. S!BeginSave
      BY <2>1, <2>2, <2>3 DEF S!BeginSave, S!Become
    <2> QED
      BY <2>4 DEF S!Next
  <1>2. CASE SaveClose
    <2> DEFINE list == [i \in DOMAIN registry |-> Written(registry[i])]
    <2>1. /\ phase = "saving" /\ phase' = "ready" /\ file' = Whole(list)
          /\ UNCHANGED <<map, heap>>
      BY <1>2 DEF SaveClose
    <2>2. file'.list = list /\ file'.kind = "whole"
      <3> HIDE DEF list
      <3> QED
        BY <2>1 DEF Whole
    <2>3. list \in Seq(Entry)
      <3> HIDE DEF list
      <3> QED
        BY <2>2 DEF StoreInv, IInv, TypeOK
    <2>4. Loaded(list, S!NoAccounts) = InMemory
      BY <2>1, <2>3, WrittenIsInMemory
    <2> HIDE DEF list
    <2>5. Durable' = Loaded(list, S!NoAccounts)
      BY <2>2 DEF Durable, S!NoAccounts
    <2>6. Volatile = InMemory /\ Volatile' = Volatile
      BY <2>1, VolatileIs, VolatileIsNext DEF VolatileShape, InMemory
    <2>7. S!EndSave
      BY <2>1, <2>4, <2>5, <2>6 DEF S!EndSave, S!Become
    <2> QED
      BY <2>7 DEF S!Next
  <1> QED
    BY <1>1, <1>2

(* Every step but a removal maps to a step or a stutter.                   *)
LEMMA StepImplements ==
    ASSUME StoreInv, StoreInv', Validation # "Strict", [ListStep]_vars
    PROVE  [S!Next]_(S!storeVars)
  <1>1. CASE UNCHANGED vars
    BY <1>1 DEF vars, S!storeVars, Durable, Volatile, InMemory
  <1>2. ASSUME NEW u \in Uuid, NEW c \in Content, Enter(u, c) \/ Update(u, c)
        PROVE  S!Next
    BY <1>2, ChangeImplements
  <1>3. CASE Start \/ Stop
    BY <1>3, ProcessImplements
  <1>4. CASE LoadOpen \/ LoadEntry \/ LoadEnd
    BY <1>4, LoadImplements
  <1>5. CASE SaveOpen \/ SaveClose
    BY <1>5, SaveImplements
  <1> QED
    BY <1>1, <1>2, <1>3, <1>4, <1>5 DEF ListStep

(* The steps of Employees are those of ListStep and removals.              *)
LEMMA StepsOfNext ==
    ASSUME [Next]_vars
    PROVE  [ListStep]_vars \/ \E u \in Uuid : RemoveEmployee(u)
  BY DEF Next, ListStep, AddEmployee, Enter

(* With removals too the invariant is kept.                                *)
LEMMA StoreNext ==
    ASSUME FreedIsOverwritten, StoreInv, [Next]_vars
    PROVE  StoreInv'
  <1>1. IInv'
    BY Inductive DEF StoreInv
  <1> QED
    BY <1>1, StepsOfNext, StepKeepsStore, RemoveEffect

(* Whatever duplicates and rejected entries there are, a completed save    *)
(* and the next load bring back the accounts that were in memory, entry by *)
(* entry but in effect at once, and a crash changes nothing that was not   *)
(* being saved.  It takes a mode that accepts what save writes (none is    *)
(* accepted in mode Strict, BindingsImpl.cpp:283), and that no pointer     *)
(* reads as an employee whose node was freed (removeEmployee, :342-352,    *)
(* erases one pointer of several).                                         *)
THEOREM EmployeesImplementStore ==
    ASSUME FreedIsOverwritten, Validation # "Strict"
    PROVE  Spec => ImplementsAccountStore
  <1>1. Init => StoreInv /\ S!Init
    BY StoreInitially, InitImplements
  <1>2. StoreInv /\ [Next]_vars => StoreInv'
    BY StoreNext
  <1>3. StoreInv /\ StoreInv' /\ [Next]_vars => [S!Next]_(S!storeVars)
    BY StepsOfNext, StepImplements, RemoveImplements
  <1> QED
    BY <1>1, <1>2, <1>3, PTL DEF Spec, ImplementsAccountStore, S!Spec
=============================================================================
