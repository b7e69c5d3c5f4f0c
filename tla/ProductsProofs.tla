--------------------------- MODULE ProductsProofs ---------------------------
(***************************************************************************)
(* Theorems about Products, for every set of products, contents and        *)
(* addresses, every file found and every bound.                            *)
(***************************************************************************)
EXTENDS Products, SequenceTheorems, WellFoundedInduction, TLAPS

(* What the provers need to know of sequences.                             *)
LEMMA SeqDomain ==
    ASSUME NEW T, NEW s \in Seq(T)
    PROVE  /\ Len(s) \in Nat
           /\ DOMAIN s = 1 .. Len(s)
           /\ \A i \in DOMAIN s : i \in Nat /\ s[i] \in T
  BY LenProperties, ElementOfSeq

(* Appending keeps every element where it is and adds one at the end.      *)
LEMMA Appended ==
    ASSUME NEW T, NEW s \in Seq(T), NEW a \in T
    PROVE  /\ Append(s, a) \in Seq(T)
           /\ Len(Append(s, a)) = Len(s) + 1
           /\ DOMAIN Append(s, a) = 1 .. Len(s) + 1
           /\ \A i \in DOMAIN s :
                i \in DOMAIN Append(s, a) /\ Append(s, a)[i] = s[i]
           /\ Append(s, a)[Len(s) + 1] = a
  <1>1. /\ Append(s, a) \in Seq(T)
        /\ Len(Append(s, a)) = Len(s) + 1
        /\ \A i \in 1 .. Len(s) : Append(s, a)[i] = s[i]
        /\ Append(s, a)[Len(s) + 1] = a
    BY AppendProperties, LenProperties
  <1>2. DOMAIN Append(s, a) = 1 .. Len(s) + 1
    BY <1>1, LenProperties
  <1>3. Len(s) \in Nat /\ DOMAIN s = 1 .. Len(s)
    BY LenProperties
  <1> QED
    BY <1>1, <1>2, <1>3

-----------------------------------------------------------------------------
(* Type correctness.                                                       *)

(* Nothing is known when the first process starts.                         *)
LEMMA TypeInitially == Init => TypeOK
  <1> SUFFICES ASSUME Init PROVE TypeOK
    OBVIOUS
  <1>1. PICK f \in InitialFiles :
           files = [n \in FileName |-> IF n = Configured THEN f ELSE Absent]
    BY DEF Init
  <1>2. /\ f \in [kind : {"absent", "torn", "whole"}, list : Seq(Entry)]
        /\ Absent \in [kind : {"absent", "torn", "whole"}, list : Seq(Entry)]
    BY ProductsAssumption, EmptySeq DEF Absent
  <1>3. files \in [FileName -> [kind : {"absent", "torn", "whole"},
                                list : Seq(Entry)]]
    BY <1>1, <1>2
  <1> QED
    BY <1>3, EmptySeq DEF Init, TypeOK

(* What an assignment leaves is a product.                                 *)
LEMMA AssignedIsNode ==
    ASSUME TypeOK, LiveReadLast, NEW u \in Uuid, NEW c \in Content,
           NEW a \in Address, map[u] # NoNode => a = map[u]
    PROVE  Assigned(a, u, c) \in Node
  <1>1. map[u] # NoNode => heap[a] \in Node
    BY DEF TypeOK, LiveReadLast
  <1>2. map[u] # NoNode => heap[a].phone \in Text
    BY <1>1 DEF Node
  <1>3. (IF map[u] = NoNode THEN NoPhone ELSE heap[a].phone) \in Text
    BY <1>2, ProductsAssumption
  <1> QED
    BY <1>3 DEF Assigned, Node

(* Put stores the product at a place no other product is found at.         *)
LEMMA PutTypes ==
    ASSUME TypeOK, LiveReadLast, NEW u \in Uuid, NEW c \in Content, Put(u, c)
    PROVE  /\ map' \in [Uuid -> Address \cup {NoNode}]
           /\ registry' \in Seq(Address)
           /\ heap' \in [Address -> Node \cup {Garbage}]
  <1> PICK a \in Address :
        /\ map[u] # NoNode => a = map[u]
        /\ map' = [map EXCEPT ![u] = a]
        /\ heap' = [heap EXCEPT ![a] = Assigned(a, u, c)]
        /\ registry' = Append(registry, a)
    BY DEF Put
  <1>1. Assigned(a, u, c) \in Node
    BY AssignedIsNode
  <1>2. registry' \in Seq(Address)
    BY Appended DEF TypeOK
  <1> QED
    BY <1>1, <1>2 DEF TypeOK

(* The entry a load visits is one.                                         *)
LEMMA HeadIsEntry ==
    ASSUME TypeOK, LoadEntry
    PROVE  /\ Head(pending) \in Entry
           /\ Head(pending).uuid \in Uuid
           /\ Head(pending).content \in Content
           /\ Tail(pending) \in Seq(Entry)
  <1>1. Head(pending) \in Entry /\ Tail(pending) \in Seq(Entry)
    BY HeadTailProperties DEF LoadEntry, TypeOK
  <1> QED
    BY <1>1 DEF Entry

(* Each step stores values of the right type, also through a dangling      *)
(* pointer.                                                                *)
LEMMA TypeNext == TypeOK /\ LiveReadLast /\ [Next]_vars => TypeOK'
  <1> SUFFICES ASSUME TypeOK, LiveReadLast, [Next]_vars PROVE TypeOK'
    OBVIOUS
  <1>1. CASE Start
    BY <1>1 DEF Start, TypeOK
  <1>2. CASE Stop
    BY <1>2, EmptySeq DEF Stop, TypeOK
  <1>3. ASSUME NEW u \in Uuid, NEW c \in Content, AddProduct(u, c)
        PROVE  TypeOK'
    BY <1>3, PutTypes DEF AddProduct, TypeOK
  <1>4. ASSUME NEW u \in Uuid, RemoveProduct(u)
        PROVE  TypeOK'
    BY <1>4 DEF RemoveProduct, TypeOK
  <1>5. CASE LoadOpen
    BY <1>5 DEF LoadOpen, TypeOK, FileName
  <1>6. CASE LoadEntry
    BY <1>6, HeadIsEntry, PutTypes DEF LoadEntry, TypeOK
  <1>7. CASE LoadEnd
    BY <1>7 DEF LoadEnd, TypeOK
  <1>8. CASE SaveBegin
    BY <1>8 DEF SaveBegin, TypeOK
  <1>9. CASE SaveEntry
    <2> DEFINE n == heap[registry[Len(pending) + 1]]
               e == [uuid |-> n.uuid, content |-> n.content,
                     phone |-> MailingAddress[n.content],
                     hashcode |-> "none"]
    <2>1. Len(pending) + 1 \in DOMAIN registry
      BY <1>9, SeqDomain DEF SaveEntry, TypeOK
    <2>2. n \in Node
      BY <1>9, <2>1, SeqDomain DEF SaveEntry, TypeOK
    <2>3. e \in Entry
      BY <2>2, ProductsAssumption DEF Node, Entry
    <2>4. pending' = Append(pending, e)
      BY <1>9 DEF SaveEntry
    <2> HIDE DEF e
    <2>5. pending' \in Seq(Entry)
      BY <2>3, <2>4, Appended DEF TypeOK
    <2> QED
      BY <1>9, <2>5 DEF SaveEntry, TypeOK
  <1>10. CASE SaveOpen
    <2>1. Torn \in [kind : {"absent", "torn", "whole"}, list : Seq(Entry)]
      BY EmptySeq DEF Torn
    <2> QED
      BY <1>10, <2>1 DEF SaveOpen, TypeOK
  <1>11. CASE SaveClose
    <2>1. /\ Whole(pending) \in [kind : {"absent", "torn", "whole"},
                                 list : Seq(Entry)]
          /\ <<>> \in Seq(Entry)
      BY EmptySeq DEF Whole, TypeOK
    <2> QED
      BY <1>11, <2>1 DEF SaveClose, TypeOK
  <1>12. CASE UNCHANGED vars
    BY <1>12 DEF vars, TypeOK
  <1> QED
    BY <1>1, <1>2, <1>3, <1>4, <1>5, <1>6, <1>7, <1>8, <1>9, <1>10, <1>11,
       <1>12 DEF Next

-----------------------------------------------------------------------------
(* No dangling pointer hides a product.                                    *)

(* What Put does to the map, the memory and the registry: the node is new, *)
(* or the product's own, so that no other product is disturbed.            *)
PutAt(u, c, a) ==
    /\ a \in Address /\ a # NoNode
    /\ map[u] = NoNode \/ map[u] = a
    /\ map'[u] = a
    /\ \A v \in Uuid \ {u} : map'[v] = map[v] /\ map[v] # a
    /\ heap'[a] # Garbage /\ heap'[a].uuid = u /\ heap'[a].content = c
    /\ \A b \in Address \ {a} : heap'[b] = heap[b]
    /\ Len(registry) \in Nat
    /\ DOMAIN registry = 1 .. Len(registry)
    /\ DOMAIN registry' = 1 .. Len(registry) + 1
    /\ \A i \in DOMAIN registry : registry[i] \in Address
    /\ \A i \in DOMAIN registry : registry'[i] = registry[i]
    /\ registry'[Len(registry) + 1] = a

(* A place is found for every product put.                                 *)
LEMMA PutPlaces ==
    ASSUME TypeOK, LiveReadLast, NEW u \in Uuid, NEW c \in Content, Put(u, c)
    PROVE  \E a \in Address : PutAt(u, c, a)
  <1> PICK a \in Address :
        /\ IF map[u] = NoNode THEN ~Live(a) ELSE a = map[u]
        /\ map' = [map EXCEPT ![u] = a]
        /\ heap' = [heap EXCEPT ![a] = Assigned(a, u, c)]
        /\ registry' = Append(registry, a)
    BY DEF Put
  <1>1. Assigned(a, u, c) \in Node
    BY AssignedIsNode
  <1>2. a # NoNode /\ Assigned(a, u, c) # Garbage
    BY <1>1, ProductsAssumption
  <1>3. /\ map'[u] = a
        /\ \A v \in Uuid \ {u} : map'[v] = map[v]
        /\ heap'[a] = Assigned(a, u, c)
        /\ heap'[a].uuid = u /\ heap'[a].content = c
        /\ \A b \in Address \ {a} : heap'[b] = heap[b]
    BY DEF TypeOK, Assigned
  <1>4. ASSUME NEW v \in Uuid \ {u}
        PROVE  map[v] # a
    <2>1. CASE map[u] = NoNode
      BY <2>1 DEF Live
    <2>2. CASE map[u] # NoNode
      BY <2>2, <1>2 DEF LiveReadLast
    <2> QED
      BY <2>1, <2>2
  <1>5. /\ Len(registry) \in Nat
        /\ DOMAIN registry = 1 .. Len(registry)
        /\ DOMAIN registry' = 1 .. Len(registry) + 1
        /\ \A i \in DOMAIN registry : registry[i] \in Address
        /\ \A i \in DOMAIN registry : registry'[i] = registry[i]
        /\ registry'[Len(registry) + 1] = a
    BY SeqDomain, Appended DEF TypeOK
  <1>6. PutAt(u, c, a)
    BY <1>2, <1>3, <1>4, <1>5 DEF PutAt
  <1> QED
    BY <1>6

(* The pointer pushed last is the one to the product put, and a product    *)
(* that reuses a freed node removes a dangling reading of it.              *)
LEMMA PutKeepsLast ==
    ASSUME TypeOK, LiveReadLast, NEW u \in Uuid, NEW c \in Content, Put(u, c)
    PROVE  LiveReadLast'
  <1> PICK a \in Address : PutAt(u, c, a)
    BY PutPlaces
  <1> USE DEF PutAt
  <1> SUFFICES ASSUME NEW v \in Uuid, map'[v] # NoNode
               PROVE  /\ heap'[map'[v]] # Garbage
                      /\ heap'[map'[v]].uuid = v
                      /\ \E i \in DOMAIN registry' :
                           /\ registry'[i] = map'[v]
                           /\ \A j \in DOMAIN registry' :
                                /\ heap'[registry'[j]] # Garbage
                                /\ heap'[registry'[j]].uuid = v
                                /\ registry'[j] # map'[v]
                                => j < i
    BY DEF LiveReadLast
  <1>1. CASE v = u
    <2>1. heap'[map'[v]] # Garbage /\ heap'[map'[v]].uuid = v
      BY <1>1
    <2>2. /\ Len(registry) + 1 \in DOMAIN registry'
          /\ registry'[Len(registry) + 1] = map'[v]
      BY <1>1
    <2>3. ASSUME NEW j \in DOMAIN registry', registry'[j] # map'[v]
          PROVE  j < Len(registry) + 1
      BY <2>2, <2>3
    <2> QED
      BY <2>1, <2>2, <2>3
  <1>2. CASE v # u
    <2>1. map'[v] = map[v] /\ map[v] # a /\ map[v] \in Address
      BY <1>2 DEF TypeOK
    <2>2. heap'[map'[v]] # Garbage /\ heap'[map'[v]].uuid = v
      BY <2>1 DEF LiveReadLast
    <2>3. PICK i \in DOMAIN registry :
             /\ registry[i] = map[v]
             /\ \A j \in DOMAIN registry :
                  /\ heap[registry[j]] # Garbage
                  /\ heap[registry[j]].uuid = v
                  /\ registry[j] # map[v]
                  => j < i
      BY <2>1 DEF LiveReadLast
    <2>4. i \in DOMAIN registry' /\ registry'[i] = map'[v]
      BY <2>1, <2>3
    <2>5. ASSUME NEW j \in DOMAIN registry', heap'[registry'[j]] # Garbage,
                 heap'[registry'[j]].uuid = v, registry'[j] # map'[v]
          PROVE  j < i
      <3>1. registry'[j] # a
        BY <1>2, <2>5
      <3>2. j \in DOMAIN registry /\ registry'[j] = registry[j]
        BY <3>1
      <3> QED
        BY <2>1, <2>3, <2>5, <3>1, <3>2
    <2> QED
      BY <2>2, <2>4, <2>5
  <1> QED
    BY <1>1, <1>2

(* A removal takes one product out and may only destroy what its node      *)
(* reads as.                                                               *)
LEMMA RemoveEffect ==
    ASSUME TypeOK, LiveReadLast, NEW u \in Uuid, RemoveProduct(u)
    PROVE  /\ map'[u] = NoNode
           /\ \A v \in Uuid \ {u} : map'[v] = map[v]
           /\ \A b \in Address : heap'[b] = heap[b] \/ heap'[b] = Garbage
           /\ \A v \in Uuid \ {u} :
                map[v] # NoNode => map[v] \in Address
                                   /\ heap'[map[v]] = heap[map[v]]
           /\ registry' = registry
           /\ removed' = removed \cup {u}
  <1>1. /\ map'[u] = NoNode
        /\ \A v \in Uuid \ {u} : map'[v] = map[v]
        /\ registry' = registry
        /\ removed' = removed \cup {u}
    BY DEF RemoveProduct, TypeOK
  <1>2. \A b \in Address : \/ heap'[b] = heap[b]
                           \/ heap'[b] = Garbage /\ b = map[u]
    BY DEF RemoveProduct, TypeOK
  <1>3. ASSUME NEW v \in Uuid \ {u}, map[v] # NoNode
        PROVE  map[v] \in Address /\ heap'[map[v]] = heap[map[v]]
    <2>1. map[v] \in Address /\ map[v] # map[u]
      BY <1>3 DEF TypeOK, LiveReadLast, RemoveProduct
    <2> QED
      BY <1>2, <2>1
  <1> QED
    BY <1>1, <1>2, <1>3

(* A removal adds no dangling pointer that reads as another product.       *)
LEMMA RemoveKeepsLast ==
    ASSUME TypeOK, LiveReadLast, NEW u \in Uuid, RemoveProduct(u)
    PROVE  LiveReadLast'
  <1> SUFFICES ASSUME NEW v \in Uuid, map'[v] # NoNode
               PROVE  /\ heap'[map'[v]] # Garbage
                      /\ heap'[map'[v]].uuid = v
                      /\ \E i \in DOMAIN registry' :
                           /\ registry'[i] = map'[v]
                           /\ \A j \in DOMAIN registry' :
                                /\ heap'[registry'[j]] # Garbage
                                /\ heap'[registry'[j]].uuid = v
                                /\ registry'[j] # map'[v]
                                => j < i
    BY DEF LiveReadLast
  <1>1. /\ v # u /\ map'[v] = map[v] /\ map[v] # NoNode
        /\ heap'[map[v]] = heap[map[v]]
        /\ registry' = registry
        /\ \A b \in Address : heap'[b] = heap[b] \/ heap'[b] = Garbage
    BY RemoveEffect
  <1>2. \A j \in DOMAIN registry : registry[j] \in Address
    BY SeqDomain DEF TypeOK
  <1> QED
    BY <1>1, <1>2 DEF LiveReadLast

(* The other steps leave map, memory and registry alone or clear them.     *)
LEMMA LastNext == TypeOK /\ LiveReadLast /\ [Next]_vars => LiveReadLast'
  <1> SUFFICES ASSUME TypeOK, LiveReadLast, [Next]_vars PROVE LiveReadLast'
    OBVIOUS
  <1>1. CASE UNCHANGED <<map, registry, heap>>
    BY <1>1 DEF LiveReadLast
  <1>2. CASE Stop
    BY <1>2 DEF Stop, LiveReadLast
  <1>3. ASSUME NEW u \in Uuid, NEW c \in Content, AddProduct(u, c)
        PROVE  LiveReadLast'
    BY <1>3, PutKeepsLast DEF AddProduct
  <1>4. ASSUME NEW u \in Uuid, RemoveProduct(u)
        PROVE  LiveReadLast'
    BY <1>4, RemoveKeepsLast
  <1>5. CASE LoadEntry
    <2>1. CASE Accepted(Head(pending))
      <3>1. Put(Head(pending).uuid, Head(pending).content)
        BY <1>5, <2>1 DEF LoadEntry
      <3> QED
        BY <1>5, <3>1, HeadIsEntry, PutKeepsLast
    <2>2. CASE ~Accepted(Head(pending))
      BY <1>1, <1>5, <2>2 DEF LoadEntry
    <2> QED
      BY <2>1, <2>2
  <1> QED
    BY <1>1, <1>2, <1>3, <1>4, <1>5
    DEF Next, vars, Start, LoadOpen, LoadEnd, SaveBegin, SaveEntry, SaveOpen,
        SaveClose

(* Both hold throughout.                                                   *)
LEMMA ListInvariant == Spec => [](TypeOK /\ LiveReadLast)
  <1>1. Init => LiveReadLast
    BY DEF Init, LiveReadLast
  <1> QED
    BY TypeInitially, TypeNext, LastNext, <1>1, PTL DEF Spec

(* The list, its file and what load and save hold between their steps are  *)
(* well typed, although save reads through pointers to freed nodes.        *)
THEOREM ProductsTypeCorrect == Spec => []TypeOK
  BY ListInvariant, PTL

(* removeProduct leaves its pointer in the registry (it erases an empty    *)
(* range), and whatever that pointer comes to read as, it precedes the     *)
(* pointer to the product it reads as: save writes the present one last,   *)
(* so that load keeps it.                                                  *)
THEOREM LiveAlwaysReadLast == Spec => []LiveReadLast
  BY ListInvariant, PTL

-----------------------------------------------------------------------------
(* What a save under way has collected.                                    *)

Collecting == phase \in {"collecting", "saving"}

(* Between loads and saves no list of entries is kept.                     *)
IdleEmpty == phase \in {"down", "ready"} => pending = <<>>

(* What a node that is not in the map reads as has been removed.           *)
StaleRemoved ==
    \A a \in Address : heap[a] # Garbage =>
        map[heap[a].uuid] # NoNode \/ heap[a].uuid \in removed

(* Each entry collected is what its pointer read as, and unless the node   *)
(* was freed and overwritten since, still reads as.                        *)
CollectedThrough ==
    Collecting =>
        /\ Len(pending) <= Len(registry)
        /\ phase = "saving" => Len(pending) = Len(registry)
        /\ \A j \in DOMAIN pending :
             /\ pending[j].hashcode = "none"
             /\ heap[registry[j]] # Garbage =>
                  /\ heap[registry[j]].uuid = pending[j].uuid
                  /\ heap[registry[j]].content = pending[j].content
             /\ \/ map[pending[j].uuid] # NoNode
                \/ pending[j].uuid \in removed

(* LiveReadLast of the entries: those of nodes freed and overwritten since *)
(* are among them.                                                         *)
CollectedLast ==
    Collecting =>
        \A u \in Uuid, j \in DOMAIN pending :
            /\ map[u] # NoNode
            /\ pending[j].uuid = u
            /\ registry[j] # map[u]
            => \E i \in DOMAIN registry : j < i /\ registry[i] = map[u]

StoreInv ==
    /\ TypeOK
    /\ LiveReadLast
    /\ IdleEmpty
    /\ StaleRemoved
    /\ CollectedThrough
    /\ CollectedLast

(* Nothing is in memory when the first process starts.                     *)
LEMMA StoreInitially == Init => StoreInv
  <1> SUFFICES ASSUME Init PROVE StoreInv
    OBVIOUS
  <1>1. TypeOK /\ LiveReadLast
    BY TypeInitially DEF Init, LiveReadLast
  <1> QED
    BY <1>1 DEF Init, StoreInv, IdleEmpty, StaleRemoved, CollectedThrough,
       CollectedLast, Collecting

(* A product put is in the map, and so is what its node reads as.          *)
LEMMA PutKeepsStale ==
    ASSUME StoreInv, NEW u \in Uuid, NEW c \in Content, Put(u, c),
           removed' = removed
    PROVE  StaleRemoved'
  <1> PICK a \in Address : PutAt(u, c, a)
    BY PutPlaces DEF StoreInv
  <1> SUFFICES ASSUME NEW b \in Address, heap'[b] # Garbage
               PROVE  map'[heap'[b].uuid] # NoNode \/ heap'[b].uuid \in removed
    BY DEF StaleRemoved
  <1>1. CASE b = a
    BY <1>1 DEF PutAt
  <1>2. CASE b # a
    <2>1. heap'[b] = heap[b] /\ heap[b].uuid \in Uuid
      BY <1>2 DEF PutAt, StoreInv, TypeOK, Node
    <2>2. map[heap[b].uuid] # NoNode \/ heap[b].uuid \in removed
      BY <2>1 DEF StoreInv, StaleRemoved
    <2> QED
      BY <2>1, <2>2 DEF PutAt
  <1> QED
    BY <1>1, <1>2

(* A removal while a save collects.                                        *)
LEMMA RemoveKeepsStore ==
    ASSUME StoreInv, NEW u \in Uuid, RemoveProduct(u)
    PROVE  StoreInv'
  <1>1. /\ map'[u] = NoNode
        /\ \A v \in Uuid \ {u} : map'[v] = map[v]
        /\ \A b \in Address : heap'[b] = heap[b] \/ heap'[b] = Garbage
        /\ registry' = registry
        /\ removed' = removed \cup {u}
        /\ phase' = phase /\ pending' = pending
    BY RemoveEffect DEF StoreInv, RemoveProduct
  <1>2. TypeOK' /\ LiveReadLast'
    BY TypeNext, RemoveKeepsLast DEF StoreInv, Next
  <1>3. /\ \A a \in Address : heap[a] # Garbage => heap[a].uuid \in Uuid
        /\ Len(registry) \in Nat /\ Len(pending) \in Nat
        /\ DOMAIN registry = 1 .. Len(registry)
        /\ DOMAIN pending = 1 .. Len(pending)
        /\ \A i \in DOMAIN registry : registry[i] \in Address
        /\ \A j \in DOMAIN pending : pending[j].uuid \in Uuid
    <2>1. \A j \in DOMAIN pending : pending[j] \in Entry
      BY SeqDomain DEF StoreInv, TypeOK
    <2> QED
      BY <2>1, SeqDomain DEF StoreInv, TypeOK, Node, Entry
  <1>4. IdleEmpty'
    BY <1>1 DEF StoreInv, IdleEmpty
  <1>5. StaleRemoved'
    BY <1>1, <1>3 DEF StoreInv, StaleRemoved
  <1>6. CollectedThrough'
    <2> SUFFICES ASSUME Collecting, NEW j \in DOMAIN pending
                 PROVE  /\ pending[j].hashcode = "none"
                        /\ heap'[registry[j]] # Garbage =>
                             /\ heap'[registry[j]].uuid = pending[j].uuid
                             /\ heap'[registry[j]].content = pending[j].content
                        /\ \/ map'[pending[j].uuid] # NoNode
                           \/ pending[j].uuid \in removed'
      BY <1>1 DEF StoreInv, CollectedThrough, Collecting
    <2>1. registry[j] \in Address /\ pending[j].uuid \in Uuid
      <3>1. Len(pending) <= Len(registry)
        BY DEF StoreInv, CollectedThrough
      <3>2. j \in DOMAIN registry
        BY <1>3, <3>1
      <3> QED
        BY <1>3, <3>2
    <2> QED
      BY <1>1, <2>1 DEF StoreInv, CollectedThrough
  <1>7. CollectedLast'
    BY <1>1 DEF StoreInv, CollectedLast, Collecting
  <1> QED
    BY <1>2, <1>4, <1>5, <1>6, <1>7 DEF StoreInv

(* Collecting one more entry.                                              *)
LEMMA SaveEntryKeepsStore ==
    ASSUME StoreInv, SaveEntry
    PROVE  StoreInv'
  <1> DEFINE k == Len(pending) + 1
             n == heap[registry[k]]
             e == [uuid |-> n.uuid, content |-> n.content,
                   phone |-> MailingAddress[n.content],
                   hashcode |-> "none"]
  <1>1. /\ phase = "collecting" /\ Len(pending) < Len(registry)
        /\ n # Garbage
        /\ pending' = Append(pending, e)
        /\ UNCHANGED <<files, map, registry, heap, phase, removed>>
    BY DEF SaveEntry
  <1>2. TypeOK' /\ LiveReadLast'
    BY TypeNext, LastNext DEF StoreInv, Next
  <1>3. /\ Len(registry) \in Nat /\ Len(pending) \in Nat
        /\ DOMAIN registry = 1 .. Len(registry)
        /\ DOMAIN pending = 1 .. Len(pending)
        /\ registry[k] \in Address
        /\ k \in DOMAIN registry
    BY <1>1, SeqDomain DEF StoreInv, TypeOK
  <1>4. n \in Node
    BY <1>1, <1>3 DEF StoreInv, TypeOK
  <1>5. e \in Entry /\ e.uuid = n.uuid /\ e.content = n.content
        /\ e.hashcode = "none" /\ n.uuid \in Uuid
    BY <1>4, ProductsAssumption DEF Node, Entry
  <1> HIDE DEF e
  <1>6. /\ Len(pending') = k
        /\ DOMAIN pending' = 1 .. k
        /\ \A j \in DOMAIN pending : pending'[j] = pending[j]
        /\ pending'[k] = e
    BY <1>1, <1>5, Appended DEF StoreInv, TypeOK
  <1>7. ASSUME NEW j \in DOMAIN pending'
        PROVE  j = k \/ (j \in DOMAIN pending /\ pending'[j] = pending[j])
    BY <1>3, <1>6
  <1>8. IdleEmpty' /\ StaleRemoved'
    BY <1>1 DEF StoreInv, IdleEmpty, StaleRemoved
  <1>9. CollectedThrough'
    <2>1. Len(pending') <= Len(registry')
      BY <1>1, <1>3, <1>6
    <2>2. ASSUME NEW j \in DOMAIN pending'
          PROVE  /\ pending'[j].hashcode = "none"
                 /\ heap[registry[j]] # Garbage =>
                      /\ heap[registry[j]].uuid = pending'[j].uuid
                      /\ heap[registry[j]].content = pending'[j].content
                 /\ \/ map[pending'[j].uuid] # NoNode
                    \/ pending'[j].uuid \in removed
      <3>1. CASE j = k
        <4>1. map[n.uuid] # NoNode \/ n.uuid \in removed
          BY <1>1, <1>3 DEF StoreInv, StaleRemoved
        <4> QED
          BY <1>5, <1>6, <3>1, <4>1
      <3>2. CASE j # k
        BY <1>1, <1>7, <3>2 DEF StoreInv, CollectedThrough, Collecting
      <3> QED
        BY <3>1, <3>2
    <2> QED
      BY <1>1, <2>1, <2>2 DEF CollectedThrough
  <1>10. CollectedLast'
    <2> SUFFICES ASSUME NEW u \in Uuid, NEW j \in DOMAIN pending',
                        map[u] # NoNode, pending'[j].uuid = u,
                        registry[j] # map[u]
                 PROVE  \E i \in DOMAIN registry :
                          j < i /\ registry[i] = map[u]
      BY <1>1 DEF CollectedLast
    <2>1. CASE j = k
      BY <1>1, <1>3, <1>5, <1>6, <2>1 DEF StoreInv, LiveReadLast
    <2>2. CASE j # k
      BY <1>1, <1>7, <2>2 DEF StoreInv, CollectedLast, Collecting
    <2> QED
      BY <2>1, <2>2
  <1> QED
    BY <1>2, <1>8, <1>9, <1>10 DEF StoreInv

(* Every step keeps the invariant.                                         *)
LEMMA StoreNext == StoreInv /\ [Next]_vars => StoreInv'
  <1> SUFFICES ASSUME StoreInv, [Next]_vars PROVE StoreInv'
    OBVIOUS
  <1>0. TypeOK' /\ LiveReadLast'
    BY TypeNext, LastNext DEF StoreInv
  <1> USE DEF StoreInv, IdleEmpty, Collecting
  <1>1. CASE Start \/ LoadOpen \/ LoadEnd
    BY <1>0, <1>1
    DEF Start, LoadOpen, LoadEnd, StaleRemoved, CollectedThrough,
        CollectedLast
  <1>2. CASE Stop
    BY <1>0, <1>2 DEF Stop, StaleRemoved, CollectedThrough, CollectedLast
  <1>3. ASSUME NEW u \in Uuid, NEW c \in Content, AddProduct(u, c)
        PROVE  StoreInv'
    <2>1. StaleRemoved'
      BY <1>3, PutKeepsStale DEF AddProduct
    <2> QED
      BY <1>0, <1>3, <2>1 DEF AddProduct, CollectedThrough, CollectedLast
  <1>4. ASSUME NEW u \in Uuid, RemoveProduct(u)
        PROVE  StoreInv'
    BY <1>4, RemoveKeepsStore
  <1>5. CASE LoadEntry
    <2>1. phase' = "loading" /\ removed' = removed
      BY <1>5 DEF LoadEntry
    <2>2. CASE Accepted(Head(pending))
      <3>1. Put(Head(pending).uuid, Head(pending).content)
        BY <1>5, <2>2 DEF LoadEntry
      <3>2. StaleRemoved'
        BY <1>5, <2>1, <3>1, HeadIsEntry, PutKeepsStale
      <3> QED
        BY <1>0, <2>1, <3>2 DEF CollectedThrough, CollectedLast
    <2>3. CASE ~Accepted(Head(pending))
      BY <1>0, <1>5, <2>1, <2>3
      DEF LoadEntry, StaleRemoved, CollectedThrough, CollectedLast
    <2> QED
      BY <2>2, <2>3
  <1>6. CASE SaveBegin
    <2>1. pending' = <<>> /\ UNCHANGED <<map, registry, heap, removed>>
          /\ phase' = "collecting"
      BY <1>6 DEF SaveBegin
    <2>2. Len(pending') = 0 /\ DOMAIN pending' = {} /\ Len(registry) \in Nat
      BY <2>1, SeqDomain DEF TypeOK
    <2> QED
      BY <1>0, <2>1, <2>2 DEF StaleRemoved, CollectedThrough, CollectedLast
  <1>7. CASE SaveEntry
    BY <1>7, SaveEntryKeepsStore
  <1>8. CASE SaveOpen
    BY <1>0, <1>8
    DEF SaveOpen, StaleRemoved, CollectedThrough, CollectedLast
  <1>9. CASE SaveClose
    BY <1>0, <1>9
    DEF SaveClose, StaleRemoved, CollectedThrough, CollectedLast
  <1>10. CASE UNCHANGED vars
    BY <1>0, <1>10 DEF vars, StaleRemoved, CollectedThrough, CollectedLast
  <1> QED
    BY <1>1, <1>2, <1>3, <1>4, <1>5, <1>6, <1>7, <1>8, <1>9, <1>10 DEF Next

(* Hence it holds throughout.                                              *)
LEMMA StoreInvariant == Spec => []StoreInv
  BY StoreInitially, StoreNext, PTL DEF Spec

-----------------------------------------------------------------------------
(* What a list of entries leaves once it is loaded.                        *)

(* The entries that put u.                                                 *)
Hits(list, u) == {i \in DOMAIN list : list[i].uuid = u /\ Accepted(list[i])}

(* A set of positions that is not empty has a last one: the distances from *)
(* the end have a least one.                                               *)
LEMMA LastPosition ==
    ASSUME NEW n \in Nat, NEW T, T \subseteq 1 .. n, T # {}
    PROVE  \E i \in T : \A j \in T : j <= i
  <1> DEFINE D == {n - i : i \in T}
             R == OpToRel(<, Nat)
  <1>1. D \subseteq Nat
    <2>1. \A i \in T : n - i \in Nat
      OBVIOUS
    <2> HIDE DEF R
    <2> QED
      BY <2>1
  <1>2. D # {}
    <2> HIDE DEF R
    <2> QED
      OBVIOUS
  <1>3. IsWellFoundedOn(R, Nat)
    BY NatLessThanWellFounded, Zenon
  <1>4. \A x, y \in Nat : y < x => <<y, x>> \in R
    BY DEF OpToRel
  <1> HIDE DEF R, D
  <1>5. PICK x \in D : \A y \in D : ~(<<y, x>> \in R)
    BY <1>1, <1>2, <1>3, WFMin
  <1>6. PICK i \in T : x = n - i
    BY DEF D
  <1>7. ASSUME NEW j \in T
        PROVE  j <= i
    <2>1. n - j \in D
      BY DEF D
    <2>2. ~(n - j < n - i)
      BY <1>1, <1>4, <1>5, <1>6, <2>1
    <2> QED
      BY <2>2
  <1> QED
    BY <1>7

(* Loading keeps the last entry of a product, or what there was.           *)
LEMMA LoadedAt ==
    ASSUME NEW list \in Seq(Entry), NEW base, NEW u \in Uuid
    PROVE  /\ Hits(list, u) = {} => Loaded(list, base)[u] = base[u]
           /\ \A i \in Hits(list, u) :
                (\A j \in Hits(list, u) : j <= i)
                => Loaded(list, base)[u] = list[i].content
           /\ Hits(list, u) # {}
                => \E i \in Hits(list, u) : \A j \in Hits(list, u) : j <= i
  <1>1. Len(list) \in Nat /\ Hits(list, u) \subseteq 1 .. Len(list)
    BY SeqDomain DEF Hits
  <1>2. Loaded(list, base)[u] =
          IF Hits(list, u) = {} THEN base[u]
          ELSE list[CHOOSE i \in Hits(list, u) :
                      \A j \in Hits(list, u) : j <= i].content
    BY DEF Loaded, Hits
  <1> HIDE DEF Hits
  <1>3. ASSUME NEW i \in Hits(list, u), \A j \in Hits(list, u) : j <= i
        PROVE  (CHOOSE k \in Hits(list, u) : \A j \in Hits(list, u) : j <= k) = i
    <2> DEFINE last == CHOOSE k \in Hits(list, u) :
                         \A j \in Hits(list, u) : j <= k
    <2>1. last \in Hits(list, u) /\ \A j \in Hits(list, u) : j <= last
      BY <1>3
    <2> HIDE DEF last
    <2>2. last <= i /\ i <= last /\ i \in Nat /\ last \in Nat
      BY <1>1, <1>3, <2>1
    <2>3. last = i
      BY <2>2
    <2> QED
      BY <2>3 DEF last
  <1>4. Hits(list, u) # {}
          => \E i \in Hits(list, u) : \A j \in Hits(list, u) : j <= i
    BY <1>1, LastPosition
  <1> QED
    BY <1>2, <1>3, <1>4

(* It is a function of the products.                                       *)
LEMMA LoadedFcn ==
    \A list, base : Loaded(list, base) = [u \in Uuid |-> Loaded(list, base)[u]]
  BY DEF Loaded

(* Its values are contents, or what there was.                             *)
LEMMA LoadedType ==
    ASSUME NEW list \in Seq(Entry), NEW base \in S!Accounts
    PROVE  Loaded(list, base) \in S!Accounts
  <1>1. ASSUME NEW u \in Uuid
        PROVE  Loaded(list, base)[u] \in Content \cup {NoAccount}
    <2>1. CASE Hits(list, u) = {}
      BY <2>1, LoadedAt DEF S!Accounts
    <2>2. CASE Hits(list, u) # {}
      <3>1. PICK i \in Hits(list, u) : \A j \in Hits(list, u) : j <= i
        BY <2>2, LoadedAt
      <3>2. Loaded(list, base)[u] = list[i].content
        BY <3>1, LoadedAt
      <3>3. list[i] \in Entry
        BY SeqDomain DEF Hits
      <3> QED
        BY <3>2, <3>3 DEF Entry
    <2> QED
      BY <2>1, <2>2
  <1> QED
    BY <1>1, LoadedFcn DEF S!Accounts

(* An empty list changes nothing.                                          *)
LEMMA LoadedNothing ==
    ASSUME NEW base \in S!Accounts
    PROVE  Loaded(<<>>, base) = base
  <1>1. <<>> \in Seq(Entry) /\ \A u : Hits(<<>>, u) = {}
    BY EmptySeq DEF Hits
  <1>2. \A u \in Uuid : Loaded(<<>>, base)[u] = base[u]
    BY <1>1, LoadedAt
  <1> QED
    BY <1>2, LoadedFcn DEF S!Accounts

(* Loading over what there was is the Merge of AccountStore.               *)
LEMMA LoadedMerges ==
    ASSUME NEW list \in Seq(Entry), NEW base
    PROVE  Loaded(list, base) =
             S!Merge(Loaded(list, [u \in Uuid |-> NoAccount]), base)
  <1> DEFINE none == [u \in Uuid |-> NoAccount]
  <1>1. ASSUME NEW u \in Uuid
        PROVE  Loaded(list, base)[u] =
                 IF Loaded(list, none)[u] # NoAccount
                 THEN Loaded(list, none)[u] ELSE base[u]
    <2>1. CASE Hits(list, u) = {}
      <3>1. Loaded(list, none)[u] = none[u] /\ Loaded(list, base)[u] = base[u]
        BY <2>1, LoadedAt
      <3> QED
        BY <3>1
    <2>2. CASE Hits(list, u) # {}
      <3>1. PICK i \in Hits(list, u) : \A j \in Hits(list, u) : j <= i
        BY <2>2, LoadedAt
      <3>2. /\ Loaded(list, base)[u] = list[i].content
            /\ Loaded(list, none)[u] = list[i].content
        BY <3>1, LoadedAt
      <3>3. list[i] \in Entry
        BY SeqDomain DEF Hits
      <3>4. list[i].content # NoAccount
        BY <3>3, ProductsAssumption DEF Entry
      <3> QED
        BY <3>2, <3>4
    <2> QED
      BY <2>1, <2>2
  <1> QED
    BY <1>1, LoadedFcn DEF S!Merge

(* Where loading does not depend on what there was.                        *)
LEMMA LoadedOver ==
    ASSUME NEW list \in Seq(Entry), NEW base, NEW base2, NEW u \in Uuid,
           Hits(list, u) # {} \/ base[u] = base2[u]
    PROVE  Loaded(list, base)[u] = Loaded(list, base2)[u]
  <1>1. CASE Hits(list, u) = {}
    BY <1>1, LoadedAt
  <1>2. CASE Hits(list, u) # {}
    <2>1. PICK i \in Hits(list, u) : \A j \in Hits(list, u) : j <= i
      BY <1>2, LoadedAt
    <2> QED
      BY <2>1, LoadedAt
  <1> QED
    BY <1>1, <1>2

(* Visiting the first entry leaves what loading the whole list would.      *)
LEMMA LoadedStep ==
    ASSUME NEW list \in Seq(Entry), list # <<>>,
           NEW base \in S!Accounts, NEW base2,
           base2 = IF Accepted(Head(list))
                   THEN [base EXCEPT ![Head(list).uuid] = Head(list).content]
                   ELSE base
    PROVE  Loaded(Tail(list), base2) = Loaded(list, base)
  <1> DEFINE rest == Tail(list)
  <1>1. /\ Len(list) \in Nat /\ Len(list) > 0
        /\ DOMAIN list = 1 .. Len(list)
        /\ Head(list) = list[1]
        /\ rest \in Seq(Entry)
        /\ DOMAIN rest = 1 .. Len(list) - 1
        /\ \A i \in 1 .. Len(list) - 1 : rest[i] = list[i + 1]
    <2>1. Len(list) \in Nat /\ Len(list) > 0 /\ DOMAIN list = 1 .. Len(list)
      BY EmptySeq, LenProperties
    <2>2. /\ Head(list) = list[1]
          /\ Tail(list) \in Seq(Entry)
          /\ Len(Tail(list)) = Len(list) - 1
          /\ \A i \in 1 .. Len(Tail(list)) : Tail(list)[i] = list[i + 1]
      BY HeadTailProperties
    <2> QED
      BY <2>1, <2>2, LenProperties
  <1> HIDE DEF rest
  <1>2. ASSUME NEW u \in Uuid
        PROVE  Loaded(rest, base2)[u] = Loaded(list, base)[u]
    <2>1. \A i \in 1 .. Len(list) - 1 :
             i \in Hits(rest, u) <=> i + 1 \in Hits(list, u)
      BY <1>1 DEF Hits
    <2>2. Hits(rest, u) \subseteq 1 .. Len(list) - 1
          /\ Hits(list, u) \subseteq 1 .. Len(list)
      BY <1>1 DEF Hits
    <2>3. CASE Hits(rest, u) # {}
      <3>1. PICK i \in Hits(rest, u) :
               \A j \in Hits(rest, u) : j <= i
        BY <1>1, <2>3, LoadedAt
      <3>2. /\ i \in 1 .. Len(list) - 1
            /\ i + 1 \in Hits(list, u)
            /\ rest[i] = list[i + 1]
        BY <1>1, <2>1, <2>2, <3>1
      <3>3. ASSUME NEW j \in Hits(list, u)
            PROVE  j <= i + 1
        <4>1. CASE j = 1
          BY <1>1, <3>2, <4>1
        <4>2. CASE j # 1
          <5>1. j - 1 \in 1 .. Len(list) - 1 /\ (j - 1) + 1 = j
            BY <1>1, <2>2, <4>2
          <5>2. j - 1 \in Hits(rest, u)
            BY <2>1, <5>1
          <5> QED
            BY <2>2, <3>1, <3>2, <5>1, <5>2
        <4> QED
          BY <4>1, <4>2
      <3>4. Loaded(rest, base2)[u] = rest[i].content
        BY <1>1, <3>1, LoadedAt
      <3>5. Loaded(list, base)[u] = list[i + 1].content
        BY <3>2, <3>3, LoadedAt
      <3> QED
        BY <3>2, <3>4, <3>5
    <2>4. CASE Hits(rest, u) = {}
      <3>1. Loaded(rest, base2)[u] = base2[u]
        BY <1>1, <2>4, LoadedAt
      <3>2. Hits(list, u) \subseteq {1}
        <4> SUFFICES ASSUME NEW j \in Hits(list, u), j # 1 PROVE FALSE
          OBVIOUS
        <4>1. j - 1 \in 1 .. Len(list) - 1 /\ (j - 1) + 1 = j
          BY <1>1, <2>2
        <4> QED
          BY <2>1, <2>4, <4>1
      <3>3. CASE 1 \in Hits(list, u)
        <4>1. Loaded(list, base)[u] = list[1].content
          BY <3>2, <3>3, LoadedAt
        <4>2. Accepted(Head(list)) /\ Head(list).uuid = u
          BY <1>1, <3>3 DEF Hits
        <4>3. base2[u] = list[1].content
          BY <1>1, <4>2 DEF S!Accounts
        <4> QED
          BY <3>1, <4>1, <4>3
      <3>4. CASE 1 \notin Hits(list, u)
        <4>1. Loaded(list, base)[u] = base[u]
          BY <3>2, <3>4, LoadedAt
        <4>2. ~(Accepted(Head(list)) /\ Head(list).uuid = u)
          BY <1>1, <3>4 DEF Hits
        <4>3. base2[u] = base[u]
          BY <4>2 DEF S!Accounts
        <4> QED
          BY <3>1, <4>1, <4>3
      <3> QED
        BY <3>3, <3>4
    <2> QED
      BY <2>3, <2>4
  <1>3. /\ Loaded(list, base) = [u \in Uuid |-> Loaded(list, base)[u]]
        /\ Loaded(rest, base2)
             = [u \in Uuid |-> Loaded(rest, base2)[u]]
    BY LoadedFcn
  <1> QED
    BY <1>2, <1>3 DEF rest

-----------------------------------------------------------------------------
(* Products implements ProductStore.                                       *)

(* load reads the file that save writes, and accepts entries without hash  *)
(* code, which are what save writes.  The shipped config.json does so: its *)
(* value true for products is no mode, which getValidationMode takes for   *)
(* None (Config.cpp:71).                                                   *)
SavesToBeLoaded == Configured = SaveName /\ Validation # "Strict"

(* The products in memory are contents.                                    *)
LEMMA InMemoryType == StoreInv => InMemory \in S!Accounts
  <1> SUFFICES ASSUME StoreInv, NEW u \in Uuid, map[u] # NoNode
               PROVE  heap[map[u]].content \in Content
    BY DEF InMemory, S!Accounts
  <1>1. map[u] \in Address /\ heap[map[u]] # Garbage
    BY DEF StoreInv, TypeOK, LiveReadLast
  <1>2. heap[map[u]] \in Node
    BY <1>1 DEF StoreInv, TypeOK
  <1> QED
    BY <1>2 DEF Node

(* Put changes one product in memory.                                      *)
LEMMA PutInMemory ==
    ASSUME StoreInv, NEW u \in Uuid, NEW c \in Content, Put(u, c)
    PROVE  InMemory' = [InMemory EXCEPT ![u] = c]
  <1> PICK a \in Address : PutAt(u, c, a)
    BY PutPlaces DEF StoreInv
  <1>1. InMemory'[u] = c
    BY DEF PutAt, InMemory
  <1>2. ASSUME NEW v \in Uuid \ {u}
        PROVE  InMemory'[v] = InMemory[v]
    <2>1. map'[v] = map[v] /\ map[v] # a
          /\ (map[v] # NoNode => map[v] \in Address)
      BY DEF PutAt, StoreInv, TypeOK
    <2>2. map[v] # NoNode => heap'[map[v]] = heap[map[v]]
      BY <2>1 DEF PutAt
    <2> QED
      BY <2>1, <2>2 DEF InMemory
  <1> QED
    BY <1>1, <1>2 DEF InMemory

(* A removal takes one product out of memory.                              *)
LEMMA RemoveInMemory ==
    ASSUME StoreInv, NEW u \in Uuid, RemoveProduct(u)
    PROVE  InMemory' = [InMemory EXCEPT ![u] = NoAccount]
  <1>1. /\ map'[u] = NoNode
        /\ \A v \in Uuid \ {u} : map'[v] = map[v]
        /\ \A v \in Uuid \ {u} :
             map[v] # NoNode => heap'[map[v]] = heap[map[v]]
    BY RemoveEffect DEF StoreInv
  <1> QED
    BY <1>1 DEF InMemory

(* A file that was not cut off holds products.                             *)
LEMMA DurableType ==
    ASSUME StoreInv
    PROVE  /\ files[Configured].list \in Seq(Entry)
           /\ files[Configured].kind = "torn" => Durable = Lost
           /\ files[Configured].kind # "torn" =>
                /\ Durable = Loaded(files[Configured].list, S!NoAccounts)
                /\ Durable \in S!Accounts
                /\ Durable # Lost
  <1>1. files[Configured].list \in Seq(Entry)
    BY DEF StoreInv, TypeOK, FileName
  <1>2. S!NoAccounts \in S!Accounts
    BY DEF S!NoAccounts, S!Accounts
  <1>3. Loaded(files[Configured].list, S!NoAccounts) \in S!Accounts
    BY <1>1, <1>2, LoadedType
  <1>4. Lost \notin S!Accounts
    BY ProductsAssumption DEF S!Accounts
  <1>5. files[Configured].kind # "torn" =>
          Durable = Loaded(files[Configured].list, S!NoAccounts)
    BY DEF Durable, S!NoAccounts
  <1> QED
    BY <1>1, <1>3, <1>4, <1>5 DEF Durable

(* Whatever the first process finds is a state of the store.               *)
LEMMA InitImplements == Init => S!Init /\ removed = {}
  <1> SUFFICES ASSUME Init PROVE S!Init /\ removed = {}
    OBVIOUS
  <1>1. Durable \in S!Accounts \cup {Lost}
    BY StoreInitially, DurableType
  <1>2. Volatile = S!NoAccounts
    BY DEF Init, Volatile, InMemory, S!NoAccounts
  <1> QED
    BY <1>1, <1>2 DEF Init, Activity, S!Init

(* Starting, adding and ending are steps of the store.                     *)
LEMMA ProcessImplements ==
    ASSUME StoreInv,
           \/ Start
           \/ Stop
           \/ \E u \in Uuid, c \in Content : AddProduct(u, c)
    PROVE  S!ProductNext
  <1>1. CASE Start
    <2>1. Durable' = Durable /\ Volatile' = Volatile /\ removed' = removed
      BY <1>1 DEF Start, Durable, Volatile, InMemory
    <2>2. Activity = "down" /\ Activity' = "ready"
      BY <1>1 DEF Start, Activity
    <2>3. S!Open
      BY <2>1, <2>2 DEF S!Open, S!Become
    <2> QED
      BY <2>1, <2>3 DEF S!ProductNext
  <1>2. CASE Stop
    <2>1. Durable' = Durable /\ removed' = {}
      BY <1>2 DEF Stop, Durable
    <2>2. Volatile' = S!NoAccounts
      BY <1>2 DEF Stop, Volatile, InMemory, S!NoAccounts
    <2>3. Activity # "down" /\ Activity' = "down"
      BY <1>2 DEF Stop, Activity
    <2>4. S!Stop
      BY <2>1, <2>2, <2>3 DEF S!Stop
    <2> QED
      BY <2>1, <2>4 DEF S!ProductNext
  <1>3. ASSUME NEW u \in Uuid, NEW c \in Content, AddProduct(u, c)
        PROVE  S!ProductNext
    <2>1. /\ Put(u, c) /\ phase = "ready"
          /\ UNCHANGED <<files, phase, pending, removed>>
      BY <1>3 DEF AddProduct
    <2>2. InMemory' = [InMemory EXCEPT ![u] = c]
      BY <2>1, PutInMemory
    <2>3. Volatile = InMemory /\ Volatile' = InMemory'
      BY <2>1 DEF Volatile
    <2>4. /\ Durable' = Durable /\ removed' = removed
          /\ Activity = "ready" /\ Activity' = Activity
      BY <2>1 DEF Durable, Activity
    <2>5. S!Put(u, c)
      BY <2>2, <2>3, <2>4 DEF S!Put
    <2> QED
      BY <2>4, <2>5 DEF S!ProductNext
  <1> QED
    BY <1>1, <1>2, <1>3

(* A removal during a load: the product comes back if the load has yet to  *)
(* visit it.                                                               *)
LEMMA RemoveImplements ==
    ASSUME StoreInv, NEW u \in Uuid, RemoveProduct(u)
    PROVE  S!ProductNext
  <1>1. InMemory' = [InMemory EXCEPT ![u] = NoAccount]
    BY RemoveInMemory
  <1>2. /\ UNCHANGED <<files, phase, pending>>
        /\ removed' = removed \cup {u}
        /\ pending \in Seq(Entry)
        /\ InMemory \in S!Accounts
    BY InMemoryType DEF RemoveProduct, StoreInv, TypeOK
  <1>3. Durable' = Durable /\ Activity' = Activity
    BY <1>2 DEF Durable, Activity
  <1>4. CASE phase # "loading"
    <2>1. Volatile' = [Volatile EXCEPT ![u] = NoAccount]
      BY <1>1, <1>2, <1>4 DEF Volatile
    <2>2. S!TakeOut(u)
      BY <1>2, <1>3, <2>1 DEF S!TakeOut
    <2> QED
      BY <2>2 DEF S!ProductNext
  <1>5. CASE phase = "loading"
    <2> DEFINE before == InMemory
               after == InMemory'
    <2>1. /\ Volatile = Loaded(pending, before)
          /\ Volatile' = Loaded(pending, after)
          /\ after[u] = NoAccount
          /\ \A v \in Uuid \ {u} : after[v] = before[v]
      BY <1>1, <1>2, <1>5 DEF Volatile, S!Accounts
    <2> HIDE DEF before, after
    <2>2. /\ Volatile = [v \in Uuid |-> Volatile[v]]
          /\ Volatile' = [v \in Uuid |-> Volatile'[v]]
      BY <2>1, LoadedFcn
    <2>3. ASSUME NEW v \in Uuid \ {u}
          PROVE  Volatile'[v] = Volatile[v]
      <3>1. v \in Uuid /\ after[v] = before[v] /\ pending \in Seq(Entry)
        BY <1>2, <2>1
      <3>2. Loaded(pending, after)[v] = Loaded(pending, before)[v]
        BY <3>1, LoadedOver
      <3> QED
        BY <2>1, <3>2
    <2>4. CASE Hits(pending, u) = {}
      <3>1. Volatile'[u] = NoAccount
        <4>1. Loaded(pending, after)[u] = after[u]
          BY <1>2, <2>4, LoadedAt
        <4> QED
          BY <2>1, <4>1
      <3>2. Volatile' = [Volatile EXCEPT ![u] = NoAccount]
        BY <2>2, <2>3, <3>1
      <3>3. S!TakeOut(u)
        BY <1>2, <1>3, <3>2 DEF S!TakeOut
      <3> QED
        BY <3>3 DEF S!ProductNext
    <2>5. CASE Hits(pending, u) # {}
      <3>1. Volatile'[u] = Volatile[u]
        BY <1>2, <2>1, <2>5, LoadedOver
      <3>2. Volatile' = Volatile
        BY <2>2, <2>3, <3>1
      <3>3. Activity = "loading"
        BY <1>5 DEF Activity
      <3>4. S!TakeOut(u)
        BY <1>2, <1>3, <3>2, <3>3 DEF S!TakeOut
      <3> QED
        BY <3>4 DEF S!ProductNext
    <2> QED
      BY <2>4, <2>5
  <1> QED
    BY <1>4, <1>5

(* A load is one step of the store, where it opens the file.               *)
LEMMA LoadImplements ==
    ASSUME StoreInv, LoadOpen \/ LoadEntry \/ LoadEnd
    PROVE  [S!ProductNext]_(S!productVars)
  <1>1. InMemory \in S!Accounts /\ pending \in Seq(Entry)
    BY InMemoryType DEF StoreInv, TypeOK
  <1>2. CASE LoadOpen
    <2>1. /\ phase = "ready" /\ phase' = "loading"
          /\ files[Configured].kind = "whole"
          /\ pending' = files[Configured].list
          /\ UNCHANGED <<files, map, registry, heap, removed>>
      BY <1>2 DEF LoadOpen
    <2>2. /\ files[Configured].list \in Seq(Entry)
          /\ Durable = Loaded(files[Configured].list,
                              [u \in Uuid |-> NoAccount])
          /\ Durable # Lost /\ Durable' = Durable
      BY <2>1, DurableType DEF Durable
    <2>3. Volatile = InMemory /\ Volatile' = Loaded(pending', InMemory)
      BY <2>1 DEF Volatile, InMemory
    <2>4. Volatile' = S!Merge(Durable, Volatile)
      BY <2>1, <2>2, <2>3, LoadedMerges
    <2>5. Activity = "ready" /\ Activity' = "loading"
      BY <2>1 DEF Activity
    <2>6. S!BeginLoad
      BY <2>2, <2>4, <2>5 DEF S!BeginLoad, S!Become
    <2> QED
      BY <2>1, <2>6 DEF S!ProductNext
  <1>3. CASE LoadEntry
    <2>1. /\ phase = "loading" /\ pending # <<>>
          /\ pending' = Tail(pending)
          /\ UNCHANGED <<files, phase, removed>>
      BY <1>3 DEF LoadEntry
    <2>2. InMemory' = IF Accepted(Head(pending))
                      THEN [InMemory EXCEPT ![Head(pending).uuid]
                              = Head(pending).content]
                      ELSE InMemory
      <3>1. CASE Accepted(Head(pending))
        <4>1. Put(Head(pending).uuid, Head(pending).content)
          BY <1>3, <3>1 DEF LoadEntry
        <4> QED
          BY <1>3, <3>1, <4>1, HeadIsEntry, PutInMemory DEF StoreInv
      <3>2. CASE ~Accepted(Head(pending))
        BY <1>3, <3>2 DEF LoadEntry, InMemory
      <3> QED
        BY <3>1, <3>2
    <2>3. Loaded(Tail(pending), InMemory') = Loaded(pending, InMemory)
      BY <1>1, <2>1, <2>2, LoadedStep
    <2>4. Volatile' = Volatile /\ Durable' = Durable /\ Activity' = Activity
      BY <2>1, <2>3 DEF Volatile, Durable, Activity
    <2> QED
      BY <2>1, <2>4 DEF S!productVars, S!storeVars
  <1>4. CASE LoadEnd
    <2>1. /\ phase = "loading" /\ phase' = "ready" /\ pending = <<>>
          /\ UNCHANGED <<files, map, registry, heap, pending, removed>>
      BY <1>4 DEF LoadEnd
    <2>2. Volatile' = Volatile
      BY <1>1, <2>1, LoadedNothing DEF Volatile, InMemory
    <2>3. /\ Durable' = Durable /\ Activity = "loading"
          /\ Activity' = "ready"
      BY <2>1 DEF Durable, Activity
    <2>4. S!EndLoad
      BY <2>2, <2>3 DEF S!EndLoad, S!Become
    <2> QED
      BY <2>1, <2>4 DEF S!ProductNext
  <1> QED
    BY <1>2, <1>3, <1>4

(* What a completed save has collected: of the products in memory the      *)
(* present contents last, and beside them only products that were removed. *)
LEMMA CollectedIsStored ==
    ASSUME StoreInv, phase = "saving", Validation # "Strict", NEW u \in Uuid
    PROVE  \/ Loaded(pending, S!NoAccounts)[u] = InMemory[u]
           \/ InMemory[u] = NoAccount /\ u \in removed
  <1>1. /\ pending \in Seq(Entry)
        /\ DOMAIN pending = DOMAIN registry
        /\ \A i \in DOMAIN pending : i \in Nat /\ pending[i] \in Entry
        /\ S!NoAccounts[u] = NoAccount
    BY SeqDomain
    DEF StoreInv, TypeOK, CollectedThrough, Collecting, S!NoAccounts
  <1>2. \A i \in DOMAIN pending :
           /\ pending[i].hashcode = "none"
           /\ heap[registry[i]] # Garbage =>
                /\ heap[registry[i]].uuid = pending[i].uuid
                /\ heap[registry[i]].content = pending[i].content
           /\ map[pending[i].uuid] # NoNode \/ pending[i].uuid \in removed
    BY DEF StoreInv, CollectedThrough, Collecting
  <1>3. \A i \in DOMAIN pending :
           i \in Hits(pending, u) <=> pending[i].uuid = u
    BY <1>2, ProductsAssumption DEF Hits, Accepted
  <1>4. CASE map[u] = NoNode
    <2>1. InMemory[u] = NoAccount
      BY <1>4 DEF InMemory
    <2>2. CASE Hits(pending, u) = {}
      BY <1>1, <2>1, <2>2, LoadedAt
    <2>3. CASE Hits(pending, u) # {}
      BY <1>2, <1>4, <2>1, <2>3 DEF Hits
    <2> QED
      BY <2>2, <2>3
  <1>5. CASE map[u] # NoNode
    <2>1. /\ heap[map[u]] # Garbage
          /\ heap[map[u]].uuid = u
          /\ InMemory[u] = heap[map[u]].content
          /\ \E i \in DOMAIN registry : registry[i] = map[u]
      BY <1>5 DEF StoreInv, LiveReadLast, InMemory
    <2>2. ASSUME NEW i \in DOMAIN pending, registry[i] = map[u]
          PROVE  /\ i \in Hits(pending, u)
                 /\ pending[i].content = InMemory[u]
      BY <1>2, <1>3, <2>1, <2>2
    <2>3. Hits(pending, u) # {}
      BY <1>1, <2>1, <2>2
    <2>4. PICK i \in Hits(pending, u) : \A j \in Hits(pending, u) : j <= i
      BY <1>1, <2>3, LoadedAt
    <2>5. i \in DOMAIN pending /\ pending[i].uuid = u
      BY DEF Hits
    <2>6. registry[i] = map[u]
      <3> SUFFICES ASSUME registry[i] # map[u] PROVE FALSE
        OBVIOUS
      <3>1. PICK k \in DOMAIN registry : i < k /\ registry[k] = map[u]
        BY <1>5, <2>5 DEF StoreInv, CollectedLast, Collecting
      <3>2. k \in Hits(pending, u)
        BY <1>1, <2>2, <3>1
      <3> QED
        BY <1>1, <2>4, <2>5, <3>1, <3>2
    <2>7. Loaded(pending, S!NoAccounts)[u] = pending[i].content
      BY <1>1, <2>4, LoadedAt
    <2> QED
      BY <2>2, <2>5, <2>6, <2>7
  <1> QED
    BY <1>4, <1>5

(* A save begins for the store where it opens the file, and ends with what *)
(* it has collected before.                                                *)
LEMMA SaveImplements ==
    ASSUME StoreInv, SavesToBeLoaded,
           SaveBegin \/ SaveEntry \/ SaveOpen \/ SaveClose
    PROVE  [S!ProductNext]_(S!productVars)
  <1>1. CASE SaveBegin \/ SaveEntry
    <2>1. /\ phase \in {"ready", "collecting"} /\ phase' = "collecting"
          /\ UNCHANGED <<files, map, registry, heap, removed>>
      BY <1>1 DEF SaveBegin, SaveEntry
    <2>2. Volatile' = Volatile /\ Durable' = Durable /\ Activity' = Activity
      BY <2>1 DEF Volatile, InMemory, Durable, Activity
    <2> QED
      BY <2>1, <2>2 DEF S!productVars, S!storeVars
  <1>2. CASE SaveOpen
    <2>1. /\ phase = "collecting" /\ phase' = "saving"
          /\ files' = [files EXCEPT ![SaveName] = Torn]
          /\ UNCHANGED <<map, registry, heap, pending, removed>>
      BY <1>2 DEF SaveOpen
    <2>2. files'[Configured] = Torn
      BY <2>1 DEF SavesToBeLoaded, StoreInv, TypeOK, FileName
    <2>3. Durable' = Lost
      BY <2>2 DEF Durable, Torn
    <2>4. Volatile' = Volatile /\ Activity = "ready" /\ Activity' = "saving"
      BY <2>1 DEF Volatile, InMemory, Activity
    <2>5. S!BeginSave
      BY <2>3, <2>4 DEF S!BeginSave, S!Become
    <2> QED
      BY <2>1, <2>5 DEF S!ProductNext
  <1>3. CASE SaveClose
    <2>1. /\ phase = "saving" /\ phase' = "ready"
          /\ files' = [files EXCEPT ![SaveName] = Whole(pending)]
          /\ UNCHANGED <<map, registry, heap, removed>>
          /\ pending \in Seq(Entry)
      BY <1>3 DEF SaveClose, StoreInv, TypeOK
    <2>2. files'[Configured] = Whole(pending)
      BY <2>1 DEF SavesToBeLoaded, StoreInv, TypeOK, FileName
    <2>3. Durable' = Loaded(pending, S!NoAccounts)
      BY <2>2 DEF Durable, Whole, S!NoAccounts
    <2>4. S!NoAccounts \in S!Accounts
      BY DEF S!NoAccounts, S!Accounts
    <2>5. Durable' \in S!Accounts
      BY <2>1, <2>3, <2>4, LoadedType
    <2>6. /\ Volatile = InMemory /\ Volatile' = Volatile
          /\ Activity = "saving" /\ Activity' = "ready"
      BY <2>1 DEF Volatile, InMemory, Activity
    <2>7. ASSUME NEW u \in Uuid
          PROVE  \/ Durable'[u] = Volatile[u]
                 \/ Volatile[u] = NoAccount /\ u \in removed
      BY <2>1, <2>3, <2>6, CollectedIsStored DEF SavesToBeLoaded
    <2>8. S!EndSaving
      BY <2>1, <2>5, <2>6, <2>7 DEF S!EndSaving, S!Become
    <2> QED
      BY <2>8 DEF S!ProductNext
  <1> QED
    BY <1>1, <1>2, <1>3

(* Every step maps to a step or a stutter.                                 *)
LEMMA NextImplements ==
    ASSUME StoreInv, SavesToBeLoaded, [Next]_vars
    PROVE  [S!ProductNext]_(S!productVars)
  <1>1. CASE UNCHANGED vars
    BY <1>1 DEF vars, S!productVars, S!storeVars, Durable, Volatile, Activity,
       InMemory
  <1> QED
    BY <1>1, ProcessImplements, RemoveImplements, LoadImplements,
       SaveImplements
    DEF Next

(* However removals interleave with loads and saves and whatever the freed *)
(* memory holds, of each product not removed all that operator= copies     *)
(* survives save, crash and load, provided load reads the file that save   *)
(* writes and accepts entries without a hash code (BindingsImpl.cpp:562,   *)
(* :577, :612).  The telephone number does not: load drops it (:468) and   *)
(* save writes the mailing address in its place (:607).                    *)
THEOREM ProductsImplementStore ==
    ASSUME SavesToBeLoaded
    PROVE  Spec => ImplementsProductStore
  <1>1. Init => S!Init /\ removed = {}
    BY InitImplements
  <1>2. StoreInv /\ [Next]_vars => [S!ProductNext]_(S!productVars)
    BY NextImplements
  <1> QED
    BY StoreInvariant, <1>1, <1>2, PTL
    DEF Spec, ImplementsProductStore, S!ProductSpec
=============================================================================
