------------------------------ MODULE Products ------------------------------
(***************************************************************************)
(* The product list of one process and its file (BindingsImpl.cpp, class   *)
(* Products).  load, save and addProduct run under the mutex of the list,  *)
(* removeProduct under none: another thread removes products at any step   *)
(* of a load or a save.  It erases an empty range of the registry, which   *)
(* therefore keeps its pointers to the nodes that were freed.  A load or a *)
(* save that cannot open its file changes nothing and is no step here.     *)
(***************************************************************************)
EXTENDS Naturals, Sequences, SequencesExt

CONSTANTS
    Uuid,           \* the identifiers of products
    Content,        \* the fields of a product that an assignment copies
    Text,           \* what can stand in the place of a telephone number
    NoPhone,        \* the empty text
    MailingAddress, \* MailingAddress[c]: the supplier's address in content c
    Address,        \* the places std::map allocates nodes at
    NoNode,         \* map[u] when u has no product
    Garbage,        \* the memory of a freed node that was overwritten
    Validation,     \* the HashValidationMode configured for products
    Configured,     \* the name of the product file in the configuration
    InitialFiles,   \* the files found when the system is first started
    MaxRegistry,    \* bound: registry entries an instance may reach
    NoAccount, Lost \* sentinels of ProductStore

(* save opens "products.json" whatever the configuration says.             *)
SaveName == "products.json"
FileName == {SaveName, Configured}

Node == [uuid : Uuid, content : Content, phone : Text]

(* load looks for a key "hashcode", which save never writes.               *)
Entry == [uuid : Uuid, content : Content, phone : Text,
          hashcode : {"none", "match", "mismatch"}]

Absent == [kind |-> "absent", list |-> <<>>]
Torn == [kind |-> "torn", list |-> <<>>]
Whole(list) == [kind |-> "whole", list |-> list]

ASSUME ProductsAssumption ==
    /\ Validation \in {"None", "Loose", "Strict"}
    /\ NoNode \notin Address
    /\ Garbage \notin Node
    /\ NoPhone \in Text
    /\ MailingAddress \in [Content -> Text]
    /\ MaxRegistry \in Nat
    /\ InitialFiles \subseteq [kind : {"absent", "torn", "whole"},
                               list : Seq(Entry)]
    /\ NoAccount \notin Content
    /\ Lost \notin [Uuid -> Content \cup {NoAccount}]

VARIABLES
    files,      \* files[n]: the state and the entries of file n
    map,        \* productMap: UUID -> address of the node, or NoNode
    registry,   \* products: addresses in order of insertion
    heap,       \* heap[a]: the product stored at a, live or left behind
    phase,      \* what the thread that holds the mutex of the list is doing
    pending,    \* the entries load has not visited, or save has collected
    removed     \* history: products removed since the process started

vars == <<files, map, registry, heap, phase, pending, removed>>

Init ==
    /\ \E f \in InitialFiles :
         files = [n \in FileName |-> IF n = Configured THEN f ELSE Absent]
    /\ map = [u \in Uuid |-> NoNode]
    /\ registry = <<>>
    /\ heap = [a \in Address |-> Garbage]
    /\ phase = "down"
    /\ pending = <<>>
    /\ removed = {}

-----------------------------------------------------------------------------

Start ==
    /\ phase = "down"
    /\ phase' = "ready"
    /\ UNCHANGED <<files, map, registry, heap, pending, removed>>

(* The process exits or crashes: only the files remain.                    *)
Stop ==
    /\ phase # "down"
    /\ phase' = "down"
    /\ map' = [u \in Uuid |-> NoNode]
    /\ registry' = <<>>
    /\ heap' = [a \in Address |-> Garbage]
    /\ pending' = <<>>
    /\ removed' = {}
    /\ UNCHANGED files

Live(a) == \E u \in Uuid : map[u] = a

(* What operator= leaves at a, the node of u or a new one: it copies all   *)
(* but the telephone number, so that of the product put is lost.           *)
Assigned(a, u, c) ==
    [uuid |-> u, content |-> c,
     phone |-> IF map[u] = NoNode THEN NoPhone ELSE heap[a].phone]

(* Fault: the pointer is taken before the map inserts the node.            *)
PutStale(u, c) ==
    \E a \in Address :
        /\ IF map[u] = NoNode THEN ~Live(a) ELSE a = map[u]
        /\ map' = [map EXCEPT ![u] = a]
        /\ heap' = [heap EXCEPT ![a] = Assigned(a, u, c)]
        /\ registry' = Append(registry, map[u])

(* Fault: the pointer goes to the front of the registry.                   *)
PutFront(u, c) ==
    \E a \in Address :
        /\ IF map[u] = NoNode THEN ~Live(a) ELSE a = map[u]
        /\ map' = [map EXCEPT ![u] = a]
        /\ heap' = [heap EXCEPT ![a] = Assigned(a, u, c)]
        /\ registry' = <<a>> \o registry

(* productMap[id] = p, then products.push_back(&productMap[id]), also when *)
(* the id was present.  A new node may take the place of a freed one.      *)
Put(u, c) ==
    \E a \in Address :
        /\ IF map[u] = NoNode THEN ~Live(a) ELSE a = map[u]
        /\ map' = [map EXCEPT ![u] = a]
        /\ heap' = [heap EXCEPT ![a] = Assigned(a, u, c)]
        /\ registry' = Append(registry, a)

AddProduct(u, c) ==
    /\ phase = "ready"
    /\ Len(registry) < MaxRegistry
    /\ Put(u, c)
    /\ UNCHANGED <<files, phase, pending, removed>>

(* Fault: erase(it, end()) where the range is empty.                       *)
RemoveProductToEnd(u) ==
    /\ phase # "down"
    /\ map[u] # NoNode
    /\ map' = [map EXCEPT ![u] = NoNode]
    /\ heap' = heap
    /\ removed' = removed \cup {u}
    /\ \E i \in DOMAIN registry :
         /\ heap[registry[i]] # Garbage
         /\ heap[registry[i]].uuid = u
         /\ registry' = SubSeq(registry, 1, i - 1)
    /\ UNCHANGED <<files, phase, pending>>

(* The freed memory reads as before or is overwritten.  The search through *)
(* the registry that follows changes nothing.                              *)
RemoveProduct(u) ==
    /\ phase # "down"
    /\ map[u] # NoNode
    /\ map' = [map EXCEPT ![u] = NoNode]
    /\ heap' \in {heap, [heap EXCEPT ![map[u]] = Garbage]}
    /\ removed' = removed \cup {u}
    /\ UNCHANGED <<files, registry, phase, pending>>

-----------------------------------------------------------------------------

Accepted(e) ==
    CASE Validation = "None" -> TRUE
      [] Validation = "Loose" -> e.hashcode # "mismatch"
      [] Validation = "Strict" -> e.hashcode = "match"

LoadOpen ==
    /\ phase = "ready"
    /\ files[Configured].kind = "whole"
    /\ Len(registry) + Len(files[Configured].list) <= MaxRegistry
    /\ pending' = files[Configured].list
    /\ phase' = "loading"
    /\ UNCHANGED <<files, map, registry, heap, removed>>

LoadEntry ==
    /\ phase = "loading"
    /\ pending # <<>>
    /\ pending' = Tail(pending)
    /\ LET e == Head(pending) IN
         IF Accepted(e)
         THEN Put(e.uuid, e.content)
         ELSE UNCHANGED <<map, registry, heap>>
    /\ UNCHANGED <<files, phase, removed>>

LoadEnd ==
    /\ phase = "loading"
    /\ pending = <<>>
    /\ phase' = "ready"
    /\ UNCHANGED <<files, map, registry, heap, pending, removed>>

-----------------------------------------------------------------------------
(* save reads the products through the registry one after the other before *)
(* it opens the file.  A pointer to overwritten memory is not followed: a  *)
(* process that comes to one may only stop.                                *)

SaveBegin ==
    /\ phase = "ready"
    /\ phase' = "collecting"
    /\ UNCHANGED <<files, map, registry, heap, pending, removed>>

(* getSupplierPhoneNumber returns the mailing address.                     *)
SaveEntry ==
    /\ phase = "collecting"
    /\ Len(pending) < Len(registry)
    /\ LET n == heap[registry[Len(pending) + 1]] IN
         /\ n # Garbage
         /\ pending' = Append(pending, [uuid |-> n.uuid,
                                        content |-> n.content,
                                        phone |-> MailingAddress[n.content],
                                        hashcode |-> "none"])
    /\ UNCHANGED <<files, map, registry, heap, phase, removed>>

SaveOpen ==
    /\ phase = "collecting"
    /\ Len(pending) = Len(registry)
    /\ files' = [files EXCEPT ![SaveName] = Torn]
    /\ phase' = "saving"
    /\ UNCHANGED <<map, registry, heap, pending, removed>>

SaveClose ==
    /\ phase = "saving"
    /\ files' = [files EXCEPT ![SaveName] = Whole(pending)]
    /\ phase' = "ready"
    /\ pending' = <<>>
    /\ UNCHANGED <<map, registry, heap, removed>>

Next ==
    \/ Start
    \/ Stop
    \/ \E u \in Uuid, c \in Content : AddProduct(u, c)
    \/ \E u \in Uuid : RemoveProduct(u)
    \/ LoadOpen
    \/ LoadEntry
    \/ LoadEnd
    \/ SaveBegin
    \/ SaveEntry
    \/ SaveOpen
    \/ SaveClose

Spec == Init /\ [][Next]_vars

-----------------------------------------------------------------------------

TypeOK ==
    /\ files \in [FileName -> [kind : {"absent", "torn", "whole"},
                               list : Seq(Entry)]]
    /\ map \in [Uuid -> Address \cup {NoNode}]
    /\ registry \in Seq(Address)
    /\ heap \in [Address -> Node \cup {Garbage}]
    /\ phase \in {"down", "ready", "loading", "collecting", "saving"}
    /\ pending \in Seq(Entry)
    /\ removed \subseteq Uuid

(* A product found under its UUID is never read through a freed node, and  *)
(* every pointer that reads as a live product reads its present content    *)
(* or precedes the pointer that does: no dangling pointer hides a product  *)
(* from a save, or restores an older version of it.                        *)
LiveReadLast ==
    \A u \in Uuid : map[u] # NoNode =>
        /\ heap[map[u]] # Garbage
        /\ heap[map[u]].uuid = u
        /\ \E i \in DOMAIN registry :
             /\ registry[i] = map[u]
             /\ \A j \in DOMAIN registry :
                  /\ heap[registry[j]] # Garbage
                  /\ heap[registry[j]].uuid = u
                  /\ registry[j] # map[u]
                  => j < i

(* The products that remain once load has visited list.                    *)
Loaded(list, base) ==
    LET of(u) == {i \in DOMAIN list : list[i].uuid = u /\ Accepted(list[i])}
    IN [u \in Uuid |->
          IF of(u) = {} THEN base[u]
          ELSE list[CHOOSE i \in of(u) : \A j \in of(u) : j <= i].content]

InMemory ==
    [u \in Uuid |-> IF map[u] = NoNode THEN NoAccount
                    ELSE heap[map[u]].content]

Durable ==
    IF files[Configured].kind = "torn" THEN Lost
    ELSE Loaded(files[Configured].list, [u \in Uuid |-> NoAccount])

(* A load takes effect when it opens the file.                             *)
Volatile == IF phase = "loading" THEN Loaded(pending, InMemory) ELSE InMemory

(* A save begins when it opens the file.                                   *)
Activity == IF phase = "collecting" THEN "ready" ELSE phase

S == INSTANCE ProductStore WITH
        durable <- Durable,
        volatile <- Volatile,
        activity <- Activity

(* However removals interleave with loads and saves and whatever the freed *)
(* memory holds, only removed products are ever stored beside those in the *)
(* map: of each product not removed all that an assignment copies survives *)
(* save, crash and load.  Its telephone number is lost once it is put.     *)
ImplementsProductStore == S!ProductSpec
=============================================================================
