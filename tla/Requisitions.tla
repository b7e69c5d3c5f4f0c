---------------------------- MODULE Requisitions ----------------------------
(***************************************************************************)
(* The calls on products and their files that threads of several processes *)
(* make at the same time (BindingsImpl.cpp): Product::request,             *)
(* Products::load and save, Order::finish.  Mutexes belong to a process,   *)
(* the files to all of them.  The list has one entry to load and to save,  *)
(* and a load stands for each addProduct: both assign to a product of the  *)
(* map under the mutex of the list.                                        *)
(***************************************************************************)
EXTENDS Naturals, Sequences, FiniteSets, SequencesExt

CONSTANTS
    Process, Threads,
    ProcessOf,      \* ProcessOf[t]: the process thread t belongs to
    Product,        \* the products every process has in its map
    Supplier,       \* the versions of what is known about a supplier
    NoThread,       \* the owner of a free mutex
    Clients,        \* Clients[t]: the calls thread t of an instance makes
    MaxCalls,       \* bound: calls of one thread
    NoBasis, Unreadable     \* sentinels of RequisitionLog

(* Product::lock of each product, Products::lock and the global mutexes.   *)
GlobalLock == {"list", "products", "requisitions", "reciepts"}
Lock == Product \cup GlobalLock

Call ==
    [op : {"request", "save"}, product : Product]
        \cup [op : {"load"}, product : Product, supplier : Supplier]
        \cup [op : {"finish"}]
NoCall == [op |-> "none"]

(* What stands in the place of a telephone number: nothing, a number, or   *)
(* the mailing address, which getSupplierPhoneNumber returns instead.      *)
NoPhone == [is |-> "empty"]
AddressText(s) == [is |-> "address", of |-> s]
Phone == {NoPhone} \cup [is : {"phone", "address"}, of : Supplier]

(* The name stands for the fields an assignment writes before the address. *)
Details == [name : Supplier, address : Supplier, phone : Phone]

(* A product as it is in memory and as save has written it.                *)
InMemory(s) == [name |-> s, address |-> s, phone |-> NoPhone]
AsSaved(s) == [name |-> s, address |-> s, phone |-> AddressText(s)]

Entry == [by : Threads, nr : 1..MaxCalls, product : Product,
          supplier : Details]

ASSUME RequisitionsAssumption ==
    /\ ProcessOf \in [Threads -> Process]
    /\ NoThread \notin Threads
    /\ Product \cap GlobalLock = {}
    /\ Clients \in [Threads -> SUBSET Call]
    /\ MaxCalls \in Nat
    /\ NoBasis \notin Seq(Entry)
    /\ Unreadable \notin Seq(Entry)

VARIABLES
    file,       \* the requisition file: its state and the entries of "list"
    reciepts,   \* the lines of the reciept file
    stored,     \* stored[x]: the supplier of x in the product file
    details,    \* details[p][x]: the supplier fields of product x in p
    owner,      \* owner[p][l]: the thread of p that holds mutex l
    pc,         \* pc[t]: the next step of thread t, "idle" between calls
    call,       \* call[t]: the call t is executing, or NoCall
    calls,      \* calls[t]: how many calls t has made
    list,       \* list[t]: the local requisitionList of request
    saved,      \* saved[t]: the supplier's fields that save has read
    done,       \* history: the requests and orders that have been written
    disturbed   \* history: requests of two processes have overlapped, or
                \* one could not open a requisition file that was there

files == <<file, reciepts, stored>>
vars == <<files, details, owner, pc, call, calls, list, saved, done,
          disturbed>>

(* The node addProduct makes has no telephone number, and the assignment   *)
(* to it (operator=) does not copy the one that load has read.             *)
Loaded(content) == [x \in Product |-> [content[x] EXCEPT !.phone = NoPhone]]

NoFields == [read |-> "nothing"]
Named == [name : Supplier]
Addressed == [name : Supplier, address : Supplier]

Torn == [kind |-> "torn", list |-> <<>>]
Whole(entries) == [kind |-> "whole", list |-> entries]

Init ==
    /\ file = [kind |-> "absent", list |-> <<>>]
    /\ reciepts = <<>>
    /\ \E s \in Supplier :
         /\ stored = [x \in Product |-> AsSaved(s)]
         /\ details = [p \in Process |-> [x \in Product |-> InMemory(s)]]
    /\ owner = [p \in Process |-> [l \in Lock |-> NoThread]]
    /\ pc = [t \in Threads |-> "idle"]
    /\ call = [t \in Threads |-> NoCall]
    /\ calls = [t \in Threads |-> 0]
    /\ list = [t \in Threads |-> <<>>]
    /\ saved = [t \in Threads |-> NoFields]
    /\ done = {}
    /\ disturbed = FALSE

-----------------------------------------------------------------------------
(* The frame of a call: its lock_guards are taken in order and released    *)
(* together when the call ends, by return or by exception.                 *)

At(t, label) == pc[t] = label
Goto(t, label) == pc' = [pc EXCEPT ![t] = label]
Here(t) == ProcessOf[t]

(* Fault: request holds its product only, not the file.                    *)
GuardsFewer(c) ==
    CASE c.op = "request" -> <<c.product>>
      [] c.op = "load" -> <<"list", "products", c.product>>
      [] c.op = "save" -> <<"list", "products">>
      [] c.op = "finish" -> <<"reciepts">>

(* Fault: request holds the file only, not its product.                    *)
GuardsFileOnly(c) ==
    CASE c.op = "request" -> <<"requisitions">>
      [] c.op = "load" -> <<"list", "products", c.product>>
      [] c.op = "save" -> <<"list", "products">>
      [] c.op = "finish" -> <<"reciepts">>

(* Fault: save takes the two mutexes in the other order.                   *)
GuardsSwapped(c) ==
    CASE c.op = "request" -> <<c.product, "requisitions">>
      [] c.op = "load" -> <<"list", "products", c.product>>
      [] c.op = "save" -> <<"products", "list">>
      [] c.op = "finish" -> <<"reciepts">>

Guards(c) ==
    CASE c.op = "request" -> <<c.product, "requisitions">>
      [] c.op = "load" -> <<"list", "products", c.product>>
      [] c.op = "save" -> <<"list", "products">>
      [] c.op = "finish" -> <<"reciepts">>

FirstStep(op) ==
    CASE op = "request" -> "read"
      [] op = "load" -> "assignName"
      [] op = "save" -> "saveName"
      [] op = "finish" -> "append"

Invoke(t, c) ==
    /\ At(t, "idle")
    /\ calls[t] < MaxCalls
    /\ calls' = [calls EXCEPT ![t] = @ + 1]
    /\ call' = [call EXCEPT ![t] = c]
    /\ Goto(t, "acquire")
    /\ UNCHANGED <<files, details, owner, list, saved, done, disturbed>>

Held(t) == {l \in Lock : owner[Here(t)][l] = t}

(* Guard i is the next one, and free.                                      *)
Acquire(t) ==
    /\ At(t, "acquire")
    /\ \E i \in DOMAIN Guards(call[t]) :
         LET l == Guards(call[t])[i] IN
         /\ \A j \in DOMAIN Guards(call[t]) :
              Guards(call[t])[j] \in Held(t) <=> j < i
         /\ owner[Here(t)][l] = NoThread
         /\ owner' = [owner EXCEPT ![Here(t)][l] = t]
         /\ Goto(t, IF i = Len(Guards(call[t]))
                    THEN FirstStep(call[t].op) ELSE "acquire")
    /\ UNCHANGED <<files, details, call, calls, list, saved, done, disturbed>>

End(t) ==
    /\ owner' = [owner EXCEPT ![Here(t)] =
                   [l \in Lock |-> IF @[l] = t THEN NoThread ELSE @[l]]]
    /\ call' = [call EXCEPT ![t] = NoCall]
    /\ list' = [list EXCEPT ![t] = <<>>]
    /\ saved' = [saved EXCEPT ![t] = NoFields]
    /\ Goto(t, "idle")
    /\ UNCHANGED calls

-----------------------------------------------------------------------------
(* Product::request                                                        *)

(* Between reading the file and writing it.                                *)
InWindow(t) == pc[t] \in {"compose", "truncate", "write"}

(* Fault: the null of a file without list is kept.                         *)
ReadNull(t) ==
    /\ At(t, "read")
    /\ file.kind # "torn"
    /\ list' = [list EXCEPT ![t] =
                  IF file.kind = "absent" THEN NoBasis ELSE file.list]
    /\ Goto(t, "truncate")
    /\ UNCHANGED <<files, details, owner, call, calls, saved, done, disturbed>>

Read(t) ==
    /\ At(t, "read")
    /\ file.kind # "torn"
    /\ list' = [list EXCEPT ![t] = file.list]
    /\ disturbed' = \/ disturbed
                     \/ \E u \in Threads : InWindow(u) /\ Here(u) # Here(t)
    /\ Goto(t, "compose")
    /\ UNCHANGED <<files, details, owner, call, calls, saved, done>>

(* A file that is there and cannot be opened passes for an empty list.     *)
ReadUnopened(t) ==
    /\ At(t, "read")
    /\ file.kind # "absent"
    /\ list' = [list EXCEPT ![t] = <<>>]
    /\ disturbed' = TRUE
    /\ Goto(t, "compose")
    /\ UNCHANGED <<files, details, owner, call, calls, saved, done>>

(* The JSON reader throws on a file that was cut off.                      *)
ReadThrows(t) ==
    /\ At(t, "read")
    /\ file.kind = "torn"
    /\ End(t)
    /\ UNCHANGED <<files, details, done, disturbed>>

Made(t) ==
    [by |-> t, nr |-> calls[t], product |-> call[t].product,
     supplier |-> details[Here(t)][call[t].product]]

Compose(t) ==
    /\ At(t, "compose")
    /\ list' = [list EXCEPT ![t] = Append(@, Made(t))]
    /\ Goto(t, "truncate")
    /\ UNCHANGED <<files, details, owner, call, calls, saved, done, disturbed>>

Truncate(t) ==
    /\ At(t, "truncate")
    /\ file' = Torn
    /\ Goto(t, "write")
    /\ UNCHANGED <<reciepts, stored, details, owner, call, calls, list, saved,
                   done, disturbed>>

(* The list is written from the start of the file, whatever another        *)
(* process has put there since the truncation.                             *)
Write(t) ==
    /\ At(t, "write")
    /\ file' = Whole(list[t])
    /\ done' = done \cup {<<t, calls[t]>>}
    /\ End(t)
    /\ UNCHANGED <<reciepts, stored, details, disturbed>>

-----------------------------------------------------------------------------
(* Products::load and addProduct assign, Products::save reads through      *)
(* getters that take no mutex, Order::finish appends to its file.          *)

AssignName(t) ==
    /\ At(t, "assignName")
    /\ details' = [details EXCEPT
                     ![Here(t)][call[t].product].name = call[t].supplier]
    /\ Goto(t, "assignAddress")
    /\ UNCHANGED <<files, owner, call, calls, list, saved, done, disturbed>>

(* The last assignment of operator=: none is to the telephone number.      *)
AssignAddress(t) ==
    /\ At(t, "assignAddress")
    /\ details' = [details EXCEPT
                     ![Here(t)][call[t].product].address = call[t].supplier]
    /\ End(t)
    /\ UNCHANGED <<files, done, disturbed>>

(* The supplier of the product, field by field through its getters.        *)
Fields(t) == details[Here(t)][call[t].product]

SaveName(t) ==
    /\ At(t, "saveName")
    /\ saved' = [saved EXCEPT ![t] = [name |-> Fields(t).name]]
    /\ Goto(t, "saveAddress")
    /\ UNCHANGED <<files, details, owner, call, calls, list, done, disturbed>>

SaveAddress(t) ==
    /\ At(t, "saveAddress")
    /\ saved' = [saved EXCEPT ![t] = [name |-> @.name,
                                     address |-> Fields(t).address]]
    /\ Goto(t, "savePhone")
    /\ UNCHANGED <<files, details, owner, call, calls, list, done, disturbed>>

(* getSupplierPhoneNumber reads the address once more; the file is written.*)
SavePhone(t) ==
    /\ At(t, "savePhone")
    /\ stored' = [stored EXCEPT ![call[t].product] =
                    [name |-> saved[t].name, address |-> saved[t].address,
                     phone |-> AddressText(Fields(t).address)]]
    /\ End(t)
    /\ UNCHANGED <<file, reciepts, details, done, disturbed>>

(* The file is opened in append mode and the line ends with a flush.       *)
AppendReciept(t) ==
    /\ At(t, "append")
    /\ reciepts' = Append(reciepts, <<t, calls[t]>>)
    /\ done' = done \cup {<<t, calls[t]>>}
    /\ End(t)
    /\ UNCHANGED <<file, stored, details, disturbed>>

(* The stream cannot be opened: load does nothing, the others write to no  *)
(* effect, and the call returns as if it had done its work.                *)
Skip(t) ==
    /\ pc[t] \in {"truncate", "assignName", "savePhone", "append"}
    /\ End(t)
    /\ UNCHANGED <<files, details, done, disturbed>>

(* A process is killed and started again; its map is loaded anew.          *)
Crash(p) ==
    LET mine == {t \in Threads : Here(t) = p} IN
    /\ owner' = [owner EXCEPT ![p] = [l \in Lock |-> NoThread]]
    /\ pc' = [t \in Threads |-> IF t \in mine THEN "idle" ELSE pc[t]]
    /\ call' = [t \in Threads |-> IF t \in mine THEN NoCall ELSE call[t]]
    /\ list' = [t \in Threads |-> IF t \in mine THEN <<>> ELSE list[t]]
    /\ saved' = [t \in Threads |-> IF t \in mine THEN NoFields ELSE saved[t]]
    /\ details' = [details EXCEPT ![p] = Loaded(stored)]
    /\ UNCHANGED <<files, calls, done, disturbed>>

Step(t) ==
    \/ Acquire(t)
    \/ Read(t)
    \/ ReadUnopened(t)
    \/ ReadThrows(t)
    \/ Compose(t)
    \/ Truncate(t)
    \/ Write(t)
    \/ AssignName(t)
    \/ AssignAddress(t)
    \/ SaveName(t)
    \/ SaveAddress(t)
    \/ SavePhone(t)
    \/ AppendReciept(t)
    \/ Skip(t)

Next ==
    \/ \E t \in Threads : Step(t) \/ \E c \in Clients[t] : Invoke(t, c)
    \/ \E p \in Process : Crash(p)

Spec == Init /\ [][Next]_vars /\ \A t \in Threads : WF_vars(Step(t))

-----------------------------------------------------------------------------

TypeOK ==
    /\ file \in [kind : {"absent", "torn", "whole"}, list : Seq(Entry)]
    /\ reciepts \in Seq(Threads \X (1..MaxCalls))
    /\ stored \in [Product -> Details]
    /\ details \in [Process -> [Product -> Details]]
    /\ owner \in [Process -> [Lock -> Threads \cup {NoThread}]]
    /\ pc \in [Threads -> {"idle", "acquire", "read", "compose", "truncate",
                           "write", "assignName", "assignAddress",
                           "saveName", "saveAddress", "savePhone", "append"}]
    /\ call \in [Threads -> Call \cup {NoCall}]
    /\ calls \in [Threads -> 0..MaxCalls]
    /\ list \in [Threads -> Seq(Entry)]
    /\ saved \in [Threads -> {NoFields} \cup Named \cup Addressed]
    /\ done \subseteq Threads \X (1..MaxCalls)
    /\ disturbed \in BOOLEAN

Id(e) == <<e.by, e.nr>>

(* The file never holds a request twice, and holds every request that      *)
(* wrote its list, unless it was cut off by a crash, requests of two       *)
(* processes overlapped or one could not open the file: what threads of    *)
(* one process have written none of them undoes (BindingsImpl.cpp:529).    *)
RequestsKept ==
    file.kind # "torn" =>
        /\ \A i, j \in DOMAIN file.list :
             Id(file.list[i]) = Id(file.list[j]) => i = j
        /\ ~disturbed =>
             \A d \in done : \/ \E i \in DOMAIN file.list : Id(file.list[i]) = d
                             \/ \E i \in DOMAIN reciepts : reciepts[i] = d

(* request reads the supplier's fields under the mutex of the product,     *)
(* save under the mutex of the list, and load writes them under both: each *)
(* stored requisition and product is of one version of the supplier,       *)
(* though never with its telephone number: a requisition has none, the     *)
(* product file has the address in its place (BindingsImpl.cpp:468, :492). *)
SuppliersOfOneVersion ==
    /\ \A x \in Product : \E s \in Supplier : stored[x] = AsSaved(s)
    /\ \A i \in DOMAIN file.list :
         \E s \in Supplier : file.list[i].supplier = InMemory(s)

(* No order in which the calls take their mutexes blocks them for ever:    *)
(* with finitely many calls each of them ends (or its process is killed).  *)
CallsEnd == \A t \in Threads : pc[t] # "idle" ~> pc[t] = "idle"

Basis(t) == IF pc[t] = "compose" THEN list[t] ELSE Front(list[t])

Log == IF file.kind = "torn" THEN Unreadable ELSE file.list

Bases ==
    [p \in Process |->
        LET t == owner[p]["requisitions"] IN
        IF t # NoThread /\ InWindow(t) THEN Basis(t) ELSE NoBasis]

L == INSTANCE RequisitionLog WITH log <- Log, basis <- Bases

(* The locking makes each process one reader-and-replacer of the list: in  *)
(* effect the requests of its threads append one entry each, at once.      *)
ImplementsRequisitionLog == L!Spec
=============================================================================
