------------------------- MODULE RequisitionsProofs -------------------------
(***************************************************************************)
(* Theorems about Requisitions, for every set of processes, threads,       *)
(* products and calls.                                                     *)
(***************************************************************************)
EXTENDS Requisitions, SequenceTheorems, TLAPS

-----------------------------------------------------------------------------
(* What a thread is doing and which mutexes it holds.                      *)

Requesting == {"read", "compose", "truncate", "write"}
Loading == {"assignName", "assignAddress"}
Saving == {"saveName", "saveAddress", "savePhone"}
Working == Requesting \cup Loading \cup Saving \cup {"append"}
Labels == {"idle", "acquire"} \cup Working

LocalTypes ==
    /\ owner \in [Process -> [Lock -> Threads \cup {NoThread}]]
    /\ pc \in [Threads -> Labels]
    /\ call \in [Threads -> Call \cup {NoCall}]
    /\ calls \in [Threads -> 0..MaxCalls]
    /\ list \in [Threads -> Seq(Entry)]
    /\ saved \in [Threads -> {NoFields} \cup Named \cup Addressed]

SharedTypes ==
    /\ file \in [kind : {"absent", "torn", "whole"}, list : Seq(Entry)]
    /\ reciepts \in Seq(Threads \X (1..MaxCalls))
    /\ stored \in [Product -> Details]
    /\ details \in [Process -> [Product -> Details]]
    /\ done \subseteq Threads \X (1..MaxCalls)
    /\ disturbed \in BOOLEAN

(* The steps of a call are those of its function.                          *)
Doing ==
    \A t \in Threads :
        /\ pc[t] # "idle" => call[t] \in Call /\ calls[t] >= 1
        /\ pc[t] \in Requesting => call[t].op = "request"
        /\ pc[t] \in Loading => call[t].op = "load"
        /\ pc[t] \in Saving => call[t].op = "save"
        /\ pc[t] = "append" => call[t].op = "finish"
        /\ pc[t] \in {"truncate", "write"} => list[t] # <<>>
        /\ pc[t] = "saveAddress" => saved[t] \in Named
        /\ pc[t] = "savePhone" => saved[t] \in Addressed

(* A thread that is past its lock_guards holds them.                       *)
Holding ==
    \A t \in Threads :
        LET mine(l) == owner[Here(t)][l] = t IN
        /\ pc[t] \in Requesting => mine(call[t].product) /\ mine("requisitions")
        /\ pc[t] \in Loading => mine("list") /\ mine(call[t].product)
        /\ pc[t] \in Saving => mine("list")

(* A mutex is held by threads of its process.                              *)
Owning ==
    \A p \in Process, l \in Lock :
        owner[p][l] # NoThread => Here(owner[p][l]) = p

LocalInv == LocalTypes /\ Doing /\ Holding /\ Owning

-----------------------------------------------------------------------------

(* The types of the module in the two parts used here.                     *)
LEMMA TypeParts == TypeOK <=> LocalTypes /\ SharedTypes
  BY Zenon DEF TypeOK, LocalTypes, SharedTypes, Labels, Working, Requesting,
     Loading, Saving

(* What the proofs use of the assumptions.                                 *)
LEMMA Given ==
    /\ \A t \in Threads : Here(t) \in Process
    /\ NoThread \notin Threads
    /\ \A t \in Threads : \A c \in Clients[t] : c \in Call
    /\ MaxCalls \in Nat
    /\ Product \subseteq Lock
    /\ {"list", "products", "requisitions", "reciepts"} \subseteq Lock
    /\ \A x \in Product : x \notin GlobalLock
    /\ NoBasis \notin Seq(Entry)
    /\ Unreadable \notin Seq(Entry)
  BY RequisitionsAssumption DEF Here, Lock, GlobalLock

(* The fields of a call.                                                   *)
LEMMA CallFields ==
    ASSUME NEW c \in Call
    PROVE  /\ c.op \in {"request", "load", "save", "finish"}
           /\ c.op # "finish" => c.product \in Product
           /\ c.op = "load" => c.supplier \in Supplier
  BY DEF Call

(* No mutex is held at first.                                              *)
LEMMA LocalInitially == Init => LocalInv
  <1> SUFFICES ASSUME Init PROVE LocalInv
    OBVIOUS
  <1>1. <<>> \in Seq(Entry) /\ 0 \in 0..MaxCalls
    BY Given, EmptySeq
  <1>2. LocalTypes
    BY <1>1, Zenon DEF Init, LocalTypes, Labels
  <1>3. Doing /\ Holding /\ Owning
    BY DEF Init, Doing, Holding, Owning, Requesting, Loading, Saving
  <1> QED BY <1>2, <1>3 DEF LocalInv

(* A call that ends releases its own mutexes and no other thread's.        *)
LEMMA EndKeeps ==
    ASSUME LocalInv, NEW t \in Threads, End(t)
    PROVE  LocalInv'
  <1>1. /\ LocalTypes /\ Doing /\ Holding
        /\ Here(t) \in Process
        /\ NoThread \notin Threads
    BY Given DEF LocalInv
  <1>2. /\ owner' = [owner EXCEPT ![Here(t)] =
                       [l \in Lock |-> IF @[l] = t THEN NoThread ELSE @[l]]]
        /\ call' = [call EXCEPT ![t] = NoCall]
        /\ list' = [list EXCEPT ![t] = <<>>]
        /\ saved' = [saved EXCEPT ![t] = NoFields]
        /\ pc' = [pc EXCEPT ![t] = "idle"]
        /\ calls' = calls
    BY DEF End, Goto
  <1>3. <<>> \in Seq(Entry)
    BY EmptySeq
  <1>4. /\ owner' \in [Process -> [Lock -> Threads \cup {NoThread}]]
        /\ \A p \in Process, l \in Lock, u \in Threads :
             u # t /\ owner[p][l] = u => owner'[p][l] = u
        /\ \A p \in Process, l \in Lock : owner'[p][l] \in {NoThread, owner[p][l]}
    BY <1>1, <1>2 DEF LocalTypes
  <1>5. /\ pc' \in [Threads -> Labels] /\ pc'[t] = "idle"
        /\ \A u \in Threads \ {t} : pc'[u] = pc[u]
    BY <1>1, <1>2 DEF LocalTypes, Labels
  <1>6. /\ call' \in [Threads -> Call \cup {NoCall}]
        /\ \A u \in Threads \ {t} : call'[u] = call[u]
    BY <1>1, <1>2 DEF LocalTypes
  <1>7. /\ list' \in [Threads -> Seq(Entry)]
        /\ \A u \in Threads \ {t} : list'[u] = list[u]
    BY <1>1, <1>2, <1>3 DEF LocalTypes
  <1>8. /\ saved' \in [Threads -> {NoFields} \cup Named \cup Addressed]
        /\ \A u \in Threads \ {t} : saved'[u] = saved[u]
    BY <1>1, <1>2 DEF LocalTypes
  <1>9. LocalTypes'
    BY <1>1, <1>2, <1>4, <1>5, <1>6, <1>7, <1>8 DEF LocalTypes
  <1>10. Doing'
    BY <1>1, <1>2, <1>5, <1>6, <1>7, <1>8 DEF Doing, Requesting, Loading,
       Saving
  <1>11. Holding'
    <2> SUFFICES ASSUME NEW u \in Threads, u # t
                 PROVE  LET mine(l) == owner'[Here(u)][l] = u IN
                        /\ pc[u] \in Requesting => mine(call[u].product)
                                                   /\ mine("requisitions")
                        /\ pc[u] \in Loading => mine("list")
                                                /\ mine(call[u].product)
                        /\ pc[u] \in Saving => mine("list")
      BY <1>5, <1>6 DEF Holding, Requesting, Loading, Saving, Here
    <2>1. \A l \in Lock : owner[Here(u)][l] = u => owner'[Here(u)][l] = u
      BY <1>4, Given
    <2>2. pc[u] \in Requesting \cup Loading => call[u].product \in Lock
      BY <1>1, CallFields, Given DEF Doing, Requesting, Loading
    <2> QED BY <1>1, <2>1, <2>2, Given DEF Holding
  <1>12. Owning'
    BY <1>4 DEF LocalInv, Owning, Here
  <1> QED BY <1>9, <1>10, <1>11, <1>12 DEF LocalInv

(* A step within a call, to a label of the same function, keeps it all.    *)
LEMMA WithinKeeps ==
    ASSUME LocalInv, NEW t \in Threads, NEW label \in Working,
           pc' = [pc EXCEPT ![t] = label],
           \/ pc[t] \in Requesting /\ label \in Requesting
           \/ pc[t] \in Loading /\ label \in Loading
           \/ pc[t] \in Saving /\ label \in Saving,
           UNCHANGED <<owner, call, calls>>,
           \A u \in Threads \ {t} : list'[u] = list[u],
           label \in {"truncate", "write"} => list'[t] # <<>>,
           list' \in [Threads -> Seq(Entry)],
           \A u \in Threads \ {t} : saved'[u] = saved[u],
           label = "saveAddress" => saved'[t] \in Named,
           label = "savePhone" => saved'[t] \in Addressed,
           saved' \in [Threads -> {NoFields} \cup Named \cup Addressed]
    PROVE  LocalInv'
  <1>1. LocalTypes /\ Doing /\ Holding
    BY DEF LocalInv
  <1>2. /\ pc' \in [Threads -> Labels] /\ pc'[t] = label
        /\ \A u \in Threads \ {t} : pc'[u] = pc[u]
    BY <1>1 DEF LocalTypes, Labels
  <1>3. LocalTypes'
    BY <1>1, <1>2 DEF LocalTypes
  <1>4. Doing'
    BY <1>1, <1>2 DEF Doing, Requesting, Loading, Saving, Working
  <1>5. Holding'
    BY <1>1, <1>2 DEF Holding, Requesting, Loading, Saving, Working, Here
  <1>6. Owning'
    BY DEF LocalInv, Owning, Here
  <1> QED BY <1>3, <1>4, <1>5, <1>6 DEF LocalInv

(* The last of the lock_guards makes a call hold all it needs.             *)
LEMMA AcquireKeeps ==
    ASSUME LocalInv, NEW t \in Threads, Acquire(t)
    PROVE  LocalInv'
  <1>1. /\ LocalTypes /\ Doing /\ Holding
        /\ Here(t) \in Process
        /\ NoThread \notin Threads
    BY Given DEF LocalInv
  <1> DEFINE g == Guards(call[t])
  <1>2. PICK i \in DOMAIN g :
          /\ \A j \in DOMAIN g : g[j] \in Held(t) <=> j < i
          /\ owner[Here(t)][g[i]] = NoThread
          /\ owner' = [owner EXCEPT ![Here(t)][g[i]] = t]
          /\ pc' = [pc EXCEPT ![t] = IF i = Len(g) THEN FirstStep(call[t].op)
                                     ELSE "acquire"]
    BY DEF Acquire, Goto
  <1>3. /\ pc[t] = "acquire"
        /\ call[t] \in Call
        /\ UNCHANGED <<call, calls, list, saved>>
    BY <1>1 DEF Acquire, At, Doing
  <1>4. \/ call[t].op = "request" /\ g = <<call[t].product, "requisitions">>
        \/ call[t].op = "load" /\ g = <<"list", "products", call[t].product>>
        \/ call[t].op = "save" /\ g = <<"list", "products">>
        \/ call[t].op = "finish" /\ g = <<"reciepts">>
    BY <1>3, CallFields DEF Guards
  <1>5. \A j \in DOMAIN g : g[j] \in Lock
    BY <1>3, <1>4, CallFields, Given
  <1> DEFINE next == IF i = Len(g) THEN FirstStep(call[t].op) ELSE "acquire"
  <1>6. /\ next = "acquire" \/ i = Len(g)
        /\ next \in Requesting => call[t].op = "request" /\ i = Len(g)
        /\ next \in Loading => call[t].op = "load" /\ i = Len(g)
        /\ next \in Saving => call[t].op = "save" /\ i = Len(g)
        /\ next = "append" => call[t].op = "finish"
        /\ next \in Labels
        /\ next \notin {"idle", "truncate", "write", "saveAddress", "savePhone"}
    BY <1>3, CallFields DEF FirstStep, Requesting, Loading, Saving, Labels,
       Working
  <1>7. /\ owner' \in [Process -> [Lock -> Threads \cup {NoThread}]]
        /\ owner'[Here(t)][g[i]] = t
        /\ \A p \in Process, l \in Lock :
             /\ owner[p][l] # NoThread => owner'[p][l] = owner[p][l]
             /\ \/ owner'[p][l] = owner[p][l]
                \/ p = Here(t) /\ owner'[p][l] = t
    <2> HIDE DEF g
    <2>0. PICK l \in Lock : l = g[i]
      BY <1>5
    <2>1. /\ owner[Here(t)][l] = NoThread
          /\ owner' = [owner EXCEPT ![Here(t)][l] = t]
      BY <1>2, <2>0, Zenon
    <2>2. /\ owner' \in [Process -> [Lock -> Threads \cup {NoThread}]]
          /\ owner'[Here(t)][l] = t
      BY <1>1, <2>1 DEF LocalTypes
    <2>3. \A p \in Process, m \in Lock :
            owner'[p][m] = owner[p][m] \/ (p = Here(t) /\ m = l)
      BY <1>1, <2>1 DEF LocalTypes
    <2> QED BY <2>0, <2>1, <2>2, <2>3
  <1>8. i = Len(g) => \A j \in DOMAIN g : owner'[Here(t)][g[j]] = t
    <2> SUFFICES ASSUME i = Len(g), NEW j \in DOMAIN g
                 PROVE  owner'[Here(t)][g[j]] = t
      OBVIOUS
    <2>1. j = i \/ j < i
      BY <1>4
    <2>2. CASE j < i
      <3>1. g[j] \in Lock /\ owner[Here(t)][g[j]] = t
        BY <1>2, <1>5, <2>2 DEF Held
      <3> HIDE DEF g
      <3> QED BY <1>1, <1>7, <3>1
    <2> QED BY <1>7, <2>1, <2>2
  <1> HIDE DEF next
  <1>9. /\ pc' \in [Threads -> Labels] /\ pc'[t] = next
        /\ \A u \in Threads \ {t} : pc'[u] = pc[u]
    <2>1. pc' = [pc EXCEPT ![t] = next]
      BY <1>2 DEF next
    <2> QED BY <1>1, <1>6, <2>1 DEF LocalTypes
  <1>10. LocalTypes'
    BY <1>1, <1>3, <1>7, <1>9 DEF LocalTypes
  <1>11. Doing'
    BY <1>1, <1>3, <1>6, <1>9 DEF Doing
  <1>12. Holding'
    <2> SUFFICES ASSUME NEW u \in Threads
                 PROVE  LET mine(l) == owner'[Here(u)][l] = u IN
                        /\ pc'[u] \in Requesting => mine(call[u].product)
                                                    /\ mine("requisitions")
                        /\ pc'[u] \in Loading => mine("list")
                                                 /\ mine(call[u].product)
                        /\ pc'[u] \in Saving => mine("list")
      BY <1>3 DEF Holding, Here
    <2>1. CASE u = t
      <3>1. i = Len(g) /\ call[t].op = "request" =>
              /\ owner'[Here(t)][call[t].product] = t
              /\ owner'[Here(t)]["requisitions"] = t
        BY <1>4, <1>8
      <3>2. i = Len(g) /\ call[t].op = "load" =>
              /\ owner'[Here(t)]["list"] = t
              /\ owner'[Here(t)][call[t].product] = t
        BY <1>4, <1>8
      <3>3. i = Len(g) /\ call[t].op = "save" => owner'[Here(t)]["list"] = t
        BY <1>4, <1>8
      <3> HIDE DEF g
      <3> QED BY <1>6, <1>9, <2>1, <3>1, <3>2, <3>3
    <2>2. CASE u # t
      <3>1. \A l \in Lock : owner[Here(u)][l] = u => owner'[Here(u)][l] = u
        BY <1>1, <1>7, Given
      <3>2. pc[u] \in Requesting \cup Loading => call[u].product \in Lock
        BY <1>1, CallFields, Given DEF Doing, Requesting, Loading
      <3>3. pc'[u] = pc[u]
        BY <1>9, <2>2
      <3> QED BY <1>1, <3>1, <3>2, <3>3, Given DEF Holding
    <2> QED BY <2>1, <2>2
  <1>13. Owning'
    BY <1>7 DEF LocalInv, Owning, Here
  <1> QED BY <1>10, <1>11, <1>12, <1>13 DEF LocalInv
(* A new call holds nothing yet.                                           *)
LEMMA InvokeKeeps ==
    ASSUME LocalInv, NEW t \in Threads, NEW c \in Clients[t], Invoke(t, c)
    PROVE  LocalInv'
  <1>1. LocalTypes /\ Doing /\ Holding /\ c \in Call /\ MaxCalls \in Nat
    BY Given DEF LocalInv
  <1>2. /\ calls[t] < MaxCalls
        /\ calls' = [calls EXCEPT ![t] = @ + 1]
        /\ call' = [call EXCEPT ![t] = c]
        /\ pc' = [pc EXCEPT ![t] = "acquire"]
        /\ UNCHANGED <<owner, list, saved>>
    BY DEF Invoke, Goto
  <1>3. /\ calls' \in [Threads -> 0..MaxCalls] /\ calls'[t] >= 1
        /\ \A u \in Threads \ {t} : calls'[u] = calls[u]
    BY <1>1, <1>2 DEF LocalTypes
  <1>4. /\ call' \in [Threads -> Call \cup {NoCall}] /\ call'[t] = c
        /\ \A u \in Threads \ {t} : call'[u] = call[u]
    BY <1>1, <1>2 DEF LocalTypes
  <1>5. /\ pc' \in [Threads -> Labels] /\ pc'[t] = "acquire"
        /\ \A u \in Threads \ {t} : pc'[u] = pc[u]
    BY <1>1, <1>2 DEF LocalTypes, Labels
  <1>6. LocalTypes'
    BY <1>1, <1>2, <1>3, <1>4, <1>5 DEF LocalTypes
  <1>7. Doing'
    BY <1>1, <1>2, <1>3, <1>4, <1>5 DEF Doing, Requesting, Loading, Saving
  <1>8. Holding'
    BY <1>1, <1>2, <1>4, <1>5 DEF Holding, Requesting, Loading, Saving, Here
  <1>9. Owning'
    BY <1>2 DEF LocalInv, Owning, Here
  <1> QED BY <1>6, <1>7, <1>8, <1>9 DEF LocalInv

(* A crash frees the mutexes of one process and ends its calls.            *)
LEMMA CrashKeeps ==
    ASSUME LocalInv, NEW p \in Process, Crash(p)
    PROVE  LocalInv'
  <1>1. LocalTypes /\ Doing /\ Holding /\ Owning
    BY DEF LocalInv
  <1>2. /\ owner' = [owner EXCEPT ![p] = [l \in Lock |-> NoThread]]
        /\ pc' = [t \in Threads |-> IF Here(t) = p THEN "idle" ELSE pc[t]]
        /\ call' = [t \in Threads |-> IF Here(t) = p THEN NoCall ELSE call[t]]
        /\ list' = [t \in Threads |-> IF Here(t) = p THEN <<>> ELSE list[t]]
        /\ saved' = [t \in Threads |-> IF Here(t) = p THEN NoFields ELSE saved[t]]
        /\ calls' = calls
    BY DEF Crash
  <1>3. <<>> \in Seq(Entry)
    BY EmptySeq
  <1>4. /\ owner' \in [Process -> [Lock -> Threads \cup {NoThread}]]
        /\ \A q \in Process \ {p} : owner'[q] = owner[q]
        /\ \A l \in Lock : owner'[p][l] = NoThread
    BY <1>1, <1>2 DEF LocalTypes
  <1>5. LocalTypes'
    <2>1. pc' \in [Threads -> Labels]
      BY <1>1, <1>2 DEF LocalTypes, Labels
    <2>2. list' \in [Threads -> Seq(Entry)]
      BY <1>1, <1>2, <1>3 DEF LocalTypes
    <2>3. call' \in [Threads -> Call \cup {NoCall}]
      BY <1>1, <1>2 DEF LocalTypes
    <2>4. saved' \in [Threads -> {NoFields} \cup Named \cup Addressed]
      BY <1>1, <1>2 DEF LocalTypes
    <2> QED BY <1>1, <1>2, <1>4, <2>1, <2>2, <2>3, <2>4 DEF LocalTypes
  <1>6. ASSUME NEW t \in Threads
        PROVE  \/ Here(t) = p /\ pc'[t] = "idle"
               \/ /\ Here(t) \in Process \ {p}
                  /\ pc'[t] = pc[t] /\ call'[t] = call[t]
                  /\ list'[t] = list[t] /\ calls'[t] = calls[t]
                  /\ saved'[t] = saved[t]
    BY <1>2, Given
  <1>7. Doing'
    BY <1>1, <1>6 DEF Doing, Requesting, Loading, Saving
  <1>8. Holding'
    <2> SUFFICES ASSUME NEW t \in Threads, pc'[t] # "idle"
                 PROVE  LET mine(l) == owner'[Here(t)][l] = t IN
                        /\ pc'[t] \in Requesting => mine(call'[t].product)
                                                    /\ mine("requisitions")
                        /\ pc'[t] \in Loading => mine("list")
                                                 /\ mine(call'[t].product)
                        /\ pc'[t] \in Saving => mine("list")
      BY DEF Holding, Requesting, Loading, Saving, Here
    <2>1. owner'[Here(t)] = owner[Here(t)] /\ pc'[t] = pc[t]
          /\ call'[t] = call[t]
      BY <1>4, <1>6
    <2> QED BY <1>1, <2>1 DEF Holding
  <1>9. Owning'
    <2> SUFFICES ASSUME NEW q \in Process, NEW l \in Lock,
                        owner'[q][l] # NoThread
                 PROVE  Here(owner'[q][l]) = q
      BY DEF Owning, Here
    <2>1. q # p /\ owner'[q] = owner[q]
      BY <1>4
    <2> QED BY <1>1, <2>1 DEF Owning
  <1> QED BY <1>5, <1>7, <1>8, <1>9 DEF LocalInv

(* The files, the products of a process and what returned.                 *)
LEMMA SharedInitially == Init => SharedTypes
  <1> SUFFICES ASSUME Init PROVE SharedTypes
    OBVIOUS
  <1>1. <<>> \in Seq(Entry) /\ <<>> \in Seq(Threads \X (1..MaxCalls))
    BY EmptySeq
  <1>2. /\ stored \in [Product -> Details]
        /\ details \in [Process -> [Product -> Details]]
    BY DEF Init, InMemory, AsSaved, NoPhone, AddressText, Phone, Details
  <1>3. file \in [kind : {"absent", "torn", "whole"}, list : Seq(Entry)]
    BY <1>1 DEF Init
  <1> QED BY <1>1, <1>2, <1>3 DEF Init, SharedTypes

(* A request is of the thread's current call.                              *)
LEMMA MadeIsEntry ==
    ASSUME LocalInv, SharedTypes, NEW t \in Threads, pc[t] \in Requesting
    PROVE  Made(t) \in Entry
  <1>1. call[t] \in Call /\ call[t].op = "request" /\ calls[t] \in 1..MaxCalls
    BY Given DEF LocalInv, LocalTypes, Doing, Requesting
  <1>2. call[t].product \in Product /\ Here(t) \in Process
    BY <1>1, CallFields, Given
  <1>3. details[Here(t)][call[t].product] \in Details
    BY <1>2 DEF SharedTypes
  <1> QED BY <1>1, <1>2, <1>3 DEF Made, Entry

(* Every step keeps what is known of the threads and the types.            *)
LEMMA TypesInductive ==
    LocalInv /\ SharedTypes /\ [Next]_vars => LocalInv' /\ SharedTypes'
  <1> SUFFICES ASSUME LocalInv, SharedTypes, [Next]_vars
               PROVE  LocalInv' /\ SharedTypes'
    OBVIOUS
  <1>0. LocalTypes /\ Doing
    BY DEF LocalInv
  <1>1. ASSUME NEW t \in Threads, NEW c \in Clients[t], Invoke(t, c)
        PROVE  LocalInv' /\ SharedTypes'
    BY <1>1, InvokeKeeps DEF Invoke, SharedTypes, files
  <1>2. ASSUME NEW t \in Threads, Acquire(t) PROVE LocalInv' /\ SharedTypes'
    BY <1>2, AcquireKeeps DEF Acquire, SharedTypes, files
  <1>3. ASSUME NEW t \in Threads, Read(t) PROVE LocalInv' /\ SharedTypes'
    <2>1. /\ pc[t] = "read" /\ pc' = [pc EXCEPT ![t] = "compose"]
          /\ list' = [list EXCEPT ![t] = file.list]
          /\ UNCHANGED <<file, reciepts, stored, details, owner, call, calls,
                         saved, done>>
      BY <1>3 DEF Read, At, Goto, files
    <2>2. /\ list' \in [Threads -> Seq(Entry)]
          /\ \A u \in Threads \ {t} : list'[u] = list[u]
      BY <1>0, <2>1 DEF LocalTypes, SharedTypes
    <2>3. disturbed' \in BOOLEAN
      BY <1>3, Zenon DEF Read, SharedTypes
    <2>4. LocalInv'
      BY <1>0, <2>1, <2>2, WithinKeeps DEF LocalTypes, Requesting, Working
    <2> QED BY <2>1, <2>3, <2>4 DEF SharedTypes
  <1>4. ASSUME NEW t \in Threads, ReadThrows(t) \/ Skip(t)
        PROVE  LocalInv' /\ SharedTypes'
    BY <1>4, EndKeeps DEF ReadThrows, Skip, SharedTypes, files
  <1>15. ASSUME NEW t \in Threads, ReadUnopened(t)
         PROVE  LocalInv' /\ SharedTypes'
    <2>1. /\ pc[t] = "read" /\ pc' = [pc EXCEPT ![t] = "compose"]
          /\ list' = [list EXCEPT ![t] = <<>>]
          /\ disturbed' = TRUE
          /\ UNCHANGED <<file, reciepts, stored, details, owner, call, calls,
                         saved, done>>
      BY <1>15 DEF ReadUnopened, At, Goto, files
    <2>2. /\ list' \in [Threads -> Seq(Entry)]
          /\ \A u \in Threads \ {t} : list'[u] = list[u]
      BY <1>0, <2>1, EmptySeq DEF LocalTypes
    <2>3. LocalInv'
      BY <1>0, <2>1, <2>2, WithinKeeps DEF LocalTypes, Requesting, Working
    <2> QED BY <2>1, <2>3 DEF SharedTypes
  <1>5. ASSUME NEW t \in Threads, Compose(t) PROVE LocalInv' /\ SharedTypes'
    <2>1. /\ pc[t] = "compose" /\ pc' = [pc EXCEPT ![t] = "truncate"]
          /\ list' = [list EXCEPT ![t] = Append(list[t], Made(t))]
          /\ UNCHANGED <<file, reciepts, stored, details, owner, call, calls,
                         saved, done, disturbed>>
      BY <1>5 DEF Compose, At, Goto, files
    <2>2. list[t] \in Seq(Entry) /\ Made(t) \in Entry
      BY <1>0, <2>1, MadeIsEntry DEF LocalTypes, Requesting
    <2>3. /\ Append(list[t], Made(t)) \in Seq(Entry)
          /\ Append(list[t], Made(t)) # <<>>
      BY <2>2, AppendProperties
    <2>4. /\ list' \in [Threads -> Seq(Entry)] /\ list'[t] # <<>>
          /\ \A u \in Threads \ {t} : list'[u] = list[u]
      BY <1>0, <2>1, <2>3 DEF LocalTypes
    <2>5. LocalInv'
      BY <1>0, <2>1, <2>4, WithinKeeps DEF LocalTypes, Requesting, Working
    <2> QED BY <2>1, <2>5 DEF SharedTypes
  <1>6. ASSUME NEW t \in Threads, Truncate(t) PROVE LocalInv' /\ SharedTypes'
    <2>1. /\ pc[t] = "truncate" /\ pc' = [pc EXCEPT ![t] = "write"]
          /\ file' = Torn
          /\ UNCHANGED <<reciepts, stored, details, owner, call, calls, list,
                         saved, done, disturbed>>
      BY <1>6 DEF Truncate, At, Goto
    <2>2. list[t] # <<>>
      BY <1>0, <2>1 DEF Doing
    <2>3. LocalInv'
      BY <1>0, <2>1, <2>2, WithinKeeps DEF LocalTypes, Requesting, Working
    <2>4. file' \in [kind : {"absent", "torn", "whole"}, list : Seq(Entry)]
      BY <2>1, EmptySeq DEF Torn
    <2> QED BY <2>1, <2>3, <2>4 DEF SharedTypes
  <1>7. ASSUME NEW t \in Threads, Write(t) PROVE LocalInv' /\ SharedTypes'
    <2>1. /\ pc[t] = "write" /\ End(t)
          /\ file' = Whole(list[t])
          /\ done' = done \cup {<<t, calls[t]>>}
          /\ UNCHANGED <<reciepts, stored, details, disturbed>>
      BY <1>7 DEF Write, At
    <2>2. file' \in [kind : {"absent", "torn", "whole"}, list : Seq(Entry)]
      BY <1>0, <2>1 DEF Whole, LocalTypes
    <2>3. calls[t] \in 1..MaxCalls
      BY <1>0, <2>1, Given DEF LocalTypes, Doing
    <2> QED BY <2>1, <2>2, <2>3, EndKeeps DEF SharedTypes
  <1>8. ASSUME NEW t \in Threads, AssignName(t)
        PROVE  LocalInv' /\ SharedTypes'
    <2>1. /\ pc[t] = "assignName" /\ pc' = [pc EXCEPT ![t] = "assignAddress"]
          /\ details' = [details EXCEPT
                           ![Here(t)][call[t].product].name = call[t].supplier]
          /\ UNCHANGED <<file, reciepts, stored, owner, call, calls, list,
                         saved, done, disturbed>>
      BY <1>8 DEF AssignName, At, Goto, files
    <2>2. call[t].product \in Product /\ call[t].supplier \in Supplier
      BY <1>0, <2>1, CallFields DEF Doing, Loading
    <2>3. details' \in [Process -> [Product -> Details]]
      <3> DEFINE p == Here(t)  x == call[t].product
      <3>1. p \in Process /\ x \in Product /\ details[p][x] \in Details
        BY <2>2, Given DEF SharedTypes
      <3>2. details' = [details EXCEPT ![p][x].name = call[t].supplier]
        BY <2>1
      <3> HIDE DEF p, x
      <3>3. [details[p][x] EXCEPT !.name = call[t].supplier] \in Details
        BY <2>2, <3>1 DEF Details
      <3>4. details' = [details EXCEPT ![p][x] =
                          [details[p][x] EXCEPT !.name = call[t].supplier]]
        BY <3>1, <3>2 DEF SharedTypes
      <3> QED BY <3>1, <3>3, <3>4 DEF SharedTypes
    <2>4. LocalInv'
      BY <1>0, <2>1, WithinKeeps DEF LocalTypes, Loading, Working
    <2> QED BY <2>1, <2>3, <2>4 DEF SharedTypes
  <1>9. ASSUME NEW t \in Threads, AssignAddress(t)
        PROVE  LocalInv' /\ SharedTypes'
    <2>1. /\ pc[t] = "assignAddress" /\ End(t)
          /\ details' = [details EXCEPT
                ![Here(t)][call[t].product].address = call[t].supplier]
          /\ UNCHANGED <<file, reciepts, stored, done, disturbed>>
      BY <1>9 DEF AssignAddress, At, files
    <2>2. call[t].product \in Product /\ call[t].supplier \in Supplier
      BY <1>0, <2>1, CallFields DEF Doing, Loading
    <2>3. details' \in [Process -> [Product -> Details]]
      <3> DEFINE p == Here(t)  x == call[t].product
      <3>1. p \in Process /\ x \in Product /\ details[p][x] \in Details
        BY <2>2, Given DEF SharedTypes
      <3>2. details' = [details EXCEPT ![p][x].address = call[t].supplier]
        BY <2>1
      <3> HIDE DEF p, x
      <3>3. [details[p][x] EXCEPT !.address = call[t].supplier] \in Details
        BY <2>2, <3>1 DEF Details
      <3>4. details' = [details EXCEPT ![p][x] =
                          [details[p][x] EXCEPT !.address = call[t].supplier]]
        BY <3>1, <3>2 DEF SharedTypes
      <3> QED BY <3>1, <3>3, <3>4 DEF SharedTypes
    <2> QED BY <2>1, <2>3, EndKeeps DEF SharedTypes
  <1>10. ASSUME NEW t \in Threads, SaveName(t) PROVE LocalInv' /\ SharedTypes'
    <2>1. /\ pc[t] = "saveName" /\ pc' = [pc EXCEPT ![t] = "saveAddress"]
          /\ saved' = [saved EXCEPT ![t] = [name |-> Fields(t).name]]
          /\ UNCHANGED <<file, reciepts, stored, details, owner, call, calls,
                         list, done, disturbed>>
      BY <1>10 DEF SaveName, At, Goto, files
    <2>2. Fields(t) \in Details
      BY <1>0, <2>1, CallFields, Given DEF Doing, Saving, Fields, SharedTypes
    <2>3. [name |-> Fields(t).name] \in Named
      BY <2>2 DEF Details, Named
    <2>4. /\ saved' \in [Threads -> {NoFields} \cup Named \cup Addressed]
          /\ saved'[t] \in Named
          /\ \A u \in Threads \ {t} : saved'[u] = saved[u]
      BY <1>0, <2>1, <2>3 DEF LocalTypes
    <2>5. LocalInv'
      BY <1>0, <2>1, <2>4, WithinKeeps DEF LocalTypes, Saving, Working
    <2> QED BY <2>1, <2>5 DEF SharedTypes
  <1>11. ASSUME NEW t \in Threads, SaveAddress(t)
         PROVE  LocalInv' /\ SharedTypes'
    <2> DEFINE new == [name |-> saved[t].name, address |-> Fields(t).address]
    <2>1. /\ pc[t] = "saveAddress" /\ pc' = [pc EXCEPT ![t] = "savePhone"]
          /\ saved' = [saved EXCEPT ![t] = new]
          /\ UNCHANGED <<file, reciepts, stored, details, owner, call, calls,
                         list, done, disturbed>>
      BY <1>0, <1>11 DEF SaveAddress, At, Goto, files, LocalTypes
    <2>2. Fields(t) \in Details
      BY <1>0, <2>1, CallFields, Given DEF Doing, Saving, Fields, SharedTypes
    <2>3. new \in Addressed
      BY <1>0, <2>1, <2>2 DEF Doing, Details, Named, Addressed
    <2> HIDE DEF new
    <2>4. /\ saved' \in [Threads -> {NoFields} \cup Named \cup Addressed]
          /\ saved'[t] \in Addressed
          /\ \A u \in Threads \ {t} : saved'[u] = saved[u]
      BY <1>0, <2>1, <2>3 DEF LocalTypes
    <2>5. LocalInv'
      BY <1>0, <2>1, <2>4, WithinKeeps DEF LocalTypes, Saving, Working
    <2> QED BY <2>1, <2>5 DEF SharedTypes
  <1>16. ASSUME NEW t \in Threads, SavePhone(t)
         PROVE  LocalInv' /\ SharedTypes'
    <2> DEFINE new == [name |-> saved[t].name, address |-> saved[t].address,
                       phone |-> AddressText(Fields(t).address)]
    <2>1. /\ pc[t] = "savePhone" /\ End(t)
          /\ stored' = [stored EXCEPT ![call[t].product] = new]
          /\ UNCHANGED <<file, reciepts, details, done, disturbed>>
      BY <1>16 DEF SavePhone, At
    <2>2. call[t].product \in Product /\ saved[t] \in Addressed
      BY <1>0, <2>1, CallFields DEF Doing, Saving
    <2>3. Fields(t) \in Details
      BY <2>2, Given DEF Fields, SharedTypes
    <2>4. new \in Details
      BY <2>2, <2>3 DEF Details, Addressed, AddressText, Phone
    <2> HIDE DEF new
    <2>5. stored' \in [Product -> Details]
      BY <2>1, <2>2, <2>4 DEF SharedTypes
    <2> QED BY <2>1, <2>5, EndKeeps DEF SharedTypes
  <1>12. ASSUME NEW t \in Threads, AppendReciept(t)
         PROVE  LocalInv' /\ SharedTypes'
    <2>1. /\ pc[t] = "append" /\ End(t)
          /\ reciepts' = Append(reciepts, <<t, calls[t]>>)
          /\ done' = done \cup {<<t, calls[t]>>}
          /\ UNCHANGED <<file, stored, details, disturbed>>
      BY <1>12 DEF AppendReciept, At
    <2>2. <<t, calls[t]>> \in Threads \X (1..MaxCalls)
      BY <1>0, <2>1, Given DEF LocalTypes, Doing
    <2>3. reciepts' \in Seq(Threads \X (1..MaxCalls))
      BY <2>1, <2>2, AppendProperties DEF SharedTypes
    <2> QED BY <2>1, <2>2, <2>3, EndKeeps DEF SharedTypes
  <1>13. ASSUME NEW p \in Process, Crash(p) PROVE LocalInv' /\ SharedTypes'
    <2>1. /\ details' = [details EXCEPT ![p] = Loaded(stored)]
          /\ UNCHANGED <<file, reciepts, stored, done, disturbed>>
      BY <1>13 DEF Crash, files
    <2>2. Loaded(stored) \in [Product -> Details]
      BY DEF SharedTypes, Loaded, Details, Phone
    <2>3. details' \in [Process -> [Product -> Details]]
      BY <2>1, <2>2 DEF SharedTypes
    <2> QED BY <1>13, <2>1, <2>3, CrashKeeps DEF SharedTypes
  <1>14. CASE UNCHANGED vars
    BY <1>14 DEF vars, files, LocalInv, LocalTypes, Doing, Holding, Owning,
       SharedTypes, Here
  <1> QED
    BY <1>1, <1>2, <1>3, <1>4, <1>5, <1>6, <1>7, <1>8, <1>9, <1>10, <1>11,
       <1>12, <1>13, <1>14, <1>15, <1>16 DEF Next, Step

(* Hence this holds throughout.                                            *)
LEMMA TypesInvariant == Spec => [](LocalInv /\ SharedTypes)
  BY LocalInitially, SharedInitially, TypesInductive, PTL DEF Spec

(* All state is well typed: every requisition written is complete.         *)
THEOREM RequisitionsTypeCorrect == Spec => []TypeOK
  <1>1. LocalInv /\ SharedTypes => TypeOK
    BY TypeParts DEF LocalInv
  <1> QED BY <1>1, TypesInvariant, PTL

-----------------------------------------------------------------------------
(* Requisitions implements RequisitionLog.                                 *)

(* The basis of a process is that of its one thread in the window.         *)
BasesShape ==
    /\ \A t \in Threads : InWindow(t) => Bases[Here(t)] = Basis(t)
    /\ \A p \in Process :
         (\A t \in Threads : Here(t) = p => ~InWindow(t)) => Bases[p] = NoBasis
    /\ \A t, u \in Threads :
         InWindow(t) /\ InWindow(u) /\ Here(t) = Here(u) => t = u

(* The mutex of the requisition file makes it one thread.                  *)
LEMMA BasesAre == LocalInv => BasesShape
  <1> SUFFICES ASSUME LocalInv PROVE BasesShape
    OBVIOUS
  <1>1. ASSUME NEW t \in Threads, InWindow(t)
        PROVE  owner[Here(t)]["requisitions"] = t
    BY <1>1 DEF LocalInv, Holding, InWindow, Requesting
  <1>2. ASSUME NEW t \in Threads, InWindow(t)
        PROVE  Bases[Here(t)] = Basis(t)
    BY <1>1, <1>2, Given DEF Bases
  <1>3. ASSUME NEW p \in Process,
               \A t \in Threads : Here(t) = p => ~InWindow(t)
        PROVE  Bases[p] = NoBasis
    <2>1. owner[p]["requisitions"] \in Threads \cup {NoThread}
      BY Given DEF LocalInv, LocalTypes
    <2>2. owner[p]["requisitions"] # NoThread
            => Here(owner[p]["requisitions"]) = p
      BY Given DEF LocalInv, Owning
    <2> QED BY <1>3, <2>1, <2>2 DEF Bases
  <1>4. ASSUME NEW t \in Threads, NEW u \in Threads,
               InWindow(t), InWindow(u), Here(t) = Here(u)
        PROVE  t = u
    BY <1>1, <1>4
  <1> QED BY <1>2, <1>3, <1>4 DEF BasesShape

(* The same after a step.                                                  *)
LEMMA BasesAreNext == LocalInv' => BasesShape'
  BY BasesAre, PTL

(* A step that moves no thread into or out of the window, nor the list it  *)
(* read, shows nothing.                                                    *)
LEMMA BasesUnmoved ==
    ASSUME LocalInv, LocalInv',
           \A u \in Threads : /\ InWindow(u)' <=> InWindow(u)
                              /\ InWindow(u) => Basis(u)' = Basis(u)
    PROVE  Bases' = Bases
  <1>1. BasesShape /\ BasesShape'
    BY BasesAre, BasesAreNext
  <1>2. ASSUME NEW p \in Process PROVE Bases'[p] = Bases[p]
    <2>1. CASE \E u \in Threads : Here(u) = p /\ InWindow(u)
      <3>1. PICK u \in Threads : Here(u) = p /\ InWindow(u)
        BY <2>1
      <3> QED BY <1>1, <3>1 DEF BasesShape, Here
    <2>2. CASE \A u \in Threads : Here(u) = p => ~InWindow(u)
      BY <1>1, <2>2 DEF BasesShape, Here
    <2> QED BY <2>1, <2>2
  <1> QED BY <1>2 DEF Bases

(* A step of a thread that is in the window before it or after it.         *)
LEMMA BasesMoved ==
    ASSUME LocalInv, LocalInv', NEW t \in Threads,
           InWindow(t) \/ InWindow(t)',
           \A u \in Threads \ {t} : /\ InWindow(u)' <=> InWindow(u)
                                    /\ InWindow(u) => Basis(u)' = Basis(u),
           NEW b, InWindow(t)' => b = Basis(t)', ~InWindow(t)' => b = NoBasis
    PROVE  /\ Bases' = [Bases EXCEPT ![Here(t)] = b]
           /\ ~InWindow(t) => Bases[Here(t)] = NoBasis
  <1>1. BasesShape /\ BasesShape' /\ Here(t) \in Process
    BY BasesAre, BasesAreNext, Given
  <1>2. \A u \in Threads \ {t} :
          Here(u) = Here(t) => ~InWindow(u) /\ ~InWindow(u)'
    BY <1>1 DEF BasesShape, Here
  <1>3. Bases'[Here(t)] = b
    BY <1>1, <1>2 DEF BasesShape, Here
  <1>4. ASSUME NEW p \in Process, p # Here(t) PROVE Bases'[p] = Bases[p]
    <2>1. CASE \E u \in Threads : Here(u) = p /\ InWindow(u)
      <3>1. PICK u \in Threads : Here(u) = p /\ InWindow(u)
        BY <2>1
      <3> QED BY <1>1, <1>4, <3>1 DEF BasesShape, Here
    <2>2. CASE \A u \in Threads : Here(u) = p => ~InWindow(u)
      BY <1>1, <1>4, <2>2 DEF BasesShape, Here
    <2> QED BY <2>1, <2>2
  <1>5. ~InWindow(t) => Bases[Here(t)] = NoBasis
    BY <1>1, <1>2 DEF BasesShape
  <1> QED BY <1>3, <1>4, <1>5 DEF Bases

(* A list and the entry at its end.                                        *)
LEMMA FrontLast ==
    ASSUME NEW s \in Seq(Entry), NEW e \in Entry
    PROVE  /\ Front(Append(s, e)) = s
           /\ s # <<>> => /\ Front(s) \in Seq(Entry)
                          /\ Last(s) \in Entry
                          /\ Append(Front(s), Last(s)) = s
  <1>1. /\ Append(s, e) \in Seq(Entry)
        /\ Len(Append(s, e)) = Len(s) + 1
        /\ \A i \in 1..Len(s) : Append(s, e)[i] = s[i]
        /\ Len(s) \in Nat
    BY AppendProperties, LenProperties
  <1>2. Front(Append(s, e)) = s
    BY <1>1 DEF Front
  <1>3. ASSUME s # <<>>
        PROVE  /\ Front(s) \in Seq(Entry)
               /\ Last(s) \in Entry
               /\ Append(Front(s), Last(s)) = s
    <2>1. Len(s) \in Nat \ {0}
      BY <1>3, EmptySeq, LenProperties
    <2>2. /\ Front(s) \in Seq(Entry) /\ Len(Front(s)) = Len(s) - 1
          /\ \A i \in 1..(Len(s) - 1) : Front(s)[i] = s[i]
      <3> DEFINE n == Len(s) - 1
      <3>1. n \in Nat /\ n <= Len(s) /\ Front(s) = SubSeq(s, 1, n)
        BY <2>1 DEF Front
      <3> HIDE DEF n
      <3>2. \A i \in 1..n : s[i] \in Entry
        BY <2>1, <3>1, ElementOfSeq
      <3>3. /\ SubSeq(s, 1, n) \in Seq(Entry) /\ Len(SubSeq(s, 1, n)) = n
            /\ \A i \in 1..n : SubSeq(s, 1, n)[i] = s[i]
        BY <2>1, <3>1, <3>2, SubSeqProperties
      <3> QED BY <3>1, <3>3 DEF n
    <2>3. Last(s) = s[Len(s)] /\ Last(s) \in Entry
      BY <2>1, ElementOfSeq DEF Last
    <2> QED BY <2>1, <2>2, <2>3, AppendProperties
  <1> QED BY <1>2, <1>3

(* What a step of one thread leaves of the others.                         *)
LEMMA OthersUnmoved ==
    ASSUME NEW t \in Threads,
           \A u \in Threads \ {t} : pc'[u] = pc[u] /\ list'[u] = list[u]
    PROVE  \A u \in Threads \ {t} : /\ InWindow(u)' <=> InWindow(u)
                                    /\ InWindow(u) => Basis(u)' = Basis(u)
  BY DEF InWindow, Basis

(* A step of a thread outside the window, to a label outside it, that      *)
(* leaves the file alone shows nothing.                                    *)
LEMMA OutsideStutters ==
    ASSUME LocalInv, LocalInv', NEW t \in Threads,
           ~InWindow(t), NEW label \in Labels \ {"compose", "truncate", "write"},
           pc' = [pc EXCEPT ![t] = label],
           \A u \in Threads \ {t} : list'[u] = list[u],
           UNCHANGED file
    PROVE  UNCHANGED L!logVars
  <1>1. /\ pc'[t] = label
        /\ \A u \in Threads \ {t} : pc'[u] = pc[u]
    BY DEF LocalInv, LocalTypes
  <1>2. ~InWindow(t)'
    BY <1>1 DEF InWindow
  <1>3. Bases' = Bases
    BY <1>1, <1>2, OthersUnmoved, BasesUnmoved
  <1> QED BY <1>3 DEF L!logVars, Log

(* Read from a file that is whole.                                         *)
LEMMA LogReadable ==
    SharedTypes /\ file.kind # "torn" => Log # Unreadable
  BY Given DEF SharedTypes, Log

(* The list is read: a replacement begins.                                 *)
LEMMA ReadImplements ==
    ASSUME LocalInv, SharedTypes, LocalInv', NEW t \in Threads, Read(t)
    PROVE  L!Begin(Here(t))
  <1>1. /\ pc[t] = "read" /\ pc' = [pc EXCEPT ![t] = "compose"]
        /\ file.kind # "torn"
        /\ list' = [list EXCEPT ![t] = file.list]
        /\ UNCHANGED file
    BY DEF Read, At, Goto, files
  <1>2. /\ pc'[t] = "compose" /\ list'[t] = file.list
        /\ \A u \in Threads \ {t} : pc'[u] = pc[u] /\ list'[u] = list[u]
    BY <1>1 DEF LocalInv, LocalTypes
  <1>3. /\ ~InWindow(t) /\ InWindow(t)'
        /\ Basis(t)' = file.list /\ Log = file.list
    BY <1>1, <1>2 DEF InWindow, Basis, Log
  <1>4. /\ Bases' = [Bases EXCEPT ![Here(t)] = Log]
        /\ Bases[Here(t)] = NoBasis
    BY <1>2, <1>3, OthersUnmoved, BasesMoved
  <1>5. Log' = Log
    BY <1>1 DEF Log
  <1>6. Log # Unreadable
    BY <1>1, LogReadable
  <1> QED BY <1>4, <1>5, <1>6 DEF L!Begin

(* The file cannot be opened: the replacement begins from nothing.         *)
LEMMA ReadUnopenedImplements ==
    ASSUME LocalInv, LocalInv', NEW t \in Threads, ReadUnopened(t)
    PROVE  L!BeginUnread(Here(t))
  <1>1. /\ pc[t] = "read" /\ pc' = [pc EXCEPT ![t] = "compose"]
        /\ list' = [list EXCEPT ![t] = <<>>]
        /\ UNCHANGED file
    BY DEF ReadUnopened, At, Goto, files
  <1>2. /\ pc'[t] = "compose" /\ list'[t] = <<>>
        /\ \A u \in Threads \ {t} : pc'[u] = pc[u] /\ list'[u] = list[u]
    BY <1>1 DEF LocalInv, LocalTypes
  <1>3. ~InWindow(t) /\ InWindow(t)' /\ Basis(t)' = <<>>
    BY <1>1, <1>2 DEF InWindow, Basis
  <1>4. /\ Bases' = [Bases EXCEPT ![Here(t)] = <<>>]
        /\ Bases[Here(t)] = NoBasis
    BY <1>2, <1>3, OthersUnmoved, BasesMoved
  <1>5. Log' = Log
    BY <1>1 DEF Log
  <1> QED BY <1>4, <1>5 DEF L!BeginUnread

(* An entry is added to the local list: nothing is visible yet.            *)
LEMMA ComposeStutters ==
    ASSUME LocalInv, SharedTypes, LocalInv', NEW t \in Threads, Compose(t)
    PROVE  UNCHANGED L!logVars
  <1>1. /\ pc[t] = "compose" /\ pc' = [pc EXCEPT ![t] = "truncate"]
        /\ list' = [list EXCEPT ![t] = Append(list[t], Made(t))]
        /\ UNCHANGED file
    BY DEF Compose, At, Goto, files
  <1>2. /\ pc'[t] = "truncate" /\ list'[t] = Append(list[t], Made(t))
        /\ \A u \in Threads \ {t} : pc'[u] = pc[u] /\ list'[u] = list[u]
    BY <1>1 DEF LocalInv, LocalTypes
  <1>3. list[t] \in Seq(Entry) /\ Made(t) \in Entry
    BY <1>1, MadeIsEntry DEF LocalInv, LocalTypes, Requesting
  <1>4. Front(list'[t]) = list[t]
    BY <1>2, <1>3, FrontLast
  <1>5. InWindow(t) /\ InWindow(t)' /\ Basis(t)' = Basis(t)
    BY <1>1, <1>2, <1>4 DEF InWindow, Basis
  <1>6. Bases' = Bases
    BY <1>2, <1>5, OthersUnmoved, BasesUnmoved
  <1> QED BY <1>1, <1>6 DEF L!logVars, Log

(* The list a request is about to write, and what it read.                 *)
LEMMA BasisOfWriter ==
    ASSUME LocalInv, NEW t \in Threads, pc[t] \in {"truncate", "write"}
    PROVE  /\ InWindow(t)
           /\ Bases[Here(t)] = Front(list[t])
           /\ Bases[Here(t)] # NoBasis
           /\ Last(list[t]) \in Entry
           /\ list[t] = Append(Bases[Here(t)], Last(list[t]))
  <1>1. InWindow(t) /\ Basis(t) = Front(list[t])
    BY DEF InWindow, Basis
  <1>2. Bases[Here(t)] = Front(list[t])
    BY <1>1, BasesAre DEF BasesShape
  <1>3. list[t] \in Seq(Entry) /\ list[t] # <<>>
    BY DEF LocalInv, LocalTypes, Doing
  <1>4. /\ Front(list[t]) \in Seq(Entry) /\ Last(list[t]) \in Entry
        /\ Append(Front(list[t]), Last(list[t])) = list[t]
    <2>1. PICK e : e = Last(list[t])
      OBVIOUS
    <2>2. PICK s \in Seq(Entry) : s = list[t]
      BY <1>3
    <2>3. s[Len(s)] \in Entry
      BY <1>3, <2>2, EmptySeq, LenProperties, ElementOfSeq
    <2> QED BY <1>3, <2>2, <2>3, FrontLast
  <1> QED BY <1>1, <1>2, <1>4, Given

(* The output stream cuts the file off.                                    *)
LEMMA TruncateImplements ==
    ASSUME LocalInv, LocalInv', NEW t \in Threads, Truncate(t)
    PROVE  L!Truncate(Here(t))
  <1>1. /\ pc[t] = "truncate" /\ pc' = [pc EXCEPT ![t] = "write"]
        /\ file' = Torn
        /\ UNCHANGED list
    BY DEF Truncate, At, Goto
  <1>2. /\ pc'[t] = "write"
        /\ \A u \in Threads \ {t} : pc'[u] = pc[u] /\ list'[u] = list[u]
    BY <1>1 DEF LocalInv, LocalTypes
  <1>3. InWindow(t) /\ InWindow(t)' /\ Basis(t)' = Basis(t)
    BY <1>1, <1>2 DEF InWindow, Basis
  <1>4. Bases' = Bases
    BY <1>2, <1>3, OthersUnmoved, BasesUnmoved
  <1>5. Log' = Unreadable
    BY <1>1 DEF Log, Torn
  <1> QED BY <1>1, <1>4, <1>5, BasisOfWriter DEF L!Truncate

(* The list is written: it extends what the process had read.              *)
LEMMA WriteImplements ==
    ASSUME LocalInv, LocalInv', NEW t \in Threads, Write(t)
    PROVE  L!Commit(Here(t), Last(list[t]))
  <1>1. /\ pc[t] = "write" /\ pc' = [pc EXCEPT ![t] = "idle"]
        /\ file' = Whole(list[t])
        /\ list' = [list EXCEPT ![t] = <<>>]
    BY DEF Write, End, At, Goto
  <1>2. /\ pc'[t] = "idle"
        /\ \A u \in Threads \ {t} : pc'[u] = pc[u] /\ list'[u] = list[u]
    BY <1>1 DEF LocalInv, LocalTypes
  <1>3. InWindow(t) /\ ~InWindow(t)'
    BY <1>1, <1>2 DEF InWindow
  <1>4. Bases' = [Bases EXCEPT ![Here(t)] = NoBasis]
    BY <1>2, <1>3, OthersUnmoved, BasesMoved
  <1>5. Log' = list[t]
    BY <1>1 DEF Log, Whole
  <1> QED BY <1>1, <1>4, <1>5, BasisOfWriter DEF L!Commit

(* A request that cannot open the file to write it abandons it.            *)
LEMMA SkipImplements ==
    ASSUME LocalInv, LocalInv', NEW t \in Threads, Skip(t)
    PROVE  L!Abandon(Here(t)) \/ UNCHANGED L!logVars
  <1>1. /\ pc[t] \in {"truncate", "assignName", "savePhone", "append"}
        /\ pc' = [pc EXCEPT ![t] = "idle"]
        /\ list' = [list EXCEPT ![t] = <<>>]
        /\ UNCHANGED file
    BY DEF Skip, End, Goto, files
  <1>2. /\ pc'[t] = "idle"
        /\ \A u \in Threads \ {t} : pc'[u] = pc[u] /\ list'[u] = list[u]
    BY <1>1 DEF LocalInv, LocalTypes
  <1>3. Log' = Log
    BY <1>1 DEF Log
  <1>4. CASE pc[t] = "truncate"
    <2>1. InWindow(t) /\ ~InWindow(t)'
      BY <1>2, <1>4 DEF InWindow
    <2>2. Bases' = [Bases EXCEPT ![Here(t)] = NoBasis]
      BY <1>2, <2>1, OthersUnmoved, BasesMoved
    <2> QED BY <1>3, <2>2 DEF L!Abandon
  <1>5. CASE pc[t] # "truncate"
    BY <1>1, <1>2, <1>5, OutsideStutters DEF InWindow, Labels
  <1> QED BY <1>4, <1>5

(* A process that is killed abandons what it was replacing.                *)
LEMMA CrashImplements ==
    ASSUME LocalInv, LocalInv', NEW p \in Process, Crash(p)
    PROVE  L!Abandon(p)
  <1>1. /\ pc' = [t \in Threads |-> IF Here(t) = p THEN "idle" ELSE pc[t]]
        /\ list' = [t \in Threads |-> IF Here(t) = p THEN <<>> ELSE list[t]]
        /\ UNCHANGED file
    BY DEF Crash, files
  <1>2. BasesShape /\ BasesShape'
    BY BasesAre, BasesAreNext
  <1>3. Bases'[p] = NoBasis
    BY <1>1, <1>2 DEF BasesShape, InWindow, Here
  <1>4. ASSUME NEW q \in Process, q # p PROVE Bases'[q] = Bases[q]
    <2>1. ASSUME NEW u \in Threads, Here(u) = q
          PROVE  pc'[u] = pc[u] /\ list'[u] = list[u]
      BY <1>1, <1>4, <2>1
    <2>2. CASE \E u \in Threads : Here(u) = q /\ InWindow(u)
      <3>1. PICK u \in Threads : Here(u) = q /\ InWindow(u)
        BY <2>2
      <3>2. InWindow(u)' /\ Basis(u)' = Basis(u)
        BY <2>1, <3>1 DEF InWindow, Basis
      <3> QED BY <1>2, <3>1, <3>2 DEF BasesShape, Here
    <2>3. CASE \A u \in Threads : Here(u) = q => ~InWindow(u)
      <3>1. \A u \in Threads : Here(u) = q => ~InWindow(u)'
        BY <2>1, <2>3 DEF InWindow
      <3> QED BY <1>2, <2>3, <3>1 DEF BasesShape, Here
    <2> QED BY <2>2, <2>3
  <1>5. Bases' = [Bases EXCEPT ![p] = NoBasis]
    BY <1>3, <1>4 DEF Bases
  <1>6. Log' = Log
    BY <1>1 DEF Log
  <1> QED BY <1>5, <1>6 DEF L!Abandon

(* Every step maps to a step or a stutter.                                 *)
LEMMA StepsImplement ==
    ASSUME LocalInv, SharedTypes, LocalInv', [Next]_vars
    PROVE  [L!Next]_(L!logVars)
  <1>0. /\ LocalTypes
        /\ \A t \in Threads : Here(t) \in Process
    BY Given DEF LocalInv
  <1>1. ASSUME NEW t \in Threads, NEW c \in Clients[t], Invoke(t, c)
        PROVE  UNCHANGED L!logVars
    <2>1. /\ pc[t] = "idle" /\ pc' = [pc EXCEPT ![t] = "acquire"]
          /\ UNCHANGED <<list, file>>
      BY <1>1 DEF Invoke, At, Goto, files
    <2> QED BY <2>1, OutsideStutters DEF InWindow, Labels
  <1>2. ASSUME NEW t \in Threads, Acquire(t) PROVE UNCHANGED L!logVars
    <2>1. /\ pc[t] = "acquire" /\ call[t] \in Call
          /\ UNCHANGED <<list, file>>
      BY <1>2 DEF Acquire, At, files, LocalInv, Doing
    <2>2. PICK label : /\ pc' = [pc EXCEPT ![t] = label]
                       /\ label \in {"acquire", FirstStep(call[t].op)}
      BY <1>2 DEF Acquire, Goto
    <2>3. label \in Labels \ {"compose", "truncate", "write"}
      BY <2>1, <2>2, CallFields DEF FirstStep, Labels, Working, Requesting,
         Loading, Saving
    <2> QED BY <2>1, <2>2, <2>3, OutsideStutters DEF InWindow
  <1>3. ASSUME NEW t \in Threads, Read(t) PROVE L!Next
    BY <1>0, <1>3, ReadImplements DEF L!Next
  <1>4. ASSUME NEW t \in Threads,
               \/ ReadThrows(t) \/ AssignAddress(t) \/ SavePhone(t)
               \/ AppendReciept(t)
        PROVE  UNCHANGED L!logVars
    <2>1. /\ pc[t] \in {"read", "assignAddress", "savePhone", "append"}
          /\ pc' = [pc EXCEPT ![t] = "idle"]
          /\ list' = [list EXCEPT ![t] = <<>>]
          /\ UNCHANGED file
      BY <1>4 DEF ReadThrows, AssignAddress, SavePhone, AppendReciept, At,
         End, Goto, files
    <2>2. \A u \in Threads \ {t} : list'[u] = list[u]
      BY <1>0, <2>1 DEF LocalTypes
    <2> QED BY <2>1, <2>2, OutsideStutters DEF InWindow, Labels
  <1>5. ASSUME NEW t \in Threads, AssignName(t) \/ SaveName(t) \/ SaveAddress(t)
        PROVE  UNCHANGED L!logVars
    <2>1. /\ pc[t] \in {"assignName", "saveName", "saveAddress"}
          /\ \/ pc' = [pc EXCEPT ![t] = "assignAddress"]
             \/ pc' = [pc EXCEPT ![t] = "saveAddress"]
             \/ pc' = [pc EXCEPT ![t] = "savePhone"]
          /\ UNCHANGED <<list, file>>
      BY <1>5 DEF AssignName, SaveName, SaveAddress, At, Goto, files
    <2> QED BY <2>1, OutsideStutters DEF InWindow, Labels, Working, Loading,
               Saving
  <1>6. ASSUME NEW t \in Threads, Compose(t) PROVE UNCHANGED L!logVars
    BY <1>6, ComposeStutters
  <1>7. ASSUME NEW t \in Threads, Truncate(t) PROVE L!Next
    BY <1>0, <1>7, TruncateImplements DEF L!Next
  <1>8. ASSUME NEW t \in Threads, Write(t) PROVE L!Next
    <2>1. L!Commit(Here(t), Last(list[t]))
      BY <1>8, WriteImplements
    <2>2. Last(list[t]) \in Entry
      BY <1>8, BasisOfWriter DEF Write, At
    <2> QED BY <1>0, <2>1, <2>2 DEF L!Next
  <1>9. ASSUME NEW p \in Process, Crash(p) PROVE L!Next
    BY <1>9, CrashImplements DEF L!Next
  <1>11. ASSUME NEW t \in Threads, ReadUnopened(t) PROVE L!Next
    BY <1>0, <1>11, ReadUnopenedImplements DEF L!Next
  <1>12. ASSUME NEW t \in Threads, Skip(t)
         PROVE  L!Next \/ UNCHANGED L!logVars
    BY <1>0, <1>12, SkipImplements DEF L!Next
  <1>10. CASE UNCHANGED vars
    BY <1>10 DEF vars, files, L!logVars, Log, Bases, InWindow, Basis
  <1> QED
    BY <1>1, <1>2, <1>3, <1>4, <1>5, <1>6, <1>7, <1>8, <1>9, <1>10, <1>11,
       <1>12 DEF Next, Step

(* At first the list is empty and nobody is replacing it.                  *)
LEMMA LogInitially == Init => L!Init
  <1> SUFFICES ASSUME Init PROVE L!Init
    OBVIOUS
  <1>1. Log \in Seq(Entry)
    BY EmptySeq DEF Init, Log
  <1>2. \A p \in Process : \A t \in Threads : ~InWindow(t)
    BY DEF Init, InWindow
  <1>3. \A p \in Process : Bases[p] = NoBasis
    BY <1>2, LocalInitially, BasesAre DEF BasesShape
  <1>4. Bases = [p \in Process |-> NoBasis]
    BY <1>3 DEF Bases
  <1> QED BY <1>1, <1>4 DEF L!Init

(* The two mutexes of Product::request make each process one reader and    *)
(* replacer of the stored list: whatever its threads, loads, saves and     *)
(* crashes do, the list changes as RequisitionLog says and no other way    *)
(* (BindingsImpl.cpp:527).                                                 *)
THEOREM RequestsReplaceOneAtATime == Spec => ImplementsRequisitionLog
  <1>1. LocalInv /\ SharedTypes /\ LocalInv' /\ [Next]_vars
          => [L!Next]_(L!logVars)
    BY StepsImplement
  <1> QED BY LogInitially, TypesInvariant, <1>1, PTL
          DEF Spec, ImplementsRequisitionLog, L!Spec

-----------------------------------------------------------------------------
(* What is stored of a supplier is of one version.                         *)

Complete(d) == d.name = d.address
Asked(d) == Complete(d) /\ d.phone = NoPhone
Filed(d) == Complete(d) /\ d.phone = AddressText(d.address)

(* No product in memory has a telephone number.                            *)
PhonesInv ==
    \A p \in Process, x \in Product : details[p][x].phone = NoPhone

(* The details of a product are of two versions only while a thread of     *)
(* that process is between the two assignments of that product.            *)
DetailsInv ==
    \A p \in Process, x \in Product :
        \/ Complete(details[p][x])
        \/ \E t \in Threads : /\ Here(t) = p /\ pc[t] = "assignAddress"
                              /\ call[t].product = x

(* What a thread has assigned or read, nobody has replaced since.          *)
NamesInv ==
    \A t \in Threads :
        /\ pc[t] = "assignAddress" => Fields(t).name = call[t].supplier
        /\ pc[t] \in {"saveAddress", "savePhone"}
             => Fields(t).name = saved[t].name
        /\ pc[t] = "savePhone" => Fields(t).address = saved[t].address

(* Whatever is stored or about to be stored is complete.                   *)
StoredInv ==
    /\ \A x \in Product : Filed(stored[x])
    /\ \A i \in DOMAIN file.list : Asked(file.list[i].supplier)
    /\ \A t \in Threads :
         \A i \in DOMAIN list[t] : Asked(list[t][i].supplier)

SuppliersInv == DetailsInv /\ NamesInv /\ StoredInv

(* The nodes are made without telephone number, and no assignment brings   *)
(* one.                                                                    *)
LEMMA PhonesInitially == Init => PhonesInv
  BY DEF Init, PhonesInv, InMemory

(* Every step keeps it so.                                                 *)
LEMMA PhonesInductive ==
    ASSUME LocalInv, SharedTypes, PhonesInv, [Next]_vars
    PROVE  PhonesInv'
  <1>1. CASE UNCHANGED details
    BY <1>1 DEF PhonesInv
  <1>2. ASSUME NEW t \in Threads, AssignName(t) \/ AssignAddress(t)
        PROVE  PhonesInv'
    <2> DEFINE p == Here(t)  x == call[t].product  new == call[t].supplier
    <2>1. /\ pc[t] \in Loading
          /\ \/ details' = [details EXCEPT ![p][x].name = new]
             \/ details' = [details EXCEPT ![p][x].address = new]
      BY <1>2 DEF AssignName, AssignAddress, At, Loading
    <2>2. p \in Process /\ x \in Product
      BY <2>1, CallFields, Given DEF LocalInv, Doing, Loading
    <2> HIDE DEF p, x, new
    <2>3. /\ details'[p][x].phone = details[p][x].phone
          /\ \A q \in Process, y \in Product :
               details'[q][y] = details[q][y] \/ (q = p /\ y = x)
      <3>1. CASE details' = [details EXCEPT ![p][x].name = new]
        BY <2>2, <3>1 DEF SharedTypes, Details
      <3>2. CASE details' = [details EXCEPT ![p][x].address = new]
        BY <2>2, <3>2 DEF SharedTypes, Details
      <3> QED BY <2>1, <3>1, <3>2
    <2> QED BY <2>3 DEF PhonesInv
  <1>3. ASSUME NEW p \in Process, Crash(p) PROVE PhonesInv'
    <2>1. details' = [details EXCEPT ![p] = Loaded(stored)]
      BY <1>3 DEF Crash
    <2>2. \A x \in Product : Loaded(stored)[x].phone = NoPhone
      BY DEF Loaded, SharedTypes, Details
    <2> QED BY <2>1, <2>2 DEF PhonesInv, SharedTypes
  <1> QED
    BY <1>1, <1>2, <1>3 DEF Next, Step, Invoke, Acquire, Read, ReadUnopened,
       ReadThrows, Compose, Truncate, Write, SaveName, SaveAddress, SavePhone,
       AppendReciept, Skip, files, vars

(* Hence this holds throughout.                                            *)
LEMMA PhonesInvariant == Spec => []PhonesInv
  <1>1. LocalInv /\ SharedTypes /\ PhonesInv /\ [Next]_vars => PhonesInv'
    BY PhonesInductive
  <1> QED BY <1>1, PhonesInitially, TypesInvariant, PTL DEF Spec

(* Mutexes make the threads of one process take turns.                     *)
LEMMA Exclusion ==
    ASSUME LocalInv, NEW t \in Threads, NEW u \in Threads, Here(t) = Here(u)
    PROVE  /\ pc[t] \in Loading \cup Saving /\ pc[u] \in Loading \cup Saving
                => t = u
           /\ pc[t] \in Requesting /\ pc[u] \in Loading
                => call[t].product # call[u].product
  <1>1. \A v \in Threads :
          /\ pc[v] \in Loading \cup Saving => owner[Here(v)]["list"] = v
          /\ pc[v] \in Requesting \cup Loading
               => owner[Here(v)][call[v].product] = v
    BY DEF LocalInv, Holding
  <1>2. ASSUME pc[t] \in Loading \cup Saving, pc[u] \in Loading \cup Saving
        PROVE  t = u
    BY <1>1, <1>2
  <1>3. ASSUME pc[t] \in Requesting, pc[u] \in Loading,
               call[t].product = call[u].product
        PROVE  FALSE
    <2>1. t = u
      BY <1>1, <1>3
    <2> QED BY <1>3, <2>1 DEF Requesting, Loading
  <1> QED BY <1>2, <1>3

(* A step of a thread that is not between two assignments and does not     *)
(* come to be keeps the details.                                           *)
LEMMA DetailsUnmoved ==
    ASSUME DetailsInv, NamesInv, NEW t \in Threads, UNCHANGED details,
           pc[t] # "assignAddress",
           pc'[t] \notin {"assignAddress", "saveAddress", "savePhone"},
           \A u \in Threads \ {t} : /\ pc'[u] = pc[u] /\ call'[u] = call[u]
                                    /\ saved'[u] = saved[u]
    PROVE  DetailsInv' /\ NamesInv'
  <1>1. DetailsInv'
    BY DEF DetailsInv, Complete, Here
  <1>2. NamesInv'
    BY DEF NamesInv, Fields, Here
  <1> QED BY <1>1, <1>2

(* The local list of a call that ends is gone.                             *)
LEMMA EndStored ==
    ASSUME LocalInv, StoredInv, NEW t \in Threads, End(t)
    PROVE  /\ \A u \in Threads :
                \A i \in DOMAIN list'[u] : Asked(list'[u][i].supplier)
           /\ pc'[t] = "idle"
           /\ \A u \in Threads \ {t} : /\ pc'[u] = pc[u] /\ call'[u] = call[u]
                                       /\ saved'[u] = saved[u]
  <1>1. /\ pc' = [pc EXCEPT ![t] = "idle"]
        /\ call' = [call EXCEPT ![t] = NoCall]
        /\ list' = [list EXCEPT ![t] = <<>>]
        /\ saved' = [saved EXCEPT ![t] = NoFields]
    BY DEF End, Goto
  <1>2. list'[t] = <<>> /\ \A u \in Threads \ {t} : list'[u] = list[u]
    BY <1>1 DEF LocalInv, LocalTypes
  <1>3. \A u \in Threads :
          \A i \in DOMAIN list'[u] : Asked(list'[u][i].supplier)
    BY <1>2 DEF StoredInv
  <1> QED BY <1>1, <1>3 DEF LocalInv, LocalTypes

(* A request reads a supplier that is complete: the mutex of its product   *)
(* keeps a load out.                                                       *)
LEMMA MadeAsked ==
    ASSUME LocalInv, DetailsInv, PhonesInv, NEW t \in Threads,
           pc[t] \in Requesting
    PROVE  Asked(Made(t).supplier)
  <1>1. call[t].product \in Product /\ Here(t) \in Process
    BY CallFields, Given DEF LocalInv, Doing, Requesting
  <1>2. ASSUME NEW u \in Threads, Here(u) = Here(t), pc[u] = "assignAddress",
               call[u].product = call[t].product
        PROVE  FALSE
    BY <1>2, Exclusion DEF Loading
  <1>3. Complete(details[Here(t)][call[t].product])
    BY <1>1, <1>2 DEF DetailsInv
  <1> QED BY <1>1, <1>3 DEF Made, Asked, PhonesInv

(* At first there is one version.                                          *)
LEMMA SuppliersInitially == Init => SuppliersInv
  <1> SUFFICES ASSUME Init PROVE SuppliersInv
    OBVIOUS
  <1>1. PICK s \in Supplier :
          /\ stored = [x \in Product |-> AsSaved(s)]
          /\ details = [p \in Process |-> [x \in Product |-> InMemory(s)]]
    BY DEF Init
  <1>2. DetailsInv
    BY <1>1 DEF DetailsInv, Complete, InMemory
  <1>3. NamesInv
    BY DEF Init, NamesInv
  <1>4. StoredInv
    BY <1>1 DEF Init, StoredInv, Filed, Complete, AsSaved
  <1> QED BY <1>2, <1>3, <1>4 DEF SuppliersInv

(* Every step keeps suppliers whole.                                       *)
LEMMA SuppliersInductive ==
    ASSUME LocalInv, SharedTypes, PhonesInv, SuppliersInv, [Next]_vars
    PROVE  SuppliersInv'
  <1>0. /\ LocalTypes /\ Doing
        /\ DetailsInv /\ NamesInv /\ StoredInv
        /\ \A t \in Threads : Here(t) \in Process
    BY Given DEF LocalInv, SuppliersInv
  <1>1. ASSUME NEW t \in Threads, NEW c \in Clients[t], Invoke(t, c)
        PROVE  SuppliersInv'
    <2>1. /\ pc[t] = "idle" /\ pc' = [pc EXCEPT ![t] = "acquire"]
          /\ call' = [call EXCEPT ![t] = c]
          /\ UNCHANGED <<file, stored, details, list, saved>>
      BY <1>1 DEF Invoke, At, Goto, files
    <2>2. /\ pc'[t] = "acquire"
          /\ \A u \in Threads \ {t} : pc'[u] = pc[u] /\ call'[u] = call[u]
      BY <1>0, <2>1 DEF LocalTypes
    <2>3. DetailsInv' /\ NamesInv'
      BY <1>0, <2>1, <2>2, DetailsUnmoved
    <2> QED BY <1>0, <2>1, <2>3 DEF SuppliersInv, StoredInv
  <1>2. ASSUME NEW t \in Threads, Acquire(t) PROVE SuppliersInv'
    <2>1. /\ pc[t] = "acquire" /\ call[t] \in Call
          /\ UNCHANGED <<file, stored, details, call, list, saved>>
      BY <1>0, <1>2 DEF Acquire, At, files, Doing
    <2>2. PICK label : /\ pc' = [pc EXCEPT ![t] = label]
                       /\ label \in {"acquire", FirstStep(call[t].op)}
      BY <1>2 DEF Acquire, Goto
    <2>3. label \notin {"assignAddress", "saveAddress", "savePhone"}
      BY <2>1, <2>2, CallFields DEF FirstStep
    <2>4. /\ pc'[t] = label
          /\ \A u \in Threads \ {t} : pc'[u] = pc[u]
      BY <1>0, <2>2 DEF LocalTypes
    <2>5. DetailsInv' /\ NamesInv'
      BY <1>0, <2>1, <2>3, <2>4, DetailsUnmoved
    <2> QED BY <1>0, <2>1, <2>5 DEF SuppliersInv, StoredInv
  <1>3. ASSUME NEW t \in Threads,
               Read(t) \/ ReadUnopened(t) \/ Compose(t) \/ Truncate(t)
        PROVE  SuppliersInv'
    <2>1. /\ pc[t] \in {"read", "compose", "truncate"}
          /\ \/ pc' = [pc EXCEPT ![t] = "compose"]
             \/ pc' = [pc EXCEPT ![t] = "truncate"]
             \/ pc' = [pc EXCEPT ![t] = "write"]
          /\ UNCHANGED <<stored, details, call, saved>>
          /\ file' \in {file, Torn}
      BY <1>3 DEF Read, ReadUnopened, Compose, Truncate, At, Goto, files
    <2>2. /\ pc'[t] \in {"compose", "truncate", "write"}
          /\ \A u \in Threads \ {t} : pc'[u] = pc[u]
      BY <1>0, <2>1 DEF LocalTypes
    <2>3. DetailsInv' /\ NamesInv'
      BY <1>0, <2>1, <2>2, DetailsUnmoved
    <2>4. \A i \in DOMAIN file'.list : Asked(file'.list[i].supplier)
      BY <1>0, <2>1 DEF StoredInv, Torn
    <2>5. CASE Read(t)
      <3>1. list' = [list EXCEPT ![t] = file.list]
        BY <2>5 DEF Read
      <3>2. \A u \in Threads : list'[u] = IF u = t THEN file.list ELSE list[u]
        BY <1>0, <3>1 DEF LocalTypes
      <3> QED BY <1>0, <2>1, <2>3, <2>4, <3>2 DEF SuppliersInv, StoredInv
    <2>8. CASE ReadUnopened(t)
      <3>1. list' = [list EXCEPT ![t] = <<>>]
        BY <2>8 DEF ReadUnopened
      <3>2. \A u \in Threads : list'[u] = IF u = t THEN <<>> ELSE list[u]
        BY <1>0, <3>1 DEF LocalTypes
      <3> QED BY <1>0, <2>1, <2>3, <2>4, <3>2 DEF SuppliersInv, StoredInv
    <2>6. CASE Compose(t)
      <3>1. list' = [list EXCEPT ![t] = Append(list[t], Made(t))]
        BY <2>6 DEF Compose
      <3>2. /\ list'[t] = Append(list[t], Made(t))
            /\ \A u \in Threads \ {t} : list'[u] = list[u]
        BY <1>0, <3>1 DEF LocalTypes
      <3>3. /\ list[t] \in Seq(Entry) /\ Made(t) \in Entry
            /\ Asked(Made(t).supplier)
        BY <1>0, <2>1, MadeIsEntry, MadeAsked DEF LocalTypes, Requesting
      <3>4. \A i \in DOMAIN list'[t] : Asked(list'[t][i].supplier)
        <4> DEFINE m == Made(t)  s == list[t]  longer == Append(s, m)
        <4>1. /\ s \in Seq(Entry) /\ m \in Entry /\ Asked(m.supplier)
              /\ list'[t] = longer
              /\ \A i \in DOMAIN s : Asked(s[i].supplier)
          BY <1>0, <3>2, <3>3 DEF StoredInv
        <4> HIDE DEF m, s
        <4>2. /\ Len(s) \in Nat /\ DOMAIN s = 1..Len(s)
              /\ DOMAIN longer = 1..(Len(s) + 1)
              /\ longer[Len(s) + 1] = m
              /\ \A i \in 1..Len(s) : longer[i] = s[i]
          BY <4>1, AppendProperties, LenProperties
        <4> HIDE DEF longer
        <4>3. ASSUME NEW i \in 1..(Len(s) + 1)
              PROVE  Asked(longer[i].supplier)
          <5>1. i \in 1..Len(s) \/ i = Len(s) + 1
            BY <4>2
          <5> QED BY <4>1, <4>2, <5>1
        <4> QED BY <4>1, <4>2, <4>3
      <3> QED BY <1>0, <2>1, <2>3, <2>4, <3>2, <3>4
              DEF SuppliersInv, StoredInv
    <2>7. CASE Truncate(t)
      BY <1>0, <2>1, <2>3, <2>4, <2>7 DEF Truncate, SuppliersInv, StoredInv
    <2> QED BY <1>3, <2>5, <2>6, <2>7, <2>8
  <1>4. ASSUME NEW t \in Threads,
               \/ ReadThrows(t) \/ Write(t) \/ SavePhone(t)
               \/ AppendReciept(t) \/ Skip(t)
        PROVE  SuppliersInv'
    <2>1. /\ pc[t] # "assignAddress"
          /\ End(t)
          /\ UNCHANGED details
      BY <1>4 DEF ReadThrows, Write, SavePhone, AppendReciept, Skip, At, files
    <2>2. /\ \A u \in Threads :
               \A i \in DOMAIN list'[u] : Asked(list'[u][i].supplier)
          /\ DetailsInv' /\ NamesInv'
      BY <1>0, <2>1, EndStored, DetailsUnmoved
    <2>3. \A i \in DOMAIN file'.list : Asked(file'.list[i].supplier)
      <3>1. file' = file \/ file'.list = list[t]
        BY <1>4 DEF ReadThrows, Write, SavePhone, AppendReciept, Skip, files,
           Whole
      <3> QED BY <1>0, <3>1 DEF StoredInv
    <2>4. \A x \in Product : Filed(stored'[x])
      <3>1. CASE SavePhone(t)
        <4> DEFINE x == call[t].product
                   new == [name |-> saved[t].name,
                           address |-> saved[t].address,
                           phone |-> AddressText(Fields(t).address)]
        <4>1. pc[t] = "savePhone" /\ stored' = [stored EXCEPT ![x] = new]
          BY <3>1 DEF SavePhone, At
        <4>2. /\ x \in Product
              /\ Fields(t).name = saved[t].name
              /\ Fields(t).address = saved[t].address
          BY <1>0, <4>1, CallFields DEF Doing, NamesInv, Saving
        <4>3. ASSUME NEW u \in Threads, Here(u) = Here(t),
                     pc[u] = "assignAddress"
              PROVE  FALSE
          BY <4>1, <4>3, Exclusion DEF Loading, Saving
        <4>4. Complete(Fields(t))
          BY <1>0, <4>2, <4>3 DEF DetailsInv, Fields
        <4>5. Filed(new)
          BY <4>2, <4>4 DEF Complete, Filed
        <4> HIDE DEF x, new
        <4>6. \A y \in Product : stored'[y] \in {new, stored[y]}
          BY <4>1 DEF SharedTypes
        <4> QED BY <1>0, <4>5, <4>6 DEF StoredInv
      <3>2. CASE ~SavePhone(t)
        BY <1>0, <1>4, <3>2 DEF ReadThrows, Write, AppendReciept, Skip, files,
           StoredInv
      <3> QED BY <3>1, <3>2
    <2> QED BY <2>2, <2>3, <2>4 DEF SuppliersInv, StoredInv
  <1>5. ASSUME NEW t \in Threads, AssignName(t) PROVE SuppliersInv'
    <2> DEFINE p == Here(t)  x == call[t].product  new == call[t].supplier
    <2>1. /\ pc[t] = "assignName"
          /\ pc' = [pc EXCEPT ![t] = "assignAddress"]
          /\ details' = [details EXCEPT ![p][x].name = new]
          /\ UNCHANGED <<file, stored, call, list, saved>>
      BY <1>5 DEF AssignName, At, Goto, files
    <2>2. p \in Process /\ x \in Product
      BY <1>0, <2>1, CallFields DEF Doing, Loading
    <2>3. /\ pc'[t] = "assignAddress"
          /\ \A u \in Threads \ {t} : pc'[u] = pc[u]
      BY <1>0, <2>1 DEF LocalTypes
    <2>4. \A u \in Threads \ {t} :
            Here(u) = p => pc[u] \notin {"assignAddress"} \cup Saving
      BY <2>1, Exclusion DEF Loading, Saving
    <2> HIDE DEF p, x
    <2>5. /\ details'[p][x].name = new
          /\ \A q \in Process, y \in Product :
               details'[q][y] = details[q][y] \/ (q = p /\ y = x)
      BY <2>1, <2>2 DEF SharedTypes, Details
    <2>6. DetailsInv'
      <3> SUFFICES ASSUME NEW q \in Process, NEW y \in Product,
                          ~Complete(details'[q][y])
                   PROVE  \E u \in Threads : /\ Here(u) = q
                                             /\ pc'[u] = "assignAddress"
                                             /\ call[u].product = y
        BY <2>1 DEF DetailsInv, Complete, Here
      <3>1. CASE q = p /\ y = x
        BY <2>3, <3>1 DEF p, x
      <3>2. CASE ~(q = p /\ y = x)
        <4>1. PICK u \in Threads : /\ Here(u) = q /\ pc[u] = "assignAddress"
                                   /\ call[u].product = y
          BY <1>0, <2>5, <3>2 DEF DetailsInv
        <4>2. u # t
          BY <2>1, <4>1
        <4> QED BY <2>3, <4>1, <4>2
      <3> QED BY <3>1, <3>2
    <2>7. NamesInv'
      <3>1. ASSUME NEW u \in Threads,
                   pc'[u] \in {"assignAddress", "saveAddress", "savePhone"},
                   u # t
            PROVE  Fields(u)' = Fields(u)
        <4>1. Here(u) \in Process \ {p} /\ pc[u] \in Loading \cup Saving
          BY <1>0, <2>3, <2>4, <3>1 DEF Loading, Saving
        <4>2. call[u].product \in Product
          BY <1>0, <4>1, CallFields DEF Doing, Loading, Saving
        <4> QED BY <2>1, <2>5, <4>1, <4>2 DEF Fields, Here
      <3>2. Fields(t)'.name = call[t].supplier
        BY <2>1, <2>5 DEF p, x, Fields, Here
      <3>3. ASSUME NEW u \in Threads,
                   pc'[u] \in {"assignAddress", "saveAddress", "savePhone"}
            PROVE  /\ pc'[u] = "assignAddress"
                        => Fields(u)'.name = call[u].supplier
                   /\ pc'[u] \in {"saveAddress", "savePhone"}
                        => Fields(u)'.name = saved[u].name
                   /\ pc'[u] = "savePhone"
                        => Fields(u)'.address = saved[u].address
        <4>1. CASE u = t
          BY <2>3, <3>2, <4>1
        <4>2. CASE u # t
          BY <1>0, <2>3, <3>1, <3>3, <4>2 DEF NamesInv
        <4> QED BY <4>1, <4>2
      <3> QED BY <2>1, <3>3 DEF NamesInv, Here
    <2> QED BY <1>0, <2>1, <2>6, <2>7 DEF SuppliersInv, StoredInv
  <1>6. ASSUME NEW t \in Threads, AssignAddress(t) PROVE SuppliersInv'
    <2> DEFINE p == Here(t)  x == call[t].product  new == call[t].supplier
    <2>1. /\ pc[t] = "assignAddress" /\ End(t)
          /\ details' = [details EXCEPT ![p][x].address = new]
          /\ UNCHANGED <<file, reciepts, stored>>
      BY <1>6 DEF AssignAddress, At, files
    <2>2. /\ p \in Process /\ x \in Product
          /\ details[p][x].name = new
      BY <1>0, <2>1, CallFields DEF Doing, Loading, NamesInv, Fields
    <2>3. /\ \A u \in Threads :
               \A i \in DOMAIN list'[u] : Asked(list'[u][i].supplier)
          /\ pc'[t] = "idle"
          /\ \A u \in Threads \ {t} : /\ pc'[u] = pc[u] /\ call'[u] = call[u]
                                      /\ saved'[u] = saved[u]
      BY <1>0, <2>1, EndStored
    <2>4. \A u \in Threads \ {t} :
            Here(u) = p => pc[u] \notin {"assignAddress"} \cup Saving
      BY <2>1, Exclusion DEF Loading, Saving
    <2> HIDE DEF p, x, new
    <2>5. /\ details'[p][x].name = new /\ details'[p][x].address = new
          /\ \A q \in Process, y \in Product :
               details'[q][y] = details[q][y] \/ (q = p /\ y = x)
      BY <2>1, <2>2 DEF SharedTypes, Details
    <2>6. DetailsInv'
      <3> SUFFICES ASSUME NEW q \in Process, NEW y \in Product,
                          ~Complete(details'[q][y])
                   PROVE  \E u \in Threads : /\ Here(u) = q
                                             /\ pc'[u] = "assignAddress"
                                             /\ call'[u].product = y
        BY DEF DetailsInv, Complete, Here
      <3>1. ~(q = p /\ y = x)
        BY <2>5 DEF Complete
      <3>2. PICK u \in Threads : /\ Here(u) = q /\ pc[u] = "assignAddress"
                                 /\ call[u].product = y
        BY <1>0, <2>5, <3>1 DEF DetailsInv
      <3>3. u # t
        BY <3>1, <3>2 DEF p, x
      <3> QED BY <2>3, <3>2, <3>3
    <2>7. NamesInv'
      <3>1. ASSUME NEW u \in Threads,
                   pc'[u] \in {"assignAddress", "saveAddress", "savePhone"}
            PROVE  u # t /\ Fields(u)' = Fields(u)
        <4>1. u # t /\ pc[u] \in {"assignAddress", "saveAddress", "savePhone"}
          BY <2>3, <3>1
        <4>2. Here(u) \in Process \ {p} /\ pc[u] \in Loading \cup Saving
          BY <1>0, <2>4, <4>1 DEF Loading, Saving
        <4>3. call[u].product \in Product
          BY <1>0, <4>2, CallFields DEF Doing, Loading, Saving
        <4> QED BY <2>3, <2>5, <4>1, <4>2, <4>3 DEF Fields, Here
      <3> QED BY <1>0, <2>3, <3>1 DEF NamesInv
    <2> QED BY <1>0, <2>1, <2>3, <2>6, <2>7 DEF SuppliersInv, StoredInv
  <1>7. ASSUME NEW t \in Threads, SaveName(t) \/ SaveAddress(t)
        PROVE  SuppliersInv'
    <2>1. /\ pc[t] \in {"saveName", "saveAddress"}
          /\ pc' = [pc EXCEPT ![t] = IF pc[t] = "saveName"
                                     THEN "saveAddress" ELSE "savePhone"]
          /\ saved' = [saved EXCEPT ![t] =
                 IF pc[t] = "saveName" THEN [name |-> Fields(t).name]
                 ELSE [name |-> @.name, address |-> Fields(t).address]]
          /\ UNCHANGED <<file, stored, details, call, list>>
      BY <1>7 DEF SaveName, SaveAddress, At, Goto, files
    <2>2. /\ \/ /\ pc[t] = "saveName" /\ pc'[t] = "saveAddress"
                /\ saved'[t].name = Fields(t).name
             \/ /\ pc[t] = "saveAddress" /\ pc'[t] = "savePhone"
                /\ saved'[t].name = saved[t].name
                /\ saved'[t].address = Fields(t).address
          /\ \A u \in Threads \ {t} : pc'[u] = pc[u] /\ saved'[u] = saved[u]
      BY <1>0, <2>1 DEF LocalTypes
    <2>3. DetailsInv'
      BY <1>0, <2>1, <2>2 DEF DetailsInv, Complete, Here
    <2>4. \A u \in Threads : Fields(u)' = Fields(u)
      BY <2>1 DEF Fields, Here
    <2>5. NamesInv'
      BY <1>0, <2>1, <2>2, <2>4 DEF NamesInv
    <2> QED BY <1>0, <2>1, <2>3, <2>5 DEF SuppliersInv, StoredInv
  <1>8. ASSUME NEW p \in Process, Crash(p) PROVE SuppliersInv'
    <2>1. /\ pc' = [t \in Threads |-> IF Here(t) = p THEN "idle" ELSE pc[t]]
          /\ call' = [t \in Threads |->
                        IF Here(t) = p THEN NoCall ELSE call[t]]
          /\ list' = [t \in Threads |-> IF Here(t) = p THEN <<>> ELSE list[t]]
          /\ saved' = [t \in Threads |->
                        IF Here(t) = p THEN NoFields ELSE saved[t]]
          /\ details' = [details EXCEPT ![p] = Loaded(stored)]
          /\ UNCHANGED <<file, stored>>
      BY <1>8 DEF Crash, files
    <2>2. \A q \in Process :
            details'[q] = IF q = p THEN Loaded(stored) ELSE details[q]
      BY <2>1 DEF SharedTypes
    <2>7. \A x \in Product : Complete(Loaded(stored)[x])
      BY <1>0 DEF StoredInv, Filed, Complete, Loaded, SharedTypes, Details
    <2>3. ASSUME NEW u \in Threads
          PROVE  \/ Here(u) = p /\ pc'[u] = "idle"
                 \/ /\ Here(u) \in Process \ {p}
                    /\ pc'[u] = pc[u] /\ call'[u] = call[u]
                    /\ saved'[u] = saved[u]
      BY <1>0, <2>1
    <2>4. DetailsInv'
      BY <1>0, <2>2, <2>3, <2>7 DEF DetailsInv, Complete, Here
    <2>5. NamesInv'
      BY <1>0, <2>2, <2>3 DEF NamesInv, Fields, Here
    <2>6. \A u \in Threads :
            \A i \in DOMAIN list'[u] : Asked(list'[u][i].supplier)
      BY <1>0, <2>1 DEF StoredInv
    <2> QED BY <1>0, <2>1, <2>4, <2>5, <2>6 DEF SuppliersInv, StoredInv
  <1>9. CASE UNCHANGED vars
    BY <1>0, <1>9 DEF vars, files, SuppliersInv, DetailsInv, NamesInv,
       StoredInv, Complete, Fields, Here
  <1> QED
    BY <1>1, <1>2, <1>3, <1>4, <1>5, <1>6, <1>7, <1>8, <1>9 DEF Next, Step

(* A requisition, and a product in the product file, is of one version of  *)
(* its supplier: load writes the fields under the two mutexes of which     *)
(* request and save hold one each.  Its telephone number is in neither:    *)
(* operator= does not copy it (BindingsImpl.cpp:463), the getter returns   *)
(* the address, which save writes in its place (BindingsImpl.cpp:607).     *)
THEOREM SuppliersStoredOfOneVersion == Spec => []SuppliersOfOneVersion
  <1>1. ASSUME SharedTypes, SuppliersInv PROVE SuppliersOfOneVersion
    <2>1. ASSUME NEW x \in Product
          PROVE  \E s \in Supplier : stored[x] = AsSaved(s)
      <3>1. stored[x] \in Details /\ Filed(stored[x])
        BY <1>1 DEF SuppliersInv, StoredInv, SharedTypes
      <3> QED BY <3>1 DEF Details, Filed, Complete, AsSaved
    <2>2. ASSUME NEW i \in DOMAIN file.list
          PROVE  \E s \in Supplier : file.list[i].supplier = InMemory(s)
      <3>1. file.list \in Seq(Entry)
        BY <1>1 DEF SharedTypes
      <3>2. file.list[i] \in Entry
        BY <3>1, ElementOfSeq, LenProperties
      <3>3. /\ file.list[i].supplier \in Details
            /\ Asked(file.list[i].supplier)
        BY <1>1, <3>2 DEF SuppliersInv, StoredInv, Entry
      <3> QED BY <3>3 DEF Details, Asked, Complete, InMemory
    <2> QED BY <2>1, <2>2 DEF SuppliersOfOneVersion
  <1>2. LocalInv /\ SharedTypes /\ PhonesInv /\ SuppliersInv /\ [Next]_vars
          => SuppliersInv'
    BY SuppliersInductive
  <1>3. SharedTypes /\ SuppliersInv => SuppliersOfOneVersion
    BY <1>1
  <1> QED BY <1>2, <1>3, SuppliersInitially, PhonesInvariant, TypesInvariant,
             PTL DEF Spec

-----------------------------------------------------------------------------
(* Requests are kept.                                                      *)

Distinct(s) == \A i, j \in DOMAIN s : Id(s[i]) = Id(s[j]) => i = j

(* No entry is of a later call than its thread has made, nor of the call   *)
(* it is making: n counts the calls, at says where the threads are.        *)
Past(s, n, at) ==
    \A i \in DOMAIN s :
        /\ s[i].nr <= n[s[i].by]
        /\ at[s[i].by] # "idle" => s[i].nr < n[s[i].by]

(* Every call in d has an entry in the list or a line among r.             *)
Covers(s, r, d) ==
    \A c \in d : \/ \E i \in DOMAIN s : Id(s[i]) = c
                 \/ \E i \in DOMAIN r : r[i] = c

(* What holds of the file holds of the list a thread has read and not yet  *)
(* written.                                                                *)
Good(s) == Distinct(s) /\ Past(s, calls, pc)

KeptInv ==
    /\ file.kind # "torn" => Good(file.list)
    /\ \A t \in Threads : InWindow(t) => Good(Basis(t))
    /\ \A t \in Threads :
         pc[t] \in {"truncate", "write"} => Id(Last(list[t])) = <<t, calls[t]>>
    /\ ~disturbed =>
         /\ \A t, u \in Threads : InWindow(t) /\ InWindow(u) => t = u
         /\ file.kind # "torn" => Covers(file.list, reciepts, done)
         /\ \A t \in Threads :
              InWindow(t) => Covers(Basis(t), reciepts, done)

(* The list read is a list of entries.                                     *)
LEMMA BasisIsList ==
    ASSUME LocalInv, NEW t \in Threads, InWindow(t)
    PROVE  Basis(t) \in Seq(Entry)
  <1>1. CASE pc[t] = "compose"
    BY <1>1 DEF Basis, LocalInv, LocalTypes
  <1>2. CASE pc[t] \in {"truncate", "write"}
    <2>1. PICK s \in Seq(Entry) : s = list[t] /\ s # <<>>
      BY <1>2 DEF LocalInv, LocalTypes, Doing
    <2>2. s[Len(s)] \in Entry
      BY <2>1, EmptySeq, LenProperties, ElementOfSeq
    <2>3. Front(s) \in Seq(Entry)
      BY <2>1, <2>2, FrontLast
    <2> QED BY <1>2, <2>1, <2>3 DEF Basis
  <1> QED BY <1>1, <1>2 DEF InWindow

(* Entries of the past stay entries of the past.                           *)
LEMMA PastStays ==
    ASSUME NEW s \in Seq(Entry),
           NEW n \in [Threads -> Nat], NEW m \in [Threads -> Nat],
           NEW a, NEW b, Past(s, n, a),
           \A u \in Threads : \/ m[u] = n[u] /\ (b[u] # "idle" => a[u] # "idle")
                              \/ m[u] > n[u]
    PROVE  Past(s, m, b)
  <1> SUFFICES ASSUME NEW i \in DOMAIN s
               PROVE  /\ s[i].nr <= m[s[i].by]
                      /\ b[s[i].by] # "idle" => s[i].nr < m[s[i].by]
    BY DEF Past
  <1>1. s[i] \in Entry
    BY ElementOfSeq, LenProperties
  <1>2. PICK u \in Threads : u = s[i].by
    BY <1>1 DEF Entry
  <1>3. PICK k \in Nat : k = s[i].nr
    BY <1>1, Given DEF Entry
  <1>4. k <= n[u] /\ (a[u] # "idle" => k < n[u])
    BY <1>2, <1>3 DEF Past
  <1>5. n[u] \in Nat /\ m[u] \in Nat
    OBVIOUS
  <1>6. \/ m[u] = n[u] /\ (b[u] # "idle" => a[u] # "idle")
        \/ m[u] > n[u]
    OBVIOUS
  <1>7. k <= m[u] /\ (b[u] # "idle" => k < m[u])
    BY <1>4, <1>5, <1>6
  <1> QED BY <1>2, <1>3, <1>7

(* A list with one more entry, of the call that ends with it.              *)
LEMMA AppendKept ==
    ASSUME NEW s \in Seq(Entry), NEW e \in Entry,
           NEW n \in [Threads -> Nat], NEW a, NEW b,
           Distinct(s), Past(s, n, a), Past(s, n, b),
           a[e.by] # "idle", e.nr = n[e.by], b[e.by] = "idle"
    PROVE  /\ Distinct(Append(s, e)) /\ Past(Append(s, e), n, b)
           /\ \A r, d : Covers(s, r, d)
                          => Covers(Append(s, e), r, d \cup {Id(e)})
  <1> DEFINE l == Append(s, e)  k == Len(s)
  <1>1. /\ k \in Nat /\ DOMAIN s = 1..k /\ DOMAIN l = 1..(k + 1)
        /\ l[k + 1] = e
        /\ \A i \in 1..k : l[i] = s[i]
    BY AppendProperties, LenProperties
  <1>2. \A i \in 1..k : s[i] \in Entry
    BY ElementOfSeq
  <1> HIDE DEF l, k
  <1>3. e.by \in Threads /\ e.nr \in Nat /\ n[e.by] \in Nat
    BY Given DEF Entry
  <1>4. \A i \in 1..k : Id(s[i]) # Id(e)
    <2> SUFFICES ASSUME NEW i \in 1..k, Id(s[i]) = Id(e) PROVE FALSE
      OBVIOUS
    <2>1. s[i].by = e.by /\ s[i].nr = e.nr
      BY DEF Id
    <2>2. s[i].nr < n[e.by]
      BY <1>1, <2>1 DEF Past
    <2> QED BY <1>3, <2>1, <2>2
  <1>5. Distinct(l)
    <2> SUFFICES ASSUME NEW i \in 1..(k + 1), NEW j \in 1..(k + 1),
                        Id(l[i]) = Id(l[j])
                 PROVE  i = j
      BY <1>1 DEF Distinct
    <2>1. (i \in 1..k \/ i = k + 1) /\ (j \in 1..k \/ j = k + 1)
      BY <1>1
    <2> QED BY <1>1, <1>4, <2>1 DEF Distinct
  <1>6. Past(l, n, b)
    <2> SUFFICES ASSUME NEW i \in 1..(k + 1)
                 PROVE  /\ l[i].nr <= n[l[i].by]
                        /\ b[l[i].by] # "idle" => l[i].nr < n[l[i].by]
      BY <1>1 DEF Past
    <2>1. i \in 1..k \/ i = k + 1
      BY <1>1
    <2> QED BY <1>1, <1>3, <2>1 DEF Past
  <1>7. ASSUME NEW r, NEW d, Covers(s, r, d)
        PROVE  Covers(l, r, d \cup {Id(e)})
    <2>1. \A i \in 1..k : i \in 1..(k + 1)
      BY <1>1
    <2>2. k + 1 \in 1..(k + 1)
      BY <1>1
    <2> QED BY <1>1, <1>7, <2>1, <2>2 DEF Covers
  <1> QED BY <1>5, <1>6, <1>7 DEF l

(* A step that neither reads nor writes the list, only cuts the file off.  *)
LEMMA KeptUnmoved ==
    ASSUME LocalInv, SharedTypes, KeptInv, LocalInv',
           file' = file \/ file'.kind = "torn",
           disturbed' = disturbed,
           \A s : Covers(s, reciepts, done) => Covers(s, reciepts', done'),
           \A u \in Threads :
             \/ calls'[u] = calls[u] /\ (pc'[u] # "idle" => pc[u] # "idle")
             \/ calls'[u] > calls[u],
           \A u \in Threads :
             InWindow(u)' => InWindow(u) /\ Basis(u)' = Basis(u),
           \A u \in Threads :
             pc'[u] \in {"truncate", "write"}
               => Id(Last(list'[u])) = <<u, calls'[u]>>
    PROVE  KeptInv'
  <1>1. calls \in [Threads -> Nat] /\ calls' \in [Threads -> Nat]
    BY Given DEF LocalInv, LocalTypes
  <1>2. ASSUME NEW s \in Seq(Entry), Good(s)
        PROVE  Distinct(s) /\ Past(s, calls', pc')
    BY <1>1, <1>2, PastStays DEF Good
  <1>3. file'.kind # "torn" => Good(file.list)'
    <2>1. file.list \in Seq(Entry)
      BY DEF SharedTypes
    <2> QED BY <1>2, <2>1 DEF KeptInv, Good
  <1>4. ASSUME NEW t \in Threads, InWindow(t)'
        PROVE  Good(Basis(t))'
    <2>1. InWindow(t) /\ Basis(t)' = Basis(t) /\ Basis(t) \in Seq(Entry)
      BY <1>4, BasisIsList
    <2> QED BY <1>2, <2>1 DEF KeptInv, Good
  <1>5. ASSUME ~disturbed'
        PROVE  /\ \A t, u \in Threads : InWindow(t)' /\ InWindow(u)' => t = u
               /\ file'.kind # "torn" => Covers(file'.list, reciepts', done')
               /\ \A t \in Threads :
                    InWindow(t)' => Covers(Basis(t)', reciepts', done')
    BY <1>5 DEF KeptInv
  <1> QED BY <1>3, <1>4, <1>5 DEF KeptInv

(* A step of t to another label of its call, or to its end.                *)
LEMMA KeptByOne ==
    ASSUME LocalInv, SharedTypes, KeptInv, LocalInv', NEW t \in Threads,
           NEW label, pc' = [pc EXCEPT ![t] = label],
           label # "idle" => pc[t] # "idle" \/ calls'[t] > calls[t],
           \A u \in Threads \ {t} : list'[u] = list[u] /\ calls'[u] = calls[u],
           calls'[t] = calls[t] \/ calls'[t] > calls[t],
           file' = file \/ file'.kind = "torn",
           disturbed' = disturbed,
           \A s : Covers(s, reciepts, done) => Covers(s, reciepts', done'),
           InWindow(t)' => InWindow(t) /\ Basis(t)' = Basis(t),
           label \in {"truncate", "write"}
             => Id(Last(list'[t])) = <<t, calls'[t]>>
    PROVE  KeptInv'
  <1>1. /\ pc'[t] = label
        /\ \A u \in Threads \ {t} : pc'[u] = pc[u]
    BY DEF LocalInv, LocalTypes
  <1>2. \A u \in Threads :
          InWindow(u)' => InWindow(u) /\ Basis(u)' = Basis(u)
    BY <1>1, OthersUnmoved
  <1>3. \A u \in Threads :
          \/ calls'[u] = calls[u] /\ (pc'[u] # "idle" => pc[u] # "idle")
          \/ calls'[u] > calls[u]
    BY <1>1
  <1>4. \A u \in Threads :
          pc'[u] \in {"truncate", "write"}
            => Id(Last(list'[u])) = <<u, calls'[u]>>
    BY <1>1 DEF KeptInv
  <1> QED BY <1>2, <1>3, <1>4, KeptUnmoved

(* The list is read while nobody is writing it, or the two overlap.        *)
LEMMA KeptByRead ==
    ASSUME LocalInv, SharedTypes, KeptInv, LocalInv', NEW t \in Threads, Read(t)
    PROVE  KeptInv'
  <1>1. /\ pc[t] = "read" /\ pc' = [pc EXCEPT ![t] = "compose"]
        /\ file.kind # "torn"
        /\ list' = [list EXCEPT ![t] = file.list]
        /\ UNCHANGED <<file, reciepts, call, calls, done>>
    BY DEF Read, At, Goto, files
  <1>2. /\ pc'[t] = "compose" /\ list'[t] = file.list
        /\ \A u \in Threads \ {t} : pc'[u] = pc[u] /\ list'[u] = list[u]
    BY <1>1 DEF LocalInv, LocalTypes
  <1>3. /\ ~InWindow(t) /\ InWindow(t)' /\ Basis(t)' = file.list
        /\ \A u \in Threads \ {t} :
             InWindow(u)' => InWindow(u) /\ Basis(u)' = Basis(u)
    BY <1>1, <1>2, OthersUnmoved DEF InWindow, Basis
  <1>4. ASSUME NEW s \in Seq(Entry), Good(s)
        PROVE  Distinct(s) /\ Past(s, calls', pc')
    <2>1. calls \in [Threads -> Nat]
      BY Given DEF LocalInv, LocalTypes
    <2>2. \A u \in Threads : pc'[u] # "idle" => pc[u] # "idle"
      BY <1>1, <1>2
    <2> QED BY <1>1, <1>4, <2>1, <2>2, PastStays DEF Good
  <1>5. Good(file.list) /\ Good(file.list)'
    <2>1. Good(file.list) /\ file.list \in Seq(Entry)
      BY <1>1 DEF KeptInv, SharedTypes
    <2> QED BY <1>1, <1>4, <2>1 DEF Good
  <1>6. ASSUME NEW u \in Threads, InWindow(u)' PROVE Good(Basis(u))'
    <2>1. CASE u = t
      BY <1>1, <1>3, <1>5, <2>1 DEF Good
    <2>2. CASE u # t
      <3>1. InWindow(u) /\ Basis(u)' = Basis(u) /\ Basis(u) \in Seq(Entry)
        BY <1>3, <1>6, <2>2, BasisIsList
      <3> QED BY <1>4, <3>1 DEF KeptInv, Good
    <2> QED BY <2>1, <2>2
  <1>7. \A u \in Threads :
          pc'[u] \in {"truncate", "write"}
            => Id(Last(list'[u])) = <<u, calls'[u]>>
    BY <1>1, <1>2 DEF KeptInv
  <1>8. ASSUME ~disturbed'
        PROVE  /\ \A u, v \in Threads : InWindow(u)' /\ InWindow(v)' => u = v
               /\ Covers(file'.list, reciepts', done')
               /\ \A u \in Threads :
                    InWindow(u)' => Covers(Basis(u)', reciepts', done')
    <2>1. /\ ~disturbed
          /\ \A u \in Threads : InWindow(u) => Here(u) = Here(t)
      BY <1>8 DEF Read
    <2>2. \A u \in Threads : InWindow(u) => u = t
      <3> SUFFICES ASSUME NEW u \in Threads, InWindow(u) PROVE u = t
        OBVIOUS
      <3>1. owner[Here(u)]["requisitions"] = u
        BY DEF LocalInv, Holding, InWindow, Requesting
      <3>2. owner[Here(t)]["requisitions"] = t
        BY <1>1 DEF LocalInv, Holding, Requesting
      <3> QED BY <2>1, <3>1, <3>2
    <2>3. \A u \in Threads : InWindow(u)' => u = t
      BY <1>3, <2>2
    <2>4. Covers(file.list, reciepts, done)
      BY <1>1, <2>1 DEF KeptInv
    <2> QED BY <1>1, <1>3, <2>3, <2>4
  <1> QED BY <1>1, <1>5, <1>6, <1>7, <1>8 DEF KeptInv

(* What a request has instead of a file it cannot open is no list at all.  *)
LEMMA KeptByReadUnopened ==
    ASSUME LocalInv, SharedTypes, KeptInv, LocalInv', NEW t \in Threads,
           ReadUnopened(t)
    PROVE  KeptInv'
  <1>1. /\ pc[t] = "read" /\ pc' = [pc EXCEPT ![t] = "compose"]
        /\ list' = [list EXCEPT ![t] = <<>>]
        /\ disturbed'
        /\ UNCHANGED <<file, calls>>
    BY DEF ReadUnopened, At, Goto, files
  <1>2. /\ pc'[t] = "compose" /\ list'[t] = <<>>
        /\ \A u \in Threads \ {t} : pc'[u] = pc[u] /\ list'[u] = list[u]
    BY <1>1 DEF LocalInv, LocalTypes
  <1>3. /\ Basis(t)' = <<>>
        /\ \A u \in Threads \ {t} :
             InWindow(u)' => InWindow(u) /\ Basis(u)' = Basis(u)
    BY <1>2, OthersUnmoved DEF Basis
  <1>4. ASSUME NEW s \in Seq(Entry), Good(s)
        PROVE  Distinct(s) /\ Past(s, calls', pc')
    <2>1. calls \in [Threads -> Nat]
      BY Given DEF LocalInv, LocalTypes
    <2>2. \A u \in Threads : pc'[u] # "idle" => pc[u] # "idle"
      BY <1>1, <1>2
    <2> QED BY <1>1, <1>4, <2>1, <2>2, PastStays DEF Good
  <1>5. file'.kind # "torn" => Good(file.list)'
    <2>1. file.list \in Seq(Entry)
      BY DEF SharedTypes
    <2> QED BY <1>1, <1>4, <2>1 DEF KeptInv, Good
  <1>6. ASSUME NEW u \in Threads, InWindow(u)' PROVE Good(Basis(u))'
    <2>1. CASE u = t
      BY <1>3, <2>1 DEF Good, Distinct, Past
    <2>2. CASE u # t
      <3>1. InWindow(u) /\ Basis(u)' = Basis(u) /\ Basis(u) \in Seq(Entry)
        BY <1>3, <1>6, <2>2, BasisIsList
      <3> QED BY <1>4, <3>1 DEF KeptInv, Good
    <2> QED BY <2>1, <2>2
  <1>7. \A u \in Threads :
          pc'[u] \in {"truncate", "write"}
            => Id(Last(list'[u])) = <<u, calls'[u]>>
    BY <1>1, <1>2 DEF KeptInv
  <1> QED BY <1>1, <1>5, <1>6, <1>7 DEF KeptInv

(* What is written is what was read, and the request that returns.         *)
LEMMA KeptByWrite ==
    ASSUME LocalInv, SharedTypes, KeptInv, LocalInv', NEW t \in Threads,
           Write(t)
    PROVE  KeptInv'
  <1>1. /\ pc[t] = "write" /\ pc' = [pc EXCEPT ![t] = "idle"]
        /\ file' = Whole(list[t])
        /\ list' = [list EXCEPT ![t] = <<>>]
        /\ done' = done \cup {<<t, calls[t]>>}
        /\ UNCHANGED <<reciepts, calls, disturbed>>
    BY DEF Write, End, At, Goto
  <1>2. /\ pc'[t] = "idle"
        /\ \A u \in Threads \ {t} : pc'[u] = pc[u] /\ list'[u] = list[u]
        /\ calls \in [Threads -> Nat]
    BY <1>1, Given DEF LocalInv, LocalTypes
  <1>3. /\ InWindow(t) /\ ~InWindow(t)'
        /\ \A u \in Threads \ {t} :
             InWindow(u)' => InWindow(u) /\ Basis(u)' = Basis(u)
    BY <1>1, <1>2, OthersUnmoved DEF InWindow
  <1>4. ASSUME NEW s \in Seq(Entry), Good(s)
        PROVE  Distinct(s) /\ Past(s, calls', pc')
    <2>1. \A u \in Threads : pc'[u] # "idle" => pc[u] # "idle"
      BY <1>2
    <2>2. calls \in [Threads -> Nat] /\ calls' = calls
      BY <1>1, <1>2
    <2> QED BY <1>4, <2>1, <2>2, PastStays DEF Good
  <1> DEFINE e == Last(list[t])  s == Basis(t)
  <1>5. /\ s \in Seq(Entry) /\ e \in Entry /\ Good(s)
        /\ list[t] = Append(s, e)
        /\ Id(e) = <<t, calls[t]>>
    <2>1. Basis(t) = Front(list[t]) /\ Basis(t) = Bases[Here(t)]
      BY <1>1, BasisOfWriter DEF Basis
    <2> QED BY <1>1, <1>3, <2>1, BasisIsList, BasisOfWriter DEF KeptInv
  <1> HIDE DEF e, s
  <1>6. /\ Distinct(list[t]) /\ Past(list[t], calls', pc')
        /\ Covers(s, reciepts, done) => Covers(list[t], reciepts', done')
    <2>1. e.by = t /\ e.nr = calls[t]
      BY <1>5 DEF Id
    <2>2. Past(s, calls, pc') /\ Past(s, calls, pc) /\ Distinct(s)
      BY <1>1, <1>4, <1>5 DEF Good
    <2>3. pc[e.by] # "idle" /\ pc'[e.by] = "idle"
      BY <1>1, <1>2, <2>1
    <2>4. /\ Distinct(Append(s, e)) /\ Past(Append(s, e), calls, pc')
          /\ \A r, d : Covers(s, r, d)
                         => Covers(Append(s, e), r, d \cup {Id(e)})
      BY <1>2, <1>5, <2>1, <2>2, <2>3, AppendKept
    <2> QED BY <1>1, <1>5, <2>4
  <1>7. Good(file.list)'
    BY <1>1, <1>6 DEF Good, Whole
  <1>8. ASSUME NEW u \in Threads, InWindow(u)' PROVE Good(Basis(u))'
    <2>1. u # t
      BY <1>3, <1>8
    <2>2. InWindow(u) /\ Basis(u)' = Basis(u) /\ Basis(u) \in Seq(Entry)
      BY <1>3, <1>8, <2>1, BasisIsList
    <2> QED BY <1>4, <2>2 DEF KeptInv, Good
  <1>9. \A u \in Threads :
          pc'[u] \in {"truncate", "write"}
            => Id(Last(list'[u])) = <<u, calls'[u]>>
    BY <1>1, <1>2 DEF KeptInv
  <1>10. ASSUME ~disturbed'
         PROVE  /\ \A u \in Threads : ~InWindow(u)'
                /\ Covers(file'.list, reciepts', done')
    <2>1. ~disturbed
      BY <1>1, <1>10
    <2>2. \A u \in Threads : InWindow(u) => u = t
      BY <1>3, <2>1 DEF KeptInv
    <2>3. Covers(s, reciepts, done)
      BY <1>3, <2>1 DEF KeptInv, s
    <2> QED BY <1>1, <1>3, <1>6, <2>2, <2>3 DEF Whole
  <1> QED BY <1>7, <1>8, <1>9, <1>10 DEF KeptInv

(* Nothing has been written at first.                                      *)
LEMMA KeptInitially == Init => KeptInv
  BY DEF Init, KeptInv, Good, Distinct, Past, Covers, InWindow

(* Every step keeps the requests.                                          *)
LEMMA KeptInductive ==
    ASSUME LocalInv, SharedTypes, LocalInv', KeptInv, [Next]_vars
    PROVE  KeptInv'
  <1>0. LocalTypes /\ Doing
    BY DEF LocalInv
  <1>1. ASSUME NEW t \in Threads, NEW c \in Clients[t], Invoke(t, c)
        PROVE  KeptInv'
    <2>1. /\ pc' = [pc EXCEPT ![t] = "acquire"]
          /\ calls' = [calls EXCEPT ![t] = @ + 1]
          /\ UNCHANGED <<file, reciepts, list, done, disturbed>>
      BY <1>1 DEF Invoke, Goto, files
    <2>2. /\ calls'[t] > calls[t] /\ pc'[t] = "acquire"
          /\ \A u \in Threads \ {t} : calls'[u] = calls[u]
      BY <1>0, <2>1, Given DEF LocalTypes
    <2>3. ~InWindow(t)'
      BY <2>2 DEF InWindow
    <2> QED BY <2>1, <2>2, <2>3, KeptByOne
  <1>2. ASSUME NEW t \in Threads, Acquire(t) PROVE KeptInv'
    <2>1. /\ pc[t] = "acquire" /\ call[t] \in Call
          /\ UNCHANGED <<file, reciepts, calls, list, done, disturbed>>
      BY <1>0, <1>2 DEF Acquire, At, files, Doing
    <2>2. PICK label : /\ pc' = [pc EXCEPT ![t] = label]
                       /\ label \in {"acquire", FirstStep(call[t].op)}
      BY <1>2 DEF Acquire, Goto
    <2>3. label \notin {"compose", "truncate", "write"}
      BY <2>1, <2>2, CallFields DEF FirstStep
    <2>4. ~InWindow(t)'
      BY <1>0, <2>2, <2>3 DEF LocalTypes, InWindow
    <2> QED BY <2>1, <2>2, <2>3, <2>4, KeptByOne
  <1>3. ASSUME NEW t \in Threads, Compose(t) PROVE KeptInv'
    <2>1. /\ pc[t] = "compose" /\ pc' = [pc EXCEPT ![t] = "truncate"]
          /\ list' = [list EXCEPT ![t] = Append(list[t], Made(t))]
          /\ UNCHANGED <<file, reciepts, calls, done, disturbed>>
      BY <1>3 DEF Compose, At, Goto, files
    <2>2. /\ pc'[t] = "truncate" /\ list'[t] = Append(list[t], Made(t))
          /\ \A u \in Threads \ {t} : list'[u] = list[u]
      BY <1>0, <2>1 DEF LocalTypes
    <2>3. list[t] \in Seq(Entry) /\ Made(t) \in Entry
      BY <1>0, <2>1, MadeIsEntry DEF LocalTypes, Requesting
    <2>4. Front(list'[t]) = list[t] /\ Last(list'[t]) = Made(t)
      BY <2>2, <2>3, FrontLast, AppendProperties, LenProperties DEF Last
    <2>5. InWindow(t) /\ Basis(t)' = Basis(t)
      BY <2>1, <2>2, <2>4 DEF InWindow, Basis
    <2>6. Id(Last(list'[t])) = <<t, calls'[t]>>
      BY <2>1, <2>4 DEF Id, Made
    <2> QED BY <2>1, <2>2, <2>5, <2>6, KeptByOne
  <1>4. ASSUME NEW t \in Threads, Truncate(t) PROVE KeptInv'
    <2>1. /\ pc[t] = "truncate" /\ pc' = [pc EXCEPT ![t] = "write"]
          /\ file'.kind = "torn"
          /\ UNCHANGED <<reciepts, calls, list, done, disturbed>>
      BY <1>4 DEF Truncate, At, Goto, Torn
    <2>2. pc'[t] = "write"
      BY <1>0, <2>1 DEF LocalTypes
    <2>3. InWindow(t) /\ Basis(t)' = Basis(t)
      BY <2>1, <2>2 DEF InWindow, Basis
    <2>4. Id(Last(list'[t])) = <<t, calls'[t]>>
      BY <2>1 DEF KeptInv
    <2> QED BY <2>1, <2>3, <2>4, KeptByOne
  <1>5. ASSUME NEW t \in Threads,
               \/ ReadThrows(t) \/ AssignAddress(t) \/ SavePhone(t)
               \/ AppendReciept(t) \/ Skip(t)
        PROVE  KeptInv'
    <2>1. /\ pc' = [pc EXCEPT ![t] = "idle"]
          /\ list' = [list EXCEPT ![t] = <<>>]
          /\ UNCHANGED <<file, calls, disturbed>>
      BY <1>5 DEF ReadThrows, AssignAddress, SavePhone, AppendReciept, Skip,
         End, Goto, files
    <2>2. /\ \A u \in Threads \ {t} : list'[u] = list[u]
          /\ ~InWindow(t)'
      BY <1>0, <2>1 DEF LocalTypes, InWindow
    <2>3. \A s : Covers(s, reciepts, done) => Covers(s, reciepts', done')
      <3>1. CASE AppendReciept(t)
        <4> DEFINE c == <<t, calls[t]>>  S == Threads \X (1..MaxCalls)
        <4>1. /\ pc[t] = "append"
              /\ reciepts' = Append(reciepts, c) /\ done' = done \cup {c}
          BY <3>1 DEF AppendReciept, At
        <4>2. c \in S /\ reciepts \in Seq(S)
          BY <1>0, <4>1, Given DEF LocalTypes, Doing, SharedTypes
        <4> HIDE DEF c, S
        <4>3. /\ Len(reciepts) \in Nat /\ DOMAIN reciepts = 1..Len(reciepts)
              /\ DOMAIN reciepts' = 1..(Len(reciepts) + 1)
              /\ reciepts'[Len(reciepts) + 1] = c
              /\ \A i \in 1..Len(reciepts) : reciepts'[i] = reciepts[i]
          BY <4>1, <4>2, AppendProperties, LenProperties
        <4>4. \A i \in DOMAIN reciepts : i \in DOMAIN reciepts'
          BY <4>3
        <4>5. Len(reciepts) + 1 \in DOMAIN reciepts'
          BY <4>3
        <4> QED BY <4>1, <4>3, <4>4, <4>5 DEF Covers
      <3>2. CASE ~AppendReciept(t)
        BY <1>5, <3>2 DEF ReadThrows, AssignAddress, SavePhone, Skip, files
      <3> QED BY <3>1, <3>2
    <2> QED BY <2>1, <2>2, <2>3, KeptByOne
  <1>6. ASSUME NEW t \in Threads, AssignName(t) \/ SaveName(t) \/ SaveAddress(t)
        PROVE  KeptInv'
    <2>1. PICK label :
            /\ pc[t] \in {"assignName", "saveName", "saveAddress"}
            /\ pc' = [pc EXCEPT ![t] = label]
            /\ label \in {"assignAddress", "saveAddress", "savePhone"}
      BY <1>6 DEF AssignName, SaveName, SaveAddress, At, Goto
    <2>2. UNCHANGED <<file, reciepts, list, calls, done, disturbed>>
      BY <1>6 DEF AssignName, SaveName, SaveAddress, files
    <2>3. ~InWindow(t)'
      BY <1>0, <2>1 DEF LocalTypes, InWindow
    <2> QED BY <2>1, <2>2, <2>3, KeptByOne
  <1>7. ASSUME NEW p \in Process, Crash(p) PROVE KeptInv'
    <2>1. /\ pc' = [t \in Threads |-> IF Here(t) = p THEN "idle" ELSE pc[t]]
          /\ list' = [t \in Threads |-> IF Here(t) = p THEN <<>> ELSE list[t]]
          /\ UNCHANGED <<file, reciepts, calls, done, disturbed>>
      BY <1>7 DEF Crash, files
    <2>2. ASSUME NEW u \in Threads, pc'[u] # "idle"
          PROVE  pc'[u] = pc[u] /\ list'[u] = list[u]
      BY <2>1, <2>2
    <2>3. ASSUME NEW u \in Threads, InWindow(u)'
          PROVE  InWindow(u) /\ Basis(u)' = Basis(u)
      BY <2>2, <2>3 DEF InWindow, Basis
    <2>4. ASSUME NEW u \in Threads, pc'[u] \in {"truncate", "write"}
          PROVE  Id(Last(list'[u])) = <<u, calls'[u]>>
      BY <2>1, <2>2, <2>4 DEF KeptInv
    <2> QED BY <2>1, <2>2, <2>3, <2>4, KeptUnmoved
  <1>8. CASE UNCHANGED vars
    BY <1>8 DEF vars, files, KeptInv, Good, InWindow, Basis
  <1> QED
    BY <1>1, <1>2, <1>3, <1>4, <1>5, <1>6, <1>7, <1>8, KeptByRead,
       KeptByReadUnopened, KeptByWrite DEF Next, Step

(* Threads of one process lose no request and store none twice, whatever   *)
(* crashes: request holds the global mutex from reading the file to        *)
(* writing it (BindingsImpl.cpp:529).  Only requests of two processes that *)
(* overlap, or a file that is there and cannot be opened, can lose one.    *)
THEOREM NoRequestLost == Spec => []RequestsKept
  <1>1. KeptInv => RequestsKept
    BY DEF KeptInv, Good, Distinct, Covers, RequestsKept
  <1>2. LocalInv /\ SharedTypes /\ LocalInv' /\ KeptInv /\ [Next]_vars
          => KeptInv'
    BY KeptInductive
  <1> QED BY <1>1, <1>2, KeptInitially, TypesInvariant, PTL DEF Spec
=============================================================================
