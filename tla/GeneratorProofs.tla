--------------------------- MODULE GeneratorProofs ---------------------------
(***************************************************************************)
(* Theorems about Generator, for every set of threads and methods and      *)
(* every bound of calls and rounds.                                        *)
(***************************************************************************)
EXTENDS Generator, NextInt, SequenceTheorems, TLAPS

(* The thread is in nextGuassian and has its mutex.                        *)
InGuassian(t) ==
    /\ op[t] = "nextGuassian"
    /\ pc[t] \in {"next", "advance", "drawn", "cached"}

(* A round that goes on has a value to draw.                               *)
Counting ==
    \A t \in Threads : pc[t] \in {"next", "advance", "guassian"} => todo[t] >= 1

(* Which mutex a thread holds, and what for.  It draws for nextGuassian of *)
(* class SecureRandom alone: that of Random does not come to "advance".    *)
Mutexes ==
    \A t \in Threads :
        /\ InGuassian(t) => owner["Random"] = t
        /\ pc[t] = "clear" => owner["Random"] = t
        /\ pc[t] = "advance" => owner[kind] = t
        /\ owner["Random"] = t =>
             \/ InGuassian(t)
             \/ pc[t] = "clear"
             \/ kind = "Random" /\ pc[t] = "advance"
        /\ owner["SecureRandom"] = t =>
             kind = "SecureRandom" /\ pc[t] = "advance"
        /\ pc[t] = "advance" /\ op[t] = "nextGuassian" => kind = "SecureRandom"
        /\ pc[t] \in {"guassian", "cached"} => op[t] = "nextGuassian"

(* What the mutexes protect: nobody else draws while a thread draws, and   *)
(* nobody seeds while a thread is in nextGuassian.                         *)
Protected ==
    /\ \A t \in Threads : pc[t] = "advance" => read[t] = position
    /\ \A t \in Threads : InGuassian(t) => since[t] = seedings
    /\ ValuesInOrder
    /\ CachedSinceSeed

IInv == TypeOK /\ Counting /\ Mutexes /\ Protected

(* A new generator has given no value and keeps none.                      *)
LEMMA Initially == Init => IInv
  <1> SUFFICES ASSUME Init PROVE IInv
    OBVIOUS
  <1>1. TypeOK
    <2>1. 0 \in Nat /\ 0 \in 0..4 /\ 0 \in 0..MaxCalls /\ 0 \in 0..MaxRounds
      BY GeneratorAssumption, SMT
    <2>2. <<>> \in Seq(Nat)
      BY EmptySeq
    <2>3. "idle" \in {"idle", "next", "advance", "drawn", "guassian",
                     "cached", "setSeed", "clear"}
      OBVIOUS
    <2> QED BY <2>1, <2>2, <2>3, Zenon DEF Init, TypeOK
  <1>2. Counting /\ Mutexes
    BY GeneratorAssumption DEF Init, Counting, Mutexes, InGuassian
  <1>3. Protected
    BY EmptySeq DEF Init, Protected, InGuassian, ValuesInOrder, CachedSinceSeed
  <1> QED BY <1>1, <1>2, <1>3 DEF IInv

(* Every method draws at least one value and at most four in a round.      *)
LEMMA DrawsBounds == \A o : Draws(o) \in 1..4
  BY DEF Draws

(* The steps of one thread keep the types, and the count of the round.     *)
LEMMA TypesKept ==
    ASSUME IInv, NEW t \in Threads,
           Step(t) \/ \E o \in Ops : Call(t, o)
    PROVE  TypeOK' /\ Counting'
  <1>0. TypeOK /\ Counting
    BY DEF IInv
  <1>1. ASSUME NEW o \in Ops, Call(t, o) PROVE TypeOK' /\ Counting'
    <2>1. Draws(o) \in 1..4 /\ MaxRounds \in Nat \ {0} /\ MaxCalls \in Nat
      BY DrawsBounds, GeneratorAssumption
    <2> DEFINE label == CASE o = "nextGuassian" -> "guassian"
                          [] o = "setSeed" -> "setSeed"
                          [] OTHER -> "next"
    <2>2. /\ pc' = [pc EXCEPT ![t] = label]
          /\ op' = [op EXCEPT ![t] = o]
          /\ calls[t] < MaxCalls
          /\ calls' = [calls EXCEPT ![t] = @ + 1]
          /\ todo' = [todo EXCEPT ![t] = Draws(o)]
          /\ rounds' = [rounds EXCEPT ![t] = 1]
          /\ UNCHANGED <<kind, owner, position, have, cachedIn, seedings,
                         seededAt, given, read, since>>
      BY <1>1, Zenon DEF Call, Goto, memory
    <2>3. label \in {"guassian", "setSeed", "next"}
      OBVIOUS
    <2> HIDE DEF label
    <2>4. pc' \in [Threads -> {"idle", "next", "advance", "drawn", "guassian",
                              "cached", "setSeed", "clear"}]
      BY <1>0, <2>2, <2>3 DEF TypeOK
    <2>5. calls' \in [Threads -> 0..MaxCalls]
      <3>1. calls \in [Threads -> 0..MaxCalls]
        BY <1>0 DEF TypeOK
      <3>2. calls[t] + 1 \in 0..MaxCalls
        BY <2>1, <2>2, <3>1
      <3> QED
        BY <2>2, <3>1, <3>2
    <2>6. todo' \in [Threads -> 0..4] /\ todo'[t] \in 1..4
      BY <1>0, <2>1, <2>2 DEF TypeOK
    <2>7. rounds' \in [Threads -> 0..MaxRounds]
      BY <1>0, <2>1, <2>2 DEF TypeOK
    <2>8. op' \in [Threads -> Ops \cup {"none"}]
      BY <1>0, <2>2 DEF TypeOK
    <2>9. TypeOK'
      BY <1>0, <2>2, <2>4, <2>5, <2>6, <2>7, <2>8, Zenon DEF TypeOK
    <2>10. Counting'
      BY <1>0, <2>2, <2>6 DEF TypeOK, Counting
    <2> QED BY <2>9, <2>10
  <1>2. CASE NextLock(t)
    BY <1>0, <1>2 DEF NextLock, Acquire, mutexOfNext, At, Goto, memory, TypeOK,
       Counting
  <1>3. CASE Advance(t)
    <2>1. given' \in Seq(Nat)
      BY <1>0, <1>3, AppendProperties DEF Advance, TypeOK
    <2>2. todo[t] \in 1..4
      BY <1>0, <1>3 DEF Advance, At, TypeOK, Counting
    <2>3. /\ todo' = [todo EXCEPT ![t] = @ - 1]
          /\ pc' = [pc EXCEPT ![t] = IF todo[t] = 1 THEN "drawn" ELSE "next"]
          /\ owner' = [owner EXCEPT ![kind] = NoThread]
          /\ position' = read[t] + 1
          /\ UNCHANGED <<kind, have, cachedIn, seedings, seededAt, op, calls,
                         rounds, read, since>>
      BY <1>3, Zenon DEF Advance, Release, mutexOfNext, Goto
    <2>4. todo' \in [Threads -> 0..4] /\ todo'[t] = todo[t] - 1
      BY <1>0, <2>2, <2>3 DEF TypeOK
    <2>5. /\ pc' \in [Threads -> {"idle", "next", "advance", "drawn",
                                  "guassian", "cached", "setSeed", "clear"}]
          /\ owner' \in [{"Random", "SecureRandom"} -> Threads \cup {NoThread}]
      BY <1>0, <2>3 DEF TypeOK
    <2>6. position' \in Nat
      BY <1>0, <2>3 DEF TypeOK
    <2>7. TypeOK'
      BY <1>0, <2>1, <2>3, <2>4, <2>5, <2>6, Zenon DEF TypeOK
    <2>8. Counting'
      BY <1>0, <2>2, <2>3, <2>4 DEF TypeOK, Counting
    <2> QED BY <2>7, <2>8
  <1>4. CASE DrawAgain(t)
    <2>1. Draws(op[t]) \in 1..4 /\ MaxRounds \in Nat \ {0}
      BY DrawsBounds, GeneratorAssumption
    <2>2. /\ rounds[t] < MaxRounds
          /\ rounds' = [rounds EXCEPT ![t] = @ + 1]
          /\ todo' = [todo EXCEPT ![t] = Draws(op[t])]
          /\ pc' = [pc EXCEPT ![t] = "next"]
          /\ UNCHANGED <<kind, owner, position, have, cachedIn, seedings,
                         seededAt, given, op, calls, read, since>>
      BY <1>4, Zenon DEF DrawAgain, Goto, memory
    <2>3. todo' \in [Threads -> 0..4] /\ todo'[t] \in 1..4
      BY <1>0, <2>1, <2>2 DEF TypeOK
    <2>4. rounds' \in [Threads -> 0..MaxRounds]
      BY <1>0, <2>1, <2>2 DEF TypeOK
    <2>5. pc' \in [Threads -> {"idle", "next", "advance", "drawn", "guassian",
                              "cached", "setSeed", "clear"}]
      BY <1>0, <2>2 DEF TypeOK
    <2>6. TypeOK'
      BY <1>0, <2>2, <2>3, <2>4, <2>5, Zenon DEF TypeOK
    <2>7. Counting'
      BY <1>0, <2>2, <2>3 DEF TypeOK, Counting
    <2> QED BY <2>6, <2>7
  <1>5. CASE Accept(t)
    BY <1>0, <1>5 DEF Accept, End, Goto, memory, local, TypeOK, Counting
  <1>6. CASE Guassian(t)
    BY <1>0, <1>6 DEF Guassian, Acquire, At, Goto, memory, TypeOK, Counting
  <1>7. CASE Cached(t)
    BY <1>0, <1>7 DEF Cached, Release, End, Goto, local, TypeOK, Counting
  <1>8. CASE AcceptPair(t)
    BY <1>0, <1>8 DEF AcceptPair, Release, End, Goto, local, TypeOK, Counting
  <1>9. CASE SetSeed(t)
    <2>1. given' \in Seq(Nat) /\ position' \in Nat /\ seededAt' \in Nat
      <3>1. /\ given' = <<>>
            /\ position' \in {0, position}
            /\ seededAt' \in {0, position}
        BY <1>9, Zenon DEF SetSeed, Seeded
      <3>2. <<>> \in Seq(Nat) /\ 0 \in Nat
        BY EmptySeq
      <3> QED BY <1>0, <3>1, <3>2, Zenon DEF TypeOK
    <2> QED
      BY <1>0, <1>9, <2>1 DEF SetSeed, Acquire, Goto, local, TypeOK, Counting
  <1>10. CASE Clear(t)
    BY <1>0, <1>10 DEF Clear, Release, End, Goto, local, TypeOK, Counting
  <1> QED
    BY <1>1, <1>2, <1>3, <1>4, <1>5, <1>6, <1>7, <1>8, <1>9, <1>10 DEF Step

(* They take and release the mutexes in pairs.                             *)
LEMMA MutexesKept ==
    ASSUME IInv, NEW t \in Threads,
           Step(t) \/ \E o \in Ops : Call(t, o)
    PROVE  Mutexes'
  <1>0. /\ TypeOK /\ Mutexes
        /\ kind \in {"Random", "SecureRandom"}
        /\ NoThread \notin Threads
    BY GeneratorAssumption DEF IInv, TypeOK
  <1> USE DEF Mutexes, InGuassian, TypeOK
  <1>1. ASSUME NEW o \in Ops, Call(t, o) PROVE Mutexes'
    BY <1>0, <1>1 DEF Call, At, Goto
  <1>2. CASE NextLock(t)
    BY <1>0, <1>2 DEF NextLock, Acquire, mutexOfNext, At, Goto
  <1>3. CASE Advance(t)
    BY <1>0, <1>3 DEF Advance, Release, mutexOfNext, At, Goto
  <1>4. CASE DrawAgain(t)
    BY <1>0, <1>4 DEF DrawAgain, At, Goto
  <1>5. CASE Accept(t)
    BY <1>0, <1>5 DEF Accept, End, At, Goto
  <1>6. CASE Guassian(t)
    BY <1>0, <1>6 DEF Guassian, Acquire, At, Goto
  <1>7. CASE Cached(t)
    <2>1. /\ pc[t] = "cached"
          /\ pc' = [pc EXCEPT ![t] = "idle"]
          /\ op' = [op EXCEPT ![t] = "none"]
          /\ owner' = [owner EXCEPT !["Random"] = NoThread]
          /\ UNCHANGED kind
      BY <1>7, Zenon DEF Cached, Release, End, At, Goto
    <2> QED BY <1>0, <2>1
  <1>8. CASE AcceptPair(t)
    BY <1>0, <1>8 DEF AcceptPair, Release, End, At, Goto
  <1>9. CASE SetSeed(t)
    BY <1>0, <1>9 DEF SetSeed, Acquire, At, Goto
  <1>10. CASE Clear(t)
    BY <1>0, <1>10 DEF Clear, Release, End, At, Goto
  <1> QED
    BY <1>1, <1>2, <1>3, <1>4, <1>5, <1>6, <1>7, <1>8, <1>9, <1>10 DEF Step

(* The sequence without values has no indices.                             *)
LEMMA NoValues == \A s : s = <<>> => Len(s) = 0 /\ DOMAIN s = {}
  <1>1. <<>> \in Seq(Nat) /\ Len(<<>>) = 0
    BY EmptySeq
  <1>2. ASSUME NEW s \in Seq(Nat), Len(s) = 0 PROVE DOMAIN s = {}
    <2>1. DOMAIN s = 1 .. Len(s)
      BY LenProperties
    <2> QED BY <1>2, <2>1
  <1>3. DOMAIN <<>> = {}
    BY <1>1, <1>2
  <1> QED BY <1>1, <1>3

(* So what the mutexes protect stays as the thread that holds them sees it.*)
LEMMA ProtectionKept ==
    ASSUME IInv, NEW t \in Threads,
           Step(t) \/ \E o \in Ops : Call(t, o)
    PROVE  Protected'
  <1>0. /\ TypeOK /\ Mutexes /\ Protected
        /\ kind \in {"Random", "SecureRandom"}
        /\ NoThread \notin Threads
    BY GeneratorAssumption DEF IInv, TypeOK
  <1> USE DEF Protected, InGuassian, TypeOK, CachedSinceSeed
  <1>1. ASSUME NEW o \in Ops, Call(t, o) PROVE Protected'
    BY <1>0, <1>1 DEF Call, At, Goto, memory, ValuesInOrder
  <1>2. CASE NextLock(t)
    BY <1>0, <1>2 DEF NextLock, Acquire, mutexOfNext, At, Goto, memory,
       ValuesInOrder
  <1>3. CASE Advance(t)
    <2>1. /\ read[t] = position /\ position \in Nat /\ seededAt \in Nat
          /\ position' = position + 1
          /\ given' = Append(given, position)
          /\ given \in Seq(Nat)
          /\ UNCHANGED <<kind, have, cachedIn, seedings, seededAt, op, read,
                         since>>
          /\ pc[t] = "advance"
          /\ pc' = [pc EXCEPT ![t] = IF todo[t] = 1 THEN "drawn" ELSE "next"]
      BY <1>0, <1>3 DEF Advance, At, Goto
    <2>2. ValuesInOrder'
      <3> DEFINE n == Len(given)
      <3>1. /\ kind = "Random" => seededAt = 0
            /\ n \in Nat /\ position = seededAt + n
            /\ DOMAIN given = 1 .. n
            /\ \A i \in 1 .. n : given[i] = seededAt + i - 1
        <4>1. n \in Nat /\ DOMAIN given = 1 .. n
          BY <2>1, LenProperties
        <4> QED BY <1>0, <4>1 DEF ValuesInOrder
      <3>2. /\ given' \in Seq(Nat)
            /\ Len(given') = n + 1
            /\ given'[n + 1] = position
            /\ \A i \in 1 .. n : given'[i] = given[i]
        BY <2>1, AppendProperties
      <3>3. DOMAIN given' = 1 .. n + 1
        BY <3>2, LenProperties
      <3> HIDE DEF n
      <3>4. position' = seededAt' + Len(given')
        BY <2>1, <3>1, <3>2
      <3>5. ASSUME NEW i \in DOMAIN given'
            PROVE  given'[i] = seededAt' + i - 1
        <4>1. CASE i = n + 1
          BY <2>1, <3>1, <3>2, <4>1
        <4>2. CASE i # n + 1
          <5>1. i \in 1 .. n
            BY <3>1, <3>3, <4>2
          <5> QED BY <2>1, <3>1, <3>2, <5>1
        <4> QED BY <4>1, <4>2
      <3> QED BY <2>1, <3>1, <3>4, <3>5 DEF ValuesInOrder
    <2>3. ASSUME NEW u \in Threads, u # t PROVE pc[u] # "advance"
      BY <1>0, <2>1, <2>3 DEF Mutexes
    <2>4. \A u \in Threads : pc'[u] # "advance"
      BY <1>0, <2>1, <2>3
    <2> QED BY <1>0, <2>1, <2>2, <2>4 DEF At
  <1>4. CASE DrawAgain(t)
    BY <1>0, <1>4 DEF DrawAgain, At, Goto, memory, ValuesInOrder
  <1>5. CASE Accept(t)
    BY <1>0, <1>5 DEF Accept, End, At, Goto, memory, local, ValuesInOrder
  <1>6. CASE Guassian(t)
    BY <1>0, <1>6 DEF Guassian, Acquire, At, Goto, memory, ValuesInOrder
  <1>7. CASE Cached(t)
    BY <1>0, <1>7 DEF Cached, Release, End, At, Goto, local, ValuesInOrder
  <1>8. CASE AcceptPair(t)
    BY <1>0, <1>8 DEF AcceptPair, Release, End, At, Goto, local, ValuesInOrder
  <1>9. CASE SetSeed(t)
    <2>1. /\ owner["Random"] = NoThread
          /\ seedings' = seedings + 1
          /\ UNCHANGED <<kind, have, cachedIn, op, read, since>>
          /\ pc' = [pc EXCEPT ![t] = "clear"]
      BY <1>9 DEF SetSeed, Acquire, Goto, local
    <2>2. \A u \in Threads : ~InGuassian(u)
      BY <1>0, <2>1 DEF Mutexes
    <2>3. ValuesInOrder'
      <3>1. /\ position' = seededAt' /\ seededAt' \in Nat
            /\ kind' = "Random" => seededAt' = 0
            /\ given' = <<>>
        BY <1>0, <1>9, <2>1 DEF SetSeed, Seeded
      <3>2. Len(given') = 0 /\ DOMAIN given' = {}
        BY <3>1, NoValues
      <3>3. position' = seededAt' + Len(given')
        <4>1. \A x \in Nat : x = x + 0
          OBVIOUS
        <4>2. position' = seededAt' + 0
          BY <3>1, <4>1, Zenon
        <4> QED BY <3>2, <4>2, Zenon
      <3> QED BY <3>1, <3>2, <3>3, Zenon DEF ValuesInOrder
    <2>4. \A u \in Threads : pc'[u] = "advance" => read'[u] = position'
      <3>1. CASE kind = "Random"
        BY <1>0, <2>1, <3>1 DEF Mutexes
      <3>2. CASE kind = "SecureRandom"
        <4>1. position' = position
          BY <1>9, <3>2 DEF SetSeed, Seeded
        <4> QED BY <1>0, <2>1, <4>1
      <3> QED BY <1>0, <3>1, <3>2
    <2>5. CachedSinceSeed'
      BY <1>0, <2>1 DEF At
    <2>6. \A u \in Threads : InGuassian(u)' => since'[u] = seedings'
      BY <1>0, <2>1, <2>2
    <2> QED BY <2>3, <2>4, <2>5, <2>6
  <1>10. CASE Clear(t)
    BY <1>0, <1>10 DEF Clear, Release, End, At, Goto, local, ValuesInOrder
  <1> QED
    BY <1>1, <1>2, <1>3, <1>4, <1>5, <1>6, <1>7, <1>8, <1>9, <1>10 DEF Step

(* Every step keeps the invariant.                                         *)
LEMMA Inductive == IInv /\ [Next]_vars => IInv'
  <1> SUFFICES ASSUME IInv, [Next]_vars PROVE IInv'
    OBVIOUS
  <1>1. ASSUME NEW t \in Threads, Step(t) \/ \E o \in Ops : Call(t, o)
        PROVE  IInv'
    BY <1>1, TypesKept, MutexesKept, ProtectionKept DEF IInv
  <1>2. CASE UNCHANGED vars
    BY <1>2 DEF vars, memory, local, IInv, TypeOK, Counting, Mutexes,
       InGuassian, Protected, ValuesInOrder, CachedSinceSeed, At
  <1> QED BY <1>1, <1>2 DEF Next

(* Hence it holds throughout.                                              *)
LEMMA Invariant == Spec => []IInv
  BY Initially, Inductive, PTL DEF Spec

(* The state and the fields of every thread have their types.              *)
THEOREM GeneratorTypeCorrect == Spec => []TypeOK
  <1>1. IInv => TypeOK
    BY DEF IInv
  <1> QED BY <1>1, Invariant, PTL

(* Threads that share a generator get no value twice and skip none         *)
(* (Random.cpp:31, SecureRandom.cpp:178): after setSeed those of class     *)
(* Random have the sequence of the seed, and those of class SecureRandom   *)
(* go on in the one they had (SecureRandom.cpp:191).                       *)
THEOREM DrawsNeitherRepeatNorSkip == Spec => []ValuesInOrder
  <1>1. IInv => ValuesInOrder
    BY DEF IInv, Protected
  <1> QED BY <1>1, Invariant, PTL

(* A value kept by nextGuassian is of the current seed (Random.cpp:46).    *)
THEOREM CacheOfCurrentSeed == Spec => []CachedSinceSeed
  <1>1. IInv => CachedSinceSeed
    BY DEF IInv, Protected
  <1> QED BY <1>1, Invariant, PTL

(* No method but nextGuassian of class Random waits for itself             *)
(* (Random.cpp:80).                                                        *)
THEOREM NoOtherMethodBlocks == Spec => []OnlyGuassianBlocks
  <1>1. IInv => OnlyGuassianBlocks
    <2> SUFFICES ASSUME IInv, NEW t \in Threads, SelfBlocked(t)
                 PROVE  kind = "Random" /\ op[t] = "nextGuassian"
      BY Zenon DEF OnlyGuassianBlocks
    <2>1. pc[t] = "next" /\ owner[kind] = t
      BY Zenon DEF SelfBlocked, At, mutexOfNext
    <2>2. kind \in {"Random", "SecureRandom"}
      BY GeneratorAssumption DEF IInv, TypeOK
    <2> QED BY <2>1, <2>2 DEF IInv, Mutexes, InGuassian
  <1> QED BY <1>1, Invariant, PTL

-----------------------------------------------------------------------------
(* The values of nextInt(bound).                                           *)

(* All that matters of the width.                                          *)
LEMMA Width ==
    /\ INT_VALUES \in Nat
    /\ INT_VALUES > 1
    /\ 2 * INT_VALUES \in Nat
  BY SMT DEF INT_VALUES

(* Division by a positive number has one quotient and one remainder.       *)
LEMMA Division ==
    ASSUME NEW m \in Nat \ {0}, NEW a \in Int
    PROVE  /\ a \div m \in Int
           /\ a % m \in 0 .. m - 1
           /\ a = m * (a \div m) + (a % m)
           /\ \A q \in Int, r \in 0 .. m - 1 :
                a = m * q + r => q = a \div m /\ r = a % m
  <1> DEFINE d == a \div m
             e == a % m
  <1>1. d \in Int /\ e \in 0 .. m - 1 /\ a = m * d + e
    BY SMT
  <1> HIDE DEF d, e
  <1>2. ASSUME NEW q \in Int, NEW r \in 0 .. m - 1, a = m * q + r
        PROVE  q = d /\ r = e
    <2>1. m * q - m * d = e - r
      BY <1>1, <1>2
    <2>2. e - r < m /\ r - e < m
      BY <1>1
    <2>3. CASE q >= d + 1
      <3>1. m * q >= m * (d + 1)
        BY <1>1, <2>3, SMT
      <3> QED
        BY <1>1, <2>1, <2>2, <3>1, SMT
    <2>4. CASE d >= q + 1
      <3>1. m * d >= m * (q + 1)
        BY <1>1, <2>4, SMT
      <3> QED
        BY <1>1, <2>1, <2>2, <3>1, SMT
    <2>5. CASE q = d
      BY <1>1, <1>2, <2>5
    <2> QED
      BY <1>1, <2>3, <2>4, <2>5
  <1> QED
    BY <1>1, <1>2 DEF d, e

(* Where bound is a power of two the share first values drawn give 0, the  *)
(* next ones 1, and so on.                                                 *)
LEMMA ScaledByShare ==
    ASSUME NEW bound \in Bound, NEW share \in Nat,
           bound * share = INT_VALUES, NEW b \in Bits
    PROVE  /\ share > 0
           /\ nextIntBelow(bound, b) = b \div share
  <1>1. bound \in Nat \ {0} /\ INT_VALUES \in Nat \ {0} /\ b \in Int
    BY Width DEF Bound, Bits
  <1>2. share > 0
    BY <1>1, SMT
  <1> DEFINE q == b \div share
             r == b % share
  <1>3. q \in Int /\ r \in 0 .. share - 1 /\ b = share * q + r
    BY <1>1, <1>2, Division
  <1> HIDE DEF q, r
  <1>4. bound * b = INT_VALUES * q + bound * r
    BY <1>1, <1>3, SMT
  <1>5. bound * r \in 0 .. INT_VALUES - 1
    <2>1. bound * r >= 0 /\ bound * r <= bound * (share - 1)
      BY <1>1, <1>2, <1>3, SMT
    <2>2. bound * (share - 1) = INT_VALUES - bound
      BY <1>1, SMT
    <2>3. bound * r \in Int /\ bound >= 1
      BY <1>1, <1>3
    <2> QED
      BY <1>1, <2>1, <2>2, <2>3
  <1>6. q = (bound * b) \div INT_VALUES
    <2> DEFINE a == bound * b
    <2>1. a \in Int
      BY <1>1
    <2> HIDE DEF a
    <2>2. a = INT_VALUES * q + bound * r
      BY <1>4 DEF a
    <2>3. q = a \div INT_VALUES
      BY <1>1, <1>3, <1>5, <2>1, <2>2, Division
    <2> QED
      BY <2>3 DEF a
  <1> QED
    BY <1>2, <1>6 DEF nextIntBelow, IsPowerOfTwo, q

(* nextInt(bound) is from 0 inclusive to bound exclusive (Random.hpp:66),  *)
(* however the addition in the loop overflows: secureConfirm may use it as *)
(* an index (Menu.cpp:267).                                                *)
THEOREM NextIntInRange ==
    ASSUME NEW bound \in Bound, NEW bits \in Bits
    PROVE  nextIntBelow(bound, bits) \in 0 .. bound - 1
  <1>1. bound \in Nat \ {0} /\ bits \in Nat
    BY Width DEF Bound, Bits
  <1>2. CASE IsPowerOfTwo(bound)
    <2>1. PICK share \in Nat : bound * share = INT_VALUES
      BY <1>2 DEF IsPowerOfTwo
    <2>2. share > 0 /\ nextIntBelow(bound, bits) = bits \div share
      BY <2>1, ScaledByShare
    <2> DEFINE q == bits \div share
               r == bits % share
    <2>3. q \in Int /\ r \in 0 .. share - 1 /\ bits = share * q + r
      BY <1>1, <2>2, Division
    <2>4. nextIntBelow(bound, bits) = q
      BY <2>2
    <2> HIDE DEF q, r
    <2>5. q >= 0
      <3> SUFFICES ASSUME q <= -1 PROVE FALSE
        BY <2>3
      <3>1. share * q <= -share
        BY <2>2, <2>3, SMT
      <3> QED
        BY <1>1, <2>3, <3>1, SMT
    <2>6. q < bound
      <3> SUFFICES ASSUME q >= bound PROVE FALSE
        BY <1>1, <2>3
      <3>1. share * q >= share * bound
        BY <1>1, <2>2, <2>3, SMT
      <3>2. share * bound = INT_VALUES
        BY <1>1, <2>1, SMT
      <3>3. share * q \in Int /\ bits < INT_VALUES
        BY <2>3, Width DEF Bits
      <3> QED
        BY <1>1, <2>3, <3>1, <3>2, <3>3, SMT, Width
    <2> QED
      BY <1>1, <2>3, <2>4, <2>5, <2>6
  <1>3. CASE ~IsPowerOfTwo(bound)
    BY <1>1, <1>3, Division DEF nextIntBelow
  <1> QED
    BY <1>2, <1>3

(* The values for which nextInt(bound) returns r, if the addition wraps;   *)
(* they are integers.                                                      *)
Giving(bound, r) ==
    {b \in Bits : Taken(bound, b, TRUE) /\ nextIntBelow(bound, b) = r}

LEMMA GivingInts ==
    ASSUME NEW bound, NEW r
    PROVE  Giving(bound, r) \in SUBSET Int
  <1>1. Bits \in SUBSET Int
    BY Width DEF Bits
  <1> QED
    BY <1>1 DEF Giving

(* The number of values for each result where bound is a power of two.     *)
LEMMA ShareOfBound ==
    ASSUME NEW bound \in Bound, IsPowerOfTwo(bound)
    PROVE  LET share == INT_VALUES \div bound IN
           share \in Nat /\ share > 0 /\ bound * share = INT_VALUES
  <1>1. PICK s \in Nat : bound * s = INT_VALUES
    BY DEF IsPowerOfTwo
  <1>2. bound \in Nat \ {0} /\ INT_VALUES \in Int
    BY Width DEF Bound
  <1>3. INT_VALUES = bound * s + 0 /\ 0 \in 0 .. bound - 1
    BY <1>1, <1>2
  <1>4. s = INT_VALUES \div bound
    BY <1>2, <1>3, Division
  <1>5. s > 0
    BY <1>1, Width, SMT DEF Bound
  <1> QED
    BY <1>1, <1>4, <1>5

(* Multiples of bound that are followed by all the other results.          *)
LEMMA Giving0 ==
    ASSUME NEW bound \in Bound, ~IsPowerOfTwo(bound),
           NEW r \in 0 .. bound - 1, NEW b \in Int
    PROVE  b \in Giving(bound, r) <=>
             \E k \in Nat : /\ b = bound * k + r
                           /\ bound * k + (bound - 1) < INT_VALUES
  <1>1. bound \in Nat \ {0} /\ bound < INT_VALUES
    BY Width DEF Bound
  <1> DEFINE d == b \div bound
             e == b % bound
  <1>2. d \in Int /\ e \in 0 .. bound - 1 /\ b = bound * d + e
    BY <1>1, Division
  <1>3. b \in Bits =>
          (Taken(bound, b, TRUE) <=> b - e + (bound - 1) < INT_VALUES)
    BY <1>1, <1>2, Width DEF Taken, AsInt, Bits
  <1>4. nextIntBelow(bound, b) = e
    BY DEF nextIntBelow
  <1> HIDE DEF d, e
  <1>5. ASSUME b \in Giving(bound, r)
        PROVE  \E k \in Nat : /\ b = bound * k + r
                             /\ bound * k + (bound - 1) < INT_VALUES
    <2>1. e = r /\ b \in Bits /\ b - e + (bound - 1) < INT_VALUES
      BY <1>3, <1>4, <1>5 DEF Giving
    <2>2. d >= 0
      <3> SUFFICES ASSUME d <= -1 PROVE FALSE
        BY <1>2
      <3>1. bound * d <= -bound
        BY <1>1, <1>2, SMT
      <3>2. bound * d \in Int /\ b >= 0
        BY <1>1, <1>2, <2>1 DEF Bits
      <3> QED
        BY <1>1, <1>2, <3>1, <3>2, SMT
    <2>3. b - e = bound * d
      BY <1>1, <1>2
    <2> QED
      BY <1>2, <2>1, <2>2, <2>3
  <1>6. ASSUME NEW k \in Nat, b = bound * k + r,
               bound * k + (bound - 1) < INT_VALUES
        PROVE  b \in Giving(bound, r)
    <2>1. r = e
      <3>1. bound \in Nat \ {0} /\ k \in Int
        BY <1>1
      <3> QED
        BY <1>6, <3>1, Division, Zenon DEF e
    <2>2. bound * k \in Nat
      BY <1>1, SMT
    <2>3. b \in Bits /\ b - e + (bound - 1) < INT_VALUES
      BY <1>1, <1>6, <2>1, <2>2, Width DEF Bits
    <2> QED
      BY <1>3, <1>4, <2>1, <2>3 DEF Giving
  <1> QED
    BY <1>5, <1>6

(* The same where bound is a power of two.                                 *)
LEMMA Giving2 ==
    ASSUME NEW bound \in Bound, IsPowerOfTwo(bound),
           NEW r \in 0 .. bound - 1, NEW b \in Int
    PROVE  LET share == INT_VALUES \div bound IN
           b \in Giving(bound, r) <=>
             \E k \in 0 .. share - 1 : b = share * r + k
  <1> DEFINE share == INT_VALUES \div bound
  <1>1. share \in Nat /\ share > 0 /\ bound * share = INT_VALUES
    BY ShareOfBound
  <1>2. Taken(bound, b, TRUE)
    BY DEF Taken
  <1>3. b \in Bits => nextIntBelow(bound, b) = b \div share
    BY <1>1, ScaledByShare
  <1> DEFINE d == b \div share
             e == b % share
  <1> HIDE DEF share
  <1>4. d \in Int /\ e \in 0 .. share - 1 /\ b = share * d + e
    BY <1>1, Division
  <1>5. ASSUME b \in Giving(bound, r)
        PROVE  \E k \in 0 .. share - 1 : b = share * r + k
    <2>1. d = r
      BY <1>3, <1>5 DEF Giving
    <2> HIDE DEF d, e
    <2> QED
      BY <1>4, <2>1
  <1>6. ASSUME NEW k \in 0 .. share - 1, b = share * r + k
        PROVE  b \in Giving(bound, r)
    <2>1. r = d
      <3>1. share \in Nat \ {0} /\ r \in Int
        BY <1>1
      <3> QED
        BY <1>6, <3>1, Division, Zenon DEF d
    <2>2. bound \in Nat /\ r \in Nat /\ r <= bound - 1
      BY Width DEF Bound
    <2>3. share * r >= 0 /\ share * r <= share * (bound - 1)
      BY <1>1, <2>2, SMT
    <2>4. share * (bound - 1) = INT_VALUES - share
      BY <1>1, <2>2, SMT
    <2>5. share * r \in Int /\ INT_VALUES \in Int
      BY <1>1, <2>2, Width
    <2>6. b \in Bits
      <3> HIDE DEF d
      <3> QED
        BY <1>1, <1>6, <2>3, <2>4, <2>5 DEF Bits
    <2> QED
      BY <1>2, <1>3, <2>1, <2>6 DEF Giving
  <1> QED
    BY <1>5, <1>6 DEF share

(* Two sets of integers that shifts take into each other.                  *)
LEMMA Translate ==
    ASSUME NEW A \in SUBSET Int, NEW B \in SUBSET Int, NEW s \in Int,
           \A a \in A : a + s \in B,
           \A b \in B : b - s \in A
    PROVE  B = {a + s : a \in A}
  <1>1. ASSUME NEW b \in B PROVE b \in {a + s : a \in A}
    <2>1. b = (b - s) + s
      OBVIOUS
    <2> QED
      BY <2>1
  <1> QED
    BY <1>1

(* No result of nextInt(bound) is preferred, where the addition in the     *)
(* loop wraps round: the values that give one result are those that give   *)
(* another, shifted, and there are some, so that the loop can end.         *)
THEOREM NextIntFair ==
    ASSUME NEW bound \in Bound,
           NEW r \in 0 .. bound - 1, NEW q \in 0 .. bound - 1
    PROVE  /\ Giving(bound, r) # {}
           /\ \E s \in Int : Giving(bound, q) = {b + s : b \in Giving(bound, r)}
  <1>0. bound \in Nat \ {0} /\ bound < INT_VALUES
    BY Width DEF Bound
  <1>1. CASE ~IsPowerOfTwo(bound)
    <2>1. r \in Giving(bound, r)
      <3>1. r = bound * 0 + r /\ bound * 0 + (bound - 1) < INT_VALUES
        BY <1>0, Width
      <3> QED
        BY <1>1, <3>1, Giving0
    <2>2. ASSUME NEW b \in Giving(bound, r)
          PROVE  b + (q - r) \in Giving(bound, q)
      <3>1. b \in Int
        BY DEF Giving, Bits
      <3>2. PICK k \in Nat : /\ b = bound * k + r
                            /\ bound * k + (bound - 1) < INT_VALUES
        BY <1>1, <3>1, Giving0
      <3>3. b + (q - r) \in Int /\ b + (q - r) = bound * k + q
        BY <1>0, <3>1, <3>2
      <3> QED
        BY <1>1, <3>2, <3>3, Giving0
    <2>3. ASSUME NEW b \in Giving(bound, q)
          PROVE  b + (r - q) \in Giving(bound, r)
      <3>1. b \in Int
        BY DEF Giving, Bits
      <3>2. PICK k \in Nat : /\ b = bound * k + q
                            /\ bound * k + (bound - 1) < INT_VALUES
        BY <1>1, <3>1, Giving0
      <3>3. b + (r - q) \in Int /\ b + (r - q) = bound * k + r
        BY <1>0, <3>1, <3>2
      <3> QED
        BY <1>1, <3>2, <3>3, Giving0
    <2> QED
      <3> DEFINE A == Giving(bound, r)
                 B == Giving(bound, q)
      <3>1. A \in SUBSET Int /\ B \in SUBSET Int /\ q - r \in Int
        BY GivingInts
      <3>2. \A b \in B : b - (q - r) \in A
        <4>1. \A b \in B : b \in Int /\ b - (q - r) = b + (r - q)
          BY <3>1
        <4> QED
          BY <2>3, <4>1
      <3>3. \A a \in A : a + (q - r) \in B
        BY <2>2
      <3> HIDE DEF A, B
      <3>4. B = {a + (q - r) : a \in A}
        BY <3>1, <3>2, <3>3, Translate
      <3> QED
        BY <2>1, <3>1, <3>4 DEF A, B
  <1>2. CASE IsPowerOfTwo(bound)
    <2> DEFINE share == INT_VALUES \div bound
    <2>0. share \in Nat /\ share > 0
      BY <1>2, ShareOfBound
    <2>1. \A x \in 0 .. bound - 1, b \in Int :
             b \in Giving(bound, x) <=>
               \E k \in 0 .. share - 1 : b = share * x + k
      BY <1>2, Giving2
    <2> HIDE DEF share
    <2>2. share * r \in Giving(bound, r)
      <3>1. share * r \in Int /\ share * r = share * r + 0
            /\ 0 \in 0 .. share - 1
        BY <2>0
      <3> QED
        BY <2>1, <3>1
    <2>3. ASSUME NEW x \in 0 .. bound - 1, NEW y \in 0 .. bound - 1,
                 NEW b \in Giving(bound, x)
          PROVE  b + (share * y - share * x) \in Giving(bound, y)
      <3>1. b \in Int
        BY DEF Giving, Bits
      <3>2. PICK k \in 0 .. share - 1 : b = share * x + k
        BY <2>1, <3>1
      <3>3. /\ b + (share * y - share * x) \in Int
            /\ b + (share * y - share * x) = share * y + k
        BY <2>0, <3>1, <3>2
      <3> QED
        BY <2>1, <3>2, <3>3
    <2>4. share * q - share * r \in Int
      BY <2>0
    <2> DEFINE A == Giving(bound, r)
               B == Giving(bound, q)
               d == share * q - share * r
    <2>5. A \in SUBSET Int /\ B \in SUBSET Int
      BY GivingInts
    <2>6. \A b \in B : b - d \in A
      <3>1. \A b \in B : /\ b \in Int
                        /\ b - d = b + (share * r - share * q)
        BY <2>0, <2>5
      <3> QED
        BY <2>3, <3>1
    <2>7. \A a \in A : a + d \in B
      BY <2>3
    <2> HIDE DEF A, B, d
    <2>8. B = {a + d : a \in A}
      <3>1. d \in Int
        BY <2>4 DEF d
      <3> QED
        BY <2>5, <2>6, <2>7, <3>1, Translate
    <2> QED
      BY <2>2, <2>4, <2>8 DEF A, B, d
  <1> QED
    BY <1>1, <1>2
=============================================================================
