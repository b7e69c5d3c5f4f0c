----------------------------- MODULE Generator -----------------------------
(***************************************************************************)
(* One generator shared by threads: class Random (Random.cpp), or class    *)
(* SecureRandom derived from it (SecureRandom.cpp).  Random has a mutex    *)
(* that is not recursive, SecureRandom another one of the same name for    *)
(* the state it draws from.  A value is its number in the sequence that    *)
(* the state belongs to: setSeed of Random begins the one of the seed,     *)
(* that of SecureRandom leaves the state and its sequence as they are.     *)
(***************************************************************************)
EXTENDS Naturals, Sequences

CONSTANTS
    Threads, NoThread,
    Kinds,          \* the classes an instance is about
    Ops,            \* the methods its threads call
    MaxCalls,       \* bound: calls of one thread
    MaxRounds       \* bound: rounds of a rejection loop

ASSUME GeneratorAssumption ==
    /\ NoThread \notin Threads
    /\ Kinds \subseteq {"Random", "SecureRandom"}
    /\ Ops \subseteq {"nextInt", "nextIntBelow", "nextDouble", "nextGuassian",
                      "nextBytes", "setSeed"}
    /\ MaxCalls \in Nat
    /\ MaxRounds \in Nat \ {0}

VARIABLES
    kind,       \* the class of the generator
    owner,      \* owner["Random"], owner["SecureRandom"]: their mutexes
    position,   \* the state next computes from: how many values of its
                \* sequence it has given
    have,       \* haveNextNextGaussian
    cachedIn,   \* history: the seeding nextNextGaussian was made in
    seedings,   \* history: how often setSeed was called
    seededAt,   \* history: the position the last setSeed left
    given,      \* history: the values given since then
    pc, op, calls,
    todo,       \* todo[t]: values to draw in this round
    rounds,     \* rounds[t]: rounds begun
    read,       \* read[t]: the state as next has read it
    since       \* history: the seeding the call of t began to draw in

memory == <<position, have, cachedIn, seedings, seededAt, given>>
local == <<todo, rounds, read, since>>
vars == <<kind, owner, memory, pc, op, calls, local>>

Init ==
    /\ kind \in Kinds
    /\ owner = [l \in {"Random", "SecureRandom"} |-> NoThread]
    /\ position = 0
    /\ have = FALSE
    /\ cachedIn = 0
    /\ seedings = 0
    /\ seededAt = 0
    /\ given = <<>>
    /\ pc = [t \in Threads |-> "idle"]
    /\ op = [t \in Threads |-> "none"]
    /\ calls = [t \in Threads |-> 0]
    /\ todo = [t \in Threads |-> 0]
    /\ rounds = [t \in Threads |-> 0]
    /\ read = [t \in Threads |-> 0]
    /\ since = [t \in Threads |-> 0]

-----------------------------------------------------------------------------

At(t, label) == pc[t] = label
Goto(t, label) == pc' = [pc EXCEPT ![t] = label]

Acquire(t, l) ==
    /\ owner[l] = NoThread
    /\ owner' = [owner EXCEPT ![l] = t]

Release(t, l) == owner' = [owner EXCEPT ![l] = NoThread]

(* How often a round calls next: nextDouble twice, nextGuassian twice that,*)
(* nextBytes for each four bytes (here eight), SecureRandom for all at once*)
Draws(o) ==
    CASE o = "nextDouble" -> 2
      [] o = "nextGuassian" -> 4
      [] o = "nextBytes" /\ kind = "Random" -> 2
      [] OTHER -> 1

(* nextInt(bound) and nextGuassian draw again until a value will do.       *)
Rejects(o) == o \in {"nextIntBelow", "nextGuassian"}

(* nextGuassian and setSeed lock the mutex of Random themselves.           *)
Call(t, o) ==
    /\ At(t, "idle")
    /\ calls[t] < MaxCalls
    /\ calls' = [calls EXCEPT ![t] = @ + 1]
    /\ op' = [op EXCEPT ![t] = o]
    /\ todo' = [todo EXCEPT ![t] = Draws(o)]
    /\ rounds' = [rounds EXCEPT ![t] = 1]
    /\ Goto(t, CASE o = "nextGuassian" -> "guassian"
                 [] o = "setSeed" -> "setSeed"
                 [] OTHER -> "next")
    /\ UNCHANGED <<kind, owner, memory, read, since>>

End(t) ==
    /\ Goto(t, "idle")
    /\ op' = [op EXCEPT ![t] = "none"]
    /\ UNCHANGED <<kind, calls, local>>

-----------------------------------------------------------------------------
(* next(bits), a virtual function: under the mutex of the class it reads   *)
(* the state and replaces it.                                              *)

(* Fault: SecureRandom shares the mutex of its base class.                 *)
mutexOfNextShared == "Random"

mutexOfNext == kind

(* Fault: the state is read before the mutex is taken.                     *)
NextUnlocked(t) ==
    /\ At(t, "next")
    /\ Goto(t, "advance")
    /\ read' = [read EXCEPT ![t] = position]
    /\ UNCHANGED <<kind, owner, memory, op, calls, todo, rounds, since>>

NextLock(t) ==
    /\ At(t, "next")
    /\ Acquire(t, mutexOfNext)
    /\ Goto(t, "advance")
    /\ read' = [read EXCEPT ![t] = position]
    /\ UNCHANGED <<kind, memory, op, calls, todo, rounds, since>>

(* Fault: the mutex is not released.                                       *)
AdvanceHeld(t) ==
    /\ At(t, "advance")
    /\ position' = read[t] + 1
    /\ given' = Append(given, read[t])
    /\ UNCHANGED owner
    /\ todo' = [todo EXCEPT ![t] = @ - 1]
    /\ Goto(t, IF todo[t] = 1 THEN "drawn" ELSE "next")
    /\ UNCHANGED <<kind, have, cachedIn, seedings, seededAt, op, calls,
                   rounds, read, since>>

Advance(t) ==
    /\ At(t, "advance")
    /\ position' = read[t] + 1
    /\ given' = Append(given, read[t])
    /\ Release(t, mutexOfNext)
    /\ todo' = [todo EXCEPT ![t] = @ - 1]
    /\ Goto(t, IF todo[t] = 1 THEN "drawn" ELSE "next")
    /\ UNCHANGED <<kind, have, cachedIn, seedings, seededAt, op, calls,
                   rounds, read, since>>

(* Fault: the second round draws nothing.                                  *)
DrawAgainStale(t) ==
    /\ At(t, "drawn")
    /\ Rejects(op[t])
    /\ rounds[t] < MaxRounds
    /\ rounds' = [rounds EXCEPT ![t] = @ + 1]
    /\ UNCHANGED todo
    /\ Goto(t, "next")
    /\ UNCHANGED <<kind, owner, memory, op, calls, read, since>>

DrawAgain(t) ==
    /\ At(t, "drawn")
    /\ Rejects(op[t])
    /\ rounds[t] < MaxRounds
    /\ rounds' = [rounds EXCEPT ![t] = @ + 1]
    /\ todo' = [todo EXCEPT ![t] = Draws(op[t])]
    /\ Goto(t, "next")
    /\ UNCHANGED <<kind, owner, memory, op, calls, read, since>>

Accept(t) ==
    /\ At(t, "drawn")
    /\ op[t] # "nextGuassian"
    /\ End(t)
    /\ UNCHANGED <<owner, memory>>

-----------------------------------------------------------------------------
(* nextGuassian: the second value of a pair is kept for the next call.     *)

Guassian(t) ==
    /\ At(t, "guassian")
    /\ Acquire(t, "Random")
    /\ since' = [since EXCEPT ![t] = seedings]
    /\ Goto(t, IF have THEN "cached" ELSE "next")
    /\ UNCHANGED <<kind, memory, op, calls, todo, rounds, read>>

Cached(t) ==
    /\ At(t, "cached")
    /\ have' = FALSE
    /\ Release(t, "Random")
    /\ End(t)
    /\ UNCHANGED <<position, cachedIn, seedings, seededAt, given>>

AcceptPair(t) ==
    /\ At(t, "drawn")
    /\ op[t] = "nextGuassian"
    /\ have' = TRUE
    /\ cachedIn' = since[t]
    /\ Release(t, "Random")
    /\ End(t)
    /\ UNCHANGED <<position, seedings, seededAt, given>>

-----------------------------------------------------------------------------
(* setSeed.  That of SecureRandom computes words from the seed and drops   *)
(* them, for initSeed is never called: what it changes is the state of its *)
(* base class, which it does not draw from, and the kept value.            *)

(* The position in the sequence that the next value is computed from.      *)
Seeded == IF kind = "Random" THEN 0 ELSE position

(* Fault: setSeed does not wait for the mutex.                             *)
SetSeedUnlocked(t) ==
    /\ At(t, "setSeed")
    /\ seedings' = seedings + 1
    /\ position' = Seeded
    /\ seededAt' = Seeded
    /\ given' = <<>>
    /\ have' = FALSE
    /\ End(t)
    /\ UNCHANGED <<owner, cachedIn>>

SetSeed(t) ==
    /\ At(t, "setSeed")
    /\ Acquire(t, "Random")
    /\ seedings' = seedings + 1
    /\ position' = Seeded
    /\ seededAt' = Seeded
    /\ given' = <<>>
    /\ Goto(t, "clear")
    /\ UNCHANGED <<kind, have, cachedIn, op, calls, local>>

Clear(t) ==
    /\ At(t, "clear")
    /\ have' = FALSE
    /\ Release(t, "Random")
    /\ End(t)
    /\ UNCHANGED <<position, cachedIn, seedings, seededAt, given>>

Step(t) ==
    \/ NextLock(t)
    \/ Advance(t)
    \/ DrawAgain(t)
    \/ Accept(t)
    \/ Guassian(t)
    \/ Cached(t)
    \/ AcceptPair(t)
    \/ SetSeed(t)
    \/ Clear(t)

Next == \E t \in Threads : Step(t) \/ \E o \in Ops : Call(t, o)

Spec == Init /\ [][Next]_vars /\ \A t \in Threads : WF_vars(Step(t))

-----------------------------------------------------------------------------

TypeOK ==
    /\ kind \in Kinds
    /\ owner \in [{"Random", "SecureRandom"} -> Threads \cup {NoThread}]
    /\ position \in Nat
    /\ have \in BOOLEAN
    /\ cachedIn \in Nat
    /\ seedings \in Nat
    /\ seededAt \in Nat
    /\ given \in Seq(Nat)
    /\ pc \in [Threads -> {"idle", "next", "advance", "drawn", "guassian",
                           "cached", "setSeed", "clear"}]
    /\ op \in [Threads -> Ops \cup {"none"}]
    /\ calls \in [Threads -> 0..MaxCalls]
    /\ todo \in [Threads -> 0..4]
    /\ rounds \in [Threads -> 0..MaxRounds]
    /\ read \in [Threads -> Nat]
    /\ since \in [Threads -> Nat]

(* Since the last setSeed no two draws of any threads have got the same    *)
(* value and none was left out: together they have a stretch of one        *)
(* sequence, in order.  For class Random it is the sequence of that seed   *)
(* from its first value on; for SecureRandom, whose setSeed has no such    *)
(* effect, it goes on where the values before the setSeed ended.           *)
ValuesInOrder ==
    /\ kind = "Random" => seededAt = 0
    /\ position = seededAt + Len(given)
    /\ \A i \in DOMAIN given : given[i] = seededAt + i - 1

(* The value nextGuassian keeps was made after the last setSeed, also when *)
(* setSeed comes while another thread is drawing (Random.hpp, setSeed).    *)
CachedSinceSeed ==
    have => cachedIn = seedings \/ \E t \in Threads : At(t, "clear")

(* Thread t waits for a mutex it holds.                                    *)
SelfBlocked(t) == At(t, "next") /\ owner[mutexOfNext] = t

(* Only nextGuassian of class Random locks a mutex twice; SecureRandom     *)
(* draws under a mutex of its own.                                         *)
OnlyGuassianBlocks ==
    \A t \in Threads :
        SelfBlocked(t) => kind = "Random" /\ op[t] = "nextGuassian"

(* Every call returns, with any interleaving of the two mutexes, unless a  *)
(* nextGuassian of class Random has blocked itself and thereby the others. *)
CallsReturn ==
    \A t \in Threads :
        ~At(t, "idle") ~> (At(t, "idle") \/ \E u \in Threads : SelfBlocked(u))
=============================================================================
