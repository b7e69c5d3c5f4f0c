--------------------------- MODULE RequisitionLog ---------------------------
(***************************************************************************)
(* What Product::request promises (Bindings.hpp, "Creates a new supply     *)
(* requisition"): the stored list grows by one entry, which a process does *)
(* by replacing the list it read.  A process has one replacement under way *)
(* at a time, so alone it appends; nothing orders those of two processes.  *)
(***************************************************************************)
EXTENDS Sequences

CONSTANTS
    Process,    \* the processes that share the file
    Entry,      \* the requisitions they make
    NoBasis,    \* a process that is not replacing the list
    Unreadable  \* storage cut off in the middle of a replacement

VARIABLES
    log,        \* the stored list
    basis       \* basis[p]: the list p read and is about to extend

logVars == <<log, basis>>

Init ==
    /\ log \in Seq(Entry) \cup {Unreadable}
    /\ basis = [p \in Process |-> NoBasis]

Begin(p) ==
    /\ basis[p] = NoBasis
    /\ log # Unreadable
    /\ basis' = [basis EXCEPT ![p] = log]
    /\ UNCHANGED log

(* The file cannot be opened: what is written will be all there is.        *)
BeginUnread(p) ==
    /\ basis[p] = NoBasis
    /\ basis' = [basis EXCEPT ![p] = <<>>]
    /\ UNCHANGED log

Truncate(p) ==
    /\ basis[p] # NoBasis
    /\ log' = Unreadable
    /\ UNCHANGED basis

Commit(p, e) ==
    /\ basis[p] # NoBasis
    /\ log' = Append(basis[p], e)
    /\ basis' = [basis EXCEPT ![p] = NoBasis]

(* The process is killed before it writes, or cannot open the file then.   *)
Abandon(p) ==
    /\ basis' = [basis EXCEPT ![p] = NoBasis]
    /\ UNCHANGED log

Next ==
    \E p \in Process :
        \/ Begin(p)
        \/ BeginUnread(p)
        \/ Truncate(p)
        \/ \E e \in Entry : Commit(p, e)
        \/ Abandon(p)

Spec == Init /\ [][Next]_logVars
=============================================================================
