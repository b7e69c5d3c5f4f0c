---------------------------- MODULE AccountStore ----------------------------
(***************************************************************************)
(* What the employee list promises its users (Bindings.hpp, Employees):    *)
(* accounts kept by UUID, load from and save to persistent storage.        *)
(* Saving replaces the stored accounts by those in memory; a process that  *)
(* stops in the middle of it leaves storage that cannot be read.           *)
(***************************************************************************)

CONSTANTS
    Uuid,           \* the identifiers of employees
    Content,        \* what is stored of an employee besides its UUID
    NoAccount,      \* no account under this UUID
    Lost            \* storage that cannot be read back

VARIABLES
    durable,        \* the accounts in persistent storage
    volatile,       \* the accounts of the running process
    activity        \* whether a process runs, and the call it is in

storeVars == <<durable, volatile, activity>>

Accounts == [Uuid -> Content \cup {NoAccount}]

NoAccounts == [u \in Uuid |-> NoAccount]

(* The accounts of over, and those of under that over does not have.       *)
Merge(over, under) ==
    [u \in Uuid |-> IF over[u] # NoAccount THEN over[u] ELSE under[u]]

Init ==
    /\ durable \in Accounts \cup {Lost}
    /\ volatile = NoAccounts
    /\ activity = "down"

Become(before, after) ==
    /\ activity = before
    /\ activity' = after

Open ==
    /\ Become("down", "ready")
    /\ UNCHANGED <<durable, volatile>>

(* A load takes effect at once; until it returns nothing else happens.     *)
BeginLoad ==
    /\ Become("ready", "loading")
    /\ durable # Lost
    /\ volatile' = Merge(durable, volatile)
    /\ UNCHANGED durable

EndLoad ==
    /\ Become("loading", "ready")
    /\ UNCHANGED <<durable, volatile>>

Put(u, c) ==
    /\ activity = "ready"
    /\ volatile' = [volatile EXCEPT ![u] = c]
    /\ UNCHANGED <<durable, activity>>

Remove(u) ==
    /\ activity = "ready"
    /\ volatile' = [volatile EXCEPT ![u] = NoAccount]
    /\ UNCHANGED <<durable, activity>>

BeginSave ==
    /\ Become("ready", "saving")
    /\ durable' = Lost
    /\ UNCHANGED volatile

EndSave ==
    /\ Become("saving", "ready")
    /\ durable' = volatile
    /\ UNCHANGED volatile

Stop ==
    /\ activity # "down"
    /\ activity' = "down"
    /\ volatile' = NoAccounts
    /\ UNCHANGED durable

Next ==
    \/ Open
    \/ BeginLoad
    \/ EndLoad
    \/ \E u \in Uuid, c \in Content : Put(u, c)
    \/ \E u \in Uuid : Remove(u)
    \/ BeginSave
    \/ EndSave
    \/ Stop

Spec == Init /\ [][Next]_storeVars
=============================================================================
