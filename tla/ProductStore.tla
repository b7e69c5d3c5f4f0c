---------------------------- MODULE ProductStore ----------------------------
(***************************************************************************)
(* What the product list promises its users (Bindings.hpp, Products):      *)
(* an AccountStore whose removals are not final.  removeProduct takes the  *)
(* product out of the map at any time, also while another thread loads or  *)
(* saves; a later save may store it all the same.  Every other product is  *)
(* stored and loaded like an account: a content is what the promise is     *)
(* kept for, all fields but the telephone number.                          *)
(***************************************************************************)
EXTENDS AccountStore

VARIABLE
    removed         \* the products removed since the process started

productVars == <<storeVars, removed>>

(* A load under way may bring the product back.                            *)
TakeOut(u) ==
    /\ removed' = removed \cup {u}
    /\ \/ volatile' = [volatile EXCEPT ![u] = NoAccount]
       \/ activity = "loading" /\ UNCHANGED volatile
    /\ UNCHANGED <<durable, activity>>

EndSaving ==
    /\ Become("saving", "ready")
    /\ durable' \in Accounts
    /\ \A u \in Uuid :
         \/ durable'[u] = volatile[u]
         \/ volatile[u] = NoAccount /\ u \in removed
    /\ UNCHANGED <<volatile, removed>>

ProductNext ==
    \/ /\ \/ Open
          \/ BeginLoad
          \/ EndLoad
          \/ \E u \in Uuid, c \in Content : Put(u, c)
          \/ BeginSave
       /\ UNCHANGED removed
    \/ \E u \in Uuid : TakeOut(u)
    \/ EndSaving
    \/ Stop /\ removed' = {}

ProductSpec == Init /\ removed = {} /\ [][ProductNext]_productVars
=============================================================================
