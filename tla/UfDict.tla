------------------------------- MODULE UfDict -------------------------------
(***************************************************************************)
(* What the map of unfinity promises its callers (uf_containers.h, "Map is *)
(* just a list of key-value pairs (a dictionary if you will)"): a partial  *)
(* function from keys to values, and one answer per call.  Nothing of the  *)
(* hash table (slots, probing, growth) is visible here; UfMap implements   *)
(* this specification.                                                     *)
(***************************************************************************)
CONSTANTS
  Keys,       \* the strings callers use as keys
  Values,     \* the non-null pointers callers store
  NoValue     \* nullptr

VARIABLES
  dict,       \* the value stored under each key, NoValue when there is none
  result      \* what the last finished call returned

vars == <<dict, result>>

Init ==
  /\ dict = [k \in Keys |-> NoValue]
  /\ result = NoValue

(* uf_con_map_put: TRUE when the key is new, FALSE when it was overwritten. *)
Put(k, v) ==
  /\ dict' = [dict EXCEPT ![k] = v]
  /\ result' = (dict[k] = NoValue)

(* uf_con_map_get: the stored pointer, or nullptr. *)
Get(k) ==
  /\ result' = dict[k]
  /\ UNCHANGED dict

(* uf_con_map_remove: whether the key was there. *)
Remove(k) ==
  /\ dict' = [dict EXCEPT ![k] = NoValue]
  /\ result' = (dict[k] # NoValue)

Next ==
  \E k \in Keys :
    \/ \E v \in Values : Put(k, v)
    \/ Get(k)
    \/ Remove(k)

Spec == Init /\ [][Next]_vars

=============================================================================
