-------------------------------- MODULE Mapping --------------------------------
(***************************************************************************)
(* What libs/map.h promises: a finite map from positive keys to values.    *)
(***************************************************************************)
EXTENDS Integers

CONSTANTS MaxKey, Value

VARIABLES
  dict,     \* the keys in the map and their values
  result    \* what the last call returned: its code, and the value given out

Keys == 1 .. MaxKey

Ok       == [code |-> "OK"]
Got(v)   == [code |-> "OK", out |-> v]
Error(c) == [code |-> c]

Init == dict = [k \in {} |-> 0] /\ result = Ok

Refuse(c) == result' = Error(c) /\ UNCHANGED dict

Insert(k, v) ==
  \/ k \notin Keys /\ Refuse("ERR_INVALID_KEY")
  \/ k \in DOMAIN dict /\ Refuse("ERR_DUPLICATE_KEY")
  \/ /\ k \in Keys \ DOMAIN dict
     /\ dict' = [j \in DOMAIN dict \cup {k} |-> IF j = k THEN v ELSE dict[j]]
     /\ result' = Ok

Lookup(k) ==
  \/ k \notin Keys /\ Refuse("ERR_INVALID_KEY")
  \/ k \in Keys \ DOMAIN dict /\ Refuse("ERR_KEY_NOT_FOUND")
  \/ k \in DOMAIN dict /\ result' = Got(dict[k]) /\ UNCHANGED dict

Next == \E k \in 0 .. MaxKey : Lookup(k) \/ \E v \in Value : Insert(k, v)

Spec == Init /\ [][Next]_<<dict, result>>

================================================================================
