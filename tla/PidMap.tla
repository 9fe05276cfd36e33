--------------------------------- MODULE PidMap ---------------------------------
(***************************************************************************)
(* The hash map of libs/map.c, in which a plan finds the simulated process *)
(* of a pid.  A key is stored in its home slot, or, if that is taken, in a *)
(* free slot after it.  `first' of the home slot starts the chain of the   *)
(* keys that belong there, `next' goes on; a home slot may hold a key of   *)
(* another chain.                                                          *)
(*                                                                         *)
(* No operation changes map->count, so map_grow (called when count reaches *)
(* growth_trigger, which is positive) never runs and the capacity is fixed. *)
(***************************************************************************)
EXTENDS Integers, FiniteSets

CONSTANTS
  MaxKey,     \* keys, the pids, are 1 .. MaxKey
  Capacity    \* max_sim_procs

ASSUME PidMapAssumption ==
  /\ MaxKey \in Nat
  /\ Capacity \in Nat \ {0}

VARIABLES
  hash,       \* key -> home slot: triple32inc(key) % capacity, never changed
  list,       \* slot -> entry; key 0 means the slot is free
  result,     \* what the last call returned
  probing     \* a search for a free slot is going round for ever

vars == <<hash, list, result, probing>>

Keys  == 1 .. MaxKey
Slots == 0 .. Capacity - 1
Free  == [key |-> 0, value |-> 0, first |-> 0, next |-> 0]

Ok       == [code |-> "OK"]
Got(v)   == [code |-> "OK", out |-> v]
Error(c) == [code |-> c]

--------------------------------------------------------------------------------
\* The slot reached from the home slot of k after following `first' and then
\* n times `next'; -1 behind the end of the chain.
Link(k) ==
  LET link[n \in 0 .. Capacity] ==
        IF n = 0 THEN list[hash[k]].first
        ELSE IF link[n - 1] < 0 THEN -1 ELSE list[link[n - 1]].next
  IN  link

\* The chain of k: the slots map_insert and map_get look at.
Chain(k) ==
  IF list[hash[k]].key = 0 THEN {} ELSE {Link(k)[n] : n \in 0 .. Capacity} \ {-1}

\* The slots in which key k is found.
FoundAt(k) == {s \in Chain(k) : list[s].key = k}

\* Mutant: the slot after s is taken for free.
SlotAfter(s) == {(s + 1) % Capacity}

\* Mutant: the search does not go round.
NextFreeAhead(s) ==
  {f \in s + 1 .. Capacity - 1 :
     list[f].key = 0 /\ \A g \in s + 1 .. f - 1 : list[g].key # 0}

\* The first free slot after slot s, going round; empty when there is none.
NextFree(s) ==
  {f \in Slots : /\ list[f].key = 0
                 /\ \A g \in Slots : list[g].key = 0 =>
                      (f - s + Capacity) % Capacity <= (g - s + Capacity) % Capacity}

--------------------------------------------------------------------------------
\* map_init
Init ==
  /\ hash \in [Keys -> Slots]
  /\ list = [s \in Slots |-> Free]
  /\ result = Ok
  /\ probing = FALSE

Refuse(c) == result' = Error(c) /\ UNCHANGED <<hash, list, probing>>

\* Mutant: the chain of a new home slot is not closed.
InsertHomeOpen(k, v) ==
  /\ list[hash[k]].key = 0
  /\ list' = [list EXCEPT ![hash[k]] =
                [key |-> k, value |-> v, first |-> hash[k], next |-> 0]]
  /\ result' = Ok
  /\ UNCHANGED <<hash, probing>>

\* The home slot is free: its entry starts the chain.
InsertHome(k, v) ==
  /\ list[hash[k]].key = 0
  /\ list' = [list EXCEPT ![hash[k]] =
                [key |-> k, value |-> v, first |-> hash[k], next |-> -1]]
  /\ result' = Ok
  /\ UNCHANGED <<hash, probing>>

\* The slots of the chain of k that have no next one.
Ends(k) == {s \in Chain(k) : list[s].next < 0}

\* It is taken: the entry goes into the first free slot after the end of the
\* chain (after the home slot, if nothing belongs there yet), and is linked.
InsertChained(k, v) ==
  /\ list[hash[k]].key # 0
  /\ FoundAt(k) = {}
  /\ \E end \in IF Chain(k) = {} THEN {hash[k]} ELSE Ends(k) :
       IF NextFree(end) = {}
       THEN probing' = TRUE /\ UNCHANGED <<hash, list, result>>
       ELSE \E f \in NextFree(end) :
              LET linked == IF Chain(k) = {}
                            THEN [list EXCEPT ![end].first = f]
                            ELSE [list EXCEPT ![end].next = f]
              IN  /\ list' = [linked EXCEPT ![f] =
                                [key |-> k, value |-> v, first |-> -1, next |-> -1]]
                  /\ result' = Ok
                  /\ UNCHANGED <<hash, probing>>

\* map_insert
Insert(k, v) ==
  /\ ~probing
  /\ \/ k <= 0 /\ Refuse("ERR_INVALID_KEY")
     \/ k > 0 /\ InsertHome(k, v)
     \/ k > 0 /\ FoundAt(k) # {} /\ Refuse("ERR_DUPLICATE_KEY")
     \/ k > 0 /\ InsertChained(k, v)

\* map_get
Get(k) ==
  /\ ~probing
  /\ \/ k <= 0 /\ Refuse("ERR_INVALID_KEY")
     \/ k > 0 /\ FoundAt(k) = {} /\ Refuse("ERR_KEY_NOT_FOUND")
     \/ /\ k > 0
        /\ \E s \in FoundAt(k) : result' = Got(list[s].value)
        /\ UNCHANGED <<hash, list, probing>>

\* The calls the program makes: plan_txt_create_process maps a pid to the sim_pid
\* it gives out in the same order, here for the pids in any order and repeatedly;
\* nothing calls map_delete.
Next ==
  \/ \E k \in 0 .. MaxKey : Insert(k, k - 1)
  \/ \E k \in 0 .. MaxKey : Get(k)

Spec == Init /\ [][Next]_vars

--------------------------------------------------------------------------------
\* The entries and what they point to; a chain has an end.
TypeOK ==
  /\ hash \in [Keys -> Slots]
  /\ list \in [Slots -> [key : Keys \cup {0}, value : 0 .. MaxKey,
                         first : Slots \cup {-1}, next : Slots \cup {-1}]]
  /\ probing \in BOOLEAN
  /\ \A k \in Keys : Link(k)[Capacity] = -1 \/ list[hash[k]].key = 0

\* The keys in the array, with their values.
Stored == {list[s].key : s \in Slots} \ {0}
Contents ==
  [k \in Stored |-> list[CHOOSE s \in Slots : list[s].key = k].value]

M == INSTANCE Mapping WITH dict <- Contents, Value <- 0 .. MaxKey

\* Whatever the hash function, every call answers as the map of the stored keys
\* does: chains that run through each other's slots hide no key and mix none up
\* (map.c:91-175).
ImplementsMapping == M!Spec

\* A map with room for all keys is never searched for a free slot in vain: the
\* plan's map has exactly max_sim_procs slots, does not grow, and the search has
\* no other end (map.c:121).
NeverFull == ~probing

================================================================================
