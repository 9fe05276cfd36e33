------------------------------ MODULE PidMapProofs ------------------------------
(***************************************************************************)
(* The pid map, for every capacity, every number of keys and every hash    *)
(* function: it answers like the map of the keys stored in it, and if it   *)
(* has a slot for each key no search for a free one goes round for ever.   *)
(***************************************************************************)
EXTENDS PidMap, FiniteSetTheorems, WellFoundedInduction, TLAPS

-------------------------------------------------------------------------------
(***************************************************************************)
(* The inductive invariant                                                 *)
(***************************************************************************)

\* The slots in use, and the home slot of the key in a slot.
Taken   == {s \in Slots : list[s].key # 0}
Home(s) == hash[list[s].key]

Entries ==
  /\ hash \in [Keys -> Slots]
  /\ list \in [Slots -> [key : Keys \cup {0}, value : 0 .. MaxKey,
                         first : Slots \cup {-1}, next : Slots \cup {-1}]]
  /\ probing \in BOOLEAN

KeyOnce == \A s, t \in Taken : list[s].key = list[t].key => s = t

\* The home slot of a stored key is in use, by that key or another, and the key
\* is the first of the chain that starts there, or the next of one of it.
Linked ==
  \A s \in Taken :
    /\ Home(s) \in Taken
    /\ \/ list[Home(s)].first = s
       \/ \E r \in Taken : list[r].next = s

\* Links lead to entries of the same chain.
Pointed ==
  \A s \in Taken :
    /\ list[s].first # -1 => list[s].first \in Taken /\ Home(list[s].first) = s
    /\ list[s].next # -1 => list[s].next \in Taken /\ Home(list[s].next) = Home(s)

\* The rank of an entry, the number of those stored before it, grows along a chain.
Ranked(rank) ==
  /\ rank \in [Slots -> Nat]
  /\ \A s \in Taken :
       /\ rank[s] < Cardinality(Taken)
       /\ list[s].next # -1 => rank[s] < rank[list[s].next]

MapInv == Entries /\ KeyOnce /\ Linked /\ Pointed /\ \E rank : Ranked(rank)

-------------------------------------------------------------------------------
(***************************************************************************)
(* Numbers: induction and recursion without an operator as a parameter     *)
(***************************************************************************)

LEMMA Least ==
  ASSUME NEW S \in SUBSET Nat, S # {}
  PROVE  \E m \in S : \A n \in S : m <= n
<1> DEFINE below(m) == 0 .. m
           T == {below(m) : m \in S}
<1>1. T \subseteq FiniteSubsetsOf(Nat) /\ T # {}
  <2>1. \A m \in Nat : below(m) \subseteq Nat /\ IsFiniteSet(below(m))
    BY FS_Interval
  <2> HIDE DEF below
  <2> QED BY <2>1 DEF FiniteSubsetsOf
<1>2. \E t \in T : \A u \in T : <<u, t>> \notin StrictSubsetOrdering(Nat)
  <2>1. IsWellFoundedOn(StrictSubsetOrdering(Nat), FiniteSubsetsOf(Nat))
    BY FS_StrictSubsetOrderingWellFounded
  <2> HIDE DEF T
  <2> QED BY <1>1, <2>1, WFMin
<1>3. PICK m \in S : \A n \in S : <<below(n), below(m)>> \notin StrictSubsetOrdering(Nat)
  BY <1>2
<1>4. ASSUME NEW n \in S, n < m
      PROVE  FALSE
  <2>1. below(n) \subseteq below(m) /\ below(m) \subseteq Nat
    BY <1>4
  <2>2. m \in below(m) /\ m \notin below(n)
    BY <1>4
  <2> HIDE DEF below
  <2> QED BY <1>3, <2>1, <2>2 DEF StrictSubsetOrdering
<1> QED BY <1>4

LEMMA UpTo ==
  ASSUME NEW n \in Nat, NEW S \in SUBSET Nat, 0 \in S,
         \A i \in 0 .. n - 1 : i \in S => i + 1 \in S
  PROVE  0 .. n \subseteq S
<1> DEFINE rest == (0 .. n) \ S
<1> SUFFICES ASSUME rest # {} PROVE FALSE
  OBVIOUS
<1>1. rest \in SUBSET Nat
  OBVIOUS
<1> HIDE DEF rest
<1>2. PICK m \in rest : \A i \in rest : m <= i
  BY <1>1, Least
<1>3. m # 0 /\ m - 1 \in 0 .. n - 1
  BY DEF rest
<1>4. m - 1 \in S
  BY <1>2, <1>3 DEF rest
<1> QED BY <1>3, <1>4 DEF rest

\* f takes n steps in S from a.
Iterates(f, n, S, a, step) ==
  f \in [0 .. n -> S] /\ f[0] = a /\ \A i \in 1 .. n : f[i] = step[f[i - 1]]

\* A function defined by recursion over 0 .. n exists.
LEMMA Iterated ==
  ASSUME NEW n \in Nat, NEW S, NEW a \in S, NEW step \in [S -> S]
  PROVE  \E f : Iterates(f, n, S, a, step)
<1> DEFINE Upto(m, f) == f[0] = a /\ \A i \in 1 .. m : f[i] = step[f[i - 1]]
           T == {m \in Nat : \E f \in [0 .. n -> S] : Upto(m, f)}
<1>1. 0 \in T
  <2>1. [i \in 0 .. n |-> a] \in [0 .. n -> S] /\ Upto(0, [i \in 0 .. n |-> a])
    OBVIOUS
  <2> QED BY <2>1
<1>2. ASSUME NEW m \in 0 .. n - 1, m \in T
      PROVE  m + 1 \in T
  <2>1. PICK f \in [0 .. n -> S] : Upto(m, f)
    BY <1>2
  <2> DEFINE g == [f EXCEPT ![m + 1] = step[f[m]]]
  <2>2. g \in [0 .. n -> S] /\ g[0] = a /\ g[m + 1] = step[f[m]]
        /\ \A i \in 0 .. m : g[i] = f[i]
    BY <2>1
  <2>3. ASSUME NEW i \in 1 .. m + 1
        PROVE  g[i] = step[g[i - 1]]
    <3>1. CASE i = m + 1
      BY <2>2, <3>1
    <3>2. CASE i \in 1 .. m
      BY <2>1, <2>2, <3>2
    <3> QED BY <3>1, <3>2
  <2> HIDE DEF g
  <2>4. Upto(m + 1, g) /\ m + 1 \in Nat
    BY <2>2, <2>3
  <2> QED BY <2>2, <2>4
<1>3. n \in T
  <2> HIDE DEF T
  <2>1. 0 .. n \subseteq T
    <3>1. T \in SUBSET Nat
      BY DEF T
    <3> QED BY <1>1, <1>2, <3>1, UpTo
  <2> QED BY <2>1
<1>4. PICK f \in [0 .. n -> S] : Upto(n, f)
  BY <1>3
<1>5. Iterates(f, n, S, a, step)
  BY <1>4 DEF Iterates
<1> QED BY <1>5

-------------------------------------------------------------------------------
(***************************************************************************)
(* What the links reach                                                    *)
(***************************************************************************)

Pointers == Slots \cup {-1}

\* Following the links is a recursive definition that has a value.
LEMMA LinkSteps ==
  ASSUME Entries, NEW k \in Keys
  PROVE  /\ Link(k) \in [0 .. Capacity -> Pointers]
         /\ Link(k)[0] = list[hash[k]].first
         /\ \A n \in 1 .. Capacity :
              Link(k)[n] = IF Link(k)[n - 1] = -1 THEN -1 ELSE list[Link(k)[n - 1]].next
<1> DEFINE step == [s \in Pointers |-> IF s < 0 THEN -1 ELSE list[s].next]
           Links(link) ==
             link = [n \in 0 .. Capacity |->
                       IF n = 0 THEN list[hash[k]].first
                       ELSE IF link[n - 1] < 0 THEN -1 ELSE list[link[n - 1]].next]
<1>1. Capacity \in Nat \ {0} /\ hash[k] \in Slots
  BY PidMapAssumption DEF Entries
<1>2. list[hash[k]].first \in Pointers /\ step \in [Pointers -> Pointers]
  BY <1>1 DEF Entries, Pointers, Slots
<1>3. \E f : Iterates(f, Capacity, Pointers, list[hash[k]].first, step)
  <2> HIDE DEF step
  <2> QED BY <1>1, <1>2, Iterated
<1>4. PICK f : /\ f \in [0 .. Capacity -> Pointers]
               /\ f[0] = list[hash[k]].first
               /\ \A i \in 1 .. Capacity : f[i] = step[f[i - 1]]
  BY <1>3 DEF Iterates
<1>5. Links(f)
  <2>1. \A n \in 0 .. Capacity : n # 0 => n \in 1 .. Capacity /\ n - 1 \in 0 .. Capacity
    BY <1>1
  <2>2. \A n \in 0 .. Capacity :
          f[n] = IF n = 0 THEN list[hash[k]].first
                 ELSE IF f[n - 1] < 0 THEN -1 ELSE list[f[n - 1]].next
    BY <1>4, <2>1
  <2> QED BY <1>4, <2>2
<1>6. Link(k) = CHOOSE link : Links(link)
  BY DEF Link
<1>7. Links(Link(k))
  <2> HIDE DEF Links
  <2> QED BY <1>5, <1>6
<1>8. /\ Link(k)[0] = list[hash[k]].first
      /\ \A n \in 1 .. Capacity :
           Link(k)[n] = IF Link(k)[n - 1] < 0 THEN -1 ELSE list[Link(k)[n - 1]].next
  BY <1>1, <1>7
<1>9. \A n \in 0 .. Capacity : Link(k)[n] \in Pointers
  <2> DEFINE T == {n \in Nat : n \in 0 .. Capacity => Link(k)[n] \in Pointers}
  <2>1. 0 \in T
    BY <1>2, <1>8
  <2>2. ASSUME NEW n \in 0 .. Capacity - 1, n \in T
        PROVE  n + 1 \in T
    <3>1. Link(k)[n] \in Pointers /\ n + 1 \in 1 .. Capacity /\ n + 1 - 1 = n
      BY <1>1, <2>2
    <3>2. \A s \in Pointers : s < 0 \/ list[s].next \in Pointers
      BY DEF Entries, Pointers, Slots
    <3>3. Link(k)[n + 1] = IF Link(k)[n] < 0 THEN -1 ELSE list[Link(k)[n]].next
      BY <1>8, <3>1
    <3> QED BY <3>1, <3>2, <3>3 DEF Pointers
  <2>3. 0 .. Capacity \subseteq T
    <3> HIDE DEF T
    <3>1. T \in SUBSET Nat
      BY DEF T
    <3> QED BY <1>1, <2>1, <2>2, <3>1, UpTo
  <2> QED BY <2>3
<1>10. Link(k) \in [0 .. Capacity -> Pointers]
  BY <1>7, <1>9
<1>11. \A s \in Pointers : s < 0 <=> s = -1
  BY <1>1 DEF Pointers, Slots
<1> HIDE DEF Links, step
<1>12. \A n \in 1 .. Capacity : Link(k)[n - 1] \in Pointers
  BY <1>1, <1>9
<1> QED BY <1>8, <1>10, <1>11, <1>12

\* A link points into the chain, and each step takes it to a higher rank.
LEMMA LinkChain ==
  ASSUME Entries, Pointed, NEW rank, Ranked(rank), NEW k \in Keys, hash[k] \in Taken,
         NEW n \in 0 .. Capacity, Link(k)[n] # -1
  PROVE  /\ Link(k)[n] \in Taken /\ Home(Link(k)[n]) = hash[k]
         /\ n <= rank[Link(k)[n]]
<1> DEFINE InChain(m) == Link(k)[m] # -1 => /\ Link(k)[m] \in Taken
                                            /\ Home(Link(k)[m]) = hash[k]
                                            /\ m <= rank[Link(k)[m]]
           T == {m \in Nat : m \in 0 .. Capacity => InChain(m)}
<1>1. Capacity \in Nat /\ 0 \in 0 .. Capacity
  BY PidMapAssumption
<1>2. \A s \in Taken : rank[s] \in Nat
  BY DEF Ranked, Taken
<1>3. 0 \in T
  BY <1>1, <1>2, LinkSteps DEF Pointed
<1>4. ASSUME NEW m \in 0 .. Capacity - 1, m \in T
      PROVE  m + 1 \in T
  <2> DEFINE here == Link(k)[m]
             there == Link(k)[m + 1]
  <2>1. m + 1 \in 1 .. Capacity /\ m + 1 - 1 = m /\ m \in 0 .. Capacity
    BY <1>1
  <2>2. there = IF here = -1 THEN -1 ELSE list[here].next
    BY <2>1, LinkSteps
  <2>3. here # -1 => here \in Taken /\ Home(here) = hash[k] /\ m <= rank[here]
    BY <1>4, <2>1
  <2>4. there # -1 => there \in Taken /\ Home(there) = hash[k] /\ rank[here] < rank[there]
    BY <2>2, <2>3 DEF Pointed, Ranked
  <2>5. there # -1 => m + 1 <= rank[there]
    BY <1>2, <2>2, <2>3, <2>4
  <2> QED BY <2>4, <2>5
<1>5. 0 .. Capacity \subseteq T
  <2> HIDE DEF T
  <2>1. T \in SUBSET Nat
    BY DEF T
  <2> QED BY <1>1, <1>3, <1>4, <2>1, UpTo
<1> QED BY <1>5

\* There are fewer ranks than slots.
LEMMA TakenFew ==
  /\ IsFiniteSet(Slots) /\ Cardinality(Slots) = Capacity
  /\ IsFiniteSet(Taken) /\ Cardinality(Taken) \in Nat /\ Cardinality(Taken) <= Capacity
<1>1. Capacity \in Nat \ {0} /\ 0 \in Int /\ Capacity - 1 \in Int
  BY PidMapAssumption
<1>2. IsFiniteSet(Slots) /\ Cardinality(Slots) = Capacity
  <2>1. /\ IsFiniteSet(0 .. Capacity - 1)
        /\ Cardinality(0 .. Capacity - 1) =
             IF 0 > Capacity - 1 THEN 0 ELSE Capacity - 1 - 0 + 1
    BY <1>1, FS_Interval
  <2> QED BY <1>1, <2>1 DEF Slots
<1>3. Taken \subseteq Slots
  BY DEF Taken
<1> QED BY <1>2, <1>3, FS_Subset, FS_CardinalityType

\* The chain of a home slot in use is what the links reach: exactly the entries
\* with that home slot, whatever chains run through the slots between them.
LEMMA ChainIs ==
  ASSUME MapInv, NEW k \in Keys, hash[k] \in Taken
  PROVE  Chain(k) = {s \in Taken : Home(s) = hash[k]}
<1> USE DEF MapInv
<1>1. PICK rank : Ranked(rank)
  OBVIOUS
<1>2. list[hash[k]].key # 0
  BY DEF Taken
<1>3. Chain(k) = {Link(k)[n] : n \in 0 .. Capacity} \ {-1}
  BY <1>2 DEF Chain
<1>4. Chain(k) \subseteq {s \in Taken : Home(s) = hash[k]}
  BY <1>1, <1>3, LinkChain
<1> DEFINE Missed == {s \in Taken : Home(s) = hash[k] /\ s \notin Chain(k)}
<1>5. Capacity \in Nat /\ \A s \in Taken : rank[s] \in Nat /\ rank[s] < Capacity
  BY <1>1, TakenFew, PidMapAssumption DEF Ranked, Taken
<1>6. ASSUME Missed # {}
      PROVE  FALSE
  <2> DEFINE ranks == {rank[s] : s \in Missed}
  <2>1. ranks \in SUBSET Nat /\ ranks # {}
    BY <1>5, <1>6
  <2>2. \E m \in ranks : \A n \in ranks : m <= n
    <3> HIDE DEF ranks
    <3> QED BY <2>1, Least
  <2>3. PICK s \in Missed : \A t \in Missed : rank[s] <= rank[t]
    BY <2>2
  <2>4. s \in Taken /\ Home(s) = hash[k] /\ s # -1
    BY <2>3, PidMapAssumption DEF Taken, Slots
  <2>5. CASE list[hash[k]].first = s
    <3>1. Link(k)[0] = s /\ 0 \in 0 .. Capacity
      BY <1>5, <2>5, LinkSteps
    <3> QED BY <1>3, <2>3, <2>4, <3>1
  <2>6. CASE \E r \in Taken : list[r].next = s
    <3>1. PICK r \in Taken : list[r].next = s
      BY <2>6
    <3>2. Home(r) = hash[k] /\ rank[r] < rank[s]
      BY <1>1, <2>4, <3>1 DEF Pointed, Ranked
    <3>3. r \in Chain(k)
      BY <1>5, <2>3, <2>4, <3>2
    <3>4. PICK n \in 0 .. Capacity : Link(k)[n] = r /\ r # -1
      BY <1>3, <3>3
    <3>5. n <= rank[r]
      BY <1>1, <3>4, LinkChain
    <3>6. n + 1 \in 1 .. Capacity /\ n + 1 - 1 = n /\ n + 1 \in 0 .. Capacity
      BY <1>5, <3>5
    <3>7. Link(k)[n + 1] = s
      BY <3>1, <3>4, <3>6, LinkSteps
    <3> QED BY <1>3, <2>3, <2>4, <3>6, <3>7
  <2> QED BY <2>4, <2>5, <2>6 DEF Linked
<1> QED BY <1>4, <1>6

\* So a key is found exactly where it is stored.
LEMMA FoundWhereStored ==
  ASSUME MapInv, NEW k \in Keys
  PROVE  FoundAt(k) = {s \in Slots : list[s].key = k}
<1>1. k # 0
  BY DEF Keys
<1>2. CASE hash[k] \in Taken
  BY <1>1, <1>2, ChainIs DEF FoundAt, Taken, Home
<1>3. CASE hash[k] \notin Taken
  <2>1. hash[k] \in Slots /\ list[hash[k]].key = 0
    BY <1>3 DEF MapInv, Entries, Taken
  <2>2. FoundAt(k) = {}
    BY <2>1 DEF FoundAt, Chain
  <2>3. ASSUME NEW s \in Slots, list[s].key = k
        PROVE  FALSE
    BY <1>1, <1>3, <2>3 DEF MapInv, Linked, Taken, Home
  <2> QED BY <2>2, <2>3
<1> QED BY <1>2, <1>3

-------------------------------------------------------------------------------
(***************************************************************************)
(* The steps                                                               *)
(***************************************************************************)

LEMMA InitMap == Init => MapInv
<1> SUFFICES ASSUME Init PROVE MapInv
  OBVIOUS
<1>1. Taken = {}
  BY DEF Init, Free, Taken
<1>2. Entries
  <2>1. Capacity \in Nat \ {0} /\ MaxKey \in Nat
    BY PidMapAssumption
  <2>2. 0 \in Slots /\ 0 \in 0 .. MaxKey
    BY <2>1 DEF Slots
  <2> QED BY <2>2 DEF Init, Free, Entries
<1>3. Ranked([s \in Slots |-> 0])
  BY <1>1 DEF Ranked
<1> QED BY <1>1, <1>2, <1>3 DEF MapInv, KeyOnce, Linked, Pointed

\* Key k is stored in the free slot f, and f becomes the first or the last of
\* the chain that starts at the home slot of k.
Added(k, f) ==
  /\ f \in Slots \ Taken /\ list'[f].key = k /\ list'[f].next = -1
  /\ \A s \in Taken : list'[s].key = list[s].key
  /\ \A s \in Slots \ Taken : s # f => list'[s].key = 0
  /\ \A s \in Taken : \/ list'[s].first = list[s].first
                      \/ list[s].first = -1 /\ list'[s].first = f /\ hash[k] = s
  /\ \A s \in Taken : \/ list'[s].next = list[s].next
                      \/ list[s].next = -1 /\ list'[s].next = f /\ Home(s) = hash[k]
  /\ list'[f].first # -1 => list'[f].first = f /\ hash[k] = f
  /\ hash[k] \in Taken \cup {f}
  /\ list'[hash[k]].first = f \/ \E r \in Taken : list'[r].next = f

LEMMA AddedKeeps ==
  ASSUME MapInv, NEW k \in Keys, FoundAt(k) = {}, NEW f, Added(k, f), Entries',
         UNCHANGED hash
  PROVE  MapInv'
<1> USE DEF MapInv
<1>1. k # 0 /\ \A s \in Taken : list[s].key # k
  BY FoundWhereStored DEF Keys, Taken
<1>2. Taken' = Taken \cup {f} /\ f \notin Taken
  BY <1>1 DEF Added, Taken
<1>3. Home(f)' = hash[k] /\ \A s \in Taken : Home(s)' = Home(s)
  BY DEF Added, Home
<1>4. KeyOnce'
  BY <1>1, <1>2 DEF KeyOnce, Added
<1>5. -1 \notin Taken \cup {f}
  BY PidMapAssumption DEF Added, Taken, Slots
<1>6. Pointed'
  <2>1. ASSUME NEW s \in Taken
        PROVE  /\ (list[s].first # -1 => list[s].first \in Taken /\ Home(list[s].first) = s)'
               /\ (list[s].next # -1 => list[s].next \in Taken /\ Home(list[s].next) = Home(s))'
    BY <1>2, <1>3, <2>1 DEF Pointed, Added
  <2>2. /\ (list[f].first # -1 => list[f].first \in Taken /\ Home(list[f].first) = f)'
        /\ (list[f].next # -1 => list[f].next \in Taken /\ Home(list[f].next) = Home(f))'
    BY <1>2, <1>3 DEF Added
  <2> QED BY <1>2, <2>1, <2>2 DEF Pointed
<1>7. Linked'
  <2>1. ASSUME NEW s \in Taken
        PROVE  /\ Home(s)' \in Taken'
               /\ list'[Home(s)'].first = s \/ \E r \in Taken' : list'[r].next = s
    <3>1. Home(s)' = Home(s) /\ Home(s) \in Taken /\ s # -1
      BY <1>3, <1>5 DEF Linked
    <3>2. CASE list[Home(s)].first = s
      BY <1>2, <3>1, <3>2 DEF Added
    <3>3. CASE \E r \in Taken : list[r].next = s
      BY <1>2, <3>1, <3>3 DEF Added
    <3> QED BY <1>2, <3>1, <3>2, <3>3 DEF Linked
  <2>2. /\ Home(f)' \in Taken'
        /\ list'[Home(f)'].first = f \/ \E r \in Taken' : list'[r].next = f
    BY <1>2, <1>3 DEF Added
  <2> QED BY <1>2, <2>1, <2>2 DEF Linked
<1>8. PICK rank : Ranked(rank)
  OBVIOUS
<1> DEFINE n == Cardinality(Taken)
<1>9. n \in Nat /\ Cardinality(Taken') = n + 1
  BY <1>2, TakenFew, FS_AddElement
<1>10. PICK new \in [Slots -> Nat] :
         /\ new[f] = n
         /\ \A s \in Taken : new[s] = rank[s] /\ rank[s] \in Nat /\ rank[s] < n
  <2>1. [rank EXCEPT ![f] = n] \in [Slots -> Nat]
    BY <1>8, <1>9 DEF Ranked
  <2>2. \A s \in Taken : rank[s] \in Nat /\ rank[s] < n /\ s # f /\ s \in Slots
    BY <1>2, <1>8 DEF Ranked, Taken
  <2> QED BY <1>8, <2>1, <2>2 DEF Ranked, Added
<1>11. ASSUME NEW s \in Taken, list'[s].next # -1
       PROVE  new[s] < new[list'[s].next]
  <2>1. CASE list'[s].next = list[s].next
    BY <1>8, <1>10, <1>11, <2>1 DEF Ranked, Pointed
  <2>2. CASE list'[s].next = f
    BY <1>10, <2>2
  <2> QED BY <2>1, <2>2 DEF Added
<1>12. Ranked(new)'
  <2> HIDE DEF n
  <2>1. \A s \in Taken' : new[s] < n + 1
    BY <1>2, <1>9, <1>10
  <2>2. \A s \in Taken' : list'[s].next # -1 => new[s] < new[list'[s].next]
    BY <1>2, <1>11 DEF Added
  <2> QED BY <1>9, <1>10, <2>1, <2>2 DEF Ranked
<1> QED BY <1>4, <1>6, <1>7, <1>12

LEMMA HomeAdded ==
  ASSUME MapInv, NEW k \in Keys, NEW v \in 0 .. MaxKey, InsertHome(k, v)
  PROVE  FoundAt(k) = {} /\ Added(k, hash[k]) /\ list'[hash[k]].value = v
         /\ (\A s \in Taken : list'[s].value = list[s].value) /\ Entries'
<1> DEFINE h == hash[k]
           entry == [key |-> k, value |-> v, first |-> h, next |-> -1]
<1>1. /\ h \in Slots \ Taken /\ list' = [list EXCEPT ![h] = entry]
      /\ UNCHANGED <<hash, probing>> /\ k \in Keys \cup {0}
  BY DEF MapInv, Entries, InsertHome, Taken
<1>2. /\ list'[h] = entry
      /\ \A s \in Slots : s # h => list'[s] = list[s]
  BY <1>1 DEF MapInv, Entries
<1>3. Entries'
  BY <1>1 DEF MapInv, Entries
<1>4. FoundAt(k) = {}
  BY DEF InsertHome, FoundAt, Chain
<1>5. \A s \in Taken : s \in Slots /\ list'[s] = list[s]
  BY <1>1, <1>2 DEF Taken
<1>6. \A s \in Slots \ Taken : s # h => list'[s].key = 0
  BY <1>1, <1>2 DEF Taken
<1>7. Added(k, h)
  BY <1>1, <1>2, <1>5, <1>6 DEF Added
<1> QED BY <1>2, <1>3, <1>4, <1>5, <1>7

LEMMA ChainedAdded ==
  ASSUME MapInv, NEW k \in Keys, NEW v \in 0 .. MaxKey, InsertChained(k, v), probing' # TRUE
  PROVE  \E f : /\ Added(k, f) /\ list'[f].value = v
                /\ (\A s \in Taken : list'[s].value = list[s].value) /\ Entries'
<1> DEFINE h == hash[k]
<1>1. h \in Taken /\ h \in Slots
  BY DEF MapInv, Entries, InsertChained, Taken
<1>2. Chain(k) = {s \in Taken : Home(s) = h}
  BY <1>1, ChainIs
<1>3. PICK end \in IF Chain(k) = {} THEN {h} ELSE Ends(k) :
             /\ NextFree(end) # {}
             /\ \E f \in NextFree(end) :
                  LET linked == IF Chain(k) = {}
                                THEN [list EXCEPT ![end].first = f]
                                ELSE [list EXCEPT ![end].next = f]
                  IN  /\ list' = [linked EXCEPT ![f] =
                                    [key |-> k, value |-> v, first |-> -1, next |-> -1]]
                      /\ result' = Ok
                      /\ UNCHANGED <<hash, probing>>
  BY DEF InsertChained
<1> DEFINE entry == [key |-> k, value |-> v, first |-> -1, next |-> -1]
           linked(f) == IF Chain(k) = {} THEN [list EXCEPT ![end].first = f]
                        ELSE [list EXCEPT ![end].next = f]
<1>4. PICK f \in NextFree(end) : list' = [linked(f) EXCEPT ![f] = entry]
  BY <1>3
<1>5. f \in Slots \ Taken /\ UNCHANGED <<hash, probing>> /\ k \in Keys \cup {0}
  BY <1>3 DEF NextFree, Taken
<1>6. /\ end \in Taken /\ end \in Slots
      /\ IF Chain(k) = {} THEN end = h ELSE list[end].next = -1 /\ Home(end) = h
  <2>1. \A p \in Slots \cup {-1} : p < 0 => p = -1
    BY PidMapAssumption DEF Slots
  <2>2. \A s \in Taken : s \in Slots /\ list[s].next \in Slots \cup {-1}
    BY DEF MapInv, Entries, Taken
  <2> QED BY <1>1, <1>2, <1>3, <2>1, <2>2 DEF Ends
<1>7. Chain(k) = {} => list[h].first = -1
  BY <1>1, <1>2 DEF MapInv, Pointed
<1>8. linked(f) \in [Slots -> [key : Keys \cup {0}, value : 0 .. MaxKey,
                               first : Slots \cup {-1}, next : Slots \cup {-1}]]
  BY <1>5, <1>6 DEF MapInv, Entries
<1>9. /\ \A s \in Slots : s # end => linked(f)[s] = list[s]
      /\ linked(f)[end].key = list[end].key /\ linked(f)[end].value = list[end].value
      /\ linked(f)[end].first = IF Chain(k) = {} THEN f ELSE list[end].first
      /\ linked(f)[end].next = IF Chain(k) = {} THEN list[end].next ELSE f
  BY <1>6 DEF MapInv, Entries
<1> HIDE DEF linked
<1>10. /\ list'[f] = entry
       /\ \A s \in Slots : s # f => list'[s] = linked(f)[s]
  BY <1>4, <1>5, <1>8
<1>11. Entries'
  BY <1>4, <1>5, <1>8 DEF MapInv, Entries
<1>12. \A s \in Taken : s \in Slots /\ s # f
  BY <1>5 DEF Taken
<1>13. /\ \A s \in Taken : list'[s].key = list[s].key /\ list'[s].value = list[s].value
       /\ \A s \in Slots \ Taken : s # f => list'[s].key = 0
  BY <1>6, <1>9, <1>10, <1>12 DEF Taken
<1>14. \A s \in Taken : \/ list'[s].first = list[s].first
                        \/ list[s].first = -1 /\ list'[s].first = f /\ hash[k] = s
  BY <1>6, <1>7, <1>9, <1>10, <1>12
<1>15. \A s \in Taken : \/ list'[s].next = list[s].next
                        \/ list[s].next = -1 /\ list'[s].next = f /\ Home(s) = hash[k]
  BY <1>6, <1>9, <1>10, <1>12
<1>16. list'[h].first = f \/ \E r \in Taken : list'[r].next = f
  BY <1>6, <1>9, <1>10, <1>12
<1>17. Added(k, f)
  BY <1>1, <1>5, <1>10, <1>13, <1>14, <1>15, <1>16 DEF Added
<1> QED BY <1>10, <1>11, <1>13, <1>17

LEMMA NextMap == MapInv /\ [Next]_vars => MapInv'
<1> SUFFICES ASSUME MapInv, [Next]_vars PROVE MapInv'
  OBVIOUS
<1>1. ASSUME UNCHANGED <<hash, list, probing>>
      PROVE  MapInv'
  <2>1. Taken' = Taken /\ \A s : Home(s)' = Home(s)
    BY <1>1 DEF Taken, Home
  <2>2. Entries' /\ KeyOnce' /\ Linked' /\ Pointed'
    BY <1>1, <2>1 DEF MapInv, Entries, KeyOnce, Linked, Pointed
  <2>3. \A rank : Ranked(rank) => Ranked(rank)'
    BY <1>1, <2>1 DEF Ranked
  <2> QED BY <2>2, <2>3 DEF MapInv
<1>2. ASSUME NEW k \in 0 .. MaxKey, Insert(k, k - 1)
      PROVE  MapInv'
  <2>1. CASE k <= 0
    <3>1. UNCHANGED <<hash, list, probing>>
      BY <1>2, <2>1, PidMapAssumption DEF Insert, Refuse
    <3> QED BY <1>1, <3>1
  <2>2. CASE k > 0
    <3>1. k \in Keys /\ k - 1 \in 0 .. MaxKey
      BY <2>2, PidMapAssumption DEF Keys
    <3>2. CASE InsertHome(k, k - 1)
      BY <3>1, <3>2, HomeAdded, AddedKeeps DEF InsertHome
    <3>3. CASE FoundAt(k) # {} /\ Refuse("ERR_DUPLICATE_KEY")
      BY <1>1, <3>3 DEF Refuse
    <3>4. CASE InsertChained(k, k - 1) /\ probing' # TRUE
      <4>1. FoundAt(k) = {} /\ UNCHANGED hash
        BY <3>4 DEF InsertChained
      <4> QED BY <3>1, <3>4, <4>1, ChainedAdded, AddedKeeps
    <3>5. CASE InsertChained(k, k - 1) /\ probing' = TRUE
      <4>1. ~probing
        BY <1>2 DEF Insert
      <4>2. UNCHANGED <<hash, list>>
        BY <3>5, <4>1 DEF InsertChained
      <4>3. Taken' = Taken /\ \A s : Home(s)' = Home(s)
        BY <4>2 DEF Taken, Home
      <4>4. Entries' /\ KeyOnce' /\ Linked' /\ Pointed'
        BY <3>5, <4>2, <4>3 DEF MapInv, Entries, KeyOnce, Linked, Pointed
      <4>5. \A rank : Ranked(rank) => Ranked(rank)'
        BY <4>2, <4>3 DEF Ranked
      <4> QED BY <4>4, <4>5 DEF MapInv
    <3>6. \/ InsertHome(k, k - 1) \/ InsertChained(k, k - 1)
          \/ FoundAt(k) # {} /\ Refuse("ERR_DUPLICATE_KEY")
      <4>1. ~(k <= 0)
        BY <2>2
      <4> QED BY <1>2, <4>1 DEF Insert
    <3> QED BY <3>2, <3>3, <3>4, <3>5, <3>6
  <2> QED BY <2>1, <2>2
<1>3. ASSUME NEW k \in 0 .. MaxKey, Get(k)
      PROVE  MapInv'
  BY <1>1, <1>3 DEF Get, Refuse
<1>4. CASE UNCHANGED vars
  BY <1>1, <1>4 DEF vars
<1> QED BY <1>2, <1>3, <1>4 DEF Next

LEMMA MapKept == Spec => []MapInv
BY InitMap, NextMap, PTL DEF Spec

-------------------------------------------------------------------------------
(***************************************************************************)
(* Room                                                                    *)
(***************************************************************************)

\* Going round finds the first free slot if there is a free one.
LEMMA FreeFound ==
  ASSUME Entries, NEW s \in Slots, Taken # Slots
  PROVE  NextFree(s) # {}
<1> DEFINE away(f) == (f - s + Capacity) % Capacity
           free == {f \in Slots : list[f].key = 0}
           ways == {away(f) : f \in free}
<1>1. free # {}
  BY DEF Taken
<1>2. \A f \in Slots : away(f) \in Nat
  <2>1. Capacity \in Nat \ {0}
    BY PidMapAssumption
  <2>2. \A f \in Slots : f - s + Capacity \in Int
    BY <2>1 DEF Slots
  <2>3. \A i \in Int : i % Capacity \in Nat
    BY <2>1
  <2> QED BY <2>2, <2>3
<1> HIDE DEF away
<1>3. ways \in SUBSET Nat /\ ways # {}
  BY <1>1, <1>2
<1>4. \E m \in ways : \A n \in ways : m <= n
  <2> HIDE DEF ways
  <2> QED BY <1>3, Least
<1>5. PICK f \in free : \A g \in free : away(f) <= away(g)
  BY <1>4
<1>6. f \in NextFree(s)
  BY <1>5 DEF NextFree, away
<1> QED BY <1>6

\* A key not stored leaves a slot free, if there are as many slots as keys.
LEMMA RoomLeft ==
  ASSUME MapInv, MaxKey <= Capacity, NEW k \in Keys, FoundAt(k) = {}
  PROVE  Taken # Slots
<1> SUFFICES ASSUME Taken = Slots PROVE FALSE
  OBVIOUS
<1> DEFINE others == Keys \ {k}
           keyOf == [s \in Slots |-> list[s].key]
<1>1. \A s \in Slots : list[s].key \in others
  BY FoundWhereStored DEF MapInv, Entries, Taken
<1>2. keyOf \in Injection(Slots, others)
  BY <1>1 DEF MapInv, KeyOnce, Injection, IsInjective
<1>3. IsFiniteSet(Keys) /\ Cardinality(Keys) = MaxKey
  <2>1. MaxKey \in Nat /\ 1 \in Int
    BY PidMapAssumption
  <2>2. IsFiniteSet(1 .. MaxKey) /\ Cardinality(1 .. MaxKey) = IF 1 > MaxKey THEN 0 ELSE MaxKey - 1 + 1
    BY <2>1, FS_Interval
  <2> QED BY <2>1, <2>2 DEF Keys
<1>4. IsFiniteSet(others) /\ Cardinality(others) = MaxKey - 1
  BY <1>3, FS_RemoveElement
<1>5. Cardinality(Slots) <= Cardinality(others)
  <2> HIDE DEF keyOf, others
  <2> QED BY <1>2, <1>4, FS_Injection
<1> QED BY <1>4, <1>5, TakenFew, PidMapAssumption

LEMMA NextNeverFull ==
  MapInv /\ MaxKey <= Capacity /\ NeverFull /\ [Next]_vars => NeverFull'
<1> SUFFICES ASSUME MapInv, MaxKey <= Capacity, ~probing, [Next]_vars, probing' # FALSE
             PROVE  FALSE
  BY DEF NeverFull
<1>0. probing' # probing
  BY DEF MapInv, Entries
<1>1. PICK k \in 0 .. MaxKey : k > 0 /\ InsertChained(k, k - 1)
  BY <1>0 DEF Next, vars, Insert, InsertHome, Refuse, Get
<1>2. k \in Keys /\ FoundAt(k) = {} /\ list[hash[k]].key # 0
  BY <1>1, PidMapAssumption DEF Keys, InsertChained
<1>3. hash[k] \in Taken
  BY <1>2 DEF MapInv, Entries, Taken
<1>4. PICK end \in IF Chain(k) = {} THEN {hash[k]} ELSE Ends(k) : NextFree(end) = {}
  BY <1>0, <1>1, Zenon DEF InsertChained
<1>5. end \in Slots
  BY <1>2, <1>3, <1>4, ChainIs DEF Ends, Taken
<1> QED BY <1>2, <1>4, <1>5, FreeFound, RoomLeft DEF MapInv

-------------------------------------------------------------------------------
(***************************************************************************)
(* The map                                                                 *)
(***************************************************************************)

\* What the map of the stored keys has to do with the array.
Shown ==
  /\ Stored \subseteq Keys
  /\ \A k \in Keys : k \in Stored <=> FoundAt(k) # {}
  /\ \A s \in Slots : list[s].key \in Stored => Contents[list[s].key] = list[s].value

LEMMA StoredKeys == MapInv => Shown
<1> SUFFICES ASSUME MapInv PROVE Shown
  OBVIOUS
<1>1. Stored \subseteq Keys
  BY DEF MapInv, Entries, Stored
<1>2. \A k \in Keys : k \in Stored <=> FoundAt(k) # {}
  BY FoundWhereStored DEF Stored, Keys
<1>3. ASSUME NEW s \in Slots, list[s].key \in Stored
      PROVE  Contents[list[s].key] = list[s].value
  <2> DEFINE k == list[s].key
             t == CHOOSE r \in Slots : list[r].key = k
  <2>1. t \in Slots /\ list[t].key = k
    OBVIOUS
  <2>2. k # 0
    BY <1>3 DEF Stored
  <2>3. t = s
    BY <2>1, <2>2 DEF MapInv, KeyOnce, Taken
  <2> QED BY <1>3, <2>3 DEF Contents
<1> QED BY <1>1, <1>2, <1>3 DEF Shown

LEMMA StoredKeysNext == MapInv' => Shown'
BY StoredKeys, PTL

\* A key that is added changes the map by just that key.
LEMMA ContentsAdded ==
  ASSUME MapInv, MapInv', NEW k \in Keys, FoundAt(k) = {}, NEW f, Added(k, f),
         \A s \in Taken : list'[s].value = list[s].value
  PROVE  Contents' = [j \in Stored \cup {k} |-> IF j = k THEN list'[f].value ELSE Contents[j]]
<1>1. Taken' = Taken \cup {f} /\ f \in Slots \ Taken /\ k # 0
  BY DEF Added, Taken, Keys
<1>2. Stored' = Stored \cup {k}
  <2>1. Stored = {list[s].key : s \in Taken}
    BY DEF Stored, Taken
  <2>2. Stored' = {list'[s].key : s \in Taken'}
    BY DEF Stored, Taken
  <2> QED BY <1>1, <2>1, <2>2 DEF Added
<1>3. k \notin Stored
  BY StoredKeys DEF Shown
<1>4. \A s \in Slots : list'[s].key \in Stored' => Contents'[list'[s].key] = list'[s].value
  BY StoredKeysNext DEF Shown
<1>5. Contents'[k] = list'[f].value
  BY <1>1, <1>2, <1>4 DEF Added
<1>6. ASSUME NEW j \in Stored
      PROVE  Contents'[j] = Contents[j]
  <2>1. PICK s \in Taken : list[s].key = j
    BY DEF Stored, Taken
  <2>2. Contents[j] = list[s].value
    BY <2>1, StoredKeys DEF Shown, Taken
  <2>3. s \in Slots /\ list'[s].key = j /\ list'[s].value = list[s].value
    BY <2>1 DEF Added, Taken
  <2>4. Contents'[j] = list'[s].value
    BY <1>2, <1>4, <2>3
  <2> QED BY <2>2, <2>3, <2>4
<1>7. Contents' = [j \in Stored' |-> Contents'[j]]
  BY DEF Contents
<1> QED BY <1>2, <1>3, <1>5, <1>6, <1>7

LEMMA InitMapping == Init => M!Init
<1> SUFFICES ASSUME Init PROVE M!Init
  OBVIOUS
<1>1. Stored = {}
  BY DEF Init, Free, Stored
<1>2. Contents = [k \in {} |-> 0]
  BY <1>1 DEF Contents
<1> QED BY <1>2 DEF Init, M!Init, Ok, M!Ok

LEMMA StepMapping == MapInv /\ MapInv' /\ [Next]_vars => [M!Next]_<<Contents, result>>
<1> SUFFICES ASSUME MapInv, MapInv', [Next]_vars
             PROVE  M!Next \/ UNCHANGED <<Contents, result>>
  BY DEF M!Next
<1>1. ASSUME UNCHANGED list
      PROVE  UNCHANGED Contents
  BY <1>1 DEF Contents, Stored
<1>2. ASSUME NEW k \in 0 .. MaxKey, Insert(k, k - 1)
      PROVE  \/ \E v \in 0 .. MaxKey : M!Insert(k, v)
             \/ UNCHANGED <<Contents, result>>
  <2>1. CASE k <= 0
    <3>1. Refuse("ERR_INVALID_KEY") /\ k \notin M!Keys /\ 0 \in 0 .. MaxKey
      BY <1>2, <2>1, PidMapAssumption DEF Insert, M!Keys
    <3>2. M!Insert(k, 0)
      BY <1>1, <3>1 DEF Refuse, Error, M!Insert, M!Refuse, M!Error
    <3> QED BY <3>1, <3>2
  <2>2. CASE k > 0
    <3> DEFINE v == k - 1
    <3>1. k \in Keys /\ Keys = M!Keys /\ v \in 0 .. MaxKey /\ ~(k <= 0)
      BY <2>2, PidMapAssumption DEF Keys, M!Keys
    <3>2. DOMAIN Contents = Stored /\ (k \in Stored <=> FoundAt(k) # {})
      BY <3>1, StoredKeys DEF Contents, Shown
    <3> HIDE DEF v
    <3>3. ASSUME FoundAt(k) = {}, result' = Ok,
                 NEW f, Added(k, f), list'[f].value = v,
                 \A s \in Taken : list'[s].value = list[s].value
          PROVE  M!Insert(k, v)
      <4>1. Contents' = [j \in DOMAIN Contents \cup {k} |-> IF j = k THEN v ELSE Contents[j]]
        BY <3>1, <3>2, <3>3, ContentsAdded
      <4> QED BY <3>1, <3>2, <3>3, <4>1 DEF M!Insert, Ok, M!Ok
    <3>4. CASE InsertHome(k, v)
      BY <3>1, <3>3, <3>4, HomeAdded DEF InsertHome
    <3>5. CASE FoundAt(k) # {} /\ Refuse("ERR_DUPLICATE_KEY")
      BY <1>1, <3>1, <3>2, <3>5 DEF Refuse, Error, M!Insert, M!Refuse, M!Error
    <3>6. CASE InsertChained(k, v) /\ probing' # TRUE
      <4>1. FoundAt(k) = {} /\ result' = Ok
        BY <3>6 DEF InsertChained
      <4> QED BY <3>1, <3>3, <3>6, <4>1, ChainedAdded
    <3>7. CASE InsertChained(k, v) /\ probing' = TRUE
      <4>1. ~probing
        BY <1>2 DEF Insert
      <4>2. UNCHANGED <<list, result>>
        BY <3>7, <4>1, Zenon DEF InsertChained
      <4> QED BY <1>1, <4>2
    <3>8. \/ InsertHome(k, v) \/ InsertChained(k, v)
          \/ FoundAt(k) # {} /\ Refuse("ERR_DUPLICATE_KEY")
      BY <1>2, <3>1 DEF Insert, v
    <3> QED BY <3>1, <3>4, <3>5, <3>6, <3>7, <3>8
  <2> QED BY <2>1, <2>2
<1>3. ASSUME NEW k \in 0 .. MaxKey, Get(k)
      PROVE  M!Lookup(k)
  <2>1. CASE k <= 0
    <3>1. Refuse("ERR_INVALID_KEY") /\ k \notin M!Keys
      BY <1>3, <2>1, PidMapAssumption DEF Get, M!Keys
    <3> QED BY <1>1, <3>1 DEF Refuse, Error, M!Lookup, M!Refuse, M!Error
  <2>2. CASE k > 0
    <3>1. k \in Keys /\ Keys = M!Keys /\ ~(k <= 0)
      BY <2>2, PidMapAssumption DEF Keys, M!Keys
    <3>2. DOMAIN Contents = Stored /\ (k \in Stored <=> FoundAt(k) # {})
      BY <3>1, StoredKeys DEF Contents, Shown
    <3>3. CASE FoundAt(k) = {} /\ Refuse("ERR_KEY_NOT_FOUND")
      BY <1>1, <3>1, <3>2, <3>3 DEF Refuse, Error, M!Lookup, M!Refuse, M!Error
    <3>4. CASE (\E s \in FoundAt(k) : result' = Got(list[s].value)) /\ UNCHANGED list
      <4>1. PICK s \in FoundAt(k) : result' = Got(list[s].value)
        BY <3>4
      <4>2. s \in Slots /\ list[s].key = k
        BY <3>1, <4>1, FoundWhereStored
      <4>3. Contents[k] = list[s].value
        BY <3>2, <4>1, <4>2, StoredKeys DEF Shown
      <4> QED BY <1>1, <3>2, <3>4, <4>1, <4>3 DEF Got, M!Lookup, M!Got
    <3> QED BY <1>3, <3>1, <3>3, <3>4 DEF Get
  <2> QED BY <2>1, <2>2
<1>4. CASE UNCHANGED vars
  BY <1>1, <1>4 DEF vars
<1> QED BY <1>2, <1>3, <1>4 DEF Next, M!Next

-------------------------------------------------------------------------------
(***************************************************************************)
(* The theorems                                                            *)
(***************************************************************************)

\* The entries are well formed, and every chain comes to an end.
THEOREM TypeCorrect == Spec => []TypeOK
<1>1. ASSUME MapInv PROVE TypeOK
  <2>1. PICK rank : Ranked(rank)
    BY <1>1 DEF MapInv
  <2>2. Capacity \in 0 .. Capacity /\ \A s \in Taken : rank[s] \in Nat /\ rank[s] < Capacity
    BY <2>1, TakenFew, PidMapAssumption DEF Ranked, Taken
  <2>3. ASSUME NEW k \in Keys, list[hash[k]].key # 0
        PROVE  Link(k)[Capacity] = -1
    <3>1. hash[k] \in Taken
      BY <1>1, <2>3 DEF MapInv, Entries, Taken
    <3>2. Link(k)[Capacity] # -1 =>
            Link(k)[Capacity] \in Taken /\ Capacity <= rank[Link(k)[Capacity]]
      BY <1>1, <2>1, <2>2, <3>1, LinkChain DEF MapInv
    <3> QED BY <2>2, <3>2, PidMapAssumption
  <2> QED BY <1>1, <2>3 DEF MapInv, Entries, TypeOK
<1> QED BY <1>1, MapKept, PTL

\* Whatever the hash function, the capacity and the order of the calls, each is
\* answered as the map of the keys stored answers it.
THEOREM MappingImplemented == Spec => ImplementsMapping
<1>1. Init => M!Init
  BY InitMapping
<1>2. MapInv /\ MapInv' /\ [Next]_vars => [M!Next]_<<Contents, result>>
  BY StepMapping
<1> QED BY <1>1, <1>2, MapKept, PTL DEF Spec, ImplementsMapping, M!Spec

\* With a slot for every key, as the plan has it, no call looks for ever for a
\* free one.
THEOREM SearchEnds == ASSUME MaxKey <= Capacity PROVE Spec => []NeverFull
<1>1. Init => NeverFull
  BY DEF Init, NeverFull
<1>2. MapInv /\ NeverFull /\ [Next]_vars => NeverFull'
  BY NextNeverFull
<1> QED BY <1>1, <1>2, MapKept, PTL DEF Spec

===============================================================================
