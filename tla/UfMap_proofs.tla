---------------------------- MODULE UfMap_proofs ----------------------------
(***************************************************************************)
(* Proofs about the hash table, for every set of keys and values, every    *)
(* hash function and every capacity: the table is well formed between and  *)
(* inside calls, its probes stop, and it implements the dictionary UfDict. *)
(***************************************************************************)
EXTENDS UfMap, TLAPS, FiniteSetTheorems

-----------------------------------------------------------------------------
(* Arithmetic of probing.                                                  *)

(* The home of a key is a slot of the table. *)
LEMMA HomeIsSlot ==
  ASSUME NEW k \in Keys, NEW n \in Nat, n > 0
  PROVE  Home(k, n) \in Slots(n)
<1>1. Hash[k] \in Nat
  BY HashAssumption
<1>2. \A a \in Nat : a % n \in 0 .. n - 1
  OBVIOUS
<1> QED BY <1>1, <1>2 DEF Home, Slots

(* Of two slots, a probe passes one before the other. *)
LEMMA PassedTotal ==
  ASSUME NEW n \in Nat, NEW h \in Slots(n), NEW i \in Slots(n), NEW j \in Slots(n),
         i \notin Passed(h, j, n), j \notin Passed(h, i, n)
  PROVE  i = j
BY DEF Passed, Slots

(* Every non-empty set of natural numbers has a least element. *)
LEMMA LeastNatural ==
  ASSUME NEW S, S \subseteq Nat, S # {}
  PROVE  \E i \in S : \A m \in S : i <= m
<1>1. IsWellFoundedOn(OpToRel(<, Nat), Nat)
  BY NatLessThanWellFounded
<1>2. PICK i \in S : \A m \in S : ~ (<<m, i>> \in OpToRel(<, Nat))
  BY <1>1, WFMin
<1>3. \A m \in S : ~ (m < i)
  BY <1>2 DEF OpToRel
<1> QED BY <1>3

(* A probe towards a non-empty set of slots reaches it. *)
LEMMA ProbeReaches ==
  ASSUME NEW n \in Nat, NEW h \in Slots(n), NEW S, S \subseteq Slots(n), S # {}
  PROVE  FirstFrom(h, S, n) # {}
<1>1. S \subseteq Nat
  BY DEF Slots
<1>2. CASE \E s \in S : h <= s
  <2> DEFINE Ahead == {i \in S : h <= i}
  <2>1. Ahead \subseteq Nat /\ Ahead # {}
    BY <1>1, <1>2
  <2>2. PICK i \in Ahead : \A m \in Ahead : i <= m
    BY <2>1, LeastNatural
  <2>3. Passed(h, i, n) \cap S = {}
    BY <1>1, <2>2 DEF Passed, Slots
  <2> QED BY <2>2, <2>3 DEF FirstFrom
<1>3. CASE ~ \E s \in S : h <= s
  <2>1. PICK i \in S : \A m \in S : i <= m
    BY <1>1, LeastNatural
  <2>2. Passed(h, i, n) \cap S = {}
    BY <1>1, <1>3, <2>1 DEF Passed, Slots
  <2> QED BY <2>1, <2>2 DEF FirstFrom
<1> QED BY <1>2, <1>3

-----------------------------------------------------------------------------
(* Type correctness.                                                       *)

LEMMA SlotFields ==
  ASSUME NEW s \in Slot
  PROVE  /\ s.state \in {"EMPTY", "OCCUPIED", "TOMBSTONE"}
         /\ s.state = "EMPTY" => s = EmptySlot
         /\ s.state = "OCCUPIED" => s.key \in Keys /\ s.value \in Values
         /\ s.value \in Values \cup {NoValue}
BY DEF Slot, EmptySlot, Tombstone, Live

(* The slot that the probe loop of uf_con_map_put ends at. *)
LEMMA StoreSlot ==
  ASSUME TypeOK, NEW k \in Keys, NEW v \in Values, Store(k, v)
  PROVE  \E i \in Slots(capacity) :
           /\ Passed(Home(k, capacity), i, capacity) \cap StopSlots(entries, capacity, k) = {}
           /\ entries[i].state = "EMPTY" \/ HoldsKey(entries, i, k)
           /\ entries' = [entries EXCEPT ![i] = Live(k, v)]
           /\ count' = IF entries[i].state = "EMPTY" THEN count + 1 ELSE count
           /\ occupied' = IF entries[i].state = "EMPTY" THEN occupied + 1 ELSE occupied
           /\ result' = (entries[i].state = "EMPTY")
           /\ capacity' = capacity
<1>1. PICK i \in FirstFrom(Home(k, capacity), StopSlots(entries, capacity, k), capacity) :
        /\ entries' = [entries EXCEPT ![i] = Live(k, v)]
        /\ count' = count + Added(i)
        /\ occupied' = occupied + Added(i)
        /\ result' = (entries[i].state = "EMPTY")
        /\ capacity' = capacity
  BY Zenon DEF Store
<1>2. /\ i \in Slots(capacity)
      /\ entries[i].state = "EMPTY" \/ HoldsKey(entries, i, k)
      /\ Passed(Home(k, capacity), i, capacity) \cap StopSlots(entries, capacity, k) = {}
  BY <1>1 DEF FirstFrom, StopSlots, EmptySlots
<1>3. /\ count' = IF entries[i].state = "EMPTY" THEN count + 1 ELSE count
      /\ occupied' = IF entries[i].state = "EMPTY" THEN occupied + 1 ELSE occupied
  BY <1>1 DEF TypeOK, Added
<1> QED BY <1>1, <1>2, <1>3, Zenon

(* The slot that an old key moves to. *)
LEMMA MoveTarget ==
  ASSUME TypeOK, MoveSlot
  PROVE  \E i \in Slots(capacity) :
           /\ Passed(Home(old[cursor].key, capacity), i, capacity)
                \cap EmptySlots(entries, capacity) = {}
           /\ entries[i].state = "EMPTY"
           /\ entries' = [entries EXCEPT ![i] = old[cursor]]
BY DEF MoveSlot, FirstFrom, EmptySlots

LEMMA StoreType ==
  ASSUME TypeOK, NEW k \in Keys, NEW v \in Values, Store(k, v)
  PROVE  /\ capacity' = capacity
         /\ entries' \in [Slots(capacity) -> Slot]
         /\ count' \in Nat /\ occupied' \in Nat
         /\ result' \in BOOLEAN
<1>1. Live(k, v) \in Slot
  BY DEF Slot
<1>2. PICK i \in Slots(capacity) :
        /\ entries' = [entries EXCEPT ![i] = Live(k, v)]
        /\ count' = IF entries[i].state = "EMPTY" THEN count + 1 ELSE count
        /\ occupied' = IF entries[i].state = "EMPTY" THEN occupied + 1 ELSE occupied
        /\ result' = (entries[i].state = "EMPTY")
        /\ capacity' = capacity
  BY StoreSlot, Zenon
<1>3. result' \in BOOLEAN
  BY <1>2, Zenon
<1>4. entries' \in [Slots(capacity) -> Slot]
  BY <1>1, <1>2 DEF TypeOK
<1>5. count' \in Nat /\ occupied' \in Nat
  BY <1>2 DEF TypeOK
<1> QED BY <1>2, <1>3, <1>4, <1>5

LEMMA InitType == Init => TypeOK
BY CapacityAssumption DEF Init, TypeOK, Slot, Slots, NoCall

(* Every step keeps the table and the resize in progress well formed.      *)
(* That removing a key leaves count a natural number needs count to be     *)
(* the number of live keys, hence CountersExact.                           *)
LEMMA NextType ==
  ASSUME TypeOK, CountersExact, [Next]_vars
  PROVE  TypeOK'
<1>1. ASSUME NEW k \in Keys, NEW v \in Values, Put(k, v)
      PROVE  TypeOK'
  BY <1>1, StoreType DEF Put, TypeOK, resizeVars
<1>2. ASSUME NEW k \in Keys, NEW v \in Values, BeginResize(k, v)
      PROVE  TypeOK'
  BY <1>2 DEF BeginResize, TypeOK, GrowthFactor, Slots, Slot
<1>3. ASSUME NEW k \in Keys, Get(k)
      PROVE  TypeOK'
  <2>1. PICK i \in Slots(capacity) : result' = entries[i].value
    BY <1>3 DEF Get, FirstFrom, StopSlots, EmptySlots
  <2>2. entries[i].value \in Values \cup {NoValue}
    BY <2>1, SlotFields DEF TypeOK
  <2> QED BY <1>3, <2>1, <2>2 DEF Get, TypeOK, resizeVars
<1>4. ASSUME NEW k \in Keys, Remove(k)
      PROVE  TypeOK'
  <2>1. PICK i \in Slots(capacity) :
          /\ entries' = IF entries[i].state = "OCCUPIED"
                         THEN [entries EXCEPT ![i] = Tombstone] ELSE entries
          /\ count' = count - Removed(i)
          /\ result' = (entries[i].state = "OCCUPIED")
    BY <1>4, Zenon DEF Remove, FirstFrom, StopSlots, EmptySlots
  <2>2. entries' \in [Slots(capacity) -> Slot]
    BY <2>1 DEF TypeOK, Slot
  <2>3. IsFiniteSet(LiveSlots)
    <3>1. IsFiniteSet(Slots(capacity))
      BY FS_Interval DEF TypeOK, Slots
    <3> QED BY <3>1, FS_Subset DEF LiveSlots
  <2>4. entries[i].state = "OCCUPIED" => count # 0
    BY <2>1, <2>3, FS_EmptySet DEF CountersExact, LiveSlots
  <2>5. count' \in Nat
    BY <2>1, <2>4 DEF TypeOK, Removed
  <2> QED BY <1>4, <2>1, <2>2, <2>5 DEF Remove, TypeOK, resizeVars
<1>5. CASE MoveSlot
  <2>1. old[cursor] \in Slot
    BY <1>5 DEF MoveSlot, TypeOK, Slots
  <2>2. entries' \in [Slots(capacity) -> Slot]
    BY <1>5, <2>1, MoveTarget DEF TypeOK
  <2> QED BY <1>5, <2>2 DEF MoveSlot, TypeOK
<1>6. CASE DropSlot
  BY <1>6 DEF DropSlot, TypeOK
<1>7. CASE EndResize
  <2>1. pending.key \in Keys /\ pending.value \in Values
    BY <1>7 DEF EndResize, TypeOK
  <2>2. /\ capacity' = capacity
        /\ entries' \in [Slots(capacity) -> Slot]
        /\ count' \in Nat /\ occupied' \in Nat
        /\ result' \in BOOLEAN
    BY <1>7, <2>1, StoreType DEF EndResize
  <2>3. old' \in [Slots(oldCapacity') -> Slot]
    BY <1>7 DEF EndResize, Slots
  <2> QED BY <1>7, <2>2, <2>3 DEF EndResize, TypeOK, NoCall
<1>8. CASE Panic
  BY <1>8 DEF Panic, TypeOK
<1>9. CASE UNCHANGED vars
  BY <1>9 DEF vars, TypeOK
<1> QED
  BY <1>1, <1>2, <1>3, <1>4, <1>5, <1>6, <1>7, <1>8, <1>9 DEF Next, Resizing, Aborted

-----------------------------------------------------------------------------
(* The safety invariant.                                                   *)

IInv ==
  /\ TypeOK
  /\ LoadBounded
  /\ ProbeReachesKey
  /\ KeysAreUnique
  /\ CountersExact

LEMMA FiniteSlotSets ==
  ASSUME TypeOK
  PROVE  /\ IsFiniteSet(Slots(capacity)) /\ Cardinality(Slots(capacity)) = capacity
         /\ IsFiniteSet(LiveSlots)
         /\ IsFiniteSet(UsedSlots)
<1>1. IsFiniteSet(Slots(capacity)) /\ Cardinality(Slots(capacity)) = capacity
  BY FS_Interval DEF TypeOK, Slots
<1> QED BY <1>1, FS_Subset DEF LiveSlots, UsedSlots

(* A probe for k that ends at an EMPTY slot shows that k is nowhere in the *)
(* table: what uf_con_map_get and uf_con_map_put conclude from it.         *)
LEMMA AbsentKey ==
  ASSUME TypeOK, ProbeReachesKey, NEW k \in Keys, NEW i \in Slots(capacity),
         Passed(Home(k, capacity), i, capacity) \cap StopSlots(entries, capacity, k) = {},
         entries[i].state = "EMPTY"
  PROVE  \A j \in LiveSlots : entries[j].key # k
<1> SUFFICES ASSUME NEW j \in LiveSlots, entries[j].key = k
             PROVE  FALSE
  OBVIOUS
<1>1. j \in StopSlots(entries, capacity, k) /\ j \in Slots(capacity)
  BY DEF LiveSlots, StopSlots, HoldsKey
<1>2. i \in EmptySlots(entries, capacity)
  BY DEF EmptySlots
<1>3. i \notin Passed(Home(k, capacity), j, capacity)
  BY <1>2 DEF ProbeReachesKey
<1>4. j \notin Passed(Home(k, capacity), i, capacity)
  BY <1>1
<1>5. Home(k, capacity) \in Slots(capacity) /\ capacity \in Nat
  BY HomeIsSlot DEF TypeOK
<1>6. i = j
  BY <1>1, <1>3, <1>4, <1>5, PassedTotal
<1> QED BY <1>6 DEF LiveSlots

(* Filling slot i, EMPTY or already k's, with k keeps the table sound.     *)
LEMMA FillSlot ==
  ASSUME IInv, NEW k \in Keys, NEW v \in Values, NEW i \in Slots(capacity),
         capacity' = capacity,
         entries' = [entries EXCEPT ![i] = Live(k, v)],
         Passed(Home(k, capacity), i, capacity) \cap EmptySlots(entries, capacity) = {},
         \A j \in LiveSlots : j # i => entries[j].key # k
  PROVE  /\ LiveSlots' = LiveSlots \cup {i}
         /\ UsedSlots' = UsedSlots \cup {i}
         /\ ProbeReachesKey'
         /\ \A a, b \in LiveSlots' : entries'[a].key = entries'[b].key => a = b
<1> USE DEF IInv
<1>1. /\ entries'[i].state = "OCCUPIED" /\ entries'[i].key = k
      /\ \A j \in Slots(capacity) : j # i => entries'[j] = entries[j]
  BY DEF TypeOK, Live
<1>2. LiveSlots' = LiveSlots \cup {i}
  BY <1>1 DEF LiveSlots
<1>3. UsedSlots' = UsedSlots \cup {i}
  BY <1>1 DEF UsedSlots
<1>4. EmptySlots(entries', capacity') \subseteq EmptySlots(entries, capacity)
  BY <1>1 DEF EmptySlots
<1>5. ProbeReachesKey'
  <2> SUFFICES ASSUME NEW j \in LiveSlots'
               PROVE  Passed(Home(entries'[j].key, capacity), j, capacity)
                        \cap EmptySlots(entries, capacity) = {}
    BY <1>4 DEF ProbeReachesKey
  <2>1. CASE j = i
    BY <2>1, <1>1
  <2>2. CASE j # i
    BY <2>2, <1>1, <1>2 DEF ProbeReachesKey, LiveSlots
  <2> QED BY <2>1, <2>2
<1>6. \A a, b \in LiveSlots' : entries'[a].key = entries'[b].key => a = b
  BY <1>1, <1>2 DEF KeysAreUnique, LiveSlots
<1> QED BY <1>2, <1>3, <1>5, <1>6

(* Filling slot i also keeps the counters exact.                           *)
LEMMA CountFilled ==
  ASSUME TypeOK, CountersExact, NEW i \in Slots(capacity),
         LiveSlots' = LiveSlots \cup {i}, UsedSlots' = UsedSlots \cup {i},
         entries[i].state \in {"EMPTY", "OCCUPIED"},
         count' = IF entries[i].state = "EMPTY" THEN count + 1 ELSE count,
         occupied' = IF entries[i].state = "EMPTY" THEN occupied + 1 ELSE occupied
  PROVE  CountersExact'
<1>1. /\ i \in LiveSlots <=> entries[i].state = "OCCUPIED"
      /\ i \in UsedSlots <=> entries[i].state # "EMPTY"
  BY DEF LiveSlots, UsedSlots
<1>2. Cardinality(LiveSlots') = IF i \in LiveSlots THEN count ELSE count + 1
  BY FiniteSlotSets, FS_AddElement DEF CountersExact
<1>3. Cardinality(UsedSlots') = IF i \in UsedSlots THEN occupied ELSE occupied + 1
  BY FiniteSlotSets, FS_AddElement DEF CountersExact
<1> QED BY <1>1, <1>2, <1>3 DEF CountersExact

LEMMA StorePreserves ==
  ASSUME IInv, NEW k \in Keys, NEW v \in Values, Store(k, v),
         LeftToMove = {}, LeftToMove' = {}
  PROVE  /\ ProbeReachesKey' /\ KeysAreUnique' /\ CountersExact'
         /\ capacity' = capacity
         /\ occupied' \in Nat /\ occupied' <= occupied + 1
<1> USE DEF IInv
<1>1. PICK i \in Slots(capacity) :
        /\ Passed(Home(k, capacity), i, capacity) \cap StopSlots(entries, capacity, k) = {}
        /\ entries[i].state = "EMPTY" \/ HoldsKey(entries, i, k)
        /\ entries' = [entries EXCEPT ![i] = Live(k, v)]
        /\ count' = IF entries[i].state = "EMPTY" THEN count + 1 ELSE count
        /\ occupied' = IF entries[i].state = "EMPTY" THEN occupied + 1 ELSE occupied
        /\ capacity' = capacity
  BY StoreSlot, Zenon
<1>2. Passed(Home(k, capacity), i, capacity) \cap EmptySlots(entries, capacity) = {}
  BY <1>1 DEF StopSlots
<1>3. \A j \in LiveSlots : j # i => entries[j].key # k
  <2>1. CASE entries[i].state = "EMPTY"
    BY <2>1, <1>1, AbsentKey
  <2>2. CASE HoldsKey(entries, i, k)
    BY <2>2 DEF KeysAreUnique, HoldsKey, LiveSlots
  <2> QED BY <1>1, <2>1, <2>2
<1>4. /\ LiveSlots' = LiveSlots \cup {i}
      /\ UsedSlots' = UsedSlots \cup {i}
      /\ ProbeReachesKey'
      /\ \A a, b \in LiveSlots' : entries'[a].key = entries'[b].key => a = b
  BY <1>1, <1>2, <1>3, FillSlot
<1>5. KeysAreUnique'
  BY <1>4 DEF KeysAreUnique
<1>6. CountersExact'
  BY <1>1, <1>4, CountFilled DEF HoldsKey
<1>7. occupied' \in Nat /\ occupied' <= occupied + 1
  BY <1>1 DEF TypeOK
<1> QED BY <1>1, <1>4, <1>5, <1>6, <1>7

LEMMA PutInv ==
  ASSUME IInv, NEW k \in Keys, NEW v \in Values, Put(k, v)
  PROVE  IInv'
<1> USE DEF IInv
<1>1. TypeOK'
  BY NextType DEF Next
<1>2. oldCapacity = 0 /\ oldCapacity' = 0 /\ cursor = 0 /\ cursor' = 0
  BY DEF Put, resizeVars, LoadBounded, TypeOK
<1>3. LeftToMove = {} /\ LeftToMove' = {}
  BY <1>2 DEF LeftToMove
<1>4. /\ ProbeReachesKey' /\ KeysAreUnique' /\ CountersExact'
      /\ capacity' = capacity
      /\ occupied' \in Nat /\ occupied' <= occupied + 1
  BY <1>3, StorePreserves DEF Put
<1>5. LoadBounded'
  <2>1. (occupied + 1) * 4 < capacity * 3
    BY DEF Put, NeedsGrowth, TypeOK, LoadFactorNum, LoadFactorDen
  <2>2. occupied \in Nat /\ capacity \in Nat
    BY DEF TypeOK
  <2>3. \A a, b, c \in Nat : b <= a + 1 /\ (a + 1) * 4 < c * 3 => b * 4 < c * 3
    OBVIOUS
  <2>4. pc' # "resize"
    BY DEF Put, resizeVars
  <2>5. occupied' * 4 < capacity' * 3
    BY <1>4, <2>1, <2>2, <2>3, Zenon
  <2> QED BY <1>2, <2>4, <2>5 DEF LoadBounded, LoadFactorNum, LoadFactorDen
<1> QED BY <1>1, <1>4, <1>5

LEMMA BeginResizeInv ==
  ASSUME IInv, NEW k \in Keys, NEW v \in Values, BeginResize(k, v)
  PROVE  IInv'
<1> USE DEF IInv
<1>1. TypeOK'
  BY NextType DEF Next
<1>2. oldCapacity = 0 /\ oldCapacity' = capacity /\ cursor' = 0 /\ old' = entries
  BY DEF BeginResize, LoadBounded, TypeOK
<1>3. LiveSlots' = {} /\ UsedSlots' = {}
  BY DEF BeginResize, LiveSlots, UsedSlots, EmptySlot
<1>4. LeftToMove' = LiveSlots
  BY <1>2 DEF LeftToMove, LiveSlots, Slots, TypeOK
<1>5. KeysAreUnique'
  BY <1>2, <1>3, <1>4 DEF KeysAreUnique
<1>6. ProbeReachesKey'
  BY <1>3 DEF ProbeReachesKey
<1>7. CountersExact'
  BY <1>3, FS_EmptySet DEF CountersExact, BeginResize
<1>8. LoadBounded'
  BY <1>2 DEF BeginResize, LoadBounded, TypeOK, GrowthFactor, LoadFactorNum, LoadFactorDen
<1> QED BY <1>1, <1>5, <1>6, <1>7, <1>8

LEMMA MoveSlotInv ==
  ASSUME IInv, MoveSlot
  PROVE  IInv'
<1> USE DEF IInv
<1> DEFINE k == old[cursor].key
           v == old[cursor].value
<1>1. TypeOK'
  BY NextType DEF Next, Resizing
<1>2. cursor \in 0 .. oldCapacity - 1 /\ cursor \in Slots(oldCapacity)
  BY DEF MoveSlot, TypeOK, Slots
<1>3. k \in Keys /\ v \in Values /\ old[cursor] = Live(k, v)
  BY <1>2 DEF MoveSlot, TypeOK, Slot, EmptySlot, Tombstone, Live
<1>4. cursor \in LeftToMove
  BY <1>2 DEF LeftToMove, MoveSlot
<1>5. LeftToMove' = LeftToMove \ {cursor}
  BY <1>2 DEF LeftToMove, MoveSlot, TypeOK
<1>6. PICK i \in Slots(capacity) :
        /\ Passed(Home(k, capacity), i, capacity) \cap EmptySlots(entries, capacity) = {}
        /\ entries[i].state = "EMPTY"
        /\ entries' = [entries EXCEPT ![i] = Live(k, v)]
  BY <1>3, MoveTarget
<1>7. \A j \in LiveSlots : entries[j].key # k
  BY <1>4 DEF KeysAreUnique
<1>8. /\ LiveSlots' = LiveSlots \cup {i}
      /\ UsedSlots' = UsedSlots \cup {i}
      /\ ProbeReachesKey'
      /\ \A a, b \in LiveSlots' : entries'[a].key = entries'[b].key => a = b
  <2>1. capacity' = capacity
    BY DEF MoveSlot
  <2> HIDE DEF k, v
  <2> QED BY <1>3, <1>6, <1>7, <2>1, FillSlot
<1>9. KeysAreUnique'
  <2>1. \A a, b \in LeftToMove' : old'[a].key = old'[b].key => a = b
    BY <1>5 DEF KeysAreUnique, MoveSlot
  <2>2. ASSUME NEW a \in LiveSlots', NEW b \in LeftToMove'
        PROVE  entries'[a].key # old'[b].key
    <3>1. b \in LeftToMove /\ b # cursor /\ old' = old
      BY <1>5 DEF MoveSlot
    <3>2. CASE a = i
      <4>1. entries'[a].key = old[cursor].key
        BY <3>2, <1>6 DEF TypeOK, Live
      <4> QED BY <3>1, <4>1, <1>4 DEF KeysAreUnique
    <3>3. CASE a # i
      <4>1. a \in LiveSlots /\ entries'[a] = entries[a]
        BY <3>3, <1>6, <1>8 DEF TypeOK, LiveSlots
      <4> QED BY <3>1, <4>1 DEF KeysAreUnique
    <3> QED BY <3>2, <3>3
  <2> QED BY <1>8, <2>1, <2>2 DEF KeysAreUnique
<1>10. CountersExact'
  BY <1>6, <1>8, CountFilled DEF MoveSlot
<1>11. LoadBounded'
  BY <1>2 DEF MoveSlot, LoadBounded, TypeOK, GrowthFactor
<1> QED BY <1>1, <1>8, <1>9, <1>10, <1>11

LEMMA DropSlotInv ==
  ASSUME IInv, DropSlot
  PROVE  IInv'
<1> USE DEF IInv
<1>1. TypeOK'
  BY NextType DEF Next, Resizing
<1>2. /\ LiveSlots' = LiveSlots /\ UsedSlots' = UsedSlots
      /\ entries' = entries /\ capacity' = capacity /\ old' = old
  BY DEF DropSlot, LiveSlots, UsedSlots
<1>3. LeftToMove' = LeftToMove
  BY <1>2 DEF LeftToMove, DropSlot, TypeOK
<1>4. ProbeReachesKey' /\ KeysAreUnique' /\ CountersExact'
  BY <1>2, <1>3 DEF ProbeReachesKey, KeysAreUnique, CountersExact, DropSlot
<1>5. LoadBounded'
  BY DEF DropSlot, LoadBounded, TypeOK, GrowthFactor
<1> QED BY <1>1, <1>4, <1>5

LEMMA EndResizeInv ==
  ASSUME IInv, EndResize
  PROVE  IInv'
<1> USE DEF IInv
<1>1. TypeOK'
  BY NextType DEF Next, Resizing
<1>2. LeftToMove = {} /\ LeftToMove' = {}
  BY DEF LeftToMove, EndResize, TypeOK
<1>3. pending.key \in Keys /\ pending.value \in Values
  BY DEF EndResize, TypeOK
<1>4. /\ ProbeReachesKey' /\ KeysAreUnique' /\ CountersExact'
      /\ capacity' = capacity
      /\ occupied' \in Nat /\ occupied' <= occupied + 1
  BY <1>2, <1>3, StorePreserves DEF EndResize
<1>5. LoadBounded'
  <2>1. occupied \in Nat /\ oldCapacity \in Nat
    BY DEF TypeOK
  <2>2. capacity = oldCapacity * 2 /\ occupied <= oldCapacity /\ oldCapacity >= 4
    BY DEF EndResize, LoadBounded, TypeOK, GrowthFactor
  <2>3. \A a, b, c \in Nat :
          b <= a + 1 /\ a <= c /\ c >= 4 => b * 4 < (c * 2) * 3
    OBVIOUS
  <2>4. occupied' * 4 < (oldCapacity * 2) * 3
    BY <1>4, <2>1, <2>2, <2>3, Zenon
  <2> QED BY <1>4, <2>2, <2>4 DEF EndResize, LoadBounded, LoadFactorNum, LoadFactorDen
<1> QED BY <1>1, <1>4, <1>5

LEMMA RemoveInv ==
  ASSUME IInv, NEW k \in Keys, Remove(k)
  PROVE  IInv'
<1> USE DEF IInv
<1>1. TypeOK'
  BY NextType DEF Next
<1>2. PICK i \in Slots(capacity) :
        /\ entries[i].state = "EMPTY" \/ HoldsKey(entries, i, k)
        /\ entries' = IF entries[i].state = "OCCUPIED"
                       THEN [entries EXCEPT ![i] = Tombstone] ELSE entries
        /\ count' = count - Removed(i)
  BY DEF Remove, FirstFrom, StopSlots, EmptySlots
<1>3. /\ capacity' = capacity /\ occupied' = occupied
      /\ old' = old /\ oldCapacity' = oldCapacity /\ cursor' = cursor
      /\ pc' = pc /\ pc = "ready"
  BY DEF Remove, resizeVars
<1>4. LoadBounded'
  BY <1>3 DEF LoadBounded
<1>5. CASE entries[i].state = "OCCUPIED"
  <2>1. /\ entries'[i].state = "TOMBSTONE"
        /\ \A j \in Slots(capacity) : j # i => entries'[j] = entries[j]
    BY <1>2, <1>5 DEF TypeOK, Tombstone
  <2>2. LiveSlots' = LiveSlots \ {i} /\ i \in LiveSlots
    BY <1>3, <1>5, <2>1 DEF LiveSlots
  <2>3. UsedSlots' = UsedSlots
    BY <1>3, <1>5, <2>1 DEF UsedSlots
  <2>4. EmptySlots(entries', capacity') = EmptySlots(entries, capacity)
    BY <1>3, <1>5, <2>1 DEF EmptySlots
  <2>5. ProbeReachesKey'
    BY <1>3, <2>1, <2>2, <2>4 DEF ProbeReachesKey, LiveSlots
  <2>6. LeftToMove' = LeftToMove
    BY <1>3 DEF LeftToMove
  <2>7. KeysAreUnique'
    BY <1>3, <2>1, <2>2, <2>6 DEF KeysAreUnique, LiveSlots
  <2>8. CountersExact'
    <3>1. Cardinality(LiveSlots') = count - 1
      BY <2>2, FiniteSlotSets, FS_RemoveElement DEF CountersExact
    <3> QED BY <1>2, <1>3, <1>5, <2>3, <3>1 DEF CountersExact, Removed
  <2> QED BY <1>1, <1>4, <2>5, <2>7, <2>8
<1>6. CASE entries[i].state # "OCCUPIED"
  <2>1. entries' = entries /\ count' = count
    BY <1>2, <1>6 DEF Removed, TypeOK
  <2> QED BY <1>1, <1>3, <1>4, <2>1
          DEF ProbeReachesKey, KeysAreUnique, CountersExact, LiveSlots, UsedSlots, LeftToMove
<1> QED BY <1>5, <1>6

(* Steps that leave table and resize alone. *)
LEMMA OtherInv ==
  ASSUME IInv, [Next]_vars,
         entries' = entries, capacity' = capacity, count' = count, occupied' = occupied,
         old' = old, oldCapacity' = oldCapacity, cursor' = cursor,
         pc' = pc \/ (pc' # "resize" /\ pc # "resize")
  PROVE  IInv'
<1>1. TypeOK'
  BY NextType DEF IInv
<1>2. LoadBounded'
  BY DEF IInv, LoadBounded
<1> QED
  BY <1>1, <1>2 DEF IInv, ProbeReachesKey, KeysAreUnique, CountersExact,
                    LiveSlots, UsedSlots, LeftToMove

LEMMA InitInv == Init => IInv
<1> SUFFICES ASSUME Init PROVE IInv
  OBVIOUS
<1>1. TypeOK
  BY InitType
<1>2. LiveSlots = {} /\ UsedSlots = {} /\ LeftToMove = {}
  BY DEF Init, LiveSlots, UsedSlots, LeftToMove, EmptySlot
<1>3. LoadBounded
  BY CapacityAssumption DEF Init, LoadBounded, LoadFactorNum, LoadFactorDen
<1>4. CountersExact
  BY <1>2, FS_EmptySet DEF Init, CountersExact
<1> QED BY <1>1, <1>2, <1>3, <1>4 DEF IInv, ProbeReachesKey, KeysAreUnique

LEMMA NextInv ==
  ASSUME IInv, [Next]_vars
  PROVE  IInv'
<1>1. ASSUME NEW k \in Keys, Get(k)
      PROVE  IInv'
  BY <1>1, OtherInv DEF Get, resizeVars, Next
<1>2. CASE Panic
  BY <1>2, OtherInv DEF Panic
<1>3. CASE UNCHANGED vars
  BY <1>3, OtherInv DEF vars
<1> QED
  BY <1>1, <1>2, <1>3, PutInv, BeginResizeInv, RemoveInv, MoveSlotInv, DropSlotInv,
     EndResizeInv DEF Next, Resizing, Aborted

(* IInv is inductive; every other safety result is read off it. *)
THEOREM Invariance == Spec => []IInv
<1>1. IInv /\ [Next]_vars => IInv'
  BY NextInv
<1> QED BY InitInv, <1>1, PTL DEF Spec

(* uf_containers.c keeps the table, the resize in progress and the answer  *)
(* well formed, whatever calls are made.                                   *)
THEOREM TypeCorrect == Spec => []TypeOK
BY Invariance, PTL DEF IInv

(* No live key hides behind an EMPTY slot, in particular not after a       *)
(* removal, an overwrite or half of a _map_resize.                         *)
THEOREM KeysReachable == Spec => []ProbeReachesKey
BY Invariance, PTL DEF IInv

(* No key is stored twice. *)
THEOREM KeysUnique == Spec => []KeysAreUnique
BY Invariance, PTL DEF IInv

(* count and occupied are the cardinalities they stand for. *)
THEOREM CountersCorrect == Spec => []CountersExact
BY Invariance, PTL DEF IInv

LEMMA EmptySlotLeft ==
  ASSUME IInv
  PROVE  EmptySlots(entries, capacity) # {}
<1> USE DEF IInv
<1>1. occupied \in Nat /\ capacity \in Nat /\ oldCapacity \in Nat /\ cursor \in Nat
      /\ cursor <= oldCapacity /\ capacity >= 4
  BY DEF TypeOK
<1>2. occupied < capacity
  <2>1. CASE oldCapacity = 0
    BY <1>1, <2>1 DEF LoadBounded, LoadFactorNum, LoadFactorDen
  <2>2. CASE oldCapacity > 0
    BY <1>1, <2>2 DEF LoadBounded, GrowthFactor
  <2> QED BY <1>1, <2>1, <2>2
<1>3. UsedSlots # Slots(capacity)
  BY <1>1, <1>2, FiniteSlotSets DEF CountersExact
<1> QED BY <1>3 DEF UsedSlots, EmptySlots

(* Every probe loop stops: for a new key too, an EMPTY slot is on its way. *)
THEOREM ProbesStop == Spec => []ProbeTerminates
<1>1. ASSUME IInv
      PROVE  ProbeTerminates
  <2> SUFFICES ASSUME NEW k \in Keys
               PROVE  FirstFrom(Home(k, capacity), EmptySlots(entries, capacity), capacity) # {}
    BY DEF ProbeTerminates
  <2>1. capacity \in Nat /\ Home(k, capacity) \in Slots(capacity)
    BY <1>1, HomeIsSlot DEF IInv, TypeOK
  <2>2. EmptySlots(entries, capacity) \subseteq Slots(capacity)
    BY DEF EmptySlots
  <2> QED BY <1>1, <2>1, <2>2, EmptySlotLeft, ProbeReaches
<1> QED BY <1>1, Invariance, PTL

-----------------------------------------------------------------------------
(* The table implements the dictionary.                                    *)

(* The probe loops find the value that the table stands for. *)
LEMMA ProbeFindsValue ==
  ASSUME IInv, LeftToMove = {}, NEW k \in Keys, NEW i \in Slots(capacity),
         Passed(Home(k, capacity), i, capacity) \cap StopSlots(entries, capacity, k) = {},
         entries[i].state = "EMPTY" \/ HoldsKey(entries, i, k)
  PROVE  /\ ValueOf(k) = entries[i].value
         /\ entries[i].state = "EMPTY" <=> ValueOf(k) = NoValue
<1> USE DEF IInv
<1>1. entries[i] \in Slot
  BY DEF TypeOK
<1>2. CASE entries[i].state = "EMPTY"
  <2>1. \A j \in LiveSlots : entries[j].key # k
    BY <1>2, AbsentKey
  <2>2. ValueOf(k) = NoValue
    BY <2>1 DEF ValueOf
  <2> QED BY <1>1, <1>2, <2>2, SlotFields DEF EmptySlot
<1>3. CASE HoldsKey(entries, i, k)
  <2>1. i \in LiveSlots /\ entries[i].key = k
    BY <1>3 DEF HoldsKey, LiveSlots
  <2>2. (CHOOSE j \in LiveSlots : entries[j].key = k) = i
    BY <2>1 DEF KeysAreUnique
  <2>3. ValueOf(k) = entries[i].value
    BY <2>1, <2>2 DEF ValueOf
  <2>4. entries[i].value \in Values
    BY <1>1, <1>3, SlotFields DEF HoldsKey
  <2> QED BY <1>3, <2>3, <2>4, KeysAssumption DEF HoldsKey
<1> QED BY <1>2, <1>3

(* What ValueOf is, without its CHOOSEs: this form also speaks of the next *)
(* state, when IInv holds there.                                           *)
View ==
  /\ \A i \in LiveSlots : ValueOf(entries[i].key) = entries[i].value
  /\ \A j \in LeftToMove : ValueOf(old[j].key) = old[j].value
  /\ \A k \in Keys :
       /\ \A i \in LiveSlots : entries[i].key # k
       /\ \A j \in LeftToMove : old[j].key # k
       => ValueOf(k) = NoValue

LEMMA ViewHolds == IInv => View
<1> SUFFICES ASSUME IInv PROVE View
  OBVIOUS
<1> USE DEF IInv
<1>1. ASSUME NEW i \in LiveSlots
      PROVE  ValueOf(entries[i].key) = entries[i].value
  <2>1. (CHOOSE j \in LiveSlots : entries[j].key = entries[i].key) = i
    BY DEF KeysAreUnique
  <2> QED BY <2>1 DEF ValueOf
<1>2. ASSUME NEW j \in LeftToMove
      PROVE  ValueOf(old[j].key) = old[j].value
  <2>1. (CHOOSE i \in LeftToMove : old[i].key = old[j].key) = j
    BY DEF KeysAreUnique
  <2>2. ~ \E i \in LiveSlots : entries[i].key = old[j].key
    BY DEF KeysAreUnique
  <2> QED BY <2>1, <2>2 DEF ValueOf
<1>3. ASSUME NEW k \in Keys,
             \A i \in LiveSlots : entries[i].key # k,
             \A j \in LeftToMove : old[j].key # k
      PROVE  ValueOf(k) = NoValue
  BY <1>3 DEF ValueOf
<1> QED BY <1>1, <1>2, <1>3 DEF View

(* Storing v under k changes the dictionary at k only. *)
LEMMA StoreView ==
  ASSUME IInv, IInv', NEW k \in Keys, NEW v \in Values, Store(k, v),
         LeftToMove = {}, LeftToMove' = {}
  PROVE  /\ \A x \in Keys : ValueOf(x)' = IF x = k THEN v ELSE ValueOf(x)
         /\ result' = (ValueOf(k) = NoValue)
<1>1. PICK i \in Slots(capacity) :
        /\ Passed(Home(k, capacity), i, capacity) \cap StopSlots(entries, capacity, k) = {}
        /\ entries[i].state = "EMPTY" \/ HoldsKey(entries, i, k)
        /\ entries' = [entries EXCEPT ![i] = Live(k, v)]
        /\ result' = (entries[i].state = "EMPTY")
        /\ capacity' = capacity
  BY StoreSlot, Zenon DEF IInv
<1>2. entries[i].state = "EMPTY" <=> ValueOf(k) = NoValue
  BY <1>1, ProbeFindsValue
<1>3. result' = (ValueOf(k) = NoValue)
  BY <1>1, <1>2, Zenon
<1>4. View /\ View'
  BY ViewHolds, PTL
<1>5. /\ entries'[i] = Live(k, v)
      /\ \A j \in Slots(capacity) : j # i => entries'[j] = entries[j]
  BY <1>1 DEF IInv, TypeOK
<1>6. LiveSlots' = LiveSlots \cup {i}
  BY <1>1, <1>5 DEF LiveSlots, Live
<1>7. ValueOf(k)' = v
  BY <1>4, <1>5, <1>6 DEF View, Live
<1>8. ASSUME NEW x \in Keys, x # k
      PROVE  ValueOf(x)' = ValueOf(x)
  <2>1. CASE \E j \in LiveSlots : entries[j].key = x
    <3>1. PICK j \in LiveSlots : entries[j].key = x
      BY <2>1
    <3>2. j # i
      BY <3>1, <1>1, <1>8 DEF HoldsKey, LiveSlots
    <3>3. j \in LiveSlots' /\ entries'[j] = entries[j]
      BY <3>2, <1>5, <1>6 DEF LiveSlots
    <3> QED BY <3>1, <3>3, <1>4 DEF View
  <2>2. CASE \A j \in LiveSlots : entries[j].key # x
    <3>1. \A j \in LiveSlots' : entries'[j].key # x
      BY <2>2, <1>5, <1>6, <1>8 DEF LiveSlots, Live
    <3> QED BY <2>2, <3>1, <1>4 DEF View
  <2> QED BY <2>1, <2>2
<1> QED BY <1>3, <1>7, <1>8

LEMMA ReadyNotMoving ==
  ASSUME IInv, pc = "ready"
  PROVE  oldCapacity = 0 /\ cursor = 0 /\ LeftToMove = {}
<1>1. oldCapacity = 0 /\ cursor = 0
  BY DEF IInv, LoadBounded, TypeOK
<1> QED BY <1>1 DEF LeftToMove

LEMMA BeginResizeView ==
  ASSUME IInv, IInv', NEW k \in Keys, NEW v \in Values, BeginResize(k, v)
  PROVE  \A x \in Keys : ValueOf(x)' = ValueOf(x)
<1>1. LeftToMove = {}
  BY ReadyNotMoving DEF BeginResize
<1>2. LiveSlots' = {} /\ old' = entries
  BY DEF BeginResize, LiveSlots, EmptySlot
<1>3. LeftToMove' = LiveSlots
  BY DEF BeginResize, LeftToMove, LiveSlots, Slots, IInv, TypeOK
<1>4. View /\ View'
  BY ViewHolds, PTL
<1> QED BY <1>1, <1>2, <1>3, <1>4 DEF View

LEMMA MoveSlotView ==
  ASSUME IInv, IInv', MoveSlot
  PROVE  \A x \in Keys : ValueOf(x)' = ValueOf(x)
<1>1. PICK i \in Slots(capacity) :
        /\ entries[i].state = "EMPTY"
        /\ entries' = [entries EXCEPT ![i] = old[cursor]]
  BY MoveTarget DEF IInv
<1>2. /\ cursor \in LeftToMove
      /\ LeftToMove' = LeftToMove \ {cursor}
      /\ old' = old /\ capacity' = capacity
  BY DEF LeftToMove, MoveSlot, IInv, TypeOK
<1>3. /\ entries'[i] = old[cursor]
      /\ \A j \in Slots(capacity) : j # i => entries'[j] = entries[j]
  BY <1>1 DEF IInv, TypeOK
<1>4. LiveSlots' = LiveSlots \cup {i}
  BY <1>1, <1>2, <1>3 DEF LiveSlots, MoveSlot
<1>5. View /\ View'
  BY ViewHolds, PTL
<1> SUFFICES ASSUME NEW x \in Keys
             PROVE  ValueOf(x)' = ValueOf(x)
  OBVIOUS
<1>6. CASE x = old[cursor].key
  BY <1>2, <1>3, <1>4, <1>5, <1>6 DEF View
<1>7. CASE \E j \in LiveSlots : entries[j].key = x
  BY <1>1, <1>3, <1>4, <1>5, <1>7 DEF View, LiveSlots
<1>8. CASE \E j \in LeftToMove : j # cursor /\ old[j].key = x
  BY <1>2, <1>5, <1>8 DEF View
<1>9. CASE /\ x # old[cursor].key
           /\ \A j \in LiveSlots : entries[j].key # x
           /\ \A j \in LeftToMove : old[j].key # x
  <2>1. \A j \in LiveSlots' : entries'[j].key # x
    BY <1>3, <1>4, <1>9 DEF LiveSlots
  <2>2. \A j \in LeftToMove' : old'[j].key # x
    BY <1>2, <1>9
  <2> QED BY <1>5, <1>9, <2>1, <2>2 DEF View
<1> QED BY <1>6, <1>7, <1>8, <1>9

LEMMA RemoveView ==
  ASSUME IInv, IInv', NEW k \in Keys, Remove(k)
  PROVE  /\ \A x \in Keys : ValueOf(x)' = IF x = k THEN NoValue ELSE ValueOf(x)
         /\ result' = (ValueOf(k) # NoValue)
<1>1. PICK i \in Slots(capacity) :
        /\ Passed(Home(k, capacity), i, capacity) \cap StopSlots(entries, capacity, k) = {}
        /\ entries[i].state = "EMPTY" \/ HoldsKey(entries, i, k)
        /\ entries' = IF entries[i].state = "OCCUPIED"
                       THEN [entries EXCEPT ![i] = Tombstone] ELSE entries
        /\ result' = (entries[i].state = "OCCUPIED")
  <2>1. PICK i \in FirstFrom(Home(k, capacity), StopSlots(entries, capacity, k), capacity) :
          /\ entries' = IF entries[i].state = "OCCUPIED"
                         THEN [entries EXCEPT ![i] = Tombstone] ELSE entries
          /\ result' = (entries[i].state = "OCCUPIED")
    BY Zenon DEF Remove
  <2>2. /\ i \in Slots(capacity)
        /\ Passed(Home(k, capacity), i, capacity) \cap StopSlots(entries, capacity, k) = {}
        /\ entries[i].state = "EMPTY" \/ HoldsKey(entries, i, k)
    BY DEF FirstFrom, StopSlots, EmptySlots
  <2> QED BY <2>1, <2>2, Zenon
<1>2. LeftToMove = {} /\ LeftToMove' = {} /\ capacity' = capacity
  BY ReadyNotMoving DEF Remove, resizeVars, LeftToMove
<1>3. entries[i].state = "EMPTY" <=> ValueOf(k) = NoValue
  BY <1>1, <1>2, ProbeFindsValue
<1>4. entries[i].state = "OCCUPIED" <=> ValueOf(k) # NoValue
  BY <1>1, <1>3 DEF HoldsKey
<1>5. result' = (ValueOf(k) # NoValue)
  BY <1>1, <1>4, Zenon
<1>6. View /\ View'
  BY ViewHolds, PTL
<1>7. CASE entries[i].state = "EMPTY"
  <2>1. entries' = entries /\ LiveSlots' = LiveSlots
    BY <1>1, <1>2, <1>7 DEF LiveSlots
  <2>2. \A x \in Keys : ValueOf(x)' = ValueOf(x)
    BY <1>2, <1>6, <2>1 DEF View
  <2> QED BY <1>3, <1>5, <1>7, <2>2
<1>8. CASE HoldsKey(entries, i, k)
  <2>1. /\ entries'[i] = Tombstone
        /\ \A j \in Slots(capacity) : j # i => entries'[j] = entries[j]
    BY <1>1, <1>8 DEF IInv, TypeOK, HoldsKey
  <2>2. LiveSlots' = LiveSlots \ {i} /\ i \in LiveSlots
    BY <1>2, <1>8, <2>1 DEF LiveSlots, Tombstone, HoldsKey
  <2>3. \A j \in LiveSlots' : entries'[j] = entries[j] /\ entries[j].key # k
    BY <1>8, <2>1, <2>2 DEF IInv, KeysAreUnique, LiveSlots, HoldsKey
  <2>4. ValueOf(k)' = NoValue
    BY <1>2, <1>6, <2>3 DEF View
  <2>5. ASSUME NEW x \in Keys, x # k
        PROVE  ValueOf(x)' = ValueOf(x)
    <3>1. CASE \E j \in LiveSlots : entries[j].key = x
      BY <1>6, <1>8, <2>2, <2>3, <2>5, <3>1 DEF View, HoldsKey
    <3>2. CASE \A j \in LiveSlots : entries[j].key # x
      BY <1>2, <1>6, <2>2, <2>3, <3>2 DEF View
    <3> QED BY <3>1, <3>2
  <2> QED BY <1>5, <2>4, <2>5
<1> QED BY <1>1, <1>7, <1>8

LEMMA SameView ==
  ASSUME \A x \in Keys : ValueOf(x)' = ValueOf(x)
  PROVE  [x \in Keys |-> ValueOf(x)]' = [x \in Keys |-> ValueOf(x)]
OBVIOUS

LEMMA InitView == Init => Dict!Init
<1> SUFFICES ASSUME Init PROVE Dict!Init
  OBVIOUS
<1>1. LiveSlots = {} /\ LeftToMove = {}
  BY DEF Init, LiveSlots, LeftToMove, EmptySlot
<1>2. \A k \in Keys : ValueOf(k) = NoValue
  BY <1>1 DEF ValueOf
<1> QED BY <1>2 DEF Init, Dict!Init

LEMMA PutStep ==
  ASSUME NEW k \in Keys, NEW v \in Values,
         \A x \in Keys : ValueOf(x)' = IF x = k THEN v ELSE ValueOf(x),
         result' = (ValueOf(k) = NoValue)
  PROVE  Dict!Next
<1>1. [x \in Keys |-> ValueOf(x)]' = [[x \in Keys |-> ValueOf(x)] EXCEPT ![k] = v]
  OBVIOUS
<1>2. result' = ([x \in Keys |-> ValueOf(x)][k] = NoValue)
  BY Zenon
<1>3. Dict!Put(k, v)
  BY <1>1, <1>2, Zenon DEF Dict!Put
<1> QED BY <1>3, Zenon DEF Dict!Next

LEMMA NextView ==
  ASSUME IInv, IInv', [Next]_vars
  PROVE  [Dict!Next]_(Dict!vars)
<1>1. ASSUME NEW k \in Keys, NEW v \in Values, Put(k, v)
      PROVE  Dict!Next
  <2>1. LeftToMove = {} /\ LeftToMove' = {} /\ Store(k, v)
    BY <1>1, ReadyNotMoving DEF Put, resizeVars, LeftToMove
  <2> QED BY <2>1, StoreView, PutStep
<1>2. ASSUME NEW k \in Keys, NEW v \in Values, BeginResize(k, v)
      PROVE  UNCHANGED Dict!vars
  BY <1>2, BeginResizeView, SameView DEF Dict!vars, BeginResize
<1>3. ASSUME NEW k \in Keys, Get(k)
      PROVE  Dict!Next
  <2>1. LeftToMove = {}
    BY <1>3, ReadyNotMoving DEF Get
  <2>2. PICK i \in Slots(capacity) :
          /\ Passed(Home(k, capacity), i, capacity) \cap StopSlots(entries, capacity, k) = {}
          /\ entries[i].state = "EMPTY" \/ HoldsKey(entries, i, k)
          /\ result' = entries[i].value
    BY <1>3 DEF Get, FirstFrom, StopSlots, EmptySlots
  <2>3. result' = ValueOf(k)
    BY <2>1, <2>2, ProbeFindsValue
  <2>4. \A x \in Keys : ValueOf(x)' = ValueOf(x)
    BY <1>3 DEF Get, resizeVars, ValueOf, LiveSlots, LeftToMove
  <2>5. Dict!Get(k)
    BY <2>3, <2>4, SameView DEF Dict!Get
  <2> QED BY <2>5, Zenon DEF Dict!Next
<1>4. ASSUME NEW k \in Keys, Remove(k)
      PROVE  Dict!Next
  <2>1. /\ \A x \in Keys : ValueOf(x)' = IF x = k THEN NoValue ELSE ValueOf(x)
        /\ result' = (ValueOf(k) # NoValue)
    BY <1>4, RemoveView
  <2>2. [x \in Keys |-> ValueOf(x)]' = [[x \in Keys |-> ValueOf(x)] EXCEPT ![k] = NoValue]
    BY <2>1
  <2>3. result' = ([x \in Keys |-> ValueOf(x)][k] # NoValue)
    BY <2>1, Zenon
  <2>4. Dict!Remove(k)
    BY <2>2, <2>3, Zenon DEF Dict!Remove
  <2> QED BY <2>4, Zenon DEF Dict!Next
<1>5. CASE MoveSlot
  BY <1>5, MoveSlotView, SameView DEF Dict!vars, MoveSlot
<1>6. CASE DropSlot
  <2>1. LeftToMove' = LeftToMove /\ LiveSlots' = LiveSlots
    BY <1>6 DEF DropSlot, LeftToMove, LiveSlots, IInv, TypeOK
  <2>2. \A x \in Keys : ValueOf(x)' = ValueOf(x)
    BY <1>6, <2>1 DEF DropSlot, ValueOf
  <2> QED BY <1>6, <2>2, SameView DEF Dict!vars, DropSlot
<1>7. CASE EndResize
  <2>1. LeftToMove = {} /\ LeftToMove' = {}
    BY <1>7 DEF LeftToMove, EndResize, IInv, TypeOK
  <2>2. pending.key \in Keys /\ pending.value \in Values /\ Store(pending.key, pending.value)
    BY <1>7 DEF EndResize, IInv, TypeOK
  <2> QED BY <2>1, <2>2, StoreView, PutStep
<1>8. CASE Panic \/ UNCHANGED vars
  <2>1. \A x \in Keys : ValueOf(x)' = ValueOf(x)
    BY <1>8 DEF Panic, vars, ValueOf, LiveSlots, LeftToMove
  <2> QED BY <1>8, <2>1, SameView DEF Dict!vars, Panic, vars
<1> QED
  BY <1>1, <1>2, <1>3, <1>4, <1>5, <1>6, <1>7, <1>8 DEF Next, Resizing, Aborted

(* To its callers the hash table is a dictionary: every put, get and       *)
(* remove answers and acts as in UfDict, for any interleaving of calls,    *)
(* any hash collisions and any number of growths.                          *)
THEOREM Implements == Spec => ImplementsDict
<1>1. IInv /\ IInv' /\ [Next]_vars => [Dict!Next]_(Dict!vars)
  BY NextView
<1> QED BY <1>1, InitView, Invariance, PTL DEF Spec, ImplementsDict, Dict!Spec

(* Tombstones stay where they are until the table grows. *)
THEOREM TombstonesStaySpec == Spec => TombstonesStay
<1> DEFINE Stay == \A i \in Slots(capacity) :
                     (entries[i] = Tombstone /\ capacity' = capacity) => entries'[i] = Tombstone
<1>1. ASSUME IInv, [Next]_vars
      PROVE  Stay
  <2> SUFFICES ASSUME NEW i \in Slots(capacity), entries[i] = Tombstone, capacity' = capacity
               PROVE  entries'[i] = Tombstone
    OBVIOUS
  <2> USE <1>1
  <2>1. ASSUME NEW k \in Keys, NEW v \in Values, Store(k, v)
        PROVE  entries'[i] = Tombstone
    <3>1. PICK j \in Slots(capacity) :
            /\ entries[j].state = "EMPTY" \/ HoldsKey(entries, j, k)
            /\ entries' = [entries EXCEPT ![j] = Live(k, v)]
      BY <2>1, StoreSlot, Zenon DEF IInv
    <3> QED BY <3>1 DEF HoldsKey, Tombstone, IInv, TypeOK
  <2>2. CASE MoveSlot
    BY <2>2, MoveTarget DEF Tombstone, IInv, TypeOK
  <2>3. ASSUME NEW k \in Keys, Remove(k)
        PROVE  entries'[i] = Tombstone
    BY <2>3 DEF Remove, IInv, TypeOK
  <2>4. ASSUME NEW k \in Keys, NEW v \in Values, BeginResize(k, v)
        PROVE  FALSE
    BY <2>4 DEF BeginResize, GrowthFactor, IInv, TypeOK
  <2>5. CASE EndResize
    BY <2>1, <2>5 DEF EndResize, IInv, TypeOK
  <2> QED
    BY <2>1, <2>2, <2>3, <2>4, <2>5
       DEF Next, Resizing, Put, Get, DropSlot, Panic, Aborted, vars
<1> QED BY <1>1, Invariance, PTL DEF Spec, TombstonesStay

=============================================================================
