------------------------------- MODULE UfMap --------------------------------
(***************************************************************************)
(* The hash table of unfinity (unfinity/source/uf_containers.c, UfConMap): *)
(* open addressing with linear probing, tombstones, a 3/4 load factor and  *)
(* doubling.  Scopes of the semantic analyzer, the string interner and the *)
(* lexer's symbol table are all instances of it.                           *)
(*                                                                         *)
(* A call that does not grow the table is one action.  Growing is not: the *)
(* loop of _map_resize moves one old slot per step, with the new table     *)
(* only partly filled in between, and the put that caused it inserts last. *)
(***************************************************************************)
EXTENDS Integers, FiniteSets

CONSTANTS
  Keys,             \* the strings used as keys
  Values,           \* the non-null pointers stored
  NoKey, NoValue,   \* nullptr as a key, nullptr as a value
  Hash,             \* _hash_with_fnv1a: any function will do
  InitialCapacity,  \* MAP_INITIAL_CAPACITY
  MaxCapacity       \* the table size beyond which allocation panics

ASSUME KeysAssumption == NoKey \notin Keys /\ NoValue \notin Values
ASSUME HashAssumption == Hash \in [Keys -> Nat]
ASSUME CapacityAssumption ==
  /\ InitialCapacity \in Nat /\ InitialCapacity >= 4
  /\ MaxCapacity \in Nat /\ MaxCapacity >= InitialCapacity

LoadFactorNum == 3
LoadFactorDen == 4
GrowthFactor == 2

VARIABLES
  entries,   \* the slots of the table
  capacity,  \* their number
  count,     \* live keys
  occupied,  \* live keys and tombstones
  old,       \* old_entries of the _map_resize in progress
  oldCapacity, \* old_capacity of that _map_resize, 0 when there is none
  cursor,    \* i, the next old slot to move
  pending,   \* key and value of the put that is resizing
  pc,        \* where the map is: between calls, in _map_resize, or aborted
  result     \* what the last finished call returned

vars == <<entries, capacity, count, occupied, old, oldCapacity, cursor,
          pending, pc, result>>

resizeVars == <<old, oldCapacity, cursor, pending, pc>>

-----------------------------------------------------------------------------
Slots(n) == 0 .. n - 1

EmptySlot == [state |-> "EMPTY", key |-> NoKey, value |-> NoValue]
Live(k, v) == [state |-> "OCCUPIED", key |-> k, value |-> v]
Tombstone == [state |-> "TOMBSTONE", key |-> NoKey, value |-> NoValue]

Slot == {EmptySlot, Tombstone} \cup {Live(k, v) : k \in Keys, v \in Values}

NoCall == [key |-> NoKey, value |-> NoValue]

(* hash & (capacity - 1), for capacities that are powers of two. *)
Home(k, n) == Hash[k] % n

(* The slots a probe that starts at h has passed when it reaches i:        *)
(* index = (index + 1) & (capacity - 1), so it wraps at the end.           *)
Passed(h, i, n) ==
  {j \in Slots(n) : IF h <= i THEN h <= j /\ j < i ELSE h <= j \/ j < i}

(* The slots where a probe that starts at h and stops in S can end: the    *)
(* first of S on its way.  There is none iff the probe would never stop.   *)
FirstFrom(h, S, n) == {i \in S : Passed(h, i, n) \cap S = {}}

HoldsKey(t, i, k) == t[i].state = "OCCUPIED" /\ t[i].key = k

EmptySlots(t, n) == {i \in Slots(n) : t[i].state = "EMPTY"}

(* Mutant: tombstones end a probe, so that put can reuse them at once.     *)
StopAtUnused(t, n, k) == {i \in Slots(n) : t[i].state # "OCCUPIED" \/ HoldsKey(t, i, k)}

(* The loops of put, get and remove stop at an EMPTY slot or at the key;   *)
(* tombstones and other keys are passed.                                   *)
StopSlots(t, n, k) == EmptySlots(t, n) \cup {i \in Slots(n) : HoldsKey(t, i, k)}

(* Mutant: the load test looks at live keys only. *)
NeedsGrowthForLive == (count + 1) * LoadFactorDen >= capacity * LoadFactorNum

(* The load test of uf_con_map_put, which counts tombstones as well. *)
NeedsGrowth == (occupied + 1) * LoadFactorDen >= capacity * LoadFactorNum

(* Mutant: every call counts. *)
AlwaysOne(i) == 1

(* What a put that ends at slot i adds to count and occupied, and what a   *)
(* remove that ends there takes from count.                                *)
Added(i) == IF entries[i].state = "EMPTY" THEN 1 ELSE 0
Removed(i) == IF entries[i].state = "OCCUPIED" THEN 1 ELSE 0

-----------------------------------------------------------------------------
Init ==
  /\ entries = [i \in Slots(InitialCapacity) |-> EmptySlot]
  /\ capacity = InitialCapacity
  /\ count = 0
  /\ occupied = 0
  /\ old = <<>>
  /\ oldCapacity = 0
  /\ cursor = 0
  /\ pending = NoCall
  /\ pc = "ready"
  /\ result = NoValue

(* The probe loop of uf_con_map_put: overwrite the key where it is, or     *)
(* take the EMPTY slot that ends the probe.  A tombstone is never reused.  *)
Store(k, v) ==
  \E i \in FirstFrom(Home(k, capacity), StopSlots(entries, capacity, k), capacity) :
    /\ entries' = [entries EXCEPT ![i] = Live(k, v)]
    /\ count' = count + Added(i)
    /\ occupied' = occupied + Added(i)
    /\ result' = (entries[i].state = "EMPTY")
    /\ UNCHANGED capacity

(* uf_con_map_put when the load factor leaves room for one more slot. *)
Put(k, v) ==
  /\ pc = "ready"
  /\ ~NeedsGrowth
  /\ Store(k, v)
  /\ UNCHANGED resizeVars

(* uf_con_map_put at the load limit enters _map_resize, whether or not the *)
(* key is already there: the new table is empty, the old one still full.   *)
BeginResize(k, v) ==
  /\ pc = "ready"
  /\ NeedsGrowth
  /\ capacity * GrowthFactor <= MaxCapacity
  /\ old' = entries
  /\ oldCapacity' = capacity
  /\ cursor' = 0
  /\ capacity' = capacity * GrowthFactor
  /\ entries' = [i \in Slots(capacity * GrowthFactor) |-> EmptySlot]
  /\ count' = 0
  /\ occupied' = 0
  /\ pending' = [key |-> k, value |-> v]
  /\ pc' = "resize"
  /\ UNCHANGED result

(* The new capacity overflows or cannot be allocated: the process aborts. *)
Panic ==
  /\ pc = "ready"
  /\ NeedsGrowth
  /\ capacity * GrowthFactor > MaxCapacity
  /\ pc' = "panicked"
  /\ UNCHANGED <<entries, capacity, count, occupied, old, oldCapacity, cursor,
                 pending, result>>

(* An aborted process takes no further step. *)
Aborted == pc = "panicked" /\ UNCHANGED vars

(* One iteration of _map_resize over a live old slot: its key moves to the *)
(* first EMPTY slot of the new table; no key is compared.                  *)
MoveSlot ==
  /\ pc = "resize"
  /\ cursor < oldCapacity
  /\ old[cursor].state = "OCCUPIED"
  /\ \E i \in FirstFrom(Home(old[cursor].key, capacity),
                        EmptySlots(entries, capacity), capacity) :
       entries' = [entries EXCEPT ![i] = old[cursor]]
  /\ count' = count + 1
  /\ occupied' = occupied + 1
  /\ cursor' = cursor + 1
  /\ UNCHANGED <<capacity, old, oldCapacity, pending, pc, result>>

(* Mutant: the loop forgets to go to the next slot. *)
DropSlotTwice ==
  /\ pc = "resize"
  /\ cursor < oldCapacity
  /\ old[cursor].state # "OCCUPIED"
  /\ UNCHANGED vars

(* The same loop over an EMPTY slot or a tombstone drops it. *)
DropSlot ==
  /\ pc = "resize"
  /\ cursor < oldCapacity
  /\ old[cursor].state # "OCCUPIED"
  /\ cursor' = cursor + 1
  /\ UNCHANGED <<entries, capacity, count, occupied, old, oldCapacity, pending,
                 pc, result>>

(* _map_resize frees the old table and the put goes on to its probe loop. *)
EndResize ==
  /\ pc = "resize"
  /\ cursor = oldCapacity
  /\ Store(pending.key, pending.value)
  /\ old' = <<>>
  /\ oldCapacity' = 0
  /\ cursor' = 0
  /\ pending' = NoCall
  /\ pc' = "ready"

(* uf_con_map_get.  Nothing changes but the answer. *)
Get(k) ==
  /\ pc = "ready"
  /\ \E i \in FirstFrom(Home(k, capacity), StopSlots(entries, capacity, k), capacity) :
       result' = entries[i].value
  /\ UNCHANGED <<entries, capacity, count, occupied, resizeVars>>

(* uf_con_map_remove: the slot becomes a tombstone, so occupied stays. *)
Remove(k) ==
  /\ pc = "ready"
  /\ \E i \in FirstFrom(Home(k, capacity), StopSlots(entries, capacity, k), capacity) :
       /\ entries' = IF entries[i].state = "OCCUPIED"
                      THEN [entries EXCEPT ![i] = Tombstone] ELSE entries
       /\ count' = count - Removed(i)
       /\ result' = (entries[i].state = "OCCUPIED")
  /\ UNCHANGED <<capacity, occupied, resizeVars>>

Resizing == MoveSlot \/ DropSlot \/ EndResize

Next ==
  \/ \E k \in Keys, v \in Values : Put(k, v) \/ BeginResize(k, v)
  \/ \E k \in Keys : Get(k) \/ Remove(k)
  \/ Resizing
  \/ Panic
  \/ Aborted

(* _map_resize is a loop of the calling thread: once entered, it goes on.  *)
Fairness == WF_vars(Resizing)

Spec == Init /\ [][Next]_vars

FairSpec == Spec /\ Fairness

-----------------------------------------------------------------------------
TypeOK ==
  /\ capacity \in Nat /\ capacity >= 4
  /\ entries \in [Slots(capacity) -> Slot]
  /\ count \in Nat
  /\ occupied \in Nat
  /\ oldCapacity \in Nat /\ (oldCapacity = 0 \/ oldCapacity >= 4)
  /\ old \in [Slots(oldCapacity) -> Slot]
  /\ cursor \in 0 .. oldCapacity
  /\ pending \in [key : Keys, value : Values] \cup {NoCall}
  /\ pc \in {"ready", "resize", "panicked"}
  /\ pc = "resize" => pending \in [key : Keys, value : Values]
  /\ result \in BOOLEAN \cup Values \cup {NoValue}

LiveSlots == {i \in Slots(capacity) : entries[i].state = "OCCUPIED"}
UsedSlots == {i \in Slots(capacity) : entries[i].state # "EMPTY"}

(* The old slots that the resize in progress has still to move. *)
LeftToMove == {i \in cursor .. oldCapacity - 1 : old[i].state = "OCCUPIED"}

(* No EMPTY slot lies between a live key's home and the slot it is in, so  *)
(* that no probe gives up before it: the reason for tombstones, and what a *)
(* remove that marked its slot EMPTY, or a rehash to the old index, breaks.*)
ProbeReachesKey ==
  \A i \in LiveSlots :
    Passed(Home(entries[i].key, capacity), i, capacity)
      \cap EmptySlots(entries, capacity) = {}

(* A key is live in one slot only, counting the slots a resize has left to *)
(* move: a put behind a tombstone must not store a second copy.            *)
KeysAreUnique ==
  /\ \A i, j \in LiveSlots : entries[i].key = entries[j].key => i = j
  /\ \A i, j \in LeftToMove : old[i].key = old[j].key => i = j
  /\ \A i \in LiveSlots, j \in LeftToMove : entries[i].key # old[j].key

(* uf_con_map_length answers with the number of live keys, and the load    *)
(* test sees every tombstone, through growth and removal.                  *)
CountersExact ==
  /\ count = Cardinality(LiveSlots)
  /\ occupied = Cardinality(UsedSlots)

(* Below the load limit between calls, and less than half full while       *)
(* resizing: with CountersExact, what keeps an EMPTY slot in the table.    *)
LoadBounded ==
  /\ oldCapacity = 0 => occupied * LoadFactorDen < capacity * LoadFactorNum
  /\ pc = "resize" => oldCapacity > 0
  /\ oldCapacity > 0 => /\ pc = "resize"
                        /\ capacity = oldCapacity * GrowthFactor
                        /\ occupied <= cursor

(* An EMPTY slot is always on the way, wherever a probe starts: the loops  *)
(* of uf_con_map_put and _map_resize have no other bound (while (true)),   *)
(* so without it a call for a new key would spin for ever.                 *)
ProbeTerminates ==
  \A k \in Keys :
    FirstFrom(Home(k, capacity), EmptySlots(entries, capacity), capacity) # {}

(* A tombstone is garbage for good: no later put takes the slot, only      *)
(* growth gets rid of it, so occupied never decreases in a table.          *)
TombstonesStay ==
  [][ \A i \in Slots(capacity) :
        (entries[i] = Tombstone /\ capacity' = capacity) => entries'[i] = Tombstone ]_vars

(* A put that grows the table returns. *)
ResizeEnds == (pc = "resize") ~> (pc = "ready")

-----------------------------------------------------------------------------
(* The dictionary the table stands for: what is live in the table, and in  *)
(* the old slots that a resize has still to move.                          *)
ValueOf(k) ==
  IF \E i \in LiveSlots : entries[i].key = k
    THEN entries[CHOOSE i \in LiveSlots : entries[i].key = k].value
  ELSE IF \E j \in LeftToMove : old[j].key = k
    THEN old[CHOOSE j \in LeftToMove : old[j].key = k].value
  ELSE NoValue

Dict == INSTANCE UfDict WITH dict <- [k \in Keys |-> ValueOf(k)]

(* Every call answers, and leaves the table, as a dictionary would; the    *)
(* steps of a resize are invisible.                                        *)
ImplementsDict == Dict!Spec

=============================================================================
