----------------------------- MODULE HashTable ------------------------------
(***************************************************************************)
(* RawTable of crates/linear-hashtbl/src/raw.rs: a hash table with linear  *)
(* probing and tombstones, the unique table of every level.                *)
(*                                                                         *)
(* A slot is FREE, a TOMBSTONE or holds a key and, as its status, the low  *)
(* StatusBits bits of the key's hash.  The client has exclusive access to  *)
(* the table, so a call is one step.                                       *)
(***************************************************************************)
EXTENDS TableCalls, FiniteSets, FiniteSetsExt

CONSTANTS
  HashOf,           \* [Keys -> Nat]
  MinCapacity,      \* least number of slots of a table that is not empty (16)
  StatusBits,       \* bits of a status that keep the hash (31 or 63)
  FREE, TOMBSTONE,
  Undefined         \* result of a search that never ends or leaves the array

ASSUME TableAssumption ==
  /\ HashOf \in [Keys -> Nat]
  /\ MinCapacity \in {2 ^ i : i \in 2 .. StatusBits}
  /\ StatusBits \in Nat
  /\ Keys \cap {FREE, TOMBSTONE} = {} /\ FREE # TOMBSTONE

VARIABLES
  data,             \* [0 .. slots - 1 -> Keys \cup {FREE, TOMBSTONE}]
  len, free,        \* what the table believes to be the number of keys, free slots
  call, res         \* the call that returned last and its result

vars == <<data, len, free, call, res>>

Slots(d) == Cardinality(DOMAIN d)
NewTable(n) == [i \in 0 .. n - 1 |-> FREE]
Items(d) == {d[i] : i \in DOMAIN d} \cap Keys

from_hash(hash) == hash % 2 ^ StatusBits

check_capacity(n) == n <= 2 ^ StatusBits

next_power_of_two(n) == 2 ^ Min({i \in 0 .. n : 2 ^ i >= n})

\* Slots for `requested` keys and a quarter to spare
next_capacity(requested) ==
  IF requested = 0 THEN 0
  ELSE Max({next_power_of_two((requested * 4) \div 3), MinCapacity})

-----------------------------------------------------------------------------
(* Rehashing: place the keys in the order of the old slots; a slot's hash  *)
(* is taken from its status.                                               *)

\* The i-th slot that a search from `hash` on visits
Visit(d, hash, i) == (hash + i) % Slots(d)

Place(d, k) ==
  LET h == from_hash(HashOf[k])
      i == Min({j \in DOMAIN d : d[Visit(d, h, j)] = FREE}) IN
  [d EXCEPT ![Visit(d, h, i)] = k]

Rehashed(d, new_cap) ==
  LET placed[i \in 0 .. Slots(d)] ==
        IF i = 0 THEN NewTable(new_cap)
        ELSE IF d[i - 1] \in Keys THEN Place(placed[i - 1], d[i - 1])
        ELSE placed[i - 1] IN
  placed[Slots(d)]

reserve_rehash(t, additional) ==
  LET cap == next_capacity(t.len + additional) IN
  [data |-> Rehashed(t.data, cap), len |-> t.len, free |-> cap - t.len]

\* The check of next_capacity, which panics, in a reserve that rehashes
reserve_fits(t, additional) ==
  t.free < additional + Slots(t.data) \div 4 => check_capacity(next_capacity(t.len + additional))

\* Mutant: the spare slots are not counted.
ReserveWithoutSpare(t, additional) ==
  IF t.free < additional THEN reserve_rehash(t, additional) ELSE t

reserve(t, additional) ==
  IF t.free < additional + Slots(t.data) \div 4 THEN reserve_rehash(t, additional) ELSE t

-----------------------------------------------------------------------------
(* Searching.  A position is the number of slots visited before it.        *)

\* Mutant: a search also ends at a tombstone.
EndsAtTombstone(d, k) ==
  {i \in DOMAIN d : d[Visit(d, HashOf[k], i)] \in {k, FREE, TOMBSTONE}}

\* Where a search for k ends, a set without elements if it does not
Ends(d, k) == {i \in DOMAIN d : d[Visit(d, HashOf[k], i)] \in {k, FREE}}

End(d, k) == Visit(d, HashOf[k], Min(Ends(d, k)))

find(t, k) ==
  CASE t.len = 0 -> FALSE
    [] t.len # 0 /\ Ends(t.data, k) = {} -> Undefined
    [] t.len # 0 /\ Ends(t.data, k) # {} -> t.data[End(t.data, k)] = k

\* The slot for a key that is not found: the tombstone seen last, if any
InsertSlot(d, k) ==
  LET tombs == {i \in 0 .. Min(Ends(d, k)) : d[Visit(d, HashOf[k], i)] = TOMBSTONE} IN
  IF tombs = {} THEN End(d, k) ELSE Visit(d, HashOf[k], Max(tombs))

insert_in_slot_unchecked(t, k, slot) ==
  [data |-> [t.data EXCEPT ![slot] = k],
   len  |-> t.len + 1,
   free |-> IF t.data[slot] = TOMBSTONE THEN t.free ELSE t.free - 1]

\* Mutant: a removed key always leaves a free slot.
RemoveFrees(t, slot) ==
  [data |-> [t.data EXCEPT ![slot] = FREE], len |-> t.len - 1, free |-> t.free + 1]

remove_at_slot_unchecked(t, slot) ==
  LET last == t.data[(slot + 1) % Slots(t.data)] = FREE IN
  [data |-> [t.data EXCEPT ![slot] = IF last THEN FREE ELSE TOMBSTONE],
   len  |-> t.len - 1,
   free |-> IF last THEN t.free + 1 ELSE t.free]

\* clear and drain stop at the last key: tombstones behind it stay.
Emptied(d) ==
  [i \in DOMAIN d |-> IF \E j \in DOMAIN d : j >= i /\ d[j] \in Keys THEN FREE ELSE d[i]]

\* Mutant: clear keeps the number of keys.
ClearKeepsLen(t) == [t EXCEPT !.data = NewTable(Slots(t.data))]

clear(t) ==
  IF t.len = 0 THEN t ELSE [data |-> Emptied(t.data), len |-> 0, free |-> t.free]

drain(t) == [data |-> Emptied(t.data), len |-> 0, free |-> Slots(t.data)]

reset_no_drop(t) == [data |-> NewTable(0), len |-> 0, free |-> t.free]

\* retain runs over the slots from the last to the first key; `last_is_free` is
\* what it knows about the slot behind.
RetainSlot(s, slot, keep) ==
  LET d == s.data[slot]
      freed == [s EXCEPT !.data[slot] = FREE, !.free = @ + 1] IN
  CASE d = FREE -> [s EXCEPT !.last_is_free = TRUE]
    [] d = TOMBSTONE -> IF s.last_is_free THEN freed ELSE s
    [] d \in keep -> s
    [] OTHER -> [(IF s.last_is_free THEN freed ELSE [s EXCEPT !.data[slot] = TOMBSTONE])
                   EXCEPT !.len = @ - 1]

retain(t, keep) ==
  LET n     == Slots(t.data)
      first == Min({i \in DOMAIN t.data : t.data[i] \in Keys})
      after[i \in 0 .. n] ==
        IF i = 0
        THEN [data |-> t.data, len |-> t.len, free |-> t.free, last_is_free |-> t.data[0] = FREE]
        ELSE RetainSlot(after[i - 1], n - i, keep)
      s == after[n - first]
      r == [data |-> s.data, len |-> s.len, free |-> s.free] IN
  IF t.len = 0 THEN t
  ELSE IF r.len < n \div 4 THEN reserve_rehash(r, 0) ELSE r

-----------------------------------------------------------------------------
(* The client *)

table == [data |-> data, len |-> len, free |-> free]

Return(c, t, r) ==
  /\ data' = t.data /\ len' = t.len /\ free' = t.free
  /\ call' = c /\ res' = r

\* new() and with_capacity(n)
Init ==
  /\ \E requested \in 0 .. MaxReserve :
       /\ check_capacity(next_capacity(requested))
       /\ data = NewTable(next_capacity(requested))
  /\ len = 0 /\ free = Slots(data)
  /\ call = NoCall /\ res = {}

Get(c) == c.kind = "get" /\ Return(c, table, find(table, c.key))

\* find_or_find_insert_slot, then insert_in_slot_unchecked if it is not found
Insert(c) ==
  LET t == reserve(table, 1)
      d == t.data IN
  /\ c.kind = "insert"
  /\ reserve_fits(table, 1)
  /\ IF Ends(d, c.key) = {} THEN Return(c, t, Undefined)
     ELSE Return(c, IF d[End(d, c.key)] = c.key THEN t
                    ELSE insert_in_slot_unchecked(t, c.key, InsertSlot(d, c.key)),
                 d[End(d, c.key)] = c.key)

\* remove_entry
Remove(c) ==
  LET found == find(table, c.key) IN
  /\ c.kind = "remove"
  /\ Return(c, IF found = TRUE THEN remove_at_slot_unchecked(table, End(data, c.key)) ELSE table,
            found)

Reserve(c) ==
  /\ c.kind = "reserve"
  /\ reserve_fits(table, c.additional)
  /\ Return(c, reserve(table, c.additional), {})

Clear(c) == c.kind = "clear" /\ Return(c, clear(table), {})

\* The iterators end after `len` keys.
Iter(c) == c.kind = "iter" /\ Return(c, table, Items(data))

Retain(c) ==
  c.kind = "retain" /\ Return(c, retain(table, c.keep), Items(data) \ c.keep)

Drain(c) == c.kind = "drain" /\ Return(c, drain(table), Items(data))

Reset(c) == c.kind = "reset" /\ Return(c, reset_no_drop(table), {})

Next ==
  \E c \in Calls :
    Get(c) \/ Insert(c) \/ Remove(c) \/ Reserve(c) \/ Clear(c) \/ Iter(c)

\* The calls above and those that empty a table in other ways
FullNext == Next \/ \E c \in Calls : Retain(c) \/ Drain(c) \/ Reset(c)

Spec == Init /\ [][Next]_vars

FullSpec == Init /\ [][FullNext]_vars

-----------------------------------------------------------------------------
(* Properties *)

TypeOK ==
  /\ data \in [0 .. Slots(data) - 1 -> Keys \cup {FREE, TOMBSTONE}]
  /\ Slots(data) \in {0} \cup {2 ^ i : i \in 0 .. StatusBits}
  /\ len = Cardinality({i \in DOMAIN data : data[i] \in Keys})

\* A search ends at a free slot, so there must always be one, also after any
\* number of insertions into tombstones, removals and clears: the counter `free`
\* never exceeds the number of free slots, and a quarter stays free.
SearchEnds ==
  /\ free <= Cardinality({i \in DOMAIN data : data[i] = FREE})
  /\ free >= Slots(data) \div 4

\* Every key in a slot is found: between the slot of its hash and its own there
\* is no free slot, whatever was removed, and rehashing uses the same hash bits.
\* retain, "Retain only the elements for which `predicate` returns `true`", keeps
\* the others.
KeptIsFound == \A k \in Items(data) : find(table, k) = TRUE

Abstract == INSTANCE SetTable WITH items <- Items(data)

\* The table is a set: every call returns and changes what it does for a set.
Implements == Abstract!Spec

=============================================================================
