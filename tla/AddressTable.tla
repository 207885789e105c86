---------------------------- MODULE AddressTable ----------------------------
(***************************************************************************)
(* The hash tables of address-map.h and address-set.h, as operators on     *)
(* records: open addressing over a power of two of slots, with entries in  *)
(* the order of their homes ("robin hood"), so that a probe may stop at    *)
(* the first entry that is nearer to its home than the probe is.           *)
(*                                                                         *)
(* A slot holds <<key, value>>, or Null where its bit is clear.  Keys are  *)
(* hashes: hash_address is a bijection, so that they stand for addresses.  *)
(***************************************************************************)
EXTENDS Integers, FiniteSetsExt, SequencesExt

CONSTANT Null

hash_init(n) == [size |-> n, n_items |-> 0, slots |-> [i \in 0 .. n - 1 |-> Null]]

slot_index(t, i) == i % t.size
slot_entry(t, i) == t.slots[slot_index(t, i)]
slot_is_empty(t, i) == slot_entry(t, i) = Null
slot_distance(t, i) == slot_index(t, i - slot_entry(t, i)[1])

should_shrink(t) == t.size > 8 /\ t.n_items <= t.size \div 8
should_grow(t) == t.n_items >= t.size - t.size \div 8

\* Where the search for the place of k stops: past the entries farther from their homes
\* than k would be, and past those with the home of k that are not k.
Passed(t, k) ==
  Min({d \in 0 .. t.size : slot_is_empty(t, k + d) \/ d >= slot_distance(t, k + d)})

\* Mutant: the place is taken before the entries with the same home are compared.
PassedOnly(t, k) == Passed(t, k)

Displacement(t, k) ==
  Min({d \in Passed(t, k) .. t.size :
         \/ slot_is_empty(t, k + d)
         \/ d # slot_distance(t, k + d)
         \/ slot_entry(t, k + d)[1] = k})

\* The entries from there to the next free slot move up by one.
do_insert(t, k, v) ==
  LET idx == k + Displacement(t, k)
      found == ~slot_is_empty(t, idx) /\ slot_entry(t, idx)[1] = k
      slots_to_move == Min({m \in 0 .. t.size - 1 : slot_is_empty(t, idx + m)})
      Moved(i) == LET at == slot_index(t, i - idx) IN
        IF at = 0 THEN <<k, v>>
        ELSE IF at <= slots_to_move THEN slot_entry(t, i - 1) ELSE t.slots[i]
  IN IF found
       THEN [t EXCEPT !.slots[slot_index(t, idx)] = <<k, v>>]
       ELSE [t EXCEPT !.n_items = @ + 1, !.slots = [i \in 0 .. t.size - 1 |-> Moved(i)]]

populate(dst, src) ==
  LET Add(t, i) == IF slot_is_empty(src, i) THEN t
                   ELSE do_insert(t, slot_entry(src, i)[1], slot_entry(src, i)[2])
  IN FoldLeft(Add, dst, [i \in 1 .. src.size |-> i - 1])

Grown(t) == populate(hash_init(t.size * 2), t)
Shrunk(t) == populate(hash_init(t.size \div 2), t)

hash_insert(t, k, v) == do_insert(IF should_grow(t) THEN Grown(t) ELSE t, k, v)

\* The entries after the one removed that are not at home move back by one.
Without(t, k) ==
  LET slot == k + Min({d \in 0 .. t.size - 1 :
                         slot_is_empty(t, k + d) \/ slot_entry(t, k + d)[1] = k})
      moved == Min({m \in 0 .. t.size - 1 :
                      slot_is_empty(t, slot + m + 1) \/ slot_distance(t, slot + m + 1) = 0})
      Moved(i) == LET at == slot_index(t, i - slot) IN
        IF at < moved THEN slot_entry(t, i + 1) ELSE IF at = moved THEN Null ELSE t.slots[i]
  IN [t EXCEPT !.n_items = @ - 1, !.slots = [i \in 0 .. t.size - 1 |-> Moved(i)]]

hash_remove(t, k) == LET u == Without(t, k) IN IF should_shrink(u) THEN Shrunk(u) ELSE u

\* The slot where a search for k ends.
Probe(t, k) ==
  k + Min({d \in 0 .. t.size : \/ slot_is_empty(t, k + d)
                               \/ slot_entry(t, k + d)[1] = k
                               \/ slot_distance(t, k + d) < d})
hash_contains(t, k) ==
  ~slot_is_empty(t, Probe(t, k)) /\ slot_entry(t, Probe(t, k))[1] = k
hash_lookup(t, k, default) ==
  IF hash_contains(t, k) THEN slot_entry(t, Probe(t, k))[2] ELSE default

\* What for_each visits.
Entries(t) == {t.slots[i] : i \in 0 .. t.size - 1} \ {Null}
================================================================================
