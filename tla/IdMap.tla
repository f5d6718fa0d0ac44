------------------------------- MODULE IdMap -------------------------------
(***************************************************************************)
(* `fpp_core::map::IdMap`: the allocator behind every file, span and node  *)
(* handle of a compiler context.  A map is a value here, so that the       *)
(* components that own one (CompilerContext, LspServer) keep it in their    *)
(* own state.                                                              *)
(*                                                                         *)
(*   store    the live handles and what they stand for                     *)
(*   current  the next handle never handed out                             *)
(*   dropped  freed handles, reused last in first out                      *)
(***************************************************************************)
EXTENDS Naturals, Sequences, SequencesExt

EmptyMap == [store |-> [x \in {} |-> x], current |-> 0, dropped |-> <<>>]

Live(m) == DOMAIN m.store
Get(m, k) == m.store[k]

\* The key the i-th of a run of insertions gets: `dropped` is popped from its
\* end, and `current` is handed out once it is empty.
NthKey(m, i) ==
    LET n == Len(m.dropped)
    IN  IF i <= n THEN m.dropped[n + 1 - i] ELSE m.current + (i - n - 1)

NewKey(m) == NthKey(m, 1)

\* Inserting under a live key is the "unexpected overlapping map key" panic.
Overlaps(m) == NewKey(m) \in Live(m)

\* Faulty: a reused key stays on the free list.
Push_KeepsFreeKey(m, v) ==
    LET k == NewKey(m)
    IN  [store   |-> [x \in Live(m) \cup {k} |-> IF x = k THEN v ELSE m.store[x]],
         current |-> IF m.dropped = <<>> THEN m.current + 1 ELSE m.current,
         dropped |-> m.dropped]

Push(m, v) ==
    LET k == NewKey(m)
    IN  [store   |-> [x \in Live(m) \cup {k} |-> IF x = k THEN v ELSE m.store[x]],
         current |-> IF m.dropped = <<>> THEN m.current + 1 ELSE m.current,
         dropped |-> IF m.dropped = <<>> THEN <<>>
                     ELSE SubSeq(m.dropped, 1, Len(m.dropped) - 1)]

\* A run of insertions, the values of vs in their order.
PushAll(m, vs) ==
    LET n   == Len(m.dropped)
        new == {NthKey(m, i) : i \in 1..Len(vs)}
    IN  [store   |-> [x \in Live(m) \cup new |->
                        IF x \in new
                        THEN vs[CHOOSE i \in 1..Len(vs) : NthKey(m, i) = x]
                        ELSE m.store[x]],
         current |-> IF Len(vs) > n THEN m.current + (Len(vs) - n) ELSE m.current,
         dropped |-> IF Len(vs) >= n THEN <<>>
                     ELSE SubSeq(m.dropped, 1, n - Len(vs))]

\* The orders in which the hash table may yield the entries under keys.
ExtractOrders(m, keys) == SetToSeqs(keys \cap Live(m))

\* Faulty: the removed keys are not put on the free list.
ExtractIf_ForgetsKeys(m, keys, order) ==
    [m EXCEPT !.store = [x \in Live(m) \ keys |-> m.store[x]]]

\* Removes the entries under keys; order is one of ExtractOrders(m, keys).
ExtractIf(m, keys, order) ==
    [store   |-> [x \in Live(m) \ keys |-> m.store[x]],
     current |-> m.current,
     dropped |-> m.dropped \o order]

-----------------------------------------------------------------------------
\* A map whose entries are of V.
MapOf(m, V) ==
    /\ m = [store |-> m.store, current |-> m.current, dropped |-> m.dropped]
    /\ m.current \in Nat
    /\ m.dropped \in Seq(Nat)
    /\ Live(m) \subseteq Nat
    /\ m.store \in [Live(m) -> V]

\* A freed handle is on the free list once, a live one is not on it, and both
\* are below the counter.
Separate(m) ==
    /\ \A k \in Live(m) : k < m.current
    /\ \A i \in 1..Len(m.dropped) :
          m.dropped[i] < m.current /\ m.dropped[i] \notin Live(m)
    /\ \A i, j \in 1..Len(m.dropped) : i # j => m.dropped[i] # m.dropped[j]

\* Every handle below the counter is either live or free.
Packed(m) == Live(m) \cup ToSet(m.dropped) = 0..(m.current - 1)

=============================================================================
