----------------------------- MODULE QueueState -----------------------------
(***************************************************************************)
(* The queue of torrents, crates/swarmotter-core/src/queue.rs.             *)
(*                                                                         *)
(* A queue is a record: the two vectors that are saved, `order' and        *)
(* `bypass', and the three caches that are not, `order_set', `bypass_set'  *)
(* and `order_index'.  Every method of QueueState is an operator from a    *)
(* queue to a queue.  The methods trust the caches and repair them only    *)
(* when a length gives a stale cache away, so each of them has to leave    *)
(* the caches exact: IndexAgrees says so.  Positions are 1-based here.     *)
(***************************************************************************)
EXTENDS Sequences, FiniteSetsExt

\* The queue of a new daemon.
new == [order |-> <<>>, bypass |-> <<>>,
        order_set |-> {}, bypass_set |-> {}, order_index |-> <<>>]

\* The sequences that hold each member of S once, and the one in the order op.
Listings(S) == Injection(1 .. Cardinality(S), S)

SortedSeq(S, op(_, _)) ==
  CHOOSE s \in Listings(S) : \A i, j \in DOMAIN s : i < j => op(s[i], s[j])

\* A set of numbers in increasing order.
Ascending(I) == SortedSeq(I, <)

\* The elements of s at the positions I, in their order.
Picked(s, I) ==
  LET p == Ascending(I) IN [n \in DOMAIN p |-> s[p[n]]]

\* The elements of s, each once, at the place of its first occurrence.
Once(s) == Picked(s, {i \in DOMAIN s : \A j \in DOMAIN s : j < i => s[j] # s[i]})

\* s without the members of S, and those that are left out.
Without(s, S) == Picked(s, {i \in DOMAIN s : s[i] \notin S})
Those(s, S) == Picked(s, {i \in DOMAIN s : s[i] \in S})

\* Where each element of the duplicate-free sequence s is.
Positions(s) == [k \in Range(s) |-> CHOOSE i \in DOMAIN s : s[i] = k]

rebuild_membership_sets(q) ==
  LET o == Once(q.order)
      b == Once(q.bypass)
  IN  [order |-> o, bypass |-> b,
       order_set |-> Range(o), bypass_set |-> Range(b), order_index |-> Positions(o)]

\* A queue decoded from its saved form has its vectors only.
restored(order, bypass) ==
  rebuild_membership_sets([new EXCEPT !.order = order, !.bypass = bypass])

sync_membership_sets(q) ==
  IF \/ Cardinality(q.order_set) # Len(q.order)
     \/ Cardinality(q.bypass_set) # Len(q.bypass)
     \/ Cardinality(DOMAIN q.order_index) # Len(q.order)
  THEN rebuild_membership_sets(q)
  ELSE q

\* The queue after the lookup of k.  A cached position is believed only when
\* k is there; otherwise the caches are rebuilt.
Looked(q, k) ==
  LET s == sync_membership_sets(q)
      hit == /\ k \in DOMAIN s.order_index
             /\ s.order_index[k] \in DOMAIN s.order
             /\ s.order[s.order_index[k]] = k
  IN  IF hit THEN s ELSE rebuild_membership_sets(s)

\* `keys' are new, each is there once.
Appended(q, keys) ==
  [q EXCEPT !.order = @ \o keys,
            !.order_set = @ \cup Range(keys),
            !.order_index = [k \in DOMAIN @ \cup Range(keys) |->
                               IF k \in Range(keys) THEN Len(q.order) + Positions(keys)[k]
                               ELSE @[k]]]

add_many(q, keys) ==
  LET s == sync_membership_sets(q)
  IN  Appended(s, Once(Without(keys, s.order_set)))

add(q, k) == add_many(q, <<k>>)

remove_many(q, keys) ==
  LET s == sync_membership_sets(q)
  IN  IF keys = {} THEN s
      ELSE rebuild_membership_sets([s EXCEPT !.order = Without(@, keys),
                                             !.bypass = Without(@, keys)])

remove(q, k) ==
  LET s == sync_membership_sets(q)
      r == IF k \in s.order_set
           THEN rebuild_membership_sets([s EXCEPT !.order = Without(@, {k})])
           ELSE s
  IN  [r EXCEPT !.bypass_set = @ \ {k}, !.bypass = Without(@, {k})]

\* s without its position i.
Shorter(s, i) == SubSeq(s, 1, i - 1) \o SubSeq(s, i + 1, Len(s))

\* Exchanges positions i and j of the order and of its index.
Swap(q, i, j) ==
  [q EXCEPT !.order = [@ EXCEPT ![i] = q.order[j], ![j] = q.order[i]],
            !.order_index = [@ EXCEPT ![q.order[j]] = i, ![q.order[i]] = j]]

\* move_up that swaps the order and leaves the index.
move_up_StaleIndex(q, k) ==
  LET s == Looked(q, k)
  IN  IF k \in DOMAIN s.order_index /\ s.order_index[k] > 1
      THEN [s EXCEPT !.order = Swap(s, s.order_index[k], s.order_index[k] - 1).order]
      ELSE s

move_up(q, k) ==
  LET s == Looked(q, k)
  IN  IF k \in DOMAIN s.order_index /\ s.order_index[k] > 1
      THEN Swap(s, s.order_index[k], s.order_index[k] - 1)
      ELSE s

move_down(q, k) ==
  LET s == Looked(q, k)
  IN  IF k \in DOMAIN s.order_index /\ s.order_index[k] < Len(s.order)
      THEN Swap(s, s.order_index[k], s.order_index[k] + 1)
      ELSE s

move_to_top(q, k) ==
  LET s == Looked(q, k)
  IN  IF k \in DOMAIN s.order_index
      THEN rebuild_membership_sets(
             [s EXCEPT !.order = <<k>> \o Shorter(@, s.order_index[k])])
      ELSE s

move_to_bottom(q, k) ==
  LET s == Looked(q, k)
  IN  IF k \in DOMAIN s.order_index
      THEN rebuild_membership_sets(
             [s EXCEPT !.order = Append(Shorter(@, s.order_index[k]), k)])
      ELSE s

Moves(q, k) == {move_up(q, k), move_down(q, k), move_to_top(q, k), move_to_bottom(q, k)}

move_many_to_bottom(q, keys) ==
  LET s == sync_membership_sets(q)
  IN  IF keys = {} THEN s
      ELSE rebuild_membership_sets(
             [s EXCEPT !.order = Without(@, keys) \o Those(@, keys)])

\* QueueState::start_now: the key goes first in every plan.
bypass_queue(q, k) ==
  LET s == sync_membership_sets(q)
  IN  IF k \in s.bypass_set THEN s
      ELSE [s EXCEPT !.bypass = Append(@, k), !.bypass_set = @ \cup {k}]

clear_bypass_many(q, keys) ==
  LET s == sync_membership_sets(q)
  IN  [s EXCEPT !.bypass = Without(@, keys), !.bypass_set = @ \ keys]

clear_bypass(q, k) == clear_bypass_many(q, {k})

\* The first position of k in s, 0 for nowhere.
Position(s, k) ==
  LET found == {i \in DOMAIN s : s[i] = k} IN IF found = {} THEN 0 ELSE Min(found)

membership_snapshot(q, k) ==
  [order_index |-> Position(q.order, k), bypass_index |-> Position(q.bypass, k)]

\* k back at position i of s, or at the end of a sequence that has shrunk.
PutBack(s, i, k) ==
  LET n == IF i <= Len(s) + 1 THEN i ELSE Len(s) + 1
  IN  IF i = 0 THEN s ELSE SubSeq(s, 1, n - 1) \o <<k>> \o SubSeq(s, n, Len(s))

restore_membership(q, k, snapshot) ==
  rebuild_membership_sets(
    [q EXCEPT !.order = PutBack(Without(@, {k}), snapshot.order_index, k),
              !.bypass = PutBack(Without(@, {k}), snapshot.bypass_index, k)])

\* The caches say of the vectors exactly what is true of them.
Exact(q) ==
  /\ IsInjective(q.order) /\ IsInjective(q.bypass)
  /\ q.order_set = Range(q.order) /\ q.bypass_set = Range(q.bypass)
  /\ q.order_index = Positions(q.order)
=============================================================================
