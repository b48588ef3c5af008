-------------------------------- MODULE Dht --------------------------------
(***************************************************************************)
(* The DHT runner: swarmotterd/src/dht.rs with the routing table and the   *)
(* messages of swarmotter-core/src/dht.rs.  One runner serves every        *)
(* torrent of the daemon; `socket_lock` lets one lookup run at a time, and *)
(* the caller's time limit may drop a lookup at any of its awaits.  Every  *)
(* lookup binds the same local port, so an answer to a question of an      *)
(* earlier lookup can still arrive at the socket of the next one.          *)
(*                                                                         *)
(* A node is its address.  NodeId gives the identifier the node answers    *)
(* with as its distance from the keys looked up, Family its address        *)
(* family, Knows the nodes it names in an answer, and PeersOf the peers it *)
(* knows for a key.                                                        *)
(***************************************************************************)
EXTENDS Integers, Sequences, SequencesExt, FiniteSets

CONSTANTS
  Keys,          \* the info hashes that are looked up
  NodeAddrs,     \* the addresses of the nodes
  Family,        \* [NodeAddrs -> {"v4", "v6"}]
  NodeId,        \* [NodeAddrs -> Nat]: distance of the node's identifier
  Knows,         \* [NodeAddrs -> Seq(NodeAddrs)]: the nodes it names
  PeersOf,       \* [NodeAddrs -> [Keys -> Seq(Peers)]]
  Specs,         \* Seq([addr |-> NodeAddrs, literal |-> BOOLEAN]): settings
  TableCap,      \* RoutingTable::k * 8
  Alpha,         \* DHT_ALPHA
  MaxQueries,    \* DHT_MAX_QUERIES
  MaxPeers,      \* DHT_MAX_PEERS
  MaxRoundsDht,  \* the max_rounds the discovery loop passes
  MaxLookups     \* bound: lookups of a behaviour

VARIABLES
  bootstrap,   \* DhtRunner::bootstrap, a sequence of addresses
  table,       \* RoutingTable::nodes, a sequence of [id, addr]
  lookup,      \* the lookup that holds socket_lock
  pass,        \* its pass over the nodes of one family
  sent,        \* the questions that nodes may still answer
  next_txn,    \* NEXT_TRANSACTION_ID
  lookups      \* lookups begun

dht_vars == <<bootstrap, table, lookup, pass, sent, next_txn, lookups>>

Families == {"v4", "v6"}
Idle == [stage |-> "idle"]
NoPass == [family |-> "none"]

(* DhtCandidate: `known` is false where its id is None. *)
Candidate(n, known) == [addr |-> n, known |-> known]

(* The states of the runner. *)
DhTypeOK ==
  /\ bootstrap \in Seq(NodeAddrs)
  /\ \A i \in DOMAIN table : table[i].addr \in NodeAddrs
  /\ Len(table) <= TableCap
  /\ lookup.stage \in {"idle", "family", "round", "window", "ended"}
  /\ pass.family \in Families \cup {"none"}
  /\ \A q \in sent : q.to \in NodeAddrs /\ q.key \in Keys
  /\ next_txn \in 1..(MaxLookups * 2 * Cardinality(NodeAddrs) + 1)

(* resolve_bootstrap_with_binder: an address is taken as it is, a name is  *)
(* dropped when the containment's resolver refuses or fails.               *)
Resolved(answered) ==
  LET kept == SelectSeq(Specs, LAMBDA s : s.literal \/ s.addr \in answered)
  IN  [i \in DOMAIN kept |-> kept[i].addr]

DhInit ==
  /\ \E answered \in SUBSET NodeAddrs : bootstrap = Resolved(answered)
  /\ table = <<>>
  /\ lookup = Idle
  /\ pass = NoPass
  /\ sent = {}
  /\ next_txn = 1
  /\ lookups = 0

-----------------------------------------------------------------------------
(* The routing table. *)

(* RoutingTable::insert: the entry of a known id changes its address; a    *)
(* full table drops its head.                                              *)
Insert(t, n) ==
  LET node == [id |-> NodeId[n], addr |-> n]
  IN  IF \E i \in DOMAIN t : t[i].id = node.id
      THEN LET first == CHOOSE i \in DOMAIN t :
                          t[i].id = node.id /\ \A j \in 1..(i - 1) : t[j].id # node.id
           IN  [t EXCEPT ![first] = node]
      ELSE Append(IF Len(t) >= TableCap THEN Tail(t) ELSE t, node)

(* A stable sort by the given key. *)
ByKey(s, Key(_)) ==
  LET Before(i, j) == Key(s[i]) < Key(s[j]) \/ (Key(s[i]) = Key(s[j]) /\ i < j)
      At(p) == CHOOSE i \in DOMAIN s : Cardinality({j \in DOMAIN s : Before(j, i)}) = p - 1
  IN  [p \in DOMAIN s |-> s[At(p)]]

(* RoutingTable::closest, of everything the small table holds. *)
Closest(t) == ByKey(t, LAMBDA n : n.id)

(* sort_candidates_by_distance: an unknown id counts as distance zero. *)
SortCandidates(s) == ByKey(s, LAMBDA c : IF c.known THEN NodeId[c.addr] ELSE 0)

(* add_family_hint: one hint per family, the first that is met. *)
AddFamilyHint(hints, n) ==
  IF \E i \in DOMAIN hints : Family[hints[i]] = Family[n] THEN hints ELSE Append(hints, n)

AddFamilyHints(hints, ns) == FoldLeft(AddFamilyHint, hints, ns)

(* lookup_family_hints. *)
LookupFamilyHints ==
  LET near == Closest(table)
  IN  AddFamilyHints(<<>>, bootstrap \o [i \in DOMAIN near |-> near[i].addr])

-----------------------------------------------------------------------------
(* get_peers_with_stats. *)

(* The lookup gets socket_lock. *)
Begin(k) ==
  /\ lookup.stage = "idle"
  /\ lookups < MaxLookups
  /\ lookups' = lookups + 1
  /\ lookup' = [stage |-> "family", key |-> k, hints |-> LookupFamilyHints, index |-> 1,
                tried |-> {}, opened |-> FALSE, failed |-> FALSE, peers |-> <<>>, heard |-> {}]
  /\ UNCHANGED <<bootstrap, table, pass, sent, next_txn>>

Hint == lookup.hints[lookup.index]
HasHint == lookup.stage = "family" /\ lookup.index <= Len(lookup.hints)
NextHint == [lookup EXCEPT !.index = @ + 1, !.tried = @ \cup {Family[Hint]}]

(* A hint of a family that was already attempted. *)
SkipFamily ==
  /\ HasHint
  /\ Family[Hint] \in lookup.tried
  /\ lookup' = NextHint
  /\ UNCHANGED <<bootstrap, table, pass, sent, next_txn, lookups>>

(* socket_for fails: containment refuses, or the port is taken. *)
OpenSocketFails ==
  /\ HasHint
  /\ Family[Hint] \notin lookup.tried
  /\ lookup' = [NextHint EXCEPT !.failed = TRUE]
  /\ UNCHANGED <<bootstrap, table, pass, sent, next_txn, lookups>>

(* The queue a pass begins with: bootstrap nodes of the family, the hint,  *)
(* the nodes of the table, each address once.                              *)
Seeded(family) ==
  LET mine == SelectSeq(bootstrap, LAMBDA n : Family[n] = family)
      first == [i \in DOMAIN mine |-> Candidate(mine[i], FALSE)]
      hinted == IF Hint \in ToSet(mine) THEN first ELSE Append(first, Candidate(Hint, FALSE))
      named == {hinted[i].addr : i \in DOMAIN hinted}
      near == SelectSeq(Closest(table),
                        LAMBDA n : Family[n.addr] = family /\ n.addr \notin named)
  IN  hinted \o [i \in DOMAIN near |-> Candidate(near[i].addr, TRUE)]

(* The socket is open and get_peers_with_socket begins. *)
OpenSocket ==
  /\ HasHint
  /\ Family[Hint] \notin lookup.tried
  /\ LET seed == Seeded(Family[Hint])
     IN  pass' = [family |-> Family[Hint], pending |-> seed,
                  queued |-> {seed[i].addr : i \in DOMAIN seed}, queried |-> {},
                  txns |-> {}, found |-> <<>>, deferred |-> <<>>, rounds |-> 0]
  /\ lookup' = [NextHint EXCEPT !.stage = "round", !.opened = TRUE]
  /\ UNCHANGED <<bootstrap, table, sent, next_txn, lookups>>

-----------------------------------------------------------------------------
(* get_peers_with_socket. *)

Unqueried == SelectSeq(pass.pending, LAMBDA c : c.addr \notin pass.queried)

(* The conditions that end the rounds of a pass. *)
PassOver ==
  \/ pass.rounds = MaxRoundsDht
  \/ Cardinality(pass.queried) >= MaxQueries
  \/ Len(pass.found) >= MaxPeers
  \/ Unqueried = <<>>

(* unique_transaction_id for the whole batch: the counter moves on.  The   *)
(* bound keeps it from wrapping within the life of an answer.              *)
Transactions(addrs) ==
  {[txn |-> next_txn + i - 1, to |-> addrs[i], key |-> lookup.key] : i \in DOMAIN addrs}

(* One round: the nearest candidates are asked; a send may fail. *)
Round ==
  /\ lookup.stage = "round"
  /\ ~PassOver
  /\ LET queue == SortCandidates(Unqueried)
         budget == MaxQueries - Cardinality(pass.queried)
         batch == CHOOSE m \in {Len(queue), Alpha, budget} :
                    \A n \in {Len(queue), Alpha, budget} : m <= n
         addrs == [i \in 1..batch |-> queue[i].addr]
     IN  \E unsent \in {{}, {addrs[1]}} :
           LET asked == {q \in Transactions(addrs) : q.to \notin unsent}
           IN  /\ pass' = [pass EXCEPT !.pending = SubSeq(queue, batch + 1, Len(queue)),
                                       !.queried = @ \cup ToSet(addrs),
                                       !.txns = asked,
                                       !.rounds = @ + 1]
               /\ sent' = sent \cup asked
               /\ next_txn' = next_txn + batch
  /\ lookup' = [lookup EXCEPT !.stage = "window"]
  /\ UNCHANGED <<bootstrap, table, lookups>>

(* What parse_response makes of a node's answer to question q: nodes of    *)
(* `nodes` and then of `nodes6`, the peers of `values`, or an error, which *)
(* carries nothing.                                                        *)
Named(n, family) == SelectSeq(Knows[n], LAMBDA m : Family[m] = family)
Reply(q) == [txn |-> q.txn, sender |-> TRUE, peers |-> PeersOf[q.to][q.key],
             nodes |-> Named(q.to, "v4") \o Named(q.to, "v6")]
ErrorReply(q) == [txn |-> q.txn, sender |-> FALSE, peers |-> <<>>, nodes |-> <<>>]

(* An answer taken by its address alone. *)
ExpectedByAddress(resp, from) == \E q \in pass.txns : q.to = from

(* The answer is taken when its transaction is one of this round and comes *)
(* from the address that was asked.                                        *)
Expected(resp, from) == \E q \in pass.txns : q.txn = resp.txn /\ q.to = from

(* The list of peers with those of `more` that it does not hold. *)
Joined(peers, more) == peers \o SelectSeq(more, LAMBDA p : p \notin ToSet(peers))

(* The list cut to DHT_MAX_PEERS. *)
Cut(peers) == SubSeq(peers, 1, IF Len(peers) > MaxPeers THEN MaxPeers ELSE Len(peers))

(* handle_response. *)
HandleResponse(from, resp) ==
  LET fresh == SelectSeq(resp.nodes,
                 LAMBDA n : Family[n] = pass.family /\ n \notin pass.queued)
      others == SelectSeq(resp.nodes, LAMBDA n : Family[n] # pass.family)
  IN  /\ table' = IF resp.sender THEN Insert(table, from) ELSE table
      /\ pass' = [pass EXCEPT
                    !.pending = @ \o [i \in DOMAIN fresh |-> Candidate(fresh[i], TRUE)],
                    !.queued = @ \cup ToSet(fresh),
                    !.deferred = AddFamilyHints(@, others),
                    !.found = Cut(Joined(@, resp.peers)),
                    !.txns = {q \in @ : q.to # from}]
      /\ lookup' = [lookup EXCEPT !.heard = @ \cup {Family[n] : n \in ToSet(resp.nodes)}]

(* A datagram of this port's earlier or present questions arrives within   *)
(* the window; one that is not expected is skipped.                        *)
Receive(q) ==
  /\ lookup.stage = "window"
  /\ q \in sent
  /\ Family[q.to] = pass.family
  /\ Len(pass.found) < MaxPeers
  /\ \E resp \in {Reply(q), ErrorReply(q)} :
       /\ Expected(resp, q.to)
       /\ HandleResponse(q.to, resp)
  /\ sent' = sent \ {q}
  /\ UNCHANGED <<bootstrap, next_txn, lookups>>

(* Every question is answered, enough peers are found, or DHT_QUERY_WINDOW *)
(* is over.                                                                *)
WindowEnds ==
  /\ lookup.stage = "window"
  /\ lookup' = [lookup EXCEPT !.stage = "round"]
  /\ pass' = [pass EXCEPT !.txns = {}]
  /\ UNCHANGED <<bootstrap, table, sent, next_txn, lookups>>

(* The pass ends without the hints that its answers gave. *)
PassEndsAlone ==
  /\ lookup.stage = "round"
  /\ PassOver
  /\ lookup' = [lookup EXCEPT !.stage = "family", !.peers = Joined(@, pass.found)]
  /\ pass' = NoPass
  /\ UNCHANGED <<bootstrap, table, sent, next_txn, lookups>>

(* The pass returns; its peers and its deferred hints join the lookup's. *)
PassEnds ==
  /\ lookup.stage = "round"
  /\ PassOver
  /\ lookup' = [lookup EXCEPT !.stage = "family", !.peers = Joined(@, pass.found),
                              !.hints = AddFamilyHints(@, pass.deferred)]
  /\ pass' = NoPass
  /\ UNCHANGED <<bootstrap, table, sent, next_txn, lookups>>

(* The lookup returns: an error only when no socket could be opened. *)
Return ==
  /\ lookup.stage = "family"
  /\ lookup.index > Len(lookup.hints)
  /\ lookup' = [lookup EXCEPT !.stage = "ended", !.failed = @ /\ ~lookup.opened]
  /\ UNCHANGED <<bootstrap, table, pass, sent, next_txn, lookups>>

(* The caller takes the result; socket_lock is free. *)
Taken ==
  /\ lookup.stage = "ended"
  /\ lookup' = Idle
  /\ UNCHANGED <<bootstrap, table, pass, sent, next_txn, lookups>>

(* The caller's time limit drops the lookup at one of its awaits. *)
Cancel ==
  /\ lookup.stage \in {"family", "window"}
  /\ lookup' = Idle
  /\ pass' = NoPass
  /\ UNCHANGED <<bootstrap, table, sent, next_txn, lookups>>

Steps ==
  \/ SkipFamily \/ OpenSocketFails \/ OpenSocket
  \/ Round \/ WindowEnds \/ PassEnds \/ Return \/ Taken
  \/ \E q \in sent : Receive(q)

DhNext == Steps \/ Cancel \/ \E k \in Keys : Begin(k)

DhSpec == DhInit /\ [][DhNext]_dht_vars /\ WF_dht_vars(Steps)

-----------------------------------------------------------------------------
(* The peers that a lookup collects were reported for the key it looks up: *)
(* an answer to a question of an earlier lookup, of another torrent, that  *)
(* arrives late at the shared port is never counted (dht.rs 286-295).      *)
PeersAreForTheKey ==
  /\ lookup.stage # "idle" =>
       \A p \in ToSet(lookup.peers) : \E n \in NodeAddrs : p \in ToSet(PeersOf[n][lookup.key])
  /\ pass.family # "none" =>
       \A p \in ToSet(pass.found) : \E n \in NodeAddrs : p \in ToSet(PeersOf[n][lookup.key])

(* A lookup that returns has attempted the address family of every         *)
(* bootstrap node and of every node that an answer named (dht.rs 163-197). *)
FamiliesAreTried ==
  lookup.stage = "ended" =>
    lookup.heard \cup {Family[n] : n \in ToSet(bootstrap)} \subseteq lookup.tried

=============================================================================
