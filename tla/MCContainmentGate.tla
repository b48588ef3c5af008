-------------------------- MODULE MCContainmentGate --------------------------
(***************************************************************************)
(* The network side of the daemon for TLC: the containment gate, and the   *)
(* components whose sockets the gate admits or denies.  A behaviour is one *)
(* of `part`; the other components rest in one of their initial states.    *)
(***************************************************************************)
EXTENDS ContainmentGate

CONSTANTS Parts

VARIABLES part
-----------------------------------------------------------------------------
CONSTANTS NetConfigs, Machines, Urls, Scheme, HostOf, Asked, Declarable, Nothing, BodyLimit,
          MaxRedirects, MaxChanges

VARIABLES net_config, machine, net_gate, op, sockets, queries, changes

CN == INSTANCE ContainedNet

net_part == <<net_config, machine, net_gate, op, sockets, queries, changes>>

NoProxy == [enabled |-> FALSE, host |-> Nothing, username |-> FALSE, password |-> FALSE]

Proxy(host, auth) == [enabled |-> TRUE, host |-> host, username |-> auth, password |-> auth]

Path(iface, src, ns) ==
    [mode |-> "strict", fail_closed |-> TRUE, iface |-> iface, src |-> src, ns |-> ns,
     v6 |-> TRUE, validate_route |-> FALSE, validate_dns |-> FALSE, proxy |-> NoProxy]

MCNetConfigs ==
    {Path(FALSE, {"v4"}, FALSE),
     [Path(TRUE, {"v4"}, FALSE) EXCEPT !.validate_route = TRUE, !.validate_dns = TRUE],
     [Path(FALSE, {"v6"}, TRUE) EXCEPT !.proxy = Proxy("v4", FALSE)],
     [Path(TRUE, {}, FALSE) EXCEPT !.proxy = Proxy("name", TRUE), !.v6 = FALSE],
     [Path(FALSE, {"v6"}, FALSE) EXCEPT !.mode = "preferred", !.v6 = FALSE],
     Path(FALSE, {}, FALSE)}

Net(iface, addresses) ==
    [iface |-> iface, addresses |-> addresses, local |-> iface = "up", assigned |-> addresses,
     ns |-> TRUE, routes |-> addresses, dns |-> iface = "up"]

MCMachines == {Net("up", {"v4", "v6"}), Net("missing", {}), Net("up", {"v6"})}

MCScheme == [u1 |-> "http", u2 |-> "https", u3 |-> "http"]
MCHosts == [u1 |-> "name", u2 |-> "v4", u3 |-> "v6"]
MCAsked == <<1, 2>>
MCDeclarable == {Nothing, <<1, 2, 4>>, <<0, 1, 4>>, <<1, 2, 2>>}
-----------------------------------------------------------------------------
CONSTANTS Configs, Protocols, Refreshers, MaxUpdates, Lossy

VARIABLES setup, gate, identity, active, due, status, operation, tick, wanting, wake, main,
          router, updates

PM == INSTANCE PortMapping

mapping_part == <<setup, gate, identity, active, due, status, operation, tick, wanting,
                  wake, main, router, updates>>

MCConfigs ==
    {[on |-> TRUE, strict |-> TRUE, path |-> "a"], [on |-> TRUE, strict |-> FALSE, path |-> "b"],
     [on |-> FALSE, strict |-> TRUE, path |-> "a"]}
MCProtocols == <<"nat", "upnp">>
-----------------------------------------------------------------------------
CONSTANTS Testers, Endpoints, MaxRequests

VARIABLES endpoint, pt_allowed, latched, holder, hub, tester, run_lock, cache, fresh, asked_for

PT == INSTANCE PortTest WITH allowed <- pt_allowed, requests <- asked_for

test_part == <<endpoint, pt_allowed, latched, holder, hub, tester, run_lock, cache, fresh,
               asked_for>>
-----------------------------------------------------------------------------
CONSTANTS Order, Udp, Gap, Retries, StepLimit, AnnounceLimit, MaxGap

VARIABLES phase, line, attempt, txn, requests, replies, step, spent, outcome, announces, scrapes,
          interval, populated, elapsed, keeper, forced

TK == INSTANCE Trackers

tracker_part == <<phase, line, attempt, txn, requests, replies, step, spent, outcome,
                  announces, scrapes, interval, populated, elapsed, keeper, forced>>

MCOrder == <<"udp", "http">>
MCGap == [udp |-> 2, http |-> 3]
-----------------------------------------------------------------------------
CONSTANTS Keys, NodeAddrs, Family, NodeId, Knows, PeersOf, Specs, TableCap, Alpha, MaxQueries,
          MaxPeers, MaxRoundsDht, MaxLookups

VARIABLES bootstrap, table, lookup, pass, sent, next_txn, lookups

DH == INSTANCE Dht

dht_part == <<bootstrap, table, lookup, pass, sent, next_txn, lookups>>

MCFamily == [n1 |-> "v4", n2 |-> "v4", s1 |-> "v6"]
MCId == [n1 |-> 3, n2 |-> 1, s1 |-> 2]
MCKnows == [n1 |-> <<"n2", "s1">>, n2 |-> <<"n1">>, s1 |-> <<"n2">>]
MCPeersOf == [n1 |-> [a |-> <<"p">>, b |-> <<"q">>], n2 |-> [a |-> <<>>, b |-> <<"q">>],
              s1 |-> [a |-> <<"r">>, b |-> <<>>]]
MCSpecs == <<[addr |-> "n1", literal |-> FALSE], [addr |-> "n2", literal |-> FALSE]>>
-----------------------------------------------------------------------------
mc_vars == <<part, vars, net_part, mapping_part, test_part, tracker_part,
             dht_part>>

MCInit ==
    /\ part \in Parts
    /\ Init /\ (part # "gate" => allowed)
    /\ CN!NetInit
    /\ part # "net" => <<net_config, machine>> =
                           <<CHOOSE c \in NetConfigs : CN!ValidConfig(c), CHOOSE m \in Machines : TRUE>>
    /\ PM!PmInit
    /\ part # "mapping" => setup = (CHOOSE c \in Configs : TRUE) /\ gate = "closed"
    /\ PT!PtInit /\ (part # "test" => endpoint = PT!Off)
    /\ TK!TkInit
    /\ DH!DhInit /\ (part # "dht" => bootstrap = <<>>)

MCNext ==
    /\ UNCHANGED part
    /\ \/ /\ part = "gate" /\ Next
          /\ UNCHANGED <<net_part, mapping_part, test_part, tracker_part, dht_part>>
       \/ /\ part = "net" /\ CN!NetNext
          /\ UNCHANGED <<vars, mapping_part, test_part, tracker_part, dht_part>>
       \/ /\ part = "mapping" /\ PM!PmNext
          /\ UNCHANGED <<vars, net_part, test_part, tracker_part, dht_part>>
       \/ /\ part = "test" /\ PT!PtNext
          /\ UNCHANGED <<vars, net_part, mapping_part, tracker_part, dht_part>>
       \/ /\ part = "trackers" /\ TK!TkNext
          /\ UNCHANGED <<vars, net_part, mapping_part, test_part, dht_part>>
       \/ /\ part = "dht" /\ DH!DhNext
          /\ UNCHANGED <<vars, net_part, mapping_part, test_part, tracker_part>>

\* The fairness of each component, for the behaviours of that component.
MCFairness ==
    /\ Fairness
    /\ \A a \in PM!Actors \ {PM!Main} : WF_mapping_part(part = "mapping" /\ PM!Tick(a))
    /\ WF_mapping_part(part = "mapping" /\ PM!LoopWakes)
    /\ WF_mapping_part(part = "mapping" /\ PM!Shutdown)
    /\ WF_tracker_part(part = "trackers" /\ TK!Tick)
    /\ WF_tracker_part(part = "trackers" /\ TK!HttpAnnounce)
    /\ \A t \in TK!All : WF_tracker_part(part = "trackers" /\ TK!ScrapeEnds(t))

MCSpec == MCInit /\ [][MCNext]_mc_vars /\ MCFairness
-----------------------------------------------------------------------------
(***************************************************************************)
(* ContainedNet and Dht: an operation that runs with a strict path uses    *)
(* only sockets bound to that path, of a family the path covers, and       *)
(* resolves names only over it; an HTTP answer it hands on is whole, of    *)
(* the range asked for, and reached without a downgrade to plain text; a   *)
(* DHT lookup returns only peers that a node it asked named for its key,   *)
(* whatever late answers of other lookups arrive on the socket, and ends   *)
(* without peers only after it has tried every family it knew nodes of.    *)
(* Every component keeps its type.                                         *)
(***************************************************************************)
NetOperationsAreSound ==
    /\ part = "net" => CN!NetTypeOK /\ CN!SocketsAreContained /\ CN!AnswersAreSound
    /\ part = "gate" => TypeOK
    /\ part = "mapping" => PM!PmTypeOK
    /\ part = "test" => PT!PtTypeOK
    /\ part = "trackers" => TK!TkTypeOK
    /\ part = "dht" => DH!DhTypeOK /\ DH!PeersAreForTheKey /\ DH!FamiliesAreTried

(***************************************************************************)
(* PortTest: a test that was not forced asks the endpoint only when no     *)
(* fresh answer is cached, also when two requests raced for the lock.      *)
(***************************************************************************)
AskedOnce == PT!AskedOnce

(***************************************************************************)
(* PortMapping: a mapping of an older configuration is given up, however   *)
(* the change, the renewal loop, a forced refresh and the gate interleave; *)
(* the status reports an active mapping only when one is recorded for the  *)
(* configuration; and a closed gate lets nothing through to the router.    *)
(***************************************************************************)
MappingsAreReleased == PM!OldMappingGoes /\ []PM!ActiveIsRecorded /\ PM!ClosedIsSilent

(***************************************************************************)
(* Trackers: every announce ends, whatever datagrams are lost, late or for *)
(* another transaction, and whatever the scrapes after it do.              *)
(***************************************************************************)
AnnounceEnds == TK!AnnounceEnds

(***************************************************************************)
(* PortTest: "does not report containment health" (netbinder.rs), "never   *)
(* changes containment" (docs/configuration.md): no run of the diagnostic  *)
(* leads to a latched bind failure.                                        *)
(***************************************************************************)
DiagnosticsHarmless == PT!DiagnosticsHarmless

(***************************************************************************)
(* PortMapping: a graceful shutdown whose path containment has not closed  *)
(* deletes the lease at the router before the process ends                 *)
(* (persistence.rs: "release the mapping through the same contained path   *)
(* before exit").                                                          *)
(***************************************************************************)
ReleaseReachesRouter == PM!ReleaseReachesRouter
=============================================================================
