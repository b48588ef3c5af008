----------------------------- MODULE ContainedNet -----------------------------
(* The contained network path: what the daemon's binder checks before it     *)
(* opens a socket and how it ties the socket to the configured path          *)
(* (netbinder.rs), the health evaluation behind it (net/mod.rs, net/probe.rs,*)
(* net/config.rs), the SOCKS5 layer (net/socks5.rs) and the HTTP client that *)
(* every tracker, webseed and router request goes through (net/http.rs).     *)
(*                                                                           *)
(* One caller performs one operation at a time: a peer connection, a UDP     *)
(* socket, a listener, or an HTTP request.  The machine (the interface, its  *)
(* addresses, routes and resolvers) changes between any two steps, so what   *)
(* the guard saw may be gone when the socket is bound.  An address is known  *)
(* by its family, "v4" or "v6"; a host is an address or a "name".            *)
EXTENDS Naturals, Sequences, FiniteSets

CONSTANTS NetConfigs,    \* the [network] tables considered
          Machines,      \* the states of the machine's network
          Urls, Scheme, HostOf, \* URLs, their schemes and hosts
          Asked,         \* the byte range a webseed is asked for: <<first, last>>
          Declarable,    \* what servers put in Content-Range, Nothing for none
          Nothing,
          BodyLimit,     \* MAX_TRACKER_HTTP_BODY_BYTES, MAX_UPNP_SOAP_BODY_BYTES
          MaxRedirects,  \* MAX_REDIRECTS
          MaxChanges     \* bound: how often the machine changes

VARIABLES net_config, machine, net_gate, op, sockets, queries, changes

net_vars == <<net_config, machine, net_gate, op, sockets, queries, changes>>

Families == {"v4", "v6"}
Http == {"tracker", "range", "upnp"}
Kinds == {"peer", "udp", "listen"} \cup Http

-----------------------------------------------------------------------------
(* The configuration.                                                        *)

HasPath(c) == c.iface \/ c.src # {} \/ c.ns

Strict(c) == c.mode = "strict" /\ c.fail_closed

\* Socks5ProxyConfig::validate: a host when enabled, both credentials or none.
ValidProxy(p) ==
    /\ p.enabled => p.host # Nothing
    /\ p.username = p.password

ValidConfig(c) ==
    /\ ValidProxy(c.proxy)
    /\ c.mode = "strict" => /\ HasPath(c)
                            /\ c.v6 \/ "v6" \notin c.src

-----------------------------------------------------------------------------
(* The probes: what the host says of the configured path.  A machine has an  *)
(* interface that is "missing", "down" or "up"; the families of its usable   *)
(* addresses (`local`: only a link-local one); whether the required sources  *)
(* are assigned, the namespace is the current one, and which families are    *)
(* routed and resolvers reached over the interface.                          *)

\* An address of the interface counts as usable even if it is link-local.
HasUsableAddress(c, m) ==
    \/ "v4" \in m.addresses
    \/ c.v6 /\ (m.local \/ "v6" \in m.addresses)

SourceAssigned(c, m, f) == f \in m.assigned /\ (c.iface => m.iface # "missing")

\* add_route_families: link-local addresses need no route.
AddressFamilies(c, m) == {f \in m.addresses : f = "v4" \/ c.v6}

RouteFamilies(c, m) ==
    c.src \cup (IF c.iface \/ c.ns THEN AddressFamilies(c, m) ELSE {})

\* `ip route get` from the source and over the interface finds a route of the
\* family that is neither a blackhole nor over another device.
Routed(m, f) == f \in m.routes

\* No probe can be formed for a missing interface, an IPv6 source with IPv6
\* off, or a path with no family at all; otherwise every probe must match.
RouteValid(c, m) ==
    /\ c.v6 \/ "v6" \notin c.src
    /\ c.iface => m.iface # "missing"
    /\ HasPath(c) => RouteFamilies(c, m) # {}
    /\ \A f \in RouteFamilies(c, m) : Routed(m, f)

\* The process is in the namespace of that name.
NamespaceIsCurrent(m) == m.ns

\* Every resolver is reached over the interface, or the local stub has servers
\* for it; a namespace has resolvers of its own.
DnsConstrained(c, m) == c.ns \/ (c.iface /\ m.dns)

\* compute_status: the checks in the order they are made, each with the status
\* that it returns when it fails.
Checks(c, m) ==
  <<<<"interface_missing", c.iface /\ m.iface = "missing">>,
    <<"interface_down", c.iface /\ m.iface = "down">>,
    <<"no_interface_address", c.iface /\ ~HasUsableAddress(c, m)>>,
    <<"namespace_unavailable", c.ns /\ ~NamespaceIsCurrent(m)>>,
    <<"source_missing", "v4" \in c.src /\ ~SourceAssigned(c, m, "v4")>>,
    <<"source_missing", c.v6 /\ "v6" \in c.src /\ ~SourceAssigned(c, m, "v6")>>,
    <<"route_invalid", c.validate_route /\ ~RouteValid(c, m)>>,
    <<"dns_not_constrained", c.validate_dns /\ ~DnsConstrained(c, m)>>>>

ComputeStatus(c, m) ==
    LET failed == SelectSeq(Checks(c, m), LAMBDA check : check[2])
    IN  IF c.mode = "disabled" THEN "disabled"
        ELSE IF failed = <<>> THEN "healthy" ELSE failed[1][1]

TrafficAllowed(c, m) == ComputeStatus(c, m) \in {"healthy", "disabled"}

-----------------------------------------------------------------------------
(* The binder's checks.                                                      *)

Idle == [what |-> "none", step |-> "idle", host |-> Nothing, url |-> Nothing,
         chain |-> <<>>, stream |-> Nothing, declared |-> Nothing, got |-> 0]

\* make_binder wraps the contained binder in the SOCKS5 layer; listeners pass
\* through it, and router control uses make_unproxied_contained_binder.
Proxied(what) == net_config.proxy.enabled /\ what \notin {"listen", "upnp"}

\* ContainedBinder::guard.
Guard ==
    /\ net_gate
    /\ \/ net_config.mode = "disabled"
       \/ /\ Strict(net_config) => HasPath(net_config)
          /\ net_config.fail_closed => TrafficAllowed(net_config, machine)

FamilyUnchecked(f) == f = "v6" => net_config.v6

\* ensure_family_enforced.
FamilyEnforced(f) ==
    /\ f = "v6" => net_config.v6
    /\ Strict(net_config) => net_config.iface \/ net_config.ns \/ f \in net_config.src

\* report_health_status: the gate is blocked before anything else can happen.
Report == net_gate' = (net_gate /\ ~Strict(net_config))

\* bind_socket_to_interface and the bind to source_for_addr.
CanBind(f) ==
    /\ net_config.iface => machine.iface # "missing"
    /\ f \in net_config.src => f \in machine.assigned

Socket(kind, f, to) ==
    [kind |-> kind, family |-> f, device |-> net_config.iface,
     source |-> f \in net_config.src, to |-> to]

\* udp_bind_addr: without a remote address the family follows the sources.
UdpFamily(remote) ==
    IF remote # Nothing THEN remote
    ELSE IF net_config.src = {"v6"} THEN "v6" ELSE "v4"

\* bind_peer_listener_inner: IPv4 unless only an IPv6 source ties the path,
\* IPv6 if allowed and something ties it.
ListenFamilies ==
    LET c == net_config
        namespace_only == c.ns /\ ~c.iface /\ c.src = {}
    IN  {f \in Families :
           IF f = "v4" THEN c.iface \/ namespace_only \/ c.src # {"v6"}
           ELSE c.v6 /\ (c.iface \/ namespace_only \/ "v6" \in c.src)}

\* select_resolved_addr over the addresses left by the allow_ipv6 filter.
SelectResolved(found) ==
    LET usable == {f \in found : f = "v4" \/ net_config.v6}
        first == IF net_config.v6 /\ net_config.src = {"v6"} THEN "v6" ELSE "v4"
    IN  IF first \in usable THEN first ELSE CHOOSE f \in usable : TRUE

-----------------------------------------------------------------------------
Ends == op' = Idle /\ sockets' = {}

Unmoved == UNCHANGED <<net_config, machine, changes>>

Fails == Ends /\ Unmoved /\ UNCHANGED <<net_gate, queries>>

Goes(changed) ==
    /\ op' = changed
    /\ Unmoved
    /\ UNCHANGED <<net_gate, sockets, queries>>

\* A caller starts: a peer address, a datagram address or none, a listener, or
\* a URL.  The SOCKS5 layer refuses UDP; UPnP URLs must be http, and only the
\* trackers' and webseeds' requests go through the redirect loop.
Start(what, host, url) ==
    /\ op = Idle
    /\ Goes([Idle EXCEPT !.what = what, !.step = "target", !.host = host, !.url = url])

StartPeer(f) == Start("peer", f, Nothing)
StartUdp(remote) == Start("udp", remote, Nothing)
StartListen == Start("listen", Nothing, Nothing)
StartTracker(u) == Start("tracker", HostOf[u], u)
StartRange(u) == Start("range", HostOf[u], u)
StartUpnp(u) == Start("upnp", HostOf[u], u)

\* request_with_redirects keeps the URLs it has asked.
Visited(u) == \E i \in DOMAIN op.chain : op.chain[i] = u

\* connect_host and connect_peer choose whom to connect to: the proxy, or the
\* host itself.
Target ==
    /\ op.step = "target"
    /\ IF \/ op.what = "udp" /\ Proxied("udp")
          \/ op.what = "upnp" /\ Scheme[op.url] # "http"
          \/ op.what \in Http /\ Visited(op.url)
       THEN Fails
       ELSE LET host == IF Proxied(op.what) THEN net_config.proxy.host ELSE op.host
            IN  Goes([op EXCEPT !.host = host,
                                !.step = IF host = "name" THEN "resolve" ELSE "open"])

\* ContainedBinder::resolve_host: the guard, then the DNS containment check,
\* then the system's resolver.
Resolve(found) ==
    /\ op.step = "resolve"
    /\ IF ~Guard \/ (Strict(net_config) /\ ~DnsConstrained(net_config, machine))
       THEN Fails
       ELSE /\ queries' = queries \cup {IF Proxied(op.what) THEN "proxy" ELSE op.what}
            /\ IF {f \in found : f = "v4" \/ net_config.v6} = {}
               THEN Ends
               ELSE /\ op' = [op EXCEPT !.host = SelectResolved(found), !.step = "open"]
                    /\ UNCHANGED sockets
            /\ Unmoved /\ UNCHANGED net_gate

\* The guard of connect_peer, udp_socket_for/on and bind_peer_listener.
Open ==
    /\ op.step = "open"
    /\ IF Guard THEN Goes([op EXCEPT !.step = "bind"]) ELSE Fails

\* A socket for one remote address: the family must be one the path ties, the
\* socket is tied to the device and the source; any failure is reported.
Bind(f, kind, enforced) ==
    IF enforced /\ CanBind(f)
    THEN /\ sockets' = {Socket(kind, f, IF Proxied(op.what) THEN "proxy" ELSE "target")}
         /\ op' = [op EXCEPT !.step = IF kind = "udp" THEN "ready" ELSE "connecting"]
         /\ Unmoved /\ UNCHANGED <<net_gate, queries>>
    ELSE Ends /\ Report /\ Unmoved /\ UNCHANGED queries

BindTcp ==
    /\ op.step = "bind" /\ op.what \notin {"udp", "listen"}
    /\ Bind(op.host, "tcp", FamilyEnforced(op.host))

\* Without a remote address udp_socket_for checks no family.
BindUdp ==
    /\ op.step = "bind" /\ op.what = "udp"
    /\ Bind(UdpFamily(op.host), "udp", op.host = Nothing \/ FamilyEnforced(op.host))

\* Both listeners or none; the port may be taken.
BindListener(taken) ==
    /\ op.step = "bind" /\ op.what = "listen"
    /\ IF ~taken /\ \A f \in ListenFamilies : CanBind(f)
       THEN /\ sockets' = {Socket("listen", f, "target") : f \in ListenFamilies}
            /\ op' = [op EXCEPT !.step = "ready"]
            /\ Unmoved /\ UNCHANGED <<net_gate, queries>>
       ELSE Ends /\ Report /\ Unmoved /\ UNCHANGED queries

\* The connection is made; through the SOCKS5 layer the proxy still has to be
\* asked for the target.
Reached == [op EXCEPT !.step = "ready", !.stream = IF op.what \in Http THEN op.url ELSE "peer"]

Connected ==
    /\ op.step = "connecting"
    /\ Goes(IF Proxied(op.what) THEN [op EXCEPT !.step = "method"] ELSE Reached)

\* send_to and recv_from check the gate and are cancelled by it; so is accept,
\* whose streams are tied like their listener.
SendTo ==
    /\ op.step = "ready" /\ op.what = "udp"
    /\ IF net_gate THEN Goes([op EXCEPT !.step = "sent"]) ELSE Fails

RecvFrom ==
    /\ op.step = "sent"
    /\ IF net_gate THEN Goes([op EXCEPT !.step = "ready"]) ELSE Fails

Accept ==
    /\ op.step = "ready" /\ op.what = "listen"
    /\ IF net_gate
       THEN /\ \E s \in sockets : sockets' = sockets \cup {[s EXCEPT !.kind = "inbound"]}
            /\ Unmoved /\ UNCHANGED <<net_gate, op, queries>>
       ELSE Fails

\* A caller is done with its socket or its answer.
Close == (op.step = "done" \/ (op.step = "ready" /\ op.what \notin Http)) /\ Fails

\* Anything under way may fail: a refused or timed out connection, the proxy's
\* handshake timeout, the 30-second request timeout, a truncated body.
Breaks ==
    /\ \/ op.step \in {"connecting", "method", "auth", "reply", "secure", "answer", "body"}
       \/ op.step = "ready" /\ op.what \in Http
    /\ Fails

-----------------------------------------------------------------------------
(* SOCKS5: one method is offered and only that one accepted.                 *)

HasAuthentication == net_config.proxy.username /\ net_config.proxy.password

Offered == IF HasAuthentication THEN "password" ELSE "none"

NegotiateAuthentication(selected) ==
    /\ op.step = "method"
    /\ IF selected # Offered THEN Fails
       ELSE Goes([op EXCEPT !.step = IF HasAuthentication THEN "auth" ELSE "reply"])

AuthenticateUsernamePassword ==
    op.step = "auth" /\ Goes([op EXCEPT !.step = "reply"])

\* The CONNECT request, by name for a name, and its reply.
ReadConnectResponse(granted) ==
    op.step = "reply" /\ (IF granted THEN Goes(Reached) ELSE Fails)

-----------------------------------------------------------------------------
(* The HTTP client: request_with_redirects, request_over_stream, and the     *)
(* checks its callers make of the answer.                                    *)

RangeLength(r) == (r[2] - r[1]) + 1

Limit(what) == IF what = "range" THEN RangeLength(Asked) ELSE BodyLimit

\* The TLS handshake, then the request over the stream.
Secured == Scheme[op.url] = "https"

Tls ==
    /\ op.step = "ready" /\ op.what \in Http /\ Secured
    /\ Goes([op EXCEPT !.step = "secure"])

Send ==
    /\ op.what \in Http
    /\ op.step = IF Secured THEN "secure" ELSE "ready"
    /\ Goes([op EXCEPT !.step = "answer", !.chain = Append(@, op.url)])

DowngradesFirst(u) == Scheme[op.chain[1]] = "https" /\ Scheme[u] = "http"

\* A redirect is followed by the trackers' and webseeds' requests only, within
\* the limit, to a permitted URL, and never from https to http.  The stream is
\* dropped before the next one is opened.
Downgrades(u) == Scheme[op.url] = "https" /\ Scheme[u] = "http"

\* resolve_redirect and parse_http_url: one Location, and an http or https URL
\* with a host and no user.
Permitted(u) == u # Nothing

Redirect(u) ==
    /\ op.step = "answer"
    /\ IF \/ op.what = "upnp" \/ ~Permitted(u)
          \/ Len(op.chain) > MaxRedirects \/ Downgrades(u)
       THEN Fails
       ELSE /\ op' = [Idle EXCEPT !.what = op.what, !.step = "target",
                                  !.host = HostOf[u], !.url = u, !.chain = op.chain]
            /\ sockets' = {}
            /\ Unmoved /\ UNCHANGED <<net_gate, queries>>

\* Too many headers, too large ones, or two where one is expected.
HeadersRefused == op.step = "answer" /\ Fails

\* Another answer: a status the policy accepts opens the body, any other one
\* is an error to the caller.
Answer(accepted, declared) ==
    /\ op.step = "answer"
    /\ IF accepted
       THEN Goes([op EXCEPT !.step = "body",
                            !.declared = IF op.what = "range" THEN declared ELSE Nothing])
       ELSE Fails

\* accumulate_body: no frame may take the body past its limit.
Frame(n) ==
    /\ op.step = "body"
    /\ IF op.got + n > Limit(op.what) THEN Fails
       ELSE Goes([op EXCEPT !.got = @ + n])

\* parse_content_range: first-last/total, in order and within the total.
ParseContentRange(d) ==
    IF d = Nothing \/ d[2] < d[1] \/ d[3] <= d[2] THEN Nothing ELSE <<d[1], d[2]>>

\* get_webseed_range compares the declared range and the body's length with
\* what it asked for; get_tracker takes the body as it is.
Acceptable ==
    op.what = "range" => /\ ParseContentRange(op.declared) = Asked
                         /\ op.got = RangeLength(Asked)

BodyEnds ==
    /\ op.step = "body"
    /\ IF Acceptable THEN Goes([op EXCEPT !.step = "done"]) ELSE Fails

-----------------------------------------------------------------------------
(* The surroundings: the machine changes; the daemon's health check closes   *)
(* and reopens the gate and, once it is closed, tears the data plane down.   *)
(* After a reported failure it is a replaced configuration that reopens the  *)
(* gate, after the same evaluation (DataPlane has the latch).                *)

MachineChanges(m) ==
    /\ m # machine /\ changes < MaxChanges
    /\ machine' = m /\ changes' = changes + 1
    /\ UNCHANGED <<net_config, net_gate, op, sockets, queries>>

HealthCheck ==
    /\ net_gate' = TrafficAllowed(net_config, machine)
    /\ net_gate' # net_gate
    /\ Unmoved /\ UNCHANGED <<op, sockets, queries>>

TearDown == ~net_gate /\ op # Idle /\ Fails

NetInit ==
    /\ net_config \in {c \in NetConfigs : ValidConfig(c)}
    /\ machine \in Machines
    /\ net_gate = TRUE /\ op = Idle /\ sockets = {} /\ queries = {} /\ changes = 0

NetNext ==
    \/ \E f \in Families : StartPeer(f)
    \/ \E r \in Families \cup {Nothing} : StartUdp(r)
    \/ StartListen
    \/ \E u \in Urls : StartTracker(u) \/ StartRange(u) \/ StartUpnp(u)
    \/ Target \/ Open \/ BindTcp \/ BindUdp
    \/ \E found \in SUBSET Families : Resolve(found)
    \/ \E taken \in BOOLEAN : BindListener(taken)
    \/ Connected \/ SendTo \/ RecvFrom \/ Accept \/ Close \/ Breaks
    \/ \E selected \in {"none", "password", "refused"} : NegotiateAuthentication(selected)
    \/ AuthenticateUsernamePassword
    \/ \E granted \in BOOLEAN : ReadConnectResponse(granted)
    \/ Tls \/ Send \/ HeadersRefused
    \/ \E u \in Urls \cup {Nothing} : Redirect(u)
    \/ \E accepted \in BOOLEAN, d \in Declarable : Answer(accepted, d)
    \/ \E n \in 1..2 : Frame(n)
    \/ BodyEnds
    \/ \E m \in Machines : MachineChanges(m)
    \/ HealthCheck \/ TearDown

NetSpec == NetInit /\ [][NetNext]_net_vars

-----------------------------------------------------------------------------
NetTypeOK ==
    /\ net_config \in NetConfigs /\ machine \in Machines
    /\ net_gate \in BOOLEAN /\ changes \in 0..MaxChanges
    /\ op.what \in Kinds \cup {"none"} /\ op.got \in Nat
    /\ queries \subseteq Http \cup {"proxy"}

(* Every socket is tied to the configured path.  Under strict fail-closed    *)
(* containment a socket of any kind is bound to the required device and to   *)
(* the required source of its family, and it exists only if one of those or  *)
(* the namespace covers that family, whatever the machine did between the    *)
(* guard and the bind; with a proxy configured no TCP connection of the      *)
(* torrents goes anywhere else, no UDP socket exists and no target's name is *)
(* resolved here, except for router control.                                 *)
SocketsAreContained ==
    /\ Strict(net_config) =>
         \A s \in sockets :
            /\ net_config.iface => s.device
            /\ s.family \in net_config.src => s.source
            /\ s.device \/ s.source \/ net_config.ns
            /\ s.family = "v6" => net_config.v6
    /\ net_config.proxy.enabled =>
         \A s \in sockets :
            /\ s.kind # "udp"
            /\ s.kind = "tcp" /\ op.what # "upnp" => s.to = "proxy"
    /\ net_config.proxy.enabled => queries \subseteq {"proxy", "upnp"}

(* What a request returns and how it got there.  Requests of one chain of    *)
(* redirects go to different URLs, at most MAX_REDIRECTS + 1 of them, never  *)
(* back from https to http, each over a stream to its own host; the router's *)
(* requests are not redirected.  A body never exceeds its limit, and a       *)
(* webseed's answer that is given to the caller is the range it asked for,   *)
(* whole.                                                                    *)
AnswersAreSound ==
    LET chain == op.chain
    IN  /\ Len(chain) <= MaxRedirects + 1
        /\ \A i, j \in DOMAIN chain : i < j =>
             /\ chain[i] # chain[j]
             /\ Scheme[chain[i]] = "https" => Scheme[chain[j]] = "https"
        /\ op.what = "upnp" => \A i \in DOMAIN chain : i = 1 /\ Scheme[chain[i]] = "http"
        /\ op.step \in {"answer", "body"} => op.stream = chain[Len(chain)]
        /\ op.what \in Http => op.got <= Limit(op.what) /\ Cardinality(sockets) <= 1
        /\ op.step = "done" /\ op.what = "range" =>
             op.declared[1] = Asked[1] /\ op.declared[2] = Asked[2] /\ op.got = RangeLength(Asked)

=============================================================================
