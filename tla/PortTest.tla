------------------------------ MODULE PortTest ------------------------------
(* The opt-in reachability test of the listen port                            *)
(* (swarmotterd/src/daemon/port_test.rs) and the shared seeding listener it   *)
(* contends with for that port (ensure_seeder_listener and                    *)
(* stop_seeder_listener in daemon/seeding.rs, bind_peer_listener_inner in     *)
(* netbinder.rs).                                                             *)
(*                                                                            *)
(* The port has one listening socket at a time: a second bind fails with the  *)
(* address in use. A bind failure of an operational listener blocks the gate  *)
(* and stays until the configuration is replaced; one of a diagnostic         *)
(* listener is only returned.                                                 *)
EXTENDS Naturals

CONSTANTS
  Testers,      \* control requests and the test after a mapping
  Endpoints,    \* port_test.endpoint values of an enabled configuration
  MaxRequests   \* bound: requests to the endpoint

Off == "off"
Results == {"open", "closed", "error", "timeout"}
Resting == [at |-> "idle", of |-> {}, forced |-> FALSE, bound |-> FALSE]

VARIABLES
  endpoint,     \* the configuration: Off or an endpoint
  allowed,      \* the gate
  latched,      \* a bind failure was reported
  holder,       \* who listens on the port: nobody, the hub or one tester
  hub,          \* seeder_listener_handle is present and not finished
  tester,       \* the running tests
  run_lock,     \* who holds it
  cache,        \* CachedPortTest, none or one: [of, state]
  fresh,        \* now < cache_expires_at
  requests

pt_vars == <<endpoint, allowed, latched, holder, hub, tester, run_lock, cache, fresh, requests>>

PtTypeOK ==
  /\ endpoint \in Endpoints \cup {Off} /\ allowed \in BOOLEAN /\ latched \in BOOLEAN
  /\ holder \subseteq Testers \cup {"hub"} /\ hub \in BOOLEAN
  /\ tester \in [Testers -> [at : {"idle", "waiting", "asking"}, of : SUBSET Endpoints,
                             forced : BOOLEAN, bound : BOOLEAN]]
  /\ run_lock \subseteq Testers
  /\ cache \subseteq [of : Endpoints \cup {Off}, state : Results \cup {"disabled"}]
  /\ fresh \in BOOLEAN /\ requests \in 0 .. MaxRequests

PtInit ==
  /\ endpoint \in Endpoints \cup {Off} /\ allowed = TRUE /\ latched = FALSE
  /\ holder = {} /\ hub = FALSE
  /\ tester = [t \in Testers |-> Resting] /\ run_lock = {}
  /\ cache = {} /\ fresh = FALSE /\ requests = 0

-----------------------------------------------------------------------------
(* PortTestRuntime::run. *)

Matching(e) == {c \in cache : c.of = e}

(* cached_if_fresh: a baseline has no expiry and never counts. *)
Cached(e) == fresh /\ Matching(e) # {}

Return(t) == tester' = [tester EXCEPT ![t] = Resting]

Store(e, state) == cache' = {[of |-> e, state |-> state]} /\ fresh' = TRUE

(* run_listen_port_test reads the configuration and whether the shared         *)
(* listener is bound; both are kept while the test waits for its turn.         *)
Begin(t, forced) ==
  /\ tester[t] = Resting
  /\ endpoint \in Endpoints /\ (forced \/ ~Cached(endpoint))
  /\ requests < MaxRequests
  /\ tester' = [tester EXCEPT ![t] = [at |-> "waiting", of |-> {endpoint},
                                      forced |-> forced, bound |-> hub]]
  /\ UNCHANGED <<endpoint, allowed, latched, holder, hub, run_lock, cache, fresh, requests>>

(* Disabled: the baseline is stored without the lock. *)
BeginDisabled(t) ==
  /\ tester[t] = Resting /\ endpoint = Off
  /\ cache' = {[of |-> Off, state |-> "disabled"]} /\ fresh' = FALSE
  /\ UNCHANGED <<endpoint, allowed, latched, holder, hub, tester, run_lock, requests>>

Endpoint(t) == CHOOSE e \in Endpoints : e \in tester[t].of

AskAnyway(t) == FALSE

(* The second look at the cache, under the lock. *)
Answered(t) == ~tester[t].forced /\ Cached(Endpoint(t))

Turn(t) == tester[t].at = "waiting" /\ run_lock = {}

SecondClick(t) ==
  /\ Turn(t) /\ Answered(t)
  /\ Return(t)
  /\ UNCHANGED <<endpoint, allowed, latched, holder, hub, run_lock, cache, fresh, requests>>

(* bind_diagnostic_listener, unless the shared listener was there; the request *)
(* is under way.                                                               *)
Ask(t) ==
  /\ Turn(t) /\ ~Answered(t) /\ requests < MaxRequests
  /\ \/ tester[t].bound /\ holder' = holder
     \/ ~tester[t].bound /\ allowed /\ holder = {} /\ holder' = {t}
  /\ run_lock' = {t}
  /\ tester' = [tester EXCEPT ![t].at = "asking"]
  /\ requests' = requests + 1
  /\ UNCHANGED <<endpoint, allowed, latched, hub, cache, fresh>>

NotReserved(t) ==
  /\ Turn(t) /\ ~Answered(t)
  /\ ~tester[t].bound /\ (~allowed \/ holder # {})
  /\ Store(Endpoint(t), "error")
  /\ Return(t)
  /\ UNCHANGED <<endpoint, allowed, latched, holder, hub, run_lock, requests>>

(* What the endpoint can find: open only with somebody listening. *)
Verdicts ==
  IF ~allowed THEN {"error"}
  ELSE {"closed", "error", "timeout"} \cup (IF holder = {} THEN {} ELSE {"open"})

Answer(t, state) ==
  /\ tester[t].at = "asking" /\ state \in Verdicts
  /\ Store(Endpoint(t), state)
  /\ holder' = holder \ {t} /\ run_lock' = {}
  /\ Return(t)
  /\ UNCHANGED <<endpoint, allowed, latched, hub, requests>>

-----------------------------------------------------------------------------
(* The shared listener. *)

EnsureListener ==
  /\ ~hub /\ allowed /\ holder = {}
  /\ hub' = TRUE /\ holder' = {"hub"}
  /\ UNCHANGED <<endpoint, allowed, latched, tester, run_lock, cache, fresh, requests>>

(* The port is taken: report_bind_failure blocks the gate at once and the      *)
(* daemon latches the failure.                                                 *)
ListenerBindFails ==
  /\ ~hub /\ allowed /\ holder # {}
  /\ allowed' = FALSE /\ latched' = TRUE
  /\ UNCHANGED <<endpoint, holder, hub, tester, run_lock, cache, fresh, requests>>

StopListener ==
  /\ hub
  /\ hub' = FALSE /\ holder' = holder \ {"hub"}
  /\ UNCHANGED <<endpoint, allowed, latched, tester, run_lock, cache, fresh, requests>>

-----------------------------------------------------------------------------
Replace(e) ==
  /\ e # endpoint
  /\ endpoint' = e /\ allowed' = TRUE /\ latched' = FALSE
  /\ UNCHANGED <<holder, hub, tester, run_lock, cache, fresh, requests>>

CacheExpires ==
  /\ fresh
  /\ fresh' = FALSE
  /\ UNCHANGED <<endpoint, allowed, latched, holder, hub, tester, run_lock, cache, requests>>

Testing ==
  \E t \in Testers :
    \/ \E forced \in BOOLEAN : Begin(t, forced)
    \/ BeginDisabled(t) \/ SecondClick(t) \/ Ask(t) \/ NotReserved(t)
    \/ \E state \in Results : Answer(t, state)

PtNext ==
  \/ Testing
  \/ EnsureListener \/ ListenerBindFails \/ StopListener
  \/ \E e \in Endpoints \cup {Off} : Replace(e)
  \/ CacheExpires

PtSpec == PtInit /\ [][PtNext]_pt_vars

-----------------------------------------------------------------------------
AskStep ==
  \A t \in Testers :
    tester'[t].at = "asking" /\ tester[t].at # "asking" /\ ~tester[t].forced
      => ~Cached(Endpoint(t))

(* An unforced test sends no request while a result for its configuration is   *)
(* fresh, however many tests queued up before that result came.                *)
AskedOnce == [][AskStep]_pt_vars

(* The test never changes containment health (docs/configuration.md): no run   *)
(* of it leads to a latched bind failure. The shared listener is the only      *)
(* other user of the port.                                                     *)
DiagnosticsHarmless == ~latched

(* The request is made with a listener on the port (port_test.rs: "rather than *)
(* reporting a false closure").                                                *)
AsksWithListener == \A t \in Testers : tester[t].at = "asking" => holder # {}

=============================================================================
