------------------------------ MODULE ServerHost ------------------------------
(***************************************************************************)
(* The server process around the protocol core: the command that binds the  *)
(* listeners and falls back when a default address family does not exist    *)
(* (irtt-app cmd/server/run.rs), the set that supervises them (set.rs), and *)
(* each listener's receive, mark and send loop (runtime.rs, socket_io.rs,   *)
(* socket_options.rs).                                                      *)
(*                                                                         *)
(* The core itself is modelled by ServerCore: here a datagram that reaches  *)
(* it makes it fail, stay silent, or ask for a reply under some traffic     *)
(* class. The maintenance branch of a listener's loop changes the core only *)
(* and is ServerCore's Maintain. The host's sockets are external: which     *)
(* binds collide, which options it refuses, whether a send ever becomes     *)
(* possible.                                                                *)
(*                                                                         *)
(* Recovered metadata that is absent is the empty set, present {x}.         *)
(***************************************************************************)
EXTENDS Naturals, FiniteSets, Sequences, SequencesExt

CONSTANTS Requests,   \* the explicit --bind lists explored
          Hosts,      \* the hosts explored: [families, dual, supported, linux]
          Classes,    \* nonzero traffic classes sessions negotiate
          Locals      \* the host's own addresses

\* An address to bind: its family (IPv4, IPv6, IPv4-mapped IPv6), the local
\* address it names ("any" for the unspecified one) and its port.
Address(family, ip, port) == [family |-> family, ip |-> ip, port |-> port]
Addresses == [family : {"v4", "v6", "mapped"}, ip : Locals \cup {"any"}, port : Nat]

\* ServerSet::bind refuses an empty list; "any" and "bound" name no address.
ASSUME HostAssumption ==
    /\ Cardinality(Locals) > 1 /\ "any" \notin Locals /\ "bound" \notin Locals
    /\ 0 \notin Classes
    /\ Hosts \subseteq [families : SUBSET {4, 6}, dual : BOOLEAN, supported : BOOLEAN,
                        linux : BOOLEAN]
    /\ \A list \in Requests : list \in Seq(Addresses) /\ list # <<>>

VARIABLES host,           \* the host the process runs on
          implicit,       \* no --bind was given
          request,        \* the addresses being bound
          listeners,      \* the bound listeners, in requested order
          app,            \* where run_server is
          signal,         \* shutdown_requested
          shutting_down,  \* of ServerSet::run; the watch channel holds the same
          failure,        \* of ServerSet::run
          joined,         \* the listener tasks join_next has returned
          faults,         \* ghost: some bind failed for no fault of the request
          wire            \* ghost: the last reply that left the host

vars == <<host, implicit, request, listeners, app, signal, shutting_down,
          failure, joined, faults, wire>>

-----------------------------------------------------------------------------
(* Binding. *)

ServesIpv4(addr) == addr.family \in {"v4", "mapped"}

IsGenuineIpv6(addr) == addr.family = "v6"

IsWildcard(addr) == addr.ip = "any"

\* A bug to catch: every IPv6 listener is bound as it comes.
AsItComes(addr, requested) == FALSE

NeedsIpv6Only(addr, requested) ==
    /\ IsGenuineIpv6(addr)
    /\ addr.port # 0
    /\ \E other \in Range(requested) : other.port = addr.port /\ ServesIpv4(other)

\* External: the IP versions a bound socket takes traffic of, on this host.
Carries(addr, v6only) ==
    IF ServesIpv4(addr) THEN {4}
    ELSE IF IsWildcard(addr) /\ host.dual /\ ~v6only THEN {4, 6}
    ELSE {6}

Collides(addr, v6only, other) ==
    /\ addr.port # 0 /\ addr.port = other.addr.port
    /\ Carries(addr, v6only) \cap Carries(other.addr, other.v6only) # {}
    /\ IsWildcard(addr) \/ IsWildcard(other.addr) \/ addr.ip = other.addr.ip

\* address_family_available: can the family's own wildcard be bound at all.
AddressFamilyAvailable(addr) ==
    IF addr.family = "v4" THEN 4 \in host.families ELSE 6 \in host.families

\* Replies are marked with the IPv4 TOS option. Off Linux an IPv4-mapped bind
\* keeps the IPv6 one, which its packets do not carry.
MarksWithIpv4Option(addr) ==
    addr.family = "v4" \/ (host.linux /\ addr.family = "mapped")

\* with_core: a listener fresh from its bind carries no marking.
NewListener(addr, v6only) ==
    [addr |-> addr, v6only |-> v6only, phase |-> "receiving", outcome |-> "none",
     listener_is_ipv4 |-> MarksWithIpv4Option(addr),
     tos |-> 0, tclass |-> 0, socket_is_marked |-> FALSE, reply |-> {}]

\* A wildcard listener needs the host to report destinations.
Bindable(addr, v6only) ==
    /\ AddressFamilyAvailable(addr)
    /\ \A i \in DOMAIN listeners : ~Collides(addr, v6only, listeners[i])
    /\ IsWildcard(addr) => host.supported

DefaultBinds == <<Address("v6", "any", 2112), Address("v4", "any", 2112)>>

\* implicit_default_fallback: what to bind instead of a pair whose i-th half
\* failed, or nothing. (The pair's addresses differ.)
Fallback(i) ==
    IF implicit /\ ~AddressFamilyAvailable(request[i]) THEN RemoveAt(request, i) ELSE <<>>

\* ServerSet::bind takes the next address. A failure releases what was bound;
\* the first time, the implicit pair may be retried without the failed half.
Bind(fault) ==
    LET i == Len(listeners) + 1
        addr == request[i]
        v6only == NeedsIpv6Only(addr, request)
        bound == Append(listeners, NewListener(addr, v6only))
        rest == IF app = "binding" THEN Fallback(i) ELSE <<>>
    IN /\ app \in {"binding", "rebinding"}
       /\ IF Bindable(addr, v6only) /\ ~fault
          THEN /\ listeners' = bound
               /\ app' = IF Len(bound) = Len(request) THEN "running" ELSE app
               /\ UNCHANGED <<request, faults>>
          ELSE /\ listeners' = <<>>
               /\ request' = IF rest = <<>> THEN request ELSE rest
               /\ app' = IF rest = <<>> THEN "failed" ELSE "rebinding"
               /\ faults' = (faults \/ fault)
       /\ UNCHANGED <<host, implicit, signal, shutting_down, failure, joined, wire>>

-----------------------------------------------------------------------------
(* One listener: Server::run. *)

Active(i) == app = "running" /\ listeners[i].phase # "done"

\* receive: where this request's reply must leave from, or nothing for a
\* datagram that must be dropped before the core sees it.
Metadata == {"usable", "missing", "unspecified", "control_truncated",
             "payload_truncated"}

ReplySource(l, to, metadata) ==
    IF metadata = "payload_truncated" THEN {}
    ELSE IF ~IsWildcard(l.addr) THEN {"bound"}
    ELSE IF metadata = "usable" THEN {to}
    ELSE {}

\* A bug to catch: an unmarked reply is sent whatever the socket still carries.
SendsUnmarked(class, marked) == class = 0

MaySendUnappliable(class, marked) == class = 0 /\ ~marked

\* prepare_reply_traffic_class: the listener after the attempt.
Marked(l, class, applied) ==
    IF ~applied THEN l
    ELSE IF l.listener_is_ipv4
    THEN [l EXCEPT !.tos = class, !.socket_is_marked = (class # 0)]
    ELSE [l EXCEPT !.tclass = class, !.socket_is_marked = (class # 0)]

\* A datagram of IP version ip, addressed to `to`, is received, handled by the
\* core, and its reply marked and handed to the socket; the send is suspended
\* until the socket takes it. The datagram may instead be dropped, or the core
\* may have no reply: then nothing changes.
Serve(i, to, ip, metadata, class, applied) ==
    LET l == listeners[i]
        marked == Marked(l, class, applied)
    IN /\ Active(i) /\ l.phase = "receiving"
       /\ ip \in Carries(l.addr, l.v6only)
       /\ IsWildcard(l.addr) \/ to = l.addr.ip
       /\ ReplySource(l, to, metadata) # {}
       /\ listeners' = [listeners EXCEPT ![i] =
             IF applied \/ MaySendUnappliable(class, l.socket_is_marked)
             THEN [marked EXCEPT !.phase = "sending",
                     !.reply = {[class |-> class, ip |-> ip, to |-> to,
                                 source |-> s] : s \in ReplySource(l, to, metadata)}]
             ELSE marked]
       /\ UNCHANGED <<host, implicit, request, app, signal, shutting_down, failure,
                      joined, faults, wire>>

\* What the host puts on the wire: the class of the socket's own IP version,
\* and for a reply from "bound" the address the socket has or, on a wildcard
\* socket, the one the routing table picks.
RoutedSource == CHOOSE a \in Locals : TRUE
OnWire(l, reply) ==
    [class |-> reply.class, to |-> reply.to, ip |-> reply.ip, addr |-> l.addr,
     v6only |-> l.v6only,
     carried |-> IF reply.ip = 4 THEN l.tos ELSE l.tclass,
     from |-> IF reply.source # "bound" THEN reply.source
              ELSE IF IsWildcard(l.addr) THEN RoutedSource ELSE l.addr.ip]

\* The send ends: the reply leaves, or fails or is cut short and is dropped.
SendEnds(i, sent) ==
    /\ Active(i) /\ listeners[i].phase = "sending"
    /\ listeners' = [listeners EXCEPT ![i].phase = "receiving", ![i].reply = {}]
    /\ wire' = IF sent THEN {OnWire(listeners[i], r) : r \in listeners[i].reply} ELSE wire
    /\ UNCHANGED <<host, implicit, request, app, signal, shutting_down, failure,
                   joined, faults>>

Ends(i, outcome) ==
    /\ listeners' = [listeners EXCEPT ![i].phase = "done", ![i].outcome = outcome,
                                      ![i].reply = {}]
    /\ UNCHANGED <<host, implicit, request, app, signal, shutting_down, failure,
                   joined, faults, wire>>

\* The shutdown branch, in either select: a suspended send is abandoned.
ListenerShutdown(i) == Active(i) /\ shutting_down /\ Ends(i, "ok")

\* A receive error, or an error of the core.
ListenerFails(i) == Active(i) /\ listeners[i].phase = "receiving" /\ Ends(i, "error")

\* The task panics.
ListenerPanics(i) == Active(i) /\ Ends(i, "panic")

-----------------------------------------------------------------------------
(* Supervision: ServerSet::run. *)

SignalArrives ==
    /\ ~signal /\ app \notin {"ok", "failed"}
    /\ signal' = TRUE
    /\ UNCHANGED <<host, implicit, request, listeners, app, shutting_down, failure,
                   joined, faults, wire>>

\* The caller's shutdown future completes; it is fanned out to the listeners.
ShutdownRequested ==
    /\ app = "running" /\ signal /\ ~shutting_down
    /\ shutting_down' = TRUE
    /\ UNCHANGED <<host, implicit, request, listeners, app, signal, failure, joined,
                   faults, wire>>

\* What a joined listener's end counts as.
ListenerFailure(i) ==
    CASE listeners[i].outcome = "ok" /\ shutting_down -> {}
      [] listeners[i].outcome = "ok" /\ ~shutting_down -> {[kind |-> "ListenerStopped", listener |-> i]}
      [] listeners[i].outcome = "error" -> {[kind |-> "ListenerRun", listener |-> i]}
      [] listeners[i].outcome = "panic" -> {[kind |-> "ListenerTask", listener |-> i]}

\* A bug to catch: what fails after shutdown was asked for is not reported.
FailureBeforeShutdown(found) == IF failure # {} \/ shutting_down THEN failure ELSE found

\* failure.get_or_insert
FirstFailure(found) == IF failure # {} THEN failure ELSE found

\* A bug to catch: the siblings of a failed listener go on serving.
OnlyOnRequest(found) == shutting_down

ShutsDown(found) == shutting_down \/ found # {}

\* join_next returns a finished listener; the last one ends the run.
Join(i) ==
    LET found == ListenerFailure(i)
    IN /\ app = "running" /\ listeners[i].phase = "done" /\ i \notin joined
       /\ joined' = joined \cup {i}
       /\ failure' = FirstFailure(found)
       /\ shutting_down' = ShutsDown(found)
       /\ app' = IF joined' # DOMAIN listeners THEN app
                 ELSE IF failure' = {} THEN "ok" ELSE "failed"
       /\ UNCHANGED <<host, implicit, request, listeners, signal, faults, wire>>

-----------------------------------------------------------------------------
\* Off Linux no socket is bound to the IPv4-mapped wildcard: macOS reads it as
\* [::], a list of its own here, and FreeBSD refuses it.
Init ==
    /\ host \in Hosts
    /\ implicit \in BOOLEAN
    /\ request \in (IF implicit THEN {DefaultBinds} ELSE Requests)
    /\ ~host.linux => ~\E addr \in Range(request) : addr.family = "mapped" /\ IsWildcard(addr)
    /\ listeners = <<>>
    /\ app = "binding"
    /\ signal = FALSE /\ shutting_down = FALSE
    /\ failure = {} /\ joined = {} /\ faults = FALSE /\ wire = {}

ListenerNext(i) ==
    \/ \E to \in Locals, ip \in {4, 6}, metadata \in Metadata,
          class \in Classes \cup {0}, applied \in BOOLEAN :
             Serve(i, to, ip, metadata, class, applied)
    \/ \E sent \in BOOLEAN : SendEnds(i, sent)
    \/ ListenerShutdown(i)
    \/ ListenerFails(i)
    \/ ListenerPanics(i)

Next ==
    \/ \E fault \in BOOLEAN : Bind(fault)
    \/ \E i \in DOMAIN listeners : ListenerNext(i) \/ Join(i)
    \/ SignalArrives
    \/ ShutdownRequested

MaxListeners == 2

\* The runtime polls every ready branch sooner or later. Nothing obliges the
\* network to deliver, the socket to become writable, or a listener to fail.
Fairness ==
    /\ WF_vars(\E fault \in BOOLEAN : Bind(fault))
    /\ WF_vars(ShutdownRequested)
    /\ \A i \in 1 .. MaxListeners :
         /\ WF_vars(i \in DOMAIN listeners /\ ListenerShutdown(i))
         /\ WF_vars(i \in DOMAIN listeners /\ Join(i))

Spec == Init /\ [][Next]_vars /\ Fairness

-----------------------------------------------------------------------------
(* Properties. *)

\* IPv4 replies of this socket carry no class: a dual-stack IPv6 socket has only
\* the IPv6 option set, and so has an IPv4-mapped bind off Linux.
Ipv4Unmarked(addr) == IsGenuineIpv6(addr) \/ (addr.family = "mapped" /\ ~host.linux)

\* A reply leaves from the address its request was sent to and under its own
\* traffic class, never under one an earlier reply left on the socket. A class
\* is lost, never replaced, and only on the two sockets above (runtime.rs,
\* socket_options.rs).
RepliesAsPromised ==
    \A reply \in wire :
        /\ reply.from = reply.to
        /\ reply.carried = IF reply.ip = 4 /\ Ipv4Unmarked(reply.addr) THEN 0
                           ELSE reply.class

\* What the user asked for, and an address no socket of this host can have.
Asked == IF implicit THEN DefaultBinds ELSE request
Missing(addr) == ~AddressFamilyAvailable(addr)

\* Two addresses that no choice of socket options could bind together.
Inseparable(a, b) ==
    /\ a.port = b.port /\ a.port # 0
    /\ ServesIpv4(a) = ServesIpv4(b)
    /\ a.ip = b.ip \/ IsWildcard(a) \/ IsWildcard(b)

\* The process serves every address that was asked for, or none: only the
\* implicit default may run short, by the half whose address family the host
\* does not have (run.rs serve, ServerSet::bind).
StartsWhole ==
    LET bound == [i \in DOMAIN listeners |-> listeners[i].addr]
    IN app \in {"running", "ok"} =>
            \/ bound = Asked
            \/ /\ implicit /\ \A i \in DOMAIN bound : ~Missing(bound[i])
               /\ \E i \in DOMAIN Asked : Missing(Asked[i]) /\ bound = RemoveAt(Asked, i)

\* The process refuses to start only for a cause: a fault of the host, an absent
\* family, an unsupported wildcard, or two inseparable addresses. In particular
\* an IPv4 and an IPv6 listener of the same port coexist (needs_ipv6_only).
RefusesForCause ==
    (app = "failed" /\ failure = {}) =>
        \/ faults
        \/ \E i \in DOMAIN Asked : Missing(Asked[i]) \/ (IsWildcard(Asked[i]) /\ ~host.supported)
        \/ \E i, j \in DOMAIN Asked : i # j /\ Inseparable(Asked[i], Asked[j])

\* No listener outlives the run, success means that the process was asked to
\* stop and that every listener stopped cleanly, and a reported failure is one a
\* listener really had: none is lost because shutdown had begun (set.rs run).
EndsTogether ==
    (app \in {"ok", "failed"} /\ listeners # <<>>) =>
        /\ \A i \in DOMAIN listeners : listeners[i].phase = "done"
        /\ (app = "ok") = (\A i \in DOMAIN listeners : listeners[i].outcome = "ok")
        /\ app = "ok" => signal
        /\ \A f \in failure : listeners[f.listener].outcome # "ok"

\* Once the process is asked to stop, or one listener has ended, the whole set
\* ends, even while replies wait on sockets that never become writable.
ServiceEnds ==
    (app = "running" /\ (signal \/ \E i \in DOMAIN listeners : listeners[i].phase = "done"))
        ~> (app \in {"ok", "failed"})

\* The listeners of a set stand and fall together: they start as asked for and
\* end with the run, and the end reported is the one they had (run.rs serve,
\* ServerSet::bind, ServerSet::run).
SetStandsTogether == StartsWhole /\ RefusesForCause /\ EndsTogether
===============================================================================
