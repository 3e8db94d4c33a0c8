--------------------------- MODULE ServerHostProofs ---------------------------
(* Proofs about ServerHost, for every bind list, host, set of traffic classes *)
(* and number of listeners.                                                    *)
EXTENDS ServerHost, FiniteSetTheorems, TLAPS

(***************************************************************************)
(* The inductive invariant                                                  *)
(***************************************************************************)
AllClasses == Classes \cup {0}

Sources == Locals \cup {"bound"}

Replies == [class : AllClasses, ip : {4, 6}, to : Locals, source : Sources]

Listeners ==
    [addr : Addresses, v6only : BOOLEAN, phase : {"receiving", "sending", "done"},
     outcome : {"none", "ok", "error", "panic"}, tos : AllClasses, tclass : AllClasses,
     socket_is_marked : BOOLEAN, reply : SUBSET Replies, listener_is_ipv4 : BOOLEAN]

HostTyped ==
    /\ host \in Hosts /\ implicit \in BOOLEAN
    /\ request \in Seq(Addresses) /\ request # <<>>
    /\ listeners \in Seq(Listeners)
    /\ app \in {"binding", "rebinding", "running", "ok", "failed"}

(* A socket carries a class only in the option its listener marks with, and   *)
(* socket_is_marked says whether it does. What waits to be sent waits under   *)
(* its own class, and on a wildcard socket with its source.                   *)
ListenerSound(l) ==
    /\ l.listener_is_ipv4 => l.tclass = 0 /\ (l.socket_is_marked <=> l.tos # 0)
    /\ ~l.listener_is_ipv4 => l.tos = 0 /\ (l.socket_is_marked <=> l.tclass # 0)
    /\ \A r \in l.reply :
         /\ r.class = IF l.listener_is_ipv4 THEN l.tos ELSE l.tclass
         /\ ServesIpv4(l.addr) => r.ip = 4
         /\ r.source = IF IsWildcard(l.addr) THEN r.to ELSE "bound"
         /\ ~IsWildcard(l.addr) => r.to = l.addr.ip

MarkInv == \A i \in DOMAIN listeners : ListenerSound(listeners[i])

(* A set is bound in order, each listener with the option its list calls for. *)
BoundInv ==
    /\ Len(listeners) <= Len(request)
    /\ app \in {"binding", "rebinding"} => Len(listeners) < Len(request)
    /\ app \in {"running", "ok"} => Len(listeners) = Len(request)
    /\ \A i \in DOMAIN listeners :
         /\ listeners[i].addr = request[i]
         /\ listeners[i].v6only <=> NeedsIpv6Only(request[i], request)
         /\ listeners[i].listener_is_ipv4 <=> MarksWithIpv4Option(request[i])
         /\ AddressFamilyAvailable(request[i])

(* Only the implicit pair is ever shortened, by an absent family's half.      *)
RequestInv ==
    /\ app = "binding" /\ implicit => request = DefaultBinds
    /\ app = "rebinding" => implicit
    /\ implicit =>
         \/ request = DefaultBinds /\ app # "rebinding"
         \/ \E i \in {1, 2} : /\ ~AddressFamilyAvailable(DefaultBinds[i])
                              /\ request = <<DefaultBinds[3 - i]>>

(* What is joined has ended, a clean end follows a shutdown, and a failure is *)
(* reported exactly if some joined listener did not end cleanly.              *)
JoinInv ==
    /\ joined \subseteq DOMAIN listeners
    /\ \A i \in joined : listeners[i].phase = "done"
    /\ \A i \in DOMAIN listeners :
         /\ listeners[i].phase = "done" <=> listeners[i].outcome # "none"
         /\ listeners[i].outcome = "ok" => shutting_down
    /\ shutting_down => signal \/ failure # {}
    /\ failure = {} <=> \A i \in joined : listeners[i].outcome = "ok"
    /\ \A f \in failure : f.listener \in joined /\ listeners[f.listener].outcome # "ok"
    /\ app \in {"binding", "rebinding"} => joined = {}
    /\ app \in {"ok", "failed"} /\ listeners # <<>> => joined = DOMAIN listeners
    /\ app = "ok" => failure = {}
    /\ app = "failed" /\ listeners # <<>> => failure # {}

HostInv ==
    /\ HostTyped /\ MarkInv /\ BoundInv /\ RequestInv /\ JoinInv
    /\ RefusesForCause /\ RepliesAsPromised

LEMMA DefaultsTyped ==
    /\ DefaultBinds \in Seq(Addresses) /\ Len(DefaultBinds) = 2
    /\ \A i \in {1, 2} : DefaultBinds[i] \in Addresses
    /\ DefaultBinds[1] # DefaultBinds[2]
BY DEF DefaultBinds, Address, Addresses

(* The pair without one half is the other half.                               *)
LEMMA PairWithoutHalf ==
    /\ RemoveAt(DefaultBinds, 1) = <<DefaultBinds[2]>>
    /\ RemoveAt(DefaultBinds, 2) = <<DefaultBinds[1]>>
<1>1. ASSUME NEW s \in Seq(Addresses), Len(s) = 2
      PROVE  RemoveAt(s, 1) = <<s[2]>> /\ RemoveAt(s, 2) = <<s[1]>>
  <2>1. /\ SubSeq(s, 1, 0) = <<>> /\ SubSeq(s, 3, 2) = <<>>
    BY <1>1
  <2>2. /\ SubSeq(s, 2, 2) \in Seq(Addresses) /\ SubSeq(s, 1, 1) \in Seq(Addresses)
        /\ Len(SubSeq(s, 2, 2)) = 1 /\ Len(SubSeq(s, 1, 1)) = 1
        /\ SubSeq(s, 2, 2)[1] = s[2] /\ SubSeq(s, 1, 1)[1] = s[1]
    BY <1>1
  <2>3. SubSeq(s, 2, 2) = <<s[2]>> /\ SubSeq(s, 1, 1) = <<s[1]>>
    <3>1. ASSUME NEW t \in Seq(Addresses), NEW a, Len(t) = 1, t[1] = a PROVE t = <<a>>
      BY <3>1
    <3> QED BY <2>2, <3>1
  <2>4. RemoveAt(s, 1) = <<>> \o <<s[2]>> /\ RemoveAt(s, 2) = <<s[1]>> \o <<>>
    <3>1. (1 - 1 = 0) /\ (1 + 1 = 2) /\ (2 - 1 = 1) /\ (2 + 1 = 3)
      OBVIOUS
    <3>2. /\ RemoveAt(s, 1) = SubSeq(s, 1, 0) \o SubSeq(s, 2, 2)
          /\ RemoveAt(s, 2) = SubSeq(s, 1, 1) \o SubSeq(s, 3, 2)
      BY <1>1, <3>1, Zenon DEF RemoveAt
    <3> QED BY <2>1, <2>3, <3>2, Zenon
  <2> QED BY <1>1, <2>4
<1> QED BY <1>1, DefaultsTyped

LEMMA HostInitially == Init => HostInv
<1> SUFFICES ASSUME Init PROVE HostInv
  OBVIOUS
<1>1. request \in Seq(Addresses) /\ request # <<>>
  <2>1. CASE implicit
    BY <2>1, DefaultsTyped DEF Init
  <2>2. CASE ~implicit
    BY <2>2, HostAssumption DEF Init
  <2> QED BY <2>1, <2>2
<1>2. HostTyped
  BY <1>1 DEF Init, HostTyped
<1>3. MarkInv /\ RefusesForCause /\ RepliesAsPromised
  BY DEF Init, MarkInv, RefusesForCause, RepliesAsPromised
<1>4. BoundInv /\ JoinInv
  BY <1>1 DEF Init, BoundInv, JoinInv
<1>5. RequestInv
  BY DEF Init, RequestInv
<1> QED BY <1>2, <1>3, <1>4, <1>5 DEF HostInv

(***************************************************************************)
(* Binding                                                                  *)
(***************************************************************************)
LEMMA NewListenerSound ==
    ASSUME NEW addr \in Addresses, NEW v6only \in BOOLEAN
    PROVE  /\ NewListener(addr, v6only) \in Listeners
           /\ ListenerSound(NewListener(addr, v6only))
           /\ NewListener(addr, v6only).addr = addr
           /\ NewListener(addr, v6only).v6only = v6only
           /\ NewListener(addr, v6only).listener_is_ipv4 <=> MarksWithIpv4Option(addr)
           /\ NewListener(addr, v6only).phase = "receiving"
           /\ NewListener(addr, v6only).outcome = "none"
BY DEF NewListener, Listeners, ListenerSound, AllClasses, MarksWithIpv4Option

(* Two listeners of one list collide only if nothing could separate them: an  *)
(* IPv6 socket that shares its port with an IPv4 one takes no IPv4 traffic.   *)
LEMMA CollisionsAreReal ==
    ASSUME HostTyped, NEW i \in DOMAIN request, NEW j \in DOMAIN request,
           NEW other \in Listeners, other.addr = request[j],
           other.v6only <=> NeedsIpv6Only(request[j], request),
           Collides(request[i], NeedsIpv6Only(request[i], request), other)
    PROVE  Inseparable(request[i], request[j])
<1> DEFINE a == request[i]
           b == request[j]
<1>1. a \in Addresses /\ b \in Addresses /\ a \in Range(request) /\ b \in Range(request)
  BY DEF HostTyped, Range
<1>2. /\ a.port # 0 /\ a.port = b.port
      /\ Carries(a, NeedsIpv6Only(a, request)) \cap Carries(b, other.v6only) # {}
      /\ IsWildcard(a) \/ IsWildcard(b) \/ a.ip = b.ip
  BY DEF Collides
<1>3. CASE ServesIpv4(a) /\ ~ServesIpv4(b)
  <2>1. other.v6only
    BY <1>1, <1>2, <1>3 DEF NeedsIpv6Only, IsGenuineIpv6, ServesIpv4, Addresses
  <2>2. Carries(a, NeedsIpv6Only(a, request)) = {4} /\ Carries(b, other.v6only) = {6}
    BY <1>3, <2>1 DEF Carries
  <2> QED BY <1>2, <2>2
<1>4. CASE ServesIpv4(b) /\ ~ServesIpv4(a)
  <2>1. NeedsIpv6Only(a, request)
    BY <1>1, <1>2, <1>4 DEF NeedsIpv6Only, IsGenuineIpv6, ServesIpv4, Addresses
  <2>2. Carries(a, NeedsIpv6Only(a, request)) = {6} /\ Carries(b, other.v6only) = {4}
    BY <1>4, <2>1 DEF Carries
  <2> QED BY <1>2, <2>2
<1>5. CASE ServesIpv4(a) <=> ServesIpv4(b)
  BY <1>2, <1>5 DEF Inseparable, ServesIpv4
<1> QED BY <1>3, <1>4, <1>5

LEMMA BindStep ==
    ASSUME HostInv, NEW fault \in BOOLEAN, Bind(fault)
    PROVE  HostInv'
<1> DEFINE n == Len(listeners) + 1
           addr == request[n]
           v6only == NeedsIpv6Only(addr, request)
           rest == IF app = "binding" THEN Fallback(n) ELSE <<>>
<1>1. /\ n \in DOMAIN request /\ addr \in Addresses /\ v6only \in BOOLEAN
      /\ listeners \in Seq(Listeners) /\ joined = {} /\ failure = {}
      /\ app \in {"binding", "rebinding"} /\ n \in Nat /\ n <= Len(request)
      /\ request \in Seq(Addresses) /\ Len(request) \in Nat
  BY DEF Bind, HostInv, HostTyped, BoundInv, JoinInv, NeedsIpv6Only
<1>2. UNCHANGED <<host, implicit, signal, shutting_down, failure, joined, wire>>
  BY DEF Bind
<1>3. RepliesAsPromised'
  BY <1>2 DEF HostInv, RepliesAsPromised, Ipv4Unmarked
<1>4. CASE Bindable(addr, v6only) /\ ~fault
  <2> DEFINE l == NewListener(addr, v6only)
  <2>1. /\ listeners' = Append(listeners, l) /\ request' = request /\ faults' = faults
        /\ app' = IF Len(Append(listeners, l)) = Len(request) THEN "running" ELSE app
    BY <1>4 DEF Bind
  <2>2. /\ l \in Listeners /\ ListenerSound(l) /\ l.addr = addr /\ l.v6only = v6only
        /\ l.outcome = "none" /\ l.phase = "receiving"
        /\ l.listener_is_ipv4 <=> MarksWithIpv4Option(addr)
    BY <1>1, NewListenerSound
  <2>3. AddressFamilyAvailable(addr)
    BY <1>4 DEF Bindable
  <2> HIDE DEF l, v6only
  <2>4. /\ listeners' \in Seq(Listeners) /\ Len(listeners') = n
        /\ listeners'[n] = l
        /\ \A i \in 1 .. Len(listeners) : listeners'[i] = listeners[i]
        /\ DOMAIN listeners' = DOMAIN listeners \cup {n} /\ DOMAIN listeners = 1 .. Len(listeners)
    BY <1>1, <2>1, <2>2
  <2>5. app' = IF n = Len(request) THEN "running" ELSE app
    BY <1>1, <2>1, <2>4
  <2>6. HostTyped'
    BY <1>1, <1>2, <2>1, <2>4, <2>5 DEF HostInv, HostTyped
  <2>7. MarkInv'
    BY <2>2, <2>4 DEF HostInv, MarkInv
  <2>8. BoundInv'
    <3>1. \A i \in DOMAIN listeners' :
            /\ listeners'[i].addr = request[i]
            /\ listeners'[i].v6only <=> NeedsIpv6Only(request[i], request)
            /\ listeners'[i].listener_is_ipv4 <=> MarksWithIpv4Option(request[i])
            /\ AddressFamilyAvailable(request[i])
      BY <2>2, <2>3, <2>4 DEF HostInv, BoundInv, v6only
    <3> QED BY <1>1, <1>2, <2>1, <2>4, <2>5, <3>1
            DEF BoundInv, AddressFamilyAvailable, NeedsIpv6Only, MarksWithIpv4Option
  <2>9. RequestInv'
    BY <1>1, <1>2, <2>1, <2>5 DEF HostInv, RequestInv, AddressFamilyAvailable
  <2>10. RefusesForCause'
    BY <1>1, <2>5 DEF RefusesForCause
  <2>11. JoinInv'
    BY <1>1, <1>2, <2>2, <2>4, <2>5 DEF HostInv, JoinInv
  <2> QED BY <1>3, <2>6, <2>7, <2>8, <2>9, <2>10, <2>11 DEF HostInv
<1>5. CASE ~(Bindable(addr, v6only) /\ ~fault)
  <2>1. /\ listeners' = <<>> /\ faults' = (faults \/ fault)
        /\ request' = IF rest = <<>> THEN request ELSE rest
        /\ app' = IF rest = <<>> THEN "failed" ELSE "rebinding"
    BY <1>5 DEF Bind
  <2>2. MarkInv' /\ JoinInv'
    BY <1>1, <1>2, <2>1 DEF HostInv, JoinInv, MarkInv
  <2>3. CASE rest = <<>>
    <3>1. HostTyped' /\ BoundInv'
      BY <1>1, <1>2, <2>1, <2>3 DEF HostInv, HostTyped, BoundInv
    <3>2. RequestInv'
      BY <1>1, <1>2, <2>1, <2>3 DEF HostInv, RequestInv, AddressFamilyAvailable
    <3>3. RefusesForCause'
      <4>1. CASE fault
        BY <2>1, <4>1 DEF RefusesForCause
      <4>2. CASE ~Bindable(addr, v6only)
        <5>1. CASE request = Asked
          <6>1. CASE Missing(addr) \/ (IsWildcard(addr) /\ ~host.supported)
            BY <1>1, <1>2, <2>1, <2>3, <5>1, <6>1
               DEF RefusesForCause, Asked, Missing, AddressFamilyAvailable
          <6>2. CASE \E j \in DOMAIN listeners : Collides(addr, v6only, listeners[j])
            <7>1. PICK j \in DOMAIN listeners : Collides(addr, v6only, listeners[j])
              BY <6>2
            <7>2. /\ j \in DOMAIN request /\ j # n /\ listeners[j] \in Listeners
                  /\ listeners[j].addr = request[j]
                  /\ listeners[j].v6only <=> NeedsIpv6Only(request[j], request)
              BY <1>1, <7>1 DEF HostInv, BoundInv
            <7>3. Inseparable(request[n], request[j])
              BY <1>1, <7>1, <7>2, CollisionsAreReal DEF HostInv
            <7> QED BY <1>1, <1>2, <2>1, <2>3, <5>1, <7>2, <7>3 DEF RefusesForCause, Asked
          <6> QED BY <4>2, <6>1, <6>2 DEF Bindable, Missing
        <5>2. CASE request # Asked
          <6>1. PICK i \in {1, 2} : ~AddressFamilyAvailable(DefaultBinds[i])
            BY <5>2 DEF HostInv, RequestInv, Asked
          <6>2. implicit' /\ Asked' = DefaultBinds /\ i \in DOMAIN DefaultBinds
            BY <1>2, <5>2, DefaultsTyped DEF Asked
          <6> QED BY <1>2, <6>1, <6>2 DEF RefusesForCause, Missing, AddressFamilyAvailable
        <5> QED BY <5>1, <5>2
      <4> QED BY <1>5, <4>1, <4>2
    <3> QED BY <1>3, <2>2, <3>1, <3>2, <3>3 DEF HostInv
  <2>4. CASE rest # <<>>
    <3>1. /\ app = "binding" /\ implicit /\ ~AddressFamilyAvailable(addr)
          /\ request = DefaultBinds /\ rest = RemoveAt(DefaultBinds, n)
      BY <2>4 DEF Fallback, HostInv, RequestInv
    <3>2. n \in {1, 2}
      BY <1>1, <3>1, DefaultsTyped
    <3>3. rest = <<DefaultBinds[3 - n]>>
      BY <3>1, <3>2, PairWithoutHalf
    <3>4. /\ request' = <<DefaultBinds[3 - n]>> /\ app' = "rebinding"
          /\ request' \in Seq(Addresses) /\ Len(request') = 1
      <4>1. DefaultBinds[3 - n] \in Addresses
        BY <3>2, DefaultsTyped
      <4>2. request' = <<DefaultBinds[3 - n]>> /\ app' = "rebinding"
        BY <2>1, <2>4, <3>3
      <4> QED BY <4>1, <4>2
    <3>5. HostTyped' /\ BoundInv'
      BY <1>1, <1>2, <2>1, <3>4 DEF HostInv, HostTyped, BoundInv
    <3>6. RequestInv'
      BY <1>2, <3>1, <3>2, <3>4 DEF RequestInv, AddressFamilyAvailable
    <3>7. RefusesForCause'
      BY <3>4 DEF RefusesForCause
    <3> QED BY <1>3, <2>2, <3>5, <3>6, <3>7 DEF HostInv
  <2> QED BY <2>3, <2>4
<1> QED BY <1>4, <1>5

(***************************************************************************)
(* The listeners                                                            *)
(***************************************************************************)
(* What one listener of a running set may do: it keeps its address, stays     *)
(* sound, and ends only once, cleanly only after a shutdown.                   *)
LEMMA ListenerReplaced ==
    ASSUME HostInv, app = "running", NEW i \in DOMAIN listeners, NEW l \in Listeners,
           listeners' = [listeners EXCEPT ![i] = l],
           listeners[i].phase # "done",
           l.addr = listeners[i].addr, l.v6only = listeners[i].v6only,
           l.listener_is_ipv4 = listeners[i].listener_is_ipv4,
           ListenerSound(l), l.phase = "done" <=> l.outcome # "none",
           l.outcome = "ok" => shutting_down,
           RepliesAsPromised',
           UNCHANGED <<host, implicit, request, app, signal, shutting_down, failure, joined, faults>>
    PROVE  HostInv'
<1>1. /\ listeners \in Seq(Listeners) /\ listeners' \in Seq(Listeners)
      /\ Len(listeners') = Len(listeners) /\ DOMAIN listeners' = DOMAIN listeners
      /\ listeners'[i] = l
      /\ \A j \in DOMAIN listeners : j # i => listeners'[j] = listeners[j]
  BY DEF HostInv, HostTyped
<1>2. HostTyped'
  BY <1>1 DEF HostInv, HostTyped
<1>3. MarkInv'
  BY <1>1 DEF HostInv, MarkInv
<1>4. BoundInv'
  <2>1. \A j \in DOMAIN listeners :
          /\ listeners'[j].addr = listeners[j].addr /\ listeners'[j].v6only = listeners[j].v6only
          /\ listeners'[j].listener_is_ipv4 = listeners[j].listener_is_ipv4
    BY <1>1
  <2> QED BY <1>1, <2>1
          DEF HostInv, BoundInv, AddressFamilyAvailable, NeedsIpv6Only, MarksWithIpv4Option
<1>5. RequestInv' /\ RefusesForCause'
  BY DEF HostInv, RequestInv, RefusesForCause, AddressFamilyAvailable
<1>6. JoinInv'
  <2>1. i \notin joined
    BY DEF HostInv, JoinInv
  <2>2. \A j \in joined : listeners'[j] = listeners[j]
    BY <1>1, <2>1 DEF HostInv, JoinInv
  <2>3. \A f \in failure : f.listener \in joined /\ listeners'[f.listener].outcome # "ok"
    BY <2>2 DEF HostInv, JoinInv
  <2>4. \A j \in DOMAIN listeners :
          /\ listeners'[j].phase = "done" <=> listeners'[j].outcome # "none"
          /\ listeners'[j].outcome = "ok" => shutting_down
    BY <1>1 DEF HostInv, JoinInv
  <2> QED BY <1>1, <2>2, <2>3, <2>4 DEF HostInv, JoinInv
<1> QED BY <1>2, <1>3, <1>4, <1>5, <1>6 DEF HostInv

LEMMA ListenerFacts ==
    ASSUME HostInv, NEW i \in DOMAIN listeners
    PROVE  /\ listeners \in Seq(Listeners) /\ listeners[i] \in Listeners
           /\ ListenerSound(listeners[i])
           /\ listeners[i].phase = "done" <=> listeners[i].outcome # "none"
           /\ listeners[i].outcome = "ok" => shutting_down
BY DEF HostInv, HostTyped, MarkInv, JoinInv

LEMMA ServeStep ==
    ASSUME HostInv, NEW i \in DOMAIN listeners, NEW to \in Locals, NEW ip \in {4, 6},
           NEW metadata \in Metadata, NEW class \in Classes \cup {0}, NEW applied \in BOOLEAN,
           Serve(i, to, ip, metadata, class, applied)
    PROVE  HostInv'
<1> DEFINE l == listeners[i]
           marked == Marked(l, class, applied)
           source == ReplySource(l, to, metadata)
           replies == {[class |-> class, ip |-> ip, to |-> to, source |-> s] : s \in source}
           suspended == [marked EXCEPT !.phase = "sending", !.reply = replies]
           goes == applied \/ MaySendUnappliable(class, l.socket_is_marked)
<1>1. /\ app = "running" /\ l.phase = "receiving"
      /\ ip \in Carries(l.addr, l.v6only)
      /\ IsWildcard(l.addr) \/ to = l.addr.ip
      /\ listeners' = [listeners EXCEPT ![i] = IF goes THEN suspended ELSE marked]
      /\ UNCHANGED <<host, implicit, request, app, signal, shutting_down, failure, joined,
                     faults, wire>>
  BY DEF Serve, Active
<1>2. l \in Listeners /\ ListenerSound(l) /\ l.outcome = "none"
  BY <1>1, ListenerFacts
<1>3. source = {IF IsWildcard(l.addr) THEN to ELSE "bound"} \/ source = {}
  BY DEF ReplySource
<1>4. replies \subseteq Replies
  BY <1>3 DEF Replies, Sources, AllClasses
<1> HIDE DEF l, source
<1>5. /\ marked \in Listeners
      /\ marked.addr = l.addr /\ marked.v6only = l.v6only /\ marked.phase = l.phase
      /\ marked.outcome = l.outcome /\ marked.reply = l.reply
      /\ marked.listener_is_ipv4 = l.listener_is_ipv4
  <2>1. CASE ~applied
    BY <1>2, <2>1 DEF Marked
  <2>2. CASE applied /\ l.listener_is_ipv4
    <3>1. marked = [l EXCEPT !.tos = class, !.socket_is_marked = (class # 0)]
      BY <2>2 DEF Marked
    <3> QED BY <1>2, <3>1 DEF Listeners, AllClasses
  <2>3. CASE applied /\ ~l.listener_is_ipv4
    <3>1. marked = [l EXCEPT !.tclass = class, !.socket_is_marked = (class # 0)]
      BY <2>3 DEF Marked
    <3> QED BY <1>2, <3>1 DEF Listeners, AllClasses
  <2> QED BY <2>1, <2>2, <2>3
<1>6. /\ l.listener_is_ipv4 => marked.tclass = 0 /\ (marked.socket_is_marked <=> marked.tos # 0)
      /\ ~l.listener_is_ipv4 => marked.tos = 0 /\ (marked.socket_is_marked <=> marked.tclass # 0)
      /\ goes => class = IF l.listener_is_ipv4 THEN marked.tos ELSE marked.tclass
  <2>1. CASE ~applied
    BY <1>2, <2>1 DEF Marked, ListenerSound, MaySendUnappliable
  <2>2. CASE applied /\ l.listener_is_ipv4
    <3>1. marked = [l EXCEPT !.tos = class, !.socket_is_marked = (class # 0)]
      BY <2>2 DEF Marked
    <3> QED BY <1>2, <2>2, <3>1 DEF Listeners, ListenerSound
  <2>3. CASE applied /\ ~l.listener_is_ipv4
    <3>1. marked = [l EXCEPT !.tclass = class, !.socket_is_marked = (class # 0)]
      BY <2>3 DEF Marked
    <3> QED BY <1>2, <2>3, <3>1 DEF Listeners, ListenerSound
  <2> QED BY <2>1, <2>2, <2>3
<1>7. RepliesAsPromised'
  BY <1>1 DEF HostInv, RepliesAsPromised, Ipv4Unmarked
<1>8. CASE goes
  <2> HIDE DEF marked, replies
  <2>1. /\ suspended \in Listeners
        /\ suspended.addr = l.addr /\ suspended.v6only = l.v6only /\ suspended.phase = "sending"
        /\ suspended.outcome = "none" /\ suspended.reply = replies
        /\ suspended.tos = marked.tos /\ suspended.tclass = marked.tclass
        /\ suspended.socket_is_marked = marked.socket_is_marked
        /\ suspended.listener_is_ipv4 = l.listener_is_ipv4
    BY <1>2, <1>4, <1>5 DEF Listeners
  <2>2. \A r \in replies :
          /\ r.class = class /\ r.ip = ip /\ r.to = to
          /\ r.source = IF IsWildcard(l.addr) THEN to ELSE "bound"
    BY <1>3 DEF replies
  <2>3. ServesIpv4(l.addr) => ip = 4
    BY <1>1 DEF Carries
  <2> HIDE DEF suspended
  <2>4. ListenerSound(suspended)
    BY <1>1, <1>6, <1>8, <2>1, <2>2, <2>3 DEF ListenerSound
  <2>5. listeners' = [listeners EXCEPT ![i] = suspended]
    BY <1>1, <1>8
  <2> QED BY <1>1, <1>7, <2>1, <2>4, <2>5, ListenerReplaced DEF l
<1>9. CASE ~goes
  <2>1. ~applied
    BY <1>9
  <2>2. marked = l
    BY <2>1 DEF Marked
  <2>3. listeners' = [listeners EXCEPT ![i] = l]
    BY <1>1, <1>9, <2>2
  <2> QED BY <1>1, <1>2, <1>7, <2>3, ListenerReplaced DEF l
<1> QED BY <1>8, <1>9

(* What leaves the host leaves as promised.                                    *)
LEMMA OnWireAsPromised ==
    ASSUME NEW l \in Listeners, ListenerSound(l), NEW r \in l.reply,
           l.listener_is_ipv4 <=> MarksWithIpv4Option(l.addr)
    PROVE  LET sent == OnWire(l, r)
           IN  /\ sent.from = sent.to
               /\ sent.carried = IF sent.ip = 4 /\ Ipv4Unmarked(sent.addr) THEN 0 ELSE sent.class
<1> DEFINE sent == OnWire(l, r)
<1>1. r \in Replies /\ l.addr \in Addresses
  BY DEF Listeners
<1>2. /\ sent.to = r.to /\ sent.ip = r.ip /\ sent.addr = l.addr /\ sent.class = r.class
      /\ sent.carried = IF r.ip = 4 THEN l.tos ELSE l.tclass
      /\ sent.from = IF r.source # "bound" THEN r.source
                     ELSE IF IsWildcard(l.addr) THEN RoutedSource ELSE l.addr.ip
  BY DEF OnWire
<1>3. sent.from = sent.to
  BY <1>1, <1>2, HostAssumption DEF ListenerSound, Replies
<1>4. sent.carried = IF sent.ip = 4 /\ Ipv4Unmarked(sent.addr) THEN 0 ELSE sent.class
  <2>1. Ipv4Unmarked(l.addr) <=> ~l.listener_is_ipv4
    BY <1>1 DEF IsGenuineIpv6, Ipv4Unmarked, MarksWithIpv4Option, Addresses
  <2>2. l.listener_is_ipv4 => ServesIpv4(l.addr)
    BY DEF MarksWithIpv4Option, ServesIpv4
  <2> HIDE DEF sent
  <2> QED BY <1>1, <1>2, <2>1, <2>2 DEF ListenerSound, Replies
<1> QED BY <1>3, <1>4

LEMMA ListenerStep ==
    ASSUME HostInv, NEW i \in DOMAIN listeners, ListenerNext(i)
    PROVE  HostInv'
<1> DEFINE l == listeners[i]
<1>1. listeners \in Seq(Listeners) /\ l \in Listeners /\ ListenerSound(l)
      /\ (l.phase = "done" <=> l.outcome # "none") /\ (l.outcome = "ok" => shutting_down)
  BY ListenerFacts
<1>2. ASSUME wire' = wire, host' = host PROVE RepliesAsPromised'
  BY <1>2 DEF HostInv, RepliesAsPromised, Ipv4Unmarked
<1>3. ASSUME NEW sent \in BOOLEAN, SendEnds(i, sent) PROVE HostInv'
  <2> DEFINE m == [l EXCEPT !.phase = "receiving", !.reply = {}]
  <2>1. listeners' = [listeners EXCEPT ![i] = m]
    BY <1>1, <1>3 DEF SendEnds
  <2>2. app = "running" /\ l.phase = "sending" /\ l.outcome = "none"
    BY <1>1, <1>3 DEF SendEnds, Active
  <2>3. /\ m \in Listeners /\ m.addr = l.addr /\ m.v6only = l.v6only /\ m.phase = "receiving"
        /\ m.listener_is_ipv4 = l.listener_is_ipv4 /\ m.outcome = "none" /\ ListenerSound(m)
    BY <1>1, <2>2 DEF Listeners, ListenerSound
  <2>4. RepliesAsPromised'
    <3>1. CASE sent
      <4>1. wire' = {OnWire(l, r) : r \in l.reply}
        BY <1>3, <3>1 DEF SendEnds
      <4>2. l.listener_is_ipv4 <=> MarksWithIpv4Option(l.addr)
        BY DEF HostInv, BoundInv
      <4>3. host' = host
        BY <1>3 DEF SendEnds
      <4> HIDE DEF l
      <4>4. \A reply \in wire' :
              /\ reply.from = reply.to
              /\ reply.carried = IF reply.ip = 4 /\ Ipv4Unmarked(reply.addr) THEN 0
                                 ELSE reply.class
        BY <1>1, <4>1, <4>2, OnWireAsPromised
      <4> QED BY <4>3, <4>4 DEF RepliesAsPromised, Ipv4Unmarked
    <3>2. CASE ~sent
      BY <1>2, <1>3, <3>2 DEF SendEnds
    <3> QED BY <3>1, <3>2
  <2> HIDE DEF m
  <2> QED BY <1>3, <2>1, <2>2, <2>3, <2>4, ListenerReplaced DEF SendEnds
<1>4. ASSUME NEW outcome \in {"ok", "error", "panic"}, Active(i), Ends(i, outcome),
             outcome = "ok" => shutting_down
      PROVE  HostInv'
  <2> DEFINE m == [l EXCEPT !.phase = "done", !.outcome = outcome, !.reply = {}]
  <2>1. listeners' = [listeners EXCEPT ![i] = m]
    BY <1>1, <1>4 DEF Ends
  <2>2. /\ m \in Listeners /\ m.addr = l.addr /\ m.v6only = l.v6only /\ m.phase = "done"
        /\ m.listener_is_ipv4 = l.listener_is_ipv4 /\ m.outcome = outcome /\ ListenerSound(m)
    BY <1>1 DEF Listeners, ListenerSound
  <2>3. RepliesAsPromised'
    BY <1>2, <1>4 DEF Ends
  <2> HIDE DEF m
  <2> QED BY <1>4, <2>1, <2>2, <2>3, ListenerReplaced DEF Ends, Active
<1>5. CASE ListenerShutdown(i) \/ ListenerFails(i) \/ ListenerPanics(i)
  BY <1>4, <1>5 DEF ListenerShutdown, ListenerFails, ListenerPanics
<1> QED BY <1>3, <1>5, ServeStep DEF ListenerNext

(***************************************************************************)
(* Supervision                                                              *)
(***************************************************************************)
LEMMA JoinStep ==
    ASSUME HostInv, NEW i \in DOMAIN listeners, Join(i)
    PROVE  HostInv'
<1> DEFINE found == ListenerFailure(i)
<1>1. /\ app = "running" /\ listeners[i].phase = "done" /\ i \notin joined
      /\ joined' = joined \cup {i} /\ failure' = FirstFailure(found)
      /\ shutting_down' = ShutsDown(found)
      /\ app' = IF joined' # DOMAIN listeners THEN app
                ELSE IF failure' = {} THEN "ok" ELSE "failed"
      /\ UNCHANGED <<host, implicit, request, listeners, signal, faults, wire>>
  BY DEF Join
<1>2. /\ listeners[i].outcome \in {"ok", "error", "panic"}
      /\ listeners[i].outcome = "ok" => shutting_down
  BY <1>1, ListenerFacts DEF Listeners
<1>3. /\ listeners[i].outcome = "ok" => found = {}
      /\ listeners[i].outcome # "ok" => \E f : found = {f} /\ f.listener = i
  <2>1. CASE listeners[i].outcome = "ok"
    BY <1>2, <2>1 DEF ListenerFailure
  <2>2. CASE listeners[i].outcome = "error"
    <3>1. found = {[kind |-> "ListenerRun", listener |-> i]}
      BY <2>2 DEF ListenerFailure
    <3>2. [kind |-> "ListenerRun", listener |-> i].listener = i
      OBVIOUS
    <3> QED BY <2>2, <3>1, <3>2, Zenon
  <2>3. CASE listeners[i].outcome = "panic"
    <3>1. found = {[kind |-> "ListenerTask", listener |-> i]}
      BY <2>3 DEF ListenerFailure
    <3>2. [kind |-> "ListenerTask", listener |-> i].listener = i
      OBVIOUS
    <3> QED BY <2>3, <3>1, <3>2, Zenon
  <2> QED BY <1>2, <2>1, <2>2, <2>3
<1> HIDE DEF found
<1>4. JoinInv'
  <2>1. failure' = {} <=> \A j \in joined' : listeners[j].outcome = "ok"
    BY <1>1, <1>3 DEF HostInv, JoinInv, FirstFailure
  <2>2. \A f \in failure' : f.listener \in joined' /\ listeners[f.listener].outcome # "ok"
    BY <1>1, <1>3 DEF HostInv, JoinInv, FirstFailure
  <2>3. shutting_down => shutting_down'
    BY <1>1 DEF ShutsDown
  <2>4. shutting_down' => signal' \/ failure' # {}
    BY <1>1 DEF HostInv, JoinInv, FirstFailure, ShutsDown
  <2> QED BY <1>1, <2>1, <2>2, <2>3, <2>4 DEF HostInv, JoinInv
<1>5. HostTyped' /\ MarkInv' /\ RepliesAsPromised'
  BY <1>1 DEF HostInv, HostTyped, MarkInv, RepliesAsPromised, Ipv4Unmarked
<1>6. BoundInv' /\ RequestInv'
  BY <1>1 DEF HostInv, BoundInv, RequestInv, AddressFamilyAvailable, NeedsIpv6Only,
       MarksWithIpv4Option
<1>7. RefusesForCause'
  BY <1>1 DEF RefusesForCause
<1> QED BY <1>4, <1>5, <1>6, <1>7 DEF HostInv

LEMMA SignalStep ==
    ASSUME HostInv, SignalArrives \/ ShutdownRequested \/ UNCHANGED vars
    PROVE  HostInv'
<1>1. UNCHANGED <<host, implicit, request, listeners, app, failure, joined, faults, wire>>
  BY DEF SignalArrives, ShutdownRequested, vars
<1>2. (signal => signal') /\ (shutting_down => shutting_down') /\ (shutting_down' => shutting_down \/ signal')
  BY DEF SignalArrives, ShutdownRequested, vars
<1>3. HostTyped' /\ MarkInv' /\ RepliesAsPromised' /\ RefusesForCause'
  BY <1>1 DEF HostInv, HostTyped, MarkInv, RepliesAsPromised, RefusesForCause, Asked, Missing,
       AddressFamilyAvailable, Ipv4Unmarked
<1>4. BoundInv' /\ RequestInv'
  BY <1>1 DEF HostInv, BoundInv, RequestInv, AddressFamilyAvailable, NeedsIpv6Only,
       MarksWithIpv4Option
<1>5. JoinInv'
  BY <1>1, <1>2 DEF HostInv, JoinInv
<1> QED BY <1>3, <1>4, <1>5 DEF HostInv

(* The inductive invariant of the process: of its binding (ServerSet::bind,   *)
(* serve), of each listener's marking (Server::run, the reply's traffic       *)
(* class) and of the supervision (ServerSet::run).                             *)
THEOREM HostInvariant == Spec => []HostInv
<1>1. HostInv /\ [Next]_vars => HostInv'
  BY BindStep, ListenerStep, JoinStep, SignalStep DEF Next
<1> QED BY <1>1, HostInitially, PTL DEF Spec

(* For any bind list and host, a reply leaves from the address its request    *)
(* was sent to and under its own traffic class (prepare_reply_traffic_class,  *)
(* marks_with_ipv4_option, Server::run): a class an earlier reply left on the *)
(* socket never leaks, and a class is lost only to an IPv4 peer of a          *)
(* dual-stack socket or, off Linux, of an IPv4-mapped bind.                    *)
THEOREM RepliesAlwaysAsPromised == Spec => []RepliesAsPromised
<1>1. HostInv => RepliesAsPromised
  BY DEF HostInv
<1> QED BY <1>1, HostInvariant, PTL

(* Any set of listeners starts whole or refuses for a cause, and ends         *)
(* together with the end it reports (ServerSet::bind, ServerSet::run,         *)
(* implicit_default_fallback).                                                 *)
THEOREM SetAlwaysStandsTogether == Spec => []SetStandsTogether
<1>1. HostInv => StartsWhole
  <2> SUFFICES ASSUME HostInv, app \in {"running", "ok"} PROVE StartsWhole
    BY DEF StartsWhole
  <2> DEFINE bound == [i \in DOMAIN listeners |-> listeners[i].addr]
  <2>1. bound = request
    BY DEF HostInv, HostTyped, BoundInv
  <2>2. CASE request = Asked
    BY <2>1, <2>2 DEF StartsWhole
  <2>3. CASE request # Asked
    <3>1. PICK i \in {1, 2} : /\ ~AddressFamilyAvailable(DefaultBinds[i])
                              /\ request = <<DefaultBinds[3 - i]>>
      BY <2>3 DEF HostInv, RequestInv, Asked
    <3>2. implicit /\ Asked = DefaultBinds
      BY <2>3 DEF Asked
    <3>3. bound = RemoveAt(Asked, i) /\ i \in DOMAIN Asked
      BY <2>1, <3>1, <3>2, PairWithoutHalf, DefaultsTyped
    <3>4. \A j \in DOMAIN bound : ~Missing(bound[j])
      BY <2>1 DEF HostInv, BoundInv, Missing
    <3> QED BY <3>1, <3>2, <3>3, <3>4 DEF StartsWhole, Missing
  <2> QED BY <2>2, <2>3
<1>2. HostInv => EndsTogether
  <2> SUFFICES ASSUME HostInv, app \in {"ok", "failed"}, listeners # <<>> PROVE EndsTogether
    BY DEF EndsTogether
  <2>1. joined = DOMAIN listeners /\ (app = "ok" <=> failure = {})
    BY DEF HostInv, JoinInv
  <2>2. 1 \in DOMAIN listeners
    BY DEF HostInv, HostTyped
  <2>3. app = "ok" => signal
    BY <2>1, <2>2 DEF HostInv, JoinInv
  <2>4. (app = "ok") = (\A i \in DOMAIN listeners : listeners[i].outcome = "ok")
    BY <2>1 DEF HostInv, JoinInv
  <2> QED BY <2>1, <2>3, <2>4 DEF HostInv, JoinInv, EndsTogether
<1>3. HostInv => SetStandsTogether
  BY <1>1, <1>2 DEF HostInv, SetStandsTogether
<1> QED BY <1>3, HostInvariant, PTL
=============================================================================
