----------------------------- MODULE Negotiation -----------------------------
(* What a session is agreed to be: the parameters a client asks for           *)
(* (irtt-client: session/machine.rs), what the server makes of them           *)
(* (irtt-server: negotiate.rs, fill.rs, core.rs) and what the client makes of *)
(* the answer (irtt-client: session/negotiation.rs).  Pure functions; options *)
(* are sets of at most one value, durations count ticks for nanoseconds.      *)
EXTENDS Wire

CONSTANTS
  MaxDscp,         \* 63: MAX_DSCP_CODEPOINT
  MaxLength        \* MAX_UDP_PAYLOAD_LENGTH

ASSUME NegotiationAssumption ==
  /\ MaxDscp \in Nat /\ MaxLength \in Nat
  /\ 4 * MaxDscp <= MaxInt /\ MaxLength <= MaxInt

ProtocolVersion == 1
MaxClass == 4 * MaxDscp + 3       \* 255: a traffic class is one byte

(***************************************************************************)
(* The client's request                                                     *)
(***************************************************************************)
(* validate_request, and the conversions to wire nanoseconds that may fail.   *)
ValidRequest(r) ==
  /\ \A d \in r.duration : d # 0 /\ d <= MaxInt
  /\ r.interval # 0 /\ r.interval <= MaxInt
  /\ r.clock # Unspecified
  /\ r.dscp <= MaxDscp
  /\ r.length <= MaxLength
  /\ \A f \in r.fill : Len(f) \in 1 .. MaxFillBytes

ParamsFromRequest(r) ==
  [version |-> ProtocolVersion,
   duration |-> IF r.duration = {} THEN 0 ELSE CHOOSE d \in r.duration : TRUE,
   interval |-> r.interval, length |-> r.length,
   stats |-> r.stats, stampAt |-> r.stampAt, clock |-> r.clock,
   dscp |-> 4 * r.dscp, fill |-> r.fill]

(***************************************************************************)
(* The server's answer                                                      *)
(***************************************************************************)
(* A ServerConfig: key, maxLength, maxDuration (an option), minInterval,      *)
(* idleTimeout, allowance and dscpAllowed.                                     *)
Saturated(d) == IF d > MaxInt THEN MaxInt ELSE d

RestrictDuration(requested, c) ==
  IF \E m \in c.maxDuration : requested = 0 \/ requested > Saturated(m)
  THEN Saturated(CHOOSE m \in c.maxDuration : TRUE) ELSE requested

(* Floor first, cap second; the quarter is taken before the conversion.       *)
RestrictInterval(requested, c) ==
  LET floored == Larger(requested, Saturated(c.minInterval))
      cap == Saturated(c.idleTimeout \div 4)
  IN  IF cap > 0 /\ floored > cap THEN cap ELSE floored

RestrictStampAt(requested, allowance) ==
  CASE allowance = "dual" -> requested
    [] allowance = "single" -> IF requested = StampBoth THEN StampMidpoint ELSE requested
    [] allowance = "none" -> StampNone

NegotiateParams(p, c) ==
  [p EXCEPT !.version = ProtocolVersion,
            !.length = IF @ > c.maxLength THEN c.maxLength ELSE @,
            !.duration = RestrictDuration(@, c),
            !.interval = RestrictInterval(@, c),
            !.stampAt = RestrictStampAt(@, c.allowance),
            !.dscp = IF c.dscpAllowed THEN @ ELSE 0]

(* Fill descriptors, each name and prefix abbreviated to a letter and the     *)
(* hexadecimal digits to two.                                                  *)
NoneName == <<1>>
RandName == <<2>>
PatternPrefix == 3
HexDigit == [b \in {4, 5} |-> b - 4]
DefaultPattern == <<1>>
DefaultDescriptor == <<PatternPrefix, 4, 5>>

IsPattern(d) ==
  /\ Len(d) > 1 /\ d[1] = PatternPrefix /\ Len(d) % 2 = 1
  /\ \A i \in 2 .. Len(d) : d[i] \in DOMAIN HexDigit

IsFill(d) == d \in {NoneName, RandName} \/ IsPattern(d)

(* FillMode::parse of a well-formed descriptor.                               *)
ParseFill(d) ==
  IF d = NoneName THEN [mode |-> "none", pattern |-> <<>>]
  ELSE IF d = RandName THEN [mode |-> "random", pattern |-> <<>>]
  ELSE [mode |-> "pattern",
        pattern |-> [i \in 1 .. (Len(d) - 1) \div 2 |->
                       16 * HexDigit[d[2 * i]] + HexDigit[d[2 * i + 1]]]]

DefaultFill == [mode |-> "pattern", pattern |-> DefaultPattern]

(* Mutant: a client without a preference is told the default.                  *)
NegotiateFillNamed(fill) ==
  IF \E d \in fill : IsFill(d)
  THEN [fill |-> fill, mode |-> ParseFill(CHOOSE d \in fill : TRUE)]
  ELSE [fill |-> {DefaultDescriptor}, mode |-> DefaultFill]

(* An absent or empty descriptor is left as it came; one that names nothing   *)
(* is replaced.                                                                *)
NegotiateServerFill(fill) ==
  IF fill \subseteq {<<>>} THEN [fill |-> fill, mode |-> DefaultFill]
  ELSE IF \E d \in fill : IsFill(d)
  THEN [fill |-> fill, mode |-> ParseFill(CHOOSE d \in fill : TRUE)]
  ELSE [fill |-> {DefaultDescriptor}, mode |-> DefaultFill]

(* open_params_are_admissible: absent is the default, explicit must be        *)
(* positive.                                                                   *)
OpenParamsAdmissible(decoded) ==
  /\ 2 \in decoded.presence => decoded.params.duration > 0
  /\ 3 \in decoded.presence => decoded.params.interval > 0

(* Mutant: the cap on the length is taken to bound the packet.                 *)
LengthAdmissible(p, c) ==
  /\ ~(p.stampAt # StampNone /\ p.clock = Unspecified)
  /\ p.length <= c.maxLength

NegotiatedAdmissible(p, c) ==
  /\ ~(p.stampAt # StampNone /\ p.clock = Unspecified)
  /\ EchoPacketLen(c.key # {}, p) <= c.maxLength

(* handle_open as far as the session: the parameters and fill it will have,   *)
(* or nothing when the open is dropped.                                        *)
Offer(body, c) ==
  LET admissible == { d \in DecodeWithPresence(body) : OpenParamsAdmissible(d) }
      settled == { NegotiateParams(d.params, c) : d \in admissible }
      filled(p) == { [params |-> [p EXCEPT !.fill = f.fill], fill |-> f.mode] :
                       f \in {NegotiateServerFill(p.fill)} }
  IN  { o \in UNION { filled(p) : p \in settled } : NegotiatedAdmissible(o.params, c) }

TransportTrafficClass(p) == IF p.dscp \in 0 .. MaxClass THEN p.dscp ELSE 0

(***************************************************************************)
(* The client's verdict                                                     *)
(***************************************************************************)
ValidDurationRestriction(requested, returned) ==
  /\ returned >= 0
  /\ requested > 0 => returned # 0 /\ returned <= requested

(* What negotiate_params refuses under any policy.                            *)
WithinRequest(requested, returned) ==
  /\ returned.version = ProtocolVersion
  /\ ValidDurationRestriction(requested.duration, returned.duration)
  /\ returned.length >= 0 /\ returned.length <= requested.length
  /\ returned.interval > 0
  /\ returned.dscp \in {0, requested.dscp} /\ returned.dscp <= MaxClass

(* The parameters record_change is called for, in a verdict it is called with *)
(* at all; an interval may change either way.                                 *)
Changes(requested, returned) ==
  { f \in {"duration"} : \/ returned.duration < requested.duration
                         \/ requested.duration = 0 /\ returned.duration > 0 }
    \cup { f \in {"interval", "length", "stats", "stampAt", "clock", "dscp"} :
             returned[f] # requested[f] }
    \cup { f \in {"fill"} : returned.fill # requested.fill }

ClientAccepts(requested, returned, policy) ==
  /\ WithinRequest(requested, returned)
  /\ policy = "strict" => Changes(requested, returned) = {}

(* AcceptedSessionParameters: the codepoint again, and continuous as none.    *)
Accepted(p) ==
  [duration |-> { d \in {p.duration} : d # 0 }, interval |-> p.interval,
   length |-> p.length, stats |-> p.stats, stampAt |-> p.stampAt, clock |-> p.clock,
   dscp |-> p.dscp \div 4, fill |-> p.fill]
=============================================================================
