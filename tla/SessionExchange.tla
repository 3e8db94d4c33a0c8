--------------------------- MODULE SessionExchange ---------------------------
(* One session from the request to the first measurement, over the wire: the  *)
(* client validates and encodes an open, the server decodes, negotiates and   *)
(* answers, the client judges the answer, sends an echo, and reads the reply. *)
(* The other end may be another implementation: a client whose open carries   *)
(* any parameters, or upstream irtt 0.9.1 answering in its own echo form.     *)
EXTENDS EchoTiming

CONSTANTS
  Cases,           \* what a run starts from, in families: clients, configurations, clocks
  Tokens,          \* the tokens the server may draw, none of them 0
  MinRecvBuffer    \* MIN_RECV_BUFFER_SIZE, in words

ASSUME ExchangeAssumption == Tokens \subseteq Nat \ {0} /\ MinRecvBuffer \in Nat

VARIABLES
  case,            \* [client, config, clocks], of one of the families of Cases
  stage,           \* how far the exchange has come
  packet,          \* the datagram in flight
  session,         \* the server's session: params and fill, an option
  agreed,          \* the client's negotiated peer_params, an option
  reply,           \* history: the echo reply as the server meant it
  read             \* the echo reply as the client read it, and its measurement

vars == <<case, stage, packet, session, agreed, reply, read>>

client == case.client
config == case.config
clocks == case.clocks
Nothing == [ok |-> FALSE]
Seq1 == 1
NoPacket == Sealed({}, {}, <<>>)

Init ==
  /\ \E family \in Cases :
       case \in [client : family.clients, config : family.configs, clocks : family.clocks]
  /\ stage = "start" /\ packet = NoPacket
  /\ session = {} /\ agreed = {} /\ reply = Nothing /\ read = Nothing

Requested == ParamsFromRequest(client.request)

(***************************************************************************)
(* The open                                                                 *)
(***************************************************************************)
(* validate_config refuses the request, or prepare_open_request encodes it.   *)
ClientOpens ==
  /\ stage = "start" /\ client.kind = "irtt-rs"
  /\ IF ValidRequest(client.request)
     THEN /\ stage' = "asked"
          /\ packet' = EncodeOpen(Requested, client.noTest, client.key)
     ELSE stage' = "refused" /\ UNCHANGED packet
  /\ UNCHANGED <<case, session, agreed, reply, read>>

(* Another client: its open carries tags and values of its own, each encoded  *)
(* even when zero, in any order and repeated, and may end in bytes that are   *)
(* no tag with its value.                                                      *)
ForeignOpens ==
  /\ stage = "start" /\ client.kind = "foreign"
  /\ stage' = "asked"
  /\ packet' = Sealed({"open"}, client.key, FlattenSeq(
       [i \in DOMAIN client.entries |->
          EncodeUvarint(client.entries[i][1])
            \o EncodeUvarint(ZigzagEncode(client.entries[i][2]))]) \o client.tail)
  /\ UNCHANGED <<case, session, agreed, reply, read>>

(* process and handle_open: an unauthenticated or inadmissible open is        *)
(* dropped, a no-test one creates no session.                                  *)
ServerOpens ==
  LET offer == Offer(packet.body, config)
      noTest == "close" \in packet.flags
  IN  /\ stage = "asked" /\ RequestKind(packet) = "open"
      /\ IF ~Trusted(packet, config.key) \/ offer = {}
         THEN stage' = "silent" /\ UNCHANGED <<packet, session>>
         ELSE \E o \in offer, token \in IF noTest THEN {0} ELSE Tokens :
                /\ stage' = "answered"
                /\ session' = IF noTest THEN {} ELSE {[token |-> token, params |-> o.params, fill |-> o.fill]}
                /\ packet' = EncodeOpenReply({"open", "reply"} \cup
                               (IF noTest THEN {"close"} ELSE {}), token, o.params, config.key)
      /\ UNCHANGED <<case, agreed, reply, read>>

(* inspect_open_datagram and prepare_open_acceptance.                         *)
ClientJudges ==
  LET returned == DecodeWithPresence(SubSeq(packet.body, TokenSize + 1, Len(packet.body)))
      closed == "close" \in packet.flags
      token == packet.body[1][2]
      accepted == { r \in returned :
                      /\ Trusted(packet, client.key)
                      /\ client.noTest = closed /\ closed = (token = 0)
                      /\ ClientAccepts(Requested, r.params, client.policy) }
  IN  /\ stage = "answered" /\ client.kind = "irtt-rs"
      /\ agreed' = { [token |-> token, params |-> r.params] : r \in accepted }
      /\ stage' = IF agreed' = {} THEN "rejected" ELSE IF closed THEN "noTest" ELSE "open"
      /\ UNCHANGED <<case, packet, session, reply, read>>

(***************************************************************************)
(* The echo                                                                 *)
(***************************************************************************)
(* prepare_probe: a datagram of the negotiated length, with no payload.       *)
ClientProbes ==
  /\ stage = "open"
  /\ \E a \in agreed : packet' = EncodeEcho(a.token, Seq1, a.params, client.key)
  /\ stage' = "probed"
  /\ UNCHANGED <<case, session, agreed, reply, read>>

(* Another client knows the token and sends the least an echo may be.         *)
ForeignProbes ==
  /\ stage = "answered" /\ client.kind = "foreign"
  /\ \E s \in session :
       packet' = Sealed({}, client.key, Words(TokenSize, s.token) \o Words(SeqSize, Seq1))
  /\ stage' = "probed"
  /\ UNCHANGED <<case, session, agreed, reply, read>>

(* FillMode::payload; a byte stands for a word, random bytes for a letter.    *)
Payload(fill, len) ==
  CASE fill.mode = "none" -> <<>>
    [] fill.mode = "random" -> [i \in 1 .. len |-> <<0, "random">>]
    [] fill.mode = "pattern" ->
         [i \in 1 .. len |-> <<0, fill.pattern[((i - 1) % Len(fill.pattern)) + 1]>>]

(* echo_payload_len                                                            *)
PayloadLen(hmac, p) == EchoPacketLen(hmac, p) - EchoHeaderLen(hmac, p)

(* What handle_echo answers: statistics, stamps and fill of the session.      *)
ReplyOf(s) ==
  LET stamps == TimestampFields(s.params, clocks.arrived, clocks.sent,
                  PreferredReceiveWall(clocks.arrivedKernel, clocks.arrived.wall))
  IN  [flags |-> {"reply"}, token |-> s.token, seq |-> Seq1,
       fields |-> [f \in ToSet(EchoFields) |->
                     IF f = "recvCount" THEN IF HasCount(s.params.stats) THEN Words(1, 1) ELSE <<>>
                     ELSE IF f = "recvWindow" THEN IF HasWindow(s.params.stats) THEN Words(2, 1) ELSE <<>>
                     ELSE stamps[f]],
       payload |-> Payload(s.fill, PayloadLen(config.key # {}, s.params))]

Oversized(d) == LenOf(d) > config.maxLength

ServerEchoes ==
  /\ stage = "probed"
  /\ IF \/ RequestKind(packet) # "echo" \/ ~Trusted(packet, config.key) \/ Oversized(packet)
        \/ ~\E s \in session : SubSeq(packet.body, 1, TokenSize) = Words(TokenSize, s.token)
     THEN stage' = "dropped" /\ UNCHANGED <<packet, reply>>
     ELSE \E s \in session : \E answer \in {ReplyOf(s)} :
            LET encoded == EncodeEchoReply(answer, s.params, config.key) IN
            IF encoded = {} THEN stage' = "failed" /\ UNCHANGED <<packet, reply>>
            ELSE stage' = "echoed" /\ packet' \in encoded /\ reply' = answer
  /\ UNCHANGED <<case, session, agreed, read>>

(* Upstream irtt 0.9.1 sends both midpoints, wall then monotonic, even when   *)
(* one clock was negotiated: the session's layout with one field more.        *)
UpstreamEchoes ==
  /\ stage = "probed" /\ client.kind = "irtt-rs"
  /\ \E s \in session :
       LET both == [s EXCEPT !.params.clock = 3] IN
       /\ IsMidpointSingleClock(s.params)
       /\ Trusted(packet, config.key)
       /\ stage' = "echoed" /\ reply' = ReplyOf(both)
       /\ packet' \in EncodeEchoReply(reply', both.params, config.key)
  /\ UNCHANGED <<case, session, agreed, read>>

(* A datagram read into a buffer of recv_buffer_size is cut at its end; the   *)
(* buffer is larger than the negotiated packet, so a longer one shows.        *)
RecvBufferSize(p) == Larger(EchoPacketLen(client.key # {}, p) + 1, MinRecvBuffer)

Received(d, p) ==
  [d EXCEPT !.body = SubSeq(@, 1, Lesser(Len(@), RecvBufferSize(p) - EnvelopeSize("hmac" \in d.flags)))]

ClientReads ==
  /\ stage = "echoed" /\ client.kind = "irtt-rs"
  /\ \E a \in agreed :
       LET decoded == { d \in DecodeEchoReply(Received(packet, a.params), a.params, client.key) :
                          d.token = Words(TokenSize, a.token) } IN
       IF decoded = {} THEN stage' = "unread" /\ UNCHANGED read
       ELSE \E d \in decoded : \E stamps \in {StampsOf(d.fields)} :
              /\ stage' = "measured"
              /\ read' = [reply |-> d,
                          sample |-> Measure(stamps, clocks.floor,
                            clocks.departed, clocks.departedKernel,
                            clocks.returned, clocks.returnedKernel)]
  /\ UNCHANGED <<case, packet, session, agreed, reply>>

Next ==
  \/ ClientOpens \/ ForeignOpens \/ ServerOpens \/ ClientJudges
  \/ ClientProbes \/ ForeignProbes \/ ServerEchoes \/ UpstreamEchoes \/ ClientReads

Spec == Init /\ [][Next]_vars

(***************************************************************************)
(* Properties                                                               *)
(***************************************************************************)
SameKey == client.key = config.key
Ours == client.kind = "irtt-rs"

(* The configuration has nothing against any part of the request.             *)
Honourable ==
  LET cap == config.idleTimeout \div 4
      i == Requested.interval
  IN  /\ \A m \in config.maxDuration : Requested.duration \in 1 .. m
      /\ i >= config.minInterval \/ i = cap
      /\ cap = 0 \/ i <= cap
      /\ Requested.length <= config.maxLength
      /\ \/ config.allowance = "dual" \/ Requested.stampAt = StampNone
         \/ config.allowance = "single" /\ Requested.stampAt # StampBoth
      /\ config.dscpAllowed \/ Requested.dscp = 0
      /\ \A f \in Requested.fill : IsFill(f)

(* A valid request with the right key is left unanswered only when not even   *)
(* an empty echo would fit max_packet_length; a Loose client rejects no       *)
(* answer of this server, and a Strict client opens exactly when the          *)
(* configuration has nothing against the request: the server neither hides a  *)
(* restriction nor makes one up (negotiate.rs and fill.rs against             *)
(* session/negotiation.rs: negotiate_params).                                  *)
ComesToTerms ==
  Ours /\ SameKey =>
    /\ stage = "silent" =>
         EchoHeaderLen(config.key # {}, NegotiateParams(Requested, config)) > config.maxLength
    /\ stage = "rejected" => client.policy = "strict" /\ ~Honourable
    /\ agreed # {} /\ client.policy = "strict" => Honourable

(* Both ends of an open session hold the same parameters, whatever the wire   *)
(* left out as a default, and what the client reports to have accepted is no  *)
(* more than it asked for; another client's open means the last value of each *)
(* tag, a negative length included, and one that ends in a truncated or       *)
(* overflowing integer, or in a fill that is cut short, too long or no text,  *)
(* creates no session (params.rs: decode_with_presence).                      *)
SidesAgree ==
  /\ \A a \in agreed, s \in session :
       /\ a = [token |-> s.token, params |-> s.params]
       /\ Accepted(a.params).length <= client.request.length
       /\ Accepted(a.params).dscp \in {0, client.request.dscp}
       /\ TransportTrafficClass(s.params) = a.params.dscp
       /\ client.request.duration # {} => Accepted(a.params).duration # {}
  /\ ~Ours => \A s \in session :
       /\ client.tail = <<>>
       /\ \A i \in DOMAIN client.entries :
            LET e == client.entries[i] IN
            e[1] = 4 /\ (\A j \in DOMAIN client.entries : j > i => client.entries[j][1] # 4)
              => s.params.length = Lesser(e[2], config.maxLength)

(* A session the server acknowledged, whoever asked for it and with whatever  *)
(* parameters, is one it can serve: the client's own probe is not oversized,  *)
(* the reply encodes, and it fits max_packet_length (core.rs:                 *)
(* negotiated_params_are_admissible against handle_echo).                     *)
SessionsServable ==
  /\ SameKey => stage \notin {"dropped", "failed"}
  /\ \A s \in session :
       stage \in {"echoed", "measured"} /\ reply = ReplyOf(s) => LenOf(packet) <= config.maxLength

(* The form of an upstream single-clock midpoint that no length tells apart.  *)
Ambiguous(p) ==
  /\ IsMidpointSingleClock(p)
  /\ \E f \in {"midpointWall", "midpointMono"} : reply.fields[f] # <<>> /\ ~HasField(p, f)
  /\ EchoPacketLen(config.key # {}, p) >= EchoHeaderLen(config.key # {}, p) + StampSize

(* Every reply is readable and every field is read from where it was written, *)
(* in this server's form and in that of upstream 0.9.1; only an upstream      *)
(* monotonic midpoint whose packet is no longer than negotiated is taken for  *)
(* its wall value (echo.rs: decode_echo_reply).                               *)
RepliesReadable ==
  /\ stage # "unread"
  /\ stage = "measured" => \A a \in agreed :
       /\ ~Ambiguous(a.params) =>
            /\ \A f \in ToSet(EchoFields) :
                 HasField(a.params, f) => read.reply.fields[f] = reply.fields[f]
            /\ Padded(reply.payload, Len(read.reply.payload)) = read.reply.payload
       /\ a.params.clock # 2 => \A f \in ToSet(EchoFields) :
                 HasField(a.params, f) => read.reply.fields[f] = reply.fields[f]

(* A reply never claims to have left before it arrived, however the wall      *)
(* clock was set between the readings and whatever the kernel reported        *)
(* (core.rs: timestamp_fields), and with monotonic stamps the client's        *)
(* adjusted round trip is not negative.                                       *)
StampsOrdered ==
  /\ stage = "echoed" =>
       \A x \in StampsOf(reply.fields).recvWall, y \in StampsOf(reply.fields).sendWall : x <= y
  /\ stage = "measured" =>
       \A a \in agreed : HasMono(a.params.clock) =>
         \A d \in read.sample.adjusted : d >= 0

(* While both wall clocks run undisturbed, a reported one-way delay, freed of *)
(* the clocks' offset, is neither negative nor longer than the exchange: an   *)
(* implausible kernel timestamp never reaches it (machine.rs:                 *)
(* preferred_send_wall and metadata.rs: preferred_receive_wall).              *)
DelaysCausal ==
  stage = "measured" /\ clocks.steady /\ (\A a \in agreed : ~Ambiguous(a.params)) =>
    LET whole == clocks.returned.wall - clocks.floor IN
    /\ \A d \in read.sample.c2s : d - clocks.offset \in 0 .. whole
    /\ \A d \in read.sample.s2c : d + clocks.offset \in 0 .. whole

(* What was agreed can be served and what is served can be read: no session   *)
(* is acknowledged whose replies do not fit, and every reply is read as it    *)
(* was written (core.rs: handle_echo, echo.rs: decode_echo_reply).            *)
RepliesServeTheClient == SessionsServable /\ RepliesReadable

(* Time runs forward in what is reported, whatever the clocks did and the     *)
(* kernel claimed, on the server's side and on the client's (core.rs:         *)
(* timestamp_fields, machine.rs: preferred_send_wall).                        *)
TimingCausal == StampsOrdered /\ DelaysCausal
=============================================================================
