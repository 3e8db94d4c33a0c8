-------------------------------- MODULE Wire --------------------------------
(* The wire codec (irtt-proto): variable-length integers, the tagged open     *)
(* parameters, the negotiated layout of an echo packet and the envelope with  *)
(* its message authentication code.  Field sizes are in words of four bytes,  *)
(* and the widths of limbs and integers are parameters; what a field holds is *)
(* kept, so that reading at a wrong offset yields a wrong value.              *)
EXTENDS Integers, SequencesExt, FiniteSetsExt

CONSTANTS
  LimbBits,        \* 7: payload bits of one byte of a varint
  IntBits,         \* 64: bits of a wire integer
  MaxFillBytes     \* MAX_SERVER_FILL_BYTES

ASSUME WireAssumption ==
  /\ LimbBits \in Nat \ {0} /\ IntBits \in Nat /\ IntBits > LimbBits
  /\ MaxFillBytes \in Nat

MaxInt == 2^(IntBits - 1) - 1
MinInt == -(2^(IntBits - 1))

(***************************************************************************)
(* Variable-length integers                                                 *)
(***************************************************************************)
Limb == 2^LimbBits
MaxLimbs == (IntBits + LimbBits - 1) \div LimbBits
TopLimb == 2^(IntBits - LimbBits * (MaxLimbs - 1)) - 1   \* what the last may hold

EncodeUvarint(v) ==
  LET n == Min({ k \in 1 .. MaxLimbs : v < Limb^k })
  IN  [i \in 1 .. n |-> ((v \div Limb^(i - 1)) % Limb) + (IF i < n THEN Limb ELSE 0)]

(* Mutant: what the last limb holds beyond the integer is cut off.            *)
DecodeTruncating(input) ==
  { [used |-> n, value |-> MapThenSumSet(LAMBDA i : (input[i] % Limb) * Limb^(i - 1), 1 .. n)
                             % 2^IntBits] :
      n \in { k \in (1 .. Len(input)) \cap (1 .. MaxLimbs) :
                input[k] < Limb /\ \A i \in 1 .. k - 1 : input[i] >= Limb } }

(* What a decoder reads is an option: used counts the bytes taken.  A          *)
(* continued last limb, or one that holds more than the integer has room for,  *)
(* is an overflow and gives nothing.                                           *)
DecodeUvarint(input) ==
  { [used |-> n, value |-> MapThenSumSet(LAMBDA i : (input[i] % Limb) * Limb^(i - 1), 1 .. n)] :
      n \in { k \in (1 .. Len(input)) \cap (1 .. MaxLimbs) :
                /\ input[k] < Limb /\ \A i \in 1 .. k - 1 : input[i] >= Limb
                /\ k = MaxLimbs => input[k] <= TopLimb } }

ZigzagEncode(v) == IF v >= 0 THEN 2 * v ELSE -2 * v - 1

(* Mutant: the sign bit is not undone.                                         *)
Unzigzagged(u) == u \div 2

ZigzagDecode(u) == IF u % 2 = 0 THEN u \div 2 ELSE -(u \div 2) - 1

(***************************************************************************)
(* Params                                                                   *)
(***************************************************************************)
(* The integer parameters in the order of their tags, 1 to 8; tag 9 is the    *)
(* fill descriptor, an optional string: a set of at most one.                 *)
IntFields == <<"version", "duration", "interval", "length",
               "stats", "stampAt", "clock", "dscp">>
FillTag == 9

DefaultParams ==
  [version |-> 0, duration |-> 0, interval |-> 0, length |-> 0,
   stats |-> 0, stampAt |-> 0, clock |-> 0, dscp |-> 0, fill |-> {}]

(* ReceivedStats, StampAt and Clock by their wire values.                     *)
HasCount(stats) == stats \in {1, 3}
HasWindow(stats) == stats \in {2, 3}
StampNone == 0
StampSend == 1
StampReceive == 2
StampBoth == 3
StampMidpoint == 4
Unspecified == 0
HasWall(clock) == clock \in {1, 3}
HasMono(clock) == clock \in {2, 3}

(* push_int: zero is the wire default and leaves no tag.                      *)
PushInt(tag, value) ==
  IF value = 0 THEN <<>> ELSE EncodeUvarint(tag) \o EncodeUvarint(ZigzagEncode(value))

PushFill(value) == EncodeUvarint(FillTag) \o EncodeUvarint(Len(value)) \o value

EncodeParams(p) ==
  FlattenSeq([tag \in 1 .. 8 |-> PushInt(tag, p[IntFields[tag]])])
    \o (IF p.fill = {} THEN <<>> ELSE PushFill(CHOOSE f \in p.fill : TRUE))

(* TryFrom: an explicit clock of zero is as invalid as any other value.       *)
ValidInt(tag, value) ==
  CASE tag = 5 -> value \in 0 .. 3
    [] tag = 6 -> value \in 0 .. 4
    [] tag = 7 -> value \in 1 .. 3
    [] OTHER -> TRUE

(* str::from_utf8, for texts whose characters have one byte each: a byte with  *)
(* the top bit set is none.                                                    *)
IsText(bytes) == \A i \in DOMAIN bytes : bytes[i] < Limb

(* One tag with its value, at the start of the input.                         *)
ReadEntry(input) ==
  LET from(n) == SubSeq(input, n + 1, Len(input))
      entry(tag, value, used) ==
        IF tag = FillTag
        THEN { [tag |-> tag, used |-> used + n, value |-> {SubSeq(input, used + 1, used + n)}] :
                 n \in { k \in {value} : /\ k <= MaxFillBytes /\ used + k <= Len(input)
                                         /\ IsText(SubSeq(input, used + 1, used + k)) } }
        ELSE { [tag |-> tag, used |-> used, value |-> v] :
                 v \in { w \in {ZigzagDecode(value)} : ValidInt(tag, w) } }
  IN  UNION { UNION { entry(tag.value, read.value, tag.used + read.used) :
                        read \in DecodeUvarint(from(tag.used)) } :
              tag \in DecodeUvarint(input) }

(* decode_with_presence: the last value of a tag wins, an unknown tag is      *)
(* skipped, and the tags that appeared are remembered.                        *)
DecodeWithPresence(input) ==
  LET entries[pos \in 1 .. Len(input) + 1] ==
        IF pos > Len(input) THEN {<<>>}
        ELSE UNION { { <<e>> \o rest : rest \in entries[pos + e.used] } :
                     e \in ReadEntry(SubSeq(input, pos, Len(input))) }
      put(p, e) == IF e.tag = FillTag THEN [p EXCEPT !.fill = e.value]
                   ELSE IF e.tag \in 1 .. 8 THEN [p EXCEPT ![IntFields[e.tag]] = e.value]
                   ELSE p
  IN  { [params |-> FoldLeft(put, DefaultParams, found),
         presence |-> { found[i].tag : i \in DOMAIN found }] : found \in entries[1] }

(***************************************************************************)
(* The layout of an echo packet                                             *)
(***************************************************************************)
HeaderSize == 1
HmacSize == 4
TokenSize == 2
SeqSize == 1
StampSize == 2

EchoFields == <<"recvCount", "recvWindow", "recvWall", "recvMono",
                "midpointWall", "midpointMono", "sendWall", "sendMono">>
SizeOf(f) == IF f = "recvCount" THEN 1 ELSE 2

HasField(p, f) ==
  CASE f = "recvCount" -> HasCount(p.stats)
    [] f = "recvWindow" -> HasWindow(p.stats)
    [] f = "recvWall" -> p.stampAt \in {StampReceive, StampBoth} /\ HasWall(p.clock)
    [] f = "recvMono" -> p.stampAt \in {StampReceive, StampBoth} /\ HasMono(p.clock)
    [] f = "midpointWall" -> p.stampAt = StampMidpoint /\ HasWall(p.clock)
    [] f = "midpointMono" -> p.stampAt = StampMidpoint /\ HasMono(p.clock)
    [] f = "sendWall" -> p.stampAt \in {StampSend, StampBoth} /\ HasWall(p.clock)
    [] f = "sendMono" -> p.stampAt \in {StampSend, StampBoth} /\ HasMono(p.clock)

EchoLayout(p) == SelectSeq(EchoFields, LAMBDA f : HasField(p, f))

SizeOfAll(fields) == FoldLeft(LAMBDA n, f : n + SizeOf(f), 0, fields)
EnvelopeSize(hmac) == HeaderSize + (IF hmac THEN HmacSize ELSE 0)

EchoHeaderLen(hmac, p) ==
  EnvelopeSize(hmac) + TokenSize + SeqSize + SizeOfAll(EchoLayout(p))

Larger(a, b) == IF a >= b THEN a ELSE b

(* A floor the peer asked for, never below the mandatory fields.              *)
EchoPacketLen(hmac, p) == Larger(EchoHeaderLen(hmac, p), p.length)

(***************************************************************************)
(* The envelope                                                             *)
(***************************************************************************)
(* A key is optional, a set of at most one; the code over flags and body is   *)
(* symbolic.  The key decides the authentication flag whatever the caller set. *)
Sealed(flags, key, body) ==
  LET set == IF key = {} THEN flags \ {"hmac"} ELSE flags \cup {"hmac"}
  IN  [flags |-> set, mac |-> { <<k, set, body>> : k \in key }, body |-> body]

Trusted(d, key) ==
  /\ ("hmac" \in d.flags) = (key # {})
  /\ d.mac = { <<k, d.flags, d.body>> : k \in key }

LenOf(d) == EnvelopeSize("hmac" \in d.flags) + Len(d.body)

(***************************************************************************)
(* Packets                                                                  *)
(***************************************************************************)
(* A value spread over n words, and the word an encoder leaves blank.         *)
Words(n, value) == [i \in 1 .. n |-> <<i, value>>]
Blank == <<0, 0>>
Padded(words, n) == [i \in 1 .. Larger(n, Len(words)) |->
                       IF i <= Len(words) THEN words[i] ELSE Blank]

EncodeOpen(p, noTest, key) ==
  Sealed(IF noTest THEN {"open", "close"} ELSE {"open"}, key, EncodeParams(p))

EncodeEcho(token, seq, p, key) ==
  Sealed({}, key, Padded(Words(TokenSize, token) \o Words(SeqSize, seq),
                         EchoPacketLen(key # {}, p) - EnvelopeSize(key # {})))

EncodeOpenReply(flags, token, p, key) ==
  Sealed(flags, key, Words(TokenSize, token) \o EncodeParams(p))

(* DecodedRequest.kind: open wins over close, and over an echo-shaped body.   *)
RequestKind(d) ==
  IF "reply" \in d.flags THEN "none"
  ELSE IF "open" \in d.flags THEN "open"
  ELSE IF "close" \in d.flags THEN (IF Len(d.body) < TokenSize THEN "none" ELSE "close")
  ELSE IF Len(d.body) < TokenSize + SeqSize THEN "none" ELSE "echo"

(* A reply is [flags, token, seq, fields, payload]; fields gives each field   *)
(* its words, none when absent.  Every field of the layout must be there and  *)
(* no other, and the payload must fit.                                        *)
EncodeEchoReply(reply, p, key) ==
  LET header == EchoHeaderLen(key # {}, p)
      room == EchoPacketLen(key # {}, p) - header
  IN  IF \/ Len(reply.payload) > room
         \/ \E i \in DOMAIN EchoFields :
              (reply.fields[EchoFields[i]] # <<>>) # HasField(p, EchoFields[i])
      THEN {}
      ELSE {Sealed(reply.flags, key,
              Words(TokenSize, reply.token) \o Words(SeqSize, reply.seq)
                \o FlattenSeq([i \in DOMAIN EchoFields |-> reply.fields[EchoFields[i]]])
                \o Padded(reply.payload, room))}

(* A midpoint from exactly one clock: upstream irtt 0.9.1 then sends both     *)
(* midpoint fields.                                                            *)
IsMidpointSingleClock(p) == p.stampAt = StampMidpoint /\ p.clock \in {1, 2}

(* Mutant: the compatibility form is one field longer, whatever the length.    *)
AlwaysLonger(header, normal) == normal + StampSize

MidpointCompatLen(header, normal) == Larger(header + StampSize, normal)

(* validate_echo_length: the form a datagram of this length has.  The         *)
(* negotiated length is tried first.                                           *)
EchoForm(len, p, hmac) ==
  LET normal == EchoPacketLen(hmac, p)
      compat == MidpointCompatLen(EchoHeaderLen(hmac, p), normal)
  IN  IF len = normal THEN "negotiated"
      ELSE IF IsMidpointSingleClock(p) /\ compat > normal /\ len = compat THEN "compat"
      ELSE "mismatch"

(* Where a field of the layout starts: the fields before it are read first.   *)
FieldOffset(layout, f) ==
  TokenSize + SeqSize + SizeOfAll(SubSeq(layout, 1, SelectInSeq(layout, LAMBDA g : g = f) - 1))

EchoLayoutOf(form, p) ==
  IF form # "compat" THEN EchoLayout(p)
  ELSE SelectSeq(EchoFields, LAMBDA f : HasField(p, f) \/ f \in {"midpointWall", "midpointMono"})

DecodeEchoReply(d, p, key) ==
  LET read(layout) ==
        LET at(f) == FieldOffset(layout, f)
            end == TokenSize + SeqSize + SizeOfAll(layout)
        IN  [closing |-> "close" \in d.flags,
             token |-> SubSeq(d.body, 1, TokenSize),
             seq |-> SubSeq(d.body, TokenSize + 1, TokenSize + SeqSize),
             fields |-> [f \in ToSet(EchoFields) |->
                           IF HasField(p, f) THEN SubSeq(d.body, at(f) + 1, at(f) + SizeOf(f))
                           ELSE <<>>],
             payload |-> SubSeq(d.body, end + 1, Len(d.body))]
      forms == IF "open" \in d.flags \/ "reply" \notin d.flags \/ ~Trusted(d, key) THEN {}
               ELSE {EchoForm(LenOf(d), p, key # {})} \ {"mismatch"}
  IN  { read(layout) : layout \in { EchoLayoutOf(form, p) : form \in forms } }
=============================================================================
