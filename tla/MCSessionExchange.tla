-------------------------- MODULE MCSessionExchange --------------------------
(* The cases of a small instance: each group of parameters is varied while    *)
(* the others keep a default, so that every pair that interacts is met.       *)
EXTENDS SessionExchange

Clocks(arrivedKernel, arrived, sent, step, departedKernel, returnedKernel, returned, clientStep) ==
  [floor |-> 40,
   departed |-> [wall |-> 41 + clientStep, mono |-> 1], departedKernel |-> departedKernel,
   arrived |-> [wall |-> 43 + arrived, mono |-> 102 + arrived], arrivedKernel |-> arrivedKernel,
   sent |-> [wall |-> 43 + sent + step, mono |-> 102 + sent],
   returned |-> [wall |-> 45 + returned + clientStep, mono |-> 5 + returned],
   returnedKernel |-> returnedKernel,
   offset |-> 1, steady |-> step = 0 /\ clientStep = 0]

Plain == Clocks({}, 0, 1, 0, {}, {}, 0, 0)

(* Kernel readings are absent, true, or of a clock since set; the server's    *)
(* wall clock is set back or forward between its readings.                    *)
AllClocks ==
  { Clocks(ak, as[1], as[2], step, dk, rk, r, cs) :
      ak \in {{}, {43}, {20}, {60}}, as \in {<<0, 0>>, <<0, 1>>, <<1, 1>>},
      step \in {-3, 0, 3}, dk \in {{}, {40}, {10}, {70}},
      rk \in {{}, {45}, {20}, {60}}, r \in {0, 1}, cs \in {0, -2} }

Default ==
  [duration |-> {9}, interval |-> 5, length |-> 14, stats |-> 3, stampAt |-> 3,
   clock |-> 3, dscp |-> 0, fill |-> {}]

Fills == {{}, {NoneName}, {RandName}, {<<3, 5, 4, 4, 5>>}, {<<3, 5>>}, {<<6, 6>>}, {<<>>}}

TimeRequests ==
  { [Default EXCEPT !.duration = d, !.interval = i, !.dscp = t] :
      d \in {{}, {0}, {3}, {9}, {99}}, i \in {0, 1, 5, 30, 99}, t \in {0, 2, 4} }
LayoutRequests ==
  { [Default EXCEPT !.length = n, !.stats = s, !.stampAt = at, !.clock = c] :
      n \in {0, 12, 13, 25, 50}, s \in {0, 1, 3}, at \in 0 .. 4, c \in 0 .. 3 }
FillRequests == { [Default EXCEPT !.fill = f, !.length = 25] : f \in Fills }
StampRequests == { [Default EXCEPT !.stampAt = at, !.clock = c] : at \in 1 .. 4, c \in 1 .. 3 }

Keys == {{}, {"k"}}

Client(requests, keys) ==
  [kind : {"irtt-rs"}, request : requests, policy : {"strict", "loose"}, key : keys,
   noTest : BOOLEAN]

Entries == {<<2, 0>>, <<2, 20>>, <<3, 0>>, <<3, 2>>, <<4, -1>>, <<4, 30>>, <<4, 60>>,
            <<6, 3>>, <<7, 0>>, <<7, 1>>, <<8, -1>>, <<8, 40>>, <<11, 7>>}

(* Ends no decoder may accept: an integer cut short, one of three limbs that  *)
(* does not fit seven bits, and a fill past the end, above MaxFillBytes, or   *)
(* with a byte that is no text.                                                *)
Tails == {<<>>, <<4, 8>>, <<4, 8, 8, 2>>}
           \cup { EncodeUvarint(FillTag) \o f :
                     f \in {<<2, 1>>, <<6, 1, 1, 1, 1, 1, 1>>, <<2, 1, 12>>} }

Foreign ==
  [kind : {"foreign"}, key : Keys, tail : Tails,
   entries : UNION { [1 .. n -> Entries] : n \in 0 .. 2 }
               \cup { <<<<6, 3>>>> \o e \o <<<<4, 30>>>> : e \in [1 .. 1 -> Entries] }]

Open == [key |-> {}, maxLength |-> 40, maxDuration |-> {}, minInterval |-> 1,
         idleTimeout |-> 300, allowance |-> "dual", dscpAllowed |-> TRUE]
TimeConfigs ==
  { [Open EXCEPT !.maxDuration = d, !.minInterval = m, !.idleTimeout = i, !.dscpAllowed = q] :
      d \in {{}, {6}, {99}}, m \in {0, 3}, i \in {3, 8, 300}, q \in BOOLEAN }
LayoutConfigs ==
  { [Open EXCEPT !.key = k, !.maxLength = n, !.allowance = a] :
      k \in Keys, n \in {12, 40}, a \in {"dual", "single", "none"} }

MCCases ==
  { [clients |-> Client(TimeRequests, {{}}), configs |-> TimeConfigs, clocks |-> {Plain}],
    [clients |-> Client(LayoutRequests, Keys), configs |-> LayoutConfigs, clocks |-> {Plain}],
    [clients |-> Client(FillRequests, {{}}), configs |-> {Open}, clocks |-> {Plain}],
    [clients |-> { c \in Client(StampRequests, {{}}) : c.policy = "strict" /\ ~c.noTest },
     configs |-> {Open}, clocks |-> AllClocks],
    [clients |-> Foreign, configs |-> TimeConfigs \cup LayoutConfigs, clocks |-> {Plain}] }
=============================================================================
