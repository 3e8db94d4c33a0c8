-------------------------- MODULE ManagedTargetsProofs --------------------------
(* Machine-checked proofs about the managed targets, for every set of ids and *)
(* configurations, every limit, budget, delay and timeout, and every bound on *)
(* generations and probes.                                                    *)
EXTENDS ManagedTargets, FiniteSetTheorems, SequenceTheorems, WellFoundedInduction, TLAPS

(***************************************************************************)
(* The inductive invariant                                                  *)
(***************************************************************************)
Memberships == {"Desired", "Removed", "Replaced"}

ProbeType == [left : Int, lost : BOOLEAN]

TargetType ==
  [id : Ids, config : Configs, generation : Nat, membership : Memberships,
   phase : Phases, inFlight : BOOLEAN, deadline : Int, drained : Int, receives : Int,
   end : EndReasons \cup {"None"}, cleanup : BOOLEAN,
   probes : Seq(ProbeType), finished : BOOLEAN, waiting : BOOLEAN,
   session : Nat, before : Nat, sent : Nat, wire : Nat,
   retryDelay : InitialDelay .. MaxDelay, silence : Int, replied : Int]

(* A target has an end and a deadline in the phases that need them.           *)
PhaseSound(t) ==
  /\ t.phase \in {"Terminal", "Draining", "Closing"} <=> t.end # "None"
  /\ IF t.phase \in {"Retrying", "Draining", "Closing"} THEN t.deadline \in Nat
     ELSE t.deadline = None

(* What was sent is counted, and until the target ends the count is that of   *)
(* the sessions before and of this one.                                       *)
CountSound(t) ==
  /\ t.sent = t.wire
  /\ t.phase # "Terminal" => t.before + t.session = t.sent

(* Probes are in the order of their deadlines.                                 *)
ProbesSound(p) ==
  /\ \A k \in 1 .. Len(p) : p[k].left >= -FinalDrain
  /\ \A j, k \in 1 .. Len(p) : j <= k => p[j].left <= p[k].left /\ p[k].left <= ProbeTimeout

(* A drain ends no earlier than final_drain after it started and after each   *)
(* probe's own deadline.                                                       *)
DrainSound(t) ==
  t.phase = "Draining" =>
    /\ ~t.cleanup
    /\ t.drained \in 0 .. FinalDrain
    /\ t.deadline + t.drained >= FinalDrain
    /\ \A k \in 1 .. Len(t.probes) : t.deadline >= t.probes[k].left + FinalDrain

Sound(t) ==
  t \in TargetType /\ PhaseSound(t) /\ CountSound(t) /\ ProbesSound(t.probes) /\ DrainSound(t)

(* Targets are sound, each its own generation; desired ones have an id each,  *)
(* and are those the last update asked for.                                   *)
TableInv(table, next) ==
  /\ table \in Seq(TargetType)
  /\ Len(table) <= MaxLive
  /\ \A i \in 1 .. Len(table) : Sound(table[i]) /\ table[i].generation \in 1 .. next - 1
  /\ \A i, j \in 1 .. Len(table) : table[i].generation = table[j].generation => i = j

Pair(t) == [id |-> t.id, config |-> t.config]

WantedInv(table, set) ==
  /\ set \in Updates
  /\ \A i, j \in 1 .. Len(table) :
       Desired(table[i]) /\ Desired(table[j]) /\ table[i].id = table[j].id => i = j
  /\ \A i \in 1 .. Len(table) :
       Desired(table[i]) => \E k \in 1 .. Len(set) : set[k] = Pair(table[i])
  /\ \A k \in 1 .. Len(set) :
       \E i \in 1 .. Len(table) : Desired(table[i]) /\ set[k] = Pair(table[i])

Live(table, g) ==
  \E i \in 1 .. Len(table) : table[i].generation = g /\ table[i].phase # "Terminal"

OutcomeType == [sent : Nat, missed : {0}]

OutcomeInv(table, next, said) ==
  /\ next \in 1 .. MaxGenerations + 1
  /\ said \in [Generations -> Seq(OutcomeType)]
  /\ \A g \in Generations : g >= next => said[g] = <<>>
  /\ \A g \in 1 .. next - 1 : Len(said[g]) = IF Live(table, g) THEN 0 ELSE 1

PollType == [at : {"commands", "scan", "targets", "sends", "settle", "ended"},
             visits : Nat, budget : Nat]

CursorInv ==
  /\ config \in Configurations
  /\ run \in {"Running", "Finishing", "Stopping", "Ended"}
  /\ poll \in PollType
  /\ cursors \in [target : Nat, scan : Nat, timeout : Nat]
  /\ cursors.scan <= Len(targets)
  /\ cursors.timeout < Len(targets) \/ cursors.timeout = 0
  /\ backlog \in Seq([index : Nat \ {0}, generation : Nat])
  /\ Len(backlog) <= TimeoutBudget
  /\ poll.at \in {"scan", "targets"} /\ poll.visits > 0 => Len(targets) > 0
  /\ poll.at = "sends" => poll.visits <= Len(targets) /\ run = "Running"

TargetsInv ==
  /\ TableInv(targets, nextGeneration) /\ WantedInv(targets, wanted)
  /\ OutcomeInv(targets, nextGeneration, outcomes) /\ CursorInv

(***************************************************************************)
(* Selecting from a sequence                                                *)
(***************************************************************************)
LEMMA NatLeast ==
  ASSUME NEW S, S \subseteq Nat, S # {}
  PROVE  \E m \in S : \A y \in S : m <= y
<1>1. IsWellFoundedOn(OpToRel(<, Nat), Nat)
  BY NatLessThanWellFounded, Zenon
<1>2. PICK x \in S : \A y \in S : ~(<<y, x>> \in OpToRel(<, Nat))
  BY <1>1, WFMin, Zenon
<1>3. \A y \in S : ~(y < x)
  BY <1>2 DEF OpToRel
<1> QED
  BY <1>3

Enumerates(f, I, n) ==
  /\ f \in [1 .. n -> I]
  /\ \A i \in I : \E k \in 1 .. n : f[k] = i
  /\ \A j, k \in 1 .. n : j < k => f[j] < f[k]

(* Every set of indexes can be listed in increasing order.                    *)
LEMMA OneMoreIndex ==
  ASSUME NEW m \in Nat \ {0}, NEW I, \A i \in I : i \in 1 .. m, m \in I,
         NEW n \in Nat, NEW f, Enumerates(f, I \ {m}, n)
  PROVE  Enumerates([k \in 1 .. n + 1 |-> IF k = n + 1 THEN m ELSE f[k]], I, n + 1)
<1> DEFINE g == [k \in 1 .. n + 1 |-> IF k = n + 1 THEN m ELSE f[k]]
<1>1. \A k \in 1 .. n : f[k] \in I \ {m} /\ f[k] \in 1 .. m - 1 /\ g[k] = f[k]
  <2> SUFFICES ASSUME NEW k \in 1 .. n
               PROVE  f[k] \in I \ {m} /\ f[k] \in 1 .. m - 1 /\ g[k] = f[k]
    OBVIOUS
  <2>1. f[k] \in I \ {m}
    BY DEF Enumerates
  <2>2. f[k] \in 1 .. m /\ f[k] # m
    BY <2>1
  <2> QED
    BY <2>1, <2>2
<1>2. g[n + 1] = m
  OBVIOUS
<1> HIDE DEF g
<1>3. \A k \in 1 .. n + 1 : k = n + 1 \/ k \in 1 .. n
  OBVIOUS
<1>4. g \in [1 .. n + 1 -> I]
  <2>1. \A k \in 1 .. n + 1 : (IF k = n + 1 THEN m ELSE f[k]) \in I
    BY <1>1, <1>3
  <2> QED
    BY <2>1 DEF g
<1>5. \A i \in I : \E k \in 1 .. n + 1 : g[k] = i
  <2> SUFFICES ASSUME NEW i \in I PROVE \E k \in 1 .. n + 1 : g[k] = i
    OBVIOUS
  <2>1. CASE i = m
    BY <1>2, <2>1
  <2>2. CASE i # m
    <3>1. PICK k \in 1 .. n : f[k] = i
      BY <2>2 DEF Enumerates
    <3> QED
      BY <1>1, <3>1
  <2> QED
    BY <2>1, <2>2
<1>6. \A j, k \in 1 .. n + 1 : j < k => g[j] < g[k]
  <2> SUFFICES ASSUME NEW j \in 1 .. n + 1, NEW k \in 1 .. n + 1, j < k
               PROVE  g[j] < g[k]
    OBVIOUS
  <2>1. j \in 1 .. n
    OBVIOUS
  <2>2. CASE k = n + 1
    BY <1>1, <1>2, <2>1, <2>2
  <2>3. CASE k \in 1 .. n
    BY <1>1, <2>1, <2>3 DEF Enumerates
  <2> QED
    BY <1>3, <2>2, <2>3
<1> QED
  BY <1>4, <1>5, <1>6 DEF g, Enumerates

LEMMA CanEnumerate ==
  ASSUME NEW n \in Nat
  PROVE  \A I \in SUBSET (1 .. n) : \E f : Enumerates(f, I, Cardinality(I))
<1> DEFINE Bad == { m \in Nat : \E I \in SUBSET (1 .. m) :
                                  \A f : ~Enumerates(f, I, Cardinality(I)) }
<1> SUFFICES ASSUME Bad # {} PROVE FALSE
  OBVIOUS
<1>1. PICK m \in Bad : \A y \in Bad : m <= y
  BY NatLeast
<1>2. PICK I \in SUBSET (1 .. m) : \A f : ~Enumerates(f, I, Cardinality(I))
  BY <1>1
<1>3. m \in Nat /\ \A i \in I : i \in 1 .. m
  BY <1>1, <1>2
<1>4. CASE I = {}
  <2>1. Cardinality(I) = 0
    BY <1>4, FS_EmptySet
  <2>2. Enumerates([k \in 1 .. 0 |-> 0], I, 0)
    BY <1>4 DEF Enumerates
  <2> QED
    BY <1>2, <2>1, <2>2
<1>5. CASE I # {}
  <2>1. m # 0
    <3>1. PICK i \in I : TRUE
      BY <1>5
    <3> QED
      BY <1>3, <3>1
  <2>2. m - 1 \in Nat /\ m - 1 \notin Bad
    <3>1. m - 1 \in Nat /\ ~(m <= m - 1)
      BY <1>3, <2>1
    <3> QED
      BY <1>1, <3>1
  <2>3. \A J \in SUBSET (1 .. m - 1) : \E f : Enumerates(f, J, Cardinality(J))
    BY <2>2
  <2>4. m \in I
    <3> SUFFICES ASSUME m \notin I PROVE FALSE
      OBVIOUS
    <3>1. I \subseteq 1 .. m - 1
      BY <1>3
    <3> QED
      BY <1>2, <2>3, <3>1
  <2>5. I \ {m} \in SUBSET (1 .. m - 1)
    BY <1>3
  <2>6. PICK f : Enumerates(f, I \ {m}, Cardinality(I \ {m}))
    BY <2>3, <2>5
  <2>7. IsFiniteSet(I)
    <3>1. IsFiniteSet(1 .. m)
      BY <1>3, FS_Interval
    <3> QED
      BY <3>1, FS_Subset, Zenon
  <2>8. /\ Cardinality(I) \in Nat /\ Cardinality(I \ {m}) \in Nat
        /\ Cardinality(I) = Cardinality(I \ {m}) + 1
    <3>1. IsFiniteSet(I \ {m}) /\ Cardinality(I \ {m}) = Cardinality(I) - 1
      BY <2>4, <2>7, FS_RemoveElement, Zenon
    <3>2. Cardinality(I) \in Nat /\ Cardinality(I \ {m}) \in Nat
      BY <2>7, <3>1, FS_CardinalityType, Zenon
    <3> QED
      BY <3>1, <3>2
  <2> DEFINE c == Cardinality(I \ {m})
  <2>9. Enumerates([k \in 1 .. c + 1 |-> IF k = c + 1 THEN m ELSE f[k]], I, c + 1)
    <3>1. m \in Nat \ {0} /\ (\A i \in I : i \in 1 .. m) /\ c \in Nat /\ Enumerates(f, I \ {m}, c)
      BY <1>3, <2>1, <2>6, <2>8
    <3> HIDE DEF c
    <3> QED
      BY <2>4, <3>1, OneMoreIndex
  <2> QED
    BY <1>2, <2>8, <2>9
<1> QED
  BY <1>4, <1>5

(* l lists the elements of s at the indexes I, each once.                      *)
Lists(l, s, I, T) ==
  /\ Cardinality(I) \in 0 .. Len(s) /\ l \in Seq(T) /\ Len(l) = Cardinality(I)
  /\ \E f \in [1 .. Cardinality(I) -> I] :
       /\ \A k \in 1 .. Cardinality(I) : l[k] = s[f[k]]
       /\ \A i \in I : \E k \in 1 .. Cardinality(I) : f[k] = i
       /\ \A j, k \in 1 .. Cardinality(I) : f[j] = f[k] => j = k

LEMMA SelectedLists ==
  ASSUME NEW T, NEW s \in Seq(T), NEW I, \A i \in I : i \in 1 .. Len(s)
  PROVE  Lists(Selected(s, I), s, I, T)
<1> DEFINE n == Cardinality(I)
           P(f) == /\ \A i \in I : \E k \in 1 .. n : f[k] = i
                   /\ \A j, k \in 1 .. n : j < k => f[j] < f[k]
           f == CHOOSE f \in [1 .. n -> I] : P(f)
<1>1. /\ Len(s) \in Nat /\ IsFiniteSet(1 .. Len(s)) /\ Cardinality(1 .. Len(s)) = Len(s)
  <2>1. Len(s) \in Nat
    BY LenProperties
  <2>2. /\ IsFiniteSet(1 .. Len(s))
        /\ Cardinality(1 .. Len(s)) = IF 1 > Len(s) THEN 0 ELSE Len(s) - 1 + 1
    BY <2>1, FS_Interval
  <2> QED
    BY <2>1, <2>2
<1>2. IsFiniteSet(I) /\ n \in 0 .. Len(s)
  <2>1. I \subseteq 1 .. Len(s)
    OBVIOUS
  <2>2. IsFiniteSet(I) /\ Cardinality(I) <= Cardinality(1 .. Len(s))
    BY <1>1, <2>1, FS_Subset, Zenon
  <2>3. Cardinality(I) \in Nat
    BY <2>2, FS_CardinalityType, Zenon
  <2> QED
    BY <1>1, <2>2, <2>3
<1>3. \E g \in [1 .. n -> I] : P(g)
  <2>1. I \in SUBSET (1 .. Len(s))
    OBVIOUS
  <2> QED
    BY <1>1, <2>1, CanEnumerate DEF Enumerates
<1>4. f \in [1 .. n -> I] /\ P(f)
  BY <1>3
<1>5. Selected(s, I) = [k \in 1 .. n |-> s[f[k]]]
  BY DEF Selected
<1> HIDE DEF f, n
<1>6. n \in Nat /\ \A k \in 1 .. n : f[k] \in 1 .. Len(s) /\ s[f[k]] \in T
  <2>1. n \in Nat
    BY <1>1, <1>2
  <2>2. \A k \in 1 .. n : f[k] \in I
    BY <1>4
  <2> QED
    BY <1>1, <2>1, <2>2, ElementOfSeq
<1>7. Selected(s, I) \in Seq(T) /\ Len(Selected(s, I)) = n
  BY <1>5, <1>6, IsASeq
<1>8. \A j, k \in 1 .. n : f[j] = f[k] => j = k
  <2> SUFFICES ASSUME NEW j \in 1 .. n, NEW k \in 1 .. n, f[j] = f[k], j # k PROVE FALSE
    OBVIOUS
  <2>1. j < k \/ k < j
    BY <1>6
  <2>2. f[j] < f[k] \/ f[k] < f[j]
    BY <1>4, <2>1
  <2> QED
    BY <1>6, <2>2
<1>9. \A k \in 1 .. n : Selected(s, I)[k] = s[f[k]]
  BY <1>5
<1> QED
  BY <1>2, <1>4, <1>7, <1>8, <1>9 DEF n, Lists
(***************************************************************************)
(* Probes                                                                   *)
(***************************************************************************)
LEMMA RemoveProbe ==
  ASSUME NEW p \in Seq(ProbeType), ProbesSound(p), NEW i \in 1 .. Len(p)
  PROVE  /\ RemoveAt(p, i) \in Seq(ProbeType) /\ ProbesSound(RemoveAt(p, i))
         /\ Len(RemoveAt(p, i)) = Len(p) - 1
         /\ \A k \in 1 .. Len(p) - 1 :
              RemoveAt(p, i)[k] = IF k < i THEN p[k] ELSE p[k + 1]
<1> DEFINE n == Len(p)
           r == RemoveAt(p, i)
<1>1. n \in Nat /\ i \in 1 .. n
  BY LenProperties
<1>2. r = SubSeq(p, 1, i - 1) \o SubSeq(p, i + 1, n)
  BY DEF RemoveAt
<1>3. /\ r \in Seq(ProbeType) /\ Len(r) = n - 1
      /\ \A k \in 1 .. n - 1 : r[k] = IF k < i THEN p[k] ELSE p[k + 1]
  <2> DEFINE a == SubSeq(p, 1, i - 1)
             b == SubSeq(p, i + 1, n)
  <2>1. a \in Seq(ProbeType) /\ Len(a) = i - 1 /\ \A k \in 1 .. i - 1 : a[k] = p[k]
    BY <1>1
  <2>2. b \in Seq(ProbeType) /\ Len(b) = n - i /\ \A k \in 1 .. n - i : b[k] = p[i + k]
    BY <1>1
  <2>3. r = a \o b
    BY <1>2
  <2> HIDE DEF a, b, r
  <2>4. /\ r \in Seq(ProbeType) /\ Len(r) = n - 1
        /\ \A k \in 1 .. n - 1 : r[k] = IF k <= i - 1 THEN a[k] ELSE b[k - (i - 1)]
    <3>1. /\ a \o b \in Seq(ProbeType) /\ Len(a \o b) = Len(a) + Len(b)
          /\ \A k \in 1 .. Len(a) + Len(b) :
               (a \o b)[k] = IF k <= Len(a) THEN a[k] ELSE b[k - Len(a)]
      BY <2>1, <2>2, ConcatProperties
    <3>2. Len(a) + Len(b) = n - 1
      BY <1>1, <2>1, <2>2
    <3> QED
      BY <2>1, <2>3, <3>1, <3>2
  <2>5. ASSUME NEW k \in 1 .. n - 1
        PROVE  r[k] = IF k < i THEN p[k] ELSE p[k + 1]
    <3>1. CASE k < i
      BY <1>1, <2>1, <2>4, <3>1
    <3>2. CASE ~(k < i)
      <4>1. k - (i - 1) \in 1 .. n - i /\ i + (k - (i - 1)) = k + 1
        BY <1>1, <3>2
      <4> QED
        BY <1>1, <2>2, <2>4, <3>2, <4>1
    <3> QED
      BY <3>1, <3>2
  <2> QED
    BY <2>4, <2>5
<1> HIDE DEF r
<1>4. ProbesSound(r)
  <2>1. \A k \in 1 .. n : p[k] \in ProbeType /\ p[k].left \in Int
    <3>1. \A k \in 1 .. n : p[k] \in ProbeType
      BY <1>1, ElementOfSeq
    <3> QED
      BY <3>1 DEF ProbeType
  <2>2. \A k \in 1 .. n - 1 : r[k].left >= -FinalDrain
    BY <1>1, <1>3 DEF ProbesSound
  <2>3. ASSUME NEW j \in 1 .. n - 1, NEW k \in 1 .. n - 1, j <= k
        PROVE  r[j].left <= r[k].left /\ r[k].left <= ProbeTimeout
    <3> DEFINE a == IF j < i THEN j ELSE j + 1
               b == IF k < i THEN k ELSE k + 1
    <3>1. a \in 1 .. n /\ b \in 1 .. n /\ a <= b /\ r[j] = p[a] /\ r[k] = p[b]
      BY <1>1, <1>3, <2>3
    <3> HIDE DEF a, b
    <3> QED
      BY <3>1 DEF ProbesSound
  <2> QED
    BY <1>3, <2>2, <2>3 DEF ProbesSound
<1> QED
  BY <1>3, <1>4 DEF r

(* When no timeout is due, every probe not yet lost has time left: the        *)
(* probes are in the order of their deadlines.                                *)
LEMMA NoneDue ==
  ASSUME NEW t, t.probes \in Seq(ProbeType), ProbesSound(t.probes), ~Due(t)
  PROVE  \A k \in 1 .. Len(t.probes) : t.probes[k].lost \/ t.probes[k].left > 0
<1> DEFINE p == t.probes
           n == Len(p)
           W == { k \in 1 .. n : ~p[k].lost }
<1>1. n \in Nat /\ DOMAIN p = 1 .. n /\ \A k \in 1 .. n : p[k] \in ProbeType
  BY LenProperties, ElementOfSeq
<1>2. \A k \in 1 .. n : p[k].left \in Int
  BY <1>1 DEF ProbeType
<1> SUFFICES ASSUME NEW k \in 1 .. n, ~p[k].lost, ~(p[k].left > 0) PROVE FALSE
  OBVIOUS
<1>3. PICK m \in W : \A y \in W : m <= y
  <2>1. k \in W /\ \A y \in W : y \in Nat
    BY <1>1
  <2>2. W # {} /\ W \subseteq Nat
    BY <2>1
  <2> HIDE DEF W
  <2> QED
    BY <2>2, NatLeast
<1>4. m \in 1 .. n /\ ~p[m].lost /\ m <= k
  BY <1>3
<1>5. p[m].left <= 0
  <2>1. p[m].left <= p[k].left
    BY <1>4 DEF ProbesSound
  <2> QED
    BY <1>2, <1>4, <2>1
<1>6. \A j \in 1 .. m - 1 : p[j].lost
  <2> SUFFICES ASSUME NEW j \in 1 .. m - 1, ~p[j].lost PROVE FALSE
    OBVIOUS
  <2>1. j \in 1 .. n /\ ~(m <= j)
    BY <1>1, <1>4
  <2> QED
    BY <1>3, <2>1
<1> QED
  BY <1>1, <1>4, <1>5, <1>6 DEF Due

(***************************************************************************)
(* What an operation makes of a target                                      *)
(***************************************************************************)
Same(t, u) ==
  u.id = t.id /\ u.config = t.config /\ u.generation = t.generation
  /\ u.membership = t.membership

Waited(u) == \A k \in 1 .. Len(u.probes) : u.probes[k].lost /\ u.probes[k].left <= -FinalDrain

(* A later state u of the generation of t.                                    *)
Goes(t, u) ==
  /\ Sound(u) /\ Same(t, u)
  /\ t.phase = "Terminal" => u.phase = "Terminal"
  /\ Stopping(t) => u.phase \in {t.phase, "Draining", "Closing", "Terminal"}
  /\ t.phase = "Draining" /\ u.phase = "Closing" /\ ~u.cleanup =>
       t.drained >= FinalDrain /\ Waited(u)

Reconnects == Reconnect \in Nat

LEMMA SyncedSame ==
  ASSUME NEW t, Sound(t), t.phase # "Terminal"
  PROVE  Synced(t) = t
BY DEF Sound, TargetType, CountSound, Synced

LEMMA NoProbes == <<>> \in Seq(ProbeType) /\ ProbesSound(<<>>)
BY DEF ProbesSound

(* The members the types below are built from.                                *)
LEMMA Grounds ==
  /\ None \in Int /\ 0 \in Nat /\ 0 \in Int /\ <<>> \in Seq(ProbeType)
  /\ Nat \subseteq Int
BY NoProbes DEF None

LEMMA FinishTargetGoes ==
  ASSUME NEW t, Sound(t), t.phase # "Terminal",
         NEW reason \in EndReasons, NEW u \in FinishTarget(t, reason)
  PROVE  /\ Sound(u) /\ Same(t, u)
         /\ u.phase = "Terminal" \/ (u.phase = "Retrying" /\ CanReconnect(t))
<1> DEFINE w == WithoutClient(t)
<1>0. None \in Int /\ t \in TargetType
  BY DEF None, Sound
<1>1. w \in TargetType /\ Same(t, w) /\ w.probes = <<>> /\ w.deadline = None
      /\ w.session = 0 /\ w.sent = t.sent /\ w.wire = t.wire /\ w.retryDelay = t.retryDelay
  <2>1. w \in TargetType
    BY <1>0, Grounds, Zenon DEF WithoutClient, TargetType
  <2>2. w = [t EXCEPT !.inFlight = FALSE, !.deadline = None, !.drained = None,
                      !.receives = 0, !.end = "None", !.cleanup = FALSE, !.probes = <<>>,
                      !.finished = FALSE, !.waiting = FALSE, !.session = 0,
                      !.silence = None, !.replied = None]
    BY DEF WithoutClient
  <2> HIDE DEF w
  <2> QED
    BY <1>0, <2>1, <2>2 DEF TargetType, Same
<1> HIDE DEF w
<1>2. ASSUME NEW why \in EndReasons, u = [w EXCEPT !.phase = "Terminal", !.end = why]
      PROVE  Sound(u) /\ Same(t, u) /\ u.phase = "Terminal"
  <2>1. u \in TargetType
    BY <1>1, <1>2 DEF TargetType, Phases
  <2>2. u.phase = "Terminal" /\ u.end = why /\ u.probes = <<>> /\ u.deadline = None
        /\ u.sent = t.sent /\ u.wire = t.wire /\ Same(t, u)
    BY <1>1, <1>2 DEF TargetType, Same
  <2>3. why # "None"
    BY DEF EndReasons
  <2> QED
    BY <2>1, <2>2, <2>3, NoProbes DEF Sound, PhaseSound, CountSound, DrainSound
<1>3. ASSUME CanReconnect(t),
             u = [w EXCEPT !.phase = "Retrying", !.deadline = t.retryDelay,
                           !.retryDelay = NextDelay(@), !.before = SentBefore(t)]
      PROVE  Sound(u) /\ Same(t, u) /\ u.phase = "Retrying"
  <2>1. t.retryDelay \in InitialDelay .. MaxDelay /\ t.sent \in Nat /\ t.sent = t.wire
    BY DEF Sound, TargetType, CountSound
  <2> DEFINE d == NextDelay(t.retryDelay)
  <2>2. d \in InitialDelay .. MaxDelay /\ t.retryDelay \in Nat /\ t.retryDelay \in Int
    BY <2>1, TargetsAssumption DEF NextDelay, Lesser
  <2>3. u = [w EXCEPT !.phase = "Retrying", !.deadline = t.retryDelay,
                      !.retryDelay = d, !.before = t.sent]
    BY <1>1, <1>3 DEF SentBefore
  <2> HIDE DEF d
  <2>4. u \in TargetType
    BY <1>1, <2>1, <2>2, <2>3, Zenon DEF TargetType, Phases
  <2>5. u.phase = "Retrying" /\ u.end = w.end /\ u.probes = <<>> /\ u.deadline = t.retryDelay
        /\ u.sent = t.sent /\ u.wire = t.wire /\ u.before = t.sent /\ u.session = 0 /\ Same(t, u)
    BY <1>1, <2>3 DEF TargetType, Same
  <2>6. w.end = "None"
    BY DEF w, WithoutClient, Sound, TargetType
  <2> QED
    BY <2>1, <2>2, <2>4, <2>5, <2>6, NoProbes DEF Sound, PhaseSound, CountSound, DrainSound
<1>4. \/ \E why \in EndReasons : u = [w EXCEPT !.phase = "Terminal", !.end = why]
      \/ /\ CanReconnect(t)
         /\ u = [w EXCEPT !.phase = "Retrying", !.deadline = t.retryDelay,
                          !.retryDelay = NextDelay(@), !.before = SentBefore(t)]
  BY DEF FinishTarget, w, EndReasons
<1> QED
  BY <1>2, <1>3, <1>4
LEMMA BeginCloseGoes ==
  ASSUME NEW t, Sound(t), t.phase # "Terminal", NEW reason \in EndReasons,
         NEW cleanup \in BOOLEAN, NEW u \in BeginClose(t, reason, cleanup)
  PROVE  /\ Sound(u) /\ Same(t, u) /\ u.phase = "Closing" /\ u.probes = t.probes
         /\ ~u.cleanup => ~cleanup
<1>1. PICK d \in Nat, c \in BOOLEAN :
        /\ cleanup => c
        /\ u = [t EXCEPT !.phase = "Closing", !.deadline = d, !.drained = None,
                         !.receives = 0, !.end = reason, !.cleanup = c, !.inFlight = FALSE,
                         !.finished = FALSE, !.waiting = FALSE, !.silence = None,
                         !.replied = None]
  <2>1. FinalDrain \in Nat /\ 0 \in Nat
    BY TargetsAssumption
  <2>2. PICK x \in {<<FinalDrain, cleanup>>, <<0, TRUE>>} :
           u = [t EXCEPT !.phase = "Closing", !.deadline = x[1], !.drained = None,
                         !.receives = 0, !.end = reason, !.cleanup = x[2], !.inFlight = FALSE,
                         !.finished = FALSE, !.waiting = FALSE, !.silence = None,
                         !.replied = None]
    BY Zenon DEF BeginClose
  <2>3. x[1] \in Nat /\ x[2] \in BOOLEAN /\ (cleanup => x[2])
    <3>1. CASE x = <<FinalDrain, cleanup>>
      <4>1. x[1] = FinalDrain /\ x[2] = cleanup
        BY <3>1, Zenon
      <4> QED
        BY <2>1, <4>1, Zenon
    <3>2. CASE x = <<0, TRUE>>
      <4>1. x[1] = 0 /\ x[2] = TRUE
        BY <3>2, Zenon
      <4> QED
        BY <2>1, <4>1, Zenon
    <3> QED
      BY <2>2, <3>1, <3>2, Zenon
  <2> QED
    BY <2>2, <2>3, Zenon
<1>2. t \in TargetType /\ d \in Int
  BY DEF Sound
<1>3. u \in TargetType
  BY <1>1, <1>2, Grounds, Zenon DEF TargetType, Phases
<1>4. /\ Same(t, u) /\ u.phase = "Closing" /\ u.probes = t.probes /\ u.deadline = d
      /\ u.end = reason /\ u.sent = t.sent /\ u.wire = t.wire /\ u.before = t.before
      /\ u.session = t.session
  BY <1>1, <1>2 DEF TargetType, Same
<1>5. ~u.cleanup => ~cleanup
  BY <1>1, <1>2, Zenon DEF TargetType
<1>6. reason # "None"
  BY DEF EndReasons
<1>7. Sound(u)
  BY <1>3, <1>4, <1>6 DEF Sound, PhaseSound, CountSound, DrainSound
<1> QED
  BY <1>4, <1>5, <1>7

(* The drain deadline covers the drain itself and every probe.                *)
LEMMA DrainDeadlineCovers ==
  ASSUME NEW t, t.probes \in Seq(ProbeType), ProbesSound(t.probes),
         NEW elapsed \in 0 .. FinalDrain
  PROVE  /\ DrainDeadline(t, elapsed) \in Nat
         /\ DrainDeadline(t, elapsed) + elapsed >= FinalDrain
         /\ \A k \in 1 .. Len(t.probes) :
              DrainDeadline(t, elapsed) >= t.probes[k].left + FinalDrain
<1> DEFINE p == t.probes
           n == Len(p)
           latest == IF p = <<>> THEN -elapsed ELSE p[n].left
<1>1. n \in Nat /\ FinalDrain \in Nat /\ (p # <<>> => n \in 1 .. n)
      /\ \A k \in 1 .. n : p[k] \in ProbeType
  BY TargetsAssumption, LenProperties, ElementOfSeq, EmptySeq
<1>2. \A k \in 1 .. n : p[k].left \in Int /\ p # <<>>
  BY <1>1 DEF ProbeType
<1>3. latest \in Int
  BY <1>1, <1>2
<1>4. \A k \in 1 .. n : p[k].left <= latest
  BY <1>1, <1>2 DEF ProbesSound
<1>5. DrainDeadline(t, elapsed) = Greater(latest, -elapsed) + FinalDrain
  BY DEF DrainDeadline, Last
<1> HIDE DEF latest
<1>6. DrainDeadline(t, elapsed) \in Int /\ DrainDeadline(t, elapsed) >= latest + FinalDrain
      /\ DrainDeadline(t, elapsed) >= FinalDrain - elapsed
  BY <1>1, <1>3, <1>5 DEF Greater
<1> HIDE DEF p, n
<1> QED
  BY <1>1, <1>2, <1>3, <1>4, <1>6 DEF p, n

LEMMA BeginDrainGoes ==
  ASSUME NEW t, Sound(t), t.phase # "Terminal", NEW reason \in EndReasons,
         NEW u \in BeginDrain(t, reason)
  PROVE  /\ Sound(u) /\ Same(t, u)
         /\ u.phase = "Draining" \/ (u.phase = "Closing" /\ u.cleanup)
<1>1. CASE u \in BeginClose(t, reason, TRUE)
  BY <1>1, BeginCloseGoes, Zenon
<1>2. CASE u \notin BeginClose(t, reason, TRUE)
  <2> DEFINE d == DrainDeadline(t, 0)
  <2>1. u = [t EXCEPT !.phase = "Draining", !.deadline = d, !.drained = 0,
               !.receives = ReceiveBudget, !.end = reason, !.cleanup = FALSE,
               !.inFlight = FALSE, !.finished = FALSE, !.waiting = FALSE,
               !.silence = None, !.replied = None]
    BY <1>2, Zenon DEF BeginDrain
  <2>2. t \in TargetType /\ ReceiveBudget \in Int /\ 0 \in 0 .. FinalDrain
    BY TargetsAssumption DEF Sound
  <2>3. t.probes \in Seq(ProbeType) /\ ProbesSound(t.probes)
    BY <2>2 DEF Sound, TargetType
  <2>4. /\ d \in Nat /\ d \in Int /\ d + 0 >= FinalDrain
        /\ \A k \in 1 .. Len(t.probes) : d >= t.probes[k].left + FinalDrain
    BY <2>2, <2>3, DrainDeadlineCovers
  <2> HIDE DEF d
  <2>5. u \in TargetType
    BY <2>1, <2>2, <2>4, Grounds, Zenon DEF TargetType, Phases
  <2>6. /\ Same(t, u) /\ u.phase = "Draining" /\ u.probes = t.probes /\ u.deadline = d
        /\ u.drained = 0 /\ u.end = reason /\ u.sent = t.sent /\ u.wire = t.wire
        /\ u.before = t.before /\ u.session = t.session
    BY <2>1, <2>2 DEF TargetType, Same
  <2>7. ~u.cleanup
    BY <2>1, <2>2, Zenon DEF TargetType
  <2>8. reason # "None"
    BY DEF EndReasons
  <2>9. DrainSound(u)
    BY <2>2, <2>4, <2>6, <2>7 DEF DrainSound
  <2>10. Sound(u)
    BY <2>3, <2>4, <2>5, <2>6, <2>8, <2>9 DEF Sound, PhaseSound, CountSound
  <2> QED
    BY <2>6, <2>10
<1> QED
  BY <1>1, <1>2

LEMMA SessionFailureGoes ==
  ASSUME NEW t, Sound(t), t.phase # "Terminal", NEW drain \in BOOLEAN,
         NEW u \in BeginOpenSessionFailure(t, drain)
  PROVE  Sound(u) /\ Same(t, u) /\ u.phase \in {"Draining", "Closing"}
<1>1. Synced(t) = t /\ "Failed" \in EndReasons
  BY SyncedSame DEF EndReasons
<1>2. u \in BeginClose(t, "Failed", FALSE) \/ u \in BeginDrain(t, "Failed")
  BY <1>1, Zenon DEF BeginOpenSessionFailure
<1>3. FALSE \in BOOLEAN
  OBVIOUS
<1>4. CASE u \in BeginClose(t, "Failed", FALSE)
  BY <1>1, <1>3, <1>4, BeginCloseGoes, Zenon
<1>5. CASE u \in BeginDrain(t, "Failed")
  BY <1>1, <1>5, BeginDrainGoes, Zenon
<1> QED
  BY <1>2, <1>4, <1>5
(* u is t, but for some of its probes and what a reply resets.                *)
Keeps(t, u) ==
  /\ Sound(u) /\ Same(t, u) /\ u.phase = t.phase /\ u.drained = t.drained
  /\ \A k \in 1 .. Len(u.probes) : \E m \in 1 .. Len(t.probes) : u.probes[k] = t.probes[m]

LEMMA KeepsItself ==
  ASSUME NEW t, Sound(t)
  PROVE  Keeps(t, t)
BY DEF Keeps, Same

LEMMA KeepsChains ==
  ASSUME NEW t, NEW u, NEW v, Keeps(t, u), Keeps(u, v)
  PROVE  Keeps(t, v)
<1>1. Sound(v) /\ Same(t, v) /\ v.phase = t.phase /\ v.drained = t.drained
  BY Zenon DEF Keeps, Same
<1>2. ASSUME NEW k \in 1 .. Len(v.probes)
      PROVE  \E m \in 1 .. Len(t.probes) : v.probes[k] = t.probes[m]
  <2>1. PICK j \in 1 .. Len(u.probes) : v.probes[k] = u.probes[j]
    BY Zenon DEF Keeps
  <2>2. PICK m \in 1 .. Len(t.probes) : u.probes[j] = t.probes[m]
    BY Zenon DEF Keeps
  <2> QED
    BY <2>1, <2>2, Zenon
<1> QED
  BY <1>1, <1>2, Zenon DEF Keeps

(* Fields that no part of soundness is about.                                 *)
LEMMA AsideKeeps ==
  ASSUME NEW t, Sound(t), NEW u \in TargetType, Same(t, u), u.phase = t.phase,
         u.deadline = t.deadline, u.drained = t.drained, u.end = t.end,
         u.cleanup = t.cleanup, u.probes = t.probes, u.session = t.session,
         u.before = t.before, u.sent = t.sent, u.wire = t.wire
  PROVE  Keeps(t, u)
<1>1. PhaseSound(u)
  BY DEF Sound, PhaseSound
<1>2. CountSound(u)
  BY DEF Sound, CountSound
<1>3. ProbesSound(u.probes)
  BY DEF Sound
<1>4. DrainSound(u)
  BY DEF Sound, DrainSound
<1>5. Sound(u)
  BY <1>1, <1>2, <1>3, <1>4 DEF Sound
<1> QED
  BY <1>5, Zenon DEF Keeps

LEMMA RepliedKeeps ==
  ASSUME NEW t, Sound(t)
  PROVE  Keeps(t, Replied(t))
<1> DEFINE back == IF t.phase = "Active" /\ Reconnect > 0 THEN 0 ELSE None
           u == Replied(t)
<1>1. t \in TargetType /\ back \in Int /\ InitialDelay \in InitialDelay .. MaxDelay
  BY TargetsAssumption, Grounds DEF Sound
<1>2. u = [t EXCEPT !.silence = None, !.retryDelay = InitialDelay, !.replied = back]
  BY DEF Replied
<1> HIDE DEF back, u
<1>3. u \in TargetType
  BY <1>1, <1>2, Grounds, Zenon DEF TargetType
<1>4. /\ Same(t, u) /\ u.phase = t.phase /\ u.deadline = t.deadline /\ u.drained = t.drained
      /\ u.end = t.end /\ u.probes = t.probes /\ u.session = t.session
      /\ u.before = t.before /\ u.sent = t.sent /\ u.wire = t.wire
  BY <1>1, <1>2 DEF TargetType, Same
<1>5. u.cleanup = t.cleanup
  BY <1>1, <1>2, Zenon DEF TargetType
<1>6. Keeps(t, u)
  BY <1>3, <1>4, <1>5, AsideKeeps
<1> QED
  BY <1>6 DEF u

LEMMA FewerProbesKeeps ==
  ASSUME NEW t, Sound(t), NEW i \in 1 .. Len(t.probes)
  PROVE  Keeps(t, [t EXCEPT !.probes = RemoveAt(@, i)])
<1> DEFINE r == RemoveAt(t.probes, i)
           n == Len(t.probes)
           u == [t EXCEPT !.probes = RemoveAt(@, i)]
<1>1. t \in TargetType /\ t.probes \in Seq(ProbeType) /\ ProbesSound(t.probes)
  BY DEF Sound, TargetType
<1>2. n \in Nat /\ i \in 1 .. n
  BY <1>1, LenProperties
<1>3. /\ r \in Seq(ProbeType) /\ ProbesSound(r) /\ Len(r) = n - 1
      /\ \A k \in 1 .. n - 1 : r[k] = IF k < i THEN t.probes[k] ELSE t.probes[k + 1]
  BY <1>1, RemoveProbe
<1>4. u = [t EXCEPT !.probes = r]
  BY <1>1 DEF TargetType
<1> HIDE DEF r, u
<1>5. u \in TargetType
  BY <1>1, <1>3, <1>4, Zenon DEF TargetType
<1>6. /\ Same(t, u) /\ u.phase = t.phase /\ u.deadline = t.deadline /\ u.drained = t.drained
      /\ u.end = t.end /\ u.probes = r /\ u.session = t.session
      /\ u.before = t.before /\ u.sent = t.sent /\ u.wire = t.wire
  BY <1>1, <1>4 DEF TargetType, Same
<1>7. u.cleanup = t.cleanup
  BY <1>1, <1>4, Zenon DEF TargetType
<1>8. ASSUME NEW k \in 1 .. n - 1
      PROVE  \E m \in 1 .. n : r[k] = t.probes[m]
  <2>1. CASE k < i
    BY <1>2, <1>3, <2>1
  <2>2. CASE ~(k < i)
    BY <1>2, <1>3, <2>2
  <2> QED
    BY <2>1, <2>2
<1>9. PhaseSound(u) /\ CountSound(u)
  BY <1>6 DEF Sound, PhaseSound, CountSound
<1>10. DrainSound(u)
  <2> SUFFICES ASSUME t.phase = "Draining" PROVE DrainSound(u)
    BY <1>6 DEF DrainSound
  <2>1. /\ ~t.cleanup /\ t.drained \in 0 .. FinalDrain /\ t.deadline + t.drained >= FinalDrain
        /\ \A m \in 1 .. n : t.deadline >= t.probes[m].left + FinalDrain
    BY DEF Sound, DrainSound
  <2>2. \A k \in 1 .. n - 1 : t.deadline >= r[k].left + FinalDrain
    <3> SUFFICES ASSUME NEW k \in 1 .. n - 1 PROVE t.deadline >= r[k].left + FinalDrain
      OBVIOUS
    <3>1. PICK m \in 1 .. n : r[k] = t.probes[m]
      BY <1>8
    <3> QED
      BY <2>1, <3>1
  <2> QED
    BY <1>3, <1>6, <1>7, <2>1, <2>2 DEF DrainSound
<1>11. Sound(u)
  BY <1>3, <1>5, <1>6, <1>9, <1>10 DEF Sound
<1>12. Keeps(t, u)
  BY <1>3, <1>6, <1>8, <1>11 DEF Keeps
<1> QED
  BY <1>12 DEF u

LEMMA DatagramKeeps ==
  ASSUME NEW t, Sound(t), NEW d \in Datagrams(t)
  PROVE  Keeps(t, d.target)
<1>1. t.probes \in Seq(ProbeType)
  BY DEF Sound, TargetType
<1>2. DOMAIN t.probes = 1 .. Len(t.probes)
  BY <1>1, LenProperties
<1>3. \/ d.target = t
      \/ d.target = Replied(t)
      \/ \E i \in 1 .. Len(t.probes) :
           d.target = Replied([t EXCEPT !.probes = RemoveAt(@, i)])
  <2> DEFINE R == { Replied([t EXCEPT !.probes = RemoveAt(@, i)]) :
                      i \in DOMAIN t.probes } \cup {Replied(t), t}
  <2>1. Datagrams(t) = { [target |-> u, closed |-> c] : u \in R, c \in BOOLEAN }
    BY DEF Datagrams
  <2> HIDE DEF R
  <2>2. PICK u \in R, c \in BOOLEAN : d = [target |-> u, closed |-> c]
    BY <2>1
  <2>3. d.target = u
    BY <2>2
  <2> USE DEF R
  <2> QED
    BY <1>2, <2>2, <2>3, Zenon
<1>4. CASE d.target = t
  BY <1>4, KeepsItself
<1>5. CASE d.target = Replied(t)
  BY <1>5, RepliedKeeps
<1>6. ASSUME NEW i \in 1 .. Len(t.probes),
             d.target = Replied([t EXCEPT !.probes = RemoveAt(@, i)])
      PROVE  Keeps(t, d.target)
  <2> DEFINE u == [t EXCEPT !.probes = RemoveAt(@, i)]
  <2>1. Keeps(t, u)
    BY FewerProbesKeeps
  <2>2. d.target = Replied(u)
    BY <1>6
  <2> HIDE DEF u
  <2>3. Keeps(u, Replied(u))
    BY <2>1, RepliedKeeps DEF Keeps
  <2> QED
    BY <2>1, <2>2, <2>3, KeepsChains
<1> QED
  BY <1>3, <1>4, <1>5, <1>6
LEMMA RedrainKeeps ==
  ASSUME NEW t, Sound(t), t.phase = "Draining", NEW u \in Redrain(t)
  PROVE  \/ Keeps(t, u)
         \/ Sound(u) /\ Same(t, u) /\ u.phase = "Closing" /\ u.cleanup
<1>1. t \in TargetType /\ t.end \in EndReasons
  BY DEF Sound, PhaseSound, TargetType
<1>2. CASE u \in BeginClose(t, t.end, TRUE)
  <2>1. TRUE \in BOOLEAN /\ t.phase # "Terminal"
    OBVIOUS
  <2> QED
    BY <1>1, <1>2, <2>1, BeginCloseGoes, Zenon
<1>3. CASE u \notin BeginClose(t, t.end, TRUE)
  <2> DEFINE d == Lesser(t.deadline, DrainDeadline(t, t.drained))
  <2>1. u = [t EXCEPT !.deadline = d]
    BY <1>1, <1>3 DEF Redrain, TargetType
  <2>2. /\ ~t.cleanup /\ t.drained \in 0 .. FinalDrain /\ t.deadline \in Nat
        /\ t.deadline + t.drained >= FinalDrain
        /\ \A k \in 1 .. Len(t.probes) : t.deadline >= t.probes[k].left + FinalDrain
    BY DEF Sound, DrainSound, PhaseSound
  <2>3. t.probes \in Seq(ProbeType) /\ ProbesSound(t.probes)
    BY <1>1 DEF Sound, TargetType
  <2>4. /\ DrainDeadline(t, t.drained) \in Nat
        /\ DrainDeadline(t, t.drained) + t.drained >= FinalDrain
        /\ \A k \in 1 .. Len(t.probes) :
             DrainDeadline(t, t.drained) >= t.probes[k].left + FinalDrain
    BY <2>2, <2>3, DrainDeadlineCovers
  <2>5. /\ d \in Nat /\ d \in Int /\ d + t.drained >= FinalDrain
        /\ \A k \in 1 .. Len(t.probes) : d >= t.probes[k].left + FinalDrain
    <3>1. d = t.deadline \/ d = DrainDeadline(t, t.drained)
      BY DEF Lesser
    <3> HIDE DEF d
    <3> QED
      BY <2>2, <2>4, <3>1
  <2> HIDE DEF d
  <2>6. u \in TargetType
    BY <1>1, <2>1, <2>5, Zenon DEF TargetType
  <2>7. /\ Same(t, u) /\ u.phase = t.phase /\ u.deadline = d /\ u.drained = t.drained
        /\ u.end = t.end /\ u.probes = t.probes /\ u.session = t.session
        /\ u.before = t.before /\ u.sent = t.sent /\ u.wire = t.wire
    BY <1>1, <2>1 DEF TargetType, Same
  <2>8. u.cleanup = t.cleanup
    BY <1>1, <2>1, Zenon DEF TargetType
  <2>9. DrainSound(u)
    BY <2>2, <2>5, <2>7, <2>8 DEF DrainSound
  <2>10. PhaseSound(u) /\ CountSound(u)
    BY <2>5, <2>7 DEF Sound, PhaseSound, CountSound
  <2>11. Sound(u)
    BY <2>3, <2>6, <2>7, <2>9, <2>10 DEF Sound
  <2> QED
    BY <2>7, <2>11, Zenon DEF Keeps
<1> QED
  BY <1>2, <1>3

(* A drain closes without a failure only past its deadline.                   *)
LEMMA AfterDrainGoes ==
  ASSUME NEW t, Sound(t), t.phase \in {"Draining", "Closing"}, NEW received \in BOOLEAN,
         NEW u \in AfterDrain(t, received)
  PROVE  /\ Sound(u) /\ Same(t, u)
         /\ \/ u = t
            \/ u.phase = t.phase
            \/ /\ t.phase = "Draining" /\ t.deadline <= 0 /\ u.phase = "Closing"
               /\ u.probes = t.probes
<1>1. t \in TargetType /\ t.end \in EndReasons /\ t.cleanup \in BOOLEAN /\ t.deadline \in Int
  BY DEF Sound, PhaseSound, TargetType
<1>2. CASE u = t
  BY <1>2 DEF Same
<1>3. ASSUME t.phase = "Draining", t.deadline <= 0, u \in BeginClose(t, t.end, t.cleanup)
      PROVE  Sound(u) /\ Same(t, u) /\ u.phase = "Closing" /\ u.probes = t.probes
  <2>1. t.phase # "Terminal"
    BY <1>3
  <2> QED
    BY <1>1, <1>3, <2>1, BeginCloseGoes, Zenon
<1>4. ASSUME u = [t EXCEPT !.receives = FewerReceives(@)]
      PROVE  Sound(u) /\ Same(t, u) /\ u.phase = t.phase
  <2> DEFINE r == FewerReceives(t.receives)
  <2>1. r \in Int /\ u = [t EXCEPT !.receives = r]
    BY <1>1, <1>4 DEF FewerReceives, TargetType
  <2> HIDE DEF r
  <2>2. u \in TargetType
    BY <1>1, <2>1, Zenon DEF TargetType
  <2>3. /\ Same(t, u) /\ u.phase = t.phase /\ u.deadline = t.deadline
        /\ u.drained = t.drained /\ u.end = t.end /\ u.probes = t.probes
        /\ u.session = t.session /\ u.before = t.before /\ u.sent = t.sent
        /\ u.wire = t.wire
    BY <1>1, <2>1 DEF TargetType, Same
  <2>4. u.cleanup = t.cleanup
    BY <1>1, <2>1, Zenon DEF TargetType
  <2>5. Keeps(t, u)
    BY <2>2, <2>3, <2>4, AsideKeeps
  <2> QED
    BY <2>5 DEF Keeps
<1>5. \/ u = t
      \/ u = [t EXCEPT !.receives = FewerReceives(@)]
      \/ /\ t.phase = "Draining" /\ ~(t.deadline > 0)
         /\ u \in BeginClose(t, t.end, t.cleanup)
  BY Zenon DEF AfterDrain
<1> QED
  BY <1>1, <1>2, <1>3, <1>4, <1>5

(* A clean end of a drain waited for everything.                              *)
LEMMA DrainEndWaited ==
  ASSUME NEW t, Sound(t), t.phase = "Draining", ~Due(t),
         NEW v, Keeps(t, v), v.deadline <= 0
  PROVE  t.drained >= FinalDrain /\ Waited(v)
<1>1. t \in TargetType /\ v \in TargetType /\ FinalDrain \in Nat
  BY TargetsAssumption DEF Sound, Keeps
<1>2. /\ v.drained = t.drained /\ v.drained \in 0 .. FinalDrain /\ v.deadline \in Nat
      /\ v.deadline + v.drained >= FinalDrain
      /\ \A k \in 1 .. Len(v.probes) : v.deadline >= v.probes[k].left + FinalDrain
  BY DEF Keeps, Sound, DrainSound, PhaseSound
<1>3. t.probes \in Seq(ProbeType) /\ ProbesSound(t.probes) /\ v.probes \in Seq(ProbeType)
  BY <1>1 DEF Sound, TargetType
<1>4. \A m \in 1 .. Len(t.probes) : t.probes[m].lost \/ t.probes[m].left > 0
  BY <1>3, NoneDue
<1>5. ASSUME NEW k \in 1 .. Len(v.probes)
      PROVE  v.probes[k].lost /\ v.probes[k].left <= -FinalDrain
  <2>1. v.probes[k] \in ProbeType
    BY <1>3, ElementOfSeq
  <2>2. v.probes[k].left \in Int
    BY <2>1 DEF ProbeType
  <2>3. v.probes[k].left <= -FinalDrain
    BY <1>1, <1>2, <2>2
  <2>4. PICK m \in 1 .. Len(t.probes) : v.probes[k] = t.probes[m]
    BY DEF Keeps
  <2> QED
    BY <1>1, <1>4, <2>2, <2>3, <2>4
<1>6. t.drained >= FinalDrain
  BY <1>1, <1>2
<1> QED
  BY <1>5, <1>6 DEF Waited
LEMMA CanReconnectRuns ==
  ASSUME NEW t, CanReconnect(t)
  PROVE  ~Stopping(t)
BY DEF CanReconnect, Stopping

(* A generation that finishes.                                                *)
LEMMA FinishGoes ==
  ASSUME NEW t, Sound(t), t.phase # "Terminal", NEW v, Keeps(t, v),
         NEW reason \in EndReasons, NEW u \in FinishTarget(Synced(v), reason)
  PROVE  Goes(t, u)
<1>1. v.phase # "Terminal" /\ Sound(v) /\ Same(t, v)
  BY DEF Keeps
<1>2. Synced(v) = v
  BY <1>1, SyncedSame
<1>3. /\ Sound(u) /\ Same(v, u)
      /\ u.phase = "Terminal" \/ (u.phase = "Retrying" /\ CanReconnect(v))
  BY <1>1, <1>2, FinishTargetGoes
<1>4. Same(t, u)
  BY <1>1, <1>3 DEF Same
<1>5. CanReconnect(v) => ~Stopping(t)
  BY <1>1 DEF CanReconnect, Stopping, Same, Desired
<1> QED
  BY <1>3, <1>4, <1>5 DEF Goes

(* One that closes or drains, but for the end of a drain.                     *)
LEMMA WindDownGoes ==
  ASSUME NEW t, t.phase # "Terminal", NEW u, Sound(u), Same(t, u),
         u.phase \in {"Draining", "Closing"},
         t.phase # "Draining" \/ u.phase = "Draining" \/ u.cleanup
  PROVE  Goes(t, u)
BY DEF Goes

LEMMA KeepsGoes ==
  ASSUME NEW t, NEW u, Keeps(t, u)
  PROVE  Goes(t, u)
BY DEF Goes, Keeps

LEMMA VisitDrainingGoes ==
  ASSUME NEW t, Sound(t), t.phase = "Draining", NEW u \in VisitDraining(t)
  PROVE  Goes(t, u)
<1>1. t.phase # "Terminal" /\ t.end \in EndReasons /\ t.deadline \in Nat
  BY DEF Sound, PhaseSound, TargetType
<1>2. CASE u = t
  BY <1>2, KeepsItself, KeepsGoes
<1>3. ASSUME ~Due(t), NEW v, Keeps(t, v), NEW received \in BOOLEAN,
             u \in AfterDrain(v, received)
      PROVE  Goes(t, u)
  <2>1. Sound(v) /\ v.phase = "Draining" /\ Same(t, v)
    BY <1>3 DEF Keeps
  <2>2. /\ Sound(u) /\ Same(v, u)
        /\ \/ u = v
           \/ u.phase = v.phase
           \/ v.deadline <= 0 /\ u.phase = "Closing" /\ u.probes = v.probes
    BY <1>3, <2>1, AfterDrainGoes
  <2>3. Same(t, u)
    BY <2>1, <2>2 DEF Same
  <2>4. v.deadline <= 0 => t.drained >= FinalDrain /\ Waited(v)
    BY <1>3, DrainEndWaited
  <2>5. CASE u.phase = "Draining"
    BY <1>1, <2>2, <2>3, <2>5 DEF Goes
  <2>6. CASE u.phase # "Draining"
    <3>1. t.drained >= FinalDrain /\ Waited(u) /\ u.phase = "Closing"
      BY <2>1, <2>2, <2>4, <2>6 DEF Waited
    <3> QED
      BY <1>1, <2>2, <2>3, <3>1 DEF Goes
  <2> QED
    BY <2>5, <2>6
<1>4. ASSUME ~Due(t), NEW d \in Datagrams(t), ~d.closed,
             NEW w \in Redrain(d.target), u \in AfterDrain(w, TRUE)
      PROVE  Goes(t, u)
  <2>1. Keeps(t, d.target)
    BY <1>4, DatagramKeeps
  <2>2. Sound(d.target) /\ d.target.phase = "Draining" /\ Same(t, d.target)
    BY <2>1 DEF Keeps
  <2>3. \/ Keeps(d.target, w)
        \/ Sound(w) /\ Same(d.target, w) /\ w.phase = "Closing" /\ w.cleanup
    BY <1>4, <2>2, RedrainKeeps
  <2>4. CASE Keeps(d.target, w)
    <3>1. Keeps(t, w)
      BY <2>1, <2>4, KeepsChains
    <3>2. TRUE \in BOOLEAN
      OBVIOUS
    <3> QED
      BY <1>3, <1>4, <3>1, <3>2, Zenon
  <2>5. CASE Sound(w) /\ Same(d.target, w) /\ w.phase = "Closing" /\ w.cleanup
    <3>1. u = w
      BY <1>4, <2>5 DEF AfterDrain
    <3>2. Same(t, u)
      BY <2>2, <2>5, <3>1 DEF Same
    <3> QED
      BY <1>1, <2>5, <3>1, <3>2, WindDownGoes
  <2> QED
    BY <2>3, <2>4, <2>5
<1>5. ASSUME NEW d \in Datagrams(t), u \in FinishTarget(Synced(d.target), "PeerClosed")
      PROVE  Goes(t, u)
  <2>1. Keeps(t, d.target) /\ "PeerClosed" \in EndReasons
    BY <1>5, DatagramKeeps DEF EndReasons
  <2> QED
    BY <1>1, <1>5, <2>1, FinishGoes
<1>6. CASE u \in BeginClose(Synced(t), t.end, TRUE)
  <2>1. Synced(t) = t /\ TRUE \in BOOLEAN
    BY <1>1, SyncedSame
  <2>2. Sound(u) /\ Same(t, u) /\ u.phase = "Closing" /\ u.cleanup
    BY <1>1, <1>6, <2>1, BeginCloseGoes, Zenon
  <2> QED
    BY <1>1, <2>2, WindDownGoes
<1>7. CASE ~Due(t) /\ u \in AfterDrain(t, FALSE)
  <2>1. Keeps(t, t) /\ FALSE \in BOOLEAN
    BY KeepsItself
  <2> QED
    BY <1>3, <1>7, <2>1, Zenon
<1>8. \/ u = t
      \/ ~Due(t) /\ u \in AfterDrain(t, FALSE)
      \/ \E d \in Datagrams(t) : u \in FinishTarget(Synced(d.target), "PeerClosed")
      \/ ~Due(t) /\ \E d \in Datagrams(t) : ~d.closed /\
           \E w \in Redrain(d.target) : u \in AfterDrain(w, TRUE)
      \/ u \in BeginClose(Synced(t), t.end, TRUE)
  <2>1. CASE Due(t)
    BY <2>1, Zenon DEF VisitDraining
  <2>2. CASE ~Due(t)
    <3> DEFINE F(d) == IF d.closed THEN FinishTarget(Synced(d.target), "PeerClosed")
                       ELSE UNION { AfterDrain(w, TRUE) : w \in Redrain(d.target) }
    <3>1. VisitDraining(t) = AfterDrain(t, FALSE)
                             \cup (UNION { F(d) : d \in Datagrams(t) })
                             \cup BeginClose(Synced(t), t.end, TRUE)
      BY <2>2, Zenon DEF VisitDraining
    <3> HIDE DEF F
    <3>2. \/ u \in AfterDrain(t, FALSE)
          \/ \E d \in Datagrams(t) : u \in F(d)
          \/ u \in BeginClose(Synced(t), t.end, TRUE)
      <4> DEFINE X == { F(d) : d \in Datagrams(t) }
      <4>1. u \in AfterDrain(t, FALSE) \cup (UNION X) \cup BeginClose(Synced(t), t.end, TRUE)
        BY <3>1
      <4>2. (\E x \in X : u \in x) => \E d \in Datagrams(t) : u \in F(d)
        OBVIOUS
      <4> HIDE DEF X
      <4> QED
        BY <4>1, <4>2, Zenon
    <3>3. ASSUME NEW d \in Datagrams(t), u \in F(d)
          PROVE  \/ u \in FinishTarget(Synced(d.target), "PeerClosed")
                 \/ ~d.closed /\ \E w \in Redrain(d.target) : u \in AfterDrain(w, TRUE)
      BY <3>3, Zenon DEF F
    <3> QED
      BY <2>2, <3>2, <3>3, Zenon
  <2> QED
    BY <2>1, <2>2
<1> QED
  BY <1>2, <1>4, <1>5, <1>6, <1>7, <1>8, Zenon
LEMMA FinishedKeeps ==
  ASSUME NEW t, Sound(t)
  PROVE  Keeps(t, [t EXCEPT !.finished = TRUE])
<1> DEFINE u == [t EXCEPT !.finished = TRUE]
<1>1. t \in TargetType
  BY DEF Sound
<1>2. u = [t EXCEPT !.finished = TRUE]
  OBVIOUS
<1> HIDE DEF u
<1>3. u \in TargetType
  BY <1>1, <1>2, Grounds, Zenon DEF TargetType
<1>4. /\ Same(t, u) /\ u.phase = t.phase /\ u.deadline = t.deadline /\ u.drained = t.drained
      /\ u.end = t.end /\ u.probes = t.probes /\ u.session = t.session
      /\ u.before = t.before /\ u.sent = t.sent /\ u.wire = t.wire
  BY <1>1, <1>2 DEF TargetType, Same
<1>5. u.cleanup = t.cleanup
  BY <1>1, <1>2, Zenon DEF TargetType
<1>6. Keeps(t, u)
  BY <1>3, <1>4, <1>5, AsideKeeps
<1> QED
  BY <1>6 DEF u

LEMMA InFlightKeeps ==
  ASSUME NEW t, Sound(t)
  PROVE  Keeps(t, [t EXCEPT !.inFlight = TRUE])
<1> DEFINE u == [t EXCEPT !.inFlight = TRUE]
<1>1. t \in TargetType
  BY DEF Sound
<1>2. u = [t EXCEPT !.inFlight = TRUE]
  OBVIOUS
<1> HIDE DEF u
<1>3. u \in TargetType
  BY <1>1, <1>2, Grounds, Zenon DEF TargetType
<1>4. /\ Same(t, u) /\ u.phase = t.phase /\ u.deadline = t.deadline /\ u.drained = t.drained
      /\ u.end = t.end /\ u.probes = t.probes /\ u.session = t.session
      /\ u.before = t.before /\ u.sent = t.sent /\ u.wire = t.wire
  BY <1>1, <1>2 DEF TargetType, Same
<1>5. u.cleanup = t.cleanup
  BY <1>1, <1>2, Zenon DEF TargetType
<1>6. Keeps(t, u)
  BY <1>3, <1>4, <1>5, AsideKeeps
<1> QED
  BY <1>6 DEF u

LEMMA IdleKeeps ==
  ASSUME NEW t, Sound(t)
  PROVE  Keeps(t, [t EXCEPT !.waiting = FALSE])
<1> DEFINE u == [t EXCEPT !.waiting = FALSE]
<1>1. t \in TargetType
  BY DEF Sound
<1>2. u = [t EXCEPT !.waiting = FALSE]
  OBVIOUS
<1> HIDE DEF u
<1>3. u \in TargetType
  BY <1>1, <1>2, Grounds, Zenon DEF TargetType
<1>4. /\ Same(t, u) /\ u.phase = t.phase /\ u.deadline = t.deadline /\ u.drained = t.drained
      /\ u.end = t.end /\ u.probes = t.probes /\ u.session = t.session
      /\ u.before = t.before /\ u.sent = t.sent /\ u.wire = t.wire
  BY <1>1, <1>2 DEF TargetType, Same
<1>5. u.cleanup = t.cleanup
  BY <1>1, <1>2, Zenon DEF TargetType
<1>6. Keeps(t, u)
  BY <1>3, <1>4, <1>5, AsideKeeps
<1> QED
  BY <1>6 DEF u

LEMMA WaitingKeeps ==
  ASSUME NEW t, Sound(t)
  PROVE  Keeps(t, [t EXCEPT !.waiting = TRUE, !.silence = None, !.replied = None])
<1> DEFINE u == [t EXCEPT !.waiting = TRUE, !.silence = None, !.replied = None]
<1>1. t \in TargetType
  BY DEF Sound
<1>2. u = [t EXCEPT !.waiting = TRUE, !.silence = None, !.replied = None]
  OBVIOUS
<1> HIDE DEF u
<1>3. u \in TargetType
  BY <1>1, <1>2, Grounds, Zenon DEF TargetType
<1>4. /\ Same(t, u) /\ u.phase = t.phase /\ u.deadline = t.deadline /\ u.drained = t.drained
      /\ u.end = t.end /\ u.probes = t.probes /\ u.session = t.session
      /\ u.before = t.before /\ u.sent = t.sent /\ u.wire = t.wire
  BY <1>1, <1>2 DEF TargetType, Same
<1>5. u.cleanup = t.cleanup
  BY <1>1, <1>2, Zenon DEF TargetType
<1>6. Keeps(t, u)
  BY <1>3, <1>4, <1>5, AsideKeeps
<1> QED
  BY <1>6 DEF u

LEMMA SilenceKeeps ==
  ASSUME NEW t, Sound(t), NEW d \in Int
  PROVE  Keeps(t, [t EXCEPT !.silence = d])
<1> DEFINE u == [t EXCEPT !.silence = d]
<1>1. t \in TargetType
  BY DEF Sound
<1>2. u = [t EXCEPT !.silence = d]
  OBVIOUS
<1> HIDE DEF u
<1>3. u \in TargetType
  BY <1>1, <1>2, Grounds, Zenon DEF TargetType
<1>4. /\ Same(t, u) /\ u.phase = t.phase /\ u.deadline = t.deadline /\ u.drained = t.drained
      /\ u.end = t.end /\ u.probes = t.probes /\ u.session = t.session
      /\ u.before = t.before /\ u.sent = t.sent /\ u.wire = t.wire
  BY <1>1, <1>2 DEF TargetType, Same
<1>5. u.cleanup = t.cleanup
  BY <1>1, <1>2, Zenon DEF TargetType
<1>6. Keeps(t, u)
  BY <1>3, <1>4, <1>5, AsideKeeps
<1> QED
  BY <1>6 DEF u
(* A change of phase of a target with no deadline and no end.                 *)
LEMMA AdvanceSound ==
  ASSUME NEW t, Sound(t), t.phase \in {"Retrying", "Pending", "Connecting", "Opening"},
         NEW u \in TargetType, Same(t, u), u.probes = t.probes, u.end = t.end,
         u.deadline = None, u.phase \in {"Pending", "Connecting", "Opening", "Active"},
         u.session = t.session, u.before = t.before, u.sent = t.sent, u.wire = t.wire
  PROVE  Sound(u)
<1>1. PhaseSound(u) /\ DrainSound(u)
  BY DEF Sound, PhaseSound, DrainSound
<1>2. CountSound(u) /\ ProbesSound(u.probes)
  BY DEF Sound, CountSound
<1> QED
  BY <1>1, <1>2 DEF Sound

LEMMA AfterReceiveGoes ==
  ASSUME NEW t, Sound(t), t.phase = "Active", NEW u \in AfterReceive(t)
  PROVE  Sound(u) /\ Same(t, u) /\ u.phase \in {"Active", "Draining", "Closing"}
<1>1. t.phase # "Terminal" /\ {"Failed", "TestComplete"} \subseteq EndReasons
  BY DEF EndReasons
<1>2. CASE u \in BeginClose(Synced(t), "Failed", FALSE)
  <2>1. Synced(t) = t /\ FALSE \in BOOLEAN
    BY <1>1, SyncedSame
  <2> QED
    BY <1>1, <1>2, <2>1, BeginCloseGoes, Zenon
<1>3. ASSUME NEW v \in {t, [t EXCEPT !.finished = TRUE]},
             u = v \/ u \in BeginDrain(Synced(v), "TestComplete")
      PROVE  Sound(u) /\ Same(t, u) /\ u.phase \in {"Active", "Draining", "Closing"}
  <2>1. Keeps(t, v)
    BY KeepsItself, FinishedKeeps, Zenon
  <2>2. Sound(v) /\ v.phase = "Active" /\ Same(t, v)
    BY <2>1 DEF Keeps
  <2>3. CASE u = v
    BY <2>2, <2>3, Zenon
  <2>4. CASE u \in BeginDrain(Synced(v), "TestComplete")
    <3>1. Synced(v) = v /\ v.phase # "Terminal"
      BY <2>2, SyncedSame
    <3>2. Sound(u) /\ Same(v, u) /\ u.phase \in {"Draining", "Closing"}
      BY <1>1, <2>2, <2>4, <3>1, BeginDrainGoes, Zenon
    <3> QED
      BY <2>2, <3>2 DEF Same
  <2> QED
    BY <1>3, <2>3, <2>4
<1>4. \/ u \in BeginClose(Synced(t), "Failed", FALSE)
      \/ \E v \in {t, [t EXCEPT !.finished = TRUE]} :
           u = v \/ u \in BeginDrain(Synced(v), "TestComplete")
  <2>1. CASE Silent(t)
    BY <2>1, Zenon DEF AfterReceive
  <2>2. CASE ~Silent(t)
    <3> DEFINE F(v) == IF v.finished /\ v.probes = <<>>
                       THEN BeginDrain(Synced(v), "TestComplete") ELSE {v}
               V == {t, [t EXCEPT !.finished = TRUE]}
    <3>1. AfterReceive(t) = UNION { F(v) : v \in V }
      BY <2>2, Zenon DEF AfterReceive
    <3> HIDE DEF F, V
    <3>2. PICK v \in V : u \in F(v)
      BY <3>1
    <3>3. u = v \/ u \in BeginDrain(Synced(v), "TestComplete")
      BY <3>2, Zenon DEF F
    <3> QED
      BY <3>3 DEF V
  <2> QED
    BY <2>1, <2>2
<1> QED
  BY <1>2, <1>3, <1>4, Zenon

LEMMA EndReasonIsOne ==
  ASSUME NEW t \in TargetType
  PROVE  EndReason(t) \in EndReasons
BY DEF EndReason, EndReasons, TargetType, Memberships, Desired

LEMMA VisitOpeningGoes ==
  ASSUME NEW t, Sound(t), t.phase = "Opening", NEW u \in VisitOpening(t)
  PROVE  Goes(t, u)
<1>1. t \in TargetType /\ t.phase # "Terminal" /\ Keeps(t, t) /\ Synced(t) = t
  BY KeepsItself, SyncedSame DEF Sound
<1>2. EndReason(t) \in EndReasons /\ "NoTestComplete" \in EndReasons /\ "Failed" \in EndReasons
  BY <1>1, EndReasonIsOne DEF EndReasons
<1>3. ASSUME NEW reason \in EndReasons, u \in FinishTarget(t, reason)
      PROVE  Goes(t, u)
  BY <1>1, <1>3, FinishGoes
<1>4. CASE u \in BeginOpenSessionFailure(t, FALSE)
  <2>1. FALSE \in BOOLEAN
    OBVIOUS
  <2>2. Sound(u) /\ Same(t, u) /\ u.phase \in {"Draining", "Closing"}
    BY <1>1, <1>4, <2>1, SessionFailureGoes, Zenon
  <2> QED
    BY <1>1, <2>2, WindDownGoes
<1>5. CASE u = t
  BY <1>1, <1>5, KeepsGoes
<1>6. CASE u = [t EXCEPT !.inFlight = TRUE]
  BY <1>6, InFlightKeeps, KeepsGoes
<1>7. CASE ~Stopping(t) /\ u = [t EXCEPT !.phase = "Active", !.inFlight = FALSE]
  <2>1. u \in TargetType
    BY <1>1, <1>7, Zenon DEF TargetType, Phases
  <2>2. /\ Same(t, u) /\ u.probes = t.probes /\ u.end = t.end /\ u.phase = "Active"
        /\ u.deadline = t.deadline /\ u.session = t.session /\ u.before = t.before
        /\ u.sent = t.sent /\ u.wire = t.wire
    BY <1>1, <1>7 DEF TargetType, Same
  <2>3. t.deadline = None
    BY DEF Sound, PhaseSound
  <2>4. Sound(u)
    BY <2>1, <2>2, <2>3, AdvanceSound
  <2> QED
    BY <1>7, <2>2, <2>4 DEF Goes
<1>8. CASE Stopping(t)
  BY <1>1, <1>2, <1>3, <1>8, Zenon DEF VisitOpening
<1>9. CASE ~Stopping(t)
  <2>1. \/ u = t
        \/ u = [t EXCEPT !.inFlight = TRUE]
        \/ u = [t EXCEPT !.phase = "Active", !.inFlight = FALSE]
        \/ u \in BeginOpenSessionFailure(t, FALSE)
        \/ u \in FinishTarget(t, "NoTestComplete")
        \/ u \in FinishTarget(t, "Failed")
    BY <1>9, Zenon DEF VisitOpening
  <2> QED
    BY <1>2, <1>3, <1>4, <1>5, <1>6, <1>7, <1>9, <2>1, Zenon
<1> QED
  BY <1>8, <1>9

LEMMA VisitActiveGoes ==
  ASSUME NEW t, Sound(t), t.phase = "Active", NEW u \in VisitActive(t)
  PROVE  Goes(t, u)
<1>1. /\ t \in TargetType /\ t.phase # "Terminal" /\ Keeps(t, t) /\ Synced(t) = t
      /\ t.phase # "Draining"
  BY KeepsItself, SyncedSame DEF Sound
<1>2. EndReason(t) \in EndReasons /\ "PeerClosed" \in EndReasons
  BY <1>1, EndReasonIsOne DEF EndReasons
<1>3. CASE u \in BeginClose(t, EndReason(t), FALSE)
  <2>1. FALSE \in BOOLEAN
    OBVIOUS
  <2>2. Sound(u) /\ Same(t, u) /\ u.phase = "Closing"
    BY <1>1, <1>2, <1>3, <2>1, BeginCloseGoes, Zenon
  <2> QED
    BY <1>1, <2>2, WindDownGoes
<1>4. CASE u \in BeginDrain(t, EndReason(t))
  <2>1. Sound(u) /\ Same(t, u) /\ u.phase \in {"Draining", "Closing"}
    BY <1>1, <1>2, <1>4, BeginDrainGoes, Zenon
  <2> QED
    BY <1>1, <2>1, WindDownGoes
<1>5. CASE u = t
  BY <1>1, <1>5, KeepsGoes
<1>6. CASE u \in BeginOpenSessionFailure(t, FALSE)
  <2>1. FALSE \in BOOLEAN
    OBVIOUS
  <2>2. Sound(u) /\ Same(t, u) /\ u.phase \in {"Draining", "Closing"}
    BY <1>1, <1>6, <2>1, SessionFailureGoes, Zenon
  <2> QED
    BY <1>1, <2>2, WindDownGoes
<1>7. ASSUME NEW v, Keeps(t, v), u \in AfterReceive(v)
      PROVE  Goes(t, u)
  <2>1. Sound(v) /\ v.phase = "Active" /\ Same(t, v)
    BY <1>7 DEF Keeps
  <2>2. Sound(u) /\ Same(v, u) /\ u.phase \in {"Active", "Draining", "Closing"}
    BY <1>7, <2>1, AfterReceiveGoes, Zenon
  <2>3. Same(t, u)
    BY <2>1, <2>2 DEF Same
  <2> QED
    BY <2>2, <2>3 DEF Goes
<1>8. ASSUME NEW d \in Datagrams(t), u \in FinishTarget(Synced(d.target), "PeerClosed")
      PROVE  Goes(t, u)
  <2>1. Keeps(t, d.target)
    BY <1>8, DatagramKeeps
  <2> QED
    BY <1>1, <1>2, <1>8, <2>1, FinishGoes
<1>9. ASSUME NEW d \in Datagrams(t), u \in AfterReceive(d.target)
      PROVE  Goes(t, u)
  <2>1. Keeps(t, d.target)
    BY <1>9, DatagramKeeps
  <2> QED
    BY <1>7, <1>9, <2>1
<1>10. CASE Stopping(t)
  BY <1>1, <1>3, <1>4, <1>10, Zenon DEF VisitActive
<1>11. CASE ~Stopping(t) /\ Due(t)
  BY <1>5, <1>11, Zenon DEF VisitActive
<1>12. CASE ~Stopping(t) /\ ~Due(t)
  <2> DEFINE F(d) == IF d.closed THEN FinishTarget(Synced(d.target), "PeerClosed")
                     ELSE AfterReceive(d.target)
             X == { F(d) : d \in Datagrams(t) }
  <2>1. VisitActive(t) = AfterReceive(t) \cup (UNION X) \cup BeginOpenSessionFailure(t, FALSE)
    BY <1>12, Zenon DEF VisitActive
  <2>2. ASSUME NEW x \in X, u \in x PROVE Goes(t, u)
    <3> HIDE DEF F
    <3>1. PICK d \in Datagrams(t) : x = F(d)
      OBVIOUS
    <3>2. u \in FinishTarget(Synced(d.target), "PeerClosed") \/ u \in AfterReceive(d.target)
      BY <2>2, <3>1, Zenon DEF F
    <3> QED
      BY <1>8, <1>9, <3>2, Zenon
  <2> HIDE DEF X
  <2>3. u \in AfterReceive(t) \/ (\E x \in X : u \in x) \/ u \in BeginOpenSessionFailure(t, FALSE)
    BY <2>1, Zenon
  <2> QED
    BY <1>1, <1>6, <1>7, <2>2, <2>3, Zenon
<1> QED
  BY <1>10, <1>11, <1>12
LEMMA VisitClosingGoes ==
  ASSUME NEW t, Sound(t), t.phase = "Closing", NEW u \in VisitClosing(t)
  PROVE  Goes(t, u)
<1>1. t.phase # "Terminal" /\ t.end \in EndReasons /\ Keeps(t, t)
  BY KeepsItself DEF Sound, PhaseSound, TargetType
<1>2. CASE u = t
  BY <1>1, <1>2, KeepsGoes
<1>3. CASE u \in FinishTarget(Synced(t), t.end)
  BY <1>1, <1>3, FinishGoes
<1>4. u = t \/ u \in FinishTarget(Synced(t), t.end)
  BY Zenon DEF VisitClosing
<1> QED
  BY <1>2, <1>3, <1>4

(* Any visit leaves a later state of the same generation.                     *)
LEMMA PollTargetGoes ==
  ASSUME NEW t, Sound(t), NEW u \in PollTarget(t)
  PROVE  Goes(t, u)
<1>1. t \in TargetType /\ t.phase \in Phases /\ Keeps(t, t)
  BY KeepsItself DEF Sound, TargetType
<1>2. EndReason(t) \in EndReasons /\ "Failed" \in EndReasons
  BY <1>1, EndReasonIsOne DEF EndReasons
<1>3. ASSUME t.phase # "Terminal", NEW reason \in EndReasons, u \in FinishTarget(t, reason)
      PROVE  Goes(t, u)
  <2>1. Synced(t) = t
    BY <1>3, SyncedSame
  <2> QED
    BY <1>1, <1>3, <2>1, FinishGoes
<1>4. CASE u = t
  BY <1>1, <1>4, KeepsGoes
<1>5. ASSUME NEW phase \in {"Connecting", "Opening"}, ~Stopping(t),
             t.phase \in {"Pending", "Connecting"}, u = [t EXCEPT !.phase = phase]
      PROVE  Goes(t, u)
  <2>1. u \in TargetType
    <3>1. phase \in Phases
      BY DEF Phases
    <3> QED
      BY <1>1, <1>5, <3>1, Zenon DEF TargetType
  <2>2. /\ Same(t, u) /\ u.probes = t.probes /\ u.end = t.end /\ u.phase = phase
        /\ u.deadline = t.deadline /\ u.session = t.session /\ u.before = t.before
        /\ u.sent = t.sent /\ u.wire = t.wire
    BY <1>1, <1>5 DEF TargetType, Same
  <2>3. t.deadline = None
    BY <1>5 DEF Sound, PhaseSound
  <2>4. Sound(u)
    BY <1>5, <2>1, <2>2, <2>3, AdvanceSound
  <2> QED
    BY <1>5, <2>2, <2>4 DEF Goes
<1>6. CASE t.phase = "Retrying" /\ ~Stopping(t)
           /\ u = [t EXCEPT !.phase = "Pending", !.deadline = None]
  <2>1. u \in TargetType
    BY <1>1, <1>6, Grounds, Zenon DEF TargetType, Phases
  <2>2. /\ Same(t, u) /\ u.probes = t.probes /\ u.end = t.end /\ u.phase = "Pending"
        /\ u.deadline = None /\ u.session = t.session /\ u.before = t.before
        /\ u.sent = t.sent /\ u.wire = t.wire
    BY <1>1, <1>6 DEF TargetType, Same
  <2>3. Sound(u)
    BY <1>6, <2>1, <2>2, AdvanceSound
  <2> QED
    BY <1>6, <2>2, <2>3 DEF Goes
<1>7. CASE t.phase \in {"Retrying", "Pending", "Connecting"} /\ Stopping(t)
  <2>1. PollTarget(t) = FinishTarget(t, EndReason(t)) /\ t.phase # "Terminal"
    BY <1>7 DEF PollTarget
  <2> QED
    BY <1>2, <1>3, <2>1
<1>8. CASE t.phase = "Retrying" /\ ~Stopping(t)
  <2>1. PollTarget(t) = {IF t.deadline > 0 THEN t
                         ELSE [t EXCEPT !.phase = "Pending", !.deadline = None]}
    BY <1>8 DEF PollTarget
  <2> QED
    BY <1>4, <1>6, <1>8, <2>1, Zenon
<1>9. CASE t.phase = "Pending" /\ ~Stopping(t)
  <2>1. PollTarget(t) = {[t EXCEPT !.phase = "Connecting"]}
    BY <1>9 DEF PollTarget
  <2>2. t.phase \in {"Pending", "Connecting"} /\ "Connecting" \in {"Connecting", "Opening"}
    BY <1>9
  <2> QED
    BY <1>5, <1>9, <2>1, <2>2, Zenon
<1>10. CASE t.phase = "Connecting" /\ ~Stopping(t)
  <2>1. PollTarget(t) = {t, [t EXCEPT !.phase = "Opening"]} \cup FinishTarget(t, "Failed")
    BY <1>10 DEF PollTarget
  <2>2. /\ t.phase \in {"Pending", "Connecting"} /\ "Opening" \in {"Connecting", "Opening"}
        /\ t.phase # "Terminal"
    BY <1>10
  <2> QED
    BY <1>2, <1>3, <1>4, <1>5, <1>10, <2>1, <2>2, Zenon
<1>11. CASE t.phase = "Opening"
  <2>1. PollTarget(t) = VisitOpening(t)
    BY <1>11 DEF PollTarget
  <2> QED
    BY <1>11, <2>1, VisitOpeningGoes
<1>12. CASE t.phase = "Active"
  <2>1. PollTarget(t) = VisitActive(t)
    BY <1>12 DEF PollTarget
  <2> QED
    BY <1>12, <2>1, VisitActiveGoes
<1>13. CASE t.phase = "Draining"
  <2>1. PollTarget(t) = VisitDraining(t)
    BY <1>13 DEF PollTarget
  <2> QED
    BY <1>13, <2>1, VisitDrainingGoes
<1>14. CASE t.phase = "Closing"
  <2>1. PollTarget(t) = VisitClosing(t)
    BY <1>14 DEF PollTarget
  <2> QED
    BY <1>14, <2>1, VisitClosingGoes
<1>15. CASE t.phase = "Terminal"
  <2>1. PollTarget(t) = {t}
    BY <1>15 DEF PollTarget
  <2> QED
    BY <1>4, <2>1
<1> QED
  BY <1>1, <1>7, <1>8, <1>9, <1>10, <1>11, <1>12, <1>13, <1>14, <1>15 DEF Phases

(* The probe a timeout takes.                                                  *)
LEMMA OldestPending ==
  ASSUME NEW t, t.probes \in Seq(ProbeType), Due(t)
  PROVE  SelectInSeq(t.probes, LAMBDA p : ~p.lost) \in 1 .. Len(t.probes)
<1> DEFINE I == { i \in 1 .. Len(t.probes) : ~t.probes[i].lost }
<1>1. DOMAIN t.probes = 1 .. Len(t.probes) /\ Len(t.probes) \in Nat
  BY LenProperties
<1>2. I # {} /\ \A i \in I : i \in Nat
  BY <1>1 DEF Due
<1>3. I \subseteq Nat
  BY <1>2
<1>4. SelectInSeq(t.probes, LAMBDA p : ~p.lost) = IF I # {} THEN Min(I) ELSE 0
  BY DEF SelectInSeq
<1>5. Min(I) \in I
  <2> HIDE DEF I
  <2>1. \E m \in I : \A y \in I : m <= y
    BY <1>2, <1>3, NatLeast
  <2> QED
    BY <2>1 DEF Min
<1> QED
  BY <1>2, <1>4, <1>5

(* A probe lost while draining.                                                *)
LEMMA LostSound ==
  ASSUME NEW t, Sound(t), NEW i \in 1 .. Len(t.probes)
  PROVE  LET u == [t EXCEPT !.probes = [@ EXCEPT ![i].lost = TRUE]]
         IN  Sound(u) /\ Same(t, u) /\ u.phase = t.phase
<1> DEFINE p == t.probes
           n == Len(p)
           q == [p EXCEPT ![i] = [p[i] EXCEPT !.lost = TRUE]]
           u == [t EXCEPT !.probes = [@ EXCEPT ![i].lost = TRUE]]
<1>1. t \in TargetType /\ p \in Seq(ProbeType) /\ ProbesSound(p)
  BY DEF Sound, TargetType
<1>2. n \in Nat /\ i \in 1 .. n /\ p[i] \in ProbeType
  BY <1>1, LenProperties, ElementOfSeq
<1>3. u = [t EXCEPT !.probes = q]
  BY <1>1, <1>2 DEF TargetType
<1>4. [p[i] EXCEPT !.lost = TRUE] \in ProbeType
  BY <1>2, Zenon DEF ProbeType
<1>5. [p[i] EXCEPT !.lost = TRUE].left = p[i].left
  BY <1>2 DEF ProbeType
<1>6. /\ q \in Seq(ProbeType) /\ Len(q) = n
      /\ \A k \in 1 .. n : q[k] = IF k = i THEN [p[i] EXCEPT !.lost = TRUE] ELSE p[k]
  BY <1>1, <1>2, <1>4, ExceptSeq
<1>7. \A k \in 1 .. n : q[k].left = p[k].left
  BY <1>5, <1>6
<1> HIDE DEF q, u
<1>8. ProbesSound(q)
  BY <1>1, <1>6, <1>7 DEF ProbesSound
<1>9. u \in TargetType
  BY <1>1, <1>3, <1>6, Zenon DEF TargetType
<1>10. /\ Same(t, u) /\ u.phase = t.phase /\ u.deadline = t.deadline /\ u.drained = t.drained
       /\ u.end = t.end /\ u.probes = q /\ u.session = t.session
       /\ u.before = t.before /\ u.sent = t.sent /\ u.wire = t.wire
  BY <1>1, <1>3 DEF TargetType, Same
<1>11. u.cleanup = t.cleanup
  BY <1>1, <1>3, Zenon DEF TargetType
<1>12. DrainSound(u)
  BY <1>6, <1>7, <1>10, <1>11 DEF Sound, DrainSound
<1>13. PhaseSound(u) /\ CountSound(u)
  BY <1>10 DEF Sound, PhaseSound, CountSound
<1>14. Sound(u)
  BY <1>8, <1>9, <1>10, <1>12, <1>13 DEF Sound
<1> QED
  BY <1>10, <1>14 DEF u

LEMMA PollTargetTimeoutGoes ==
  ASSUME NEW t, Sound(t), TargetHasDueTimeout(t), NEW u \in PollTargetTimeout(t)
  PROVE  Goes(t, u)
<1> DEFINE i == SelectInSeq(t.probes, LAMBDA p : ~p.lost)
           lost == [t EXCEPT !.probes = [@ EXCEPT ![i].lost = TRUE]]
           fewer == [t EXCEPT !.probes = RemoveAt(@, i)]
<1>1. t.phase \in {"Draining", "Active"} /\ Due(t) /\ t.phase # "Terminal"
  BY DEF TargetHasDueTimeout
<1>2. t \in TargetType /\ t.probes \in Seq(ProbeType) /\ Synced(t) = t
  BY <1>1, SyncedSame DEF Sound, TargetType
<1>3. i \in 1 .. Len(t.probes)
  BY <1>1, <1>2, OldestPending
<1>4. CASE t.phase = "Draining"
  <2>1. PollTargetTimeout(t) = Redrain(lost) \cup BeginClose(t, t.end, TRUE)
    BY <1>2, <1>4 DEF PollTargetTimeout
  <2>2. t.end \in EndReasons /\ TRUE \in BOOLEAN
    BY <1>2, <1>4 DEF Sound, PhaseSound, TargetType
  <2>3. Sound(lost) /\ Same(t, lost) /\ lost.phase = "Draining"
    BY <1>3, <1>4, LostSound
  <2> HIDE DEF lost
  <2>4. CASE u \in BeginClose(t, t.end, TRUE)
    <3>1. Sound(u) /\ Same(t, u) /\ u.phase = "Closing" /\ u.cleanup
      BY <1>1, <2>2, <2>4, BeginCloseGoes, Zenon
    <3> QED
      BY <1>1, <3>1, WindDownGoes
  <2>5. CASE u \in Redrain(lost)
    <3>1. \/ Keeps(lost, u)
          \/ Sound(u) /\ Same(lost, u) /\ u.phase = "Closing" /\ u.cleanup
      BY <2>3, <2>5, RedrainKeeps
    <3>2. /\ Sound(u) /\ Same(lost, u)
          /\ u.phase = "Draining" \/ (u.phase = "Closing" /\ u.cleanup)
      BY <2>3, <3>1, Zenon DEF Keeps
    <3>3. Same(t, u)
      BY <2>3, <3>2 DEF Same
    <3> QED
      BY <1>1, <3>2, <3>3, WindDownGoes, Zenon
  <2> QED
    BY <2>1, <2>4, <2>5, Zenon
<1>5. CASE t.phase = "Active"
  <2>1. PollTargetTimeout(t) = {fewer} \cup BeginOpenSessionFailure(t, FALSE)
    BY <1>5 DEF PollTargetTimeout
  <2>2. Keeps(t, fewer)
    BY <1>3, FewerProbesKeeps
  <2> HIDE DEF fewer
  <2>3. CASE u = fewer
    BY <2>2, <2>3, KeepsGoes
  <2>4. CASE u \in BeginOpenSessionFailure(t, FALSE)
    <3>1. FALSE \in BOOLEAN
      OBVIOUS
    <3>2. Sound(u) /\ Same(t, u) /\ u.phase \in {"Draining", "Closing"}
      BY <1>1, <2>4, <3>1, SessionFailureGoes, Zenon
    <3>3. t.phase # "Draining"
      BY <1>5
    <3> QED
      BY <1>1, <3>2, <3>3, WindDownGoes, Zenon
  <2> QED
    BY <2>1, <2>3, <2>4, Zenon
<1> QED
  BY <1>1, <1>4, <1>5
(* A probe sent: it is counted at once, and times out last.                   *)
LEMMA SentSound ==
  ASSUME NEW t, Sound(t), t.phase = "Active"
  PROVE  LET v == Synced([t EXCEPT !.session = @ + 1, !.wire = @ + 1,
                           !.probes = Append(@, [left |-> ProbeTimeout, lost |-> FALSE])])
         IN  Sound(v) /\ Same(t, v) /\ v.phase = "Active"
<1> DEFINE new == [left |-> ProbeTimeout, lost |-> FALSE]
           p == t.probes
           n == Len(p)
           q == Append(p, new)
           w == [t EXCEPT !.session = @ + 1, !.wire = @ + 1, !.probes = Append(@, new)]
           v == Synced(w)
<1>1. t \in TargetType /\ p \in Seq(ProbeType) /\ ProbesSound(p) /\ ProbeTimeout \in Int
  BY TargetsAssumption DEF Sound, TargetType
<1>2. new \in ProbeType
  BY <1>1, Zenon DEF ProbeType
<1>3. new.left = ProbeTimeout /\ ProbeTimeout \in Nat /\ FinalDrain \in Nat
  BY TargetsAssumption
<1> HIDE DEF new
<1>4. /\ n \in Nat /\ q \in Seq(ProbeType) /\ Len(q) = n + 1
      /\ \A k \in 1 .. n + 1 : q[k] = IF k = n + 1 THEN new ELSE p[k]
  BY <1>1, <1>2
<1>5. \A k \in 1 .. n : p[k].left \in Int
  <2>1. \A k \in 1 .. n : p[k] \in ProbeType
    BY <1>1, ElementOfSeq
  <2> QED
    BY <2>1 DEF ProbeType
<1>6. ProbesSound(q)
  <2>1. \A k \in 1 .. n + 1 : q[k].left >= -FinalDrain /\ q[k].left <= ProbeTimeout
    BY <1>1, <1>3, <1>4, <1>5 DEF ProbesSound
  <2>2. \A j, k \in 1 .. n + 1 : j <= k => q[j].left <= q[k].left
    <3> SUFFICES ASSUME NEW j \in 1 .. n + 1, NEW k \in 1 .. n + 1, j <= k
                 PROVE  q[j].left <= q[k].left
      OBVIOUS
    <3>1. CASE k = n + 1
      BY <1>3, <1>4, <2>1, <3>1
    <3>2. CASE k # n + 1
      <4>1. j \in 1 .. n /\ k \in 1 .. n /\ q[j] = p[j] /\ q[k] = p[k]
        BY <1>4, <3>2
      <4> QED
        BY <1>1, <4>1 DEF ProbesSound
    <3> QED
      BY <3>1, <3>2
  <2> QED
    BY <1>4, <2>1, <2>2 DEF ProbesSound
<1>7. /\ t.session + 1 \in Nat /\ t.wire + 1 \in Nat /\ t.before + (t.session + 1) \in Nat
      /\ t.before + (t.session + 1) = t.wire + 1
  BY <1>1 DEF Sound, CountSound, TargetType
<1> DEFINE s == t.session + 1
           x == t.wire + 1
           b == t.before + (t.session + 1)
<1>8. w = [t EXCEPT !.session = s, !.wire = x, !.probes = q]
  BY <1>1 DEF TargetType
<1>9. s \in Nat /\ x \in Nat /\ b \in Nat /\ b = x /\ b = t.before + s
  BY <1>7
<1> HIDE DEF w, q, s, x, b
<1>10. w \in TargetType
  BY <1>1, <1>4, <1>8, <1>9, Zenon DEF TargetType
<1>11. /\ Same(t, w) /\ w.phase = t.phase /\ w.deadline = t.deadline /\ w.end = t.end
       /\ w.probes = q /\ w.session = s /\ w.before = t.before /\ w.wire = x
  BY <1>1, <1>8 DEF TargetType, Same
<1>12. v = [w EXCEPT !.sent = b]
  BY <1>9, <1>11 DEF Synced
<1> HIDE DEF v
<1>13. v \in TargetType
  BY <1>9, <1>10, <1>12, Zenon DEF TargetType
<1>14. /\ Same(t, v) /\ v.phase = t.phase /\ v.deadline = t.deadline /\ v.end = t.end
       /\ v.probes = q /\ v.session = s /\ v.before = t.before /\ v.wire = x /\ v.sent = b
  BY <1>10, <1>11, <1>12 DEF TargetType, Same
<1>15. PhaseSound(v) /\ CountSound(v) /\ DrainSound(v)
  BY <1>9, <1>14 DEF Sound, PhaseSound, CountSound, DrainSound
<1>16. Sound(v)
  BY <1>6, <1>13, <1>14, <1>15 DEF Sound
<1> QED
  BY <1>14, <1>16 DEF v, w, new

LEMMA ArmedKeeps ==
  ASSUME NEW t, Sound(t), Reconnects
  PROVE  Keeps(t, Armed(t))
<1> DEFINE d == Reconnect - (IF t.replied = None THEN 0 ELSE t.replied)
<1>1. t.replied \in Int
  BY DEF Sound, TargetType
<1>2. d \in Int
  BY <1>1 DEF Reconnects
<1>3. Armed(t) = t \/ Armed(t) = [t EXCEPT !.silence = d]
  BY DEF Armed
<1> HIDE DEF d
<1> QED
  BY <1>2, <1>3, KeepsItself, SilenceKeeps

LEMMA PollOneSendGoes ==
  ASSUME NEW t, Sound(t), t.phase = "Active", Reconnects, NEW u \in PollOneSend(t)
  PROVE  Goes(t, u)
<1> DEFINE idle == [t EXCEPT !.waiting = FALSE]
           finished == [idle EXCEPT !.finished = TRUE]
           sent == Synced([idle EXCEPT !.session = @ + 1, !.wire = @ + 1,
                     !.probes = Append(@, [left |-> ProbeTimeout, lost |-> FALSE])])
           accepted == Armed(sent)
           done == [accepted EXCEPT !.finished = TRUE]
           blocked == [Synced(t) EXCEPT !.waiting = TRUE, !.silence = None, !.replied = None]
           Mine(v) == Sound(v) /\ Same(t, v) /\ v.phase = "Active"
<1>1. \A v : Mine(t) /\ Keeps(t, v) => Mine(v)
  BY DEF Keeps
<1>2. ASSUME NEW v, NEW w, Mine(v), Keeps(v, w)
      PROVE  Mine(w)
  BY <1>2 DEF Keeps, Same
<1>3. Mine(t) /\ Synced(t) = t
  BY SyncedSame DEF Same
<1>4. Mine(idle)
  BY <1>1, <1>3, IdleKeeps
<1>5. Mine(finished)
  <2> HIDE DEF idle
  <2>1. Keeps(idle, finished)
    BY <1>4, FinishedKeeps
  <2> QED
    BY <1>2, <1>4, <2>1
<1>6. Mine(sent)
  <2> HIDE DEF idle
  <2>1. Sound(sent) /\ Same(idle, sent) /\ sent.phase = "Active"
    BY <1>4, SentSound
  <2> HIDE DEF sent
  <2> QED
    BY <1>4, <2>1 DEF Same
<1>7. Mine(accepted)
  <2> HIDE DEF sent
  <2>1. Keeps(sent, accepted)
    BY <1>6, ArmedKeeps
  <2> QED
    BY <1>2, <1>6, <2>1
<1>8. Mine(done)
  <2> HIDE DEF accepted
  <2>1. Keeps(accepted, done)
    BY <1>7, FinishedKeeps
  <2> QED
    BY <1>2, <1>7, <2>1
<1>9. Mine(blocked)
  BY <1>1, <1>3, WaitingKeeps
<1>10. \/ u \in {idle, finished, accepted, done, blocked}
       \/ u \in BeginDrain(Synced(finished), "TestComplete")
       \/ u \in BeginOpenSessionFailure(idle, TRUE)
       \/ u \in BeginOpenSessionFailure(accepted, TRUE)
  BY Zenon DEF PollOneSend
<1> HIDE DEF idle, finished, accepted, done, blocked
<1>11. ASSUME NEW v, Mine(v), u = v PROVE Goes(t, u)
  BY <1>11 DEF Goes
<1>12. ASSUME NEW v, Mine(v), u \in BeginOpenSessionFailure(v, TRUE) PROVE Goes(t, u)
  <2>1. TRUE \in BOOLEAN /\ v.phase # "Terminal" /\ Sound(v) /\ Same(t, v)
    BY <1>12
  <2>2. Sound(u) /\ Same(v, u) /\ u.phase \in {"Draining", "Closing"}
    BY <1>12, <2>1, SessionFailureGoes, Zenon
  <2>3. Same(t, u) /\ t.phase # "Terminal" /\ t.phase # "Draining"
    BY <2>1, <2>2 DEF Same
  <2> QED
    BY <2>2, <2>3, WindDownGoes
<1>13. CASE u \in BeginDrain(Synced(finished), "TestComplete")
  <2>1. /\ finished.phase # "Terminal" /\ Sound(finished) /\ Same(t, finished)
        /\ "TestComplete" \in EndReasons
    BY <1>5 DEF EndReasons
  <2>2. Synced(finished) = finished
    BY <2>1, SyncedSame
  <2>3. Sound(u) /\ Same(finished, u) /\ u.phase \in {"Draining", "Closing"}
    BY <1>13, <2>1, <2>2, BeginDrainGoes, Zenon
  <2>4. Same(t, u) /\ t.phase # "Terminal" /\ t.phase # "Draining"
    BY <2>1, <2>3 DEF Same
  <2> QED
    BY <2>3, <2>4, WindDownGoes
<1> HIDE DEF Mine
<1> QED
  BY <1>4, <1>5, <1>7, <1>8, <1>9, <1>10, <1>11, <1>12, <1>13, Zenon

(* A tick: a drain's deadline comes no nearer than its own time and that of   *)
(* every probe allow.                                                          *)
LEMMA DeadlinePasses ==
  ASSUME NEW deadline \in Int, NEW left \in Int, deadline >= left + FinalDrain
  PROVE  Greater(deadline - 1, 0) >= Passed(left) + FinalDrain
BY TargetsAssumption DEF Greater, Passed

LEMMA AgedGoes ==
  ASSUME NEW t, Sound(t), Reconnects
  PROVE  Goes(t, Aged(t)) /\ Aged(t).phase = t.phase
<1> DEFINE p == t.probes
           n == Len(p)
           q == [i \in DOMAIN p |-> [left |-> Passed(p[i].left), lost |-> p[i].lost]]
           d == IF t.deadline = None THEN None ELSE Greater(t.deadline - 1, 0)
           e == IF t.drained = None THEN None ELSE Lesser(t.drained + 1, FinalDrain)
           s == IF t.silence = None THEN None ELSE Greater(t.silence - 1, 0)
           r == IF t.replied = None \/ t.replied + 1 >= Reconnect THEN None ELSE t.replied + 1
           u == Aged(t)
<1>1. t \in TargetType /\ p \in Seq(ProbeType) /\ ProbesSound(p) /\ FinalDrain \in Nat
  BY TargetsAssumption DEF Sound, TargetType
<1>2. /\ n \in Nat /\ DOMAIN p = 1 .. n /\ \A k \in 1 .. n : p[k] \in ProbeType
  BY <1>1, LenProperties, ElementOfSeq
<1>3. \A k \in 1 .. n : p[k].left \in Int
  BY <1>2 DEF ProbeType
<1>4. \A k \in 1 .. n : Passed(p[k].left) \in Int
  BY <1>1, <1>3 DEF Passed, Greater
<1>5. \A k \in 1 .. n : [left |-> Passed(p[k].left), lost |-> p[k].lost] \in ProbeType
  BY <1>2, <1>4, Zenon DEF ProbeType
<1>6. q \in Seq(ProbeType) /\ Len(q) = n
  BY <1>2, <1>5, IsASeq
<1>7. \A k \in 1 .. n : q[k].left = Passed(p[k].left)
  BY <1>2 DEF ProbeType
<1>8. u = [t EXCEPT !.deadline = d, !.drained = e, !.probes = q, !.silence = s, !.replied = r]
  BY <1>1, Zenon DEF Aged, TargetType
<1>9. d \in Int /\ e \in Int /\ s \in Int /\ r \in Int
  <2>1. t.deadline \in Int /\ t.drained \in Int /\ t.silence \in Int /\ t.replied \in Int
    BY <1>1 DEF TargetType
  <2> QED
    BY <1>1, <2>1, Grounds DEF Greater, Lesser, Reconnects
<1> HIDE DEF q, d, e, s, r, u
<1>10. u \in TargetType
  BY <1>1, <1>6, <1>8, <1>9, Zenon DEF TargetType
<1>11. /\ Same(t, u) /\ u.phase = t.phase /\ u.deadline = d /\ u.drained = e
       /\ u.end = t.end /\ u.probes = q /\ u.session = t.session
       /\ u.before = t.before /\ u.sent = t.sent /\ u.wire = t.wire
  BY <1>1, <1>8 DEF TargetType, Same
<1>12. u.cleanup = t.cleanup
  BY <1>1, <1>8, Zenon DEF TargetType
<1>13. ProbesSound(q)
  <2>1. \A k \in 1 .. n : q[k].left >= -FinalDrain /\ q[k].left <= ProbeTimeout
    <3> SUFFICES ASSUME NEW k \in 1 .. n
                 PROVE  q[k].left >= -FinalDrain /\ q[k].left <= ProbeTimeout
      OBVIOUS
    <3>1. p[k].left <= ProbeTimeout /\ ProbeTimeout \in Nat
      BY <1>1, TargetsAssumption DEF ProbesSound
    <3> QED
      BY <1>1, <1>3, <1>7, <3>1 DEF Passed, Greater
  <2>2. \A j, k \in 1 .. n : j <= k => q[j].left <= q[k].left
    <3> SUFFICES ASSUME NEW j \in 1 .. n, NEW k \in 1 .. n, j <= k
                 PROVE  q[j].left <= q[k].left
      OBVIOUS
    <3>1. p[j].left <= p[k].left
      BY <1>1 DEF ProbesSound
    <3> QED
      BY <1>1, <1>3, <1>7, <3>1 DEF Passed, Greater
  <2> QED
    BY <1>6, <2>1, <2>2 DEF ProbesSound
<1>14. PhaseSound(u)
  <2>1. CASE t.phase \in {"Retrying", "Draining", "Closing"}
    <3>1. t.deadline \in Nat /\ t.deadline # None
      BY <2>1 DEF Sound, PhaseSound, None
    <3>2. d \in Nat
      BY <3>1 DEF d, Greater
    <3> QED
      BY <1>11, <2>1, <3>2 DEF Sound, PhaseSound
  <2>2. CASE t.phase \notin {"Retrying", "Draining", "Closing"}
    <3>1. d = None
      BY <2>2 DEF Sound, PhaseSound, d
    <3> QED
      BY <1>11, <2>2, <3>1 DEF Sound, PhaseSound
  <2> QED
    BY <2>1, <2>2
<1>15. CountSound(u)
  BY <1>11 DEF Sound, CountSound
<1>16. DrainSound(u)
  <2> SUFFICES ASSUME t.phase = "Draining" PROVE DrainSound(u)
    BY <1>11 DEF DrainSound
  <2>1. /\ ~t.cleanup /\ t.drained \in 0 .. FinalDrain /\ t.deadline \in Nat
        /\ t.deadline + t.drained >= FinalDrain
        /\ \A k \in 1 .. n : t.deadline >= p[k].left + FinalDrain
    BY DEF Sound, DrainSound, PhaseSound
  <2>2. t.deadline # None /\ t.drained # None
    BY <1>1, <2>1 DEF None
  <2>3. d = Greater(t.deadline - 1, 0) /\ e = Lesser(t.drained + 1, FinalDrain)
    BY <2>2 DEF d, e
  <2>4. e \in 0 .. FinalDrain /\ d + e >= FinalDrain
    BY <1>1, <2>1, <2>3 DEF Greater, Lesser
  <2>5. \A k \in 1 .. n : d >= q[k].left + FinalDrain
    <3> SUFFICES ASSUME NEW k \in 1 .. n PROVE d >= q[k].left + FinalDrain
      OBVIOUS
    <3>1. t.deadline >= p[k].left + FinalDrain
      BY <2>1
    <3>2. p[k].left \in Int /\ q[k].left = Passed(p[k].left) /\ t.deadline \in Int
      BY <1>3, <1>7, <2>1
    <3> QED
      BY <2>3, <3>1, <3>2, DeadlinePasses
  <2> QED
    BY <1>6, <1>11, <1>12, <2>1, <2>4, <2>5 DEF DrainSound
<1>17. Sound(u)
  BY <1>10, <1>11, <1>13, <1>14, <1>15, <1>16 DEF Sound
<1> QED
  BY <1>11, <1>17 DEF Goes, u
(***************************************************************************)
(* The table                                                                *)
(***************************************************************************)
TableFacts(table, next, set) == TableInv(table, next) /\ WantedInv(table, set)

(* Targets that change in place.                                               *)
LEMMA InPlace ==
  ASSUME NEW table, NEW next, NEW set, TableFacts(table, next, set),
         NEW later \in Seq(TargetType), Len(later) = Len(table),
         \A i \in 1 .. Len(table) : Sound(later[i]) /\ Same(table[i], later[i])
  PROVE  TableFacts(later, next, set)
<1>1. TableInv(later, next)
  BY DEF TableFacts, TableInv, Same
<1>2. \A i \in 1 .. Len(table) :
        /\ Desired(later[i]) <=> Desired(table[i])
        /\ Pair(later[i]) = Pair(table[i]) /\ later[i].id = table[i].id
  BY DEF Same, Desired, Pair
<1>3. WantedInv(later, set)
  <2>1. WantedInv(table, set)
    BY DEF TableFacts
  <2>2. \A i, j \in 1 .. Len(later) :
          Desired(later[i]) /\ Desired(later[j]) /\ later[i].id = later[j].id => i = j
    BY <1>2, <2>1 DEF WantedInv
  <2>3. \A i \in 1 .. Len(later) :
          Desired(later[i]) => \E k \in 1 .. Len(set) : set[k] = Pair(later[i])
    BY <1>2, <2>1 DEF WantedInv
  <2>4. \A k \in 1 .. Len(set) :
          \E i \in 1 .. Len(later) : Desired(later[i]) /\ set[k] = Pair(later[i])
    BY <1>2, <2>1 DEF WantedInv
  <2> QED
    BY <2>1, <2>2, <2>3, <2>4 DEF WantedInv
<1> QED
  BY <1>1, <1>3 DEF TableFacts

(* What RetirementOrderly asks of one generation.                             *)
Follows(t, u) ==
  /\ Stopping(t) => u.phase \in {t.phase, "Draining", "Closing", "Terminal"}
  /\ t.phase = "Draining" /\ u.phase = "Closing" /\ ~u.cleanup =>
       t.drained >= FinalDrain /\ Waited(u)

FollowsAll(table, later, next) ==
  \A j \in 1 .. Len(later) :
    \/ later[j].generation >= next
    \/ \E i \in 1 .. Len(table) :
         table[i].generation = later[j].generation /\ Follows(table[i], later[j])

LEMMA GoesFollows ==
  ASSUME NEW t, NEW u, Goes(t, u)
  PROVE  /\ Sound(u) /\ Same(t, u) /\ Follows(t, u)
         /\ t.phase = "Terminal" => u.phase = "Terminal"
BY DEF Goes, Follows

LEMMA SamePhaseFollows ==
  ASSUME NEW t, NEW u, u.phase = t.phase
  PROVE  Follows(t, u)
BY DEF Follows

Told(said, t, u) == IF u.phase = "Terminal" /\ t.phase # "Terminal"
                    THEN [said EXCEPT ![u.generation] = Append(@, Outcome(u))]
                    ELSE said

Carried(table, next, set, later, told) ==
  /\ TableFacts(later, next, set) /\ OutcomeInv(later, next, told)
  /\ Len(later) = Len(table) /\ FollowsAll(table, later, next)

(* One target becomes t, and leaves its outcome when it ends.                 *)
LEMMA InstallKeeps ==
  ASSUME NEW table, NEW next, NEW set, NEW said, TableFacts(table, next, set),
         OutcomeInv(table, next, said), NEW i \in 1 .. Len(table),
         NEW t, Goes(table[i], t),
         NEW later, later = [table EXCEPT ![i] = t],
         NEW told, told = Told(said, table[i], t)
  PROVE  Carried(table, next, set, later, told)
<1> DEFINE n == Len(table)
           g == t.generation
<1>1. /\ table \in Seq(TargetType) /\ n \in Nat
      /\ \A j \in 1 .. n : Sound(table[j]) /\ table[j].generation \in 1 .. next - 1
      /\ \A j, k \in 1 .. n : table[j].generation = table[k].generation => j = k
  BY LenProperties DEF TableFacts, TableInv
<1>2. /\ Sound(t) /\ t \in TargetType /\ Same(table[i], t) /\ Follows(table[i], t)
      /\ table[i].phase = "Terminal" => t.phase = "Terminal"
  BY GoesFollows DEF Sound
<1>3. /\ later \in Seq(TargetType) /\ Len(later) = n
      /\ \A j \in 1 .. n : later[j] = IF j = i THEN t ELSE table[j]
  BY <1>1, <1>2, ExceptSeq
<1>4. \A j \in 1 .. n : Sound(later[j]) /\ Same(table[j], later[j])
  BY <1>1, <1>2, <1>3 DEF Same
<1>5. TableFacts(later, next, set)
  BY <1>3, <1>4, InPlace
<1>6. FollowsAll(table, later, next)
  <2>1. \A j \in 1 .. n : table[j].generation = later[j].generation /\ Follows(table[j], later[j])
    BY <1>2, <1>3, SamePhaseFollows DEF Same
  <2> QED
    BY <1>3, <2>1 DEF FollowsAll
<1>7. g = table[i].generation /\ g \in 1 .. next - 1 /\ next \in 1 .. MaxGenerations + 1
  BY <1>1, <1>2 DEF Same, OutcomeInv
<1>8. g \in Generations /\ said \in [Generations -> Seq(OutcomeType)]
  BY <1>7, TargetsAssumption DEF Generations, OutcomeInv
<1>9. \A h \in 1 .. next - 1 : h # g => (Live(later, h) <=> Live(table, h))
  <2> SUFFICES ASSUME NEW h \in 1 .. next - 1, h # g
               PROVE  Live(later, h) <=> Live(table, h)
    OBVIOUS
  <2>1. \A j \in 1 .. n : later[j].generation = h <=> table[j].generation = h
    BY <1>3, <1>7
  <2>2. \A j \in 1 .. n : table[j].generation = h => later[j] = table[j]
    BY <1>3, <1>7
  <2> QED
    BY <1>3, <2>1, <2>2 DEF Live
<1>10. Live(later, g) <=> t.phase # "Terminal"
  <2>1. \A j \in 1 .. n : later[j].generation = g => j = i
    BY <1>1, <1>3, <1>7
  <2>2. later[i] = t
    BY <1>3
  <2> QED
    BY <1>3, <2>1, <2>2 DEF Live
<1>11. Live(table, g) <=> table[i].phase # "Terminal"
  <2>1. \A j \in 1 .. n : table[j].generation = g => j = i
    BY <1>1, <1>7
  <2> QED
    BY <1>7, <2>1 DEF Live
<1>12. CASE t.phase = "Terminal" /\ table[i].phase # "Terminal"
  <2> DEFINE o == Outcome(t)
  <2>1. o \in OutcomeType
    <3>1. t.sent \in Nat /\ t.wire - t.sent = 0
      BY <1>2 DEF Sound, CountSound, TargetType
    <3> QED
      BY <3>1 DEF Outcome, OutcomeType
  <2>2. told = [said EXCEPT ![g] = Append(said[g], o)]
    BY <1>8, <1>12 DEF Told
  <2> HIDE DEF o
  <2>3. /\ Len(said[g]) = 0 /\ said[g] \in Seq(OutcomeType)
        /\ \A h \in 1 .. next - 1 : Len(said[h]) = IF Live(table, h) THEN 0 ELSE 1
        /\ \A h \in Generations : h >= next => said[h] = <<>>
    BY <1>7, <1>8, <1>11, <1>12 DEF OutcomeInv
  <2>4. Append(said[g], o) \in Seq(OutcomeType) /\ Len(Append(said[g], o)) = 1
    BY <2>1, <2>3
  <2>5. /\ told \in [Generations -> Seq(OutcomeType)] /\ told[g] = Append(said[g], o)
        /\ \A h \in Generations : h # g => told[h] = said[h]
    BY <1>8, <2>2, <2>4
  <2>6. \A h \in Generations : h >= next => told[h] = <<>>
    <3>1. \A h \in Generations : h >= next => h # g
      BY <1>7 DEF Generations
    <3> QED
      BY <2>3, <2>5, <3>1
  <2>7. ASSUME NEW h \in 1 .. next - 1
        PROVE  Len(told[h]) = IF Live(later, h) THEN 0 ELSE 1
    <3>1. h \in Generations
      BY <1>7, TargetsAssumption DEF Generations
    <3>2. CASE h = g
      BY <1>10, <1>12, <2>4, <2>5, <3>2
    <3>3. CASE h # g
      <4>1. told[h] = said[h] /\ (Live(later, h) <=> Live(table, h))
        BY <1>9, <2>5, <3>1, <3>3
      <4>2. Len(said[h]) = IF Live(table, h) THEN 0 ELSE 1
        BY <2>3
      <4> QED
        BY <4>1, <4>2, Zenon
    <3> QED
      BY <3>2, <3>3
  <2>8. OutcomeInv(later, next, told)
    BY <1>7, <2>5, <2>6, <2>7 DEF OutcomeInv
  <2> QED
    BY <1>3, <1>5, <1>6, <2>8 DEF Carried
<1>13. CASE ~(t.phase = "Terminal" /\ table[i].phase # "Terminal")
  <2>1. told = said
    BY <1>13, Zenon DEF Told
  <2>2. Live(later, g) <=> Live(table, g)
    BY <1>2, <1>10, <1>11, <1>13
  <2>3. \A h \in 1 .. next - 1 : Live(later, h) <=> Live(table, h)
    BY <1>9, <2>2
  <2>4. OutcomeInv(later, next, told)
    BY <2>1, <2>3 DEF OutcomeInv
  <2> QED
    BY <1>3, <1>5, <1>6, <2>4 DEF Carried
<1> QED
  BY <1>12, <1>13

(* A tick ages every target.                                                   *)
LEMMA TickKeeps ==
  ASSUME NEW table, NEW next, NEW set, NEW said, TableFacts(table, next, set),
         OutcomeInv(table, next, said), Reconnects,
         NEW later, later = [i \in DOMAIN table |-> Aged(table[i])]
  PROVE  /\ TableFacts(later, next, set) /\ OutcomeInv(later, next, said)
         /\ Len(later) = Len(table) /\ FollowsAll(table, later, next)
<1> DEFINE n == Len(table)
<1>1. /\ table \in Seq(TargetType) /\ n \in Nat /\ DOMAIN table = 1 .. n
      /\ \A j \in 1 .. n : Sound(table[j])
  BY LenProperties DEF TableFacts, TableInv
<1>2. \A j \in 1 .. n : Goes(table[j], Aged(table[j])) /\ Aged(table[j]).phase = table[j].phase
  BY <1>1, AgedGoes
<1>3. \A j \in 1 .. n :
        /\ Sound(Aged(table[j])) /\ Aged(table[j]) \in TargetType
        /\ Same(table[j], Aged(table[j])) /\ Follows(table[j], Aged(table[j]))
  BY <1>2, GoesFollows DEF Sound
<1>4. later = [j \in 1 .. n |-> Aged(table[j])]
  BY <1>1
<1>5. /\ later \in Seq(TargetType) /\ Len(later) = n
      /\ \A j \in 1 .. n : later[j] = Aged(table[j])
  BY <1>1, <1>3, <1>4, IsASeq
<1>6. TableFacts(later, next, set)
  BY <1>3, <1>5, InPlace
<1>7. \A j \in 1 .. n : /\ later[j].generation = table[j].generation
                        /\ later[j].phase = table[j].phase
                        /\ Follows(table[j], later[j])
  BY <1>2, <1>3, <1>5 DEF Same
<1>8. FollowsAll(table, later, next)
  BY <1>5, <1>7 DEF FollowsAll
<1>9. \A h : Live(later, h) <=> Live(table, h)
  BY <1>5, <1>7 DEF Live
<1>10. OutcomeInv(later, next, said)
  BY <1>9 DEF OutcomeInv
<1> QED
  BY <1>5, <1>6, <1>8, <1>10
(* Targets that ended and are not desired any more are dropped.               *)
LEMMA PruneKeeps ==
  ASSUME NEW table, NEW next, NEW set, NEW said, TableFacts(table, next, set),
         OutcomeInv(table, next, said),
         NEW later, later = Selected(table, { i \in DOMAIN table : Retained(table[i]) })
  PROVE  /\ TableFacts(later, next, set) /\ OutcomeInv(later, next, said)
         /\ Len(later) \in 0 .. Len(table) /\ FollowsAll(table, later, next)
<1> DEFINE n == Len(table)
           I == { i \in DOMAIN table : Retained(table[i]) }
           m == Cardinality(I)
<1>1. /\ table \in Seq(TargetType) /\ n \in Nat /\ DOMAIN table = 1 .. n /\ n <= MaxLive
      /\ MaxLive \in Nat
      /\ \A j \in 1 .. n : Sound(table[j]) /\ table[j].generation \in 1 .. next - 1
      /\ \A j, k \in 1 .. n : table[j].generation = table[k].generation => j = k
  BY LenProperties, TargetsAssumption DEF TableFacts, TableInv
<1>2. \A i \in I : i \in 1 .. n
  BY <1>1
<1>3. /\ m \in 0 .. n /\ later \in Seq(TargetType) /\ Len(later) = m
      /\ \E f \in [1 .. m -> I] :
           /\ \A k \in 1 .. m : later[k] = table[f[k]]
           /\ \A i \in I : \E k \in 1 .. m : f[k] = i
           /\ \A j, k \in 1 .. m : f[j] = f[k] => j = k
  <2>1. later = Selected(table, I)
    OBVIOUS
  <2>2. table \in Seq(TargetType) /\ \A i \in I : i \in 1 .. Len(table)
    BY <1>1, <1>2
  <2> HIDE DEF I
  <2>3. Lists(Selected(table, I), table, I, TargetType)
    BY <2>2, SelectedLists
  <2>4. Lists(later, table, I, TargetType)
    BY <2>1, <2>3
  <2> QED
    BY ONLY <2>4, Zenon DEF Lists
<1>4. PICK f \in [1 .. m -> I] :
           /\ \A k \in 1 .. m : later[k] = table[f[k]]
           /\ \A i \in I : \E k \in 1 .. m : f[k] = i
           /\ \A j, k \in 1 .. m : f[j] = f[k] => j = k
  BY <1>3
<1>5. \A k \in 1 .. m : f[k] \in 1 .. n
  BY <1>2, <1>4
<1>6. \A i \in 1 .. n : Desired(table[i]) \/ table[i].phase # "Terminal"
                        => \E k \in 1 .. m : f[k] = i /\ later[k] = table[i]
  <2> SUFFICES ASSUME NEW i \in 1 .. n, Desired(table[i]) \/ table[i].phase # "Terminal"
               PROVE  \E k \in 1 .. m : f[k] = i /\ later[k] = table[i]
    OBVIOUS
  <2>1. i \in I
    BY <1>1 DEF Retained
  <2>2. PICK k \in 1 .. m : f[k] = i
    BY <1>4, <2>1
  <2> QED
    BY <1>4, <2>2
<1> HIDE DEF I, m
<1>7. TableInv(later, next)
  <2>1. Len(later) <= MaxLive
    BY <1>1, <1>3
  <2>2. \A i \in 1 .. m : Sound(later[i]) /\ later[i].generation \in 1 .. next - 1
    BY <1>1, <1>4, <1>5
  <2>3. ASSUME NEW i \in 1 .. m, NEW j \in 1 .. m, later[i].generation = later[j].generation
        PROVE  i = j
    <3>1. f[i] = f[j]
      BY <1>1, <1>4, <1>5, <2>3
    <3> QED
      BY <1>4, <3>1
  <2> QED
    BY <1>3, <2>1, <2>2, <2>3 DEF TableInv
<1>8. WantedInv(table, set)
  BY DEF TableFacts
<1>9. WantedInv(later, set)
  <2>1. ASSUME NEW i \in 1 .. m, NEW j \in 1 .. m, Desired(later[i]), Desired(later[j]),
               later[i].id = later[j].id
        PROVE  i = j
    <3>1. /\ later[i] = table[f[i]] /\ f[i] \in 1 .. n
          /\ later[j] = table[f[j]] /\ f[j] \in 1 .. n
      BY <1>4, <1>5
    <3>2. f[i] = f[j]
      BY <1>8, <2>1, <3>1, Zenon DEF WantedInv
    <3> QED
      BY <1>4, <3>2
  <2>2. ASSUME NEW i \in 1 .. m, Desired(later[i])
        PROVE  \E k \in 1 .. Len(set) : set[k] = Pair(later[i])
    <3>1. later[i] = table[f[i]] /\ f[i] \in 1 .. n
      BY <1>4, <1>5
    <3>2. Desired(table[f[i]])
      BY <2>2, <3>1
    <3>3. \E k \in 1 .. Len(set) : set[k] = Pair(table[f[i]])
      BY <1>8, <3>1, <3>2 DEF WantedInv
    <3> QED
      BY <3>1, <3>3
  <2>3. ASSUME NEW k \in 1 .. Len(set)
        PROVE  \E i \in 1 .. m : Desired(later[i]) /\ set[k] = Pair(later[i])
    <3>1. PICK i \in 1 .. n : Desired(table[i]) /\ set[k] = Pair(table[i])
      BY <1>8 DEF WantedInv
    <3>2. PICK j \in 1 .. m : later[j] = table[i]
      BY <1>6, <3>1
    <3> QED
      BY <3>1, <3>2
  <2> QED
    BY <1>3, <1>8, <2>1, <2>2, <2>3 DEF WantedInv
<1>10. \A h : Live(later, h) <=> Live(table, h)
  <2> SUFFICES ASSUME NEW h PROVE Live(later, h) <=> Live(table, h)
    OBVIOUS
  <2>1. ASSUME Live(later, h) PROVE Live(table, h)
    <3>1. PICK k \in 1 .. m : later[k].generation = h /\ later[k].phase # "Terminal"
      BY <1>3, <2>1, Zenon DEF Live
    <3>2. later[k] = table[f[k]] /\ f[k] \in 1 .. n
      BY <1>4, <1>5
    <3> QED
      BY <3>1, <3>2, Zenon DEF Live
  <2>2. ASSUME Live(table, h) PROVE Live(later, h)
    <3>1. PICK i \in 1 .. n : table[i].generation = h /\ table[i].phase # "Terminal"
      BY <2>2 DEF Live
    <3>2. PICK j \in 1 .. m : later[j] = table[i]
      BY <1>6, <3>1
    <3>3. j \in 1 .. Len(later) /\ later[j].generation = h /\ later[j].phase # "Terminal"
      BY <1>3, <3>1, <3>2
    <3> QED
      BY <3>3 DEF Live
  <2> QED
    BY <2>1, <2>2
<1>11. OutcomeInv(later, next, said)
  BY <1>10 DEF OutcomeInv
<1>12. FollowsAll(table, later, next)
  <2>1. ASSUME NEW j \in 1 .. m
        PROVE  \E i \in 1 .. n :
                 table[i].generation = later[j].generation /\ Follows(table[i], later[j])
    <3>1. later[j] = table[f[j]] /\ f[j] \in 1 .. n
      BY <1>4, <1>5
    <3>2. Follows(table[f[j]], later[j])
      BY <3>1, SamePhaseFollows, Zenon
    <3> QED
      BY <3>1, <3>2, Zenon
  <2> QED
    BY <1>3, <2>1, Zenon DEF FollowsAll
<1> QED
  BY <1>3, <1>7, <1>9, <1>11, <1>12 DEF TableFacts
(***************************************************************************)
(* An update                                                                *)
(***************************************************************************)
SatisfiedBy(table, target) ==
  \E i \in DOMAIN table : RuntimeSatisfiesTarget(table[i], target)

RetiredBy(t, set) ==
  Desired(t) /\ \A j \in DOMAIN set : ~RuntimeSatisfiesTarget(t, set[j])

Withdrawn(t, set) == RetiredBy(t, set) /\ SynchronouslyRetireable(t)

Marked(t, set) ==
  IF RetiredBy(t, set)
  THEN [t EXCEPT !.membership = IF \E j \in DOMAIN set : set[j].id = t.id
                                THEN "Replaced" ELSE "Removed"]
  ELSE t

Staying(table, set) == { i \in DOMAIN table : ~Withdrawn(table[i], set) }

Lacking(table, set) == { j \in DOMAIN set : ~SatisfiedBy(table, set[j]) }

KeptSeq(table, set) ==
  LET kept == Selected(table, Staying(table, set))
  IN  [i \in DOMAIN kept |-> Marked(kept[i], set)]

NewSeq(table, set, next) ==
  LET created == Selected(set, Lacking(table, set))
  IN  [i \in DOMAIN created |-> Created(created[i], next + i - 1)]

EndsOf(table, set, g) ==
  { Outcome(t) : t \in { e \in { t \in { t \in ToSet(table) : Withdrawn(t, set) } :
                                   RecordsRetirement(t) } : e.generation = g } }

LEMMA ApplyShape ==
  ASSUME NEW set, ApplyTargets(set)
  PROVE  /\ targets' = KeptSeq(targets, set) \o NewSeq(targets, set, nextGeneration)
         /\ Len(targets') <= MaxLive
         /\ nextGeneration' = nextGeneration + Len(Selected(set, Lacking(targets, set)))
         /\ nextGeneration + Len(Selected(set, Lacking(targets, set))) - 1 <= MaxGenerations
         /\ outcomes' = [g \in Generations |->
                           outcomes[g] \o SetToSeq(EndsOf(targets, set, g))]
         /\ \/ cursors' = RebaseTargetCursors(cursors, Len(KeptSeq(targets, set)))
            \/ /\ { t \in ToSet(targets) : Withdrawn(t, set) } = {}
               /\ cursors' = cursors
         /\ run' \in {"Running", "Finishing"} /\ wanted' = set
         /\ poll.at = "commands" /\ poll' = poll /\ backlog' = backlog /\ run = "Running"
<1> DEFINE plan == PlanTargets(set)
<1>1. /\ plan.kept = KeptSeq(targets, set)
      /\ plan.created = Selected(set, Lacking(targets, set))
      /\ plan.retirements = { t \in ToSet(targets) : Withdrawn(t, set) }
  BY DEF PlanTargets, KeptSeq, Lacking, Staying, Withdrawn, RetiredBy, SatisfiedBy, Marked
<1>2. /\ targets' = plan.kept \o [i \in DOMAIN plan.created |->
                                    Created(plan.created[i], nextGeneration + i - 1)]
      /\ Len(targets') <= MaxLive
      /\ nextGeneration' = nextGeneration + Len(plan.created)
      /\ nextGeneration + Len(plan.created) - 1 <= MaxGenerations
      /\ outcomes' = [g \in Generations |->
           outcomes[g] \o SetToSeq({ Outcome(t) : t \in
             { e \in { t \in plan.retirements : RecordsRetirement(t) } : e.generation = g } })]
      /\ cursors' = IF plan.retirements # {}
                    THEN RebaseTargetCursors(cursors, Len(plan.kept)) ELSE cursors
      /\ run' \in {"Running", "Finishing"} /\ wanted' = set
      /\ poll.at = "commands" /\ poll' = poll /\ backlog' = backlog /\ run = "Running"
  BY Zenon DEF ApplyTargets
<1> HIDE DEF plan
<1>3. NewSeq(targets, set, nextGeneration)
        = [i \in DOMAIN plan.created |-> Created(plan.created[i], nextGeneration + i - 1)]
  BY <1>1 DEF NewSeq
<1>4. outcomes' = [g \in Generations |-> outcomes[g] \o SetToSeq(EndsOf(targets, set, g))]
  BY <1>1, <1>2 DEF EndsOf
<1> QED
  BY <1>1, <1>2, <1>3, <1>4, Zenon
(* u is t, retired or not.                                                     *)
MarkedAs(t, u, set) ==
  /\ Sound(u) /\ u.id = t.id /\ u.config = t.config /\ u.generation = t.generation
  /\ u.phase = t.phase
  /\ Desired(u) => Desired(t) /\ \E j \in 1 .. Len(set) : set[j] = Pair(t) /\ t.phase # "Terminal"
  /\ ~RetiredBy(t, set) => u = t

Target == [id : Ids, config : Configs]

LEMMA PairId ==
  ASSUME NEW t
  PROVE  Pair(t).id = t.id
BY DEF Pair

LEMMA UpdateFacts ==
  ASSUME NEW set \in Updates
  PROVE  /\ set \in Seq(Target) /\ Len(set) \in Nat /\ DOMAIN set = 1 .. Len(set)
         /\ \A k \in 1 .. Len(set) : set[k] \in Target
         /\ \A i, j \in 1 .. Len(set) : set[i].id = set[j].id => i = j
<1>1. PICK m \in Nat : set \in [1 .. m -> Target]
  BY TargetsAssumption DEF Updates, SeqOf, Target
<1>2. set \in Seq(Target) /\ Len(set) = m /\ DOMAIN set = 1 .. Len(set)
  BY <1>1
<1>3. \A i, j \in DOMAIN set : set[i].id = set[j].id => i = j
  BY DEF Updates
<1> QED
  BY <1>1, <1>2, <1>3

LEMMA SatisfiesPair ==
  ASSUME NEW t \in TargetType, NEW target \in Target
  PROVE  RuntimeSatisfiesTarget(t, target) <=>
           Desired(t) /\ t.phase # "Terminal" /\ target = Pair(t)
<1>1. target = [id |-> target.id, config |-> target.config]
  BY DEF Target
<1> QED
  BY <1>1 DEF RuntimeSatisfiesTarget, Pair

LEMMA MarkedFacts ==
  ASSUME NEW t, Sound(t), NEW set \in Updates
  PROVE  MarkedAs(t, Marked(t, set), set)
<1>1. /\ t \in TargetType /\ DOMAIN set = 1 .. Len(set)
      /\ \A k \in 1 .. Len(set) : set[k] \in Target
  BY UpdateFacts DEF Sound
<1>2. CASE RetiredBy(t, set)
  <2> DEFINE why == IF \E j \in DOMAIN set : set[j].id = t.id THEN "Replaced" ELSE "Removed"
             u == [t EXCEPT !.membership = why]
  <2>1. Marked(t, set) = u
    BY <1>2, Zenon DEF Marked
  <2>2. why \in Memberships /\ why # "Desired"
    BY DEF Memberships
  <2> HIDE DEF why
  <2>3. u \in TargetType
    BY <1>1, <2>2, Zenon DEF TargetType
  <2>4. u = [t EXCEPT !.membership = why]
    OBVIOUS
  <2> HIDE DEF u
  <2>5. /\ u.id = t.id /\ u.config = t.config /\ u.generation = t.generation
        /\ u.phase = t.phase /\ u.deadline = t.deadline /\ u.drained = t.drained
        /\ u.end = t.end /\ u.probes = t.probes /\ u.session = t.session
        /\ u.before = t.before /\ u.sent = t.sent /\ u.wire = t.wire /\ u.membership = why
    BY <1>1, <2>4 DEF TargetType
  <2>6. u.cleanup = t.cleanup
    BY <1>1, <2>4, Zenon DEF TargetType
  <2>7. PhaseSound(u) /\ CountSound(u)
    BY <2>5 DEF Sound, PhaseSound, CountSound
  <2>8. DrainSound(u)
    BY <2>5, <2>6 DEF Sound, DrainSound
  <2>9. Sound(u) /\ ~Desired(u)
    BY <2>2, <2>3, <2>5, <2>7, <2>8 DEF Sound, Desired
  <2> QED
    BY <1>2, <2>1, <2>5, <2>9 DEF MarkedAs
<1>3. CASE ~RetiredBy(t, set)
  <2>1. Marked(t, set) = t
    BY <1>3, Zenon DEF Marked
  <2>2. Desired(t) => \E j \in 1 .. Len(set) : set[j] = Pair(t) /\ t.phase # "Terminal"
    <3> SUFFICES ASSUME Desired(t)
                 PROVE  \E j \in 1 .. Len(set) : set[j] = Pair(t) /\ t.phase # "Terminal"
      OBVIOUS
    <3>1. PICK j \in 1 .. Len(set) : RuntimeSatisfiesTarget(t, set[j])
      BY <1>1, <1>3 DEF RetiredBy
    <3> QED
      BY <1>1, <3>1, SatisfiesPair
  <2> QED
    BY <2>1, <2>2, Zenon DEF MarkedAs
<1> QED
  BY <1>2, <1>3

LEMMA CreatedFacts ==
  ASSUME NEW target \in Target, NEW g \in Nat
  PROVE  LET u == Created(target, g)
         IN  /\ Sound(u) /\ u.generation = g /\ u.phase = "Pending" /\ Desired(u)
             /\ Pair(u) = target
<1> DEFINE u == Created(target, g)
<1>1. target.id \in Ids /\ target.config \in Configs
      /\ target = [id |-> target.id, config |-> target.config]
  BY DEF Target
<1>2. InitialDelay \in InitialDelay .. MaxDelay
  BY TargetsAssumption
<1>3. u \in TargetType
  BY <1>1, <1>2, Grounds, Zenon DEF Created, TargetType, Phases, Memberships
<1>4. /\ u.generation = g /\ u.phase = "Pending" /\ u.membership = "Desired"
      /\ u.id = target.id /\ u.config = target.config /\ u.deadline = None /\ u.end = "None"
      /\ u.probes = <<>> /\ u.session = 0 /\ u.before = 0 /\ u.sent = 0 /\ u.wire = 0
  BY DEF Created
<1> HIDE DEF u
<1>5. PhaseSound(u) /\ CountSound(u) /\ DrainSound(u)
  BY <1>4 DEF PhaseSound, CountSound, DrainSound
<1>6. Sound(u)
  BY <1>3, <1>4, <1>5, NoProbes DEF Sound
<1> QED
  BY <1>1, <1>4, <1>6 DEF u, Desired, Pair

(* The generations that stay, in an order of their own.                       *)
Stay(l, table, set) ==
  /\ l \in Seq(TargetType)
  /\ \E f \in [1 .. Len(l) -> 1 .. Len(table)] :
       /\ \A k \in 1 .. Len(l) :
            MarkedAs(table[f[k]], l[k], set) /\ ~Withdrawn(table[f[k]], set)
       /\ \A i \in 1 .. Len(table) :
            ~Withdrawn(table[i], set) => \E k \in 1 .. Len(l) : f[k] = i
       /\ \A j, k \in 1 .. Len(l) : f[j] = f[k] => j = k

LEMMA KeptStay ==
  ASSUME NEW table \in Seq(TargetType), \A i \in 1 .. Len(table) : Sound(table[i]),
         NEW set \in Updates
  PROVE  /\ Stay(KeptSeq(table, set), table, set)
         /\ Len(KeptSeq(table, set)) = Cardinality(Staying(table, set))
<1> DEFINE n == Len(table)
           I == Staying(table, set)
           m == Cardinality(I)
           kept == Selected(table, I)
           l == KeptSeq(table, set)
<1>1. n \in Nat /\ DOMAIN table = 1 .. n
  BY LenProperties
<1>2. \A i : i \in I <=> i \in 1 .. n /\ ~Withdrawn(table[i], set)
  BY <1>1 DEF Staying
<1>3. l = [i \in DOMAIN kept |-> Marked(kept[i], set)]
  BY DEF KeptSeq
<1> HIDE DEF I, l
<1>4. Lists(kept, table, I, TargetType)
  BY <1>2, SelectedLists
<1> HIDE DEF kept
<1>5. m \in Nat /\ kept \in Seq(TargetType) /\ Len(kept) = m /\ DOMAIN kept = 1 .. m
  BY <1>1, <1>4, LenProperties DEF Lists
<1>6. PICK f \in [1 .. m -> I] :
        /\ \A k \in 1 .. m : kept[k] = table[f[k]]
        /\ \A i \in I : \E k \in 1 .. m : f[k] = i
        /\ \A j, k \in 1 .. m : f[j] = f[k] => j = k
  BY <1>4, Zenon DEF Lists
<1> HIDE DEF m
<1>7. \A k \in 1 .. m : f[k] \in I /\ f[k] \in 1 .. n /\ ~Withdrawn(table[f[k]], set)
  BY <1>2, <1>6
<1>8. \A k \in 1 .. m : MarkedAs(table[f[k]], Marked(kept[k], set), set)
  BY <1>6, <1>7, MarkedFacts
<1>9. \A k \in 1 .. m : Marked(kept[k], set) \in TargetType
  BY <1>8 DEF MarkedAs, Sound
<1>10. l = [i \in 1 .. m |-> Marked(kept[i], set)]
  BY <1>3, <1>5
<1>11. /\ l \in Seq(TargetType) /\ Len(l) = m
       /\ \A k \in 1 .. m : l[k] = Marked(kept[k], set)
  BY <1>5, <1>9, <1>10, IsASeq
<1>12. f \in [1 .. Len(l) -> 1 .. Len(table)]
  BY <1>6, <1>7, <1>11
<1>13. \A k \in 1 .. Len(l) :
            MarkedAs(table[f[k]], l[k], set) /\ ~Withdrawn(table[f[k]], set)
  BY <1>7, <1>8, <1>11
<1>14. \A i \in 1 .. Len(table) :
            ~Withdrawn(table[i], set) => \E k \in 1 .. Len(l) : f[k] = i
  BY <1>2, <1>6, <1>11
<1>15. \A j, k \in 1 .. Len(l) : f[j] = f[k] => j = k
  BY <1>6, <1>11
<1> QED
  BY <1>11, <1>12, <1>13, <1>14, <1>15, Zenon DEF Stay, l, m, I

(* The generations created, for what the table lacks.                         *)
Come(l, table, set, next) ==
  /\ l \in Seq(TargetType)
  /\ \A k \in 1 .. Len(l) : /\ Sound(l[k]) /\ l[k].generation = next + k - 1
                            /\ l[k].phase = "Pending" /\ Desired(l[k])
  /\ \E h \in [1 .. Len(l) -> 1 .. Len(set)] :
       /\ \A k \in 1 .. Len(l) : set[h[k]] = Pair(l[k]) /\ ~SatisfiedBy(table, set[h[k]])
       /\ \A j \in 1 .. Len(set) :
            ~SatisfiedBy(table, set[j]) => \E k \in 1 .. Len(l) : h[k] = j
       /\ \A j, k \in 1 .. Len(l) : h[j] = h[k] => j = k

LEMMA NewCome ==
  ASSUME NEW table, NEW set \in Updates, NEW next \in Nat
  PROVE  /\ Come(NewSeq(table, set, next), table, set, next)
         /\ Len(NewSeq(table, set, next)) = Len(Selected(set, Lacking(table, set)))
<1> DEFINE I == Lacking(table, set)
           m == Cardinality(I)
           created == Selected(set, I)
           l == NewSeq(table, set, next)
<1>1. /\ set \in Seq(Target) /\ Len(set) \in Nat /\ DOMAIN set = 1 .. Len(set)
      /\ \A k \in 1 .. Len(set) : set[k] \in Target
  BY UpdateFacts
<1>2. \A i : i \in I <=> i \in 1 .. Len(set) /\ ~SatisfiedBy(table, set[i])
  BY <1>1 DEF Lacking
<1>3. l = [i \in DOMAIN created |-> Created(created[i], next + i - 1)]
  BY DEF NewSeq
<1> HIDE DEF I, l
<1>4. Lists(created, set, I, Target)
  BY <1>1, <1>2, SelectedLists
<1> HIDE DEF created
<1>5. m \in Nat /\ created \in Seq(Target) /\ Len(created) = m /\ DOMAIN created = 1 .. m
  BY <1>1, <1>4, LenProperties DEF Lists
<1>6. PICK h \in [1 .. m -> I] :
        /\ \A k \in 1 .. m : created[k] = set[h[k]]
        /\ \A i \in I : \E k \in 1 .. m : h[k] = i
        /\ \A j, k \in 1 .. m : h[j] = h[k] => j = k
  BY <1>4, Zenon DEF Lists
<1> HIDE DEF m
<1>7. \A k \in 1 .. m : h[k] \in I /\ h[k] \in 1 .. Len(set) /\ ~SatisfiedBy(table, set[h[k]])
  BY <1>2, <1>6
<1>8. ASSUME NEW k \in 1 .. m
      PROVE  LET u == Created(created[k], next + k - 1)
             IN  /\ Sound(u) /\ u.generation = next + k - 1 /\ u.phase = "Pending"
                 /\ Desired(u) /\ Pair(u) = set[h[k]] /\ u \in TargetType
  <2>1. created[k] \in Target /\ created[k] = set[h[k]] /\ next + k - 1 \in Nat
    BY <1>1, <1>5, <1>6, <1>7
  <2> QED
    BY <2>1, CreatedFacts DEF Sound
<1>10. l = [i \in 1 .. m |-> Created(created[i], next + i - 1)]
  BY <1>3, <1>5
<1>11. /\ l \in Seq(TargetType) /\ Len(l) = m
       /\ \A k \in 1 .. m : l[k] = Created(created[k], next + k - 1)
  BY <1>5, <1>8, <1>10, IsASeq
<1>12. h \in [1 .. Len(l) -> 1 .. Len(set)]
  BY <1>6, <1>7, <1>11
<1>13. \A k \in 1 .. Len(l) : /\ Sound(l[k]) /\ l[k].generation = next + k - 1
                              /\ l[k].phase = "Pending" /\ Desired(l[k])
  BY <1>8, <1>11
<1>14. \A k \in 1 .. Len(l) : set[h[k]] = Pair(l[k]) /\ ~SatisfiedBy(table, set[h[k]])
  BY <1>7, <1>8, <1>11
<1>15. \A j \in 1 .. Len(set) :
            ~SatisfiedBy(table, set[j]) => \E k \in 1 .. Len(l) : h[k] = j
  BY <1>2, <1>6, <1>11
<1>16. \A j, k \in 1 .. Len(l) : h[j] = h[k] => j = k
  BY <1>6, <1>11
<1>17. Come(l, table, set, next)
  BY <1>11, <1>12, <1>13, <1>14, <1>15, <1>16, Zenon DEF Come
<1> QED
  BY <1>5, <1>11, <1>17 DEF l, created, I
LEMMA NoEnds ==
  ASSUME NEW S, S = {}
  PROVE  SetToSeq(S) = <<>>
<1>1. Cardinality(S) = 0
  BY FS_EmptySet
<1>2. \A f : f \in [1 .. 0 -> {}] => f = <<>>
  OBVIOUS
<1>3. <<>> \in [1 .. 0 -> {}] /\ IsInjective(<<>>)
  BY DEF IsInjective
<1>4. SetToSeq(S) \in [1 .. 0 -> {}]
  BY <1>1, <1>3 DEF SetToSeq
<1> QED
  BY <1>2, <1>4

LEMMA SingleSeq ==
  ASSUME NEW T, NEW o \in T, NEW f \in [1 .. 1 -> {o}]
  PROVE  f \in Seq(T) /\ Len(f) = 1
<1>1. f = [k \in 1 .. 1 |-> f[k]] /\ \A k \in 1 .. 1 : f[k] \in T
  OBVIOUS
<1>2. [k \in 1 .. 1 |-> f[k]] \in Seq(T)
  BY <1>1, IsASeq
<1>3. Len([k \in 1 .. 1 |-> f[k]]) = 1
  OBVIOUS
<1> QED
  BY <1>1, <1>2, <1>3, Zenon

LEMMA OneEnd ==
  ASSUME NEW T, NEW o \in T
  PROVE  SetToSeq({o}) \in Seq(T) /\ Len(SetToSeq({o})) = 1
<1>1. Cardinality({o}) = 1
  BY FS_Singleton
<1>2. [k \in 1 .. 1 |-> o] \in [1 .. 1 -> {o}] /\ IsInjective([k \in 1 .. 1 |-> o])
  BY DEF IsInjective
<1>3. SetToSeq({o}) \in [1 .. 1 -> {o}]
  BY <1>1, <1>2 DEF SetToSeq
<1> QED
  BY ONLY <1>3, o \in T, SingleSeq

(* Who lives after an update with c new generations.                          *)
LivesOn(table, set, next, c, after) ==
  /\ \A h \in 1 .. next - 1 :
       Live(after, h) <=> \E i \in 1 .. Len(table) :
                            /\ table[i].generation = h /\ table[i].phase # "Terminal"
                            /\ ~Withdrawn(table[i], set)
  /\ \A h \in next .. next + c - 1 : Live(after, h)

Joined(table, next, set, kept, new, after) ==
  /\ TableFacts(after, next + Len(new), set) /\ FollowsAll(table, after, next)
  /\ Len(after) = Len(kept) + Len(new)
  /\ LivesOn(table, set, next, Len(new), after)

(* The new table: what stays, then what was created.                          *)
LEMMA JoinedTable ==
  ASSUME NEW table, NEW next, NEW old, NEW set \in Updates, TableFacts(table, next, old),
         next \in Nat \ {0},
         NEW kept, Stay(kept, table, set), NEW new, Come(new, table, set, next),
         NEW after, after = kept \o new, Len(after) <= MaxLive
  PROVE  Joined(table, next, set, kept, new, after)
<1> DEFINE n == Len(table)
           a == Len(kept)
           c == Len(new)
<1>1. /\ table \in Seq(TargetType) /\ n \in Nat /\ DOMAIN table = 1 .. n
      /\ \A i \in 1 .. n : Sound(table[i]) /\ table[i] \in TargetType
      /\ \A i \in 1 .. n : table[i].generation \in 1 .. next - 1
      /\ \A i, j \in 1 .. n : table[i].generation = table[j].generation => i = j
  BY LenProperties DEF TableFacts, TableInv, Sound
<1>2. \A i, j \in 1 .. n :
        Desired(table[i]) /\ Desired(table[j]) /\ table[i].id = table[j].id => i = j
  BY DEF TableFacts, WantedInv
<1>3. PICK f \in [1 .. a -> 1 .. n] :
       /\ \A k \in 1 .. a : MarkedAs(table[f[k]], kept[k], set) /\ ~Withdrawn(table[f[k]], set)
       /\ \A i \in 1 .. n : ~Withdrawn(table[i], set) => \E k \in 1 .. a : f[k] = i
       /\ \A j, k \in 1 .. a : f[j] = f[k] => j = k
  BY Zenon DEF Stay
<1>4. PICK h \in [1 .. c -> 1 .. Len(set)] :
       /\ \A k \in 1 .. c : set[h[k]] = Pair(new[k]) /\ ~SatisfiedBy(table, set[h[k]])
       /\ \A j \in 1 .. Len(set) : ~SatisfiedBy(table, set[j]) => \E k \in 1 .. c : h[k] = j
       /\ \A j, k \in 1 .. c : h[j] = h[k] => j = k
  BY Zenon DEF Come
<1>5. /\ a \in Nat /\ kept \in Seq(TargetType) /\ c \in Nat /\ new \in Seq(TargetType)
      /\ \A k \in 1 .. c : /\ Sound(new[k]) /\ new[k].generation = next + k - 1
                           /\ new[k].phase = "Pending" /\ Desired(new[k])
  BY LenProperties DEF Stay, Come
<1>6. /\ after \in Seq(TargetType) /\ Len(after) = a + c
      /\ \A k \in 1 .. a : after[k] = kept[k]
      /\ \A k \in 1 .. c : after[a + k] = new[k]
  <2>1. /\ after \in Seq(TargetType) /\ Len(after) = a + c
        /\ \A k \in 1 .. a + c : after[k] = IF k <= a THEN kept[k] ELSE new[k - a]
    BY <1>5, ConcatProperties
  <2>2. \A k \in 1 .. c : a + k \in 1 .. a + c /\ ~(a + k <= a) /\ (a + k) - a = k
    BY <1>5
  <2>3. \A k \in 1 .. a : k \in 1 .. a + c /\ k <= a
    BY <1>5
  <2> QED
    BY <2>1, <2>2, <2>3
<1>7. \A k \in 1 .. a + c : k \in 1 .. a \/ \E j \in 1 .. c : k = a + j
  <2> SUFFICES ASSUME NEW k \in 1 .. a + c, k \notin 1 .. a
               PROVE  \E j \in 1 .. c : k = a + j
    OBVIOUS
  <2>1. k - a \in 1 .. c /\ k = a + (k - a)
    BY <1>5
  <2> QED
    BY <2>1
<1>8. ASSUME NEW k \in 1 .. a
      PROVE  /\ f[k] \in 1 .. n /\ Sound(after[k]) /\ after[k].id = table[f[k]].id
             /\ after[k].generation = table[f[k]].generation
             /\ after[k].phase = table[f[k]].phase
             /\ Pair(after[k]) = Pair(table[f[k]])
             /\ Desired(after[k]) => /\ Desired(table[f[k]])
                                     /\ \E j \in 1 .. Len(set) : set[j] = Pair(after[k])
             /\ ~RetiredBy(table[f[k]], set) => after[k] = table[f[k]]
  <2>1. after[k] = kept[k] /\ MarkedAs(table[f[k]], kept[k], set)
    BY <1>3, <1>6
  <2> QED
    BY <1>3, <2>1 DEF MarkedAs, Pair
<1>9. ASSUME NEW k \in 1 .. c
      PROVE  /\ h[k] \in 1 .. Len(set) /\ Sound(after[a + k]) /\ Desired(after[a + k])
             /\ after[a + k].generation = next + k - 1 /\ after[a + k].phase = "Pending"
             /\ set[h[k]] = Pair(after[a + k]) /\ set[h[k]].id = after[a + k].id
             /\ ~SatisfiedBy(table, set[h[k]])
  <2>1. /\ after[a + k] = new[k] /\ h[k] \in 1 .. Len(set) /\ set[h[k]] = Pair(new[k])
        /\ ~SatisfiedBy(table, set[h[k]])
    BY <1>4, <1>6
  <2>2. /\ Sound(new[k]) /\ new[k].generation = next + k - 1
        /\ new[k].phase = "Pending" /\ Desired(new[k])
    BY <1>5
  <2>3. set[h[k]].id = new[k].id
    BY <2>1 DEF Pair
  <2> QED
    BY <2>1, <2>2, <2>3, Zenon
<1> HIDE DEF n, a, c
<1>10. \A k \in 1 .. a + c : Sound(after[k]) /\ after[k].generation \in 1 .. next + c - 1
  <2> SUFFICES ASSUME NEW k \in 1 .. a + c
               PROVE  Sound(after[k]) /\ after[k].generation \in 1 .. next + c - 1
    OBVIOUS
  <2>1. CASE k \in 1 .. a
    <3>1. f[k] \in 1 .. n /\ Sound(after[k]) /\ after[k].generation = table[f[k]].generation
      BY <1>8, <2>1
    <3>2. table[f[k]].generation \in 1 .. next - 1
      BY <1>1, <3>1
    <3>3. \A x \in 1 .. next - 1 : x \in 1 .. next + c - 1
      BY <1>5
    <3> QED
      BY <3>1, <3>2, <3>3, Zenon
  <2>2. CASE \E j \in 1 .. c : k = a + j
    <3>1. PICK j \in 1 .. c : k = a + j
      BY <2>2
    <3>2. Sound(after[k]) /\ after[k].generation = next + j - 1
      BY <1>9, <3>1
    <3>3. next + j - 1 \in 1 .. next + c - 1
      BY <1>5
    <3> QED
      BY <3>2, <3>3
  <2> QED
    BY <1>7, <2>1, <2>2
<1>11. ASSUME NEW j \in 1 .. a + c, NEW k \in 1 .. a + c,
              after[j].generation = after[k].generation
       PROVE  j = k
  <2>1. CASE j \in 1 .. a /\ k \in 1 .. a
    <3>1. f[j] = f[k]
      <4>1. /\ f[j] \in 1 .. n /\ after[j].generation = table[f[j]].generation
            /\ f[k] \in 1 .. n /\ after[k].generation = table[f[k]].generation
        BY <1>8, <2>1
      <4>2. table[f[j]].generation = table[f[k]].generation
        BY <1>11, <4>1
      <4> QED
        BY <1>1, <4>1, <4>2
    <3> QED
      BY <1>3, <2>1, <3>1
  <2>2. ASSUME NEW x \in 1 .. a, NEW y \in 1 .. c,
               after[x].generation = after[a + y].generation
        PROVE  FALSE
    <3>1. after[x].generation \in 1 .. next - 1 /\ after[a + y].generation = next + y - 1
      BY <1>1, <1>8, <1>9
    <3> QED
      BY <1>5, <2>2, <3>1
  <2>3. ASSUME NEW x \in 1 .. c, NEW y \in 1 .. c, j = a + x, k = a + y
        PROVE  j = k
    <3>1. next + x - 1 = next + y - 1
      BY <1>9, <1>11, <2>3
    <3> QED
      BY <1>5, <2>3, <3>1
  <2> QED
    BY <1>7, <1>11, <2>1, <2>2, <2>3
<1>12. TableInv(after, next + c)
  <2>1. \A j, k \in 1 .. a + c : after[j].generation = after[k].generation => j = k
    BY <1>11
  <2>2. /\ \A i \in 1 .. Len(after) : /\ Sound(after[i])
                                       /\ after[i].generation \in 1 .. next + c - 1
        /\ \A i, j \in 1 .. Len(after) : after[i].generation = after[j].generation => i = j
    BY <1>6, <1>10, <2>1
  <2>3. after \in Seq(TargetType) /\ Len(after) <= MaxLive
    BY <1>6
  <2> DEFINE N == next + c
  <2>0. N - 1 = next + c - 1
    BY <1>5
  <2> HIDE DEF N
  <2>4. \A i \in 1 .. Len(after) : Sound(after[i]) /\ after[i].generation \in 1 .. N - 1
    BY <2>0, <2>2
  <2>5. TableInv(after, N)
    BY <2>2, <2>3, <2>4 DEF TableInv
  <2> QED
    BY <2>5 DEF N
<1>13. \A x, y \in 1 .. Len(set) : set[x].id = set[y].id => x = y
  BY UpdateFacts
<1>14. ASSUME NEW j \in 1 .. a + c, NEW k \in 1 .. a + c, Desired(after[j]), Desired(after[k]),
              after[j].id = after[k].id
       PROVE  j = k
  <2>1. CASE j \in 1 .. a /\ k \in 1 .. a
    <3>1. f[j] = f[k]
      <4>1. /\ f[j] \in 1 .. n /\ after[j].id = table[f[j]].id /\ Desired(table[f[j]])
            /\ f[k] \in 1 .. n /\ after[k].id = table[f[k]].id /\ Desired(table[f[k]])
        BY <1>8, <1>14, <2>1
      <4>2. table[f[j]].id = table[f[k]].id
        BY <1>14, <4>1
      <4> QED
        BY <1>2, <4>1, <4>2
    <3> QED
      BY <1>3, <2>1, <3>1
  <2>2. ASSUME NEW x \in 1 .. a, NEW y \in 1 .. c, Desired(after[x]),
               after[x].id = after[a + y].id
        PROVE  FALSE
    <3>1. PICK s \in 1 .. Len(set) : set[s] = Pair(after[x])
      BY <1>8, <2>2
    <3>2. set[s].id = set[h[y]].id /\ h[y] \in 1 .. Len(set)
      <4>1. set[h[y]].id = after[a + y].id /\ h[y] \in 1 .. Len(set)
        BY <1>9
      <4>2. set[s].id = after[x].id
        BY <3>1, PairId
      <4> QED
        BY <2>2, <4>1, <4>2
    <3>3. s = h[y]
      BY <1>13, <3>2
    <3>4. /\ f[x] \in 1 .. n /\ Desired(table[f[x]]) /\ ~RetiredBy(table[f[x]], set)
      <4>1. f[x] \in 1 .. n /\ Desired(table[f[x]])
        BY <1>8, <2>2
      <4>2. MarkedAs(table[f[x]], kept[x], set) /\ Desired(kept[x])
        BY <1>3, <1>6, <2>2
      <4>3. table[f[x]].phase # "Terminal" /\ set[s] = Pair(table[f[x]])
        BY <1>8, <3>1, <4>2 DEF MarkedAs
      <4>4. RuntimeSatisfiesTarget(table[f[x]], set[s])
        <5>1. set[s] \in Target /\ table[f[x]] \in TargetType
          BY <1>1, <4>1, UpdateFacts
        <5> QED
          BY <4>1, <4>3, <5>1, SatisfiesPair
      <4>5. s \in DOMAIN set
        BY UpdateFacts
      <4> QED
        BY <4>1, <4>4, <4>5 DEF RetiredBy
    <3>5. PICK q \in DOMAIN set : RuntimeSatisfiesTarget(table[f[x]], set[q])
      BY <3>4 DEF RetiredBy
    <3>6. q \in 1 .. Len(set) /\ set[q] \in Target /\ table[f[x]] \in TargetType
      BY <1>1, <3>4, UpdateFacts
    <3>7. set[q] = Pair(table[f[x]])
      BY <3>5, <3>6, SatisfiesPair
    <3>8. set[q].id = set[s].id
      BY <1>8, <3>1, <3>7
    <3>9. q = h[y]
      BY <1>13, <3>3, <3>6, <3>8
    <3>10. SatisfiedBy(table, set[h[y]])
      BY <1>1, <3>4, <3>5, <3>9 DEF SatisfiedBy
    <3> QED
      BY <1>9, <3>10
  <2>3. ASSUME NEW x \in 1 .. c, NEW y \in 1 .. c, j = a + x, k = a + y
        PROVE  j = k
    <3>1. set[h[x]].id = set[h[y]].id /\ h[x] \in 1 .. Len(set) /\ h[y] \in 1 .. Len(set)
      BY <1>9, <1>14, <2>3
    <3>2. h[x] = h[y]
      BY <1>13, <3>1
    <3> QED
      BY <1>4, <2>3, <3>2 DEF c
  <2> QED
    BY <1>7, <1>14, <2>1, <2>2, <2>3
<1>15. ASSUME NEW k \in 1 .. a + c, Desired(after[k])
       PROVE  \E j \in 1 .. Len(set) : set[j] = Pair(after[k])
  <2>1. CASE k \in 1 .. a
    BY <1>8, <1>15, <2>1
  <2>2. CASE \E j \in 1 .. c : k = a + j
    BY <1>9, <2>2
  <2> QED
    BY <1>7, <2>1, <2>2
<1>16. ASSUME NEW j \in 1 .. Len(set)
       PROVE  \E k \in 1 .. a + c : Desired(after[k]) /\ set[j] = Pair(after[k])
  <2>1. CASE ~SatisfiedBy(table, set[j])
    <3>1. PICK k \in 1 .. c : h[k] = j
      BY <1>4, <2>1 DEF c
    <3>2. a + k \in 1 .. a + c
      BY <1>5
    <3> QED
      BY <1>9, <3>1, <3>2
  <2>2. CASE SatisfiedBy(table, set[j])
    <3>1. PICK i \in 1 .. n : RuntimeSatisfiesTarget(table[i], set[j])
      BY <1>1, <2>2 DEF SatisfiedBy
    <3>2. set[j] \in Target /\ table[i] \in TargetType /\ j \in DOMAIN set
      BY <1>1, UpdateFacts
    <3>3. Desired(table[i]) /\ set[j] = Pair(table[i])
      BY <3>1, <3>2, SatisfiesPair
    <3>4. ~RetiredBy(table[i], set) /\ ~Withdrawn(table[i], set)
      BY <3>1, <3>2 DEF RetiredBy, Withdrawn
    <3>5. PICK k \in 1 .. a : f[k] = i
      BY <1>3, <3>4 DEF a, n
    <3>6. after[k] = table[i] /\ k \in 1 .. a + c
      <4>1. ~RetiredBy(table[f[k]], set)
        BY <3>4, <3>5
      <4>2. after[k] = table[f[k]]
        BY <1>8, <4>1
      <4>3. k \in 1 .. a + c
        BY <1>5
      <4> QED
        BY <3>5, <4>2, <4>3
    <3> QED
      BY <3>3, <3>6
  <2> QED
    BY <2>1, <2>2
<1>17. WantedInv(after, set)
  <2>1. \A j, k \in 1 .. a + c :
          Desired(after[j]) /\ Desired(after[k]) /\ after[j].id = after[k].id => j = k
    BY <1>14
  <2>2. \A k \in 1 .. a + c :
          Desired(after[k]) => \E j \in 1 .. Len(set) : set[j] = Pair(after[k])
    BY <1>15
  <2>3. \A j \in 1 .. Len(set) :
          \E k \in 1 .. a + c : Desired(after[k]) /\ set[j] = Pair(after[k])
    BY <1>16
  <2>4. Len(after) = a + c
    BY <1>6
  <2> QED
    BY <2>1, <2>2, <2>3, <2>4, Zenon DEF WantedInv
<1>18. FollowsAll(table, after, next)
  <2>1. ASSUME NEW k \in 1 .. a + c
        PROVE  \/ after[k].generation >= next
               \/ \E i \in 1 .. n : /\ table[i].generation = after[k].generation
                                    /\ Follows(table[i], after[k])
    <3>1. CASE k \in 1 .. a
      <4>1. f[k] \in 1 .. n /\ table[f[k]].generation = after[k].generation
            /\ after[k].phase = table[f[k]].phase
        BY <1>8, <3>1
      <4>2. Follows(table[f[k]], after[k])
        BY <4>1, SamePhaseFollows
      <4> QED
        BY <4>1, <4>2
    <3>2. CASE \E j \in 1 .. c : k = a + j
      <4>1. PICK j \in 1 .. c : k = a + j
        BY <3>2
      <4>2. after[k].generation = next + j - 1
        BY <1>9, <4>1
      <4>3. next + j - 1 >= next
        BY <1>5
      <4> QED
        BY <4>2, <4>3
    <3> QED
      BY <1>7, <3>1, <3>2
  <2> QED
    BY <1>6, <2>1 DEF FollowsAll, n
<1>19. ASSUME NEW g \in 1 .. next - 1
       PROVE  Live(after, g) <=> \E i \in 1 .. n :
                                   /\ table[i].generation = g /\ table[i].phase # "Terminal"
                                   /\ ~Withdrawn(table[i], set)
  <2>1. ASSUME Live(after, g)
        PROVE  \E i \in 1 .. n : /\ table[i].generation = g /\ table[i].phase # "Terminal"
                                 /\ ~Withdrawn(table[i], set)
    <3>1. PICK k \in 1 .. a + c : after[k].generation = g /\ after[k].phase # "Terminal"
      BY <1>6, <2>1 DEF Live
    <3>2. k \in 1 .. a
      <4> SUFFICES ASSUME NEW j \in 1 .. c, k = a + j PROVE FALSE
        BY <1>7
      <4>1. g = next + j - 1
        BY <1>9, <3>1
      <4> QED
        BY <4>1
    <3>3. /\ f[k] \in 1 .. n /\ table[f[k]].generation = g /\ table[f[k]].phase # "Terminal"
          /\ ~Withdrawn(table[f[k]], set)
      BY <1>3, <1>8, <3>1, <3>2 DEF a
    <3> QED
      BY <3>3
  <2>2. ASSUME NEW i \in 1 .. n, table[i].generation = g, table[i].phase # "Terminal",
               ~Withdrawn(table[i], set)
        PROVE  Live(after, g)
    <3>1. PICK k \in 1 .. a : f[k] = i
      BY <1>3, <2>2 DEF a, n
    <3>2. k \in 1 .. Len(after) /\ after[k].generation = g /\ after[k].phase # "Terminal"
      <4>1. after[k].generation = table[f[k]].generation /\ after[k].phase = table[f[k]].phase
        BY <1>8
      <4>2. k \in 1 .. Len(after)
        BY <1>5, <1>6
      <4> QED
        BY <2>2, <3>1, <4>1, <4>2
    <3> QED
      BY <3>2 DEF Live
  <2> QED
    BY <2>1, <2>2
<1>20. ASSUME NEW g \in next .. next + c - 1
       PROVE  Live(after, g)
  <2>1. g - next + 1 \in 1 .. c /\ next + (g - next + 1) - 1 = g
    BY <1>5
  <2>2. a + (g - next + 1) \in 1 .. Len(after)
    BY <1>5, <1>6, <2>1
  <2>3. /\ after[a + (g - next + 1)].generation = g
        /\ after[a + (g - next + 1)].phase # "Terminal"
    BY <1>9, <2>1
  <2> QED
    BY <2>2, <2>3 DEF Live
<1>21. TableFacts(after, next + c, set)
  BY <1>12, <1>17 DEF TableFacts
<1>22. LivesOn(table, set, next, c, after)
  BY <1>19, <1>20 DEF LivesOn, n
<1> QED
  BY <1>6, <1>18, <1>21, <1>22 DEF a, c, Joined

(* The outcomes of an update: one for each generation withdrawn at once.      *)
WithdrawnLive(table, set, g) ==
  \E i \in 1 .. Len(table) : /\ table[i].generation = g /\ table[i].phase # "Terminal"
                             /\ Withdrawn(table[i], set)

LEMMA EndsMember ==
  ASSUME NEW table, DOMAIN table = 1 .. Len(table), NEW set, NEW g, NEW o
  PROVE  o \in EndsOf(table, set, g) <=>
           \E i \in 1 .. Len(table) :
             /\ table[i].generation = g /\ table[i].phase # "Terminal"
             /\ Withdrawn(table[i], set) /\ o = Outcome(table[i])
BY DEF EndsOf, ToSet, RecordsRetirement

LEMMA SoundOutcome ==
  ASSUME NEW t, Sound(t)
  PROVE  Outcome(t) \in OutcomeType
<1>1. t.sent \in Nat /\ t.wire \in Nat /\ t.sent = t.wire
  BY DEF Sound, TargetType, CountSound
<1>2. t.wire - t.sent \in {0}
  BY <1>1
<1> QED
  BY <1>1, <1>2, Zenon DEF Outcome, OutcomeType

LEMMA UpdateEnds ==
  ASSUME NEW table, NEW next, NEW old, TableFacts(table, next, old), NEW set, NEW g
  PROVE  LET l == SetToSeq(EndsOf(table, set, g))
         IN  IF WithdrawnLive(table, set, g)
             THEN l \in Seq(OutcomeType) /\ Len(l) = 1
             ELSE l = <<>>
<1>1. /\ table \in Seq(TargetType) /\ DOMAIN table = 1 .. Len(table)
      /\ \A i \in 1 .. Len(table) : Sound(table[i])
      /\ \A i, j \in 1 .. Len(table) : table[i].generation = table[j].generation => i = j
  BY LenProperties DEF TableFacts, TableInv
<1>2. CASE WithdrawnLive(table, set, g)
  <2>1. PICK i \in 1 .. Len(table) :
          /\ table[i].generation = g /\ table[i].phase # "Terminal" /\ Withdrawn(table[i], set)
    BY <1>2 DEF WithdrawnLive
  <2>2. \A o : o \in EndsOf(table, set, g) <=> o = Outcome(table[i])
    BY <1>1, <2>1, EndsMember
  <2>3. EndsOf(table, set, g) = {Outcome(table[i])}
    BY <2>2
  <2>4. Outcome(table[i]) \in OutcomeType
    BY <1>1, SoundOutcome
  <2> QED
    BY <1>2, <2>3, <2>4, OneEnd
<1>3. CASE ~WithdrawnLive(table, set, g)
  <2>1. \A o : o \notin EndsOf(table, set, g)
    BY <1>1, <1>3, EndsMember DEF WithdrawnLive
  <2>2. EndsOf(table, set, g) = {}
    BY <2>1
  <2> QED
    BY <1>3, <2>2, NoEnds
<1> QED
  BY <1>2, <1>3

OutcomeAt(table, next, l, g) ==
  /\ l \in Seq(OutcomeType)
  /\ g >= next => l = <<>>
  /\ g \in 1 .. next - 1 => Len(l) = IF Live(table, g) THEN 0 ELSE 1

LEMMA UpdateOutcomes ==
  ASSUME NEW table, NEW next, NEW old, TableFacts(table, next, old), NEW set \in Updates,
         NEW said, OutcomeInv(table, next, said),
         NEW c \in Nat, next + c - 1 <= MaxGenerations,
         NEW after, LivesOn(table, set, next, c, after),
         NEW told, told = [g \in Generations |-> said[g] \o SetToSeq(EndsOf(table, set, g))]
  PROVE  OutcomeInv(after, next + c, told)
<1>1. /\ next \in Nat \ {0} /\ next \in 1 .. MaxGenerations + 1 /\ MaxGenerations \in Nat
      /\ \A g \in Generations : said[g] \in Seq(OutcomeType)
      /\ \A g \in Generations : g >= next => said[g] = <<>>
      /\ \A g \in 1 .. next - 1 : Len(said[g]) = IF Live(table, g) THEN 0 ELSE 1
  BY TargetsAssumption DEF OutcomeInv
<1>2. \A i, j \in 1 .. Len(table) : table[i].generation = table[j].generation => i = j
  BY DEF TableFacts, TableInv
<1>3. \A g \in Generations : told[g] = said[g] \o SetToSeq(EndsOf(table, set, g))
  OBVIOUS
<1>4. \A g \in Generations : g \in Nat /\ g >= 1 /\ (g >= next \/ g \in 1 .. next - 1)
  BY <1>1 DEF Generations
<1>5. \A i \in 1 .. Len(table) : table[i].generation \in 1 .. next - 1
  BY DEF TableFacts, TableInv
<1>6. \A g \in 1 .. next + c - 1 : g \in Generations
  BY <1>1 DEF Generations
<1>7. ASSUME NEW g \in Generations
      PROVE  OutcomeAt(after, next + c, told[g], g)
  <2> DEFINE l == SetToSeq(EndsOf(table, set, g))
  <2>1. /\ WithdrawnLive(table, set, g) => l \in Seq(OutcomeType) /\ Len(l) = 1
        /\ ~WithdrawnLive(table, set, g) => l = <<>>
    BY UpdateEnds
  <2>2. told[g] = said[g] \o l /\ said[g] \in Seq(OutcomeType)
    BY <1>1, <1>3
  <2> HIDE DEF l
  <2>3. CASE WithdrawnLive(table, set, g)
    <3>1. PICK i \in 1 .. Len(table) :
            /\ table[i].generation = g /\ table[i].phase # "Terminal" /\ Withdrawn(table[i], set)
      BY <2>3 DEF WithdrawnLive
    <3>2. g \in 1 .. next - 1
      BY <1>5, <3>1
    <3>3. Live(table, g)
      BY <3>1, Zenon DEF Live
    <3>4. Len(said[g]) = 0
      BY <1>1, <3>2, <3>3
    <3>5. told[g] \in Seq(OutcomeType) /\ Len(told[g]) = 1
      <4>1. l \in Seq(OutcomeType) /\ Len(l) = 1
        BY <2>1, <2>3
      <4>2. /\ said[g] \o l \in Seq(OutcomeType)
            /\ Len(said[g] \o l) = Len(said[g]) + Len(l)
        BY <2>2, <4>1, ConcatProperties, Zenon
      <4>3. Len(said[g] \o l) = 1
        BY <3>4, <4>1, <4>2
      <4> QED
        BY <2>2, <4>2, <4>3
    <3>6. ~(\E j \in 1 .. Len(table) :
              /\ table[j].generation = g /\ table[j].phase # "Terminal"
              /\ ~Withdrawn(table[j], set))
      BY <1>2, <3>1
    <3>7. ~Live(after, g)
      BY <3>2, <3>6 DEF LivesOn
    <3>8. ~(g >= next + c)
      BY <1>1, <3>2
    <3> QED
      BY <3>5, <3>7, <3>8 DEF OutcomeAt
  <2>4. CASE ~WithdrawnLive(table, set, g)
    <3>1. told[g] = said[g]
      BY <2>1, <2>2, <2>4, ConcatEmptySeq
    <3>2. CASE g \in 1 .. next - 1
      <4>1. Live(after, g) <=> Live(table, g)
        BY <2>4, <3>2 DEF Live, WithdrawnLive, LivesOn
      <4>2. ~(g >= next + c)
        BY <1>1, <3>2
      <4>3. Len(said[g]) = IF Live(table, g) THEN 0 ELSE 1
        BY <1>1, <3>2
      <4> QED
        BY <2>2, <3>1, <4>1, <4>2, <4>3, Zenon DEF OutcomeAt
    <3>3. CASE g >= next
      <4>1. said[g] = <<>> /\ Len(<<>>) = 0
        BY <1>1, <3>3
      <4>2. g \in 1 .. (next + c) - 1 => g \in next .. next + c - 1
        BY <1>1, <1>4, <3>3
      <4>3. g \in 1 .. (next + c) - 1 => Live(after, g)
        BY <4>2 DEF LivesOn
      <4> QED
        BY <2>2, <3>1, <4>1, <4>3, Zenon DEF OutcomeAt
    <3> QED
      BY <1>4, <3>2, <3>3
  <2> QED
    BY <2>3, <2>4
<1> DEFINE N == next + c
<1>8. N \in 1 .. MaxGenerations + 1 /\ \A g \in 1 .. N - 1 : g \in Generations
  BY <1>1, <1>6
<1>9. \A g \in Generations : OutcomeAt(after, N, told[g], g)
  BY <1>7
<1> HIDE DEF N
<1>10. told \in [Generations -> Seq(OutcomeType)]
  <2>1. \A g \in Generations : said[g] \o SetToSeq(EndsOf(table, set, g)) \in Seq(OutcomeType)
    BY <1>3, <1>9 DEF OutcomeAt
  <2> QED
    BY <2>1
<1>11. OutcomeInv(after, N, told)
  BY <1>8, <1>9, <1>10, Zenon DEF OutcomeInv, OutcomeAt
<1> QED
  BY <1>11 DEF N

(***************************************************************************)
(* The steps                                                                *)
(***************************************************************************)
LEMMA InvariantNext ==
  ASSUME TableFacts(targets', nextGeneration', wanted'),
         OutcomeInv(targets', nextGeneration', outcomes'), CursorInv'
  PROVE  TargetsInv'
BY DEF TargetsInv, TableFacts

LEMMA InvariantParts ==
  ASSUME TargetsInv
  PROVE  /\ TableFacts(targets, nextGeneration, wanted)
         /\ OutcomeInv(targets, nextGeneration, outcomes) /\ CursorInv
         /\ Len(targets) \in Nat /\ DOMAIN targets = 1 .. Len(targets)
         /\ targets \in Seq(TargetType) /\ \A i \in 1 .. Len(targets) : Sound(targets[i])
         /\ nextGeneration \in Nat \ {0} /\ Reconnects /\ wanted \in Updates
<1>1. /\ TableFacts(targets, nextGeneration, wanted)
      /\ OutcomeInv(targets, nextGeneration, outcomes) /\ CursorInv
      /\ wanted \in Updates
  BY DEF TargetsInv, TableFacts, WantedInv
<1>2. targets \in Seq(TargetType) /\ \A i \in 1 .. Len(targets) : Sound(targets[i])
  BY <1>1 DEF TableFacts, TableInv
<1>3. Len(targets) \in Nat /\ DOMAIN targets = 1 .. Len(targets)
  BY <1>2, LenProperties
<1>4. nextGeneration \in Nat \ {0}
  BY <1>1, TargetsAssumption DEF OutcomeInv
<1>5. Reconnects
  BY <1>1, TargetsAssumption DEF CursorInv, Reconnects, Reconnect
<1> QED
  BY <1>1, <1>2, <1>3, <1>4, <1>5

(* Cursors are rebased to what is left of the table.                          *)
LEMMA Rebased ==
  ASSUME NEW c \in [target : Nat, scan : Nat, timeout : Nat], NEW n \in Nat, NEW m \in Nat,
         n <= m
  PROVE  LET d == RebaseTargetCursors(c, n)
         IN  /\ d \in [target : Nat, scan : Nat, timeout : Nat] /\ d.scan <= m
             /\ d.timeout < m \/ d.timeout = 0
<1>1. c.target \in Nat /\ c.scan \in Nat /\ c.timeout \in Nat
  OBVIOUS
<1>2. CASE n = 0
  BY <1>1, <1>2 DEF RebaseTargetCursors, Lesser
<1>3. CASE n # 0
  <2>1. c.target % n \in 0 .. n - 1 /\ c.timeout % n \in 0 .. n - 1
    BY <1>1, <1>3
  <2>2. c.target % n \in Nat /\ c.timeout % n \in Nat /\ c.timeout % n < m
    BY <2>1
  <2>3. Lesser(c.scan, n) \in Nat /\ Lesser(c.scan, n) <= m
    BY <1>1 DEF Lesser
  <2>4. RebaseTargetCursors(c, n)
          = [target |-> c.target % n, scan |-> Lesser(c.scan, n), timeout |-> c.timeout % n]
    BY <1>3 DEF RebaseTargetCursors
  <2> QED
    BY <2>2, <2>3, <2>4
<1> QED
  BY <1>2, <1>3

LEMMA IndexCount ==
  ASSUME NEW n \in Nat
  PROVE  IsFiniteSet(1 .. n) /\ Cardinality(1 .. n) = n
<1>1. /\ IsFiniteSet(1 .. n) /\ Cardinality(1 .. n) = IF 1 > n THEN 0 ELSE n - 1 + 1
  BY FS_Interval
<1> QED
  BY <1>1

LEMMA ApplyKeeps ==
  ASSUME TargetsInv, NEW set \in Updates, ApplyTargets(set), config' = config
  PROVE  TargetsInv' /\ FollowsAll(targets, targets', nextGeneration)
<1> DEFINE kept == KeptSeq(targets, set)
           new == NewSeq(targets, set, nextGeneration)
           c == Len(new)
<1>1. /\ TableFacts(targets, nextGeneration, wanted)
      /\ OutcomeInv(targets, nextGeneration, outcomes) /\ CursorInv
      /\ Len(targets) \in Nat /\ DOMAIN targets = 1 .. Len(targets)
      /\ targets \in Seq(TargetType) /\ \A i \in 1 .. Len(targets) : Sound(targets[i])
      /\ nextGeneration \in Nat \ {0}
  BY InvariantParts
<1>2. Stay(kept, targets, set) /\ Len(kept) = Cardinality(Staying(targets, set))
  BY <1>1, KeptStay
<1>3. /\ Come(new, targets, set, nextGeneration)
      /\ c = Len(Selected(set, Lacking(targets, set)))
  BY <1>1, NewCome
<1>4. /\ targets' = kept \o new /\ Len(targets') <= MaxLive
      /\ nextGeneration' = nextGeneration + c /\ nextGeneration + c - 1 <= MaxGenerations
      /\ outcomes' = [g \in Generations |-> outcomes[g] \o SetToSeq(EndsOf(targets, set, g))]
      /\ \/ cursors' = RebaseTargetCursors(cursors, Len(kept))
         \/ { t \in ToSet(targets) : Withdrawn(t, set) } = {} /\ cursors' = cursors
      /\ run' \in {"Running", "Finishing"} /\ wanted' = set
      /\ poll.at = "commands" /\ poll' = poll /\ backlog' = backlog
  BY <1>3, ApplyShape, Zenon
<1> HIDE DEF kept, new, c
<1>5. Len(kept) \in Nat /\ Len(new) \in Nat /\ c = Len(new)
  BY <1>2, <1>3, LenProperties DEF Stay, Come, c
<1>6. /\ TableFacts(targets', nextGeneration + c, set)
      /\ FollowsAll(targets, targets', nextGeneration)
      /\ Len(targets') = Len(kept) + Len(new)
      /\ LivesOn(targets, set, nextGeneration, c, targets')
  <2>1. Joined(targets, nextGeneration, set, kept, new, targets')
    BY <1>1, <1>2, <1>3, <1>4, JoinedTable
  <2> QED
    BY <1>5, <2>1, Zenon DEF Joined
<1>7. OutcomeInv(targets', nextGeneration + c, outcomes')
  <2>1. c \in Nat
    BY <1>5
  <2> QED
    BY <1>1, <1>4, <1>6, <2>1, UpdateOutcomes
<1>8. Len(kept) <= Len(targets') /\ Len(targets') \in Nat
  BY <1>5, <1>6
<1>9. /\ cursors' \in [target : Nat, scan : Nat, timeout : Nat]
      /\ cursors'.scan <= Len(targets')
      /\ cursors'.timeout < Len(targets') \/ cursors'.timeout = 0
  <2>1. CASE cursors' = RebaseTargetCursors(cursors, Len(kept))
    <3>1. cursors \in [target : Nat, scan : Nat, timeout : Nat]
      BY <1>1 DEF CursorInv
    <3> QED
      BY <1>5, <1>8, <2>1, <3>1, Rebased
  <2>2. CASE { t \in ToSet(targets) : Withdrawn(t, set) } = {} /\ cursors' = cursors
    <3>1. \A i \in 1 .. Len(targets) : ~Withdrawn(targets[i], set)
      BY <1>1, <2>2 DEF ToSet
    <3>2. Staying(targets, set) = 1 .. Len(targets)
      BY <1>1, <3>1 DEF Staying
    <3>3. Len(kept) = Len(targets)
      <4>1. Cardinality(1 .. Len(targets)) = Len(targets)
        BY <1>1, IndexCount
      <4> QED
        BY <1>2, <3>2, <4>1
    <3> QED
      BY <1>1, <1>8, <2>2, <3>3 DEF CursorInv
  <2> QED
    BY <1>4, <2>1, <2>2
<1>10. CursorInv'
  BY <1>1, <1>4, <1>9 DEF CursorInv
<1> QED
  BY <1>4, <1>5, <1>6, <1>7, <1>10, InvariantNext

(* A step that leaves the table alone, and one that installs a target.        *)
LEMMA Untouched ==
  ASSUME TargetsInv, UNCHANGED <<targets, nextGeneration, outcomes, wanted>>, CursorInv'
  PROVE  TargetsInv' /\ FollowsAll(targets, targets', nextGeneration)
<1>1. TargetsInv'
  BY DEF TargetsInv
<1>2. \A j \in 1 .. Len(targets) : Follows(targets[j], targets[j])
  BY SamePhaseFollows
<1>3. FollowsAll(targets, targets', nextGeneration)
  BY <1>2 DEF FollowsAll
<1> QED
  BY <1>1, <1>3

LEMMA Installed ==
  ASSUME TargetsInv, NEW i \in 1 .. Len(targets), NEW t, Goes(targets[i], t), Install(i, t),
         UNCHANGED <<nextGeneration, wanted>>,
         Len(targets') = Len(targets) => CursorInv'
  PROVE  TargetsInv' /\ FollowsAll(targets, targets', nextGeneration)
<1>1. /\ TableFacts(targets, nextGeneration, wanted)
      /\ OutcomeInv(targets, nextGeneration, outcomes)
  BY InvariantParts
<1>2. targets' = [targets EXCEPT ![i] = t] /\ outcomes' = Told(outcomes, targets[i], t)
  BY DEF Install, Told
<1>3. /\ TableFacts(targets', nextGeneration, wanted)
      /\ OutcomeInv(targets', nextGeneration, outcomes')
      /\ Len(targets') = Len(targets) /\ FollowsAll(targets, targets', nextGeneration)
  <2>1. Carried(targets, nextGeneration, wanted, targets', outcomes')
    BY <1>1, <1>2, InstallKeeps
  <2> QED
    BY <2>1, Zenon DEF Carried
<1> QED
  BY <1>3, InvariantNext

(* One visit less, one timeout less, or both.                                  *)
LEMMA PollVisit ==
  ASSUME NEW p \in PollType, p.visits # 0, NEW q, q = [p EXCEPT !.visits = @ - 1]
  PROVE  /\ q \in PollType /\ q.at = p.at /\ q.visits = p.visits - 1
         /\ p.visits \in Nat \ {0}
<1>1. p.visits \in Nat \ {0}
  BY DEF PollType
<1>2. p.visits - 1 \in Nat
  BY <1>1
<1>3. q = [p EXCEPT !.visits = p.visits - 1]
  OBVIOUS
<1> QED
  BY <1>1, <1>2, <1>3 DEF PollType

LEMMA PollSpend ==
  ASSUME NEW p \in PollType, p.budget # 0, NEW q, q = [p EXCEPT !.budget = @ - 1]
  PROVE  q \in PollType /\ q.at = p.at /\ q.visits = p.visits
<1>1. p.budget - 1 \in Nat
  BY DEF PollType
<1> QED
  BY <1>1 DEF PollType

LEMMA PollBoth ==
  ASSUME NEW p \in PollType, p.visits # 0, p.budget # 0,
         NEW q, q = [p EXCEPT !.visits = @ - 1, !.budget = @ - 1]
  PROVE  q \in PollType /\ q.at = p.at
<1>1. p.budget - 1 \in Nat /\ p.visits - 1 \in Nat
  BY DEF PollType
<1> QED
  BY <1>1 DEF PollType

LEMMA PollTo ==
  ASSUME NEW p \in PollType, NEW at \in {"commands", "settle", "ended"},
         NEW q, q = [p EXCEPT !.at = at]
  PROVE  q \in PollType /\ q.at = at
BY DEF PollType

LEMMA BeginPollKeeps ==
  ASSUME TargetsInv, BeginPoll, config' = config
  PROVE  TargetsInv' /\ FollowsAll(targets, targets', nextGeneration)
<1>1. CursorInv /\ Len(targets) \in Nat /\ targets \in Seq(TargetType) /\ TimeoutBudget \in Nat
  BY InvariantParts, TargetsAssumption
<1>2. /\ poll' = [at |-> "scan", visits |-> Lesser(Len(targets), TimeoutBudget),
                  budget |-> IF targets = <<>> THEN 0 ELSE TimeoutBudget]
      /\ UNCHANGED <<run, targets, nextGeneration, outcomes, cursors, backlog, wanted>>
  BY DEF BeginPoll
<1>3. /\ poll'.at = "scan" /\ poll'.visits \in Nat /\ poll'.budget \in Nat
      /\ poll'.visits > 0 => Len(targets) > 0
  BY <1>1, <1>2 DEF Lesser
<1>4. poll' \in PollType
  BY <1>2, <1>3 DEF PollType
<1>5. CursorInv'
  BY <1>1, <1>2, <1>3, <1>4 DEF CursorInv
<1> QED
  BY <1>2, <1>5, Untouched

LEMMA EnqueueKeeps ==
  ASSUME NEW queue \in Seq([index : Nat \ {0}, generation : Nat]),
         Len(queue) <= TimeoutBudget,
         NEW i \in Nat \ {0}, NEW t, Sound(t)
  PROVE  /\ Enqueue(queue, i, t) \in Seq([index : Nat \ {0}, generation : Nat])
         /\ Len(Enqueue(queue, i, t)) <= TimeoutBudget
<1> DEFINE entry == [index |-> i, generation |-> t.generation]
<1>1. entry \in [index : Nat \ {0}, generation : Nat]
  BY DEF Sound, TargetType
<1> HIDE DEF entry
<1>2. /\ Append(queue, entry) \in Seq([index : Nat \ {0}, generation : Nat])
      /\ Len(Append(queue, entry)) = Len(queue) + 1 /\ Len(queue) \in Nat
  BY <1>1, AppendProperties, LenProperties
<1>3. TimeoutBudget \in Nat
  BY TargetsAssumption
<1>4. Enqueue(queue, i, t) = queue
      \/ (Len(queue) # TimeoutBudget /\ Enqueue(queue, i, t) = Append(queue, entry))
  BY DEF Enqueue, entry
<1>5. CASE Enqueue(queue, i, t) = queue
  BY <1>5
<1>6. CASE Len(queue) # TimeoutBudget /\ Enqueue(queue, i, t) = Append(queue, entry)
  <2>1. Len(queue) + 1 <= TimeoutBudget
    BY <1>2, <1>3, <1>6
  <2> QED
    BY <1>2, <1>6, <2>1
<1> QED
  BY <1>4, <1>5, <1>6

LEMMA GoesSound ==
  ASSUME NEW t, NEW u, Goes(t, u)
  PROVE  Sound(u)
BY DEF Goes

LEMMA ScanTimeoutKeeps ==
  ASSUME TargetsInv, ScanTimeout, config' = config
  PROVE  TargetsInv' /\ FollowsAll(targets, targets', nextGeneration)
<1> DEFINE i == cursors.timeout + 1
           n == Len(targets)
           Entries == Seq([index : Nat \ {0}, generation : Nat])
<1>1. /\ CursorInv /\ n \in Nat /\ \A k \in 1 .. n : Sound(targets[k])
  BY InvariantParts
<1>2. /\ poll.at = "scan" /\ poll.visits > 0 /\ poll.visits # 0 /\ poll.budget # 0
      /\ cursors' = [cursors EXCEPT !.timeout = NextCursor(@, n)]
      /\ UNCHANGED <<run, nextGeneration, wanted>>
  BY <1>1 DEF ScanTimeout, CursorInv, PollType
<1>3. n > 0 /\ cursors.timeout \in Nat /\ i \in 1 .. n
  BY <1>1, <1>2 DEF CursorInv
<1>4. /\ cursors' \in [target : Nat, scan : Nat, timeout : Nat]
      /\ cursors'.scan <= n /\ cursors'.timeout < n
  <2>1. NextCursor(cursors.timeout, n) \in 0 .. n - 1
    BY <1>1, <1>3 DEF NextCursor
  <2>2. NextCursor(cursors.timeout, n) \in Nat /\ NextCursor(cursors.timeout, n) < n
    BY <1>1, <2>1
  <2> QED
    BY <1>1, <1>2, <2>2 DEF CursorInv
<1>5. CASE /\ TargetHasDueTimeout(targets[i])
           /\ \E t \in PollTargetTimeout(targets[i]) :
                Install(i, t) /\ backlog' = Enqueue(backlog, i, t)
           /\ poll' = [poll EXCEPT !.visits = @ - 1, !.budget = @ - 1]
  <2>1. PICK t \in PollTargetTimeout(targets[i]) :
          Install(i, t) /\ backlog' = Enqueue(backlog, i, t)
    BY <1>5
  <2>2. Goes(targets[i], t)
    BY <1>1, <1>3, <1>5, <2>1, PollTargetTimeoutGoes
  <2>3. backlog' \in Entries /\ Len(backlog') <= TimeoutBudget
    <3>1. backlog \in Entries /\ Len(backlog) <= TimeoutBudget /\ i \in Nat \ {0} /\ Sound(t)
      BY <1>1, <1>3, <2>2, GoesSound DEF CursorInv
    <3> QED
      BY <2>1, <3>1, EnqueueKeeps
  <2>4. /\ poll' \in PollType
        /\ poll'.at = "scan"
    BY <1>1, <1>2, <1>5, PollBoth DEF CursorInv
  <2>5. Len(targets') = Len(targets) => CursorInv'
    BY <1>1, <1>2, <1>3, <1>4, <2>3, <2>4 DEF CursorInv
  <2> QED
    BY <1>2, <1>3, <2>1, <2>2, <2>5, Installed
<1>6. CASE /\ poll' = [poll EXCEPT !.visits = @ - 1]
           /\ UNCHANGED <<targets, outcomes, backlog>>
  <2>1. /\ poll' \in PollType
        /\ poll'.at = "scan"
    BY <1>1, <1>2, <1>6, PollVisit DEF CursorInv
  <2>2. CursorInv'
    BY <1>1, <1>2, <1>3, <1>4, <1>6, <2>1 DEF CursorInv
  <2> QED
    BY <1>2, <1>6, <2>2, Untouched
<1> QED
  BY <1>5, <1>6 DEF ScanTimeout

LEMMA BacklogTimeoutKeeps ==
  ASSUME TargetsInv, BacklogTimeout, config' = config
  PROVE  TargetsInv' /\ FollowsAll(targets, targets', nextGeneration)
<1> DEFINE Entry == [index : Nat \ {0}, generation : Nat]
           i == Head(backlog).index
           n == Len(targets)
<1>1. /\ CursorInv /\ n \in Nat /\ \A k \in 1 .. n : Sound(targets[k])
  BY InvariantParts
<1>2. /\ poll.at = "scan" /\ poll.visits = 0 /\ poll.budget # 0 /\ backlog # <<>>
      /\ UNCHANGED <<run, nextGeneration, cursors, wanted>>
  BY <1>1 DEF BacklogTimeout, CursorInv, PollType
<1>3. /\ backlog \in Seq(Entry) /\ Len(backlog) <= TimeoutBudget /\ TimeoutBudget \in Nat
  BY <1>1, TargetsAssumption DEF CursorInv
<1>4. /\ Head(backlog) \in Entry /\ Tail(backlog) \in Seq(Entry)
      /\ Len(Tail(backlog)) <= TimeoutBudget
  <2>1. /\ Head(backlog) \in Entry /\ Tail(backlog) \in Seq(Entry)
        /\ Len(Tail(backlog)) = Len(backlog) - 1 /\ Len(backlog) \in Nat
    BY <1>2, <1>3, HeadTailProperties, LenProperties
  <2>2. Len(backlog) - 1 <= TimeoutBudget
    BY <1>3, <2>1
  <2> QED
    BY <2>1, <2>2
<1>5. i \in Nat \ {0}
  BY <1>4
<1>6. ASSUME i <= n, TargetHasDueTimeout(targets[i]),
             NEW t \in PollTargetTimeout(targets[i]), Install(i, t),
             backlog' = Enqueue(Tail(backlog), i, t),
             poll' = [poll EXCEPT !.budget = @ - 1]
      PROVE  TargetsInv' /\ FollowsAll(targets, targets', nextGeneration)
  <2>1. i \in 1 .. n
    BY <1>1, <1>5, <1>6
  <2>2. Goes(targets[i], t)
    BY <1>1, <1>6, <2>1, PollTargetTimeoutGoes
  <2>3. backlog' \in Seq(Entry) /\ Len(backlog') <= TimeoutBudget
    <3>1. Sound(t)
      BY <2>2, GoesSound
    <3> QED
      BY <1>4, <1>5, <1>6, <3>1, EnqueueKeeps
  <2>4. /\ poll' \in PollType
        /\ poll'.at = "scan" /\ poll'.visits = 0
    BY <1>1, <1>2, <1>6, PollSpend DEF CursorInv
  <2>5. Len(targets') = Len(targets) => CursorInv'
    BY <1>1, <1>2, <2>3, <2>4 DEF CursorInv
  <2> QED
    BY <1>2, <1>6, <2>1, <2>2, <2>5, Installed
<1>7. CASE backlog' = Tail(backlog) /\ UNCHANGED <<targets, outcomes, poll>>
  <2>1. CursorInv'
    BY <1>1, <1>2, <1>4, <1>7 DEF CursorInv
  <2> QED
    BY <1>2, <1>7, <2>1, Untouched
<1> QED
  BY <1>6, <1>7 DEF BacklogTimeout

LEMMA BeginTargetsKeeps ==
  ASSUME TargetsInv, BeginTargets, config' = config
  PROVE  TargetsInv' /\ FollowsAll(targets, targets', nextGeneration)
<1> DEFINE n == Len(targets)
           scan == IF cursors.scan = 0 THEN n ELSE cursors.scan
           work == Lesser(scan, TargetBudget)
<1>1. CursorInv /\ n \in Nat /\ TargetBudget \in Nat
  BY InvariantParts, TargetsAssumption
<1>2. /\ poll' = [at |-> "targets", visits |-> work, budget |-> 0]
      /\ cursors' = [cursors EXCEPT !.scan = scan - work]
      /\ UNCHANGED <<run, targets, nextGeneration, outcomes, backlog, wanted>>
  BY DEF BeginTargets
<1>3. scan \in 0 .. n
  BY <1>1 DEF CursorInv
<1> HIDE DEF scan
<1>4. work \in Nat /\ scan - work \in 0 .. n /\ (work > 0 => n > 0)
  BY <1>1, <1>3 DEF Lesser
<1> HIDE DEF work
<1>5. poll' \in PollType /\ poll'.at = "targets" /\ poll'.visits = work
  BY <1>2, <1>4 DEF PollType
<1>6. /\ cursors' \in [target : Nat, scan : Nat, timeout : Nat]
      /\ cursors'.scan <= n /\ cursors'.timeout = cursors.timeout
  <2>1. scan - work \in Nat /\ scan - work <= n
    BY <1>1, <1>4
  <2> QED
    BY <1>1, <1>2, <2>1 DEF CursorInv
<1>7. CursorInv'
  BY <1>1, <1>2, <1>4, <1>5, <1>6 DEF CursorInv
<1> QED
  BY <1>2, <1>7, Untouched

LEMMA VisitTargetKeeps ==
  ASSUME TargetsInv, VisitTarget, config' = config
  PROVE  TargetsInv' /\ FollowsAll(targets, targets', nextGeneration)
<1> DEFINE n == Len(targets)
           i == (cursors.target % n) + 1
<1>1. CursorInv /\ n \in Nat /\ \A k \in 1 .. n : Sound(targets[k])
  BY InvariantParts
<1>2. /\ poll.at = "targets" /\ poll.visits > 0 /\ poll.visits # 0
      /\ cursors' = [cursors EXCEPT !.target = (@ + 1) % n]
      /\ poll' = [poll EXCEPT !.visits = @ - 1]
      /\ UNCHANGED <<run, nextGeneration, backlog, wanted>>
  BY <1>1 DEF VisitTarget, CursorInv, PollType
<1>3. PICK t \in PollTarget(targets[i]) : Install(i, t)
  BY DEF VisitTarget
<1>4. n > 0 /\ cursors.target \in Nat
  BY <1>1, <1>2 DEF CursorInv
<1>5. cursors.target % n \in 0 .. n - 1 /\ (cursors.target + 1) % n \in 0 .. n - 1
  BY <1>1, <1>4
<1>6. i \in 1 .. n /\ (cursors.target + 1) % n \in Nat
  BY <1>1, <1>5
<1>7. /\ cursors' \in [target : Nat, scan : Nat, timeout : Nat]
      /\ cursors'.scan = cursors.scan /\ cursors'.timeout = cursors.timeout
  BY <1>1, <1>2, <1>6 DEF CursorInv
<1>8. poll' \in PollType /\ poll'.at = "targets"
  BY <1>1, <1>2, PollVisit DEF CursorInv
<1> HIDE DEF i
<1>9. Goes(targets[i], t)
  BY <1>1, <1>3, <1>6, PollTargetGoes
<1>10. Len(targets') = Len(targets) => CursorInv'
  BY <1>1, <1>2, <1>4, <1>7, <1>8 DEF CursorInv
<1> QED
  BY <1>2, <1>3, <1>6, <1>9, <1>10, Installed

LEMMA PruneUndesiredTerminalKeeps ==
  ASSUME TargetsInv, PruneUndesiredTerminal, config' = config
  PROVE  TargetsInv' /\ FollowsAll(targets, targets', nextGeneration)
<1> DEFINE n == Len(targets)
           kept == Selected(targets, { i \in DOMAIN targets : Retained(targets[i]) })
<1>1. /\ TableFacts(targets, nextGeneration, wanted)
      /\ OutcomeInv(targets, nextGeneration, outcomes) /\ CursorInv /\ n \in Nat
  BY InvariantParts
<1>2. /\ targets' = kept
      /\ cursors' = IF Len(kept) < n THEN RebaseTargetCursors(cursors, Len(kept)) ELSE cursors
      /\ poll' = IF run = "Running"
                 THEN [at |-> "sends", visits |-> Len(kept), budget |-> 0]
                 ELSE [at |-> "settle", visits |-> 0, budget |-> 0]
      /\ UNCHANGED <<run, nextGeneration, outcomes, backlog, wanted>>
  BY DEF PruneUndesiredTerminal
<1>3. /\ TableFacts(kept, nextGeneration, wanted) /\ OutcomeInv(kept, nextGeneration, outcomes)
      /\ Len(kept) \in 0 .. n /\ FollowsAll(targets, kept, nextGeneration)
  BY <1>1, PruneKeeps
<1> HIDE DEF kept
<1>4. Len(kept) \in Nat /\ (Len(kept) < n \/ Len(kept) = n)
  BY <1>1, <1>3
<1>5. /\ cursors' \in [target : Nat, scan : Nat, timeout : Nat]
      /\ cursors'.scan <= Len(kept) /\ (cursors'.timeout < Len(kept) \/ cursors'.timeout = 0)
  <2>1. cursors \in [target : Nat, scan : Nat, timeout : Nat]
    BY <1>1 DEF CursorInv
  <2>2. CASE Len(kept) < n
    <3>1. cursors' = RebaseTargetCursors(cursors, Len(kept))
      BY <1>2, <2>2
    <3>2. Len(kept) <= Len(kept)
      BY <1>4
    <3> QED
      BY <1>4, <2>1, <3>1, <3>2, Rebased
  <2>3. CASE Len(kept) = n
    <3>1. cursors' = cursors
      BY <1>2, <1>4, <2>3
    <3> QED
      BY <1>1, <2>1, <2>3, <3>1 DEF CursorInv
  <2> QED
    BY <1>4, <2>2, <2>3
<1>6. CASE run = "Running"
  <2>1. poll' \in PollType /\ poll'.at = "sends" /\ poll'.visits = Len(kept)
    BY <1>2, <1>4, <1>6 DEF PollType
  <2>2. CursorInv'
    BY <1>1, <1>2, <1>4, <1>5, <1>6, <2>1 DEF CursorInv
  <2> QED
    BY <1>2, <1>3, <2>2, InvariantNext
<1>7. CASE run # "Running"
  <2>1. poll' \in PollType /\ poll'.at = "settle"
    BY <1>2, <1>7 DEF PollType
  <2>2. CursorInv'
    BY <1>1, <1>2, <1>5, <2>1 DEF CursorInv
  <2> QED
    BY <1>2, <1>3, <2>2, InvariantNext
<1> QED
  BY <1>6, <1>7

LEMMA StaysGoes ==
  ASSUME NEW t, Sound(t)
  PROVE  Goes(t, t)
<1>1. t.phase = "Draining" /\ t.phase = "Closing" => FALSE
  OBVIOUS
<1> QED
  BY <1>1 DEF Goes, Same

LEMMA SendPassKeeps ==
  ASSUME TargetsInv, SendPass, config' = config
  PROVE  TargetsInv' /\ FollowsAll(targets, targets', nextGeneration)
<1> DEFINE n == Len(targets)
           i == poll.visits
           t == targets[i]
<1>1. CursorInv /\ n \in Nat /\ Reconnects /\ \A k \in 1 .. n : Sound(targets[k])
  BY InvariantParts
<1>2. poll.at = "sends" /\ UNCHANGED <<run, nextGeneration, cursors, backlog, wanted>>
  BY DEF SendPass
<1>3. poll \in PollType /\ i \in Nat /\ i <= n /\ run = "Running"
  BY <1>1, <1>2 DEF CursorInv, PollType
<1>4. ASSUME i > 0, NEW u \in {t} \cup (IF t.phase = "Active" /\ Desired(t) THEN PollOneSend(t)
                                        ELSE {}),
             Install(i, u), poll' = [poll EXCEPT !.visits = @ - 1]
      PROVE  TargetsInv' /\ FollowsAll(targets, targets', nextGeneration)
  <2>1. i \in 1 .. n /\ i # 0
    BY <1>1, <1>3, <1>4
  <2>2. Sound(t)
    BY <1>1, <2>1
  <2> HIDE DEF t
  <2>3. Goes(t, u)
    <3>1. CASE u = t
      BY <2>2, <3>1, StaysGoes
    <3>2. CASE t.phase = "Active" /\ u \in PollOneSend(t)
      BY <1>1, <2>2, <3>2, PollOneSendGoes
    <3> QED
      BY <1>4, <3>1, <3>2
  <2>4. poll' \in PollType /\ poll'.at = "sends" /\ poll'.visits = i - 1
    BY <1>2, <1>3, <1>4, <2>1, PollVisit
  <2>5. Len(targets') = n => CursorInv'
    <3>1. i - 1 <= n
      BY <1>1, <1>3
    <3> QED
      BY <1>1, <1>2, <1>3, <2>4, <3>1 DEF CursorInv
  <2>6. Goes(targets[i], u)
    BY <2>3 DEF t
  <2> QED
    BY <1>2, <1>4, <2>1, <2>5, <2>6, Installed
<1>5. CASE poll' = [poll EXCEPT !.at = "settle"] /\ UNCHANGED <<targets, outcomes>>
  <2>1. poll' \in PollType /\ poll'.at = "settle"
    BY <1>3, <1>5, PollTo
  <2>2. CursorInv'
    BY <1>1, <1>2, <1>5, <2>1 DEF CursorInv
  <2> QED
    BY <1>2, <1>5, <2>2, Untouched
<1> QED
  BY <1>4, <1>5, Zenon DEF SendPass

LEMMA SettleKeeps ==
  ASSUME TargetsInv, Settle, config' = config
  PROVE  TargetsInv' /\ FollowsAll(targets, targets', nextGeneration)
<1>1. CursorInv /\ poll \in PollType
  BY InvariantParts DEF CursorInv
<1>2. /\ UNCHANGED <<targets, nextGeneration, outcomes, cursors, backlog, wanted>>
      /\ run' \in {run, "Ended"}
      /\ \E at \in {"commands", "settle", "ended"} :
           at \in {"commands", "ended"} /\ poll' = [poll EXCEPT !.at = at]
  BY DEF Settle
<1>3. poll' \in PollType /\ poll'.at \in {"commands", "ended"}
  BY <1>1, <1>2, PollTo
<1>4. CursorInv'
  BY <1>1, <1>2, <1>3 DEF CursorInv
<1> QED
  BY <1>2, <1>4, Untouched

LEMMA TickStepKeeps ==
  ASSUME TargetsInv, Tick, config' = config
  PROVE  TargetsInv' /\ FollowsAll(targets, targets', nextGeneration)
<1>1. /\ TableFacts(targets, nextGeneration, wanted)
      /\ OutcomeInv(targets, nextGeneration, outcomes) /\ CursorInv /\ Reconnects
  BY InvariantParts
<1>2. /\ poll.at = "commands" /\ targets' = [i \in DOMAIN targets |-> Aged(targets[i])]
      /\ UNCHANGED <<run, nextGeneration, outcomes, poll, cursors, backlog, wanted>>
  BY DEF Tick
<1>3. /\ TableFacts(targets', nextGeneration, wanted)
      /\ OutcomeInv(targets', nextGeneration, outcomes)
      /\ Len(targets') = Len(targets) /\ FollowsAll(targets, targets', nextGeneration)
  BY <1>1, <1>2, TickKeeps
<1>4. CursorInv'
  BY <1>1, <1>2, <1>3 DEF CursorInv
<1> QED
  BY <1>2, <1>3, <1>4, InvariantNext

LEMMA ObserveStopKeeps ==
  ASSUME TargetsInv, ObserveStop, config' = config
  PROVE  TargetsInv' /\ FollowsAll(targets, targets', nextGeneration)
<1>1. CursorInv /\ Len(targets) \in Nat
  BY InvariantParts
<1>2. /\ poll.at \in {"commands", "settle"} /\ run' = "Stopping"
      /\ cursors' = [cursors EXCEPT !.scan = Len(targets)]
      /\ UNCHANGED <<targets, nextGeneration, outcomes, poll, backlog, wanted>>
  BY DEF ObserveStop
<1>3. /\ cursors' \in [target : Nat, scan : Nat, timeout : Nat]
      /\ cursors'.scan = Len(targets) /\ cursors'.timeout = cursors.timeout
  BY <1>1, <1>2 DEF CursorInv
<1>4. CursorInv'
  BY <1>1, <1>2, <1>3 DEF CursorInv
<1> QED
  BY <1>2, <1>4, Untouched

LEMMA StepKeeps ==
  ASSUME TargetsInv, [Next]_vars
  PROVE  TargetsInv' /\ FollowsAll(targets, targets', nextGeneration)
<1>1. CASE Next
  <2>1. config' = config
    BY <1>1 DEF Next
  <2>2. CASE DriverStep
    BY <2>1, <2>2, BeginPollKeeps, ScanTimeoutKeeps, BacklogTimeoutKeeps, BeginTargetsKeeps,
       VisitTargetKeeps, PruneUndesiredTerminalKeeps, SendPassKeeps, SettleKeeps
       DEF DriverStep
  <2>3. CASE Tick
    BY <2>1, <2>3, TickStepKeeps
  <2>4. CASE ObserveStop
    BY <2>1, <2>4, ObserveStopKeeps
  <2>5. CASE Ended
    <3>1. CursorInv' /\ UNCHANGED <<targets, nextGeneration, outcomes, wanted>>
      BY <2>5, InvariantParts DEF Ended, vars, CursorInv
    <3> QED
      BY <3>1, Untouched
  <2>6. ASSUME NEW incoming \in Updates, ApplyTargets(incoming)
        PROVE  TargetsInv' /\ FollowsAll(targets, targets', nextGeneration)
    BY <2>1, <2>6, ApplyKeeps
  <2> QED
    BY <1>1, <2>2, <2>3, <2>4, <2>5, <2>6 DEF Next
<1>2. CASE UNCHANGED vars
  <2>1. CursorInv' /\ UNCHANGED <<targets, nextGeneration, outcomes, wanted>>
    BY <1>2, InvariantParts DEF vars, CursorInv
  <2> QED
    BY <2>1, Untouched
<1> QED
  BY <1>1, <1>2

LEMMA UpdateSize ==
  ASSUME NEW set \in Updates
  PROVE  Len(set) <= MaxLive
<1>1. PICK m \in 0 .. MaxLive : set \in [1 .. m -> Target]
  BY TargetsAssumption DEF Updates, SeqOf, Target
<1>2. Len(set) = m /\ m <= MaxLive
  BY <1>1, TargetsAssumption
<1> QED
  BY <1>2

LEMMA InitKeeps ==
  ASSUME Init
  PROVE  TargetsInv
<1> DEFINE n == Len(wanted)
<1>1. /\ config \in Configurations /\ wanted \in Updates /\ n <= MaxGenerations
      /\ run = "Running" /\ targets = [i \in DOMAIN wanted |-> Created(wanted[i], i)]
      /\ nextGeneration = n + 1 /\ outcomes = [g \in Generations |-> <<>>]
      /\ poll = [at |-> "commands", visits |-> 0, budget |-> 0]
      /\ cursors = [target |-> 0, scan |-> 0, timeout |-> 0] /\ backlog = <<>>
  BY DEF Init
<1>2. /\ n \in Nat /\ DOMAIN wanted = 1 .. n /\ \A k \in 1 .. n : wanted[k] \in Target
      /\ \A i, j \in 1 .. n : wanted[i].id = wanted[j].id => i = j
      /\ MaxGenerations \in Nat /\ MaxLive \in Nat /\ TimeoutBudget \in Nat
  BY <1>1, UpdateFacts, TargetsAssumption
<1>3. n <= MaxLive
  BY <1>1, UpdateSize
<1>4. \A i \in 1 .. n :
        /\ Sound(Created(wanted[i], i)) /\ Created(wanted[i], i).generation = i
        /\ Created(wanted[i], i).phase = "Pending" /\ Desired(Created(wanted[i], i))
        /\ Pair(Created(wanted[i], i)) = wanted[i] /\ Created(wanted[i], i) \in TargetType
  BY <1>2, CreatedFacts DEF Sound
<1>5. targets = [i \in 1 .. n |-> Created(wanted[i], i)]
  BY <1>1, <1>2
<1>6. /\ targets \in Seq(TargetType) /\ Len(targets) = n
      /\ \A i \in 1 .. n : targets[i] = Created(wanted[i], i)
  BY <1>2, <1>4, <1>5, IsASeq
<1>7. \A i \in 1 .. n :
        /\ Sound(targets[i]) /\ targets[i].generation = i /\ targets[i].phase = "Pending"
        /\ Desired(targets[i]) /\ Pair(targets[i]) = wanted[i] /\ wanted[i].id = targets[i].id
  BY <1>4, <1>6, PairId
<1> HIDE DEF n
<1>8. TableInv(targets, nextGeneration)
  <2>1. \A i \in 1 .. n : targets[i].generation \in 1 .. nextGeneration - 1
    BY <1>1, <1>2, <1>7 DEF n
  <2>2. \A i, j \in 1 .. n : targets[i].generation = targets[j].generation => i = j
    BY <1>7
  <2> QED
    BY <1>3, <1>6, <1>7, <2>1, <2>2 DEF TableInv, n
<1>9. WantedInv(targets, wanted)
  <2>1. \A i, j \in 1 .. n : targets[i].id = targets[j].id => i = j
    BY <1>2, <1>7
  <2>2. Len(targets) = n /\ Len(wanted) = n
    BY <1>6 DEF n
  <2>3. \A i \in 1 .. n : Desired(targets[i]) /\ wanted[i] = Pair(targets[i])
    BY <1>7
  <2>4. \A i, j \in 1 .. n :
          Desired(targets[i]) /\ Desired(targets[j]) /\ targets[i].id = targets[j].id => i = j
    BY <2>1
  <2>5. \A i \in 1 .. n :
          Desired(targets[i]) => \E k \in 1 .. n : wanted[k] = Pair(targets[i])
    BY <2>3, Zenon
  <2>6. \A k \in 1 .. n :
          \E i \in 1 .. n : Desired(targets[i]) /\ wanted[k] = Pair(targets[i])
    BY <2>3, Zenon
  <2> QED
    BY <1>1, <2>2, <2>4, <2>5, <2>6, Zenon DEF WantedInv
<1>10. \A g \in 1 .. nextGeneration - 1 : Live(targets, g)
  <2>1. \A g \in 1 .. n : Live(targets, g)
    BY <1>6, <1>7 DEF Live
  <2>2. nextGeneration - 1 = n
    BY <1>1, <1>2 DEF n
  <2> QED
    BY <2>1, <2>2
<1>11. OutcomeInv(targets, nextGeneration, outcomes)
  <2>1. nextGeneration \in 1 .. MaxGenerations + 1
    BY <1>1, <1>2 DEF n
  <2>2. outcomes \in [Generations -> Seq(OutcomeType)] /\ \A g \in Generations : outcomes[g] = <<>>
    BY <1>1
  <2>3. \A g \in 1 .. nextGeneration - 1 : g \in Generations
    BY <1>2, <2>1 DEF Generations
  <2>4. \A g \in 1 .. nextGeneration - 1 : Len(outcomes[g]) = IF Live(targets, g) THEN 0 ELSE 1
    BY <1>10, <2>2, <2>3
  <2> QED
    BY <2>1, <2>2, <2>4 DEF OutcomeInv
<1>12. CursorInv
  <2>1. poll \in PollType /\ poll.at = "commands"
    BY <1>1 DEF PollType
  <2>2. cursors \in [target : Nat, scan : Nat, timeout : Nat] /\ cursors.scan = 0
        /\ cursors.timeout = 0
    BY <1>1
  <2>3. backlog \in Seq([index : Nat \ {0}, generation : Nat]) /\ Len(backlog) = 0
    BY <1>1
  <2> QED
    BY <1>1, <1>2, <1>6, <2>1, <2>2, <2>3 DEF CursorInv
<1> QED
  BY <1>8, <1>9, <1>11, <1>12 DEF TargetsInv

(* The inductive invariant of the target table: every target sound, the       *)
(* desired ones those asked for, one outcome for each generation that ended   *)
(* (poll_target, apply_targets, finish_target, prune_undesired_terminal).     *)
THEOREM TargetsInvariant == Spec => []TargetsInv
<1>1. TargetsInv /\ [Next]_vars => TargetsInv'
  BY StepKeeps
<1> QED
  BY <1>1, InitKeeps, PTL DEF Spec

(* The desired targets, counted.                                               *)
LEMMA DesiredCount ==
  ASSUME NEW table, NEW set, WantedInv(table, set), Len(table) \in Nat,
         NEW mine, mine = { i \in 1 .. Len(table) : Desired(table[i]) }
  PROVE  Cardinality(mine) = Len(set)
<1> DEFINE at == [i \in mine |-> CHOOSE k \in 1 .. Len(set) : set[k] = Pair(table[i])]
<1>1. /\ set \in Updates /\ Len(set) \in Nat
      /\ \A i, j \in 1 .. Len(set) : set[i].id = set[j].id => i = j
  BY UpdateFacts DEF WantedInv
<1>2. \A i \in mine : i \in 1 .. Len(table) /\ Desired(table[i])
  OBVIOUS
<1>3. \A i \in mine : at[i] \in 1 .. Len(set) /\ set[at[i]] = Pair(table[i])
  BY <1>2 DEF WantedInv
<1> HIDE DEF at
<1>4. at \in [mine -> 1 .. Len(set)]
  BY <1>3 DEF at
<1>5. ASSUME NEW i \in mine, NEW j \in mine, at[i] = at[j]
      PROVE  i = j
  <2>1. Pair(table[i]) = Pair(table[j])
    BY <1>3, <1>5
  <2>2. table[i].id = table[j].id
    BY <2>1, PairId
  <2> QED
    BY <1>2, <2>2 DEF WantedInv
<1>6. ASSUME NEW k \in 1 .. Len(set)
      PROVE  \E i \in mine : at[i] = k
  <2>1. PICK i \in 1 .. Len(table) : Desired(table[i]) /\ set[k] = Pair(table[i])
    BY DEF WantedInv
  <2>2. i \in mine
    BY <2>1
  <2>3. set[at[i]].id = set[k].id /\ at[i] \in 1 .. Len(set)
    BY <1>3, <2>1, <2>2
  <2>4. at[i] = k
    BY <1>1, <2>3
  <2> QED
    BY <2>2, <2>4
<1>7. at \in Bijection(mine, 1 .. Len(set))
  <2>1. at \in Injection(mine, 1 .. Len(set))
    BY <1>4, <1>5 DEF Injection, IsInjective
  <2>2. at \in Surjection(mine, 1 .. Len(set))
    BY <1>4, <1>6 DEF Surjection
  <2> QED
    BY <2>1, <2>2 DEF Bijection
<1>8. IsFiniteSet(mine)
  <2>1. mine \subseteq 1 .. Len(table)
    OBVIOUS
  <2> QED
    BY <2>1, IndexCount, FS_Subset
<1>9. Cardinality(mine) = Cardinality(1 .. Len(set))
  BY <1>7, <1>8, FS_Bijection DEF ExistsBijection
<1> QED
  BY <1>1, <1>9, IndexCount

LEMMA TableSoundFrom ==
  ASSUME TargetsInv
  PROVE  TableSound
<1>1. /\ TableInv(targets, nextGeneration) /\ WantedInv(targets, wanted) /\ CursorInv
      /\ Len(targets) \in Nat /\ DOMAIN targets = 1 .. Len(targets)
      /\ \A i \in 1 .. Len(targets) : Sound(targets[i])
  BY InvariantParts DEF TargetsInv
<1>2. ASSUME NEW i \in 1 .. Len(targets)
      PROVE  LET t == targets[i]
             IN  /\ t.phase \in Phases /\ t.membership \in {"Desired", "Removed", "Replaced"}
                 /\ t.generation \in 1 .. nextGeneration - 1
                 /\ t.retryDelay \in InitialDelay .. MaxDelay
                 /\ t.phase \in {"Terminal", "Draining", "Closing"} <=> t.end # "None"
                 /\ t.phase \in {"Retrying", "Draining", "Closing"} <=> t.deadline # None
  <2>1. /\ targets[i] \in TargetType /\ PhaseSound(targets[i])
        /\ targets[i].generation \in 1 .. nextGeneration - 1
    BY <1>1 DEF Sound, TableInv
  <2>2. None \notin Nat
    BY DEF None
  <2>3. /\ targets[i].phase \in Phases /\ targets[i].membership \in Memberships
        /\ targets[i].retryDelay \in InitialDelay .. MaxDelay
    BY <2>1 DEF TargetType
  <2> QED
    BY <2>1, <2>2, <2>3 DEF Memberships, PhaseSound
<1>3. TypeOK
  BY <1>1, <1>2 DEF TypeOK, CursorInv, TableInv
<1>4. DesiredMatches
  <2> DEFINE mine == { i \in DOMAIN targets : Desired(targets[i]) }
             pairs == { [id |-> targets[i].id, config |-> targets[i].config] : i \in mine }
  <2>1. mine = { i \in 1 .. Len(targets) : Desired(targets[i]) }
    BY <1>1
  <2>2. Cardinality(mine) = Len(wanted)
    BY <1>1, <2>1, DesiredCount
  <2>3. DOMAIN wanted = 1 .. Len(wanted)
    BY <1>1, UpdateFacts DEF WantedInv
  <2>4. \A p : p \in pairs <=> \E i \in 1 .. Len(targets) : Desired(targets[i]) /\ p = Pair(targets[i])
    BY <2>1 DEF Pair
  <2>5. \A p : p \in ToSet(wanted) <=> \E k \in 1 .. Len(wanted) : p = wanted[k]
    BY <2>3 DEF ToSet
  <2>6. /\ \A i \in 1 .. Len(targets) :
             Desired(targets[i]) => \E k \in 1 .. Len(wanted) : wanted[k] = Pair(targets[i])
        /\ \A k \in 1 .. Len(wanted) :
             \E i \in 1 .. Len(targets) : Desired(targets[i]) /\ wanted[k] = Pair(targets[i])
    BY <1>1 DEF WantedInv
  <2> HIDE DEF pairs
  <2>7. \A p : p \in pairs <=> p \in ToSet(wanted)
    <3>1. ASSUME NEW p \in pairs PROVE p \in ToSet(wanted)
      <4>1. PICK i \in 1 .. Len(targets) : Desired(targets[i]) /\ p = Pair(targets[i])
        BY <2>4
      <4>2. PICK k \in 1 .. Len(wanted) : wanted[k] = Pair(targets[i])
        BY <2>6, <4>1
      <4> QED
        BY <2>5, <4>1, <4>2
    <3>2. ASSUME NEW p \in ToSet(wanted) PROVE p \in pairs
      <4>1. PICK k \in 1 .. Len(wanted) : p = wanted[k]
        BY <2>5
      <4>2. PICK i \in 1 .. Len(targets) : Desired(targets[i]) /\ wanted[k] = Pair(targets[i])
        BY <2>6
      <4> QED
        BY <2>4, <4>1, <4>2
    <3> QED
      BY <3>1, <3>2, Zenon
  <2>8. pairs = ToSet(wanted)
    BY <2>7
  <2> QED
    BY <2>2, <2>8 DEF DesiredMatches, pairs
<1> QED
  BY <1>3, <1>4 DEF TableSound

LEMMA OutcomesTrueFrom ==
  ASSUME TargetsInv
  PROVE  OutcomesTrue
<1>1. OutcomeInv(targets, nextGeneration, outcomes) /\ DOMAIN targets = 1 .. Len(targets)
  BY InvariantParts
<1>2. OneOutcomeEach
  <2>1. \A g : Live(targets, g) <=> \E i \in DOMAIN targets : /\ targets[i].generation = g
                                                            /\ targets[i].phase # "Terminal"
    BY <1>1 DEF Live
  <2>2. \A g \in 1 .. nextGeneration - 1 : Len(outcomes[g]) = IF Live(targets, g) THEN 0 ELSE 1
    BY <1>1 DEF OutcomeInv
  <2> QED
    BY <2>1, <2>2, Zenon DEF OneOutcomeEach
<1>3. SentAccounted
  <2>1. ASSUME NEW g \in Generations, NEW i \in DOMAIN outcomes[g]
        PROVE  outcomes[g][i].missed = 0
    <3>1. outcomes[g] \in Seq(OutcomeType)
      BY <1>1 DEF OutcomeInv
    <3>2. outcomes[g][i] \in OutcomeType
      BY <3>1
    <3> QED
      BY <3>2 DEF OutcomeType
  <2> QED
    BY <2>1 DEF SentAccounted
<1> QED
  BY <1>2, <1>3 DEF OutcomesTrue

(* The table is always the one last asked for: its desired targets are those  *)
(* of the last update, each id once, whatever is still draining, and it stays *)
(* within its bounds (apply_targets, prune_undesired_terminal,                *)
(* rebase_target_cursors, enqueue_timeout_backlog).                           *)
THEOREM TableAlwaysSound == Spec => []TableSound
<1>1. TargetsInv => TableSound
  BY TableSoundFrom
<1> QED
  BY <1>1, TargetsInvariant, PTL

(* Every generation leaves exactly one outcome, when it ends and not before,  *)
(* and the outcome counts every probe of all its sessions (finish_target,     *)
(* apply_targets, OutcomeHistory::record, sync_packets_sent).                 *)
THEOREM OutcomesAlwaysTrue == Spec => []OutcomesTrue
<1>1. TargetsInv => OutcomesTrue
  BY OutcomesTrueFrom
<1> QED
  BY <1>1, TargetsInvariant, PTL

(* What a step makes of one generation.                                        *)
LEMMA StepFollows ==
  ASSUME TargetsInv, [Next]_vars, NEW i \in DOMAIN targets, NEW j \in DOMAIN targets',
         targets[i].generation = targets'[j].generation
  PROVE  Follows(targets[i], targets'[j]) /\ Sound(targets'[j])
<1>1. /\ TableInv(targets, nextGeneration) /\ DOMAIN targets = 1 .. Len(targets)
      /\ nextGeneration \in Nat
  BY InvariantParts DEF TargetsInv
<1>2. TargetsInv' /\ FollowsAll(targets, targets', nextGeneration)
  BY StepKeeps
<1>3. targets' \in Seq(TargetType) /\ \A k \in 1 .. Len(targets') : Sound(targets'[k])
  BY <1>2 DEF TargetsInv, TableInv
<1>4. DOMAIN targets' = 1 .. Len(targets')
  BY <1>3, LenProperties
<1>5. targets[i].generation \in 1 .. nextGeneration - 1
  BY <1>1 DEF TableInv
<1>6. ~(targets'[j].generation >= nextGeneration)
  BY <1>1, <1>5
<1>7. PICK k \in 1 .. Len(targets) : /\ targets[k].generation = targets'[j].generation
                                     /\ Follows(targets[k], targets'[j])
  BY <1>2, <1>4, <1>6 DEF FollowsAll
<1>8. k = i
  BY <1>1, <1>7 DEF TableInv
<1> QED
  BY <1>3, <1>4, <1>7, <1>8

(* A generation that is withdrawn or belongs to a stopping run never starts   *)
(* again, and a drain that ends without a failure has waited final_drain and  *)
(* out every probe, however polls, timeouts, ticks, updates and the stop      *)
(* interleave (begin_drain, poll_draining, poll_target_timeout,               *)
(* finish_target).                                                             *)
THEOREM RetirementAlwaysOrderly == Spec => RetirementOrderly
<1>1. TargetsInv /\ [Next]_vars =>
        [\A i \in DOMAIN targets, j \in DOMAIN targets' :
           targets[i].generation = targets'[j].generation /\ Stopping(targets[i]) =>
             targets'[j].phase \in {targets[i].phase, "Draining", "Closing", "Terminal"}]_vars
  <2> SUFFICES ASSUME TargetsInv, [Next]_vars, NEW i \in DOMAIN targets,
                      NEW j \in DOMAIN targets',
                      targets[i].generation = targets'[j].generation, Stopping(targets[i])
               PROVE  targets'[j].phase \in {targets[i].phase, "Draining", "Closing", "Terminal"}
    OBVIOUS
  <2>1. Follows(targets[i], targets'[j])
    BY StepFollows
  <2> QED
    BY <2>1 DEF Follows
<1>2. TargetsInv /\ [Next]_vars =>
        [\A i \in DOMAIN targets, j \in DOMAIN targets' :
           /\ targets[i].generation = targets'[j].generation
           /\ targets[i].phase = "Draining" /\ targets'[j].phase = "Closing"
           /\ ~targets'[j].cleanup
           => /\ targets[i].drained >= FinalDrain
              /\ \A k \in DOMAIN targets'[j].probes :
                   targets'[j].probes[k].lost /\ targets'[j].probes[k].left <= -FinalDrain]_vars
  <2> SUFFICES ASSUME TargetsInv, [Next]_vars, NEW i \in DOMAIN targets,
                      NEW j \in DOMAIN targets',
                      targets[i].generation = targets'[j].generation,
                      targets[i].phase = "Draining", targets'[j].phase = "Closing",
                      ~targets'[j].cleanup
               PROVE  /\ targets[i].drained >= FinalDrain
                      /\ \A k \in DOMAIN targets'[j].probes :
                           targets'[j].probes[k].lost /\ targets'[j].probes[k].left <= -FinalDrain
    OBVIOUS
  <2>1. Follows(targets[i], targets'[j]) /\ Sound(targets'[j])
    BY StepFollows
  <2>2. targets[i].drained >= FinalDrain /\ Waited(targets'[j])
    BY <2>1, Zenon DEF Follows
  <2>3. targets'[j].probes \in Seq(ProbeType)
    BY <2>1 DEF Sound, TargetType
  <2>4. DOMAIN targets'[j].probes = 1 .. Len(targets'[j].probes)
    BY <2>3, LenProperties
  <2> QED
    BY <2>2, <2>4 DEF Waited
<1> QED
  BY <1>1, <1>2, TargetsInvariant, PTL DEF Spec, RetirementOrderly, RetiredStaysDown, DrainWaits
=============================================================================
