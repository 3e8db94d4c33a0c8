----------------------------- MODULE PacingProofs -----------------------------
(* Proofs about Pacing, for any number of targets, intervals, durations,      *)
(* latencies, send times and work budgets.                                     *)
EXTENDS Pacing, FiniteSetTheorems, WellFoundedInduction, TLAPS

(***************************************************************************)
(* The inductive invariant                                                  *)
(***************************************************************************)
Schedules ==
    [phase : {"idle", "active", "gone"}, start : Nat, next : SUBSET Nat, end : SUBSET Nat,
     waiting : BOOLEAN, writable : BOOLEAN, pending : SUBSET Nat, slot : SUBSET Nat]

Typed ==
    /\ mode \in [pacing : Pacings, latency : Latencies, budget : Budgets]
    /\ now \in Nat
    /\ stage \in {"asleep", "sending"}
    /\ target \in [Targets -> Schedules]
    /\ gate \subseteq Nat /\ last \subseteq Nat
    /\ immediate \in BOOLEAN /\ woken \in BOOLEAN
    /\ sends \in [previous : SUBSET Nat, latest : SUBSET Nat]

(* A target's next slot lies on its grid, after every slot it has taken.      *)
SlotOf(t, start, d) == \E k \in Nat : d = start + Interval[t] * k

OnGrid(t, s) ==
    /\ \A d, e \in s.next : d = e
    /\ \A d \in s.next : SlotOf(t, s.start, d)
    /\ \A d \in s.next, taken \in s.slot : taken < d

GridInv == \A t \in Targets : OnGrid(t, target[t])

(* The gate of a staggered driver lies after the last send, and a spacing     *)
(* after the one before, until that time has passed; a pass that may still    *)
(* send found it open.                                                         *)
GateInv ==
    /\ \A g, h \in gate : g = h
    /\ \A a, b \in sends.latest : a = b
    /\ \A first \in sends.previous, second \in sends.latest : first <= second
    /\ \A second \in sends.latest : second <= now
    /\ sends.latest = {} => sends.previous = {}
    /\ mode.pacing = "Staggered" =>
         /\ last = sends.latest
         /\ \A g \in gate, second \in sends.latest : second < g
         /\ \A first \in sends.previous :
              first + LeastSpacing <= now \/ \E g \in gate : first + LeastSpacing <= g
         /\ stage = "sending" /\ work > 0 => \A g \in gate : g <= now

(* A target with nothing left to do is noticed in a poll that was asked for,  *)
(* and the driver sleeps on what it has to do.                                 *)
SleepInv ==
    /\ \A t \in Active(target) :
         \/ target[t].next # {} \/ target[t].pending # {}
         \/ IF stage = "sending" THEN immediate ELSE woken
    /\ stage = "asleep" /\ ~woken => timer = NextDeadline

PaceInv == Typed /\ GridInv /\ GateInv /\ SleepInv

(***************************************************************************)
(* Numbers                                                                  *)
(***************************************************************************)
LEMMA NatMinimum ==
    ASSUME NEW S, S \subseteq Nat, S # {}
    PROVE  Min(S) \in S /\ \A x \in S : Min(S) <= x
<1>1. IsWellFoundedOn(OpToRel(<, Nat), Nat)
  BY NatLessThanWellFounded, Zenon
<1>2. PICK x \in S : \A y \in S : ~(<<y, x>> \in OpToRel(<, Nat))
  BY <1>1, WFMin, Zenon
<1>3. \A y \in S : ~(y < x)
  BY <1>2 DEF OpToRel
<1>4. \E m \in S : \A y \in S : m <= y
  BY <1>3
<1> QED BY <1>4 DEF Min

LEMMA MaxPair ==
    ASSUME NEW a \in Int, NEW b \in Int
    PROVE  Max({a, b}) = IF a >= b THEN a ELSE b
BY DEF Max

LEMMA DivFacts ==
    ASSUME NEW n \in Nat \ {0}, NEW x \in Nat
    PROVE  x \div n \in Nat /\ n * (x \div n) <= x /\ x < n * (x \div n) + n
OBVIOUS

LEMMA DivMonotone ==
    ASSUME NEW n \in Nat \ {0}, NEW m \in Nat \ {0}, m <= n, NEW i \in Nat, NEW j \in Nat, i <= j
    PROVE  i \div n <= j \div m
OBVIOUS

LEMMA MultiplesDivide ==
    ASSUME NEW n \in Nat \ {0}, NEW k \in Nat
    PROVE  (n * k) % n = 0
OBVIOUS

LEMMA Distribute ==
    ASSUME NEW n \in Nat, NEW i \in Nat, NEW k \in Nat
    PROVE  n * i + n * k = n * (i + k) /\ n * i \in Nat
OBVIOUS

LEMMA Constants ==
    /\ Count \in Nat \ {0} /\ ProbeTimeout \in Nat \ {0} /\ MaxSendTime \in Nat
    /\ \A t \in Targets : Interval[t] \in Nat \ {0} /\ Duration[t] \subseteq Nat \ {0}
    /\ Pacings \subseteq {"Staggered", "Burst"} /\ Budgets \subseteq Nat \ {0}
BY PacingAssumption

(***************************************************************************)
(* The cadence                                                              *)
(***************************************************************************)
(* c is e slots after the deadline and the one that follows; of a deadline    *)
(* that has come it is the last slot that has.                                 *)
LastSlot(c, deadline, n, at, e) ==
    /\ c.scheduled_at = deadline + n * e
    /\ c.next_send_at = deadline + n * (e + 1)
    /\ c.next_send_at = c.scheduled_at + n
    /\ at >= deadline => c.scheduled_at <= at /\ at < c.scheduled_at + n

(* advance_cadence stays on the grid; of a deadline that has come it finds    *)
(* the last slot that has.                                                     *)
LEMMA CadenceFacts ==
    ASSUME NEW n \in Nat \ {0}, NEW deadline \in Nat, NEW at \in Nat
    PROVE  \E e \in Nat : LastSlot(AdvanceCadence(deadline, n, at), deadline, n, at, e)
<1> DEFINE c == AdvanceCadence(deadline, n, at)
           e == IF at < deadline THEN 0 ELSE (at - deadline) \div n
<1>1. e \in Nat /\ (at >= deadline => n * e <= at - deadline /\ at - deadline < n * e + n)
  <2>1. CASE at < deadline
    BY <2>1
  <2>2. CASE at >= deadline
    <3>1. at - deadline \in Nat
      BY <2>2
    <3> QED BY <2>2, <3>1, DivFacts
  <2> QED BY <2>1, <2>2
<1>2. c.scheduled_at = deadline + n * e /\ c.next_send_at = deadline + n * (e + 1)
  BY DEF AdvanceCadence
<1> HIDE DEF e, c
<1>3. n * (e + 1) = n * e + n /\ n * e \in Nat
  BY <1>1, Distribute
<1>4. /\ c.next_send_at = c.scheduled_at + n
      /\ at >= deadline => c.scheduled_at <= at /\ at < c.scheduled_at + n
  BY <1>1, <1>2, <1>3
<1> QED BY <1>1, <1>2, <1>4 DEF c, LastSlot

(* A committed send takes a slot of the target's grid, not before the         *)
(* deadline it was due at, and what is next is a later slot of the grid.      *)
TakesSlot(c, t, start, deadline, at) ==
    /\ c.scheduled_at \in Nat /\ c.scheduled_at >= deadline
    /\ (c.scheduled_at - start) % Interval[t] = 0
    /\ at >= deadline => c.scheduled_at <= at /\ at < c.scheduled_at + Interval[t]
    /\ c.next \subseteq Nat /\ \A d, e \in c.next : d = e
    /\ \A d \in c.next : SlotOf(t, start, d) /\ c.scheduled_at < d

LEMMA CommitFacts ==
    ASSUME NEW t \in Targets, NEW s, NEW start \in Nat, NEW deadline \in Nat,
           SlotOf(t, start, deadline), NEW at \in Nat
    PROVE  TakesSlot(Commit(t, s, deadline, at), t, start, deadline, at)
<1>k. PICK k \in Nat : deadline = start + Interval[t] * k
  BY DEF SlotOf
<1> DEFINE n == Interval[t]
           a == AdvanceCadence(deadline, n, at)
           c == Commit(t, s, deadline, at)
<1>1. n \in Nat \ {0}
  BY Constants
<1>c. c.scheduled_at = a.scheduled_at /\ c.next \subseteq {a.next_send_at}
  BY DEF Commit
<1> HIDE DEF n, a, c
<1>e. PICK e \in Nat : LastSlot(a, deadline, n, at, e)
  BY <1>1, CadenceFacts DEF a
<1>2. /\ a.scheduled_at = deadline + n * e
      /\ a.next_send_at = deadline + n * (e + 1)
      /\ a.next_send_at = a.scheduled_at + n
      /\ at >= deadline => a.scheduled_at <= at /\ at < a.scheduled_at + n
  BY <1>e DEF LastSlot
<1>4. /\ n * e \in Nat /\ n * k + n * e = n * (k + e)
      /\ n * k + n * (e + 1) = n * (k + (e + 1))
      /\ n * k \in Nat /\ n * (e + 1) \in Nat
  BY <1>1, Distribute
<1>5. /\ a.scheduled_at \in Nat /\ a.scheduled_at >= deadline /\ a.next_send_at \in Nat
      /\ a.scheduled_at - start = n * (k + e)
      /\ a.next_send_at = start + n * (k + (e + 1)) /\ a.scheduled_at < a.next_send_at
  BY <1>1, <1>2, <1>4, <1>k DEF n
<1>6. (a.scheduled_at - start) % n = 0
  BY <1>1, <1>5, MultiplesDivide
<1>7. \A d \in c.next : SlotOf(t, start, d) /\ c.scheduled_at < d
  <2>1. k + (e + 1) \in Nat
    OBVIOUS
  <2> QED BY <1>c, <1>5, <2>1 DEF SlotOf, n
<1>8. c.scheduled_at \in Nat /\ c.scheduled_at >= deadline /\ (c.scheduled_at - start) % n = 0
      /\ (at >= deadline => c.scheduled_at <= at /\ at < c.scheduled_at + n)
  BY <1>2, <1>c, <1>5, <1>6
<1>9. c.next \subseteq Nat /\ \A d, f \in c.next : d = f
  BY <1>c, <1>5
<1> QED BY <1>7, <1>8, <1>9 DEF c, n, TakesSlot

(***************************************************************************)
(* The spacing                                                              *)
(***************************************************************************)
LEMMA TargetsFinite == IsFiniteSet(Targets) /\ Cardinality(Targets) = Count
<1>1. 0 \in Int /\ Count - 1 \in Int /\ Count \in Nat \ {0}
  BY Constants
<1>2. IsFiniteSet(0 .. Count - 1)
      /\ Cardinality(0 .. Count - 1) = IF 0 > Count - 1 THEN 0 ELSE (Count - 1) - 0 + 1
  BY <1>1, FS_Interval
<1> QED BY <1>1, <1>2 DEF Targets

LEMMA SpacingType ==
    ASSUME NEW interval \in Nat, NEW active \in Nat \ {0}
    PROVE  /\ StaggerSpacing(interval, active) \in Nat \ {0}
           /\ StaggerSpacing(interval, active) = IF interval \div active >= 1
                                                 THEN interval \div active ELSE 1
<1>1. Max({active, 1}) = active
  BY MaxPair
<1>2. interval \div active \in Nat
  BY DivFacts
<1>3. Max({interval \div active, 1}) = IF interval \div active >= 1
                                       THEN interval \div active ELSE 1
  BY <1>2, MaxPair
<1> QED BY <1>1, <1>2, <1>3 DEF StaggerSpacing

(* No group of active targets is spaced closer than all of them together.     *)
LEMMA SpacingFacts ==
    ASSUME NEW A \in SUBSET Targets, A # {}
    PROVE  LET spacing == StaggerSpacing(Min({Interval[t] : t \in A}), Cardinality(A))
           IN  spacing \in Nat /\ spacing >= LeastSpacing /\ LeastSpacing \in Nat \ {0}
<1> DEFINE few == {Interval[t] : t \in A}
           all == {Interval[t] : t \in Targets}
<1>1. few \subseteq all /\ all \subseteq Nat /\ few # {}
  BY Constants
<1>2. /\ Min(few) \in Nat /\ Min(all) \in Nat
      /\ Min(all) <= Min(few)
  BY <1>1, NatMinimum
<1>3. Cardinality(A) \in Nat \ {0} /\ Cardinality(A) <= Count
  <2>1. IsFiniteSet(A) /\ Cardinality(A) <= Count
    BY TargetsFinite, FS_Subset
  <2>2. Cardinality(A) \in Nat /\ Cardinality(A) # 0
    BY <2>1, FS_CardinalityType, FS_EmptySet
  <2> QED BY <2>1, <2>2
<1>4. Min(all) \div Count <= Min(few) \div Cardinality(A)
  BY <1>2, <1>3, Constants, DivMonotone
<1> HIDE DEF few, all
<1>5. Min(all) \div Count \in Nat /\ Min(few) \div Cardinality(A) \in Nat
  BY <1>2, <1>3, Constants, DivFacts
<1>6. /\ LeastSpacing \in Nat \ {0}
      /\ LeastSpacing = IF Min(all) \div Count >= 1 THEN Min(all) \div Count ELSE 1
  BY <1>2, Constants, SpacingType DEF LeastSpacing, all
<1>7. /\ StaggerSpacing(Min(few), Cardinality(A)) \in Nat
      /\ StaggerSpacing(Min(few), Cardinality(A)) =
           IF Min(few) \div Cardinality(A) >= 1 THEN Min(few) \div Cardinality(A) ELSE 1
  BY <1>2, <1>3, SpacingType
<1> QED BY <1>4, <1>5, <1>6, <1>7 DEF few

LEMMA ActiveSpacingFacts ==
    ASSUME NEW targets
    PROVE  /\ \A a, b \in ActiveSpacing(targets) : a = b
           /\ \A a \in ActiveSpacing(targets) : a \in Nat /\ a >= LeastSpacing
           /\ Active(targets) # {} => ActiveSpacing(targets) # {}
<1>1. Active(targets) \in SUBSET Targets
  BY DEF Active
<1>2. CASE Active(targets) = {}
  BY <1>2 DEF ActiveSpacing
<1>3. CASE Active(targets) # {}
  <2> DEFINE spacing == StaggerSpacing(Min({Interval[t] : t \in Active(targets)}),
                                       Cardinality(Active(targets)))
  <2>1. spacing \in Nat /\ spacing >= LeastSpacing
    BY <1>1, <1>3, SpacingFacts
  <2>2. ActiveSpacing(targets) = {spacing}
    BY <1>3 DEF ActiveSpacing
  <2> HIDE DEF spacing
  <2> QED BY <2>1, <2>2
<1> QED BY <1>2, <1>3

LEMMA LeastSpacingType == LeastSpacing \in Nat \ {0}
<1>1. 0 \in Targets
  BY Constants DEF Targets
<1> QED BY <1>1, SpacingFacts

(***************************************************************************)
(* One target                                                               *)
(***************************************************************************)
LEMMA PermitFacts ==
    ASSUME NEW s \in Schedules, NEW at \in Nat
    PROVE  LET p == PermitAt(s, at)
           IN  /\ p \in Schedules
               /\ p.next # {} => p.next = s.next /\ \A end \in s.end : at < end
               /\ p.next \subseteq s.next
               /\ p.phase = s.phase /\ p.start = s.start /\ p.end = s.end /\ p.slot = s.slot
               /\ p.pending = s.pending /\ p.waiting = s.waiting /\ p.writable = s.writable
BY DEF PermitAt, Schedules

LEMMA StartedFacts ==
    ASSUME NEW t \in Targets, NEW at \in Nat
    PROVE  /\ StartedAt(t, at) \in Schedules /\ OnGrid(t, StartedAt(t, at))
           /\ StartedAt(t, at).phase = "active" /\ StartedAt(t, at).next # {}
           /\ StartedAt(t, at).slot = {}
<1> DEFINE s == StartedAt(t, at)
<1>1. {at + d : d \in Duration[t]} \subseteq Nat
  BY Constants
<1>2. s \in Schedules
  BY <1>1 DEF StartedAt, Schedules
<1>3. s.next = {at} /\ s.slot = {} /\ s.phase = "active" /\ s.start = at
  BY DEF StartedAt
<1>4. at = at + Interval[t] * 0 /\ 0 \in Nat
  BY Constants
<1> HIDE DEF s
<1>5. OnGrid(t, s)
  BY <1>3, <1>4 DEF OnGrid, SlotOf
<1> QED BY <1>2, <1>3, <1>5 DEF s

(* The grid depends on the start, the next slot and the last one taken.       *)
LEMMA GridKept ==
    ASSUME NEW t \in Targets, NEW s, NEW r, OnGrid(t, s), r.start = s.start,
           r.next \subseteq s.next, r.slot = s.slot
    PROVE  OnGrid(t, r)
BY DEF OnGrid

(* The schedule a poll finds: what it expires, finishes and drains.           *)
Expired(t) ==
    LET s == PermitAt(target[t], now)
        kept == [s EXCEPT !.pending = {d \in @ : d > now}]
    IN IF kept.phase # "active" THEN kept
       ELSE IF kept.next = {} /\ kept.pending = {} THEN [kept EXCEPT !.phase = "gone"]
       ELSE kept

LEMMA ExpiredFacts ==
    ASSUME PaceInv, NEW t \in Targets
    PROVE  /\ Expired(t) \in Schedules /\ OnGrid(t, Expired(t))
           /\ Expired(t).slot = target[t].slot
           /\ Expired(t).phase = "active" => Expired(t).next # {} \/ Expired(t).pending # {}
<1> DEFINE p == PermitAt(target[t], now)
           kept == [p EXCEPT !.pending = {d \in @ : d > now}]
           gone == [kept EXCEPT !.phase = "gone"]
<1>1. /\ p \in Schedules /\ p.next \subseteq target[t].next
      /\ p.start = target[t].start /\ p.slot = target[t].slot
  BY PermitFacts DEF PaceInv, Typed
<1> HIDE DEF p
<1>2. /\ kept \in Schedules /\ kept.next = p.next /\ kept.start = p.start /\ kept.slot = p.slot
      /\ gone \in Schedules /\ gone.next = p.next /\ gone.start = p.start /\ gone.slot = p.slot
      /\ gone.phase = "gone"
  BY <1>1 DEF Schedules
<1>3. Expired(t) = IF kept.phase # "active" THEN kept
                   ELSE IF kept.next = {} /\ kept.pending = {} THEN gone ELSE kept
  BY DEF Expired, p
<1> HIDE DEF kept, gone
<1>4. /\ Expired(t) \in Schedules /\ Expired(t).next = p.next /\ Expired(t).start = p.start
      /\ Expired(t).slot = p.slot
      /\ Expired(t).phase = "active" => Expired(t).next # {} \/ Expired(t).pending # {}
  BY <1>2, <1>3
<1>5. OnGrid(t, target[t])
  BY DEF PaceInv, GridInv
<1> QED BY <1>1, <1>4, <1>5, GridKept

(***************************************************************************)
(* The steps of a poll                                                      *)
(***************************************************************************)
LEMMA AddedGate ==
    ASSUME PaceInv, NEW targets, Active(targets) # {}
    PROVE  LET added == StaggerTargetAdded(targets, now)
           IN  /\ added \subseteq Nat /\ \A g, h \in added : g = h
               /\ mode.pacing = "Staggered" =>
                    /\ \A g \in added, second \in sends.latest : second < g
                    /\ \A first \in sends.previous :
                         first + LeastSpacing <= now \/ \E g \in added : first + LeastSpacing <= g
<1> DEFINE added == StaggerTargetAdded(targets, now)
           candidates == {c \in {l + spacing : l \in last, spacing \in ActiveSpacing(targets)} : c > now}
<1>1. /\ \A a, b \in ActiveSpacing(targets) : a = b
      /\ \A a \in ActiveSpacing(targets) : a \in Nat /\ a >= LeastSpacing
      /\ ActiveSpacing(targets) # {} /\ LeastSpacing \in Nat
  BY ActiveSpacingFacts, LeastSpacingType
<1>2. /\ now \in Nat /\ gate \subseteq Nat /\ last \subseteq Nat
      /\ sends.previous \subseteq Nat /\ sends.latest \subseteq Nat
  BY DEF PaceInv, Typed
<1>3. candidates \subseteq Nat
  BY <1>1, <1>2
<1>4. added = IF (\A g \in gate : g <= now) \/ candidates = {} THEN {} ELSE {Min(gate \cup candidates)}
  BY DEF StaggerTargetAdded
<1>5. \A c \in candidates : c > now
  OBVIOUS
<1>6. ASSUME mode.pacing = "Staggered", NEW first \in sends.previous, NEW c \in candidates
      PROVE  first + LeastSpacing <= c
  <2>1. PICK l \in last, spacing \in ActiveSpacing(targets) : c = l + spacing
    BY <1>6
  <2>2. l \in sends.latest /\ first <= l
    BY <1>6, <2>1 DEF PaceInv, GateInv
  <2> QED BY <1>1, <1>2, <1>6, <2>1, <2>2
<1>7. ASSUME mode.pacing = "Staggered", NEW first \in sends.previous, candidates = {}
      PROVE  first + LeastSpacing <= now
  <2>1. PICK l \in sends.latest : first <= l /\ l \in last
    BY <1>7 DEF PaceInv, GateInv
  <2>2. PICK spacing \in ActiveSpacing(targets) : TRUE
    BY <1>1
  <2>3. ~(l + spacing > now)
    BY <1>7, <2>1, <2>2
  <2> QED BY <1>1, <1>2, <1>7, <2>1, <2>2, <2>3
<1> HIDE DEF candidates, added
<1>8. CASE (\A g \in gate : g <= now) \/ candidates = {}
  <2>1. added = {}
    BY <1>4, <1>8
  <2>2. ASSUME mode.pacing = "Staggered", NEW first \in sends.previous
        PROVE  first + LeastSpacing <= now
    <3>1. CASE candidates = {}
      BY <1>7, <2>2, <3>1
    <3>2. CASE \A g \in gate : g <= now
      BY <1>1, <1>2, <2>2, <3>2 DEF PaceInv, GateInv
    <3> QED BY <1>8, <3>1, <3>2
  <2> QED BY <2>1, <2>2 DEF added
<1>9. CASE ~((\A g \in gate : g <= now) \/ candidates = {})
  <2> DEFINE m == Min(gate \cup candidates)
  <2>1. m \in gate \cup candidates
    BY <1>2, <1>3, <1>9, NatMinimum
  <2>2. added = {m}
    BY <1>4, <1>9
  <2> HIDE DEF m
  <2>3. ASSUME mode.pacing = "Staggered", NEW second \in sends.latest PROVE second < m
    <3>1. second <= now
      BY <2>3 DEF PaceInv, GateInv
    <3> QED BY <1>2, <1>3, <1>5, <2>1, <2>3, <3>1 DEF PaceInv, GateInv
  <2>4. ASSUME mode.pacing = "Staggered", NEW first \in sends.previous
        PROVE  first + LeastSpacing <= now \/ first + LeastSpacing <= m
    <3>1. CASE m \in candidates
      BY <1>6, <2>4, <3>1
    <3>2. CASE m \in gate
      BY <2>4, <3>2 DEF PaceInv, GateInv
    <3> QED BY <2>1, <3>1, <3>2
  <2> QED BY <1>2, <1>3, <2>1, <2>2, <2>3, <2>4 DEF added
<1> QED BY <1>8, <1>9

(* A gate that is not open yet is kept; one that is may go.                    *)
LEMMA RemovedGate ==
    ASSUME PaceInv
    PROVE  LET removed == StaggerTargetRemoved(now)
           IN  /\ removed \subseteq gate
               /\ mode.pacing = "Staggered" =>
                    \A first \in sends.previous :
                      first + LeastSpacing <= now \/ \E g \in removed : first + LeastSpacing <= g
<1>1. now \in Nat /\ gate \subseteq Nat /\ LeastSpacing \in Nat /\ sends.previous \subseteq Nat
  BY LeastSpacingType DEF PaceInv, Typed
<1> QED BY <1>1 DEF PaceInv, GateInv, StaggerTargetRemoved

LEMMA BeginPollStep ==
    ASSUME PaceInv, NEW opened \in Opens, BeginPoll(opened)
    PROVE  PaceInv' /\ \A t \in Targets : target'[t].slot = target[t].slot \/ target'[t].slot = {}
<1> DEFINE expired == [t \in Targets |-> Expired(t)]
           started == [t \in Targets |-> IF t \in opened THEN StartedAt(t, now) ELSE expired[t]]
           open == Active(started) # {} /\ (mode.pacing = "Burst" \/ \A g \in gate' : g <= now)
<1>1. /\ target' = started
      /\ gate' = IF opened # {} THEN StaggerTargetAdded(started, now)
                 ELSE IF Active(expired) # Active(target) THEN StaggerTargetRemoved(now) ELSE gate
      /\ work' = IF open THEN Min({remaining', mode.budget}) ELSE 0
      /\ stage' = "sending" /\ immediate' = FALSE /\ woken' = FALSE
      /\ UNCHANGED <<mode, now, last, sends>>
  BY DEF BeginPoll, Expired
<1>2. now \in Nat /\ opened \subseteq Targets
  BY DEF PaceInv, Typed, Opens
<1>3. \A t \in Targets :
        /\ started[t] \in Schedules /\ OnGrid(t, started[t])
        /\ started[t].slot = target[t].slot \/ started[t].slot = {}
        /\ started[t].phase = "active" => started[t].next # {} \/ started[t].pending # {}
  BY <1>2, StartedFacts, ExpiredFacts
<1>4. opened # {} => Active(started) # {}
  BY <1>2, StartedFacts DEF Active
<1>5. started \in [Targets -> Schedules]
  BY <1>3
<1> HIDE DEF started, expired
<1>6. /\ gate' \subseteq Nat /\ \A g, h \in gate' : g = h
      /\ mode.pacing = "Staggered" =>
           /\ \A g \in gate', second \in sends.latest : second < g
           /\ \A first \in sends.previous :
                first + LeastSpacing <= now \/ \E g \in gate' : first + LeastSpacing <= g
  <2>1. CASE opened # {}
    BY <1>1, <1>4, <2>1, AddedGate
  <2>2. CASE opened = {} /\ Active(expired) # Active(target)
    <3>1. gate' = StaggerTargetRemoved(now)
      BY <1>1, <2>2
    <3>2. gate' \subseteq gate
      BY <3>1, RemovedGate
    <3>3. mode.pacing = "Staggered" =>
            \A first \in sends.previous :
              first + LeastSpacing <= now \/ \E g \in gate' : first + LeastSpacing <= g
      BY <3>1, RemovedGate
    <3> QED BY <3>2, <3>3 DEF PaceInv, Typed, GateInv
  <2>3. CASE gate' = gate
    BY <2>3 DEF PaceInv, Typed, GateInv
  <2> QED BY <1>1, <2>1, <2>2, <2>3
<1>7. Typed'
  BY <1>1, <1>5, <1>6 DEF PaceInv, Typed
<1>8. GridInv'
  BY <1>1, <1>3 DEF GridInv
<1>9. GateInv'
  <2>1. mode.pacing = "Staggered" /\ work' > 0 => \A g \in gate' : g <= now
    BY <1>1
  <2> QED BY <1>1, <1>6, <2>1 DEF PaceInv, GateInv, LeastSpacing
<1>10. SleepInv'
  BY <1>1, <1>3 DEF SleepInv, Active
<1> QED BY <1>1, <1>3, <1>7, <1>8, <1>9, <1>10 DEF PaceInv

(* What a visit of target t in a send pass preserves: the others are left     *)
(* alone, and the pass goes on only with the gate it found open.              *)
LEMMA VisitFacts ==
    ASSUME PaceInv, NEW t \in Targets, Visiting(t), NEW r \in Schedules,
           target' = [target EXCEPT ![t] = r], OnGrid(t, r),
           NEW attempted \in BOOLEAN, NEW again \in BOOLEAN, Visited(attempted, again),
           r.phase = "active" => r.next # {} \/ r.pending # {} \/ again
    PROVE  /\ GridInv' /\ SleepInv'
           /\ target' \in [Targets -> Schedules]
           /\ \A u \in Targets : target'[u] = IF u = t THEN r ELSE target[u]
<1>1. /\ target \in [Targets -> Schedules] /\ target' \in [Targets -> Schedules]
      /\ \A u \in Targets : target'[u] = IF u = t THEN r ELSE target[u]
      /\ immediate \in BOOLEAN
  BY DEF PaceInv, Typed
<1>2. GridInv'
  BY <1>1 DEF PaceInv, GridInv
<1>3. stage = "sending" /\ stage' = "sending" /\ immediate' = (immediate \/ again)
  BY DEF Visiting, Visited
<1>4. \A u \in Active(target) :
        target[u].next # {} \/ target[u].pending # {} \/ immediate
  BY <1>3 DEF PaceInv, SleepInv
<1>5. \A u \in Active(target') :
        target'[u].next # {} \/ target'[u].pending # {} \/ immediate'
  BY <1>1, <1>3, <1>4 DEF Active
<1>6. SleepInv'
  BY <1>3, <1>5 DEF SleepInv, Active
<1> QED BY <1>1, <1>2, <1>6

(* A visit that sends nothing and leaves the gate.                             *)
LEMMA GateKept ==
    ASSUME PaceInv, UNCHANGED <<mode, gate, last, sends, stage>>, now' \in Nat, now' >= now,
           stage = "sending" /\ mode.pacing = "Staggered" /\ work' > 0 => work > 0 /\ now' = now
    PROVE  GateInv'
<1>1. /\ LeastSpacing' = LeastSpacing /\ LeastSpacing \in Nat /\ now \in Nat
      /\ sends.latest \subseteq Nat /\ sends.previous \subseteq Nat
  BY LeastSpacingType DEF LeastSpacing, PaceInv, Typed
<1> QED BY <1>1 DEF PaceInv, GateInv

LEMMA SkipStep ==
    ASSUME PaceInv, NEW t \in Targets, Skip(t)
    PROVE  PaceInv' /\ \A u \in Targets : target'[u].slot = target[u].slot
<1> DEFINE s == target[t]
           p == PermitAt(s, now)
           late == \E deadline \in s.pending : deadline <= now
           r == IF s.phase # "active" THEN s
                ELSE [(IF late THEN s ELSE p) EXCEPT !.waiting = FALSE]
<1>1. s \in Schedules /\ now \in Nat /\ OnGrid(t, s) /\ target \in [Targets -> Schedules]
  BY DEF PaceInv, Typed, GridInv
<1>2. /\ p \in Schedules /\ p.next \subseteq s.next /\ p.phase = s.phase /\ p.start = s.start
      /\ p.slot = s.slot /\ p.pending = s.pending
  BY <1>1, PermitFacts
<1>3. target' = [target EXCEPT ![t] = r]
  BY <1>1 DEF Skip
<1>4. Visiting(t) /\ Visited(FALSE, FALSE) /\ UNCHANGED <<now, gate, last, sends>>
      /\ (s.phase = "active" => NotDue(s))
  BY DEF Skip
<1>5. s.phase = "active" => s.pending # {} \/ (p.next # {} /\ ~late)
  BY <1>4 DEF NotDue
<1>n. s.phase = "active" /\ ~late => p.next # {} \/ p.pending # {}
  BY <1>2, <1>5
<1> HIDE DEF p, s, late
<1>6. /\ r \in Schedules /\ r.next \subseteq s.next /\ r.start = s.start /\ r.slot = s.slot
      /\ r.phase = "active" => r.next # {} \/ r.pending # {}
  <2>1. CASE s.phase # "active"
    BY <1>1, <2>1
  <2>2. CASE s.phase = "active" /\ late
    <3>1. r = [s EXCEPT !.waiting = FALSE]
      BY <2>2
    <3>2. s.pending # {}
      BY <2>2, <1>1 DEF late
    <3> QED BY <1>1, <3>1, <3>2 DEF Schedules
  <2>3. CASE s.phase = "active" /\ ~late
    <3>1. r = [p EXCEPT !.waiting = FALSE]
      BY <2>3
    <3> QED BY <1>2, <1>n, <2>3, <3>1 DEF Schedules
  <2> QED BY <2>1, <2>2, <2>3
<1>7. OnGrid(t, r)
  BY <1>1, <1>6, GridKept
<1> HIDE DEF r
<1>8. /\ GridInv' /\ SleepInv' /\ target' \in [Targets -> Schedules]
      /\ \A u \in Targets : target'[u] = IF u = t THEN r ELSE target[u]
  BY <1>3, <1>4, <1>6, <1>7, VisitFacts
<1>9. GateInv'
  BY <1>1, <1>4, GateKept DEF Visited, Visiting
<1>10. Typed'
  BY <1>4, <1>8 DEF PaceInv, Typed, Visited
<1> QED BY <1>6, <1>8, <1>9, <1>10 DEF PaceInv, s

LEMMA LeavesStep ==
    ASSUME PaceInv, NEW t \in Targets, Visiting(t), Leaves(t), Visited(TRUE, TRUE)
    PROVE  PaceInv' /\ \A u \in Targets : target'[u].slot = target[u].slot
<1> DEFINE s == target[t]
           r == [s EXCEPT !.phase = "gone", !.next = {}, !.waiting = FALSE]
<1>1. s \in Schedules /\ now \in Nat /\ OnGrid(t, s) /\ target \in [Targets -> Schedules]
  BY DEF PaceInv, Typed, GridInv
<1>2. target' = [target EXCEPT ![t] = r]
  BY <1>1 DEF Leaves
<1>3. r \in Schedules /\ r.next = {} /\ r.start = s.start /\ r.slot = s.slot /\ r.phase = "gone"
  BY <1>1 DEF Schedules
<1>4. OnGrid(t, r)
  BY <1>1, <1>3, GridKept
<1> HIDE DEF r, s
<1>5. /\ GridInv' /\ SleepInv' /\ target' \in [Targets -> Schedules]
      /\ \A u \in Targets : target'[u] = IF u = t THEN r ELSE target[u]
  BY <1>2, <1>3, <1>4, VisitFacts
<1>6. gate' = StaggerTargetRemoved(now) /\ UNCHANGED <<now, last, sends, mode, stage>>
      /\ (mode.pacing = "Staggered" => work' = 0)
  BY DEF Leaves, Visited
<1>7. GateInv'
  <2>1. gate' \subseteq gate
    BY <1>6, RemovedGate
  <2>2. mode.pacing = "Staggered" =>
          \A first \in sends.previous :
            first + LeastSpacing <= now \/ \E g \in gate' : first + LeastSpacing <= g
    BY <1>6, RemovedGate
  <2> QED BY <1>6, <2>1, <2>2 DEF PaceInv, GateInv, LeastSpacing
<1>8. Typed'
  <2>1. gate' \subseteq Nat
    BY <1>6, RemovedGate DEF PaceInv, Typed
  <2> QED BY <1>5, <1>6, <2>1 DEF PaceInv, Typed, Visited
<1> QED BY <1>3, <1>5, <1>7, <1>8 DEF PaceInv, s

LEMMA BlockStep ==
    ASSUME PaceInv, NEW t \in Targets, Block(t)
    PROVE  PaceInv' /\ \A u \in Targets : target'[u].slot = target[u].slot
<1> DEFINE s == target[t]
           r == [s EXCEPT !.waiting = TRUE, !.writable = FALSE]
<1>1. s \in Schedules /\ now \in Nat /\ OnGrid(t, s) /\ target \in [Targets -> Schedules]
  BY DEF PaceInv, Typed, GridInv
<1>2. target' = [target EXCEPT ![t] = r] /\ Visiting(t) /\ Visited(TRUE, FALSE)
      /\ UNCHANGED <<now, gate, last, sends>>
  BY <1>1 DEF Block, Due
<1>3. s.next # {}
  BY <1>1, PermitFacts DEF Block, Due
<1>4. /\ r \in Schedules /\ r.next = s.next /\ r.start = s.start /\ r.slot = s.slot
  BY <1>1 DEF Schedules
<1>5. OnGrid(t, r)
  BY <1>1, <1>4, GridKept
<1> HIDE DEF r, s
<1>6. /\ GridInv' /\ SleepInv' /\ target' \in [Targets -> Schedules]
      /\ \A u \in Targets : target'[u] = IF u = t THEN r ELSE target[u]
  BY <1>2, <1>3, <1>4, <1>5, VisitFacts
<1>7. GateInv'
  BY <1>1, <1>2, GateKept DEF Visited, Visiting
<1>8. Typed'
  BY <1>2, <1>6 DEF PaceInv, Typed, Visited
<1> QED BY <1>4, <1>6, <1>7, <1>8 DEF PaceInv, s

(* Skipping the slots a send has overrun stays on the grid, after the slot    *)
(* the send took.                                                              *)
LEMMA SkipMissedFacts ==
    ASSUME NEW t \in Targets, NEW s \in Schedules, OnGrid(t, s), NEW at \in Nat
    PROVE  /\ SkipMissed(t, s, at) \in Schedules /\ OnGrid(t, SkipMissed(t, s, at))
           /\ SkipMissed(t, s, at).slot = s.slot
<1>1. CASE ~ \E deadline \in s.next : deadline <= at
  BY <1>1 DEF SkipMissed
<1>2. CASE \E deadline \in s.next : deadline <= at
  <2> DEFINE deadline == Min(s.next)
             c == Commit(t, s, deadline, at)
             r == [s EXCEPT !.next = c.next]
  <2>1. s.next \subseteq Nat /\ s.start \in Nat /\ s.slot \subseteq Nat
    BY DEF Schedules
  <2>2. deadline \in s.next /\ deadline \in Nat
    BY <1>2, <2>1, NatMinimum
  <2>3. SkipMissed(t, s, at) = r
    BY <1>2 DEF SkipMissed
  <2>4. \A taken \in s.slot : taken < deadline
    BY <2>2 DEF OnGrid
  <2> HIDE DEF deadline
  <2>5. SlotOf(t, s.start, deadline)
    BY <2>2 DEF OnGrid
  <2>c. TakesSlot(c, t, s.start, deadline, at)
    BY <2>1, <2>2, <2>5, CommitFacts
  <2>6. /\ c.scheduled_at \in Nat /\ c.scheduled_at >= deadline
        /\ c.next \subseteq Nat /\ \A d, e \in c.next : d = e
        /\ \A d \in c.next : SlotOf(t, s.start, d) /\ c.scheduled_at < d
    BY <2>c DEF TakesSlot
  <2> HIDE DEF c
  <2>7. r \in Schedules /\ r.next = c.next /\ r.slot = s.slot /\ r.start = s.start
    BY <2>6 DEF Schedules
  <2> HIDE DEF r
  <2>8. \A d \in c.next, taken \in s.slot : taken < d
    BY <2>1, <2>2, <2>4, <2>6
  <2>9. OnGrid(t, r)
    BY <2>6, <2>7, <2>8 DEF OnGrid
  <2> QED BY <2>3, <2>7, <2>9
<1> QED BY <1>1, <1>2

(* A target that is due has a slot that has come, and its run is not over.    *)
LEMMA DueFacts ==
    ASSUME PaceInv, NEW t \in Targets, Due(t)
    PROVE  /\ Min(target[t].next) \in target[t].next /\ Min(target[t].next) \in Nat
           /\ Min(target[t].next) <= now
           /\ \A end \in target[t].end : now < end
<1>1. target[t] \in Schedules /\ now \in Nat /\ OnGrid(t, target[t])
  BY DEF PaceInv, Typed, GridInv
<1>2. target[t].next # {} /\ \A end \in target[t].end : now < end
  BY <1>1, PermitFacts DEF Due
<1>3. PICK d \in target[t].next : ~(d > now)
  BY DEF Due, NotDue
<1>4. target[t].next \subseteq Nat
  BY <1>1 DEF Schedules
<1>5. Min(target[t].next) \in target[t].next /\ Min(target[t].next) <= d
  BY <1>2, <1>3, <1>4, NatMinimum
<1> QED BY <1>1, <1>2, <1>3, <1>4, <1>5

(* What a send does to its target: the slot taken and the one that follows.   *)
LEMMA SendTarget ==
    ASSUME PaceInv, NEW t \in Targets, NEW took \in 0 .. MaxSendTime, NEW answered \in BOOLEAN,
           Send(t, took, answered)
    PROVE  \E r \in Schedules :
             /\ target' = [target EXCEPT ![t] = r] /\ OnGrid(t, r)
             /\ \A slot \in r.slot :
                  /\ (slot - target[t].start) % Interval[t] = 0
                  /\ slot <= now /\ now < slot + Interval[t]
                  /\ \A before \in target[t].slot : slot > before
                  /\ \A end \in target[t].end : now < end
<1> DEFINE s == target[t]
           at == now + took
           deadline == Min(s.next)
           c == Commit(t, s, deadline, now)
           sent == [s EXCEPT !.next = c.next, !.slot = {c.scheduled_at}, !.waiting = FALSE,
                             !.pending = IF answered THEN @ ELSE @ \cup {at + ProbeTimeout}]
           r == SkipMissed(t, sent, at)
<1>1. s \in Schedules /\ now \in Nat /\ OnGrid(t, s) /\ at \in Nat
  BY Constants DEF PaceInv, Typed, GridInv
<1>2. target' = [target EXCEPT ![t] = r] /\ Due(t)
  BY DEF Send
<1>3. /\ deadline \in s.next /\ deadline \in Nat /\ deadline <= now
      /\ \A end \in s.end : now < end
  BY <1>2, DueFacts
<1>4. s.start \in Nat /\ s.slot \subseteq Nat /\ s.pending \subseteq Nat
  BY <1>1 DEF Schedules
<1>5. SlotOf(t, s.start, deadline)
  BY <1>1, <1>3 DEF OnGrid
<1>6. \A taken \in s.slot : taken < deadline
  BY <1>1, <1>3 DEF OnGrid
<1> HIDE DEF deadline
<1>c. TakesSlot(c, t, s.start, deadline, now)
  BY <1>1, <1>3, <1>4, <1>5, CommitFacts
<1>7. /\ c.scheduled_at \in Nat /\ c.scheduled_at >= deadline
      /\ (c.scheduled_at - s.start) % Interval[t] = 0
      /\ c.scheduled_at <= now /\ now < c.scheduled_at + Interval[t]
      /\ c.next \subseteq Nat /\ \A d, e \in c.next : d = e
      /\ \A d \in c.next : SlotOf(t, s.start, d) /\ c.scheduled_at < d
  BY <1>1, <1>3, <1>c DEF TakesSlot
<1> HIDE DEF c
<1>8. at + ProbeTimeout \in Nat
  BY <1>1, Constants
<1> HIDE DEF at
<1>9. sent \in Schedules /\ sent.next = c.next /\ sent.slot = {c.scheduled_at} /\ sent.start = s.start
  BY <1>1, <1>7, <1>8 DEF Schedules
<1> HIDE DEF sent
<1>10. OnGrid(t, sent)
  BY <1>7, <1>9 DEF OnGrid
<1>11. r \in Schedules /\ OnGrid(t, r) /\ r.slot = {c.scheduled_at}
  BY <1>1, <1>9, <1>10, SkipMissedFacts
<1>12. \A before \in s.slot : c.scheduled_at > before
  BY <1>3, <1>4, <1>6, <1>7
<1> HIDE DEF r, s
<1>13. \A slot \in r.slot :
                  /\ (slot - s.start) % Interval[t] = 0
                  /\ slot <= now /\ now < slot + Interval[t]
                  /\ \A before \in s.slot : slot > before
                  /\ \A end \in s.end : now < end
  BY <1>3, <1>7, <1>11, <1>12
<1> QED BY <1>2, <1>11, <1>13 DEF s

(* The gate a send finds and the one it leaves.                                *)
LEMMA SendGate ==
    ASSUME PaceInv, NEW t \in Targets, NEW took \in 0 .. MaxSendTime, NEW answered \in BOOLEAN,
           Send(t, took, answered)
    PROVE  /\ GateInv' /\ gate' \subseteq Nat /\ last' \subseteq Nat
           /\ mode.pacing = "Staggered" =>
                \A first \in sends.previous, third \in sends'.latest :
                   third - first >= LeastSpacing
<1> DEFINE at == now + took
<1>1. /\ now \in Nat /\ at \in Nat /\ at >= now /\ gate \subseteq Nat /\ last \subseteq Nat
      /\ sends.previous \subseteq Nat /\ sends.latest \subseteq Nat
      /\ LeastSpacing \in Nat \ {0} /\ LeastSpacing' = LeastSpacing
  BY Constants, LeastSpacingType DEF PaceInv, Typed, LeastSpacing
<1>2. /\ now' = at /\ sends' = [previous |-> sends.latest, latest |-> {at}] /\ mode' = mode
      /\ stage = "sending" /\ work > 0
      /\ mode.pacing = "Staggered" =>
           /\ last' = {at} /\ work' = 0
           /\ gate' = {NextStaggerGate(spacing, at) : spacing \in ActiveSpacing(target)}
      /\ mode.pacing # "Staggered" => last' = last /\ gate' = gate
  BY DEF Send, Visited, Due, Visiting
<1> HIDE DEF at
<1>3. sends'.previous = sends.latest /\ sends'.latest = {at}
  BY <1>2
<1>4. \A second \in sends.latest : second <= now
  BY DEF PaceInv, GateInv
<1>5. CASE mode.pacing # "Staggered"
  <2>1. \A g, h \in gate : g = h
    BY DEF PaceInv, GateInv
  <2>2. \A first \in sends.latest : first <= at
    BY <1>1, <1>4
  <2>3. GateInv'
    <3>0. gate' = gate /\ now' = at
      BY <1>2, <1>5
    <3>1. /\ \A g, h \in gate' : g = h
          /\ \A a, b \in sends'.latest : a = b
          /\ \A second \in sends'.latest : second <= now'
          /\ sends'.latest # {}
      BY <1>1, <1>3, <2>1, <3>0
    <3>2. \A first \in sends'.previous, second \in sends'.latest : first <= second
      BY <1>3, <2>2
    <3>3. mode'.pacing # "Staggered"
      BY <1>2, <1>5
    <3> QED BY <3>1, <3>2, <3>3 DEF GateInv
  <2> QED BY <1>1, <1>2, <1>5, <2>3
<1>6. CASE mode.pacing = "Staggered"
  <2>1. /\ \A g \in gate : g <= now
        /\ \A g, h \in gate : g = h
        /\ \A g \in gate, second \in sends.latest : second < g
        /\ \A first \in sends.previous :
             first + LeastSpacing <= now \/ \E g \in gate : first + LeastSpacing <= g
    BY <1>2, <1>6 DEF PaceInv, GateInv
  <2>2. \A first \in sends.previous : at - first >= LeastSpacing
    BY <1>1, <2>1
  <2>3. t \in Active(target)
    BY DEF Send, Due, Active
  <2>4. PICK spacing \in ActiveSpacing(target) :
          spacing \in Nat /\ spacing >= LeastSpacing /\ ActiveSpacing(target) = {spacing}
    BY <2>3, ActiveSpacingFacts
  <2> DEFINE g == NextStaggerGate(spacing, at)
  <2>5. gate' = {g} /\ last' = {at} /\ work' = 0
    BY <1>2, <1>6, <2>4
  <2>6. /\ g \in Nat /\ at < g
        /\ \A second \in sends.latest : second + LeastSpacing <= g
    <3>1. CASE \E h \in gate : h <= at /\ at - h < spacing
      <4>1. PICK h \in gate : h <= at /\ at - h < spacing
        BY <3>1
      <4>2. Min(gate) \in gate
        BY <1>1, <4>1, NatMinimum
      <4>3. Min(gate) = h
        BY <2>1, <4>1, <4>2
      <4>4. g = h + spacing
        BY <3>1, <4>3 DEF NextStaggerGate
      <4> HIDE DEF g
      <4>5. \A second \in sends.latest : second < h
        BY <2>1, <4>1
      <4> QED BY <1>1, <2>4, <4>1, <4>4, <4>5
    <3>2. CASE ~ \E h \in gate : h <= at /\ at - h < spacing
      <4>1. g = at + spacing
        BY <3>2 DEF NextStaggerGate
      <4> HIDE DEF g
      <4> QED BY <1>1, <1>4, <2>4, <4>1
    <3> QED BY <3>1, <3>2
  <2> HIDE DEF g
  <2>7. GateInv'
    BY <1>1, <1>2, <1>3, <1>4, <2>5, <2>6 DEF GateInv
  <2> QED BY <1>1, <1>3, <2>2, <2>5, <2>6, <2>7
<1> QED BY <1>5, <1>6

(* A send keeps the invariant and its promises: the slot it takes, and its    *)
(* distance from the send before the last.                                     *)
LEMMA SendStep ==
    ASSUME PaceInv, NEW t \in Targets, NEW took \in 0 .. MaxSendTime, NEW answered \in BOOLEAN,
           Send(t, took, answered)
    PROVE  /\ PaceInv'
           /\ \A u \in Targets : target'[u].slot # target[u].slot =>
                \A slot \in target'[u].slot :
                  /\ (slot - target[u].start) % Interval[u] = 0
                  /\ slot <= now /\ now < slot + Interval[u]
                  /\ \A before \in target[u].slot : slot > before
                  /\ \A end \in target[u].end : now < end
           /\ mode.pacing = "Staggered" =>
                \A first \in sends.previous, third \in sends'.latest :
                   third - first >= LeastSpacing
<1>1. PICK r \in Schedules :
             /\ target' = [target EXCEPT ![t] = r] /\ OnGrid(t, r)
             /\ \A slot \in r.slot :
                  /\ (slot - target[t].start) % Interval[t] = 0
                  /\ slot <= now /\ now < slot + Interval[t]
                  /\ \A before \in target[t].slot : slot > before
                  /\ \A end \in target[t].end : now < end
  BY SendTarget
<1>2. Visiting(t) /\ Visited(TRUE, TRUE)
  BY DEF Send, Due
<1>3. /\ GridInv' /\ SleepInv' /\ target' \in [Targets -> Schedules]
      /\ \A u \in Targets : target'[u] = IF u = t THEN r ELSE target[u]
  BY <1>1, <1>2, VisitFacts
<1>4. /\ GateInv' /\ gate' \subseteq Nat /\ last' \subseteq Nat
      /\ mode.pacing = "Staggered" =>
           \A first \in sends.previous, third \in sends'.latest :
              third - first >= LeastSpacing
  BY SendGate
<1>5. Typed'
  <2>1. now \in Nat /\ now + took \in Nat /\ sends \in [previous : SUBSET Nat, latest : SUBSET Nat]
    BY Constants DEF PaceInv, Typed
  <2>2. now' = now + took /\ sends' = [previous |-> sends.latest, latest |-> {now + took}]
    BY DEF Send
  <2>3. sends' \in [previous : SUBSET Nat, latest : SUBSET Nat]
    BY <2>1, <2>2
  <2>4. immediate' \in BOOLEAN /\ UNCHANGED <<mode, stage, woken>>
    BY <1>2 DEF Visited
  <2> QED BY <1>3, <1>4, <2>1, <2>2, <2>3, <2>4 DEF PaceInv, Typed
<1>6. \A u \in Targets : target'[u].slot # target[u].slot =>
        \A slot \in target'[u].slot :
          /\ (slot - target[u].start) % Interval[u] = 0
          /\ slot <= now /\ now < slot + Interval[u]
          /\ \A before \in target[u].slot : slot > before
          /\ \A end \in target[u].end : now < end
  BY <1>1, <1>3
<1> QED BY <1>3, <1>4, <1>5, <1>6 DEF PaceInv

LEMMA EndPollStep ==
    ASSUME PaceInv, EndPoll
    PROVE  PaceInv' /\ UNCHANGED <<target, sends>>
<1>1. /\ stage = "sending" /\ stage' = "asleep"
      /\ woken' = (immediate \/ remaining > 0)
      /\ ~woken' => timer' = NextDeadline
      /\ UNCHANGED <<mode, now, target, gate, last, sends, immediate>>
  BY DEF EndPoll
<1>2. Typed'
  BY <1>1 DEF PaceInv, Typed
<1>3. GridInv'
  BY <1>1 DEF PaceInv, GridInv
<1>4. GateInv'
  BY <1>1 DEF PaceInv, GateInv, LeastSpacing
<1>5. NextDeadline' = NextDeadline
  BY <1>1 DEF NextDeadline, Active, NonSendDeadlines, GatedSendDeadline
<1>6. SleepInv'
  BY <1>1, <1>5 DEF PaceInv, SleepInv, Active
<1> QED BY <1>1, <1>2, <1>3, <1>4, <1>6 DEF PaceInv

LEMMA TickStep ==
    ASSUME PaceInv, Tick
    PROVE  PaceInv' /\ UNCHANGED <<target, sends>>
<1>1. /\ stage = "asleep" /\ now' = now + 1
      /\ UNCHANGED <<mode, stage, target, gate, last, work, immediate, timer, woken, sends>>
  BY DEF Tick
<1>2. now \in Nat /\ now' \in Nat /\ now' >= now
  BY <1>1 DEF PaceInv, Typed
<1>3. Typed'
  BY <1>1, <1>2 DEF PaceInv, Typed
<1>4. GridInv'
  BY <1>1 DEF PaceInv, GridInv
<1>5. GateInv'
  BY <1>1, <1>2, GateKept
<1>6. NextDeadline' = NextDeadline
  BY <1>1 DEF NextDeadline, Active, NonSendDeadlines, GatedSendDeadline
<1>7. SleepInv'
  BY <1>1, <1>6 DEF PaceInv, SleepInv, Active
<1> QED BY <1>1, <1>3, <1>4, <1>5, <1>7 DEF PaceInv

LEMMA DrainedStep ==
    ASSUME PaceInv, NEW t \in Targets, Drained(t)
    PROVE  PaceInv' /\ sends' = sends /\ \A u \in Targets : target'[u].slot = target[u].slot
<1> DEFINE s == target[t]
           r == [s EXCEPT !.writable = TRUE]
<1>1. s \in Schedules /\ OnGrid(t, s) /\ target \in [Targets -> Schedules] /\ now \in Nat
  BY DEF PaceInv, Typed, GridInv
<1>2. /\ target' = [target EXCEPT ![t] = r] /\ stage = "asleep" /\ woken' = TRUE
      /\ UNCHANGED <<mode, now, stage, gate, last, work, immediate, timer, sends>>
  BY <1>1 DEF Drained
<1>3. r \in Schedules /\ r.next = s.next /\ r.start = s.start /\ r.slot = s.slot
  BY <1>1 DEF Schedules
<1>4. OnGrid(t, r)
  BY <1>1, <1>3, GridKept
<1> HIDE DEF r
<1>5. /\ target' \in [Targets -> Schedules]
      /\ \A u \in Targets : target'[u] = IF u = t THEN r ELSE target[u]
  BY <1>1, <1>2, <1>3
<1>6. Typed'
  BY <1>2, <1>5 DEF PaceInv, Typed
<1>7. GridInv'
  BY <1>4, <1>5 DEF PaceInv, GridInv
<1>8. GateInv'
  BY <1>1, <1>2, GateKept
<1>9. SleepInv'
  BY <1>2 DEF SleepInv
<1> QED BY <1>2, <1>3, <1>5, <1>6, <1>7, <1>8, <1>9 DEF PaceInv

LEMMA PaceInit == Init => PaceInv
<1> SUFFICES ASSUME Init PROVE PaceInv
  OBVIOUS
<1>1. /\ mode \in [pacing : Pacings, latency : Latencies, budget : Budgets]
      /\ now = 0 /\ stage = "asleep" /\ gate = {} /\ last = {} /\ immediate = FALSE
      /\ timer = {} /\ woken = FALSE /\ sends.previous = {} /\ sends.latest = {}
      /\ sends \in [previous : SUBSET Nat, latest : SUBSET Nat]
      /\ target = [t \in Targets |-> [StartedAt(t, 0) EXCEPT !.phase = "idle", !.next = {}]]
  BY DEF Init
<1>2. \A t \in Targets : /\ target[t] \in Schedules
                         /\ target[t].next = {} /\ target[t].phase = "idle"
  <2> SUFFICES ASSUME NEW t \in Targets
               PROVE  LET r == [StartedAt(t, 0) EXCEPT !.phase = "idle", !.next = {}]
                      IN  r \in Schedules /\ r.next = {} /\ r.phase = "idle"
    BY <1>1
  <2>1. StartedAt(t, 0) \in Schedules
    BY StartedFacts
  <2> QED BY <2>1 DEF Schedules
<1>3. target \in [Targets -> Schedules]
  BY <1>1, <1>2
<1>4. Typed
  BY <1>1, <1>3 DEF Typed
<1>5. GridInv
  BY <1>2 DEF GridInv, OnGrid
<1>6. GateInv
  BY <1>1 DEF GateInv
<1>7. Active(target) = {}
  BY <1>2 DEF Active
<1>8. NextDeadline = {}
  <2>1. Earliest({}) = {} /\ GatedSendDeadline({}) = {}
    BY DEF Earliest, GatedSendDeadline
  <2> QED BY <1>7, <2>1 DEF NextDeadline
<1>9. SleepInv
  BY <1>1, <1>7, <1>8 DEF SleepInv
<1> QED BY <1>4, <1>5, <1>6, <1>9 DEF PaceInv

(***************************************************************************)
(* The theorems                                                             *)
(***************************************************************************)
(* The two action properties, as predicates of a step.                        *)
TakesLatestSlot ==
    \A t \in Targets : target'[t].slot # target[t].slot =>
          \A slot \in target'[t].slot :
             /\ (slot - target[t].start) % Interval[t] = 0
             /\ slot <= now /\ now < slot + Interval[t]
             /\ \A before \in target[t].slot : slot > before
             /\ \A end \in target[t].end : now < end

KeepsSpacing ==
    (mode.pacing = "Staggered" /\ sends' # sends) =>
          \A first \in sends.previous, third \in sends'.latest :
              third - first >= LeastSpacing

(* Every step keeps the invariant and both promises.                           *)
LEMMA PaceStep ==
    ASSUME PaceInv, [Next]_vars
    PROVE  PaceInv' /\ TakesLatestSlot /\ KeepsSpacing
<1>1. ASSUME \A t \in Targets : target'[t].slot = target[t].slot \/ target'[t].slot = {},
             sends' = sends
      PROVE  TakesLatestSlot /\ KeepsSpacing
  BY <1>1 DEF TakesLatestSlot, KeepsSpacing
<1>2. ASSUME NEW opened \in Opens, BeginPoll(opened)
      PROVE  PaceInv' /\ TakesLatestSlot /\ KeepsSpacing
  <2>1. sends' = sends
    BY <1>2 DEF BeginPoll
  <2> QED BY <1>1, <1>2, <2>1, BeginPollStep
<1>3. ASSUME NEW t \in Targets, Skip(t)
      PROVE  PaceInv' /\ TakesLatestSlot /\ KeepsSpacing
  <2>1. sends' = sends
    BY <1>3 DEF Skip
  <2> QED BY <1>1, <1>3, <2>1, SkipStep
<1>4. ASSUME NEW t \in Targets, Finish(t) \/ Fail(t)
      PROVE  PaceInv' /\ TakesLatestSlot /\ KeepsSpacing
  <2>1. Visiting(t) /\ Leaves(t) /\ Visited(TRUE, TRUE)
    BY <1>4 DEF Finish, Fail, Due
  <2>2. sends' = sends
    BY <2>1 DEF Leaves
  <2> QED BY <1>1, <2>1, <2>2, LeavesStep
<1>5. ASSUME NEW t \in Targets, NEW took \in 0 .. MaxSendTime, NEW answered \in BOOLEAN,
             Send(t, took, answered)
      PROVE  PaceInv' /\ TakesLatestSlot /\ KeepsSpacing
  BY <1>5, SendStep DEF TakesLatestSlot, KeepsSpacing
<1>6. ASSUME NEW t \in Targets, Block(t)
      PROVE  PaceInv' /\ TakesLatestSlot /\ KeepsSpacing
  <2>1. sends' = sends
    BY <1>6 DEF Block
  <2> QED BY <1>1, <1>6, <2>1, BlockStep
<1>7. ASSUME NEW t \in Targets, Drained(t)
      PROVE  PaceInv' /\ TakesLatestSlot /\ KeepsSpacing
  BY <1>1, <1>7, DrainedStep
<1>8. ASSUME EndPoll \/ Tick
      PROVE  PaceInv' /\ TakesLatestSlot /\ KeepsSpacing
  BY <1>1, <1>8, EndPollStep, TickStep
<1>9. ASSUME UNCHANGED vars
      PROVE  PaceInv' /\ TakesLatestSlot /\ KeepsSpacing
  <2>1. UNCHANGED <<mode, now, stage, target, gate, last, work, immediate, timer, woken, sends>>
    BY <1>9 DEF vars
  <2>2. NextDeadline' = NextDeadline
    BY <2>1 DEF NextDeadline, Active, NonSendDeadlines, GatedSendDeadline
  <2>3. Typed' /\ GridInv' /\ GateInv'
    BY <2>1 DEF PaceInv, Typed, GridInv, GateInv, LeastSpacing
  <2>4. SleepInv'
    BY <2>1, <2>2 DEF PaceInv, SleepInv, Active
  <2> QED BY <1>1, <2>1, <2>3, <2>4 DEF PaceInv
<1> QED BY <1>2, <1>3, <1>4, <1>5, <1>6, <1>7, <1>8, <1>9 DEF Next

(* The inductive invariant of the pacing: every target's next slot lies on    *)
(* its grid after every slot it has taken (advance_cadence), the stagger gate *)
(* holds the next send back far enough (next_stagger_gate, pacing.rs), and    *)
(* the driver sleeps on its next deadline (register_timer, task.rs).           *)
THEOREM PaceInvariant == Spec => []PaceInv
<1>1. PaceInv /\ [Next]_vars => PaceInv'
  BY PaceStep
<1> QED BY PaceInit, <1>1, PTL DEF Spec

(* Sends keep to their schedule: every probe takes the latest slot of its     *)
(* target's grid, once and before the run ends, and staggered sends are never *)
(* released in a burst (advance_cadence, skip_missed_slots_at,                *)
(* next_stagger_gate).                                                         *)
THEOREM SendsAlwaysPaced == Spec => SendsPaced
<1>1. PaceInv /\ [Next]_vars =>
        [\A t \in Targets : target'[t].slot # target[t].slot =>
          \A slot \in target'[t].slot :
             /\ (slot - target[t].start) % Interval[t] = 0
             /\ slot <= now /\ now < slot + Interval[t]
             /\ \A before \in target[t].slot : slot > before
             /\ \A end \in target[t].end : now < end]_vars
  BY PaceStep DEF TakesLatestSlot
<1>2. PaceInv /\ [Next]_vars =>
        [(mode.pacing = "Staggered" /\ sends' # sends) =>
          \A first \in sends.previous, third \in sends'.latest :
              third - first >= LeastSpacing]_vars
  BY PaceStep DEF KeepsSpacing
<1> QED BY <1>1, <1>2, PaceInvariant, PTL DEF Spec, SendsPaced, SlotsOnGrid, NeverBursts

(* The earliest of a set of instants is not after any of them.                *)
LEMMA EarliestFacts ==
    ASSUME NEW S, S \subseteq Nat
    PROVE  /\ Earliest(S) \subseteq S
           /\ \A x \in S : \E e \in Earliest(S) : e <= x
<1>1. CASE S = {}
  BY <1>1 DEF Earliest
<1>2. CASE S # {}
  BY <1>2, NatMinimum DEF Earliest
<1> QED BY <1>1, <1>2

(* Behind a gate a send is due at its slot or at the gate, whichever is later. *)
LEMMA GatedFacts ==
    ASSUME PaceInv, NEW c \in Nat
    PROVE  /\ Max({c} \cup gate) \in Nat
           /\ Max({c} \cup gate) = c \/ Max({c} \cup gate) \in gate
<1>1. gate \subseteq Nat /\ \A g, h \in gate : g = h
  BY DEF PaceInv, Typed, GateInv
<1>2. CASE gate = {}
  <2>1. {c} \cup gate = {c, c}
    BY <1>2
  <2> QED BY <2>1, MaxPair
<1>3. CASE gate # {}
  <2>1. PICK g \in gate : g \in Nat /\ {c} \cup gate = {c, g}
    BY <1>1, <1>3
  <2> QED BY <2>1, MaxPair
<1> QED BY <1>2, <1>3

LEMMA SleepsOnDeadlines ==
    ASSUME PaceInv PROVE NeverOversleeps
<1> SUFFICES ASSUME stage = "asleep", ~Awake, NEW t \in Active(target)
             PROVE  LET s == target[t]
                        open == mode.pacing = "Burst" \/ \A g \in gate : g <= now
                    IN /\ \A deadline \in s.pending \cup EndDeadline(s) : deadline > now
                       /\ s.next # {} \/ s.pending # {}
                       /\ (~s.waiting /\ open) => \A deadline \in s.next : deadline > now
  BY DEF NeverOversleeps
<1> DEFINE active == Active(target)
           slots == UNION {target[u].next : u \in {v \in active : ~target[v].waiting}}
           cadence == Earliest(slots)
           others == UNION {NonSendDeadlines(u) : u \in active}
           gated == GatedSendDeadline(cadence)
<1>1. /\ ~woken /\ timer = NextDeadline
      /\ target[t].next # {} \/ target[t].pending # {}
  BY DEF Awake, PaceInv, SleepInv
<1>2. /\ now \in Nat /\ gate \subseteq Nat /\ mode.pacing \in {"Staggered", "Burst"}
      /\ \A u \in active : /\ target[u].next \subseteq Nat /\ target[u].pending \subseteq Nat
                           /\ target[u].end \subseteq Nat
  <2>1. mode.pacing \in Pacings
    BY DEF PaceInv, Typed
  <2> QED BY <2>1, Constants DEF PaceInv, Typed, Schedules, Active
<1>3. slots \subseteq Nat
  BY <1>2
<1>4. others \subseteq Nat
  BY <1>2 DEF NonSendDeadlines, EndDeadline
<1>5. timer = Earliest(others \cup gated)
  BY <1>1 DEF NextDeadline
<1>6. \A deadline \in timer : ~(deadline <= now)
  BY DEF Awake
<1>7. \A d \in target[t].pending \cup EndDeadline(target[t]) : d \in others
  BY DEF NonSendDeadlines
<1>8. ~target[t].waiting => target[t].next \subseteq slots
  OBVIOUS
<1> HIDE DEF slots, others
<1>9. cadence \subseteq Nat /\ \A d \in slots : \E c \in cadence : c <= d
  BY <1>3, EarliestFacts
<1>10. gated = IF mode.pacing = "Staggered" THEN {Max({c} \cup gate) : c \in cadence} ELSE cadence
  BY DEF GatedSendDeadline
<1> HIDE DEF cadence, gated
<1>11. gated \subseteq Nat
  BY <1>9, <1>10, GatedFacts
<1>12. \A d \in others \cup gated : d > now
  <2> DEFINE all == others \cup gated
  <2>1. all \subseteq Nat
    BY <1>4, <1>11
  <2> HIDE DEF all
  <2>2. Earliest(all) \subseteq Nat /\ \A d \in all : \E e \in Earliest(all) : e <= d
    BY <2>1, EarliestFacts
  <2>3. \A e \in Earliest(all) : ~(e <= now)
    BY <1>5, <1>6 DEF all
  <2>4. \A d \in all : d > now
    BY <1>2, <2>1, <2>2, <2>3
  <2> QED BY <2>4 DEF all
<1>13. ASSUME mode.pacing = "Burst" \/ \A g \in gate : g <= now, NEW c \in cadence
       PROVE  c > now
  <2>1. CASE mode.pacing = "Burst"
    BY <1>10, <1>12, <1>13, <2>1
  <2>2. CASE mode.pacing = "Staggered" /\ \A g \in gate : g <= now
    <3> DEFINE m == Max({c} \cup gate)
    <3>1. m > now
      BY <1>10, <1>12, <1>13, <2>2
    <3>2. m = c \/ m \in gate
      BY <1>9, <1>13, GatedFacts
    <3> HIDE DEF m
    <3>3. m \in gate => m <= now /\ m \in Nat
      BY <1>2, <2>2
    <3> QED BY <1>2, <3>1, <3>2, <3>3
  <2> QED BY <1>2, <1>13, <2>1, <2>2
<1>14. ASSUME ~target[t].waiting, mode.pacing = "Burst" \/ \A g \in gate : g <= now,
              NEW d \in target[t].next
       PROVE  d > now
  <2>1. PICK c \in cadence : c <= d
    BY <1>8, <1>9, <1>14
  <2>2. c > now
    BY <1>13, <1>14, <2>1
  <2>3. c \in Nat /\ d \in Nat
    BY <1>2, <1>9, <1>14, <2>1
  <2> QED BY <1>2, <2>1, <2>2, <2>3
<1> QED BY <1>1, <1>7, <1>12, <1>14

(* The driver never sleeps through its own work: while neither the timer nor  *)
(* the waker is due, no timeout, no end of a run and no send it is free to    *)
(* make has come (next_deadline and register_timer of task.rs).                *)
THEOREM DriverNeverOversleeps == Spec => []NeverOversleeps
BY PaceInvariant, SleepsOnDeadlines, PTL
=============================================================================
