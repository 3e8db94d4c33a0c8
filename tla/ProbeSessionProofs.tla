-------------------------- MODULE ProbeSessionProofs --------------------------
(* Proofs about ProbeSession, for every sequence space, capacity, timeout and *)
(* bound allowed by ConstantsAssumption.                                       *)
EXTENDS ProbeSession, SequenceTheorems, TLAPS

(***************************************************************************)
(* Stores as sequences                                                      *)
(***************************************************************************)

(* a is b with some elements left out.                                        *)
Sublist(a, b) ==
  \E f \in [DOMAIN a -> DOMAIN b] :
    /\ \A i, j \in DOMAIN a : i < j => f[i] < f[j]
    /\ \A i \in DOMAIN a : a[i] = b[f[i]]

(* a and b hold the same probes, up to their kernel stamps.                   *)
SameProbes(a, b) ==
  /\ DOMAIN a = DOMAIN b
  /\ Len(a) = Len(b)
  /\ \A i \in DOMAIN b : /\ a[i].seq = b[i].seq
                         /\ a[i].uid = b[i].uid
                         /\ a[i].timeoutAt = b[i].timeoutAt
                         /\ a[i].submission = b[i].submission

(* Removing the element at an index.                                          *)
LEMMA RemoveAtFacts ==
  ASSUME NEW T, NEW q \in Seq(T), NEW x \in 1 .. Len(q)
  PROVE  /\ RemoveAt(q, x) \in Seq(T)
         /\ Len(RemoveAt(q, x)) = Len(q) - 1
         /\ \A j \in 1 .. Len(q) - 1 :
              RemoveAt(q, x)[j] = q[IF j < x THEN j ELSE j + 1]
<1> DEFINE a == SubSeq(q, 1, x - 1)
           b == SubSeq(q, x + 1, Len(q))
<1>0. Len(q) \in Nat
  BY LenProperties
<1>1. a \in Seq(T) /\ Len(a) = x - 1 /\ \A j \in 1 .. x - 1 : a[j] = q[j]
  BY <1>0, SubSeqProperties
<1>2. b \in Seq(T) /\ Len(b) = Len(q) - x /\ \A j \in 1 .. Len(q) - x : b[j] = q[j + x]
  BY <1>0, SubSeqProperties
<1> HIDE DEF a, b
<1>3. /\ a \o b \in Seq(T)
      /\ Len(a \o b) = Len(a) + Len(b)
      /\ \A i \in 1 .. Len(a) + Len(b) :
           (a \o b)[i] = IF i <= Len(a) THEN a[i] ELSE b[i - Len(a)]
  BY <1>1, <1>2, ConcatProperties
<1>4. Len(a \o b) = Len(q) - 1
  BY <1>0, <1>1, <1>2, <1>3
<1>5. \A j \in 1 .. Len(q) - 1 : (a \o b)[j] = q[IF j < x THEN j ELSE j + 1]
  BY <1>0, <1>1, <1>2, <1>3
<1> QED
  BY <1>3, <1>4, <1>5 DEF a, b, RemoveAt

(* Unlink (PendingMap::remove, CompletedSet::remove) takes out the one entry  *)
(* with the given sequence number and keeps the others in order.               *)
LEMMA UnlinkFacts ==
  ASSUME NEW T, NEW q \in Seq(T), NEW s, Distinct(q)
  PROVE  /\ Unlink(q, s) \in Seq(T)
         /\ Len(Unlink(q, s)) <= Len(q)
         /\ Sublist(Unlink(q, s), q)
         /\ ~Tracks(Unlink(q, s), s)
<1>0. Len(q) \in Nat /\ DOMAIN q = 1 .. Len(q)
  BY LenProperties
<1>1. CASE ~Tracks(q, s)
  <2>1. Unlink(q, s) = q
    BY <1>1 DEF Unlink
  <2>2. Sublist(q, q)
    <3> DEFINE f == [i \in DOMAIN q |-> i]
    <3>1. f \in [DOMAIN q -> DOMAIN q]
      OBVIOUS
    <3> QED BY <3>1 DEF Sublist
  <2> QED BY <1>0, <1>1, <2>1, <2>2
<1>2. CASE Tracks(q, s)
  <2> DEFINE x == IndexOf(q, s)
             r == RemoveAt(q, x)
             f == [j \in 1 .. Len(q) - 1 |-> IF j < x THEN j ELSE j + 1]
  <2>1. x \in 1 .. Len(q) /\ q[x].seq = s
    BY <1>0, <1>2 DEF Tracks, IndexOf
  <2>2. Unlink(q, s) = r
    BY <1>2 DEF Unlink
  <2> HIDE DEF x
  <2>3. /\ r \in Seq(T)
        /\ Len(r) = Len(q) - 1
        /\ \A j \in 1 .. Len(q) - 1 : r[j] = q[IF j < x THEN j ELSE j + 1]
    BY <2>1, RemoveAtFacts
  <2> HIDE DEF r
  <2>4. DOMAIN r = 1 .. Len(q) - 1
    BY <1>0, <2>3, LenProperties
  <2>5. f \in [DOMAIN r -> DOMAIN q]
    BY <1>0, <2>1, <2>4
  <2>6. \A i, j \in DOMAIN r : i < j => f[i] < f[j]
    BY <1>0, <2>1, <2>4
  <2>7. \A i \in DOMAIN r : r[i] = q[f[i]]
    BY <2>3, <2>4
  <2>8. Sublist(r, q)
    BY <2>5, <2>6, <2>7 DEF Sublist
  <2>9. \A i \in DOMAIN r : f[i] # x
    BY <1>0, <2>1, <2>4
  <2> HIDE DEF f
  <2>10. ~Tracks(r, s)
    BY <1>0, <2>1, <2>5, <2>7, <2>9 DEF Tracks, Distinct
  <2> QED BY <1>0, <2>2, <2>3, <2>8, <2>10
<1> QED BY <1>1, <1>2

(* Leaving elements out keeps a store's numbers distinct and apart.           *)
LEMMA SublistFacts ==
  ASSUME NEW a, NEW b, Sublist(a, b),
         DOMAIN a \subseteq Int, DOMAIN b \subseteq Int
  PROVE  /\ Distinct(b) => Distinct(a)
         /\ \A c : Apart(b, c) => Apart(a, c)
         /\ \A c : Apart(c, b) => Apart(c, a)
         /\ \A s : Tracks(a, s) => Tracks(b, s)
<1>1. PICK f \in [DOMAIN a -> DOMAIN b] :
         /\ \A i, j \in DOMAIN a : i < j => f[i] < f[j]
         /\ \A i \in DOMAIN a : a[i] = b[f[i]]
  BY DEF Sublist
<1>2. ASSUME Distinct(b) PROVE Distinct(a)
  <2> SUFFICES ASSUME NEW i \in DOMAIN a, NEW j \in DOMAIN a, a[i].seq = a[j].seq, i # j
               PROVE FALSE
    BY DEF Distinct
  <2>1. f[i] = f[j]
    BY <1>1, <1>2 DEF Distinct
  <2>2. i < j \/ j < i
    OBVIOUS
  <2> QED BY <1>1, <2>1, <2>2
<1> QED BY <1>1, <1>2 DEF Apart, Tracks

(* Two stores are apart when no number is tracked by both.                    *)
LEMMA ApartByTracks ==
  ASSUME NEW a, NEW b
  PROVE  Apart(a, b) <=> \A s : ~(Tracks(a, s) /\ Tracks(b, s))
BY DEF Apart, Tracks

(* A contiguous part of a store.                                              *)
LEMMA PartFacts ==
  ASSUME NEW T, NEW q \in Seq(T), NEW m \in Nat \ {0}, NEW n \in 0 .. Len(q),
         Distinct(q)
  PROVE  /\ SubSeq(q, m, n) \in Seq(T)
         /\ Len(SubSeq(q, m, n)) = IF m <= n THEN n - m + 1 ELSE 0
         /\ \A i \in 1 .. n - m + 1 : SubSeq(q, m, n)[i] = q[m + i - 1]
         /\ Distinct(SubSeq(q, m, n))
         /\ \A s : Tracks(SubSeq(q, m, n), s)
                    <=> \E i \in m .. n : q[i].seq = s
<1> DEFINE a == SubSeq(q, m, n)
<1>0. Len(q) \in Nat /\ DOMAIN q = 1 .. Len(q)
  BY LenProperties
<1>1. \A i \in m .. n : q[i] \in T
  BY <1>0, ElementOfSeq
<1>2. /\ a \in Seq(T)
      /\ Len(a) = IF m <= n THEN n - m + 1 ELSE 0
      /\ \A i \in 1 .. n - m + 1 : a[i] = q[m + i - 1]
  BY <1>0, <1>1, SubSeqProperties
<1> HIDE DEF a
<1>3. DOMAIN a = 1 .. n - m + 1
  BY <1>0, <1>2, LenProperties
<1>4. Distinct(a)
  <2> SUFFICES ASSUME NEW i \in 1 .. n - m + 1, NEW j \in 1 .. n - m + 1,
                      a[i].seq = a[j].seq
               PROVE  i = j
    BY <1>3 DEF Distinct
  <2>1. m + i - 1 \in DOMAIN q /\ m + j - 1 \in DOMAIN q
    BY <1>0
  <2>2. q[m + i - 1].seq = q[m + j - 1].seq
    BY <1>2
  <2>3. m + i - 1 = m + j - 1
    BY <2>1, <2>2 DEF Distinct
  <2> QED BY <2>3
<1>5. ASSUME NEW s PROVE Tracks(a, s) <=> \E i \in m .. n : q[i].seq = s
  <2>1. ASSUME Tracks(a, s) PROVE \E i \in m .. n : q[i].seq = s
    BY <1>0, <1>2, <1>3, <2>1 DEF Tracks
  <2>2. ASSUME NEW i \in m .. n, q[i].seq = s PROVE Tracks(a, s)
    <3>1. i - m + 1 \in 1 .. n - m + 1 /\ m + (i - m + 1) - 1 = i
      BY <1>0
    <3>2. a[i - m + 1].seq = s
      BY <1>2, <2>2, <3>1
    <3> QED BY <1>3, <3>1, <3>2 DEF Tracks
  <2> QED BY <2>1, <2>2
<1> QED BY <1>2, <1>4, <1>5 DEF a

(* Retain (TimedOutMap::insert, CompletedSet::insert) stays within capacity   *)
(* and holds only what it held or was given.                                   *)
LEMMA RetainFacts ==
  ASSUME NEW T, NEW q \in Seq(T), NEW n \in Seq(T),
         Distinct(q), Distinct(n), Apart(q, n)
  PROVE  /\ Retain(q, n) \in Seq(T)
         /\ Len(Retain(q, n)) <= MaxPending
         /\ Distinct(Retain(q, n))
         /\ \A s : Tracks(Retain(q, n), s) => Tracks(q, s) \/ Tracks(n, s)
<1> DEFINE all == q \o n
<1>0. /\ Len(q) \in Nat /\ DOMAIN q = 1 .. Len(q)
      /\ Len(n) \in Nat /\ DOMAIN n = 1 .. Len(n)
  BY LenProperties
<1>m. MaxPending \in Nat \ {0}
  BY ConstantsAssumption
<1>1. /\ all \in Seq(T)
      /\ Len(all) = Len(q) + Len(n)
      /\ \A i \in 1 .. Len(q) + Len(n) :
           all[i] = IF i <= Len(q) THEN q[i] ELSE n[i - Len(q)]
  BY ConcatProperties
<1> HIDE DEF all
<1>2. DOMAIN all = 1 .. Len(q) + Len(n)
  BY <1>1, LenProperties
<1>3. Distinct(all)
  <2> SUFFICES ASSUME NEW i \in 1 .. Len(q) + Len(n), NEW j \in 1 .. Len(q) + Len(n),
                      all[i].seq = all[j].seq
               PROVE  i = j
    BY <1>2 DEF Distinct
  <2>1. CASE i <= Len(q) /\ j <= Len(q)
    BY <1>0, <1>1, <2>1 DEF Distinct
  <2>2. CASE i > Len(q) /\ j > Len(q)
    <3>1. i - Len(q) \in DOMAIN n /\ j - Len(q) \in DOMAIN n
      BY <1>0, <2>2
    <3>2. n[i - Len(q)].seq = n[j - Len(q)].seq
      BY <1>0, <1>1, <2>2
    <3>3. i - Len(q) = j - Len(q)
      BY <3>1, <3>2 DEF Distinct
    <3> QED BY <1>0, <3>3
  <2>3. CASE i <= Len(q) /\ j > Len(q)
    <3>1. i \in DOMAIN q /\ j - Len(q) \in DOMAIN n
      BY <1>0, <2>3
    <3>2. q[i].seq = n[j - Len(q)].seq
      BY <1>0, <1>1, <2>3
    <3> QED BY <3>1, <3>2 DEF Apart
  <2>4. CASE i > Len(q) /\ j <= Len(q)
    <3>1. j \in DOMAIN q /\ i - Len(q) \in DOMAIN n
      BY <1>0, <2>4
    <3>2. q[j].seq = n[i - Len(q)].seq
      BY <1>0, <1>1, <2>4
    <3> QED BY <3>1, <3>2 DEF Apart
  <2> QED BY <1>0, <2>1, <2>2, <2>3, <2>4
<1>4. ASSUME NEW s, NEW i \in 1 .. Len(q) + Len(n), all[i].seq = s
      PROVE  Tracks(q, s) \/ Tracks(n, s)
  <2>1. CASE i <= Len(q)
    BY <1>0, <1>1, <1>4, <2>1 DEF Tracks
  <2>2. CASE i > Len(q)
    <3>1. i - Len(q) \in DOMAIN n /\ n[i - Len(q)].seq = s
      BY <1>0, <1>1, <1>4, <2>2
    <3> QED BY <3>1 DEF Tracks
  <2> QED BY <1>0, <2>1, <2>2
<1>5. CASE Len(all) <= MaxPending
  <2>1. Retain(q, n) = all
    BY <1>5 DEF Retain, all
  <2> QED BY <1>1, <1>2, <1>3, <1>4, <1>5, <2>1 DEF Tracks
<1>6. CASE Len(all) > MaxPending
  <2> DEFINE m == Len(all) - MaxPending + 1
  <2>1. Retain(q, n) = SubSeq(all, m, Len(all))
    BY <1>0, <1>1, <1>6, <1>m DEF Retain, all
  <2>2. m \in Nat \ {0} /\ m <= Len(all) /\ Len(all) \in 0 .. Len(all)
    BY <1>0, <1>1, <1>6, <1>m
  <2>3. Len(all) - m + 1 = MaxPending
    BY <1>0, <1>1, <1>m
  <2> HIDE DEF m
  <2>4. /\ SubSeq(all, m, Len(all)) \in Seq(T)
        /\ Len(SubSeq(all, m, Len(all))) = MaxPending
        /\ Distinct(SubSeq(all, m, Len(all)))
        /\ \A s : Tracks(SubSeq(all, m, Len(all)), s)
                   => \E i \in m .. Len(all) : all[i].seq = s
    <3>1. all \in Seq(T) /\ m \in Nat \ {0} /\ Len(all) \in 0 .. Len(all)
      BY <1>1, <2>2
    <3> DEFINE z == SubSeq(all, m, Len(all))
    <3>2. /\ z \in Seq(T)
          /\ Len(z) = IF m <= Len(all) THEN Len(all) - m + 1 ELSE 0
          /\ Distinct(z)
          /\ \A s : Tracks(z, s) <=> \E i \in m .. Len(all) : all[i].seq = s
      BY <1>3, <3>1, PartFacts, ZenonT(30)
    <3> HIDE DEF z
    <3>3. Len(z) = MaxPending
      BY <2>2, <2>3, <3>2
    <3> QED BY <3>2, <3>3 DEF z
  <2>5. m .. Len(all) \subseteq 1 .. Len(q) + Len(n)
    BY <1>0, <1>1, <2>2
  <2>6. ASSUME NEW s, Tracks(SubSeq(all, m, Len(all)), s)
        PROVE  Tracks(q, s) \/ Tracks(n, s)
    <3>1. PICK i \in m .. Len(all) : all[i].seq = s
      BY <2>4, <2>6
    <3> QED BY <1>4, <2>5, <3>1
  <2> QED BY <1>m, <2>1, <2>4, <2>6
<1> QED BY <1>0, <1>1, <1>m, <1>5, <1>6

(* Attaching kernel stamps changes nothing else about a store's probes.       *)
LEMMA AttachFacts ==
  ASSUME NEW q \in Seq(Entry), NEW K \in SUBSET Nat
  PROVE  /\ Attach(q, K) \in Seq(Entry)
         /\ SameProbes(Attach(q, K), q)
<1> DEFINE a == Attach(q, K)
<1>0. Len(q) \in Nat /\ DOMAIN q = 1 .. Len(q)
  BY LenProperties
<1>1. DOMAIN a = 1 .. Len(q)
  BY <1>0 DEF Attach
<1>2. ASSUME NEW i \in 1 .. Len(q)
      PROVE  /\ a[i] \in Entry
             /\ a[i].seq = q[i].seq /\ a[i].uid = q[i].uid
             /\ a[i].timeoutAt = q[i].timeoutAt
             /\ a[i].submission = q[i].submission
  <2>0. q[i] \in Entry
    BY ElementOfSeq
  <2>1. CASE txValid /\ q[i].kernelTx = None /\ \E k \in K : WireSeq(k) = q[i].seq
    <3> DEFINE k == CHOOSE k \in K : WireSeq(k) = q[i].seq
    <3>1. k \in Nat
      BY <2>1
    <3>2. a[i] = [q[i] EXCEPT !.kernelTx = k]
      BY <1>0, <2>1 DEF Attach
    <3> HIDE DEF k
    <3> QED BY <2>0, <3>1, <3>2 DEF Entry
  <2>2. CASE ~(txValid /\ q[i].kernelTx = None /\ \E k \in K : WireSeq(k) = q[i].seq)
    <3>1. a[i] = q[i]
      BY <1>0, <2>2 DEF Attach
    <3> QED BY <2>0, <3>1
  <2> QED BY <2>1, <2>2
<1>3. a \in [1 .. Len(q) -> Entry]
  <2>1. a = [i \in 1 .. Len(q) |-> a[i]]
    BY <1>0 DEF Attach
  <2> HIDE DEF a
  <2> QED BY <1>2, <2>1
<1> HIDE DEF a
<1>4. a \in Seq(Entry)
  BY <1>0, <1>3, IsASeq
<1>5. Len(a) = Len(q)
  BY <1>0, <1>1, <1>4, LenProperties
<1> QED BY <1>0, <1>1, <1>2, <1>4, <1>5 DEF SameProbes, a

(* Stores that hold the same probes track the same numbers.                   *)
LEMMA SameProbesFacts ==
  ASSUME NEW a, NEW b, SameProbes(a, b)
  PROVE  /\ Distinct(a) <=> Distinct(b)
         /\ \A s : Tracks(a, s) <=> Tracks(b, s)
BY DEF SameProbes, Distinct, Tracks

(***************************************************************************)
(* The three stores together                                                *)
(***************************************************************************)

(* StoresApart, with the stores as parameters and their types.                *)
StoresOK(p, t, c) ==
  /\ p \in Seq(Entry) /\ t \in Seq(Entry) /\ c \in Seq(Answered)
  /\ Distinct(p) /\ Distinct(t) /\ Distinct(c)
  /\ \A s : ~(Tracks(p, s) /\ Tracks(t, s))
  /\ \A s : ~(Tracks(p, s) /\ Tracks(c, s))
  /\ \A s : ~(Tracks(t, s) /\ Tracks(c, s))
  /\ Len(p) <= MaxPending /\ Len(t) <= MaxPending /\ Len(c) <= MaxPending

(* StoresOK is StoresApart.                                                    *)
LEMMA StoresOKIsStoresApart ==
  ASSUME pending \in Seq(Entry), timedOut \in Seq(Entry), completed \in Seq(Answered)
  PROVE  StoresOK(pending, timedOut, completed) <=> StoresApart
BY ApartByTracks DEF StoresOK, StoresApart

(* Empty stores are fine (a fresh or dropped session).                        *)
LEMMA StoresOKEmpty == StoresOK(<<>>, <<>>, <<>>)
<1>1. /\ <<>> \in Seq(Entry) /\ <<>> \in Seq(Answered) /\ Len(<<>>) = 0
      /\ DOMAIN <<>> = {}
  BY EmptySeq
<1> QED BY <1>1, ConstantsAssumption DEF StoresOK, Distinct, Tracks

(* Draining the error queue preserves the stores.                             *)
LEMMA StoresOKAttach ==
  ASSUME NEW p, NEW t, NEW c, StoresOK(p, t, c), NEW K \in SUBSET Nat
  PROVE  StoresOK(Attach(p, K), AttachTimedOut(p, t, K), c)
<1> DEFINE a == Attach(p, K)
           L == { k \in K : ~Tracks(p, WireSeq(k)) }
           b == Attach(t, L)
<1>1. a \in Seq(Entry) /\ SameProbes(a, p)
  BY AttachFacts DEF StoresOK
<1>2. b \in Seq(Entry) /\ SameProbes(b, t)
  BY AttachFacts DEF StoresOK
<1>3. AttachTimedOut(p, t, K) = b
  BY DEF AttachTimedOut
<1> HIDE DEF a, b
<1>4. Len(a) = Len(p) /\ Len(b) = Len(t)
  BY <1>1, <1>2 DEF SameProbes
<1>5. /\ Distinct(a) <=> Distinct(p)
      /\ \A s : Tracks(a, s) <=> Tracks(p, s)
  BY <1>1, SameProbesFacts
<1>6. /\ Distinct(b) <=> Distinct(t)
      /\ \A s : Tracks(b, s) <=> Tracks(t, s)
  BY <1>2, SameProbesFacts
<1> QED BY <1>1, <1>2, <1>3, <1>4, <1>5, <1>6 DEF StoresOK, a

(* commit_probe_sent preserves the stores.                                    *)
LEMMA StoresOKSend ==
  ASSUME NEW p, NEW t, NEW c, StoresOK(p, t, c), NEW e \in Entry,
         ~Tracks(p, e.seq), Len(p) < MaxPending
  PROVE  StoresOK(Append(p, e), Recycle(t, e.seq), Recycle(c, e.seq))
<1> DEFINE a == Append(p, e)
           u == Recycle(t, e.seq)
           v == Recycle(c, e.seq)
<1>0. Len(p) \in Nat /\ DOMAIN p = 1 .. Len(p)
  BY LenProperties DEF StoresOK
<1>1. /\ a \in Seq(Entry) /\ Len(a) = Len(p) + 1
      /\ \A i \in 1 .. Len(p) : a[i] = p[i]
      /\ a[Len(p) + 1] = e
  BY AppendProperties DEF StoresOK
<1>2. /\ u \in Seq(Entry) /\ Len(u) <= Len(t) /\ Sublist(u, t)
      /\ ~Tracks(u, e.seq)
  BY UnlinkFacts DEF StoresOK, Recycle
<1>3. /\ v \in Seq(Answered) /\ Len(v) <= Len(c) /\ Sublist(v, c)
      /\ ~Tracks(v, e.seq)
  BY UnlinkFacts DEF StoresOK, Recycle
<1> HIDE DEF a, u, v
<1>4. DOMAIN a = 1 .. Len(p) + 1
  BY <1>1, LenProperties
<1>5. Distinct(a)
  BY <1>0, <1>1, <1>4 DEF Distinct, Tracks, StoresOK
<1>6. \A s : Tracks(a, s) => Tracks(p, s) \/ s = e.seq
  BY <1>0, <1>1, <1>4 DEF Tracks
<1>7. /\ Len(u) \in Nat /\ DOMAIN u \subseteq Int /\ Len(t) \in Nat /\ DOMAIN t \subseteq Int
      /\ Len(v) \in Nat /\ DOMAIN v \subseteq Int /\ Len(c) \in Nat /\ DOMAIN c \subseteq Int
  <2>1. t \in Seq(Entry) /\ c \in Seq(Answered)
    BY DEF StoresOK
  <2>2. Len(u) \in Nat /\ DOMAIN u = 1 .. Len(u) /\ Len(t) \in Nat /\ DOMAIN t = 1 .. Len(t)
    BY <1>2, <2>1, LenProperties
  <2>3. Len(v) \in Nat /\ DOMAIN v = 1 .. Len(v) /\ Len(c) \in Nat /\ DOMAIN c = 1 .. Len(c)
    BY <1>3, <2>1, LenProperties
  <2> QED BY <2>2, <2>3
<1>8. Distinct(u) /\ \A s : Tracks(u, s) => Tracks(t, s)
  BY <1>2, <1>7, SublistFacts DEF StoresOK
<1>9. Distinct(v) /\ \A s : Tracks(v, s) => Tracks(c, s)
  BY <1>3, <1>7, SublistFacts DEF StoresOK
<1>10. Len(a) <= MaxPending /\ Len(u) <= MaxPending /\ Len(v) <= MaxPending
  BY <1>0, <1>1, <1>2, <1>3, <1>7, ConstantsAssumption DEF StoresOK
<1> QED
  BY <1>1, <1>2, <1>3, <1>5, <1>6, <1>8, <1>9, <1>10 DEF StoresOK, a, u, v

(* Remembering an answered number that no other store tracks any more.        *)
LEMMA RememberAnswerFacts ==
  ASSUME NEW c \in Seq(Answered), Distinct(c), Len(c) <= MaxPending, NEW e \in Entry
  PROVE  /\ RememberAnswer(c, e) \in Seq(Answered)
         /\ Distinct(RememberAnswer(c, e))
         /\ Len(RememberAnswer(c, e)) <= MaxPending
         /\ \A s : Tracks(RememberAnswer(c, e), s) => Tracks(c, s) \/ s = e.seq
<1> DEFINE a == [seq |-> e.seq, uid |-> e.uid]
<1>1. CASE Tracks(c, e.seq)
  BY <1>1 DEF RememberAnswer
<1>2. CASE ~Tracks(c, e.seq)
  <2>1. a \in Answered /\ a.seq = e.seq
    BY DEF Answered, Entry
  <2>2. RememberAnswer(c, e) = Retain(c, <<a>>)
    BY <1>2 DEF RememberAnswer
  <2> HIDE DEF a
  <2>3. <<a>> \in Seq(Answered) /\ DOMAIN <<a>> = {1} /\ <<a>>[1] = a
    BY <2>1
  <2>4. Distinct(<<a>>) /\ \A s : Tracks(<<a>>, s) <=> s = e.seq
    BY <2>1, <2>3 DEF Distinct, Tracks
  <2>5. Apart(c, <<a>>)
    BY <1>2, <2>4, ApartByTracks
  <2>6. /\ Retain(c, <<a>>) \in Seq(Answered)
        /\ Len(Retain(c, <<a>>)) <= MaxPending
        /\ Distinct(Retain(c, <<a>>))
        /\ \A s : Tracks(Retain(c, <<a>>), s) => Tracks(c, s) \/ Tracks(<<a>>, s)
    BY <2>3, <2>4, <2>5, RetainFacts
  <2> QED BY <2>2, <2>4, <2>6
<1> QED BY <1>1, <1>2

(* A reply that finds its probe moves the number to the completed store.      *)
LEMMA StoresOKAnswer ==
  ASSUME NEW p, NEW t, NEW c, StoresOK(p, t, c), NEW s
  PROVE  /\ Tracks(p, s) =>
              StoresOK(Unlink(p, s), t, RememberAnswer(c, Lookup(p, s)))
         /\ Tracks(t, s) =>
              StoresOK(p, Unlink(t, s), RememberAnswer(c, Lookup(t, s)))
<1>0. p \in Seq(Entry) /\ t \in Seq(Entry) /\ c \in Seq(Answered)
  BY DEF StoresOK
<1>1. ASSUME NEW q \in {p, t}, Tracks(q, s)
      PROVE  /\ Unlink(q, s) \in Seq(Entry)
             /\ Distinct(Unlink(q, s))
             /\ Len(Unlink(q, s)) <= MaxPending
             /\ ~Tracks(Unlink(q, s), s)
             /\ \A r : Tracks(Unlink(q, s), r) => Tracks(q, r)
             /\ RememberAnswer(c, Lookup(q, s)) \in Seq(Answered)
             /\ Distinct(RememberAnswer(c, Lookup(q, s)))
             /\ Len(RememberAnswer(c, Lookup(q, s))) <= MaxPending
             /\ \A r : Tracks(RememberAnswer(c, Lookup(q, s)), r) => Tracks(c, r) \/ r = s
  <2> DEFINE u == Unlink(q, s)
             e == Lookup(q, s)
  <2>1. q \in Seq(Entry) /\ Distinct(q) /\ Len(q) <= MaxPending
    BY DEF StoresOK
  <2>2. Len(q) \in Nat /\ DOMAIN q = 1 .. Len(q)
    BY <2>1, LenProperties
  <2>3. e \in Entry /\ e.seq = s
    BY <1>1, <2>1, <2>2, ElementOfSeq DEF Tracks, Lookup, IndexOf
  <2>4. /\ u \in Seq(Entry) /\ Len(u) <= Len(q) /\ Sublist(u, q) /\ ~Tracks(u, s)
    BY <2>1, UnlinkFacts
  <2> HIDE DEF u, e
  <2>5. Len(u) \in Nat /\ DOMAIN u = 1 .. Len(u)
    BY <2>4, LenProperties
  <2>6. Distinct(u) /\ \A r : Tracks(u, r) => Tracks(q, r)
    <3>1. DOMAIN u \subseteq Int /\ DOMAIN q \subseteq Int
      BY <2>2, <2>5
    <3> QED BY <2>1, <2>4, <3>1, SublistFacts
  <2>7. Len(u) <= MaxPending
    BY <2>1, <2>2, <2>4, <2>5, ConstantsAssumption
  <2>8. /\ RememberAnswer(c, e) \in Seq(Answered)
        /\ Distinct(RememberAnswer(c, e))
        /\ Len(RememberAnswer(c, e)) <= MaxPending
        /\ \A r : Tracks(RememberAnswer(c, e), r) => Tracks(c, r) \/ r = e.seq
    BY <1>0, <2>3, RememberAnswerFacts DEF StoresOK
  <2> QED BY <2>3, <2>4, <2>6, <2>7, <2>8 DEF u, e
<1>2. ASSUME Tracks(p, s)
      PROVE  StoresOK(Unlink(p, s), t, RememberAnswer(c, Lookup(p, s)))
  BY <1>1, <1>2 DEF StoresOK
<1>3. ASSUME Tracks(t, s)
      PROVE  StoresOK(p, Unlink(t, s), RememberAnswer(c, Lookup(t, s)))
  BY <1>1, <1>3 DEF StoresOK
<1> QED BY <1>2, <1>3

(* A timeout pass moves the first k pending probes to the timed-out store.    *)
LEMMA StoresOKDrain ==
  ASSUME NEW p, NEW t, NEW c, StoresOK(p, t, c), NEW k \in 0 .. Len(p)
  PROVE  StoresOK(SubSeq(p, k + 1, Len(p)), Retain(t, SubSeq(p, 1, k)), c)
<1> DEFINE a == SubSeq(p, k + 1, Len(p))
           b == SubSeq(p, 1, k)
<1>0. p \in Seq(Entry) /\ Len(p) \in Nat /\ DOMAIN p = 1 .. Len(p) /\ Distinct(p)
  BY LenProperties DEF StoresOK
<1>1. /\ a \in Seq(Entry) /\ Distinct(a)
      /\ Len(a) = IF k + 1 <= Len(p) THEN Len(p) - (k + 1) + 1 ELSE 0
      /\ \A s : Tracks(a, s) <=> \E i \in k + 1 .. Len(p) : p[i].seq = s
  <2>1. k + 1 \in Nat \ {0} /\ Len(p) \in 0 .. Len(p)
    BY <1>0
  <2> QED BY <1>0, <2>1, PartFacts
<1>2. /\ b \in Seq(Entry) /\ Distinct(b)
      /\ \A s : Tracks(b, s) <=> \E i \in 1 .. k : p[i].seq = s
  <2>1. p \in Seq(Entry) /\ 1 \in Nat \ {0} /\ k \in 0 .. Len(p) /\ Distinct(p)
    BY <1>0
  <2>2. /\ SubSeq(p, 1, k) \in Seq(Entry) /\ Distinct(SubSeq(p, 1, k))
        /\ \A s : Tracks(SubSeq(p, 1, k), s) <=> \E i \in 1 .. k : p[i].seq = s
    BY <2>1, PartFacts, ZenonT(30)
  <2> QED BY <2>2
<1> HIDE DEF a, b
<1>3. \A s : Tracks(a, s) => Tracks(p, s)
  <2>1. k + 1 .. Len(p) \subseteq DOMAIN p
    BY <1>0
  <2> QED BY <1>1, <2>1 DEF Tracks
<1>4. \A s : Tracks(b, s) => Tracks(p, s)
  <2>1. 1 .. k \subseteq DOMAIN p
    BY <1>0
  <2> QED BY <1>2, <2>1 DEF Tracks
<1>5. \A s : ~(Tracks(a, s) /\ Tracks(b, s))
  <2> SUFFICES ASSUME NEW i \in k + 1 .. Len(p), NEW j \in 1 .. k, p[i].seq = p[j].seq
               PROVE  FALSE
    BY <1>1, <1>2
  <2>1. i \in DOMAIN p /\ j \in DOMAIN p /\ i # j
    BY <1>0
  <2> QED BY <1>0, <2>1 DEF Distinct
<1>6. /\ Retain(t, b) \in Seq(Entry)
      /\ Len(Retain(t, b)) <= MaxPending
      /\ Distinct(Retain(t, b))
      /\ \A s : Tracks(Retain(t, b), s) => Tracks(t, s) \/ Tracks(b, s)
  <2>1. Apart(t, b)
    BY <1>4, ApartByTracks DEF StoresOK
  <2> QED BY <1>2, <2>1, RetainFacts DEF StoresOK
<1>7. Len(a) <= MaxPending
  <2>1. MaxPending \in Nat \ {0} /\ Len(p) <= MaxPending
    BY ConstantsAssumption DEF StoresOK
  <2>2. Len(a) = IF k + 1 <= Len(p) THEN Len(p) - (k + 1) + 1 ELSE 0
    BY <1>1
  <2>3. Len(a) <= Len(p) /\ Len(a) \in Nat
    <3>1. CASE k + 1 <= Len(p)
      <4>1. Len(a) = Len(p) - k
        BY <1>0, <2>2, <3>1
      <4> QED BY <1>0, <4>1
    <3>2. CASE ~(k + 1 <= Len(p))
      <4>1. Len(a) = 0
        BY <2>2, <3>2
      <4> QED BY <1>0, <4>1
    <3> QED BY <3>1, <3>2
  <2> QED BY <1>0, <2>1, <2>3
<1> QED BY <1>1, <1>3, <1>4, <1>5, <1>6, <1>7 DEF StoresOK, a, b

(***************************************************************************)
(* The types and the stores are invariant                                   *)
(***************************************************************************)

(* The first inductive invariant.                                             *)
StoreInv == TypeOK /\ StoresApart /\ PreparedIsNext

(* The parts of the type invariant that the stores are not.                   *)
ScalarsOK ==
  /\ state \in MachineStates /\ now \in Nat
  /\ nextSeq \in SeqNos /\ highest \in SeqNos \cup {None}
  /\ packetsSent \in 0 .. MaxSends
  /\ txValid \in BOOLEAN /\ prepared \in SeqNos \cup {None}
  /\ kernelIds \in Nat /\ failures \in Nat
  /\ verdicts \in [Probes -> Seq({"EchoReply", "LateReply", "EchoLoss"})]
  /\ newest \in Probes \cup {None} /\ jumped \in BOOLEAN

(* StoreInv in the shape the steps below establish it.                        *)
LEMMA StoreInvParts ==
  StoreInv <=> ScalarsOK /\ PreparedIsNext /\ StoresOK(pending, timedOut, completed)
BY StoresOKIsStoresApart DEF StoreInv, ScalarsOK, TypeOK, StoresOK

LEMMA StoreInvPartsNext ==
  StoreInv' <=> ScalarsOK' /\ PreparedIsNext'
                /\ StoresOK(pending', timedOut', completed')
<1>1. ASSUME pending' \in Seq(Entry), timedOut' \in Seq(Entry),
             completed' \in Seq(Answered)
      PROVE  StoresOK(pending', timedOut', completed') <=> StoresApart'
  BY <1>1, ApartByTracks DEF StoresOK, StoresApart
<1> QED BY <1>1 DEF StoreInv, ScalarsOK, TypeOK, StoresOK

(* What a drain finds are submission numbers.                                 *)
LEMMA DrainsAreNumbers ==
  ASSUME NEW n \in Nat, NEW K \in Drains(n) PROVE K \in SUBSET Nat
BY DEF Drains

LEMMA WireSeqType == ASSUME NEW u \in Nat PROVE WireSeq(u) \in SeqNos
BY ConstantsAssumption DEF WireSeq, SeqNos

(* Ending the session leaves empty stores and no prepared probe.              *)
LEMMA DropSessionFacts ==
  ASSUME DropSession
  PROVE  /\ StoresOK(pending', timedOut', completed')
         /\ nextSeq' \in SeqNos /\ highest' \in SeqNos \cup {None}
         /\ txValid' \in BOOLEAN /\ prepared' \in SeqNos \cup {None}
         /\ PreparedIsNext'
BY StoresOKEmpty, ConstantsAssumption
   DEF DropSession, ForgetPrepared, SeqNos, PreparedIsNext

(* UpdateHighest keeps highest_received_seq a sequence number.                *)
LEMMA UpdateHighestType ==
  ASSUME NEW h \in SeqNos \cup {None}, NEW s \in SeqNos
  PROVE  UpdateHighest(h, s) \in SeqNos \cup {None}
BY DEF UpdateHighest

(* Settle applies either the given session state or a peer close.             *)
LEMMA SettleFacts ==
  ASSUME ScalarsOK, PreparedIsNext, NEW close, NEW p, NEW t, NEW c, StoresOK(p, t, c),
         NEW h \in SeqNos \cup {None}, Settle(close, p, t, c, h)
  PROVE  /\ StoresOK(pending', timedOut', completed')
         /\ state' \in MachineStates
         /\ nextSeq' \in SeqNos /\ highest' \in SeqNos \cup {None}
         /\ txValid' \in BOOLEAN /\ prepared' \in SeqNos \cup {None}
         /\ PreparedIsNext'
<1>1. CASE close
  BY <1>1, DropSessionFacts DEF Settle, MachineStates
<1>2. CASE ~close
  BY <1>2 DEF Settle, ScalarsOK, PreparedIsNext
<1> QED BY <1>1, <1>2

LEMMA EmitType ==
  ASSUME verdicts \in [Probes -> Seq({"EchoReply", "LateReply", "EchoLoss"})],
         NEW u, NEW v \in {"EchoReply", "LateReply", "EchoLoss"}, Emit(u, v)
  PROVE  verdicts' \in [Probes -> Seq({"EchoReply", "LateReply", "EchoLoss"})]
<1> DEFINE V == Seq({"EchoReply", "LateReply", "EchoLoss"})
<1>1. \A q \in V : Append(q, v) \in V
  BY AppendProperties
<1> HIDE DEF V
<1>2. verdicts \in [Probes -> V] /\ verdicts' = [verdicts EXCEPT ![u] = Append(@, v)]
  BY DEF V, Emit
<1>3. verdicts' \in [Probes -> V]
  BY <1>1, <1>2
<1> QED BY <1>3 DEF V

LEMMA ObserveType ==
  ASSUME ScalarsOK, NEW u \in Probes, Observe(u)
  PROVE  newest' \in Probes \cup {None} /\ jumped' \in BOOLEAN
BY DEF ScalarsOK, Observe

(* Sending, in either outcome, preserves StoreInv.                            *)
LEMMA SendPreservesStoreInv ==
  ASSUME StoreInv, NEW d \in 0 .. MaxSendTime, NEW K \in Drains(kernelIds + 1),
         SendProbe(d, K)
  PROVE  StoreInv'
<1> DEFINE e == FinalizeProbeCommit
           p == Append(pending, e)
           t == Recycle(timedOut, Prepared)
<1>1. ScalarsOK /\ PreparedIsNext /\ StoresOK(pending, timedOut, completed)
  BY StoreInvParts
<1>2. Prepared = nextSeq /\ Prepared \in SeqNos
  BY <1>1 DEF SendProbe, Preflight, ScalarsOK
<1>3. e \in Entry /\ e.seq = Prepared
  BY <1>1, <1>2, ConstantsAssumption DEF FinalizeProbeCommit, Entry, ScalarsOK
<1>4. ~Tracks(pending, e.seq) /\ Len(pending) < MaxPending
  BY <1>3 DEF SendProbe, Preflight, PreflightInsert
<1>5. K \in SUBSET Nat
  BY <1>1, DrainsAreNumbers DEF ScalarsOK
<1>6. /\ pending' = Attach(p, K)
      /\ timedOut' = AttachTimedOut(p, t, K)
      /\ completed' = Recycle(completed, Prepared)
      /\ nextSeq' = Successor(Prepared) /\ packetsSent' = packetsSent + 1
  BY <1>3 DEF SendProbe, CommitProbeSent, CommitInsert
<1> HIDE DEF e
<1>7. StoresOK(p, t, Recycle(completed, Prepared))
  BY <1>1, <1>3, <1>4, StoresOKSend
<1> HIDE DEF p, t
<1>8. StoresOK(pending', timedOut', completed')
  BY <1>5, <1>6, <1>7, StoresOKAttach
<1>9. Successor(Prepared) \in SeqNos
  BY <1>2, ConstantsAssumption DEF Successor, SeqNos
<1>10. ScalarsOK' /\ PreparedIsNext'
  BY <1>1, <1>6, <1>9, ConstantsAssumption
     DEF SendProbe, ScalarsOK, ForgetPrepared, PreparedIsNext
<1> QED BY <1>8, <1>10, StoreInvPartsNext

(* Whatever a reply hits, it preserves StoreInv.                              *)
LEMMA ReceivePreservesStoreInv ==
  ASSUME StoreInv, NEW u \in Probes, NEW close \in BOOLEAN, NEW K \in Drains(kernelIds),
         Receive(u, close, K)
  PROVE  StoreInv'
<1> DEFINE p == Attach(pending, K)
           t == AttachTimedOut(p, timedOut, K)
           s == WireSeq(u)
<1>1. ScalarsOK /\ PreparedIsNext /\ StoresOK(pending, timedOut, completed)
  BY StoreInvParts
<1>2. K \in SUBSET Nat
  BY <1>1, DrainsAreNumbers DEF ScalarsOK
<1>3. s \in SeqNos
  BY ConstantsAssumption, WireSeqType DEF Probes
<1>4. AttachTimedOut(p, timedOut, K) = AttachTimedOut(pending, timedOut, K)
  <2>1. \A r : Tracks(p, r) <=> Tracks(pending, r)
    BY <1>1, <1>2, AttachFacts, SameProbesFacts DEF StoresOK
  <2> QED BY <2>1 DEF AttachTimedOut
<1>5. StoresOK(p, t, completed)
  BY <1>1, <1>2, <1>4, StoresOKAttach
<1>6. \/ ReplyToPending(u, close, p, t) \/ DuplicateReply(u, close, p, t)
      \/ ReplyToTimedOut(u, close, p, t) \/ UntrackedReply(u, close, p, t)
  BY DEF Receive
<1>7. UNCHANGED <<now, packetsSent, kernelIds, failures>>
  BY DEF Receive
<1> HIDE DEF p, t, s
<1>8. highest \in SeqNos \cup {None} /\ UpdateHighest(highest, s) \in SeqNos \cup {None}
  BY <1>1, <1>3, UpdateHighestType DEF ScalarsOK
<1>9. /\ Tracks(p, s) => StoresOK(Unlink(p, s), t, RememberAnswer(completed, Lookup(p, s)))
      /\ Tracks(t, s) => StoresOK(p, Unlink(t, s), RememberAnswer(completed, Lookup(t, s)))
  BY <1>5, StoresOKAnswer
<1> DEFINE Goal ==
      /\ StoresOK(pending', timedOut', completed')
      /\ state' \in MachineStates
      /\ nextSeq' \in SeqNos /\ highest' \in SeqNos \cup {None}
      /\ txValid' \in BOOLEAN /\ prepared' \in SeqNos \cup {None}
      /\ PreparedIsNext'
      /\ verdicts' \in [Probes -> Seq({"EchoReply", "LateReply", "EchoLoss"})]
      /\ newest' \in Probes \cup {None} /\ jumped' \in BOOLEAN
<1>10. ASSUME ReplyToPending(u, close, p, t) PROVE Goal
  <2>1. Settle(close, Unlink(p, s), t, RememberAnswer(completed, Lookup(p, s)),
               UpdateHighest(highest, s))
    BY <1>10 DEF ReplyToPending, s
  <2>2. StoresOK(Unlink(p, s), t, RememberAnswer(completed, Lookup(p, s)))
    BY <1>9, <1>10 DEF ReplyToPending, s
  <2>3. verdicts' \in [Probes -> Seq({"EchoReply", "LateReply", "EchoLoss"})]
    <3>1. PICK v \in {"EchoReply", "LateReply", "EchoLoss"} : Emit(Lookup(p, s).uid, v)
      BY <1>10 DEF ReplyToPending, s
    <3> QED BY <1>1, <3>1, EmitType DEF ScalarsOK
  <2>4. newest' \in Probes \cup {None} /\ jumped' \in BOOLEAN
    BY <1>1, <1>10, ObserveType DEF ReplyToPending
  <2> QED BY <1>1, <1>8, <2>1, <2>2, <2>3, <2>4, SettleFacts
<1>11. ASSUME DuplicateReply(u, close, p, t) PROVE Goal
  <2>1. Settle(close, p, t, completed, UpdateHighest(highest, s))
    BY <1>11 DEF DuplicateReply, s
  <2>2. newest' \in Probes \cup {None} /\ jumped' \in BOOLEAN
    BY <1>1, <1>11, ObserveType DEF DuplicateReply
  <2>3. verdicts' = verdicts
    BY <1>11 DEF DuplicateReply
  <2> QED BY <1>1, <1>5, <1>8, <2>1, <2>2, <2>3, SettleFacts DEF ScalarsOK
<1>12. ASSUME ReplyToTimedOut(u, close, p, t) PROVE Goal
  <2>1. Settle(close, p, Unlink(t, s), RememberAnswer(completed, Lookup(t, s)),
               UpdateHighest(highest, s))
    BY <1>12 DEF ReplyToTimedOut, s
  <2>2. StoresOK(p, Unlink(t, s), RememberAnswer(completed, Lookup(t, s)))
    BY <1>9, <1>12 DEF ReplyToTimedOut, s
  <2>3. verdicts' \in [Probes -> Seq({"EchoReply", "LateReply", "EchoLoss"})]
    <3>1. Emit(Lookup(t, s).uid, "LateReply")
      BY <1>12 DEF ReplyToTimedOut, s
    <3> QED BY <1>1, <3>1, EmitType DEF ScalarsOK
  <2>4. newest' \in Probes \cup {None} /\ jumped' \in BOOLEAN
    BY <1>1, <1>12, ObserveType DEF ReplyToTimedOut
  <2> QED BY <1>1, <1>8, <2>1, <2>2, <2>3, <2>4, SettleFacts
<1>13. ASSUME UntrackedReply(u, close, p, t) PROVE Goal
  <2>1. Settle(close, p, t, completed, highest)
    BY <1>13 DEF UntrackedReply
  <2>2. UNCHANGED <<verdicts, newest, jumped>>
    BY <1>13 DEF UntrackedReply
  <2> QED BY <1>1, <1>5, <1>8, <2>1, <2>2, SettleFacts DEF ScalarsOK
<1>14. Goal
  BY <1>6, <1>10, <1>11, <1>12, <1>13
<1>15. ScalarsOK' /\ PreparedIsNext' /\ StoresOK(pending', timedOut', completed')
  BY <1>1, <1>7, <1>14 DEF ScalarsOK
<1> QED BY <1>15, StoreInvPartsNext

(* A timeout pass preserves StoreInv.                                         *)
LEMMA PollPreservesStoreInv ==
  ASSUME StoreInv, NEW limit, NEW K \in Drains(kernelIds), PollTimeouts(limit, K)
  PROVE  StoreInv'
<1> DEFINE p == Attach(pending, K)
           t == AttachTimedOut(p, timedOut, K)
           V == Seq({"EchoReply", "LateReply", "EchoLoss"})
<1>1. ScalarsOK /\ PreparedIsNext /\ StoresOK(pending, timedOut, completed)
  BY StoreInvParts
<1>2. K \in SUBSET Nat
  BY <1>1, DrainsAreNumbers DEF ScalarsOK
<1>3. SameProbes(p, pending)
  BY <1>1, <1>2, AttachFacts DEF StoresOK
<1>4. AttachTimedOut(p, timedOut, K) = AttachTimedOut(pending, timedOut, K)
  <2>1. \A r : Tracks(p, r) <=> Tracks(pending, r)
    BY <1>3, SameProbesFacts
  <2> QED BY <2>1 DEF AttachTimedOut
<1>5. StoresOK(p, t, completed)
  BY <1>1, <1>2, <1>4, StoresOKAttach
<1>6. PICK k \in 0 .. Len(pending) :
        /\ pending' = SubSeq(p, k + 1, Len(p))
        /\ timedOut' = Retain(t, SubSeq(p, 1, k))
        /\ verdicts' = [u \in Probes |->
                          IF \E i \in 1 .. k : p[i].uid = u
                          THEN Append(verdicts[u], "EchoLoss") ELSE verdicts[u]]
  BY DEF PollTimeouts
<1>7. completed' = completed
  BY DEF PollTimeouts
<1>8. k \in 0 .. Len(p)
  BY <1>3, <1>6 DEF SameProbes
<1> HIDE DEF p, t
<1>9. StoresOK(pending', timedOut', completed')
  BY <1>5, <1>6, <1>7, <1>8, StoresOKDrain
<1>10. verdicts' \in [Probes -> V]
  <2>1. \A q \in V : Append(q, "EchoLoss") \in V
    BY AppendProperties
  <2>2. verdicts \in [Probes -> V]
    BY <1>1 DEF ScalarsOK
  <2> HIDE DEF V
  <2> QED BY <1>6, <2>1, <2>2
<1>11. ScalarsOK' /\ PreparedIsNext'
  BY <1>1, <1>10 DEF PollTimeouts, ScalarsOK, PreparedIsNext
<1> QED BY <1>9, <1>11, StoreInvPartsNext

(* The remaining operations preserve StoreInv.                                *)
LEMMA OthersPreserveStoreInv ==
  ASSUME StoreInv,
         \/ AcceptOpen \/ LocalClose \/ PrepareProbe \/ DiscardPreparedProbe
         \/ \E consumed \in {0, 1} : SendFails(consumed)
         \/ \E K \in Drains(kernelIds) : DropDatagram(K)
         \/ Tick \/ UNCHANGED vars
  PROVE  StoreInv'
<1>1. ScalarsOK /\ PreparedIsNext /\ StoresOK(pending, timedOut, completed)
  BY StoreInvParts
<1>2. CASE AcceptOpen
  BY <1>1, <1>2, StoreInvPartsNext DEF AcceptOpen, ScalarsOK, MachineStates, PreparedIsNext
<1>3. CASE LocalClose
  <2>1. DropSession
    BY <1>3 DEF LocalClose
  <2> QED BY <1>1, <1>3, <2>1, DropSessionFacts, StoreInvPartsNext
          DEF LocalClose, ScalarsOK, MachineStates
<1>4. CASE PrepareProbe
  BY <1>1, <1>4, StoreInvPartsNext DEF PrepareProbe, ScalarsOK, PreparedIsNext
<1>5. CASE DiscardPreparedProbe
  BY <1>1, <1>5, StoreInvPartsNext
     DEF DiscardPreparedProbe, ForgetPrepared, ScalarsOK, PreparedIsNext
<1>6. ASSUME NEW consumed \in {0, 1}, SendFails(consumed) PROVE StoreInv'
  <2>1. prepared' = nextSeq /\ nextSeq \in SeqNos
    BY <1>1, <1>6 DEF SendFails, Preflight, ScalarsOK
  <2>2. kernelIds' \in Nat /\ failures' \in Nat
    BY <1>1, <1>6 DEF SendFails, ScalarsOK
  <2>3. ScalarsOK' /\ PreparedIsNext'
    BY <1>1, <1>6, <2>1, <2>2
       DEF SendFails, InvalidateKernelTxCorrelation, ScalarsOK, PreparedIsNext
  <2>4. StoresOK(pending', timedOut', completed')
    BY <1>1, <1>6 DEF SendFails
  <2> QED BY <2>3, <2>4, StoreInvPartsNext
<1>7. ASSUME NEW K \in Drains(kernelIds), DropDatagram(K) PROVE StoreInv'
  <2>1. K \in SUBSET Nat
    BY <1>1, DrainsAreNumbers DEF ScalarsOK
  <2>2. StoresOK(pending', timedOut', completed')
    BY <1>1, <1>7, <2>1, StoresOKAttach DEF DropDatagram
  <2>3. ScalarsOK' /\ PreparedIsNext'
    BY <1>1, <1>7 DEF DropDatagram, ScalarsOK, PreparedIsNext
  <2> QED BY <2>2, <2>3, StoreInvPartsNext
<1>8. CASE Tick
  BY <1>1, <1>8, StoreInvPartsNext DEF Tick, ScalarsOK, PreparedIsNext
<1>9. CASE UNCHANGED vars
  BY <1>1, <1>9, StoreInvPartsNext DEF vars, ScalarsOK, PreparedIsNext
<1> QED BY <1>2, <1>3, <1>4, <1>5, <1>6, <1>7, <1>8, <1>9

(* In every reachable state of the session the fields have their types, the   *)
(* stores are apart and bounded, and the prepared probe is the next one.      *)
THEOREM StoreInvariant == Spec => []StoreInv
<1>1. Init => StoreInv
  <2> SUFFICES ASSUME Init PROVE StoreInv
    OBVIOUS
  <2>1. ScalarsOK /\ PreparedIsNext
    <3>1. <<>> \in Seq({"EchoReply", "LateReply", "EchoLoss"})
      BY EmptySeq
    <3>2. verdicts \in [Probes -> Seq({"EchoReply", "LateReply", "EchoLoss"})]
      BY <3>1 DEF Init
    <3>3. 0 \in SeqNos /\ 0 \in 0 .. MaxSends
      BY ConstantsAssumption DEF SeqNos
    <3> QED BY <3>2, <3>3 DEF Init, ScalarsOK, MachineStates, PreparedIsNext
  <2>2. StoresOK(pending, timedOut, completed)
    BY StoresOKEmpty DEF Init
  <2> QED BY <2>1, <2>2, StoreInvParts
<1>2. StoreInv /\ [Next]_vars => StoreInv'
  BY SendPreservesStoreInv, ReceivePreservesStoreInv, PollPreservesStoreInv,
     OthersPreserveStoreInv DEF Next
<1> QED BY <1>1, <1>2, PTL DEF Spec

(* The session's fields always have the types machine.rs gives them.          *)
THEOREM TypeCorrect == Spec => []TypeOK
BY StoreInvariant, PTL DEF StoreInv

(* A sequence number is always in at most one of the bounded stores.          *)
THEOREM StoresAlwaysApart == Spec => []StoresApart
BY StoreInvariant, PTL DEF StoreInv

(* StalePreparedProbe is never returned.                                      *)
THEOREM PreparedNeverStale == Spec => []PreparedIsNext
BY StoreInvariant, PTL DEF StoreInv


(***************************************************************************)
(* Stores as sets of probes                                                 *)
(***************************************************************************)

Members(q) == { q[i] : i \in DOMAIN q }

LEMMA MembersWithin ==
  ASSUME NEW q, NEW S, \A i \in DOMAIN q : q[i] \in S
  PROVE  Members(q) \subseteq S
BY DEF Members

(* A reply or a deadline takes the one entry of a number out of a store.      *)
LEMMA MembersUnlink ==
  ASSUME NEW T, NEW q \in Seq(T), NEW s, Distinct(q)
  PROVE  Members(Unlink(q, s)) = { e \in Members(q) : e.seq # s }
<1>0. Len(q) \in Nat /\ DOMAIN q = 1 .. Len(q)
  BY LenProperties
<1>1. CASE ~Tracks(q, s)
  <2>1. Unlink(q, s) = q
    BY <1>1 DEF Unlink
  <2> QED BY <1>1, <2>1 DEF Members, Tracks
<1>2. CASE Tracks(q, s)
  <2> DEFINE x == IndexOf(q, s)
             r == RemoveAt(q, x)
  <2>1. x \in 1 .. Len(q) /\ q[x].seq = s
    BY <1>0, <1>2 DEF Tracks, IndexOf
  <2>2. Unlink(q, s) = r
    BY <1>2 DEF Unlink
  <2> HIDE DEF x
  <2>3. /\ r \in Seq(T)
        /\ Len(r) = Len(q) - 1
        /\ \A j \in 1 .. Len(q) - 1 : r[j] = q[IF j < x THEN j ELSE j + 1]
    BY <2>1, RemoveAtFacts
  <2> HIDE DEF r
  <2>4. DOMAIN r = 1 .. Len(q) - 1
    BY <1>0, <2>3, LenProperties
  <2>5. \A i \in DOMAIN q : q[i].seq = s => i = x
    BY <1>0, <2>1 DEF Distinct
  <2>6. ASSUME NEW j \in DOMAIN r PROVE r[j] \in Members(q) /\ r[j].seq # s
    <3>1. CASE j < x
      <4>1. j \in DOMAIN q /\ j # x /\ r[j] = q[j]
        BY <1>0, <2>1, <2>3, <2>4, <3>1
      <4> QED BY <2>5, <4>1 DEF Members
    <3>2. CASE ~(j < x)
      <4>1. j + 1 \in DOMAIN q /\ j + 1 # x /\ r[j] = q[j + 1]
        BY <1>0, <2>1, <2>3, <2>4, <3>2
      <4> QED BY <2>5, <4>1 DEF Members
    <3> QED BY <3>1, <3>2
  <2>7. ASSUME NEW i \in DOMAIN q, q[i].seq # s PROVE q[i] \in Members(r)
    <3>1. CASE i < x
      <4>1. i \in DOMAIN r /\ r[i] = q[i]
        BY <1>0, <2>1, <2>3, <2>4, <3>1
      <4> QED BY <4>1 DEF Members
    <3>2. CASE i > x
      <4>1. i - 1 \in DOMAIN r /\ r[i - 1] = q[i]
        BY <1>0, <2>1, <2>3, <2>4, <3>2
      <4> QED BY <4>1 DEF Members
    <3>3. i # x
      BY <2>1, <2>7
    <3> QED BY <1>0, <2>1, <3>1, <3>2, <3>3
  <2>8. Members(r) \subseteq { e \in Members(q) : e.seq # s }
    BY <2>6 DEF Members
  <2>9. { e \in Members(q) : e.seq # s } \subseteq Members(r)
    BY <2>7 DEF Members
  <2> QED BY <2>2, <2>8, <2>9
<1> QED BY <1>1, <1>2

(* A store of bounded size keeps some of what it held and was given.          *)
LEMMA MembersRetain ==
  ASSUME NEW T, NEW q \in Seq(T), NEW n \in Seq(T)
  PROVE  Members(Retain(q, n)) \subseteq Members(q) \cup Members(n)
<1> DEFINE all == q \o n
<1>0. /\ Len(q) \in Nat /\ DOMAIN q = 1 .. Len(q)
      /\ Len(n) \in Nat /\ DOMAIN n = 1 .. Len(n)
  BY LenProperties
<1>1. /\ all \in Seq(T)
      /\ Len(all) = Len(q) + Len(n)
      /\ \A i \in 1 .. Len(q) + Len(n) :
           all[i] = IF i <= Len(q) THEN q[i] ELSE n[i - Len(q)]
  BY ConcatProperties
<1> HIDE DEF all
<1>2. DOMAIN all = 1 .. Len(q) + Len(n)
  BY <1>1, LenProperties
<1>3. ASSUME NEW i \in DOMAIN all PROVE all[i] \in Members(q) \cup Members(n)
  <2>1. CASE i <= Len(q)
    BY <1>0, <1>1, <1>2, <2>1 DEF Members
  <2>2. CASE i > Len(q)
    <3>1. i - Len(q) \in DOMAIN n /\ all[i] = n[i - Len(q)]
      BY <1>0, <1>1, <1>2, <2>2
    <3> QED BY <3>1 DEF Members
  <2> QED BY <1>0, <1>2, <2>1, <2>2
<1>4. CASE Len(all) <= MaxPending
  <2>1. Retain(q, n) = all
    BY <1>4 DEF Retain, all
  <2> QED BY <1>3, <2>1, MembersWithin
<1>5. CASE ~(Len(all) <= MaxPending)
  <2> DEFINE m == Len(all) - MaxPending + 1
             z == SubSeq(all, m, Len(all))
  <2>1. Retain(q, n) = z
    BY <1>5 DEF Retain, all
  <2>2. m \in Nat \ {0} /\ m <= Len(all) /\ Len(all) \in Nat
    BY <1>0, <1>1, <1>5, ConstantsAssumption
  <2>3. \A i \in m .. Len(all) : all[i] \in T
    BY <1>1, <1>2, <2>2, ElementOfSeq
  <2> HIDE DEF m
  <2>4. /\ z \in Seq(T)
        /\ Len(z) = IF m <= Len(all) THEN Len(all) - m + 1 ELSE 0
        /\ \A i \in 1 .. Len(all) - m + 1 : z[i] = all[m + i - 1]
    BY <2>2, <2>3, SubSeqProperties
  <2> HIDE DEF z
  <2>5. DOMAIN z = 1 .. Len(all) - m + 1
    BY <2>2, <2>4, LenProperties
  <2>6. ASSUME NEW i \in DOMAIN z PROVE z[i] \in Members(q) \cup Members(n)
    <3>1. m + i - 1 \in DOMAIN all
      BY <1>0, <1>1, <1>2, <2>2, <2>5
    <3>2. z[i] = all[m + i - 1]
      BY <2>4, <2>5
    <3> QED BY <1>3, <3>1, <3>2
  <2>7. Members(z) \subseteq Members(q) \cup Members(n)
    BY <2>6, MembersWithin
  <2> QED BY <2>1, <2>7
<1> QED BY <1>4, <1>5

(* Appending adds one member.                                                 *)
LEMMA MembersAppend ==
  ASSUME NEW T, NEW q \in Seq(T), NEW e \in T
  PROVE  Members(Append(q, e)) = Members(q) \cup {e}
<1>0. Len(q) \in Nat /\ DOMAIN q = 1 .. Len(q)
  BY LenProperties
<1> DEFINE a == Append(q, e)
<1>1. /\ a \in Seq(T) /\ Len(a) = Len(q) + 1
      /\ \A i \in 1 .. Len(q) : a[i] = q[i]
      /\ a[Len(q) + 1] = e
  BY AppendProperties
<1> HIDE DEF a
<1>2. DOMAIN a = 1 .. Len(q) + 1
  BY <1>1, LenProperties
<1>3. Members(a) = Members(q) \cup {e}
  BY <1>0, <1>1, <1>2 DEF Members
<1> QED BY <1>3 DEF a

(* Splitting a store at k.                                                    *)
LEMMA MembersSplit ==
  ASSUME NEW T, NEW q \in Seq(T), Distinct(q), NEW k \in 0 .. Len(q)
  PROVE  /\ Members(SubSeq(q, 1, k)) = { q[i] : i \in 1 .. k }
         /\ Members(SubSeq(q, k + 1, Len(q))) = { q[i] : i \in k + 1 .. Len(q) }
<1>0. Len(q) \in Nat /\ DOMAIN q = 1 .. Len(q)
  BY LenProperties
<1>1. ASSUME NEW m \in Nat \ {0}, NEW n \in 0 .. Len(q), m <= n + 1
      PROVE  Members(SubSeq(q, m, n)) = { q[i] : i \in m .. n }
  <2> DEFINE a == SubSeq(q, m, n)
  <2>1. /\ a \in Seq(T)
        /\ Len(a) = IF m <= n THEN n - m + 1 ELSE 0
        /\ \A i \in 1 .. n - m + 1 : a[i] = q[m + i - 1]
    BY PartFacts, ZenonT(30)
  <2> HIDE DEF a
  <2>2. DOMAIN a = 1 .. n - m + 1
    BY <1>0, <1>1, <2>1, LenProperties
  <2>3. ASSUME NEW i \in DOMAIN a PROVE a[i] \in { q[j] : j \in m .. n }
    <3>1. m + i - 1 \in m .. n
      BY <1>0, <2>2
    <3>2. a[i] = q[m + i - 1]
      BY <2>1, <2>2
    <3> QED BY <3>1, <3>2
  <2>4. ASSUME NEW j \in m .. n PROVE q[j] \in Members(a)
    <3>1. j - m + 1 \in DOMAIN a /\ m + (j - m + 1) - 1 = j
      BY <1>0, <2>2
    <3>2. a[j - m + 1] = q[j]
      BY <2>1, <2>2, <3>1
    <3> QED BY <3>1, <3>2 DEF Members
  <2>5. Members(a) \subseteq { q[j] : j \in m .. n }
    BY <2>3, MembersWithin
  <2>6. { q[j] : j \in m .. n } \subseteq Members(a)
    BY <2>4
  <2> QED BY <2>5, <2>6 DEF a
<1>2. 1 \in Nat \ {0} /\ k \in 0 .. Len(q) /\ 1 <= k + 1
  BY <1>0
<1>3. k + 1 \in Nat \ {0} /\ Len(q) \in 0 .. Len(q) /\ k + 1 <= Len(q) + 1
  BY <1>0
<1> QED BY <1>1, <1>2, <1>3

(* A drain of the error queue leaves a probe as it was, or gives it one of    *)
(* the stamps that carry its number while correlation is trusted.             *)
Stamped(e, old, K) ==
  /\ e.seq = old.seq /\ e.uid = old.uid /\ e.timeoutAt = old.timeoutAt
  /\ e.submission = old.submission
  /\ \/ e.kernelTx = old.kernelTx
     \/ txValid /\ e.kernelTx \in K /\ WireSeq(e.kernelTx) = e.seq

LEMMA AttachStamped ==
  ASSUME NEW q \in Seq(Entry), NEW K \in SUBSET Nat
  PROVE  /\ DOMAIN Attach(q, K) = DOMAIN q
         /\ \A i \in DOMAIN q : Stamped(Attach(q, K)[i], q[i], K)
<1> DEFINE a == Attach(q, K)
<1>0. Len(q) \in Nat /\ DOMAIN q = 1 .. Len(q)
  BY LenProperties
<1>1. DOMAIN a = DOMAIN q
  BY DEF Attach
<1>2. ASSUME NEW i \in DOMAIN q PROVE Stamped(a[i], q[i], K)
  <2>0. q[i] \in Entry
    BY ElementOfSeq
  <2>1. CASE txValid /\ q[i].kernelTx = None /\ \E k \in K : WireSeq(k) = q[i].seq
    <3> DEFINE k == CHOOSE k \in K : WireSeq(k) = q[i].seq
    <3>1. k \in K /\ WireSeq(k) = q[i].seq
      BY <2>1
    <3>2. a[i] = [q[i] EXCEPT !.kernelTx = k]
      BY <2>1 DEF Attach
    <3> HIDE DEF k
    <3> QED BY <2>0, <2>1, <3>1, <3>2 DEF Entry, Stamped
  <2>2. CASE ~(txValid /\ q[i].kernelTx = None /\ \E k \in K : WireSeq(k) = q[i].seq)
    <3>1. a[i] = q[i]
      BY <2>2 DEF Attach
    <3> QED BY <3>1 DEF Stamped
  <2> QED BY <2>1, <2>2
<1> QED BY <1>1, <1>2

(***************************************************************************)
(* Sequence numbers less than a cycle apart                                 *)
(***************************************************************************)

(* Residues are unique.                                                        *)
LEMMA ModUnique ==
  ASSUME NEW m \in Nat \ {0}, NEW q \in Int, NEW r \in 0 .. m - 1, NEW x \in Int,
         x = m * q + r
  PROVE  x % m = r
<1> DEFINE k == x \div m
           s == x % m
<1>1. k \in Int /\ s \in 0 .. m - 1 /\ x = m * k + s
  OBVIOUS
<1> HIDE DEF k, s
<1>2. m * (k - q) = r - s
  BY <1>1
<1>3. k - q < 1
  <2>1. CASE k - q >= 1
    <3>1. m * (k - q) >= m
      BY <1>1, <2>1
    <3> QED BY <1>1, <1>2, <3>1
  <2> QED BY <1>1, <2>1
<1>4. k - q > -1
  <2>1. CASE k - q <= -1
    <3>1. m * (k - q) <= -m
      BY <1>1, <2>1
    <3> QED BY <1>1, <1>2, <3>1
  <2> QED BY <1>1, <2>1
<1>5. k = q
  BY <1>1, <1>3, <1>4
<1> QED BY <1>1, <1>5 DEF s

(* The distance of two probes less than a cycle apart, from their numbers.    *)
LEMMA SeqDistance ==
  ASSUME NEW u \in Nat, NEW v \in Nat, u - v < SeqSpace, v - u < SeqSpace
  PROVE  (WireSeq(u) - WireSeq(v)) % SeqSpace = IF u >= v THEN u - v ELSE u - v + SeqSpace
<1> DEFINE x == u % SeqSpace
           y == v % SeqSpace
           i == u \div SeqSpace
           j == v \div SeqSpace
           r == IF u >= v THEN u - v ELSE u - v + SeqSpace
           q == IF u >= v THEN j - i ELSE j - i - 1
           z == x - y
<1>1. SeqSpace \in Nat \ {0}
  BY ConstantsAssumption
<1>2. x \in 0 .. SeqSpace - 1 /\ y \in 0 .. SeqSpace - 1 /\ i \in Int /\ j \in Int
      /\ u = SeqSpace * i + x /\ v = SeqSpace * j + y
  BY <1>1
<1> HIDE DEF x, y, i, j
<1>3. r \in 0 .. SeqSpace - 1 /\ q \in Int /\ z \in Int
  BY <1>1, <1>2
<1>4. z = SeqSpace * q + r
  <2>1. CASE u >= v
    BY <1>1, <1>2, <2>1
  <2>2. CASE ~(u >= v)
    BY <1>1, <1>2, <2>2
  <2> QED BY <2>1, <2>2
<1> HIDE DEF z, q, r
<1>5. z % SeqSpace = r
  BY <1>1, <1>3, <1>4, ModUnique
<1> QED BY <1>5, Zenon DEF WireSeq, x, y, z, r

(* Probes of one number less than a cycle apart are the same probe.           *)
LEMMA SameSeq ==
  ASSUME NEW u \in Nat, NEW v \in Nat, u - v < SeqSpace, v - u < SeqSpace,
         WireSeq(u) = WireSeq(v)
  PROVE  u = v
<1>1. SeqSpace \in Nat \ {0} /\ WireSeq(u) \in Int /\ WireSeq(v) \in Int
  BY ConstantsAssumption, WireSeqType DEF SeqNos
<1>2. (WireSeq(u) - WireSeq(v)) % SeqSpace = 0
  BY <1>1
<1> QED BY <1>1, <1>2, SeqDistance

(* A cycle later the number is used again.                                    *)
LEMMA SeqCycle ==
  ASSUME NEW u \in Nat
  PROVE  /\ WireSeq(u + SeqSpace) = WireSeq(u)
         /\ Successor(WireSeq(u)) = WireSeq(u + 1)
<1> DEFINE x == u % SeqSpace
           i == u \div SeqSpace
<1>1. SeqSpace \in Nat \ {0} /\ SeqSpace >= 2
  BY ConstantsAssumption
<1>2. x \in 0 .. SeqSpace - 1 /\ i \in Int /\ u = SeqSpace * i + x
  BY <1>1
<1> HIDE DEF x, i
<1>3. (u + SeqSpace) % SeqSpace = x
  <2>1. u + SeqSpace = SeqSpace * (i + 1) + x /\ i + 1 \in Int /\ u + SeqSpace \in Int
    BY <1>1, <1>2
  <2> QED BY <1>1, <1>2, <2>1, ModUnique
<1>4. (u + 1) % SeqSpace = (x + 1) % SeqSpace
  <2>1. CASE x + 1 < SeqSpace
    <3>1. u + 1 = SeqSpace * i + (x + 1) /\ x + 1 \in 0 .. SeqSpace - 1 /\ u + 1 \in Int
      BY <1>1, <1>2, <2>1
    <3>2. (u + 1) % SeqSpace = x + 1
      BY <1>1, <1>2, <3>1, ModUnique
    <3>3. x + 1 = SeqSpace * 0 + (x + 1)
      BY <1>1, <1>2
    <3>4. (x + 1) % SeqSpace = x + 1
      BY <1>1, <3>1, <3>3, ModUnique
    <3> QED BY <3>2, <3>4
  <2>2. CASE ~(x + 1 < SeqSpace)
    <3>1. u + 1 = SeqSpace * (i + 1) + 0 /\ 0 \in 0 .. SeqSpace - 1 /\ u + 1 \in Int
          /\ i + 1 \in Int
      BY <1>1, <1>2, <2>2
    <3>2. (u + 1) % SeqSpace = 0
      BY <1>1, <3>1, ModUnique
    <3>3. x + 1 = SeqSpace * 1 + 0 /\ x + 1 \in Int
      BY <1>1, <1>2, <2>2
    <3>4. (x + 1) % SeqSpace = 0
      BY <1>1, <3>1, <3>3, ModUnique
    <3> QED BY <3>2, <3>4
  <2> QED BY <2>1, <2>2
<1> QED BY <1>3, <1>4 DEF WireSeq, Successor, x

(***************************************************************************)
(* Every entry belongs to the probe it names                                *)
(***************************************************************************)

(* e is the newest use of its number after n probes were sent.                *)
Genuine(e, n) ==
  e.uid \in 0 .. n - 1 /\ n - e.uid <= SeqSpace /\ e.seq = WireSeq(e.uid)

(* The kernel's number of e's datagram is e's own while correlation is        *)
(* trusted, and e carries no other stamp.                                     *)
Vouched(e, valid) ==
  e.kernelTx \in {None, e.submission} /\ (valid => e.submission = e.uid)

OriginOK(p, t, c, n, valid) ==
  /\ \A e \in Members(p) \cup Members(t) : Genuine(e, n) /\ Vouched(e, valid)
  /\ \A e \in Members(c) : Genuine(e, n)

Live == state \in {"Connected", "Open"}

(* The second inductive invariant: what a number can refer to.                *)
OriginInv ==
  /\ Live => nextSeq = WireSeq(packetsSent) /\ (txValid => kernelIds = packetsSent)
  /\ OriginOK(pending, timedOut, completed, packetsSent, txValid)

(* Members are typed.                                                          *)
LEMMA MemberType ==
  ASSUME NEW T, NEW q \in Seq(T)
  PROVE  \A e \in Members(q) : e \in T
BY ElementOfSeq, LenProperties DEF Members

(* Every member of a drained store stems from a member of the store, and every *)
(* member of the store has its image.                                          *)
LEMMA MembersAttach ==
  ASSUME NEW q \in Seq(Entry), NEW K \in SUBSET Nat
  PROVE  /\ \A e \in Members(Attach(q, K)) : \E o \in Members(q) : Stamped(e, o, K)
         /\ \A o \in Members(q) : \E e \in Members(Attach(q, K)) : Stamped(e, o, K)
<1> DEFINE a == Attach(q, K)
<1>1. DOMAIN a = DOMAIN q /\ \A i \in DOMAIN q : Stamped(a[i], q[i], K)
  BY AttachStamped
<1> HIDE DEF a
<1>2. /\ \A e \in Members(a) : \E o \in Members(q) : Stamped(e, o, K)
      /\ \A o \in Members(q) : \E e \in Members(a) : Stamped(e, o, K)
  BY <1>1 DEF Members
<1> QED BY <1>2 DEF a

(* A stamp within its lifetime that carries the number of an entry is the     *)
(* entry's own.                                                                *)
LEMMA StampedGenuine ==
  ASSUME NEW n \in Nat, NEW K \in SUBSET Nat, NEW o \in Entry, NEW e, Stamped(e, o, K),
         Genuine(o, n), Vouched(o, txValid),
         txValid => \A k \in K : k < n /\ n - k <= SeqSpace
  PROVE  Genuine(e, n) /\ Vouched(e, txValid)
<1>1. Genuine(e, n)
  BY DEF Stamped, Genuine
<1>2. e.submission = o.submission /\ e.uid = o.uid /\ (txValid => e.submission = e.uid)
  BY DEF Stamped, Vouched
<1>3. CASE e.kernelTx = o.kernelTx
  BY <1>1, <1>2, <1>3 DEF Vouched
<1>4. CASE txValid /\ e.kernelTx \in K /\ WireSeq(e.kernelTx) = e.seq
  <2> DEFINE k == e.kernelTx
             u == e.uid
  <2>1. k \in Nat /\ k < n /\ n - k <= SeqSpace /\ WireSeq(k) = e.seq
    BY <1>4
  <2>2. u \in Nat /\ u < n /\ n - u <= SeqSpace /\ WireSeq(u) = e.seq
    BY <1>1 DEF Genuine
  <2> HIDE DEF k, u
  <2>3. SeqSpace \in Nat
    BY ConstantsAssumption
  <2>4. k - u < SeqSpace /\ u - k < SeqSpace /\ WireSeq(k) = WireSeq(u)
    BY <2>1, <2>2, <2>3
  <2>5. k = u
    BY <2>1, <2>2, <2>4, SameSeq
  <2>6. e.kernelTx = e.submission
    BY <1>2, <1>4, <2>5 DEF k, u
  <2> QED BY <1>1, <1>2, <2>6 DEF Vouched
<1> QED BY <1>3, <1>4 DEF Stamped

(* Draining the error queue.                                                  *)
LEMMA OriginOKAttach ==
  ASSUME NEW n \in Nat, NEW p \in Seq(Entry), NEW t \in Seq(Entry), NEW c,
         OriginOK(p, t, c, n, txValid), NEW K \in SUBSET Nat,
         txValid => \A k \in K : k < n /\ n - k <= SeqSpace
  PROVE  OriginOK(Attach(p, K), AttachTimedOut(p, t, K), c, n, txValid)
<1>1. ASSUME NEW q \in Seq(Entry), NEW L \in SUBSET K,
             \A e \in Members(q) : Genuine(e, n) /\ Vouched(e, txValid)
      PROVE  \A e \in Members(Attach(q, L)) : Genuine(e, n) /\ Vouched(e, txValid)
  <2> SUFFICES ASSUME NEW e \in Members(Attach(q, L))
               PROVE  Genuine(e, n) /\ Vouched(e, txValid)
    OBVIOUS
  <2>1. PICK o \in Members(q) : Stamped(e, o, L)
    BY MembersAttach
  <2>2. o \in Entry
    BY MemberType
  <2>3. Genuine(o, n) /\ Vouched(o, txValid)
    BY <1>1
  <2>4. L \in SUBSET Nat /\ (txValid => \A k \in L : k < n /\ n - k <= SeqSpace)
    OBVIOUS
  <2> QED BY <2>1, <2>2, <2>3, <2>4, StampedGenuine
<1>2. \A e \in Members(Attach(p, K)) : Genuine(e, n) /\ Vouched(e, txValid)
  BY <1>1 DEF OriginOK
<1>3. \A e \in Members(AttachTimedOut(p, t, K)) : Genuine(e, n) /\ Vouched(e, txValid)
  <2> DEFINE L == { k \in K : ~Tracks(p, WireSeq(k)) }
  <2>1. L \in SUBSET K
    OBVIOUS
  <2>2. \A e \in Members(Attach(t, L)) : Genuine(e, n) /\ Vouched(e, txValid)
    BY <1>1, <2>1 DEF OriginOK
  <2> QED BY <2>2 DEF AttachTimedOut
<1> QED BY <1>2, <1>3 DEF OriginOK

(* An entry of another number than the next probe's is still the newest use   *)
(* of its own after that probe.                                                *)
LEMMA GenuineLater ==
  ASSUME NEW n \in Nat, NEW e, Genuine(e, n), e.seq # WireSeq(n)
  PROVE  Genuine(e, n + 1)
<1>1. e.uid \in Nat /\ SeqSpace \in Nat
  BY ConstantsAssumption DEF Genuine
<1>2. n # e.uid + SeqSpace
  BY <1>1, SeqCycle DEF Genuine
<1> QED BY <1>1, <1>2 DEF Genuine

(* commit_probe_sent.                                                         *)
LEMMA OriginOKSend ==
  ASSUME NEW n \in Nat, NEW valid, NEW p, NEW t, NEW c, StoresOK(p, t, c),
         OriginOK(p, t, c, n, valid), NEW e \in Entry, ~Tracks(p, e.seq),
         e.uid = n, e.seq = WireSeq(n), e.kernelTx = None, valid => e.submission = n
  PROVE  OriginOK(Append(p, e), Recycle(t, e.seq), Recycle(c, e.seq), n + 1, valid)
<1>1. Members(Append(p, e)) = Members(p) \cup {e}
  BY MembersAppend DEF StoresOK
<1>2. Members(Recycle(t, e.seq)) = { o \in Members(t) : o.seq # e.seq }
  BY MembersUnlink DEF StoresOK, Recycle
<1>3. Members(Recycle(c, e.seq)) = { o \in Members(c) : o.seq # e.seq }
  BY MembersUnlink DEF StoresOK, Recycle
<1>4. \A o \in Members(p) : o.seq # e.seq
  BY DEF Tracks, Members
<1>5. Genuine(e, n + 1) /\ Vouched(e, valid)
  BY ConstantsAssumption DEF Genuine, Vouched
<1> QED BY <1>1, <1>2, <1>3, <1>4, <1>5, GenuineLater DEF OriginOK

(* What is remembered of an answered probe.                                   *)
LEMMA MembersRemember ==
  ASSUME NEW c \in Seq(Answered), NEW e \in Entry
  PROVE  Members(RememberAnswer(c, e)) \subseteq Members(c) \cup {[seq |-> e.seq, uid |-> e.uid]}
<1> DEFINE a == [seq |-> e.seq, uid |-> e.uid]
<1>1. CASE Tracks(c, e.seq)
  BY <1>1 DEF RememberAnswer
<1>2. CASE ~Tracks(c, e.seq)
  <2>1. RememberAnswer(c, e) = Retain(c, <<a>>)
    BY <1>2 DEF RememberAnswer
  <2>2. a \in Answered
    BY DEF Answered, Entry
  <2> HIDE DEF a
  <2>3. <<a>> \in Seq(Answered) /\ Members(<<a>>) = {a}
    BY <2>2 DEF Members
  <2>4. Members(Retain(c, <<a>>)) \subseteq Members(c) \cup {a}
    BY <2>3, MembersRetain
  <2> QED BY <2>1, <2>4 DEF a
<1> QED BY <1>1, <1>2

(* The entry a store tracks for a number.                                     *)
LEMMA LookupFacts ==
  ASSUME NEW T, NEW q \in Seq(T), NEW s, Tracks(q, s)
  PROVE  Lookup(q, s) \in Members(q) /\ Lookup(q, s) \in T /\ Lookup(q, s).seq = s
<1>1. IndexOf(q, s) \in DOMAIN q /\ q[IndexOf(q, s)].seq = s
  BY DEF Tracks, IndexOf
<1> QED BY <1>1, MemberType DEF Lookup, Members

(* A reply that finds its probe.                                              *)
LEMMA OriginOKAnswer ==
  ASSUME NEW n \in Nat, NEW valid, NEW p, NEW t, NEW c, StoresOK(p, t, c),
         OriginOK(p, t, c, n, valid), NEW s
  PROVE  /\ Tracks(p, s) =>
              OriginOK(Unlink(p, s), t, RememberAnswer(c, Lookup(p, s)), n, valid)
         /\ Tracks(t, s) =>
              OriginOK(p, Unlink(t, s), RememberAnswer(c, Lookup(t, s)), n, valid)
<1>1. ASSUME NEW q \in {p, t}, Tracks(q, s)
      PROVE  /\ Members(Unlink(q, s)) \subseteq Members(q)
             /\ \A e \in Members(RememberAnswer(c, Lookup(q, s))) : Genuine(e, n)
  <2>1. q \in Seq(Entry) /\ c \in Seq(Answered) /\ Distinct(q)
    BY DEF StoresOK
  <2>2. Members(Unlink(q, s)) \subseteq Members(q)
    BY <2>1, MembersUnlink
  <2> DEFINE o == Lookup(q, s)
             a == [seq |-> o.seq, uid |-> o.uid]
  <2>3. o \in Members(q) /\ o \in Entry
    BY <1>1, <2>1, LookupFacts
  <2> HIDE DEF o
  <2>4. Genuine(o, n)
    BY <2>3 DEF OriginOK
  <2>5. Genuine(a, n)
    BY <2>4 DEF Genuine
  <2>6. Members(RememberAnswer(c, o)) \subseteq Members(c) \cup {a}
    BY <2>1, <2>3, MembersRemember
  <2>7. \A e \in Members(RememberAnswer(c, o)) : Genuine(e, n)
    BY <2>5, <2>6 DEF OriginOK
  <2> QED BY <2>2, <2>7 DEF o
<1> QED BY <1>1 DEF OriginOK

(* A timeout pass.                                                            *)
LEMMA MembersDrain ==
  ASSUME NEW p \in Seq(Entry), NEW t \in Seq(Entry), Distinct(p), NEW k \in 0 .. Len(p)
  PROVE  /\ Members(SubSeq(p, k + 1, Len(p))) = { p[i] : i \in k + 1 .. Len(p) }
         /\ Members(SubSeq(p, k + 1, Len(p))) \subseteq Members(p)
         /\ Members(SubSeq(p, 1, k)) \subseteq Members(p)
         /\ Members(Retain(t, SubSeq(p, 1, k))) \subseteq Members(t) \cup { p[i] : i \in 1 .. k }
<1>0. Len(p) \in Nat /\ DOMAIN p = 1 .. Len(p)
  BY LenProperties
<1>1. /\ Members(SubSeq(p, 1, k)) = { p[i] : i \in 1 .. k }
      /\ Members(SubSeq(p, k + 1, Len(p))) = { p[i] : i \in k + 1 .. Len(p) }
  BY MembersSplit
<1>2. k + 1 .. Len(p) \subseteq DOMAIN p /\ 1 .. k \subseteq DOMAIN p
  BY <1>0
<1>3. SubSeq(p, 1, k) \in Seq(Entry)
  <2>1. 1 \in Nat \ {0}
    OBVIOUS
  <2> QED BY <2>1, PartFacts, ZenonT(30)
<1>4. Members(Retain(t, SubSeq(p, 1, k))) \subseteq Members(t) \cup Members(SubSeq(p, 1, k))
  BY <1>3, MembersRetain
<1> QED BY <1>1, <1>2, <1>4 DEF Members

LEMMA OriginOKDrain ==
  ASSUME NEW n \in Nat, NEW valid, NEW p, NEW t, NEW c, StoresOK(p, t, c),
         OriginOK(p, t, c, n, valid), NEW k \in 0 .. Len(p)
  PROVE  OriginOK(SubSeq(p, k + 1, Len(p)), Retain(t, SubSeq(p, 1, k)), c, n, valid)
<1>1. /\ Members(SubSeq(p, k + 1, Len(p))) \subseteq Members(p)
      /\ Members(Retain(t, SubSeq(p, 1, k))) \subseteq Members(t) \cup { p[i] : i \in 1 .. k }
  BY MembersDrain DEF StoresOK
<1>2. { p[i] : i \in 1 .. k } \subseteq Members(p)
  BY LenProperties DEF StoresOK, Members
<1> QED BY <1>1, <1>2 DEF OriginOK

(* The stores a handler works on, once it has drained the error queue.        *)
LEMMA DrainedStores ==
  ASSUME StoreInv, OriginInv, state = "Open", NEW K \in Drains(kernelIds)
  PROVE  LET p == Attach(pending, K)
             t == AttachTimedOut(p, timedOut, K)
         IN  /\ K \in SUBSET Nat
             /\ t = AttachTimedOut(pending, timedOut, K)
             /\ SameProbes(p, pending)
             /\ StoresOK(p, t, completed)
             /\ OriginOK(p, t, completed, packetsSent, txValid)
<1> DEFINE p == Attach(pending, K)
           t == AttachTimedOut(p, timedOut, K)
<1>1. ScalarsOK /\ StoresOK(pending, timedOut, completed)
  BY StoreInvParts
<1>2. K \in SUBSET Nat
  BY <1>1, DrainsAreNumbers DEF ScalarsOK
<1>3. SameProbes(p, pending)
  BY <1>1, <1>2, AttachFacts DEF StoresOK
<1>4. t = AttachTimedOut(pending, timedOut, K)
  <2>1. \A r : Tracks(p, r) <=> Tracks(pending, r)
    BY <1>3, SameProbesFacts
  <2> QED BY <2>1 DEF AttachTimedOut
<1>5. StoresOK(p, t, completed)
  BY <1>1, <1>2, <1>4, StoresOKAttach
<1>6. packetsSent \in Nat /\ pending \in Seq(Entry) /\ timedOut \in Seq(Entry)
  BY <1>1, ConstantsAssumption DEF ScalarsOK, StoresOK
<1>7. txValid => \A k \in K : k < packetsSent /\ packetsSent - k <= SeqSpace
  <2> SUFFICES ASSUME txValid, NEW k \in K PROVE k < packetsSent /\ packetsSent - k <= SeqSpace
    OBVIOUS
  <2>1. kernelIds = packetsSent
    BY DEF OriginInv, Live
  <2>2. k \in 0 .. kernelIds - 1 /\ kernelIds - k <= StampAge
    BY DEF Drains
  <2>3. StampAge \in Nat /\ SeqSpace \in Nat /\ StampAge <= SeqSpace
    BY ConstantsAssumption
  <2> QED BY <1>6, <2>1, <2>2, <2>3
<1>8. OriginOK(p, t, completed, packetsSent, txValid)
  <2>1. OriginOK(pending, timedOut, completed, packetsSent, txValid)
    BY DEF OriginInv
  <2> QED BY <1>2, <1>4, <1>6, <1>7, <2>1, OriginOKAttach
<1> QED BY <1>2, <1>3, <1>4, <1>5, <1>8

(* An ended session holds nothing.                                            *)
LEMMA DroppedOrigin ==
  ASSUME DropSession, ~Live' PROVE OriginInv'
BY DEF DropSession, OriginInv, OriginOK, Members

(* Sending keeps OriginInv: the previous use of the number is a whole cycle   *)
(* old, and the one entry that could be is recycled.                          *)
LEMMA SendPreservesOrigin ==
  ASSUME StoreInv, OriginInv, NEW d \in 0 .. MaxSendTime,
         NEW K \in Drains(kernelIds + 1), SendProbe(d, K)
  PROVE  OriginInv'
<1> DEFINE e == FinalizeProbeCommit
           n == packetsSent
           p == Append(pending, e)
           t == Recycle(timedOut, Prepared)
           c == Recycle(completed, Prepared)
<1>1. ScalarsOK /\ StoresOK(pending, timedOut, completed)
  BY StoreInvParts
<1>2. n \in Nat /\ state = "Open" /\ Prepared = nextSeq /\ nextSeq = WireSeq(n)
  BY <1>1, ConstantsAssumption DEF SendProbe, Preflight, ScalarsOK, OriginInv, Live
<1>3. /\ e \in Entry /\ e.seq = Prepared /\ e.uid = n /\ e.kernelTx = None
      /\ e.submission = kernelIds
  BY <1>1, <1>2, ConstantsAssumption DEF FinalizeProbeCommit, Entry, ScalarsOK
<1>4. ~Tracks(pending, e.seq) /\ Len(pending) < MaxPending
  BY <1>3 DEF SendProbe, Preflight, PreflightInsert
<1>5. K \in SUBSET Nat
  BY <1>1, DrainsAreNumbers DEF ScalarsOK
<1>6. /\ pending' = Attach(p, K)
      /\ timedOut' = AttachTimedOut(p, t, K)
      /\ completed' = c
      /\ nextSeq' = Successor(Prepared) /\ packetsSent' = n + 1
      /\ kernelIds' = kernelIds + 1 /\ txValid' = txValid /\ state' = state
  BY <1>3 DEF SendProbe, CommitProbeSent, CommitInsert
<1> HIDE DEF e
<1>7. StoresOK(p, t, c)
  BY <1>1, <1>3, <1>4, StoresOKSend
<1>8. OriginOK(p, t, c, n + 1, txValid)
  <2>1. OriginOK(pending, timedOut, completed, n, txValid) /\ (txValid => kernelIds = n)
    BY <1>2 DEF OriginInv, Live
  <2>2. e.seq = WireSeq(n) /\ (txValid => e.submission = n)
    BY <1>2, <1>3, <2>1
  <2> QED BY <1>1, <1>2, <1>3, <1>4, <2>1, <2>2, OriginOKSend
<1>9. txValid => \A k \in K : k < n + 1 /\ (n + 1) - k <= SeqSpace
  <2> SUFFICES ASSUME txValid, NEW k \in K PROVE k < n + 1 /\ (n + 1) - k <= SeqSpace
    OBVIOUS
  <2>1. kernelIds = n
    BY <1>2 DEF OriginInv, Live
  <2>2. k \in 0 .. kernelIds + 1 - 1 /\ kernelIds + 1 - k <= StampAge
    BY <1>1 DEF Drains, ScalarsOK
  <2>3. StampAge \in Nat /\ SeqSpace \in Nat /\ StampAge <= SeqSpace
    BY ConstantsAssumption
  <2> QED BY <1>2, <2>1, <2>2, <2>3
<1> HIDE DEF p, t, c
<1>10. OriginOK(pending', timedOut', completed', n + 1, txValid)
  <2> DEFINE m == n + 1
  <2>1. p \in Seq(Entry) /\ t \in Seq(Entry) /\ m \in Nat
    BY <1>2, <1>7 DEF StoresOK
  <2>2. OriginOK(p, t, c, m, txValid)
    BY <1>8
  <2>3. txValid => \A k \in K : k < m /\ m - k <= SeqSpace
    BY <1>9
  <2> HIDE DEF m
  <2>4. OriginOK(Attach(p, K), AttachTimedOut(p, t, K), c, m, txValid)
    BY <1>5, <2>1, <2>2, <2>3, OriginOKAttach
  <2> QED BY <1>6, <2>4 DEF m
<1>11. nextSeq' = WireSeq(n + 1)
  BY <1>2, <1>6, SeqCycle
<1>12. txValid' => kernelIds' = packetsSent'
  BY <1>1, <1>2, <1>6 DEF OriginInv, Live, ScalarsOK
<1> QED BY <1>6, <1>10, <1>11, <1>12 DEF OriginInv

(* Receiving keeps OriginInv.                                                 *)
LEMMA ReceivePreservesOrigin ==
  ASSUME StoreInv, OriginInv, NEW u \in Probes, NEW close \in BOOLEAN,
         NEW K \in Drains(kernelIds), Receive(u, close, K)
  PROVE  OriginInv'
<1> DEFINE p == Attach(pending, K)
           t == AttachTimedOut(p, timedOut, K)
           s == WireSeq(u)
           n == packetsSent
<1>1. StoresOK(p, t, completed) /\ OriginOK(p, t, completed, n, txValid)
  BY DrainedStores DEF Receive
<1>2. \/ ReplyToPending(u, close, p, t) \/ DuplicateReply(u, close, p, t)
      \/ ReplyToTimedOut(u, close, p, t) \/ UntrackedReply(u, close, p, t)
  BY DEF Receive
<1>3. state = "Open" /\ UNCHANGED <<now, packetsSent, kernelIds, failures>>
  BY DEF Receive
<1>4. n \in Nat
  BY StoreInvParts, ConstantsAssumption DEF ScalarsOK
<1> HIDE DEF p, t, s
<1>5. /\ Tracks(p, s) => OriginOK(Unlink(p, s), t, RememberAnswer(completed, Lookup(p, s)), n, txValid)
      /\ Tracks(t, s) => OriginOK(p, Unlink(t, s), RememberAnswer(completed, Lookup(t, s)), n, txValid)
  BY <1>1, <1>4, OriginOKAnswer
<1>6. ASSUME NEW P, NEW T, NEW C, NEW h, Settle(close, P, T, C, h), OriginOK(P, T, C, n, txValid)
      PROVE  OriginInv'
  <2>1. CASE close
    <3>1. DropSession /\ state' = "ClosedPeer"
      BY <1>6, <2>1 DEF Settle
    <3> QED BY <3>1, DroppedOrigin DEF Live
  <2>2. CASE ~close
    BY <1>3, <1>6, <2>2 DEF Settle, OriginInv, Live
  <2> QED BY <2>1, <2>2
<1>7. CASE ReplyToPending(u, close, p, t)
  BY <1>5, <1>6, <1>7 DEF ReplyToPending, s
<1>8. CASE DuplicateReply(u, close, p, t)
  BY <1>1, <1>6, <1>8 DEF DuplicateReply
<1>9. CASE ReplyToTimedOut(u, close, p, t)
  BY <1>5, <1>6, <1>9 DEF ReplyToTimedOut, s
<1>10. CASE UntrackedReply(u, close, p, t)
  BY <1>1, <1>6, <1>10 DEF UntrackedReply
<1> QED BY <1>2, <1>7, <1>8, <1>9, <1>10

(* Every step keeps OriginInv.                                                *)
LEMMA OriginStep == StoreInv /\ OriginInv /\ [Next]_vars => OriginInv'
<1> SUFFICES ASSUME StoreInv, OriginInv, [Next]_vars PROVE OriginInv'
  OBVIOUS
<1>0. ScalarsOK /\ StoresOK(pending, timedOut, completed)
  BY StoreInvParts
<1>1. CASE AcceptOpen
  BY <1>1 DEF AcceptOpen, OriginInv, Live
<1>2. CASE LocalClose
  BY <1>2, DroppedOrigin DEF LocalClose, Live
<1>3. CASE PrepareProbe \/ DiscardPreparedProbe \/ Tick \/ UNCHANGED vars
  BY <1>3 DEF PrepareProbe, DiscardPreparedProbe, Tick, vars, OriginInv, Live
<1>4. ASSUME NEW d \in 0 .. MaxSendTime, NEW K \in Drains(kernelIds + 1), SendProbe(d, K)
      PROVE  OriginInv'
  BY <1>4, SendPreservesOrigin
<1>5. ASSUME NEW consumed \in {0, 1}, SendFails(consumed) PROVE OriginInv'
  BY <1>5 DEF SendFails, InvalidateKernelTxCorrelation, OriginInv, OriginOK, Vouched, Live
<1>6. ASSUME NEW u \in Probes, NEW close \in BOOLEAN, NEW K \in Drains(kernelIds),
             Receive(u, close, K)
      PROVE  OriginInv'
  BY <1>6, ReceivePreservesOrigin
<1>7. ASSUME NEW K \in Drains(kernelIds), DropDatagram(K) PROVE OriginInv'
  <2>1. OriginOK(Attach(pending, K), AttachTimedOut(pending, timedOut, K), completed,
                 packetsSent, txValid)
    BY <1>7, DrainedStores DEF DropDatagram
  <2> QED BY <1>7, <2>1 DEF DropDatagram, OriginInv, Live
<1>8. ASSUME NEW limit \in 1 .. MaxPending, NEW K \in Drains(kernelIds), PollTimeouts(limit, K)
      PROVE  OriginInv'
  <2> DEFINE p == Attach(pending, K)
             t == AttachTimedOut(p, timedOut, K)
  <2>1. /\ StoresOK(p, t, completed) /\ OriginOK(p, t, completed, packetsSent, txValid)
        /\ SameProbes(p, pending)
    BY <1>8, DrainedStores DEF PollTimeouts
  <2>2. PICK k \in 0 .. Len(pending) :
          /\ pending' = SubSeq(p, k + 1, Len(p))
          /\ timedOut' = Retain(t, SubSeq(p, 1, k))
    BY <1>8 DEF PollTimeouts
  <2>3. k \in 0 .. Len(p) /\ packetsSent \in Nat
    BY <1>0, <2>1, <2>2, ConstantsAssumption DEF SameProbes, ScalarsOK
  <2> HIDE DEF p, t
  <2>4. OriginOK(pending', timedOut', completed, packetsSent, txValid)
    BY <2>1, <2>2, <2>3, OriginOKDrain
  <2> QED BY <1>8, <2>4 DEF PollTimeouts, OriginInv, Live
<1> QED BY <1>1, <1>2, <1>3, <1>4, <1>5, <1>6, <1>7, <1>8 DEF Next

(* OriginInv holds at the start and is kept: with StoreInv it is inductive.   *)
THEOREM OriginInvariant == Spec => []OriginInv
<1>1. Init => OriginInv
  <2>1. WireSeq(0) = 0
    <3>1. SeqSpace \in Nat \ {0} /\ 0 \in 0 .. SeqSpace - 1 /\ 0 = SeqSpace * 0 + 0
      BY ConstantsAssumption
    <3>2. 0 % SeqSpace = 0
      BY <3>1, ModUnique
    <3> QED BY <3>2 DEF WireSeq
  <2> QED BY <2>1 DEF Init, OriginInv, OriginOK, Members, Live
<1> QED BY <1>1, OriginStep, StoreInvariant, PTL DEF Spec

(* The reply of a probe within its lifetime finds that very probe in whatever *)
(* store it hits, and a kernel timestamp is attached only to the probe whose  *)
(* datagram it was taken for (process_echo_reply, record_kernel_tx_timestamp).*)
THEOREM AnswersAlwaysBelong == Spec => []AnswersBelong
<1>1. StoreInv /\ OriginInv => AnswersBelong
  <2> SUFFICES ASSUME StoreInv, OriginInv PROVE AnswersBelong
    OBVIOUS
  <2>0. ScalarsOK /\ StoresOK(pending, timedOut, completed)
    BY StoreInvParts
  <2>1. ASSUME NEW u \in 0 .. packetsSent - 1, packetsSent - u <= ReplyAge,
               NEW e, Genuine(e, packetsSent), e.seq = WireSeq(u)
        PROVE  e.uid = u
    <3> DEFINE v == e.uid
    <3>1. /\ packetsSent \in Nat /\ SeqSpace \in Nat /\ ReplyAge \in Nat
          /\ ReplyAge <= SeqSpace
      BY <2>0, ConstantsAssumption DEF ScalarsOK
    <3>2. v \in 0 .. packetsSent - 1 /\ packetsSent - v <= SeqSpace /\ WireSeq(v) = WireSeq(u)
      BY <2>1 DEF Genuine
    <3> HIDE DEF v
    <3>3. u \in Nat /\ v \in Nat /\ u - v < SeqSpace /\ v - u < SeqSpace
      BY <2>1, <3>1, <3>2
    <3> QED BY <3>2, <3>3, SameSeq DEF v
  <2>2. ReplyFindsItsProbe
    <3> SUFFICES ASSUME NEW u \in 0 .. packetsSent - 1, packetsSent - u <= ReplyAge
                 PROVE  /\ Tracks(pending, WireSeq(u)) => Lookup(pending, WireSeq(u)).uid = u
                        /\ Tracks(timedOut, WireSeq(u)) => Lookup(timedOut, WireSeq(u)).uid = u
                        /\ Tracks(completed, WireSeq(u)) => Lookup(completed, WireSeq(u)).uid = u
      BY DEF ReplyFindsItsProbe
    <3> DEFINE s == WireSeq(u)
    <3> HIDE DEF s
    <3>1. /\ pending \in Seq(Entry) /\ timedOut \in Seq(Entry) /\ completed \in Seq(Answered)
      BY <2>0 DEF StoresOK
    <3>2. Tracks(pending, s) => Lookup(pending, s) \in Members(pending) /\ Lookup(pending, s).seq = s
      BY <3>1, LookupFacts
    <3>3. Tracks(timedOut, s) => Lookup(timedOut, s) \in Members(timedOut) /\ Lookup(timedOut, s).seq = s
      BY <3>1, LookupFacts
    <3>4. Tracks(completed, s) => Lookup(completed, s) \in Members(completed) /\ Lookup(completed, s).seq = s
      BY <3>1, LookupFacts
    <3> QED BY <2>1, <3>2, <3>3, <3>4 DEF OriginInv, OriginOK, s
  <2>3. StampsBelong
    BY DEF StampsBelong, OriginInv, OriginOK, Vouched, Members
  <2> QED BY <2>2, <2>3 DEF AnswersBelong
<1> QED BY <1>1, OriginInvariant, StoreInvariant, PTL

(***************************************************************************)
(* Deadlines in order                                                       *)
(***************************************************************************)

Ordered(q) == \A i, j \in DOMAIN q : i < j => q[i].timeoutAt <= q[j].timeoutAt

(* Both lists are sorted by deadline, what timed out was due before what is   *)
(* pending, and no deadline is further away than a fresh probe's.             *)
OrderOK(p, t, at) ==
  /\ Ordered(p) /\ Ordered(t)
  /\ \A x \in Members(t), y \in Members(p) : x.timeoutAt <= y.timeoutAt
  /\ \A x \in Members(p) \cup Members(t) : x.timeoutAt <= at + ProbeTimeout

(* The third inductive invariant.                                             *)
OrderInv == OrderOK(pending, timedOut, now)

(* What leaves elements out keeps the order.                                  *)
LEMMA OrderedSublist ==
  ASSUME NEW a, NEW b, Sublist(a, b), Ordered(b)
  PROVE  Ordered(a) /\ Members(a) \subseteq Members(b)
BY DEF Sublist, Ordered, Members

(* Stamps leave it alone.                                                     *)
LEMMA OrderOKAttach ==
  ASSUME NEW p, NEW t, NEW at, NEW a, NEW b,
         SameProbes(a, p), SameProbes(b, t), OrderOK(p, t, at)
  PROVE  OrderOK(a, b, at)
BY DEF SameProbes, OrderOK, Ordered, Members

(* A new probe's deadline is the latest.                                      *)
LEMMA OrderOKSend ==
  ASSUME NEW at \in Nat, NEW d \in Nat, NEW p, NEW t, NEW c, StoresOK(p, t, c),
         OrderOK(p, t, at), NEW e \in Entry, e.timeoutAt = at + ProbeTimeout, NEW s
  PROVE  OrderOK(Append(p, e), Recycle(t, s), at + d)
<1> DEFINE a == Append(p, e)
           b == Recycle(t, s)
<1>0. p \in Seq(Entry) /\ t \in Seq(Entry) /\ Distinct(t) /\ ProbeTimeout \in Nat
  BY ConstantsAssumption DEF StoresOK
<1>1. /\ Len(p) \in Nat /\ DOMAIN p = 1 .. Len(p)
      /\ a \in Seq(Entry) /\ Len(a) = Len(p) + 1
      /\ \A i \in 1 .. Len(p) : a[i] = p[i]
      /\ a[Len(p) + 1] = e
  BY <1>0, LenProperties, AppendProperties
<1>2. DOMAIN a = 1 .. Len(p) + 1
  BY <1>1, LenProperties
<1>3. Members(a) = Members(p) \cup {e}
  BY <1>0, MembersAppend
<1>4. Ordered(b) /\ Members(b) \subseteq Members(t)
  BY <1>0, UnlinkFacts, OrderedSublist DEF Recycle, OrderOK
<1> HIDE DEF a, b
<1>5. \A x \in Members(p) \cup Members(t) : x.timeoutAt \in Nat /\ x.timeoutAt <= at + ProbeTimeout
  <2>1. \A x \in Members(p) \cup Members(t) : x \in Entry
    BY <1>0, MemberType
  <2> QED BY <2>1 DEF OrderOK, Entry
<1>6. Ordered(a)
  <2> SUFFICES ASSUME NEW i \in 1 .. Len(p) + 1, NEW j \in 1 .. Len(p) + 1, i < j
               PROVE  a[i].timeoutAt <= a[j].timeoutAt
    BY <1>2 DEF Ordered
  <2>1. i \in DOMAIN p /\ a[i] = p[i]
    BY <1>1
  <2>2. CASE j = Len(p) + 1
    BY <1>1, <1>5, <2>1, <2>2 DEF Members
  <2>3. CASE j # Len(p) + 1
    <3>1. j \in DOMAIN p /\ a[j] = p[j]
      BY <1>1, <2>3
    <3> QED BY <2>1, <3>1 DEF OrderOK, Ordered
  <2> QED BY <2>2, <2>3
<1>7. \A x \in Members(b), y \in Members(a) : x.timeoutAt <= y.timeoutAt
  BY <1>3, <1>4, <1>5 DEF OrderOK
<1>8. \A x \in Members(a) \cup Members(b) : x.timeoutAt <= at + d + ProbeTimeout
  BY <1>0, <1>3, <1>4, <1>5
<1> QED BY <1>4, <1>6, <1>7, <1>8 DEF OrderOK, a, b

(* A reply unlinks one entry.                                                 *)
LEMMA OrderOKUnlink ==
  ASSUME NEW at, NEW p, NEW t, NEW c, StoresOK(p, t, c), OrderOK(p, t, at), NEW s
  PROVE  OrderOK(Unlink(p, s), t, at) /\ OrderOK(p, Unlink(t, s), at)
<1>1. ASSUME NEW q \in {p, t} PROVE Ordered(Unlink(q, s)) /\ Members(Unlink(q, s)) \subseteq Members(q)
  BY UnlinkFacts, OrderedSublist DEF StoresOK, OrderOK
<1> QED BY <1>1 DEF OrderOK

(* A stretch of an ordered store is ordered.                                  *)
LEMMA OrderedPart ==
  ASSUME NEW T, NEW q \in Seq(T), Distinct(q), Ordered(q),
         NEW m \in Nat \ {0}, NEW n \in 0 .. Len(q), m <= n + 1
  PROVE  Ordered(SubSeq(q, m, n))
<1> DEFINE a == SubSeq(q, m, n)
<1>0. Len(q) \in Nat /\ DOMAIN q = 1 .. Len(q)
  BY LenProperties
<1>1. /\ a \in Seq(T)
      /\ Len(a) = IF m <= n THEN n - m + 1 ELSE 0
      /\ \A i \in 1 .. n - m + 1 : a[i] = q[m + i - 1]
  <2>1. q \in Seq(T) /\ m \in Nat \ {0} /\ n \in 0 .. Len(q) /\ Distinct(q)
    OBVIOUS
  <2>2. /\ SubSeq(q, m, n) \in Seq(T)
        /\ Len(SubSeq(q, m, n)) = IF m <= n THEN n - m + 1 ELSE 0
        /\ \A i \in 1 .. n - m + 1 : SubSeq(q, m, n)[i] = q[m + i - 1]
    BY <2>1, PartFacts, SMTT(20)
  <2> QED BY <2>2
<1> HIDE DEF a
<1>2. DOMAIN a = 1 .. n - m + 1
  BY <1>0, <1>1, LenProperties
<1>3. ASSUME NEW i \in DOMAIN a, NEW j \in DOMAIN a, i < j
      PROVE  a[i].timeoutAt <= a[j].timeoutAt
  <2>1. m + i - 1 \in DOMAIN q /\ m + j - 1 \in DOMAIN q /\ m + i - 1 < m + j - 1
    BY <1>0, <1>2, <1>3
  <2>2. a[i] = q[m + i - 1] /\ a[j] = q[m + j - 1]
    BY <1>1, <1>2
  <2> QED BY <2>1, <2>2 DEF Ordered
<1> QED BY <1>3 DEF Ordered, a

(* Retaining later deadlines after earlier ones, and evicting from the front. *)
LEMMA OrderedRetain ==
  ASSUME NEW T, NEW q \in Seq(T), NEW n \in Seq(T),
         Distinct(q), Distinct(n), Apart(q, n), Ordered(q), Ordered(n),
         \A x \in Members(q), y \in Members(n) : x.timeoutAt <= y.timeoutAt
  PROVE  Ordered(Retain(q, n))
<1> DEFINE all == q \o n
<1>0. /\ Len(q) \in Nat /\ DOMAIN q = 1 .. Len(q)
      /\ Len(n) \in Nat /\ DOMAIN n = 1 .. Len(n)
  BY LenProperties
<1>1. /\ all \in Seq(T)
      /\ Len(all) = Len(q) + Len(n)
      /\ \A i \in 1 .. Len(q) + Len(n) :
           all[i] = IF i <= Len(q) THEN q[i] ELSE n[i - Len(q)]
  BY ConcatProperties
<1> HIDE DEF all
<1>2. DOMAIN all = 1 .. Len(q) + Len(n)
  BY <1>1, LenProperties
<1>3. ASSUME NEW i \in 1 .. Len(q) + Len(n), NEW j \in 1 .. Len(q) + Len(n), i < j
      PROVE  all[i].timeoutAt <= all[j].timeoutAt
  <2>1. CASE j <= Len(q)
    <3>1. i \in DOMAIN q /\ j \in DOMAIN q /\ all[i] = q[i] /\ all[j] = q[j]
      BY <1>0, <1>1, <1>3, <2>1
    <3> QED BY <1>3, <3>1 DEF Ordered
  <2>2. CASE i > Len(q)
    <3>1. /\ i - Len(q) \in DOMAIN n /\ j - Len(q) \in DOMAIN n /\ i - Len(q) < j - Len(q)
          /\ all[i] = n[i - Len(q)] /\ all[j] = n[j - Len(q)]
      BY <1>0, <1>1, <1>3, <2>2
    <3> QED BY <3>1 DEF Ordered
  <2>3. CASE i <= Len(q) /\ j > Len(q)
    <3>1. /\ i \in DOMAIN q /\ j - Len(q) \in DOMAIN n
          /\ all[i] = q[i] /\ all[j] = n[j - Len(q)]
      BY <1>0, <1>1, <1>3, <2>3
    <3>2. q[i] \in Members(q) /\ n[j - Len(q)] \in Members(n)
      BY <3>1 DEF Members
    <3> QED BY <3>1, <3>2
  <2> QED BY <1>0, <2>1, <2>2, <2>3
<1>4. Ordered(all)
  BY <1>2, <1>3 DEF Ordered
<1>5. CASE Len(all) <= MaxPending
  BY <1>4, <1>5 DEF Retain, all
<1>6. CASE ~(Len(all) <= MaxPending)
  <2> DEFINE m == Len(all) - MaxPending + 1
             z == SubSeq(all, m, Len(all))
  <2>1. Retain(q, n) = z
    BY <1>6 DEF Retain, all
  <2>2. m \in Nat \ {0} /\ m <= Len(all) /\ Len(all) \in Nat
    BY <1>0, <1>1, <1>6, ConstantsAssumption
  <2>3. \A i \in m .. Len(all) : all[i] \in T
    BY <1>1, <1>2, <2>2, ElementOfSeq
  <2> HIDE DEF m
  <2>4. /\ z \in Seq(T)
        /\ Len(z) = IF m <= Len(all) THEN Len(all) - m + 1 ELSE 0
        /\ \A i \in 1 .. Len(all) - m + 1 : z[i] = all[m + i - 1]
    BY <2>2, <2>3, SubSeqProperties
  <2> HIDE DEF z
  <2>5. DOMAIN z = 1 .. Len(all) - m + 1
    BY <2>2, <2>4, LenProperties
  <2>6. ASSUME NEW i \in DOMAIN z, NEW j \in DOMAIN z, i < j
        PROVE  z[i].timeoutAt <= z[j].timeoutAt
    <3>1. m + i - 1 \in DOMAIN all /\ m + j - 1 \in DOMAIN all /\ m + i - 1 < m + j - 1
      BY <1>0, <1>1, <1>2, <2>2, <2>5, <2>6
    <3>2. z[i] = all[m + i - 1] /\ z[j] = all[m + j - 1]
      BY <2>4, <2>5
    <3> QED BY <1>4, <3>1, <3>2 DEF Ordered
  <2> QED BY <2>1, <2>6 DEF Ordered
<1> QED BY <1>5, <1>6

(* A timeout pass moves the k earliest deadlines to the end of the other list.*)
LEMMA OrderOKDrain ==
  ASSUME NEW at, NEW p, NEW t, NEW c, StoresOK(p, t, c), OrderOK(p, t, at),
         NEW k \in 0 .. Len(p)
  PROVE  OrderOK(SubSeq(p, k + 1, Len(p)), Retain(t, SubSeq(p, 1, k)), at)
<1> DEFINE a == SubSeq(p, k + 1, Len(p))
           b == SubSeq(p, 1, k)
<1>0. /\ p \in Seq(Entry) /\ t \in Seq(Entry) /\ Distinct(p) /\ Distinct(t)
      /\ Len(p) \in Nat /\ DOMAIN p = 1 .. Len(p)
  BY LenProperties DEF StoresOK
<1>1. /\ 1 \in Nat \ {0} /\ 1 <= k + 1
      /\ k + 1 \in Nat \ {0} /\ Len(p) \in 0 .. Len(p) /\ k + 1 <= Len(p) + 1
  BY <1>0
<1>2. Ordered(a) /\ Ordered(b)
  BY <1>0, <1>1, OrderedPart DEF OrderOK
<1>3. /\ Members(a) = { p[i] : i \in k + 1 .. Len(p) }
      /\ Members(b) = { p[i] : i \in 1 .. k }
  BY <1>0, MembersSplit
<1>4. /\ b \in Seq(Entry) /\ Distinct(b)
      /\ \A s : Tracks(b, s) <=> \E i \in 1 .. k : p[i].seq = s
  <2>1. p \in Seq(Entry) /\ 1 \in Nat \ {0} /\ k \in 0 .. Len(p) /\ Distinct(p)
    BY <1>0
  <2>2. /\ SubSeq(p, 1, k) \in Seq(Entry) /\ Distinct(SubSeq(p, 1, k))
        /\ \A s : Tracks(SubSeq(p, 1, k), s) <=> \E i \in 1 .. k : p[i].seq = s
    BY <2>1, PartFacts, ZenonT(30)
  <2> QED BY <2>2
<1>5. Members(Retain(t, b)) \subseteq Members(t) \cup Members(b)
  BY <1>0, <1>4, MembersRetain
<1> HIDE DEF a, b
<1>6. Members(a) \subseteq Members(p) /\ Members(b) \subseteq Members(p)
  <2>1. k + 1 .. Len(p) \subseteq DOMAIN p /\ 1 .. k \subseteq DOMAIN p
    BY <1>0
  <2> QED BY <1>3, <2>1 DEF Members
<1>7. Apart(t, b)
  <2>1. 1 .. k \subseteq DOMAIN p
    BY <1>0
  <2>2. \A s : Tracks(b, s) => Tracks(p, s)
    BY <1>4, <2>1 DEF Tracks
  <2> QED BY <2>2, ApartByTracks DEF StoresOK
<1>8. Ordered(Retain(t, b))
  BY <1>0, <1>2, <1>4, <1>6, <1>7, OrderedRetain DEF OrderOK
<1>9. \A x \in Members(b), y \in Members(a) : x.timeoutAt <= y.timeoutAt
  <2> SUFFICES ASSUME NEW i \in 1 .. k, NEW j \in k + 1 .. Len(p)
               PROVE  p[i].timeoutAt <= p[j].timeoutAt
    BY <1>3
  <2>1. i \in DOMAIN p /\ j \in DOMAIN p /\ i < j
    BY <1>0
  <2> QED BY <2>1 DEF OrderOK, Ordered
<1> QED BY <1>2, <1>5, <1>6, <1>8, <1>9 DEF OrderOK, a, b

(* Whatever a drain attaches.                                                 *)
LEMMA OrderOKDrained ==
  ASSUME NEW p \in Seq(Entry), NEW t \in Seq(Entry), NEW at, OrderOK(p, t, at),
         NEW K \in SUBSET Nat
  PROVE  OrderOK(Attach(p, K), AttachTimedOut(p, t, K), at)
<1> DEFINE L == { k \in K : ~Tracks(p, WireSeq(k)) }
<1>1. SameProbes(Attach(p, K), p)
  BY AttachFacts
<1>2. L \in SUBSET Nat
  OBVIOUS
<1> HIDE DEF L
<1>3. SameProbes(Attach(t, L), t)
  BY <1>2, AttachFacts
<1>4. AttachTimedOut(p, t, K) = Attach(t, L)
  BY DEF AttachTimedOut, L
<1> QED BY <1>1, <1>3, <1>4, OrderOKAttach

LEMMA DroppedOrder == ASSUME DropSession PROVE OrderInv'
BY DEF DropSession, OrderInv, OrderOK, Ordered, Members

LEMMA ReceivePreservesOrder ==
  ASSUME StoreInv, OriginInv, OrderInv, NEW u \in Probes, NEW close \in BOOLEAN,
         NEW K \in Drains(kernelIds), Receive(u, close, K)
  PROVE  OrderInv'
<1> DEFINE p == Attach(pending, K)
           t == AttachTimedOut(p, timedOut, K)
           s == WireSeq(u)
<1>1. StoresOK(p, t, completed) /\ t = AttachTimedOut(pending, timedOut, K) /\ K \in SUBSET Nat
  BY DrainedStores DEF Receive
<1>2. OrderOK(p, t, now)
  <2>1. pending \in Seq(Entry) /\ timedOut \in Seq(Entry)
    BY StoreInvParts DEF StoresOK
  <2> QED BY <1>1, <2>1, OrderOKDrained DEF OrderInv
<1>3. \/ ReplyToPending(u, close, p, t) \/ DuplicateReply(u, close, p, t)
      \/ ReplyToTimedOut(u, close, p, t) \/ UntrackedReply(u, close, p, t)
  BY DEF Receive
<1>4. now' = now
  BY DEF Receive
<1> HIDE DEF p, t, s
<1>5. OrderOK(Unlink(p, s), t, now) /\ OrderOK(p, Unlink(t, s), now)
  BY <1>1, <1>2, OrderOKUnlink
<1>6. ASSUME NEW P, NEW T, NEW C, NEW h, Settle(close, P, T, C, h), OrderOK(P, T, now)
      PROVE  OrderInv'
  <2>1. CASE close
    BY <1>6, <2>1, DroppedOrder DEF Settle
  <2>2. CASE ~close
    BY <1>4, <1>6, <2>2 DEF Settle, OrderInv
  <2> QED BY <2>1, <2>2
<1>7. CASE ReplyToPending(u, close, p, t)
  BY <1>5, <1>6, <1>7 DEF ReplyToPending, s
<1>8. CASE DuplicateReply(u, close, p, t)
  BY <1>2, <1>6, <1>8 DEF DuplicateReply
<1>9. CASE ReplyToTimedOut(u, close, p, t)
  BY <1>5, <1>6, <1>9 DEF ReplyToTimedOut, s
<1>10. CASE UntrackedReply(u, close, p, t)
  BY <1>2, <1>6, <1>10 DEF UntrackedReply
<1> QED BY <1>3, <1>7, <1>8, <1>9, <1>10

LEMMA SendPreservesOrder ==
  ASSUME StoreInv, OrderInv, NEW d \in 0 .. MaxSendTime, NEW K \in Drains(kernelIds + 1),
         SendProbe(d, K)
  PROVE  OrderInv'
<1> DEFINE e == FinalizeProbeCommit
           p == Append(pending, e)
           t == Recycle(timedOut, e.seq)
<1>1. ScalarsOK /\ StoresOK(pending, timedOut, completed)
  BY StoreInvParts
<1>2. now \in Nat /\ d \in Nat /\ kernelIds + 1 \in Nat
  BY <1>1, ConstantsAssumption DEF ScalarsOK
<1>3. e \in Entry /\ e.timeoutAt = now + ProbeTimeout
  BY <1>1, ConstantsAssumption DEF FinalizeProbeCommit, Entry, ScalarsOK, SendProbe, Preflight
<1>4. K \in SUBSET Nat
  BY <1>2, DrainsAreNumbers
<1>5. /\ pending' = Attach(p, K) /\ timedOut' = AttachTimedOut(p, t, K) /\ now' = now + d
  BY DEF SendProbe, CommitProbeSent, CommitInsert
<1> HIDE DEF e
<1>6. OrderOK(p, t, now + d)
  BY <1>1, <1>2, <1>3, OrderOKSend DEF OrderInv
<1>7. p \in Seq(Entry) /\ t \in Seq(Entry)
  BY <1>1, <1>3, AppendProperties, UnlinkFacts DEF StoresOK, Recycle
<1> HIDE DEF p, t
<1> QED BY <1>4, <1>5, <1>6, <1>7, OrderOKDrained DEF OrderInv

(* Every step keeps OrderInv.                                                 *)
LEMMA OrderStep == StoreInv /\ OriginInv /\ OrderInv /\ [Next]_vars => OrderInv'
<1> SUFFICES ASSUME StoreInv, OriginInv, OrderInv, [Next]_vars PROVE OrderInv'
  OBVIOUS
<1>0. ScalarsOK /\ StoresOK(pending, timedOut, completed)
  BY StoreInvParts
<1>1. CASE AcceptOpen
  BY <1>1 DEF AcceptOpen, OrderInv
<1>2. CASE LocalClose
  BY <1>2, DroppedOrder DEF LocalClose
<1>3. CASE PrepareProbe \/ DiscardPreparedProbe \/ UNCHANGED vars
  BY <1>3 DEF PrepareProbe, DiscardPreparedProbe, vars, OrderInv
<1>4. CASE Tick
  <2>1. \A x \in Members(pending) \cup Members(timedOut) : x \in Entry
    BY <1>0, MemberType DEF StoresOK
  <2>2. /\ now \in Nat /\ ProbeTimeout \in Nat
        /\ now' = now + 1 /\ pending' = pending /\ timedOut' = timedOut
    BY <1>0, <1>4, ConstantsAssumption DEF ScalarsOK, Tick
  <2>3. \A x \in Members(pending) \cup Members(timedOut) : x.timeoutAt <= now + 1 + ProbeTimeout
    BY <2>1, <2>2 DEF OrderInv, OrderOK, Entry
  <2> QED BY <2>2, <2>3 DEF OrderInv, OrderOK
<1>5. ASSUME NEW d \in 0 .. MaxSendTime, NEW K \in Drains(kernelIds + 1), SendProbe(d, K)
      PROVE  OrderInv'
  BY <1>5, SendPreservesOrder
<1>6. ASSUME NEW consumed \in {0, 1}, SendFails(consumed) PROVE OrderInv'
  BY <1>6 DEF SendFails, OrderInv
<1>7. ASSUME NEW u \in Probes, NEW close \in BOOLEAN, NEW K \in Drains(kernelIds),
             Receive(u, close, K)
      PROVE  OrderInv'
  BY <1>7, ReceivePreservesOrder
<1>8. ASSUME NEW K \in Drains(kernelIds), DropDatagram(K) PROVE OrderInv'
  <2>1. K \in SUBSET Nat
    BY <1>0, DrainsAreNumbers DEF ScalarsOK
  <2> QED BY <1>0, <1>8, <2>1, OrderOKDrained DEF DropDatagram, OrderInv, StoresOK
<1>9. ASSUME NEW limit \in 1 .. MaxPending, NEW K \in Drains(kernelIds), PollTimeouts(limit, K)
      PROVE  OrderInv'
  <2> DEFINE p == Attach(pending, K)
             t == AttachTimedOut(p, timedOut, K)
  <2>1. /\ StoresOK(p, t, completed) /\ SameProbes(p, pending)
        /\ t = AttachTimedOut(pending, timedOut, K) /\ K \in SUBSET Nat
    BY <1>9, DrainedStores DEF PollTimeouts
  <2>2. OrderOK(p, t, now)
    BY <1>0, <2>1, OrderOKDrained DEF OrderInv, StoresOK
  <2>3. PICK k \in 0 .. Len(pending) :
          /\ pending' = SubSeq(p, k + 1, Len(p))
          /\ timedOut' = Retain(t, SubSeq(p, 1, k))
    BY <1>9 DEF PollTimeouts
  <2>4. k \in 0 .. Len(p) /\ now' = now
    BY <1>9, <2>1, <2>3 DEF SameProbes, PollTimeouts
  <2> HIDE DEF p, t
  <2> QED BY <2>1, <2>2, <2>3, <2>4, OrderOKDrain DEF OrderInv
<1> QED BY <1>1, <1>2, <1>3, <1>4, <1>5, <1>6, <1>7, <1>8, <1>9 DEF Next

(* The heads and tails of ordered lists are their extreme deadlines.          *)
LEMMA OrderGivesDeadlines == StoreInv /\ OrderInv => DeadlinesAtEnds
<1> SUFFICES ASSUME StoreInv, OrderInv PROVE DeadlinesAtEnds
  OBVIOUS
<1>0. pending \in Seq(Entry) /\ timedOut \in Seq(Entry)
  BY StoreInvParts DEF StoresOK
<1>1. ASSUME NEW q \in {pending, timedOut}, NEW i \in DOMAIN q
      PROVE  /\ q # <<>> /\ q[i].timeoutAt \in Nat /\ Last(q).timeoutAt \in Nat
             /\ Head(q).timeoutAt <= q[i].timeoutAt
             /\ q[i].timeoutAt <= Last(q).timeoutAt
             /\ Last(q) \in Members(q)
  <2>1. /\ q \in Seq(Entry) /\ Len(q) \in Nat /\ DOMAIN q = 1 .. Len(q) /\ Ordered(q)
    BY <1>0, LenProperties DEF OrderInv, OrderOK
  <2>2. 1 \in DOMAIN q /\ Len(q) \in DOMAIN q /\ q # <<>>
    BY <2>1
  <2>3. Head(q) = q[1] /\ Last(q) = q[Len(q)]
    BY <2>1, <2>2, HeadTailProperties DEF Last
  <2>4. \A j \in DOMAIN q : q[j] \in Entry
    BY <2>1, ElementOfSeq
  <2>5. \A j \in DOMAIN q : q[j].timeoutAt \in Nat
    BY <2>4 DEF Entry
  <2>6. q[1].timeoutAt <= q[i].timeoutAt
    <3>1. CASE i = 1
      BY <2>2, <2>5, <3>1
    <3>2. CASE 1 < i
      BY <2>1, <2>2, <3>2 DEF Ordered
    <3> QED BY <2>1, <3>1, <3>2
  <2>7. q[i].timeoutAt <= q[Len(q)].timeoutAt
    <3>1. CASE i = Len(q)
      BY <2>2, <2>5, <3>1
    <3>2. CASE i < Len(q)
      BY <2>1, <2>2, <3>2 DEF Ordered
    <3> QED BY <2>1, <3>1, <3>2
  <2> QED BY <2>2, <2>3, <2>5, <2>6, <2>7 DEF Members
<1> DEFINE tail(q) == IF q = <<>> THEN None ELSE Last(q).timeoutAt
<1>2. LatestDeadline = IF tail(pending) >= tail(timedOut) THEN tail(pending) ELSE tail(timedOut)
  BY DEF LatestDeadline
<1>3. \A q \in {pending, timedOut} : tail(q) \in Int
  <2> SUFFICES ASSUME NEW q \in {pending, timedOut} PROVE tail(q) \in Int
    OBVIOUS
  <2>1. CASE q = <<>>
    BY <2>1 DEF None
  <2>2. CASE q # <<>>
    <3>1. q \in Seq(Entry) /\ Len(q) \in Nat /\ DOMAIN q = 1 .. Len(q)
      BY <1>0, LenProperties
    <3>2. Len(q) # 0
      BY <2>2, <3>1, EmptySeq
    <3>3. 1 \in DOMAIN q
      BY <3>1, <3>2
    <3> QED BY <1>1, <2>2, <3>3
  <2> QED BY <2>1, <2>2
<1>4. ASSUME NEW q \in {pending, timedOut}, NEW i \in DOMAIN q
      PROVE  q[i].timeoutAt <= tail(q) /\ q[i].timeoutAt \in Nat
  BY <1>1
<1>5. \A i \in DOMAIN pending : NextDeadline <= pending[i].timeoutAt
  BY <1>1 DEF NextDeadline
<1> HIDE DEF tail
<1>6. tail(pending) <= LatestDeadline /\ tail(timedOut) <= LatestDeadline /\ LatestDeadline \in Int
  BY <1>2, <1>3
<1>7. ASSUME NEW q \in {pending, timedOut}, NEW i \in DOMAIN q
      PROVE  q[i].timeoutAt <= LatestDeadline
  <2>1. q[i].timeoutAt <= tail(q) /\ q[i].timeoutAt \in Nat
    BY <1>4
  <2>2. tail(q) <= LatestDeadline /\ tail(q) \in Int
    BY <1>3, <1>6
  <2> QED BY <1>6, <2>1, <2>2
<1> QED BY <1>5, <1>7 DEF DeadlinesAtEnds

(***************************************************************************)
(* Verdicts                                                                 *)
(***************************************************************************)

Verdict == {"EchoReply", "LateReply", "EchoLoss"}

(* A probe is pending exactly while it has no verdict; what timed out has had *)
(* its loss and nothing else; what was not sent has none.                     *)
VerdictOK(p, t, n, ver) ==
  /\ \A u \in 0 .. n - 1 : (\E e \in Members(p) : e.uid = u) <=> ver[u] = <<>>
  /\ \A e \in Members(t) : ver[e.uid] = <<"EchoLoss">>
  /\ \A u \in Probes : u >= n => ver[u] = <<>>

(* The fourth inductive invariant.                                            *)
VerdictInv == Live => VerdictOK(pending, timedOut, packetsSent, verdicts)

(* Verdict lists by length.                                                    *)
LEMMA VerdictLists ==
  /\ <<>> # <<"EchoLoss">>
  /\ Append(<<>>, "EchoLoss") = <<"EchoLoss">>
  /\ \A q \in Seq(Verdict), v \in Verdict :
       Append(q, v) \in Seq(Verdict) /\ Append(q, v) # <<>>
       /\ (q # <<>> => Append(q, v) # <<"EchoLoss">>)
<1>1. <<>> # <<"EchoLoss">> /\ Append(<<>>, "EchoLoss") = <<"EchoLoss">>
  OBVIOUS
<1>2. ASSUME NEW q \in Seq(Verdict), NEW v \in Verdict
      PROVE  /\ Append(q, v) \in Seq(Verdict) /\ Append(q, v) # <<>>
             /\ (q # <<>> => Append(q, v) # <<"EchoLoss">>)
  <2>1. Append(q, v) \in Seq(Verdict) /\ Len(Append(q, v)) = Len(q) + 1 /\ Len(q) \in Nat
    BY AppendProperties, LenProperties
  <2>2. Len(<<>>) = 0 /\ Len(<<"EchoLoss">>) = 1
    OBVIOUS
  <2>3. q # <<>> => Len(q) # 0
    BY EmptySeq
  <2> QED BY <2>1, <2>2, <2>3
<1> QED BY <1>1, <1>2

(* Stamps carry no verdict.                                                   *)
LEMMA VerdictOKAttach ==
  ASSUME NEW p, NEW t, NEW n, NEW ver, NEW a, NEW b,
         SameProbes(a, p), SameProbes(b, t), VerdictOK(p, t, n, ver)
  PROVE  VerdictOK(a, b, n, ver)
<1>1. \A u : (\E e \in Members(a) : e.uid = u) <=> (\E e \in Members(p) : e.uid = u)
  BY DEF SameProbes, Members
<1>2. \A e \in Members(b) : \E o \in Members(t) : o.uid = e.uid
  BY DEF SameProbes, Members
<1> QED BY <1>1, <1>2 DEF VerdictOK

(* Entries of one probe have one number.                                      *)
LEMMA OneNumber ==
  ASSUME NEW p, NEW t, NEW c, NEW n, NEW valid, OriginOK(p, t, c, n, valid),
         NEW e \in Members(p) \cup Members(t), NEW o \in Members(p) \cup Members(t),
         e.uid = o.uid
  PROVE  e.seq = o.seq
BY DEF OriginOK, Genuine

LEMMA VerdictOKSend ==
  ASSUME NEW n \in Nat, n < MaxSends, NEW p \in Seq(Entry), NEW t, NEW b, NEW ver,
         Members(b) \subseteq Members(t), VerdictOK(p, t, n, ver),
         NEW e \in Entry, e.uid = n
  PROVE  VerdictOK(Append(p, e), b, n + 1, ver)
<1>1. Members(Append(p, e)) = Members(p) \cup {e}
  BY MembersAppend
<1>2. MaxSends \in Nat /\ n \in Probes
  BY ConstantsAssumption DEF Probes
<1>3. ver[n] = <<>>
  BY <1>2 DEF VerdictOK
<1>4. ASSUME NEW u \in 0 .. n
      PROVE  (\E o \in Members(p) \cup {e} : o.uid = u) <=> ver[u] = <<>>
  <2>1. CASE u = n
    BY <1>3, <2>1
  <2>2. CASE u # n
    <3>1. u \in 0 .. n - 1
      BY <2>2
    <3> QED BY <2>2, <3>1 DEF VerdictOK
  <2> QED BY <2>1, <2>2
<1>5. 0 .. (n + 1) - 1 = 0 .. n
  OBVIOUS
<1>6. \A u \in Probes : u >= n + 1 => ver[u] = <<>>
  BY <1>2 DEF VerdictOK, Probes
<1> QED BY <1>1, <1>4, <1>5, <1>6 DEF VerdictOK

(* The answer to a pending probe is its first verdict.                        *)
LEMMA VerdictOKAnswer ==
  ASSUME NEW n \in Nat, n <= MaxSends, NEW valid, NEW p, NEW t, NEW c, StoresOK(p, t, c),
         OriginOK(p, t, c, n, valid), NEW ver \in [Probes -> Seq(Verdict)],
         VerdictOK(p, t, n, ver), NEW s, Tracks(p, s), NEW v \in Verdict
  PROVE  LET x == Lookup(p, s).uid
         IN  /\ x \in 0 .. n - 1 /\ x \in Probes /\ ver[x] = <<>>
             /\ VerdictOK(Unlink(p, s), t, n, [ver EXCEPT ![x] = Append(@, v)])
<1> DEFINE e == Lookup(p, s)
           x == e.uid
           w == [ver EXCEPT ![x] = Append(@, v)]
<1>0. p \in Seq(Entry) /\ t \in Seq(Entry) /\ Distinct(p) /\ MaxSends \in Nat
  BY ConstantsAssumption DEF StoresOK
<1>1. e \in Members(p) /\ e.seq = s
  BY <1>0, LookupFacts
<1> HIDE DEF e
<1>2. x \in 0 .. n - 1 /\ x \in Probes
  BY <1>0, <1>1 DEF OriginOK, Genuine, Probes
<1>3. ver[x] = <<>>
  BY <1>1, <1>2 DEF VerdictOK
<1>4. Members(Unlink(p, s)) = { o \in Members(p) : o.seq # s }
  BY <1>0, MembersUnlink
<1>5. /\ w[x] # <<>> /\ \A u \in Probes : u # x => w[u] = ver[u]
  BY <1>2, VerdictLists
<1> HIDE DEF w
<1>6. ASSUME NEW u \in 0 .. n - 1
      PROVE  (\E o \in Members(Unlink(p, s)) : o.uid = u) <=> w[u] = <<>>
  <2>1. CASE u = x
    BY <1>1, <1>4, <1>5, <2>1, OneNumber
  <2>2. CASE u # x
    <3>1. w[u] = ver[u]
      BY <1>0, <1>5, <2>2 DEF Probes
    <3>2. \A o \in Members(p) : o.uid = u => o.seq # s
      <4> SUFFICES ASSUME NEW o \in Members(p), o.uid = u, o.seq = s PROVE FALSE
        OBVIOUS
      <4>1. o = e
        BY <1>0, <1>1 DEF Members, Distinct
      <4> QED BY <2>2, <4>1
    <3> QED BY <1>4, <3>1, <3>2 DEF VerdictOK
  <2> QED BY <2>1, <2>2
<1>7. \A o \in Members(t) : w[o.uid] = <<"EchoLoss">>
  <2> SUFFICES ASSUME NEW o \in Members(t) PROVE w[o.uid] = <<"EchoLoss">>
    OBVIOUS
  <2>1. ver[o.uid] = <<"EchoLoss">>
    BY DEF VerdictOK
  <2>2. o.uid # x
    BY <1>3, <2>1, VerdictLists
  <2>3. o.uid \in Probes
    BY <1>0 DEF OriginOK, Genuine, Probes
  <2> QED BY <1>5, <2>1, <2>2, <2>3
<1>8. \A u \in Probes : u >= n => w[u] = <<>>
  <2>1. \A u \in Probes : u >= n => u # x
    BY <1>2 DEF Probes
  <2> QED BY <1>5, <2>1 DEF VerdictOK
<1>9. VerdictOK(Unlink(p, s), t, n, w)
  BY <1>6, <1>7, <1>8 DEF VerdictOK
<1> QED BY <1>2, <1>3, <1>9 DEF e, w

(* The answer to a timed-out probe is its second verdict.                     *)
LEMMA VerdictOKLate ==
  ASSUME NEW n \in Nat, n <= MaxSends, NEW valid, NEW p, NEW t, NEW c, StoresOK(p, t, c),
         OriginOK(p, t, c, n, valid), NEW ver \in [Probes -> Seq(Verdict)],
         VerdictOK(p, t, n, ver), NEW s, Tracks(t, s)
  PROVE  LET x == Lookup(t, s).uid
         IN  /\ x \in 0 .. n - 1 /\ x \in Probes /\ ver[x] = <<"EchoLoss">>
             /\ VerdictOK(p, Unlink(t, s), n, [ver EXCEPT ![x] = Append(@, "LateReply")])
<1> DEFINE e == Lookup(t, s)
           x == e.uid
           w == [ver EXCEPT ![x] = Append(@, "LateReply")]
<1>0. p \in Seq(Entry) /\ t \in Seq(Entry) /\ Distinct(t) /\ MaxSends \in Nat
  BY ConstantsAssumption DEF StoresOK
<1>1. e \in Members(t) /\ e.seq = s
  BY <1>0, LookupFacts
<1> HIDE DEF e
<1>2. x \in 0 .. n - 1 /\ x \in Probes
  BY <1>0, <1>1 DEF OriginOK, Genuine, Probes
<1>3. ver[x] = <<"EchoLoss">>
  BY <1>1 DEF VerdictOK
<1>4. Members(Unlink(t, s)) = { o \in Members(t) : o.seq # s }
  BY <1>0, MembersUnlink
<1>5. /\ w[x] # <<>> /\ \A u \in Probes : u # x => w[u] = ver[u]
  <2>1. ver[x] \in Seq(Verdict) /\ "LateReply" \in Verdict
    BY <1>2 DEF Verdict
  <2>2. w[x] = Append(ver[x], "LateReply") /\ \A u \in Probes : u # x => w[u] = ver[u]
    BY <1>2
  <2> QED BY <2>1, <2>2, VerdictLists
<1> HIDE DEF w
<1>6. \A u \in Probes : w[u] = <<>> <=> ver[u] = <<>>
  BY <1>3, <1>5, VerdictLists
<1>7. \A u \in 0 .. n - 1 : u \in Probes
  BY <1>0 DEF Probes
<1>8. \A o \in Members(Unlink(t, s)) : w[o.uid] = <<"EchoLoss">>
  <2> SUFFICES ASSUME NEW o \in Members(t), o.seq # s PROVE w[o.uid] = <<"EchoLoss">>
    BY <1>4
  <2>1. ver[o.uid] = <<"EchoLoss">>
    BY DEF VerdictOK
  <2>2. o.uid # x
    BY <1>1, OneNumber
  <2>3. o.uid \in Probes
    BY <1>0 DEF OriginOK, Genuine, Probes
  <2> QED BY <1>5, <2>1, <2>2, <2>3
<1>9. VerdictOK(p, Unlink(t, s), n, w)
  BY <1>6, <1>7, <1>8 DEF VerdictOK
<1> QED BY <1>2, <1>3, <1>9 DEF e, w

(* The verdicts after a timeout pass over the first k of p.                   *)
Losses(p, k, ver) ==
  [u \in Probes |-> IF \E i \in 1 .. k : p[i].uid = u
                    THEN Append(ver[u], "EchoLoss") ELSE ver[u]]

(* A timeout pass gives each probe it moves its first verdict.                *)
LEMMA VerdictOKDrain ==
  ASSUME NEW n \in Nat, n <= MaxSends, NEW valid, NEW p, NEW t, NEW c, StoresOK(p, t, c),
         OriginOK(p, t, c, n, valid), NEW ver \in [Probes -> Seq(Verdict)],
         VerdictOK(p, t, n, ver), NEW k \in 0 .. Len(p)
  PROVE  /\ \A i \in 1 .. k : p[i].uid \in 0 .. n - 1 /\ p[i].uid \in Probes /\ ver[p[i].uid] = <<>>
         /\ VerdictOK(SubSeq(p, k + 1, Len(p)), Retain(t, SubSeq(p, 1, k)), n, Losses(p, k, ver))
<1> DEFINE a == SubSeq(p, k + 1, Len(p))
           b == Retain(t, SubSeq(p, 1, k))
           w == Losses(p, k, ver)
           Due(u) == \E i \in 1 .. k : p[i].uid = u
<1>0. /\ p \in Seq(Entry) /\ t \in Seq(Entry) /\ Distinct(p) /\ MaxSends \in Nat
      /\ Len(p) \in Nat /\ DOMAIN p = 1 .. Len(p)
  BY ConstantsAssumption, LenProperties DEF StoresOK
<1>1. /\ Members(a) = { p[i] : i \in k + 1 .. Len(p) }
      /\ Members(b) \subseteq Members(t) \cup { p[i] : i \in 1 .. k }
  BY <1>0, MembersDrain
<1>2. k + 1 .. Len(p) \subseteq DOMAIN p /\ 1 .. k \subseteq DOMAIN p
  BY <1>0
<1>3. \A i \in 1 .. k : p[i].uid \in 0 .. n - 1 /\ p[i].uid \in Probes /\ ver[p[i].uid] = <<>>
  <2> SUFFICES ASSUME NEW i \in 1 .. k
               PROVE  p[i].uid \in 0 .. n - 1 /\ p[i].uid \in Probes /\ ver[p[i].uid] = <<>>
    OBVIOUS
  <2>1. p[i] \in Members(p)
    BY <1>2 DEF Members
  <2>2. p[i].uid \in 0 .. n - 1 /\ p[i].uid \in Probes
    BY <1>0, <2>1 DEF OriginOK, Genuine, Probes
  <2> QED BY <2>1, <2>2 DEF VerdictOK
<1>4. /\ \A u \in Probes : Due(u) => w[u] = <<"EchoLoss">>
      /\ \A u \in Probes : ~Due(u) => w[u] = ver[u]
  <2>1. \A u \in Probes : w[u] = IF Due(u) THEN Append(ver[u], "EchoLoss") ELSE ver[u]
    BY DEF Losses
  <2>2. \A u \in Probes : Due(u) => ver[u] = <<>>
    BY <1>3
  <2> HIDE DEF w, Due
  <2> QED BY <2>1, <2>2, VerdictLists
<1>5. \A u \in 0 .. n - 1 : u \in Probes
  BY <1>0 DEF Probes
<1> HIDE DEF a, b, w
<1>6. ASSUME NEW u \in 0 .. n - 1
      PROVE  (\E e \in Members(a) : e.uid = u) <=> w[u] = <<>>
  <2>1. CASE Due(u)
    <3>1. PICK i \in 1 .. k : p[i].uid = u
      BY <2>1
    <3>2. \A j \in k + 1 .. Len(p) : p[j].uid # u
      <4> SUFFICES ASSUME NEW j \in k + 1 .. Len(p), p[j].uid = u PROVE FALSE
        OBVIOUS
      <4>1. i \in DOMAIN p /\ j \in DOMAIN p /\ i # j
        BY <1>0
      <4>2. p[i].seq = p[j].seq
        BY <3>1, <4>1, OneNumber DEF Members
      <4> QED BY <1>0, <4>1, <4>2 DEF Distinct
    <3>3. w[u] # <<>>
      BY <1>4, <1>5, <2>1, VerdictLists
    <3> QED BY <1>1, <3>2, <3>3
  <2>2. CASE ~Due(u)
    <3>1. w[u] = ver[u]
      BY <1>4, <1>5, <2>2
    <3>2. (\E e \in Members(p) : e.uid = u) <=> ver[u] = <<>>
      BY DEF VerdictOK
    <3>3. ASSUME NEW e \in Members(p), e.uid = u PROVE e \in Members(a)
      <4>1. PICK i \in DOMAIN p : e = p[i]
        BY DEF Members
      <4>2. i \notin 1 .. k
        BY <2>2, <3>3, <4>1
      <4>3. i \in k + 1 .. Len(p)
        BY <1>0, <4>1, <4>2
      <4> QED BY <1>1, <4>1, <4>3
    <3>4. Members(a) \subseteq Members(p)
      BY <1>1, <1>2 DEF Members
    <3> QED BY <3>1, <3>2, <3>3, <3>4
  <2> QED BY <2>1, <2>2
<1>7. \A e \in Members(b) : w[e.uid] = <<"EchoLoss">>
  <2> SUFFICES ASSUME NEW e \in Members(b) PROVE w[e.uid] = <<"EchoLoss">>
    OBVIOUS
  <2>1. CASE e \in { p[i] : i \in 1 .. k }
    BY <1>3, <1>4, <2>1
  <2>2. CASE e \in Members(t)
    <3>1. e.uid \in Probes
      BY <1>0, <2>2 DEF OriginOK, Genuine, Probes
    <3>2. ver[e.uid] = <<"EchoLoss">>
      BY <2>2 DEF VerdictOK
    <3>3. ~Due(e.uid)
      BY <1>3, <3>2, VerdictLists
    <3> QED BY <1>4, <3>1, <3>2, <3>3
  <2> QED BY <1>1, <2>1, <2>2
<1>8. \A u \in Probes : u >= n => w[u] = <<>>
  <2>1. \A u \in Probes : u >= n => ~Due(u)
    BY <1>3 DEF Probes
  <2> QED BY <1>4, <2>1 DEF VerdictOK
<1>9. VerdictOK(a, b, n, w)
  BY <1>6, <1>7, <1>8 DEF VerdictOK
<1> QED BY <1>3, <1>9 DEF a, b, w

(* What the stores and verdicts are when a handler has drained the queue.     *)
LEMMA DrainedVerdicts ==
  ASSUME StoreInv, OriginInv, VerdictInv, state = "Open", NEW K \in Drains(kernelIds)
  PROVE  LET p == Attach(pending, K)
             t == AttachTimedOut(p, timedOut, K)
         IN  /\ packetsSent \in Nat /\ packetsSent <= MaxSends
             /\ verdicts \in [Probes -> Seq(Verdict)]
             /\ StoresOK(p, t, completed)
             /\ OriginOK(p, t, completed, packetsSent, txValid)
             /\ VerdictOK(p, t, packetsSent, verdicts)
<1> DEFINE p == Attach(pending, K)
           t == AttachTimedOut(p, timedOut, K)
           L == { k \in K : ~Tracks(pending, WireSeq(k)) }
<1>1. /\ K \in SUBSET Nat /\ t = AttachTimedOut(pending, timedOut, K)
      /\ StoresOK(p, t, completed) /\ OriginOK(p, t, completed, packetsSent, txValid)
      /\ SameProbes(p, pending)
  BY DrainedStores
<1>2. /\ packetsSent \in Nat /\ packetsSent <= MaxSends
      /\ verdicts \in [Probes -> Seq(Verdict)] /\ timedOut \in Seq(Entry)
  BY StoreInvParts, ConstantsAssumption DEF ScalarsOK, StoresOK, Verdict
<1>3. SameProbes(t, timedOut)
  <2>1. L \in SUBSET Nat
    BY <1>1
  <2>2. t = Attach(timedOut, L)
    BY <1>1 DEF AttachTimedOut
  <2> HIDE DEF t, L
  <2> QED BY <1>2, <2>1, <2>2, AttachFacts
<1>4. VerdictOK(pending, timedOut, packetsSent, verdicts)
  BY DEF VerdictInv, Live
<1> HIDE DEF p, t
<1>5. VerdictOK(p, t, packetsSent, verdicts)
  BY <1>1, <1>3, <1>4, VerdictOKAttach
<1> QED BY <1>1, <1>2, <1>5 DEF p, t

(* What a reply may do to the verdicts: nothing, or answer one probe.         *)
Answers(x) ==
  /\ x \in 0 .. packetsSent - 1 /\ x \in Probes
  /\ \E v \in {"EchoReply", "LateReply"} :
       /\ verdicts[x] = <<>> \/ (verdicts[x] = <<"EchoLoss">> /\ v = "LateReply")
       /\ verdicts' = [verdicts EXCEPT ![x] = Append(@, v)]

LEMMA ReceiveVerdicts ==
  ASSUME StoreInv, OriginInv, VerdictInv, NEW u \in Probes, NEW close \in BOOLEAN,
         NEW K \in Drains(kernelIds), Receive(u, close, K)
  PROVE  /\ VerdictInv'
         /\ verdicts' = verdicts \/ \E x \in Probes : Answers(x)
<1> DEFINE p == Attach(pending, K)
           t == AttachTimedOut(p, timedOut, K)
           s == WireSeq(u)
           n == packetsSent
<1>1. /\ n \in Nat /\ n <= MaxSends /\ verdicts \in [Probes -> Seq(Verdict)]
      /\ StoresOK(p, t, completed) /\ OriginOK(p, t, completed, n, txValid)
      /\ VerdictOK(p, t, n, verdicts)
  BY DrainedVerdicts DEF Receive
<1>2. \/ ReplyToPending(u, close, p, t) \/ DuplicateReply(u, close, p, t)
      \/ ReplyToTimedOut(u, close, p, t) \/ UntrackedReply(u, close, p, t)
  BY DEF Receive
<1>3. packetsSent' = packetsSent
  BY DEF Receive
<1> HIDE DEF p, t, s
<1>4. ASSUME NEW P, NEW T, NEW C, NEW h, Settle(close, P, T, C, h), VerdictOK(P, T, n, verdicts')
      PROVE  VerdictInv'
  <2>1. CASE close
    BY <1>4, <2>1 DEF Settle, VerdictInv, Live
  <2>2. CASE ~close
    BY <1>3, <1>4, <2>2 DEF Settle, VerdictInv
  <2> QED BY <2>1, <2>2
<1>5. CASE ReplyToPending(u, close, p, t)
  <2> DEFINE x == Lookup(p, s).uid
  <2>1. PICK v \in {"EchoReply", "LateReply"} : Emit(x, v)
    BY <1>5 DEF ReplyToPending, s
  <2>2. Tracks(p, s) /\ Settle(close, Unlink(p, s), t, RememberAnswer(completed, Lookup(p, s)),
                               UpdateHighest(highest, s))
    BY <1>5 DEF ReplyToPending, s
  <2>3. v \in Verdict
    BY <2>1 DEF Verdict
  <2>4. /\ x \in 0 .. n - 1 /\ x \in Probes /\ verdicts[x] = <<>>
        /\ VerdictOK(Unlink(p, s), t, n, verdicts')
    BY <1>1, <2>1, <2>2, <2>3, VerdictOKAnswer DEF Emit
  <2>5. verdicts' = [verdicts EXCEPT ![x] = Append(@, v)]
    BY <2>1 DEF Emit
  <2>6. VerdictInv'
    BY <1>4, <2>2, <2>4
  <2> HIDE DEF x
  <2>7. Answers(x)
    <3>1. \E w \in {"EchoReply", "LateReply"} :
            /\ verdicts[x] = <<>> \/ (verdicts[x] = <<"EchoLoss">> /\ w = "LateReply")
            /\ verdicts' = [verdicts EXCEPT ![x] = Append(@, w)]
      <4> WITNESS v \in {"EchoReply", "LateReply"}
      <4> QED BY <2>4, <2>5
    <3> QED BY <2>4, <3>1 DEF Answers
  <2> QED BY <2>4, <2>6, <2>7
<1>6. CASE ReplyToTimedOut(u, close, p, t)
  <2> DEFINE x == Lookup(t, s).uid
  <2>1. Emit(x, "LateReply")
    BY <1>6 DEF ReplyToTimedOut, s
  <2>2. Tracks(t, s) /\ Settle(close, p, Unlink(t, s), RememberAnswer(completed, Lookup(t, s)),
                               UpdateHighest(highest, s))
    BY <1>6 DEF ReplyToTimedOut, s
  <2>3. /\ x \in 0 .. n - 1 /\ x \in Probes /\ verdicts[x] = <<"EchoLoss">>
        /\ VerdictOK(p, Unlink(t, s), n, verdicts')
    <3>1. LET y == Lookup(t, s).uid
          IN  /\ y \in 0 .. n - 1 /\ y \in Probes /\ verdicts[y] = <<"EchoLoss">>
              /\ VerdictOK(p, Unlink(t, s), n, [verdicts EXCEPT ![y] = Append(@, "LateReply")])
      BY <1>1, <2>2, VerdictOKLate
    <3> QED BY <2>1, <3>1 DEF Emit
  <2>4. verdicts' = [verdicts EXCEPT ![x] = Append(@, "LateReply")]
    BY <2>1 DEF Emit
  <2>5. VerdictInv'
    BY <1>4, <2>2, <2>3
  <2> HIDE DEF x
  <2>6. Answers(x)
    BY <2>3, <2>4 DEF Answers
  <2> QED BY <2>3, <2>5, <2>6
<1>7. CASE DuplicateReply(u, close, p, t)
  BY <1>1, <1>4, <1>7 DEF DuplicateReply
<1>8. CASE UntrackedReply(u, close, p, t)
  BY <1>1, <1>4, <1>8 DEF UntrackedReply
<1> QED BY <1>2, <1>5, <1>6, <1>7, <1>8

(* What a timeout pass does to them: it loses a set of unresolved probes.     *)
LEMMA PollVerdicts ==
  ASSUME StoreInv, OriginInv, VerdictInv, NEW limit \in 1 .. MaxPending,
         NEW K \in Drains(kernelIds), PollTimeouts(limit, K)
  PROVE  /\ VerdictInv'
         /\ \E S \in SUBSET Probes :
              /\ \A x \in S : x < packetsSent /\ verdicts[x] = <<>>
              /\ verdicts' = [x \in Probes |-> IF x \in S THEN <<"EchoLoss">> ELSE verdicts[x]]
<1> DEFINE p == Attach(pending, K)
           t == AttachTimedOut(p, timedOut, K)
           n == packetsSent
<1>1. /\ n \in Nat /\ n <= MaxSends /\ verdicts \in [Probes -> Seq(Verdict)]
      /\ StoresOK(p, t, completed) /\ OriginOK(p, t, completed, n, txValid)
      /\ VerdictOK(p, t, n, verdicts)
  BY DrainedVerdicts DEF PollTimeouts
<1>2. SameProbes(p, pending)
  BY DrainedStores DEF PollTimeouts
<1>3. PICK k \in 0 .. Len(pending) :
        /\ pending' = SubSeq(p, k + 1, Len(p))
        /\ timedOut' = Retain(t, SubSeq(p, 1, k))
        /\ verdicts' = Losses(p, k, verdicts)
  BY DEF PollTimeouts, Losses
<1>4. k \in 0 .. Len(p) /\ packetsSent' = n
  BY <1>2, <1>3 DEF SameProbes, PollTimeouts
<1> HIDE DEF p, t
<1>5. /\ \A i \in 1 .. k : p[i].uid \in 0 .. n - 1 /\ p[i].uid \in Probes /\ verdicts[p[i].uid] = <<>>
      /\ VerdictOK(pending', timedOut', n, verdicts')
  BY <1>1, <1>3, <1>4, VerdictOKDrain
<1>6. VerdictInv'
  BY <1>4, <1>5 DEF VerdictInv
<1> DEFINE S == { p[i].uid : i \in 1 .. k }
<1>7. S \in SUBSET Probes /\ \A x \in S : x < n /\ verdicts[x] = <<>>
  BY <1>1, <1>5
<1>8. verdicts' = [x \in Probes |-> IF x \in S THEN <<"EchoLoss">> ELSE verdicts[x]]
  <2>1. verdicts' = [x \in Probes |-> IF x \in S THEN Append(verdicts[x], "EchoLoss") ELSE verdicts[x]]
    <3>1. \A x : (\E i \in 1 .. k : p[i].uid = x) <=> x \in S
      OBVIOUS
    <3> QED BY <1>3, <3>1 DEF Losses
  <2> HIDE DEF S
  <2>2. \A x \in S : Append(verdicts[x], "EchoLoss") = <<"EchoLoss">>
    BY <1>7, VerdictLists
  <2> QED BY <2>1, <2>2
<1> QED BY <1>6, <1>7, <1>8

(* A sent probe has no verdict yet.                                           *)
LEMMA SendVerdicts ==
  ASSUME StoreInv, VerdictInv, NEW d \in 0 .. MaxSendTime, NEW K \in Drains(kernelIds + 1),
         SendProbe(d, K)
  PROVE  VerdictInv'
<1> DEFINE e == FinalizeProbeCommit
           n == packetsSent
           p == Append(pending, e)
           t == Recycle(timedOut, e.seq)
           L == { k \in K : ~Tracks(p, WireSeq(k)) }
<1>1. ScalarsOK /\ StoresOK(pending, timedOut, completed)
  BY StoreInvParts
<1>2. n \in Nat /\ n < MaxSends /\ kernelIds + 1 \in Nat /\ state = "Open"
  BY <1>1, ConstantsAssumption DEF ScalarsOK, SendProbe, Preflight
<1>3. e \in Entry /\ e.uid = n
  BY <1>1, <1>2, ConstantsAssumption DEF FinalizeProbeCommit, Entry, ScalarsOK, SendProbe, Preflight
<1>4. K \in SUBSET Nat /\ L \in SUBSET Nat
  BY <1>2, DrainsAreNumbers
<1>5. /\ pending' = Attach(p, K) /\ timedOut' = Attach(t, L) /\ packetsSent' = n + 1
      /\ verdicts' = verdicts
  BY DEF SendProbe, CommitProbeSent, CommitInsert, AttachTimedOut
<1>6. VerdictOK(pending, timedOut, n, verdicts)
  BY <1>2 DEF VerdictInv, Live
<1> HIDE DEF e, L
<1>7. Members(t) \subseteq Members(timedOut)
  BY <1>1, MembersUnlink DEF StoresOK, Recycle
<1>8. p \in Seq(Entry) /\ t \in Seq(Entry) /\ pending \in Seq(Entry)
  BY <1>1, <1>3, AppendProperties, UnlinkFacts DEF StoresOK, Recycle
<1>9. VerdictOK(p, t, n + 1, verdicts)
  <2> HIDE DEF t
  <2> QED BY <1>2, <1>3, <1>6, <1>7, <1>8, VerdictOKSend
<1> HIDE DEF p, t
<1>10. SameProbes(pending', p) /\ SameProbes(timedOut', t)
  BY <1>4, <1>5, <1>8, AttachFacts
<1>11. VerdictOK(pending', timedOut', n + 1, verdicts)
  BY <1>9, <1>10, VerdictOKAttach
<1> QED BY <1>5, <1>11 DEF VerdictInv

(* A step that touches neither the probes nor their verdicts, and does not    *)
(* end the session, is invisible to the consumer of the events.               *)
LEMMA Invisible ==
  ASSUME VerdictInv, packetsSent' = packetsSent, verdicts' = verdicts,
         pending' = pending, timedOut' = timedOut,
         state' = state \/ (state = "Connected" /\ state' \in {"Open", "NoTestCompleted"})
  PROVE  VerdictInv' /\ UNCHANGED Abstract!avars
<1>1. VerdictInv'
  BY DEF VerdictInv, Live
<1>2. (state \in {"ClosedLocal", "ClosedPeer"})' = (state \in {"ClosedLocal", "ClosedPeer"})
  OBVIOUS
<1> QED BY <1>1, <1>2 DEF Abstract!avars

(* Every step keeps VerdictInv and is a step of ProbeVerdicts, or none.       *)
LEMMA VerdictStep ==
  ASSUME StoreInv, OriginInv, VerdictInv, [Next]_vars
  PROVE  VerdictInv' /\ [Abstract!VNext]_(Abstract!avars)
<1> DEFINE Goal == VerdictInv' /\ [Abstract!VNext]_(Abstract!avars)
<1>0. ScalarsOK /\ StoresOK(pending, timedOut, completed)
  BY StoreInvParts
<1>1. ASSUME AcceptOpen \/ PrepareProbe \/ DiscardPreparedProbe \/ Tick
             \/ (\E consumed \in {0, 1} : SendFails(consumed)) \/ UNCHANGED vars
      PROVE  Goal
  <2>1. /\ packetsSent' = packetsSent /\ verdicts' = verdicts
        /\ pending' = pending /\ timedOut' = timedOut
        /\ state' = state \/ (state = "Connected" /\ state' \in {"Open", "NoTestCompleted"})
    BY <1>1 DEF AcceptOpen, PrepareProbe, DiscardPreparedProbe, Tick, SendFails, vars
  <2> QED BY <2>1, Invisible
<1>2. ASSUME LocalClose PROVE Goal
  <2>1. state = "Open" /\ state' = "ClosedLocal" /\ UNCHANGED <<packetsSent, verdicts>>
    BY <1>2 DEF LocalClose
  <2>2. VerdictInv'
    BY <2>1 DEF VerdictInv, Live
  <2>3. Abstract!End
    BY <2>1 DEF Abstract!End
  <2> QED BY <2>2, <2>3 DEF Abstract!VNext
<1>3. ASSUME NEW d \in 0 .. MaxSendTime, NEW K \in Drains(kernelIds + 1), SendProbe(d, K)
      PROVE  Goal
  <2>1. VerdictInv'
    BY <1>3, SendVerdicts
  <2>2. /\ state = "Open" /\ state' = state /\ packetsSent \in Probes
        /\ packetsSent' = packetsSent + 1 /\ verdicts' = verdicts
    BY <1>0, <1>3, ConstantsAssumption
       DEF SendProbe, Preflight, CommitProbeSent, ScalarsOK, Probes
  <2>3. Abstract!Send
    BY <2>2 DEF Abstract!Send
  <2> QED BY <2>1, <2>3 DEF Abstract!VNext
<1>4. ASSUME NEW u \in Probes, NEW close \in BOOLEAN, NEW K \in Drains(kernelIds),
             Receive(u, close, K)
      PROVE  Goal
  <2>1. VerdictInv' /\ (verdicts' = verdicts \/ \E x \in Probes : Answers(x))
    BY <1>4, ReceiveVerdicts
  <2>2. state = "Open" /\ state' \in {"Open", "ClosedPeer"} /\ packetsSent' = packetsSent
    BY <1>4 DEF Receive, ReplyToPending, DuplicateReply, ReplyToTimedOut, UntrackedReply, Settle
  <2>3. CASE verdicts' = verdicts
    <3>1. CASE state' = "Open"
      BY <2>1, <2>2, <2>3, <3>1 DEF Abstract!avars
    <3>2. CASE state' = "ClosedPeer"
      BY <2>1, <2>2, <2>3, <3>2 DEF Abstract!VNext, Abstract!End
    <3> QED BY <2>2, <3>1, <3>2
  <2>4. ASSUME NEW x \in Probes, Answers(x) PROVE Goal
    <3>1. Abstract!Answer(x)
      <4>1. packetsSent \in Nat
        BY <1>0, ConstantsAssumption DEF ScalarsOK
      <4>2. x < packetsSent
        BY <2>4, <4>1 DEF Answers
      <4>3. \E v \in {"EchoReply", "LateReply"} :
              /\ \/ verdicts[x] = <<>>
                 \/ verdicts[x] = <<"EchoLoss">> /\ v = "LateReply"
              /\ verdicts' = [verdicts EXCEPT ![x] = Append(@, v)]
        BY <2>4 DEF Answers
      <4>4. (state \in {"ClosedLocal", "ClosedPeer"})' \in BOOLEAN
        OBVIOUS
      <4> QED BY <2>2, <4>2, <4>3, <4>4 DEF Abstract!Answer
    <3> QED BY <2>1, <3>1 DEF Abstract!VNext
  <2> QED BY <2>1, <2>3, <2>4
<1>5. ASSUME NEW K \in Drains(kernelIds), DropDatagram(K) PROVE Goal
  <2>1. /\ state = "Open" /\ state' = state /\ UNCHANGED <<packetsSent, verdicts>>
        /\ pending' = Attach(pending, K) /\ timedOut' = AttachTimedOut(pending, timedOut, K)
    BY <1>5 DEF DropDatagram
  <2>2. /\ AttachTimedOut(Attach(pending, K), timedOut, K) = AttachTimedOut(pending, timedOut, K)
        /\ VerdictOK(Attach(pending, K), AttachTimedOut(Attach(pending, K), timedOut, K),
                     packetsSent, verdicts)
    BY <2>1, DrainedStores, DrainedVerdicts
  <2>3. VerdictInv'
    BY <2>1, <2>2 DEF VerdictInv
  <2> QED BY <2>1, <2>3 DEF Abstract!avars
<1>6. ASSUME NEW limit \in 1 .. MaxPending, NEW K \in Drains(kernelIds), PollTimeouts(limit, K)
      PROVE  Goal
  <2>1. VerdictInv'
    BY <1>6, PollVerdicts
  <2>2. PICK S \in SUBSET Probes :
          /\ \A x \in S : x < packetsSent /\ verdicts[x] = <<>>
          /\ verdicts' = [x \in Probes |-> IF x \in S THEN <<"EchoLoss">> ELSE verdicts[x]]
    BY <1>6, PollVerdicts
  <2>3. state = "Open" /\ state' = state /\ packetsSent' = packetsSent
    BY <1>6 DEF PollTimeouts
  <2>4. CASE S = {}
    <3>1. verdicts' = verdicts
      BY <1>0, <2>2, <2>4 DEF ScalarsOK
    <3> QED BY <2>1, <2>3, <3>1 DEF Abstract!avars
  <2>5. CASE S # {}
    <3>1. Abstract!Lose(S)
      BY <2>2, <2>3, <2>5 DEF Abstract!Lose
    <3> QED BY <2>1, <3>1 DEF Abstract!VNext
  <2> QED BY <2>4, <2>5
<1> QED BY <1>1, <1>2, <1>3, <1>4, <1>5, <1>6 DEF Next

(* The two invariants the promises about lists and verdicts rest on.          *)
THEOREM ListInvariant == Spec => [](OrderInv /\ VerdictInv)
<1>1. Init => OrderInv
  BY DEF Init, OrderInv, OrderOK, Ordered, Members
<1>2. Init => VerdictInv
  BY ConstantsAssumption DEF Init, VerdictInv, VerdictOK, Members, Probes
<1>3. StoreInv /\ OriginInv /\ VerdictInv /\ [Next]_vars => VerdictInv'
  BY VerdictStep
<1> QED BY <1>1, <1>2, <1>3, OrderStep, StoreInvariant, OriginInvariant, PTL DEF Spec

(* The head and the tails of the two intrusive lists are the extreme deadlines*)
(* whatever was unlinked in between, and while the session is open a sent     *)
(* probe is pending exactly when no verdict was announced for it (probe.rs:   *)
(* PendingMap, TimedOutMap).                                                  *)
THEOREM ListsAlwaysAccount == Spec => []ListsAccount
<1>1. StoreInv /\ OrderInv /\ VerdictInv => ListsAccount
  <2> SUFFICES ASSUME StoreInv, OrderInv, VerdictInv PROVE ListsAccount
    OBVIOUS
  <2>1. DeadlinesAtEnds
    BY OrderGivesDeadlines
  <2>2. ProbesAccounted
    <3> SUFFICES ASSUME state = "Open", NEW u \in 0 .. packetsSent - 1
                 PROVE  (\E i \in DOMAIN pending : pending[i].uid = u) <=> verdicts[u] = <<>>
      BY DEF ProbesAccounted
    <3>1. (\E e \in Members(pending) : e.uid = u) <=> verdicts[u] = <<>>
      BY DEF VerdictInv, VerdictOK, Live
    <3> QED BY <3>1 DEF Members
  <2> QED BY <2>1, <2>2 DEF ListsAccount
<1> QED BY <1>1, StoreInvariant, ListInvariant, PTL

(* The session implements what it promises the consumer of its events: every  *)
(* probe gets at most one answer and at most one loss, and never a loss after *)
(* an answer.                                                                  *)
THEOREM VerdictsAlwaysRefine == Spec => VerdictsRefine
<1>1. Init => Abstract!VInit
  BY DEF Init, Abstract!VInit
<1>2. StoreInv /\ OriginInv /\ VerdictInv /\ [Next]_vars => [Abstract!VNext]_(Abstract!avars)
  BY VerdictStep
<1> QED BY <1>1, <1>2, StoreInvariant, OriginInvariant, ListInvariant, PTL
        DEF Spec, VerdictsRefine, Abstract!VSpec

(***************************************************************************)
(* Late replies                                                             *)
(***************************************************************************)

(* Less than half the space apart, the wrapping comparison of two numbers is  *)
(* the comparison of the probes that carry them.                              *)
LEMMA AfterIffNewer ==
  ASSUME NEW u \in Nat, NEW v \in Nat, u - v < Half, v - u < Half
  PROVE  SequenceIsAfter(WireSeq(u), WireSeq(v)) <=> u > v
<1>1. Half \in Nat /\ SeqSpace = 2 * Half /\ SeqSpace \in Nat /\ Half >= 1
  BY ConstantsAssumption DEF Half
<1>2. u - v < SeqSpace /\ v - u < SeqSpace
  BY <1>1
<1> HIDE DEF Half
<1>3. (WireSeq(u) - WireSeq(v)) % SeqSpace = IF u >= v THEN u - v ELSE u - v + SeqSpace
  BY <1>2, SeqDistance
<1>4. CASE u > v
  <2>1. WireSeq(u) # WireSeq(v)
    BY <1>2, <1>4, SameSeq
  <2>2. (WireSeq(u) - WireSeq(v)) % SeqSpace < Half
    BY <1>1, <1>3, <1>4
  <2> QED BY <1>4, <2>1, <2>2 DEF SequenceIsAfter
<1>5. CASE u = v
  BY <1>5 DEF SequenceIsAfter
<1>6. CASE u < v
  <2>1. ~((WireSeq(u) - WireSeq(v)) % SeqSpace < Half)
    BY <1>1, <1>3, <1>6
  <2> QED BY <1>6, <2>1 DEF SequenceIsAfter
<1> QED BY <1>4, <1>5, <1>6

(* The fifth inductive invariant: until replies jump half the space, the      *)
(* highest number received is the newest answered probe's.                    *)
HighestInv ==
  Live /\ ~jumped => highest = IF newest = None THEN None ELSE WireSeq(newest)

(* A tracked reply moves both together.                                       *)
LEMMA ObserveMovesHighest ==
  ASSUME ScalarsOK, HighestInv, state = "Open", NEW u \in Probes, Observe(u), ~jumped'
  PROVE  /\ UpdateHighest(highest, WireSeq(u)) = WireSeq(newest') /\ newest' # None
         /\ (highest # None /\ SequenceIsBefore(WireSeq(u), highest)) <=> newest > u
<1>0. u \in Nat /\ None = -1 /\ newest \in Nat \cup {None} /\ ~jumped
  BY ConstantsAssumption DEF ScalarsOK, Probes, Observe, None
<1>1. CASE newest = None
  <2>1. newest' = u /\ highest = None
    BY <1>0, <1>1 DEF Observe, HighestInv, Live
  <2> QED BY <1>0, <1>1, <2>1 DEF UpdateHighest
<1>2. CASE newest # None
  <2>1. newest \in Nat /\ highest = WireSeq(newest) /\ highest # None
    <3>1. newest \in Nat /\ highest = WireSeq(newest)
      BY <1>0, <1>2 DEF HighestInv, Live
    <3>2. WireSeq(newest) \in Nat
      BY <3>1, WireSeqType, ConstantsAssumption DEF SeqNos
    <3> QED BY <1>0, <3>1, <3>2
  <2>2. Half \in Int
    BY ConstantsAssumption DEF Half
  <2>3. u - newest < Half /\ newest - u < Half
    <3>1. ~(u - newest >= Half \/ newest - u >= Half)
      BY <1>2 DEF Observe
    <3> QED BY <1>0, <2>1, <2>2, <3>1
  <2>4. /\ SequenceIsAfter(WireSeq(u), highest) <=> u > newest
        /\ SequenceIsAfter(highest, WireSeq(u)) <=> newest > u
    BY <1>0, <2>1, <2>3, AfterIffNewer
  <2>5. newest' = IF u > newest THEN u ELSE newest
    BY DEF Observe
  <2> QED BY <1>0, <2>1, <2>4, <2>5 DEF UpdateHighest, SequenceIsBefore
<1> QED BY <1>1, <1>2

(* Every step keeps HighestInv.                                               *)
LEMMA HighestStep == StoreInv /\ HighestInv /\ [Next]_vars => HighestInv'
<1> SUFFICES ASSUME StoreInv, HighestInv, [Next]_vars PROVE HighestInv'
  OBVIOUS
<1>0. ScalarsOK
  BY StoreInvParts
<1>1. CASE AcceptOpen
  BY <1>1 DEF AcceptOpen, HighestInv, Live
<1>2. CASE LocalClose
  BY <1>2 DEF LocalClose, HighestInv, Live
<1>3. CASE PrepareProbe \/ DiscardPreparedProbe \/ Tick \/ UNCHANGED vars
  BY <1>3 DEF PrepareProbe, DiscardPreparedProbe, Tick, vars, HighestInv, Live
<1>4. ASSUME NEW d \in 0 .. MaxSendTime, NEW K \in Drains(kernelIds + 1), SendProbe(d, K)
      PROVE  HighestInv'
  BY <1>4 DEF SendProbe, HighestInv, Live
<1>5. ASSUME NEW consumed \in {0, 1}, SendFails(consumed) PROVE HighestInv'
  BY <1>5 DEF SendFails, HighestInv, Live
<1>6. ASSUME NEW u \in Probes, NEW close \in BOOLEAN, NEW K \in Drains(kernelIds),
             Receive(u, close, K)
      PROVE  HighestInv'
  <2> DEFINE p == Attach(pending, K)
             t == AttachTimedOut(p, timedOut, K)
             h == UpdateHighest(highest, WireSeq(u))
  <2>1. state = "Open"
    BY <1>6 DEF Receive
  <2>2. \/ Observe(u) /\ \E P, T, C : Settle(close, P, T, C, h)
        \/ UNCHANGED <<newest, jumped>> /\ \E P, T, C : Settle(close, P, T, C, highest)
    BY <1>6 DEF Receive, ReplyToPending, DuplicateReply, ReplyToTimedOut, UntrackedReply
  <2>3. CASE Observe(u) /\ \E P, T, C : Settle(close, P, T, C, h)
    <3>1. CASE close
      BY <2>3, <3>1 DEF Settle, HighestInv, Live
    <3>2. CASE ~close
      <4>1. highest' = h
        BY <2>3, <3>2 DEF Settle
      <4>2. ~jumped' => h = WireSeq(newest') /\ newest' # None
        BY <1>0, <2>1, <2>3, ObserveMovesHighest
      <4> QED BY <4>1, <4>2 DEF HighestInv
    <3> QED BY <3>1, <3>2
  <2>4. CASE UNCHANGED <<newest, jumped>> /\ \E P, T, C : Settle(close, P, T, C, highest)
    BY <2>1, <2>4 DEF Settle, HighestInv, Live
  <2> QED BY <2>2, <2>3, <2>4
<1>7. ASSUME NEW K \in Drains(kernelIds), DropDatagram(K) PROVE HighestInv'
  BY <1>7 DEF DropDatagram, HighestInv, Live
<1>8. ASSUME NEW limit \in 1 .. MaxPending, NEW K \in Drains(kernelIds), PollTimeouts(limit, K)
      PROVE  HighestInv'
  BY <1>8 DEF PollTimeouts, HighestInv, Live
<1> QED BY <1>1, <1>2, <1>3, <1>4, <1>5, <1>6, <1>7, <1>8 DEF Next

(* What LateIffOvertaken says of one step.                                    *)
LateStep ==
  \A u \in Probes :
    (verdicts[u] = <<>> /\ verdicts'[u] \in {<<"EchoReply">>, <<"LateReply">>}
       /\ ~jumped')
    => (verdicts'[u] = <<"LateReply">> <=> newest > u)

(* A reply to a pending probe is the only first answer, and it is judged      *)
(* against the newest answered probe.                                         *)
LEMMA FirstAnswerJudged ==
  ASSUME StoreInv, OriginInv, VerdictInv, HighestInv, NEW u \in Probes, NEW close \in BOOLEAN,
         NEW K \in Drains(kernelIds), Receive(u, close, K)
  PROVE  LateStep
<1> DEFINE p == Attach(pending, K)
           t == AttachTimedOut(p, timedOut, K)
           s == WireSeq(u)
           n == packetsSent
           late == highest # None /\ SequenceIsBefore(s, highest)
<1>0. /\ n \in Nat /\ n <= MaxSends /\ verdicts \in [Probes -> Seq(Verdict)]
      /\ StoresOK(p, t, completed) /\ OriginOK(p, t, completed, n, txValid)
      /\ VerdictOK(p, t, n, verdicts)
  BY DrainedVerdicts DEF Receive
<1>1. /\ <<>> \notin {<<"EchoReply">>, <<"LateReply">>} /\ <<"EchoReply">> # <<"LateReply">>
      /\ Append(<<>>, "EchoReply") = <<"EchoReply">> /\ Append(<<>>, "LateReply") = <<"LateReply">>
  OBVIOUS
<1>2. /\ state = "Open" /\ u < n /\ n - u <= ReplyAge
      /\ \/ ReplyToPending(u, close, p, t) \/ DuplicateReply(u, close, p, t)
         \/ ReplyToTimedOut(u, close, p, t) \/ UntrackedReply(u, close, p, t)
  BY DEF Receive
<1>3. ScalarsOK
  BY StoreInvParts
<1> HIDE DEF p, t
<1>4. CASE DuplicateReply(u, close, p, t) \/ UntrackedReply(u, close, p, t)
  <2>1. verdicts' = verdicts
    BY <1>4 DEF DuplicateReply, UntrackedReply
  <2> QED BY <1>1, <2>1 DEF LateStep
<1>5. CASE ReplyToTimedOut(u, close, p, t)
  <2> DEFINE x == Lookup(t, s).uid
  <2>1. verdicts[x] = <<"EchoLoss">> /\ x \in Probes
    <3>1. Tracks(t, s)
      BY <1>5 DEF ReplyToTimedOut
    <3> HIDE DEF s
    <3>2. LET y == Lookup(t, s).uid
          IN  /\ y \in 0 .. n - 1 /\ y \in Probes /\ verdicts[y] = <<"EchoLoss">>
              /\ VerdictOK(p, Unlink(t, s), n, [verdicts EXCEPT ![y] = Append(@, "LateReply")])
      BY <1>0, <3>1, VerdictOKLate
    <3> QED BY <3>2
  <2>2. verdicts' = [verdicts EXCEPT ![x] = Append(@, "LateReply")]
    BY <1>5 DEF ReplyToTimedOut, Emit
  <2> HIDE DEF x
  <2>3. \A y \in Probes : verdicts[y] = <<>> => verdicts'[y] = <<>>
    BY <1>0, <2>1, <2>2, VerdictLists
  <2> QED BY <1>1, <2>3 DEF LateStep
<1>6. CASE ReplyToPending(u, close, p, t)
  <2> DEFINE e == Lookup(p, s)
  <2>1. Tracks(p, s) /\ Observe(u) /\ Emit(e.uid, IF late THEN "LateReply" ELSE "EchoReply")
    BY <1>6 DEF ReplyToPending
  <2>2. e \in Members(p) /\ e.seq = s
    BY <1>0, <2>1, LookupFacts DEF StoresOK
  <2> HIDE DEF e
  <2>3. e.uid = u
    <3> DEFINE v == e.uid
    <3>1. v \in 0 .. n - 1 /\ n - v <= SeqSpace /\ WireSeq(v) = WireSeq(u)
      BY <1>0, <2>2 DEF OriginOK, Genuine
    <3>2. SeqSpace \in Nat /\ ReplyAge \in Nat /\ ReplyAge <= SeqSpace /\ u \in Nat
      BY ConstantsAssumption DEF Probes
    <3> HIDE DEF v
    <3>3. v \in Nat /\ u - v < SeqSpace /\ v - u < SeqSpace
      BY <1>0, <1>2, <3>1, <3>2
    <3> QED BY <3>1, <3>2, <3>3, SameSeq DEF v
  <2>4. verdicts' = [verdicts EXCEPT ![u] = Append(@, IF late THEN "LateReply" ELSE "EchoReply")]
    BY <2>1, <2>3 DEF Emit
  <2>5. ~jumped' => (late <=> newest > u)
    BY <1>2, <1>3, <2>1, ObserveMovesHighest
  <2> HIDE DEF late, s
  <2>6. \A y \in Probes : y # u => verdicts'[y] = verdicts[y]
    BY <1>0, <2>4
  <2>7. verdicts[u] = <<>> => verdicts'[u] = IF late THEN <<"LateReply">> ELSE <<"EchoReply">>
    BY <1>0, <1>1, <2>4
  <2> QED BY <1>1, <2>5, <2>6, <2>7 DEF LateStep
<1> QED BY <1>2, <1>4, <1>5, <1>6

(* Unless replies jump half the sequence space, a first answer is late exactly*)
(* when a newer probe was answered before it, also across a wrap of the       *)
(* numbers (process_echo_reply, sequence_is_before).                          *)
THEOREM LateAlwaysOvertaken == Spec => LateIffOvertaken
<1>1. Init => HighestInv
  BY DEF Init, HighestInv
<1>2. ASSUME StoreInv, OriginInv, VerdictInv, HighestInv, Next
      PROVE  LateStep
  <2>1. <<>> \notin {<<"EchoReply">>, <<"LateReply">>}
    OBVIOUS
  <2>2. ASSUME verdicts' = verdicts PROVE LateStep
    BY <2>1, <2>2 DEF LateStep
  <2>3. ASSUME NEW u \in Probes, NEW close \in BOOLEAN, NEW K \in Drains(kernelIds),
               Receive(u, close, K)
        PROVE  LateStep
    BY <1>2, <2>3, FirstAnswerJudged
  <2>4. ASSUME NEW limit \in 1 .. MaxPending, NEW K \in Drains(kernelIds), PollTimeouts(limit, K)
        PROVE  LateStep
    <3>1. PICK S \in SUBSET Probes :
            verdicts' = [x \in Probes |-> IF x \in S THEN <<"EchoLoss">> ELSE verdicts[x]]
      BY <1>2, <2>4, PollVerdicts
    <3>2. <<"EchoLoss">> \notin {<<"EchoReply">>, <<"LateReply">>}
      OBVIOUS
    <3>3. \A x \in Probes : verdicts'[x] \in {<<"EchoLoss">>, verdicts[x]}
      BY <3>1
    <3> QED BY <2>1, <3>2, <3>3 DEF LateStep
  <2>5. CASE AcceptOpen \/ LocalClose \/ PrepareProbe \/ DiscardPreparedProbe \/ Tick
    BY <2>2, <2>5 DEF AcceptOpen, LocalClose, PrepareProbe, DiscardPreparedProbe, Tick
  <2>6. ASSUME NEW d \in 0 .. MaxSendTime, NEW K \in Drains(kernelIds + 1), SendProbe(d, K)
        PROVE  LateStep
    BY <2>2, <2>6 DEF SendProbe
  <2>7. ASSUME NEW consumed \in {0, 1}, SendFails(consumed) PROVE LateStep
    BY <2>2, <2>7 DEF SendFails
  <2>8. ASSUME NEW K \in Drains(kernelIds), DropDatagram(K) PROVE LateStep
    BY <2>2, <2>8 DEF DropDatagram
  <2> QED BY <1>2, <2>3, <2>4, <2>5, <2>6, <2>7, <2>8 DEF Next
<1>3. StoreInv /\ OriginInv /\ VerdictInv /\ HighestInv /\ [Next]_vars 
      => [\A u \in Probes :
            (verdicts[u] = <<>> /\ verdicts'[u] \in {<<"EchoReply">>, <<"LateReply">>}
               /\ ~jumped')
            => (verdicts'[u] = <<"LateReply">> <=> newest > u)]_vars
  BY <1>2 DEF LateStep
<1>4. Spec => []HighestInv
  BY <1>1, HighestStep, StoreInvariant, PTL DEF Spec
<1> QED BY <1>3, <1>4, StoreInvariant, OriginInvariant, ListInvariant, PTL
        DEF Spec, LateIffOvertaken
=============================================================================
