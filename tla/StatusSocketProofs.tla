------------------------- MODULE StatusSocketProofs -------------------------
(***************************************************************************)
(* Theorems about the data channel of a daemon (DataStreams), and about    *)
(* the daemons that share a status socket and the snapshots it hands out   *)
(* (StatusSocket).  Finitely many streams, any number of links, peers and  *)
(* starts, relays of any size.                                             *)
(***************************************************************************)
EXTENDS StatusSocket, FiniteSetTheorems, TLAPS

StreamStates == [at : {"idle", "ended"} \cup Setup \cup Counted,
                 peer : Peers \cup {None}, link : LinkIds \cup {None},
                 aToB : Nat, bToA : Nat, eof : SUBSET {"a", "b"}]
LinkStats == [active : Nat, total : Nat, forward : Nat, back : Nat]

\* The streams of a link by how far they are: counted as active and not yet in
\* total, in both, and ended without an error.  The rest of the streams are
\* not opened yet, or were dropped.
OpenOn(l)  == {s \in Streams : stream[s].link = l /\ stream[s].at = "opening"}
RelayOn(l) == {s \in Streams : stream[s].link = l /\ stream[s].at = "relay"}
DoneOn(l)  == {s \in Streams : stream[s].link = l /\ stream[s].at = "ended"}
Unopened   == {s \in Streams : stream[s].at \in {"idle"} \cup Setup}

\* A stream has a link of the configuration from where it is given one, and
\* none before; each role only sets up streams in its own way.
Fits(r) ==
  /\ r.at \in Counted \cup {"dial", "connect"} => r.link \in DOMAIN Link
  /\ r.at = "idle" => r.link = None
  /\ role = "client" => /\ r.at # "connect"
                        /\ r.at \in {"handshake", "hello"} => r.link \in DOMAIN Link
  /\ role = "server" => /\ r.at # "dial"
                        /\ r.at \in {"handshake", "hello"} => r.link = None

\* The counters of a link are what its streams are up to.
Exact(l) ==
  /\ stats[l].active = Cardinality(OpenOn(l)) + Cardinality(RelayOn(l))
  /\ Cardinality(RelayOn(l)) <= stats[l].total
  /\ stats[l].forward = Cardinality(ToLocal(DoneOn(l)))
  /\ stats[l].back = Cardinality(FromLocal(DoneOn(l)))

DataInv == /\ DataTypeOK
           /\ \A s \in Streams : Fits(stream[s])
           /\ \A l \in DOMAIN Link : Exact(l)

\* What a step of a stream is to a reader of link l: total never falls, and
\* active rises only with a stream that is opened.
SeenStep(l) ==
  /\ stats[l].total <= stats'[l].total
  /\ \/ /\ stats'[l].active = stats[l].active + 1
        /\ Cardinality(OpenOn(l)') = Cardinality(OpenOn(l)) + 1
        /\ Cardinality(Unopened') = Cardinality(Unopened) - 1
     \/ /\ stats'[l].active <= stats[l].active
        /\ Cardinality(OpenOn(l)') <= Cardinality(OpenOn(l))
        /\ Cardinality(Unopened') <= Cardinality(Unopened)
-----------------------------------------------------------------------------
(***************************************************************************)
(* Sets of streams and sets of bytes.                                      *)
(***************************************************************************)
\* What one element more or less does to the size of a set of streams.
LEMMA SizeOfStreams ==
  ASSUME NEW S \in SUBSET Streams
  PROVE  /\ IsFiniteSet(S) /\ Cardinality(S) \in Nat
         /\ \A s : s \notin S => Cardinality(S \cup {s}) = Cardinality(S) + 1
         /\ \A s \in S : Cardinality(S \ {s}) = Cardinality(S) - 1 /\ Cardinality(S) > 0
<1>1. IsFiniteSet(S) /\ Cardinality(S) \in Nat
  BY StreamsAssumption, FS_Subset, FS_CardinalityType
<1>2. \A s : s \notin S => Cardinality(S \cup {s}) = Cardinality(S) + 1
  BY <1>1, FS_AddElement
<1>3. \A s \in S : Cardinality(S \ {s}) = Cardinality(S) - 1
  BY <1>1, FS_RemoveElement
<1>4. \A s \in S : Cardinality(S) > 0
  BY <1>1, FS_EmptySet
<1> QED BY <1>1, <1>2, <1>3, <1>4

\* The bytes of the streams in S, by the number n[s] that each relayed.
Bytes(n, S) == UNION {{s} \X (1..n[s]) : s \in S}

\* A stream adds as many bytes as it relayed.
LEMMA BytesAdd ==
  ASSUME NEW n, NEW S, IsFiniteSet(S), NEW s, s \notin S,
         \A t \in S : n[t] \in Nat, n[s] \in Nat
  PROVE  /\ IsFiniteSet(Bytes(n, S)) /\ Cardinality(Bytes(n, S)) \in Nat
         /\ Cardinality(Bytes(n, S \cup {s})) = Cardinality(Bytes(n, S)) + n[s]
<1> DEFINE Own(t) == {t} \X (1..n[t])
<1>1. \A t : n[t] \in Nat => IsFiniteSet(Own(t)) /\ Cardinality(Own(t)) = n[t]
  <2> SUFFICES ASSUME NEW t, n[t] \in Nat
               PROVE  IsFiniteSet(Own(t)) /\ Cardinality(Own(t)) = n[t]
    OBVIOUS
  <2>1. IsFiniteSet(1..n[t]) /\ Cardinality(1..n[t]) = n[t]
    <3>1. PICK k \in Nat : k = n[t]
      OBVIOUS
    <3>2. 1 \in Int /\ k \in Int
      OBVIOUS
    <3>3. IsFiniteSet(1..k) /\ Cardinality(1..k) = IF 1 > k THEN 0 ELSE k - 1 + 1
      BY ONLY <3>2, FS_Interval, Zenon
    <3> QED BY <3>1, <3>3
  <2>2. IsFiniteSet({t}) /\ Cardinality({t}) = 1
    BY FS_Singleton
  <2>3. IsFiniteSet(Own(t)) /\ Cardinality(Own(t)) = Cardinality({t}) * Cardinality(1..n[t])
    BY <2>1, <2>2, FS_Product
  <2> QED BY <2>1, <2>2, <2>3
<1>2. IsFiniteSet({Own(t) : t \in S})
  <2>1. [t \in S |-> Own(t)] \in Surjection(S, {Own(t) : t \in S})
    BY Zenon DEF Surjection
  <2> QED BY ONLY <2>1, IsFiniteSet(S), FS_Surjection
<1>3. IsFiniteSet(UNION {Own(t) : t \in S})
  BY <1>1, <1>2, FS_UNION
<1>4. IsFiniteSet(Bytes(n, S)) /\ Cardinality(Bytes(n, S)) \in Nat
  BY <1>3, FS_CardinalityType DEF Bytes
<1>5. Bytes(n, S \cup {s}) = Bytes(n, S) \cup Own(s)
  BY DEF Bytes
<1>6. Bytes(n, S) \cap Own(s) = {}
  BY DEF Bytes
<1>7. Cardinality(Bytes(n, S) \cup Own(s))
        = Cardinality(Bytes(n, S)) + Cardinality(Own(s)) - Cardinality(Bytes(n, S) \cap Own(s))
  BY <1>1, <1>4, FS_Union
<1>8. Cardinality(Bytes(n, S) \cap Own(s)) = 0
  BY <1>6, FS_EmptySet
<1> HIDE DEF Own
<1>9. Cardinality(Own(s)) = n[s]
  BY <1>1
<1>10. PICK b, m \in Nat : b = Cardinality(Bytes(n, S)) /\ m = n[s]
  BY <1>4
<1>11. Cardinality(Bytes(n, S \cup {s})) = b + m - 0
  BY <1>5, <1>7, <1>8, <1>9, <1>10
<1> QED BY <1>4, <1>10, <1>11
-----------------------------------------------------------------------------
(***************************************************************************)
(* A step of a stream.                                                     *)
(***************************************************************************)
Becomes(s, r) == stream' = [stream EXCEPT ![s] = r]

SortedStep(s, r, l) ==
  /\ OpenOn(l)' = IF r.link = l /\ r.at = "opening"
                  THEN OpenOn(l) \cup {s} ELSE OpenOn(l) \ {s}
  /\ RelayOn(l)' = IF r.link = l /\ r.at = "relay"
                   THEN RelayOn(l) \cup {s} ELSE RelayOn(l) \ {s}
  /\ DoneOn(l)' = IF r.link = l /\ r.at = "ended"
                  THEN DoneOn(l) \cup {s} ELSE DoneOn(l) \ {s}
  /\ Unopened' = IF r.at \in {"idle"} \cup Setup
                 THEN Unopened \cup {s} ELSE Unopened \ {s}

\* A step moves its stream between the sets and touches no other.
LEMMA Sorted ==
  ASSUME DataTypeOK, NEW s \in Streams, NEW r \in StreamStates, Becomes(s, r), NEW l
  PROVE  SortedStep(s, r, l)
<1>1. stream'[s] = r /\ \A t \in Streams : t # s => stream'[t] = stream[t]
  BY DEF Becomes, DataTypeOK
<1>2. OpenOn(l)' = IF r.link = l /\ r.at = "opening"
                   THEN OpenOn(l) \cup {s} ELSE OpenOn(l) \ {s}
  BY <1>1 DEF OpenOn
<1>3. RelayOn(l)' = IF r.link = l /\ r.at = "relay"
                    THEN RelayOn(l) \cup {s} ELSE RelayOn(l) \ {s}
  BY <1>1 DEF RelayOn
<1>4. DoneOn(l)' = IF r.link = l /\ r.at = "ended"
                   THEN DoneOn(l) \cup {s} ELSE DoneOn(l) \ {s}
  BY <1>1 DEF DoneOn
<1>5. Unopened' = IF r.at \in {"idle"} \cup Setup
                  THEN Unopened \cup {s} ELSE Unopened \ {s}
  BY <1>1 DEF Unopened
<1> QED BY <1>2, <1>3, <1>4, <1>5 DEF SortedStep

\* Streams that ended keep their bytes.
LEMMA BytesKept ==
  ASSUME DataTypeOK, NEW s \in Streams, NEW r \in StreamStates, Becomes(s, r), NEW l,
         s \notin DoneOn(l), DoneOn(l)' = DoneOn(l)
  PROVE  /\ ToLocal(DoneOn(l))' = ToLocal(DoneOn(l))
         /\ FromLocal(DoneOn(l))' = FromLocal(DoneOn(l))
<1>1. \A t \in DoneOn(l) : stream'[t] = stream[t]
  BY DEF Becomes, DataTypeOK, DoneOn
<1> QED BY <1>1 DEF ToLocal, FromLocal

\* The sizes of the sets are numbers.
LEMMA SizesAreNatural ==
  ASSUME NEW l
  PROVE  /\ Cardinality(OpenOn(l)) \in Nat /\ Cardinality(RelayOn(l)) \in Nat
         /\ Cardinality(Unopened) \in Nat
<1>1. OpenOn(l) \in SUBSET Streams /\ RelayOn(l) \in SUBSET Streams /\ Unopened \in SUBSET Streams
  BY DEF OpenOn, RelayOn, Unopened
<1> QED BY <1>1, SizeOfStreams

\* A step of the setup, and a setup that fails, leave the counters exact.
LEMMA SetupExact ==
  ASSUME DataInv, NEW s \in Streams, NEW r \in StreamStates, Becomes(s, r),
         stream[s].at \in {"idle"} \cup Setup, r.at \in Setup \cup {"ended"},
         r.at = "ended" => r.link = None, UNCHANGED stats,
         NEW l \in DOMAIN Link
  PROVE  Exact(l)' /\ SeenStep(l)
<1>0. SortedStep(s, r, l)
  BY Sorted DEF DataInv
<1>1. l # None
  BY NoneAssumption, LinkAssumption
<1>2. s \notin OpenOn(l) /\ s \notin RelayOn(l) /\ s \notin DoneOn(l) /\ s \in Unopened
  BY DEF OpenOn, RelayOn, DoneOn, Unopened, Setup
<1>3. OpenOn(l)' = OpenOn(l) /\ RelayOn(l)' = RelayOn(l) /\ DoneOn(l)' = DoneOn(l)
  BY <1>1, <1>2, <1>0 DEF SortedStep, Setup
<1>4. Unopened' = Unopened \/ Unopened' = Unopened \ {s}
  BY <1>2, <1>0 DEF SortedStep
<1>5. Exact(l)'
  BY <1>2, <1>3, BytesKept DEF DataInv, Exact
<1>6. Unopened \in SUBSET Streams
  BY DEF Unopened
<1>7. Cardinality(Unopened') <= Cardinality(Unopened)
  <2>1. PICK u \in Nat : u = Cardinality(Unopened)
    BY SizesAreNatural
  <2>2. Cardinality(Unopened') = u \/ Cardinality(Unopened') = u - 1
    BY <1>2, <1>4, <1>6, <2>1, SizeOfStreams
  <2> QED BY <2>1, <2>2
<1>8. stats[l].active \in Nat /\ stats[l].total \in Nat
  BY DEF DataInv, DataTypeOK
<1> QED BY <1>3, <1>5, <1>7, <1>8, SizesAreNatural DEF SeenStep

\* Opening a relay on link k.
LEMMA OpenExact ==
  ASSUME DataInv, NEW s \in Streams, NEW r \in StreamStates, Becomes(s, r),
         stream[s].at \in Setup, NEW k \in DOMAIN Link, r.at = "opening", r.link = k,
         stats' = [stats EXCEPT ![k].active = @ + 1],
         NEW l \in DOMAIN Link
  PROVE  Exact(l)' /\ SeenStep(l)
<1>0. SortedStep(s, r, l)
  BY Sorted DEF DataInv
<1>1. s \notin OpenOn(l) /\ s \notin RelayOn(l) /\ s \notin DoneOn(l) /\ s \in Unopened
  BY DEF OpenOn, RelayOn, DoneOn, Unopened, Setup
<1>2. RelayOn(l)' = RelayOn(l) /\ DoneOn(l)' = DoneOn(l) /\ Unopened' = Unopened \ {s}
  BY <1>1, <1>0 DEF SortedStep, Setup
<1>3. OpenOn(l)' = IF l = k THEN OpenOn(l) \cup {s} ELSE OpenOn(l)
  BY <1>1, <1>0 DEF SortedStep
<1>4. /\ stats'[l].total = stats[l].total /\ stats'[l].forward = stats[l].forward
      /\ stats'[l].back = stats[l].back
      /\ stats'[l].active = IF l = k THEN stats[l].active + 1 ELSE stats[l].active
  BY DEF DataInv, DataTypeOK
<1>5. PICK o, p, u, a, t \in Nat :
        /\ o = Cardinality(OpenOn(l)) /\ p = Cardinality(RelayOn(l)) /\ u = Cardinality(Unopened)
        /\ a = stats[l].active /\ t = stats[l].total
  BY SizesAreNatural DEF DataInv, DataTypeOK
<1>6. Cardinality(OpenOn(l)') = IF l = k THEN o + 1 ELSE o
  <2>1. OpenOn(l) \in SUBSET Streams
    BY DEF OpenOn
  <2> QED BY <1>1, <1>3, <1>5, <2>1, SizeOfStreams
<1>7. Cardinality(Unopened') = u - 1
  <2>1. Unopened \in SUBSET Streams
    BY DEF Unopened
  <2> QED BY <1>1, <1>2, <1>5, <2>1, SizeOfStreams
<1>8. a = o + p /\ p <= t
  BY <1>5 DEF DataInv, Exact
<1>9. Exact(l)'
  BY <1>1, <1>2, <1>4, <1>5, <1>6, <1>8, BytesKept DEF DataInv, Exact
<1> QED BY <1>4, <1>5, <1>6, <1>7, <1>9 DEF SeenStep

\* A relay on link k is counted in total.
LEMMA TotalExact ==
  ASSUME DataInv, NEW s \in Streams, NEW r \in StreamStates, Becomes(s, r),
         stream[s].at = "opening", NEW k \in DOMAIN Link, stream[s].link = k,
         r.at = "relay", r.link = k, stats' = [stats EXCEPT ![k].total = @ + 1],
         NEW l \in DOMAIN Link
  PROVE  Exact(l)' /\ SeenStep(l)
<1>0. SortedStep(s, r, l)
  BY Sorted DEF DataInv
<1>1. /\ (s \in OpenOn(l) <=> l = k) /\ s \notin RelayOn(l) /\ s \notin DoneOn(l)
      /\ s \notin Unopened
  BY DEF OpenOn, RelayOn, DoneOn, Unopened, Setup
<1>2. DoneOn(l)' = DoneOn(l) /\ Unopened' = Unopened
  BY <1>1, <1>0 DEF SortedStep, Setup
<1>3. /\ OpenOn(l)' = IF l = k THEN OpenOn(l) \ {s} ELSE OpenOn(l)
      /\ RelayOn(l)' = IF l = k THEN RelayOn(l) \cup {s} ELSE RelayOn(l)
  BY <1>1, <1>0 DEF SortedStep
<1>4. /\ stats'[l].active = stats[l].active /\ stats'[l].forward = stats[l].forward
      /\ stats'[l].back = stats[l].back
      /\ stats'[l].total = IF l = k THEN stats[l].total + 1 ELSE stats[l].total
  BY DEF DataInv, DataTypeOK
<1>5. PICK o, p, u, a, t \in Nat :
        /\ o = Cardinality(OpenOn(l)) /\ p = Cardinality(RelayOn(l)) /\ u = Cardinality(Unopened)
        /\ a = stats[l].active /\ t = stats[l].total
  BY SizesAreNatural DEF DataInv, DataTypeOK
<1>6. /\ Cardinality(OpenOn(l)') = IF l = k THEN o - 1 ELSE o
      /\ Cardinality(RelayOn(l)') = IF l = k THEN p + 1 ELSE p
  <2>1. OpenOn(l) \in SUBSET Streams /\ RelayOn(l) \in SUBSET Streams
    BY DEF OpenOn, RelayOn
  <2> QED BY <1>1, <1>3, <1>5, <2>1, SizeOfStreams
<1>7. a = o + p /\ p <= t
  BY <1>5 DEF DataInv, Exact
<1>8. Exact(l)'
  BY <1>1, <1>2, <1>4, <1>5, <1>6, <1>7, BytesKept DEF DataInv, Exact
<1> QED BY <1>2, <1>4, <1>5, <1>6, <1>8 DEF SeenStep

\* A side of a relay closes: no counter is involved.
LEMMA CloseExact ==
  ASSUME DataInv, NEW s \in Streams, NEW r \in StreamStates, Becomes(s, r),
         stream[s].at = "relay", r.at = "relay", r.link = stream[s].link, UNCHANGED stats,
         NEW l \in DOMAIN Link
  PROVE  Exact(l)' /\ SeenStep(l)
<1>0. SortedStep(s, r, l)
  BY Sorted DEF DataInv
<1>1. /\ (s \in RelayOn(l) <=> r.link = l) /\ s \notin OpenOn(l) /\ s \notin DoneOn(l)
      /\ s \notin Unopened
  BY DEF OpenOn, RelayOn, DoneOn, Unopened, Setup
<1>2. /\ OpenOn(l)' = OpenOn(l) /\ RelayOn(l)' = RelayOn(l)
      /\ DoneOn(l)' = DoneOn(l) /\ Unopened' = Unopened
  BY <1>1, <1>0 DEF SortedStep, Setup
<1>3. Exact(l)'
  BY <1>1, <1>2, BytesKept DEF DataInv, Exact
<1>4. stats[l].active \in Nat /\ stats[l].total \in Nat
  BY DEF DataInv, DataTypeOK
<1> QED BY <1>2, <1>3, <1>4, SizesAreNatural DEF SeenStep

\* What a relay that leaves link k does to the sizes, failed or ended.
LEMMA RelayLeaves ==
  ASSUME DataInv, NEW s \in Streams, NEW r \in StreamStates, Becomes(s, r),
         stream[s].at = "relay", NEW k \in DOMAIN Link, stream[s].link = k, r.at = "ended",
         NEW l \in DOMAIN Link,
         stats'[l].total = stats[l].total,
         stats'[l].active = IF l = k THEN stats[l].active - 1 ELSE stats[l].active
  PROVE  /\ stats'[l].active \in Nat
         /\ stats'[l].active = Cardinality(OpenOn(l)') + Cardinality(RelayOn(l)')
         /\ Cardinality(RelayOn(l)') <= stats'[l].total
         /\ SeenStep(l)
<1>0. SortedStep(s, r, l)
  BY Sorted DEF DataInv
<1>1. (s \in RelayOn(l) <=> l = k) /\ s \notin OpenOn(l) /\ s \notin Unopened
  BY DEF OpenOn, RelayOn, Unopened, Setup
<1>2. /\ OpenOn(l)' = OpenOn(l) /\ Unopened' = Unopened
      /\ RelayOn(l)' = IF l = k THEN RelayOn(l) \ {s} ELSE RelayOn(l)
  BY <1>1, <1>0 DEF SortedStep, Setup
<1>3. PICK o, p, u, a, t \in Nat :
        /\ o = Cardinality(OpenOn(l)) /\ p = Cardinality(RelayOn(l)) /\ u = Cardinality(Unopened)
        /\ a = stats[l].active /\ t = stats[l].total
  BY SizesAreNatural DEF DataInv, DataTypeOK
<1>4. Cardinality(RelayOn(l)') = (IF l = k THEN p - 1 ELSE p) /\ (l = k => p > 0)
  <2>1. RelayOn(l) \in SUBSET Streams
    BY DEF RelayOn
  <2> QED BY <1>1, <1>2, <1>3, <2>1, SizeOfStreams
<1>5. a = o + p /\ p <= t
  BY <1>3 DEF DataInv, Exact
<1>6. stats'[l].active \in Nat
  BY <1>3, <1>4, <1>5
<1>7. stats'[l].active = Cardinality(OpenOn(l)') + Cardinality(RelayOn(l)')
  BY <1>2, <1>3, <1>4, <1>5
<1>8. Cardinality(RelayOn(l)') <= stats'[l].total
  BY <1>3, <1>4, <1>5
<1>9. SeenStep(l)
  BY <1>2, <1>3 DEF SeenStep
<1> QED BY <1>6, <1>7, <1>8, <1>9

\* A relay that fails is counted out and its bytes are not.
LEMMA FailExact ==
  ASSUME DataInv, NEW s \in Streams, NEW r \in StreamStates, Becomes(s, r),
         stream[s].at = "relay", NEW k \in DOMAIN Link, stream[s].link = k,
         r.at = "ended", r.link = None,
         stats' = [stats EXCEPT ![k].active = @ - 1],
         NEW l \in DOMAIN Link
  PROVE  Exact(l)' /\ SeenStep(l) /\ stats'[l].active \in Nat
<1>0. SortedStep(s, r, l)
  BY Sorted DEF DataInv
<1>1. /\ stats'[l].total = stats[l].total /\ stats'[l].forward = stats[l].forward
      /\ stats'[l].back = stats[l].back
      /\ stats'[l].active = IF l = k THEN stats[l].active - 1 ELSE stats[l].active
  BY DEF DataInv, DataTypeOK
<1>2. l # None
  BY NoneAssumption, LinkAssumption
<1>3. s \notin DoneOn(l)
  BY DEF DoneOn
<1>4. DoneOn(l)' = DoneOn(l)
  BY <1>2, <1>3, <1>0 DEF SortedStep
<1>5. /\ ToLocal(DoneOn(l))' = ToLocal(DoneOn(l))
      /\ FromLocal(DoneOn(l))' = FromLocal(DoneOn(l))
  BY <1>3, <1>4, BytesKept DEF DataInv
<1> QED BY <1>1, <1>5, RelayLeaves DEF DataInv, Exact

\* A relay that ends is counted out and its bytes in.
LEMMA EndExact ==
  ASSUME DataInv, NEW s \in Streams, NEW r \in StreamStates, Becomes(s, r),
         stream[s].at = "relay", NEW k \in DOMAIN Link, stream[s].link = k,
         r = [stream[s] EXCEPT !.at = "ended"],
         stats' = [stats EXCEPT ![k] =
                     [active |-> @.active - 1, total |-> @.total,
                      forward |-> @.forward + stream[s].aToB,
                      back |-> @.back + stream[s].bToA]],
         NEW l \in DOMAIN Link
  PROVE  Exact(l)' /\ SeenStep(l) /\ stats'[l].active \in Nat
<1>0. SortedStep(s, r, l)
  BY Sorted DEF DataInv
<1>1. /\ stats'[l].total = stats[l].total
      /\ stats'[l].active = IF l = k THEN stats[l].active - 1 ELSE stats[l].active
      /\ stats'[l].forward = IF l = k THEN stats[l].forward + stream[s].aToB
                             ELSE stats[l].forward
      /\ stats'[l].back = IF l = k THEN stats[l].back + stream[s].bToA ELSE stats[l].back
  <2>1. k \in DOMAIN stats /\ l \in DOMAIN stats
    BY DEF DataInv, DataTypeOK
  <2> QED BY <2>1
<1>2. r.at = "ended" /\ r.link = k /\ r.aToB = stream[s].aToB /\ r.bToA = stream[s].bToA
  BY DEF DataInv, DataTypeOK
<1>3. s \notin DoneOn(l) /\ IsFiniteSet(DoneOn(l))
  <2>1. DoneOn(l) \in SUBSET Streams
    BY DEF DoneOn
  <2>2. s \notin DoneOn(l)
    BY DEF DoneOn
  <2> QED BY <2>1, <2>2, SizeOfStreams
<1>4. DoneOn(l)' = IF l = k THEN DoneOn(l) \cup {s} ELSE DoneOn(l)
  BY <1>2, <1>3, <1>0 DEF SortedStep
<1>5. CASE l = k
  <2> DEFINE F == [t \in Streams |-> stream[t].aToB]
             G == [t \in Streams |-> stream[t].bToA]
  <2>1. DoneOn(l) \subseteq Streams /\ DoneOn(l)' = DoneOn(l) \cup {s}
    BY <1>4, <1>5 DEF DoneOn
  <2>2. \A t \in DoneOn(l) \cup {s} : /\ stream'[t].aToB = F[t] /\ stream'[t].bToA = G[t]
                                      /\ F[t] \in Nat /\ G[t] \in Nat
    BY <1>2, <2>1 DEF Becomes, DataInv, DataTypeOK
  <2>3. /\ ToLocal(DoneOn(l)) = Bytes(F, DoneOn(l))
        /\ FromLocal(DoneOn(l)) = Bytes(G, DoneOn(l))
    BY <2>1 DEF ToLocal, FromLocal, Bytes
  <2>4. /\ ToLocal(DoneOn(l))' = Bytes(F, DoneOn(l) \cup {s})
        /\ FromLocal(DoneOn(l))' = Bytes(G, DoneOn(l) \cup {s})
    BY <2>1, <2>2 DEF ToLocal, FromLocal, Bytes
  <2>5. F[s] = stream[s].aToB /\ G[s] = stream[s].bToA
    OBVIOUS
  <2> HIDE DEF F, G
  <2>6. /\ Cardinality(Bytes(F, DoneOn(l) \cup {s})) = Cardinality(Bytes(F, DoneOn(l))) + F[s]
        /\ Cardinality(Bytes(G, DoneOn(l) \cup {s})) = Cardinality(Bytes(G, DoneOn(l))) + G[s]
    BY <1>3, <2>2, BytesAdd
  <2>7. /\ stats'[l].forward = Cardinality(ToLocal(DoneOn(l))')
        /\ stats'[l].back = Cardinality(FromLocal(DoneOn(l))')
    BY <1>1, <1>5, <2>3, <2>4, <2>5, <2>6 DEF DataInv, Exact
  <2> QED BY <1>1, <1>2, <2>7, RelayLeaves DEF Exact
<1>6. CASE l # k
  <2>1. /\ ToLocal(DoneOn(l))' = ToLocal(DoneOn(l))
        /\ FromLocal(DoneOn(l))' = FromLocal(DoneOn(l))
    BY <1>3, <1>4, <1>6, BytesKept DEF DataInv
  <2> QED BY <1>1, <1>2, <1>6, <2>1, RelayLeaves DEF DataInv, Exact
<1> QED BY <1>5, <1>6

\* What is left to show of a step once its counters are exact.
LEMMA StreamMoves ==
  ASSUME DataInv, NEW s \in Streams, NEW r \in StreamStates, Becomes(s, r), Fits(r),
         UNCHANGED role, stats' \in [DOMAIN Link -> LinkStats],
         \A l \in DOMAIN Link : Exact(l)' /\ SeenStep(l)
  PROVE  DataInv' /\ \A l \in DOMAIN Link : SeenStep(l)
<1>1. DataTypeOK'
  BY DEF DataInv, DataTypeOK, Becomes, StreamStates, LinkStats
<1>2. \A t \in Streams : stream'[t] = IF t = s THEN r ELSE stream[t]
  BY DEF DataInv, DataTypeOK, Becomes
<1>3. \A t \in Streams : Fits(stream[t])'
  BY <1>2 DEF DataInv, Fits
<1> QED BY <1>1, <1>3 DEF DataInv

\* Every step of a stream, at either role, keeps the invariant of the streams.
LEMMA StreamStepInv ==
  ASSUME DataInv, NEW s \in Streams, StreamStep(s)
  PROVE  DataInv' /\ \A l \in DOMAIN Link : SeenStep(l)
<1>1. PICK x \in StreamStates : x = stream[s]
  BY DEF DataInv, DataTypeOK, StreamStates
<1>2. Fits(x) /\ stats \in [DOMAIN Link -> LinkStats]
  BY <1>1 DEF DataInv, DataTypeOK, LinkStats
<1>3. role \in {"server", "client"} /\ DOMAIN stream = Streams
  BY DEF DataInv, DataTypeOK
<1>4. DOMAIN Link \subseteq LinkIds
  BY LinkAssumption
<1> DEFINE Dropped == [NewStream EXCEPT !.at = "ended"]
<1>5. Dropped \in StreamStates /\ Dropped.at = "ended" /\ Dropped.link = None /\ Fits(Dropped)
  BY <1>3 DEF NewStream, StreamStates, Fits, Setup, Counted
<1>6. ASSUME Drop(s) PROVE Becomes(s, Dropped)
  BY <1>6 DEF Drop, Becomes
<1>7. ASSUME NEW r \in StreamStates, Becomes(s, r), Fits(r), UNCHANGED <<role, stats>>,
             x.at \in {"idle"} \cup Setup, r.at \in Setup \cup {"ended"},
             r.at = "ended" => r.link = None
      PROVE  DataInv' /\ \A l \in DOMAIN Link : SeenStep(l)
  <2>1. \A l \in DOMAIN Link : Exact(l)' /\ SeenStep(l)
    BY <1>1, <1>7, SetupExact
  <2> QED BY <1>2, <1>7, <2>1, StreamMoves
<1>8. ASSUME NEW k \in DOMAIN Link, OpenRelay(s, k), UNCHANGED role, x.at \in Setup
      PROVE  DataInv' /\ \A l \in DOMAIN Link : SeenStep(l)
  <2>1. PICK r : r = [x EXCEPT !.at = "opening", !.link = k]
    OBVIOUS
  <2>2. r \in StreamStates /\ r.at = "opening" /\ r.link = k /\ r.peer = x.peer
    BY <1>4, <2>1 DEF StreamStates, Counted
  <2>3. Becomes(s, r) /\ stats' = [stats EXCEPT ![k].active = @ + 1]
    BY <1>1, <1>8, <2>1 DEF OpenRelay, Becomes
  <2>4. Fits(r)
    BY <1>8, <2>2 DEF Fits, Counted
  <2>5. \A l \in DOMAIN Link : Exact(l)' /\ SeenStep(l)
    BY <1>1, <1>8, <2>2, <2>3, OpenExact
  <2>6. stats' \in [DOMAIN Link -> LinkStats]
    BY <1>2, <2>3 DEF LinkStats
  <2> QED BY <1>8, <2>2, <2>3, <2>4, <2>5, <2>6, StreamMoves
<1>9. CASE Accept(s)
  <2>1. PICK r : r = [x EXCEPT !.at = "handshake"]
    OBVIOUS
  <2>2. r \in StreamStates /\ Becomes(s, r) /\ r.at \in Setup
    BY <1>1, <1>3, <1>4, <1>9, <2>1 DEF StreamStates, Becomes, Setup, Accept, Goes
  <2>3. Fits(r) /\ x.at \in {"idle"} \cup Setup
    BY <1>1, <1>2, <1>9, <2>1 DEF StreamStates, Fits, Setup, Counted, Accept, Goes
  <2> QED BY <1>7, <1>9, <2>2, <2>3 DEF Setup, Accept, Goes
<1>10. CASE MatchPeer(s)
  <2>1. PICK p \in Peers : stream' = [stream EXCEPT ![s] = [@ EXCEPT !.at = "hello", !.peer = p]]
    BY <1>10 DEF MatchPeer
  <2>2. PICK r : r = [x EXCEPT !.at = "hello", !.peer = p]
    OBVIOUS
  <2>3. r \in StreamStates /\ Becomes(s, r) /\ r.at = "hello" /\ r.link = x.link
    BY <1>1, <1>3, <2>1, <2>2 DEF StreamStates, Becomes, Setup
  <2>4. Fits(r) /\ x.at \in {"idle"} \cup Setup
    BY <1>1, <1>2, <1>10, <2>3 DEF Fits, Setup, Counted, MatchPeer
  <2> QED BY <1>7, <1>10, <2>3, <2>4 DEF MatchPeer, Setup
<1>11. CASE ConnectTarget(s)
  <2>1. x.at = "connect" /\ x.link \in DOMAIN Link
    BY <1>1, <1>2, <1>11 DEF ConnectTarget, Fits
  <2> QED BY <1>1, <1>8, <1>11, <2>1 DEF ConnectTarget, Setup
<1>12. ASSUME NEW l \in LinkIds, NEW streamId \in BOOLEAN, Hello(s, l, streamId)
       PROVE  DataInv' /\ \A k \in DOMAIN Link : SeenStep(k)
  <2>1. x.at = "hello" /\ role = "server" /\ UNCHANGED role
    BY <1>1, <1>12 DEF Hello
  <2>2. CASE Drop(s) /\ UNCHANGED stats
    BY <1>5, <1>6, <1>7, <2>1, <2>2 DEF Setup
  <2>3. CASE Admits(x.peer, l, streamId) /\ OpenRelay(s, l)
    BY <1>8, <2>1, <2>3 DEF Admits, Setup
  <2>4. CASE /\ Admits(x.peer, l, streamId) /\ UNCHANGED stats
             /\ stream' = [stream EXCEPT ![s] = [@ EXCEPT !.at = "connect", !.link = l]]
    <3>1. PICK r : r = [x EXCEPT !.at = "connect", !.link = l]
      OBVIOUS
    <3>2. r \in StreamStates /\ Becomes(s, r) /\ r.at = "connect" /\ r.link = l /\ r.peer = x.peer
      BY <1>1, <1>3, <2>4, <3>1 DEF StreamStates, Becomes, Setup
    <3>3. Fits(r)
      BY <2>1, <2>4, <3>2 DEF Fits, Counted, Admits
    <3> QED BY <1>7, <2>1, <2>4, <3>2, <3>3 DEF Setup
  <2> QED BY <1>1, <1>12, <2>2, <2>3, <2>4 DEF Hello
<1>13. CASE AcceptLocal(s)
  <2>1. PICK l \in DOMAIN Link :
          stream' = [stream EXCEPT ![s] = [@ EXCEPT !.at = "dial", !.link = l]]
    BY <1>13 DEF AcceptLocal
  <2>2. PICK r : r = [x EXCEPT !.at = "dial", !.link = l]
    OBVIOUS
  <2>3. r \in StreamStates /\ Becomes(s, r) /\ r.at = "dial" /\ r.link = l
    BY <1>1, <1>3, <1>4, <2>1, <2>2 DEF StreamStates, Becomes, Setup
  <2>4. Fits(r) /\ x.at = "idle"
    BY <1>1, <1>13, <2>3 DEF Fits, Counted, AcceptLocal
  <2> QED BY <1>7, <1>13, <2>3, <2>4 DEF AcceptLocal, Setup
<1>14. CASE ConnectServer(s)
  <2>1. PICK r : r = [x EXCEPT !.at = "handshake"]
    OBVIOUS
  <2>2. r \in StreamStates /\ Becomes(s, r) /\ r.at \in Setup
    BY <1>1, <1>3, <1>4, <1>14, <2>1 DEF StreamStates, Becomes, Setup, ConnectServer, Goes
  <2>3. Fits(r) /\ x.at \in {"idle"} \cup Setup
    BY <1>1, <1>2, <1>14, <2>1 DEF StreamStates, Fits, Setup, Counted, ConnectServer, Goes
  <2> QED BY <1>7, <1>14, <2>2, <2>3 DEF Setup, ConnectServer, Goes
<1>15. CASE ClientHandshake(s)
  <2>1. PICK r : r = [x EXCEPT !.at = "hello"]
    OBVIOUS
  <2>2. r \in StreamStates /\ Becomes(s, r) /\ r.at \in Setup
    BY <1>1, <1>3, <1>4, <1>15, <2>1 DEF StreamStates, Becomes, Setup, ClientHandshake, Goes
  <2>3. Fits(r) /\ x.at \in {"idle"} \cup Setup
    BY <1>1, <1>2, <1>15, <2>1 DEF StreamStates, Fits, Setup, Counted, ClientHandshake, Goes
  <2> QED BY <1>7, <1>15, <2>2, <2>3 DEF Setup, ClientHandshake, Goes
<1>16. CASE SendHello(s)
  <2>1. x.at = "hello" /\ role = "client" /\ x.link \in DOMAIN Link
    BY <1>1, <1>2, <1>16 DEF SendHello, Fits
  <2> QED BY <1>1, <1>8, <1>16, <2>1 DEF SendHello, Setup
<1>17. CASE SetupFails(s)
  BY <1>1, <1>5, <1>6, <1>7, <1>17 DEF SetupFails
<1>18. CASE CountTotal(s)
  <2>1. PICK r : r = [x EXCEPT !.at = "relay"]
    OBVIOUS
  <2>2. PICK k : k = x.link
    OBVIOUS
  <2>3. x.at = "opening" /\ k \in DOMAIN Link
    BY <1>1, <1>2, <1>18, <2>2 DEF CountTotal, Goes, Fits, Counted
  <2>4. r \in StreamStates /\ Becomes(s, r) /\ r.at = "relay" /\ r.link = k /\ r.peer = x.peer
    BY <1>1, <1>3, <1>18, <2>1, <2>2 DEF StreamStates, Becomes, Counted, CountTotal, Goes
  <2>5. stats' = [stats EXCEPT ![k].total = @ + 1] /\ UNCHANGED role
    BY <1>1, <1>18, <2>2 DEF CountTotal
  <2>6. Fits(r)
    BY <1>2, <2>2, <2>3, <2>4 DEF Fits, Counted
  <2>7. \A l \in DOMAIN Link : Exact(l)' /\ SeenStep(l)
    BY <1>1, <2>2, <2>3, <2>4, <2>5, TotalExact
  <2>8. stats' \in [DOMAIN Link -> LinkStats]
    BY <1>2, <2>3, <2>5 DEF LinkStats
  <2> QED BY <2>4, <2>5, <2>6, <2>7, <2>8, StreamMoves
<1>19. ASSUME NEW side \in {"a", "b"}, SideCloses(s, side)
       PROVE  DataInv' /\ \A k \in DOMAIN Link : SeenStep(k)
  <2>1. x.at = "relay" /\ UNCHANGED <<role, stats>>
    BY <1>1, <1>19 DEF SideCloses
  <2>2. PICK n \in Sizes[side] :
          LET closed == stream[s].eof \cup {side}
          IN  stream' = [stream EXCEPT ![s] = IF side = "a"
                           THEN [@ EXCEPT !.eof = closed, !.aToB = n]
                           ELSE [@ EXCEPT !.eof = closed, !.bToA = n]]
    BY <1>19 DEF SideCloses
  <2>3. n \in Nat
    BY SizesAssumption
  <2>4. PICK r : r = IF side = "a" THEN [x EXCEPT !.eof = x.eof \cup {side}, !.aToB = n]
                     ELSE [x EXCEPT !.eof = x.eof \cup {side}, !.bToA = n]
    OBVIOUS
  <2>5. r \in StreamStates /\ Becomes(s, r) /\ r.at = "relay" /\ r.link = x.link /\ r.peer = x.peer
    BY <1>1, <1>3, <2>1, <2>2, <2>3, <2>4 DEF StreamStates, Becomes
  <2>6. Fits(r)
    BY <1>2, <2>1, <2>5 DEF Fits, Counted
  <2>7. \A l \in DOMAIN Link : Exact(l)' /\ SeenStep(l)
    BY <1>1, <2>1, <2>5, CloseExact
  <2> QED BY <1>2, <2>1, <2>5, <2>6, <2>7, StreamMoves
<1>20. CASE RelayEnds(s)
  <2>1. PICK r : r = [x EXCEPT !.at = "ended"]
    OBVIOUS
  <2>2. PICK k : k = x.link
    OBVIOUS
  <2>3. x.at = "relay" /\ k \in DOMAIN Link
    BY <1>1, <1>2, <1>20, <2>2 DEF RelayEnds, Goes, Fits, Counted
  <2>4. r \in StreamStates /\ Becomes(s, r) /\ r.at = "ended" /\ r.link = k /\ r.peer = x.peer
    BY <1>1, <1>3, <1>20, <2>1, <2>2 DEF StreamStates, Becomes, RelayEnds, Goes
  <2>5. /\ UNCHANGED role
        /\ stats' = [stats EXCEPT ![k] = [active |-> @.active - 1, total |-> @.total,
                                          forward |-> @.forward + stream[s].aToB,
                                          back |-> @.back + stream[s].bToA]]
    BY <1>1, <1>20, <2>2 DEF RelayEnds
  <2>6. Fits(r)
    BY <1>2, <2>2, <2>3, <2>4 DEF Fits, Counted
  <2>7. \A l \in DOMAIN Link : Exact(l)' /\ SeenStep(l) /\ stats'[l].active \in Nat
    BY <1>1, <2>1, <2>2, <2>3, <2>4, <2>5, EndExact
  <2>8. stats' \in [DOMAIN Link -> LinkStats]
    <3>1. stats' \in [DOMAIN Link -> [active : Int, total : Nat, forward : Nat, back : Nat]]
      BY <1>1, <1>2, <2>3, <2>5 DEF LinkStats, StreamStates
    <3> QED BY <2>7, <3>1 DEF LinkStats
  <2> QED BY <2>4, <2>5, <2>6, <2>7, <2>8, StreamMoves
<1>21. CASE RelayFails(s)
  <2>1. PICK k : k = x.link
    OBVIOUS
  <2>2. x.at = "relay" /\ k \in DOMAIN Link /\ Becomes(s, Dropped)
    BY <1>1, <1>2, <1>6, <1>21, <2>1 DEF RelayFails, Fits, Counted
  <2>3. UNCHANGED role /\ stats' = [stats EXCEPT ![k].active = @ - 1]
    BY <1>1, <1>21, <2>1 DEF RelayFails
  <2> HIDE DEF Dropped
  <2>4. \A l \in DOMAIN Link : Exact(l)' /\ SeenStep(l) /\ stats'[l].active \in Nat
    BY <1>1, <1>5, <2>1, <2>2, <2>3, FailExact
  <2>5. stats' \in [DOMAIN Link -> LinkStats]
    <3>1. stats' \in [DOMAIN Link -> [active : Int, total : Nat, forward : Nat, back : Nat]]
      BY <1>2, <2>2, <2>3 DEF LinkStats
    <3> QED BY <2>4, <3>1 DEF LinkStats
  <2> QED BY <1>5, <2>2, <2>3, <2>4, <2>5, StreamMoves
<1> QED BY <1>9, <1>10, <1>11, <1>12, <1>13, <1>14, <1>15, <1>16, <1>17, <1>18, <1>19, <1>20, <1>21
        DEF StreamStep
-----------------------------------------------------------------------------
(***************************************************************************)
(* The daemons and the snapshot.                                           *)
(***************************************************************************)
\* Processes run in the order in which they are started.  One whose
\* start was clear is the only one in its start, and nobody has bound the path
\* since it removed what was there.
ClearStarts ==
  /\ \A d \in Daemons : d > starts => proc[d] = "off"
  /\ listening # None => proc[listening] # "off"
  /\ \A d \in clear : proc[d] \notin {"off", "deaf"}
  /\ \A d \in clear : proc[d] \in {"starting", "removed"} => InStart = {d}
  /\ \A d \in clear : proc[d] = "removed" => socket = None

\* The snapshot of a process without listeners shows nothing.  Else late
\* counts the relays being opened when it began and those opened since: it
\* bounds what is being opened now, and, once a counter is loaded, how far it
\* can lie from what the other one will be loaded with.
Snapshot ==
  LET r == reading IN
  /\ proc[r.from] = "answering"
  /\ r.from # listening => r.seen.active = 0 /\ r.late = 0
  /\ r.from = listening =>
       /\ r.late + Cardinality(Unopened) <= Cardinality(Streams)
       /\ Cardinality(OpenOn(r.link)) <= r.late
       /\ "total" \in r.loaded /\ "active" \notin r.loaded =>
            stats[r.link].active <= r.seen.total + r.late
       /\ "active" \in r.loaded /\ "total" \notin r.loaded =>
            r.seen.active <= stats[r.link].total + r.late
       /\ "active" \in r.loaded /\ "total" \in r.loaded =>
            r.seen.active <= r.seen.total + r.late

StatusInv == /\ DataInv /\ StatusTypeOK /\ ClearStarts
             /\ reading # None => Snapshot

Readings == [from : Daemons, link : DOMAIN Link, loaded : SUBSET Fields,
             seen : [active : Nat, total : Nat], late : 0..Cardinality(Streams)]

\* Streams that are all new, with counters that are all zero.
LEMMA FreshInv == DataInit => DataInv
<1> SUFFICES ASSUME DataInit PROVE DataInv
  OBVIOUS
<1> USE DEF DataInit
<1>1. DataTypeOK
  BY DEF DataTypeOK, NewStream, ZeroStats, NoStats
<1>2. \A s \in Streams : Fits(stream[s])
  BY DEF Fits, NewStream, Counted
<1>3. ASSUME NEW l \in DOMAIN Link PROVE Exact(l)
  <2>1. OpenOn(l) = {} /\ RelayOn(l) = {} /\ DoneOn(l) = {}
    BY DEF OpenOn, RelayOn, DoneOn, NewStream
  <2>2. ToLocal(DoneOn(l)) = {} /\ FromLocal(DoneOn(l)) = {}
    BY <2>1 DEF ToLocal, FromLocal
  <2>3. stats[l].active = 0 /\ stats[l].total = 0 /\ stats[l].forward = 0 /\ stats[l].back = 0
    BY DEF ZeroStats, NoStats
  <2> QED BY <2>1, <2>2, <2>3, FS_EmptySet DEF Exact
<1> QED BY <1>1, <1>2, <1>3 DEF DataInv

LEMMA StatusInitInv == StatusInit => StatusInv
<1> SUFFICES ASSUME StatusInit PROVE StatusInv
  OBVIOUS
<1>1. DataInv
  BY FreshInv DEF StatusInit
<1>2. StatusTypeOK
  BY <1>1, DaemonsAssumption DEF StatusInit, StatusTypeOK, DataInv
<1>3. ClearStarts
  BY DEF StatusInit, ClearStarts
<1> QED BY <1>1, <1>2, <1>3 DEF StatusInv, StatusInit

\* What stays when neither the streams nor the counters change.
LEMMA DataStays ==
  ASSUME UNCHANGED dataVars
  PROVE  /\ DataInv => DataInv'
         /\ DataTypeOK => DataTypeOK'
         /\ Unopened' = Unopened
         /\ \A l : OpenOn(l)' = OpenOn(l)
<1>1. /\ Unopened' = Unopened
      /\ \A l : OpenOn(l)' = OpenOn(l) /\ RelayOn(l)' = RelayOn(l) /\ DoneOn(l)' = DoneOn(l)
  BY DEF dataVars, OpenOn, RelayOn, DoneOn, Unopened
<1>2. DataTypeOK => DataTypeOK'
  BY DEF dataVars, DataTypeOK
<1>3. \A l : /\ ToLocal(DoneOn(l))' = ToLocal(DoneOn(l))
             /\ FromLocal(DoneOn(l))' = FromLocal(DoneOn(l))
  BY <1>1 DEF dataVars, ToLocal, FromLocal
<1>4. \A l \in DOMAIN Link : Exact(l) => Exact(l)'
  BY <1>1, <1>3 DEF dataVars, Exact
<1>5. \A s \in Streams : Fits(stream[s]) => Fits(stream[s])'
  BY DEF dataVars, Fits
<1> QED BY <1>1, <1>2, <1>4, <1>5 DEF DataInv

\* A snapshot stays right while neither the streams nor its process change.
LEMMA SnapshotStays ==
  ASSUME Snapshot, UNCHANGED <<dataVars, reading>>,
         proc'[reading.from] = proc[reading.from],
         reading.from = listening' <=> reading.from = listening
  PROVE  Snapshot'
BY DataStays DEF Snapshot, dataVars

\* Starts, crashes and the steps of run_ipc_server.
LEMMA ProcStepInv ==
  ASSUME StatusInv, NEW d \in Daemons, ProcStep(d)
  PROVE  StatusInv'
<1> USE DEF StatusInv
<1>1. CASE Start(d)
  <2>1. d = starts + 1 /\ proc[d] = "off" /\ d \notin clear /\ d \notin InStart
    BY <1>1 DEF Start, ClearStarts, StatusTypeOK, Daemons, InStart
  <2>2. DataInv' /\ DataTypeOK'
    BY <1>1, DataStays DEF Start, DataInv
  <2>3. StatusTypeOK'
    <3>1. /\ proc' \in [Daemons -> {"off", "starting", "removed", "answering", "deaf"}]
          /\ listening' \in Daemons \cup {None} /\ clear' \subseteq Daemons
          /\ socket' \in Daemons \cup {None} /\ reading' = reading
      BY <1>1 DEF Start, StatusTypeOK
    <3>2. starts' \in 0..MaxStarts
      BY <1>1, DaemonsAssumption DEF Start, Daemons
    <3> QED BY <2>2, <3>1, <3>2 DEF StatusTypeOK
  <2>4. InStart' = InStart \cup {d}
    BY <1>1 DEF Start, InStart, StatusTypeOK
  <2>5. \A e \in Daemons : proc'[e] = IF e = d THEN "starting" ELSE proc[e]
    BY <1>1 DEF Start, StatusTypeOK
  <2>6. \A e \in clear' : e \in Daemons /\ (e = d \/ e \in clear)
    BY <1>1 DEF Start, StatusTypeOK
  <2>7. \A e \in clear' : proc'[e] \in {"starting", "removed"} => InStart' = {e}
    <3>1. CASE InStart = {}
      BY <1>1, <2>4, <2>5, <2>6, <3>1 DEF InStart
    <3>2. CASE InStart # {}
      BY <1>1, <2>1, <2>5, <2>6, <3>2 DEF Start, InStart
    <3> QED BY <3>1, <3>2
  <2>8. ClearStarts'
    <3>1. \A e \in Daemons : e > starts' => proc'[e] = "off"
      BY <1>1, <2>1, <2>5 DEF ClearStarts, Start, StatusTypeOK, Daemons
    <3>2. listening' # None => proc'[listening'] # "off"
      BY <1>1, <2>1, <2>5 DEF ClearStarts, Start, StatusTypeOK
    <3>3. \A e \in clear' : proc'[e] \notin {"off", "deaf"}
      BY <2>5, <2>6 DEF ClearStarts
    <3>4. \A e \in clear' : proc'[e] = "removed" => socket' = None
      BY <1>1, <2>5, <2>6 DEF ClearStarts, Start
    <3> QED BY <2>7, <3>1, <3>2, <3>3, <3>4 DEF ClearStarts
  <2>9. reading' # None => Snapshot'
    <3> SUFFICES ASSUME reading # None PROVE Snapshot'
      BY <1>1 DEF Start
    <3>1. Snapshot /\ reading.from \in Daemons /\ reading.from # d
      BY <2>1 DEF Snapshot, StatusTypeOK
    <3>2. proc'[reading.from] = proc[reading.from]
      BY <2>5, <3>1
    <3>3. reading.from = listening' <=> reading.from = listening
      BY <1>1, <3>1, DaemonsAssumption DEF Start
    <3> QED BY <1>1, <3>1, <3>2, <3>3, SnapshotStays DEF Start
  <2> QED BY <2>2, <2>3, <2>8, <2>9
<1>2. CASE Crash(d)
  <2>1. \A e \in Daemons : proc'[e] = IF e = d THEN "off" ELSE proc[e]
    BY <1>2 DEF Crash, StatusTypeOK
  <2>2. DataInv'
    <3>1. CASE listening = d
      <4>1. (DataInit => DataInv)'
        BY FreshInv, PTL
      <4>2. DataInit'
        BY <1>2, <3>1 DEF Crash, DataInit, DataInv, DataTypeOK
      <4> QED BY <4>1, <4>2
    <3>2. CASE listening # d
      BY <1>2, <3>2, DataStays DEF Crash, dataVars
    <3> QED BY <3>1, <3>2
  <2>3. StatusTypeOK'
    BY <1>2, <2>2 DEF Crash, StatusTypeOK, DataInv
  <2>4. InStart' = InStart \ {d}
    BY <2>1 DEF InStart
  <2>5. ClearStarts'
    BY <1>2, <2>1, <2>4 DEF ClearStarts, Crash, StatusTypeOK
  <2>6. reading' # None => Snapshot'
    <3> SUFFICES ASSUME reading' # None PROVE Snapshot'
      OBVIOUS
    <3>1. reading' = reading /\ reading.from # d /\ reading.from \in Daemons /\ Snapshot
      BY <1>2 DEF Crash, StatusTypeOK
    <3>2. CASE listening = d
      BY <1>2, <2>1, <3>1, <3>2, DaemonsAssumption DEF Crash, Snapshot
    <3>3. CASE listening # d
      <4>1. UNCHANGED <<dataVars, reading>> /\ listening' = listening
        BY <1>2, <3>1, <3>3 DEF Crash, dataVars
      <4> QED BY <2>1, <3>1, <4>1, SnapshotStays
    <3> QED BY <3>2, <3>3
  <2> QED BY <2>2, <2>3, <2>5, <2>6
<1>3. ASSUME UNCHANGED <<dataVars, listening, starts, reading>>,
             NEW to \in {"deaf", "removed", "answering"}, proc[d] \in {"starting", "removed"},
             proc' = [proc EXCEPT ![d] = to],
             socket' \in Daemons \cup {None}, clear' \subseteq clear,
             d \in clear' => to # "deaf",
             \A e \in clear' : proc'[e] = "removed" => socket' = None
      PROVE  StatusInv'
  <2>1. \A e \in Daemons : proc'[e] = IF e = d THEN to ELSE proc[e]
    BY <1>3 DEF StatusTypeOK
  <2>2. DataInv' /\ DataTypeOK'
    BY <1>3, DataStays DEF DataInv
  <2>3. StatusTypeOK'
    BY <1>3, <2>2 DEF StatusTypeOK
  <2>4. InStart' \subseteq InStart /\ \A e \in Daemons : proc'[e] \in {"starting", "removed"} => e \in InStart'
    BY <1>3, <2>1 DEF InStart
  <2>5. ClearStarts'
    <3>1. \A e \in clear' : proc'[e] \in {"starting", "removed"} => InStart' = {e}
      BY <1>3, <2>1, <2>4 DEF ClearStarts, StatusTypeOK, InStart
    <3>2. \A e \in clear' : proc'[e] \notin {"off", "deaf"}
      BY <1>3, <2>1 DEF ClearStarts, StatusTypeOK
    <3>3. listening' # None => proc'[listening'] # "off"
      BY <1>3, <2>1 DEF ClearStarts, StatusTypeOK
    <3>4. \A e \in Daemons : e > starts' => proc'[e] = "off"
      BY <1>3, <2>1 DEF ClearStarts
    <3> QED BY <1>3, <3>1, <3>2, <3>3, <3>4 DEF ClearStarts
  <2>6. reading' # None => Snapshot'
    <3> SUFFICES ASSUME reading # None PROVE Snapshot'
      BY <1>3
    <3>1. Snapshot /\ reading.from \in Daemons /\ reading.from # d
      BY <1>3 DEF Snapshot, StatusTypeOK
    <3> QED BY <1>3, <2>1, <3>1, SnapshotStays
  <2> QED BY <2>2, <2>3, <2>5, <2>6
<1>4. CASE NoDirectory(d)
  BY <1>3, <1>4 DEF NoDirectory, Moves, ClearStarts, StatusTypeOK
<1>5. CASE RemoveSocket(d) \/ RemoveFails(d)
  <2>1. CASE RemoveSocket(d)
    BY <1>3, <2>1 DEF RemoveSocket, Moves, StatusTypeOK
  <2>2. CASE RemoveFails(d)
    BY <1>3, <2>2 DEF RemoveFails, Moves, ClearStarts, StatusTypeOK
  <2> QED BY <1>5, <2>1, <2>2
<1>6. CASE BindSocket(d)
  <2>1. \A e \in clear : e # d => proc[e] # "removed"
    BY <1>6 DEF BindSocket, Moves, ClearStarts, InStart
  <2> QED BY <1>3, <1>6, <2>1 DEF BindSocket, Moves, StatusTypeOK
<1>7. CASE BindFails(d)
  BY <1>3, <1>7 DEF BindFails, Moves, ClearStarts, StatusTypeOK
<1> QED BY <1>1, <1>2, <1>4, <1>5, <1>6, <1>7 DEF ProcStep

\* A snapshot begins: what is being opened, and what is not opened yet, are
\* different streams.
LEMMA QueryInv ==
  ASSUME StatusInv, NEW l \in DOMAIN Link, Query(l)
  PROVE  StatusInv'
<1>1. DataInv' /\ DataTypeOK' /\ ClearStarts'
  BY DataStays DEF Query, StatusInv, DataInv, socketVars, ClearStarts, InStart
<1>2. Opening(l) = Cardinality(OpenOn(l))
  BY DEF Opening, OpenOn
<1>3. Cardinality(OpenOn(l)) + Cardinality(Unopened) <= Cardinality(Streams)
  <2>1. /\ OpenOn(l) \subseteq Streams /\ Unopened \subseteq Streams
        /\ OpenOn(l) \cup Unopened \in SUBSET Streams /\ OpenOn(l) \cap Unopened = {}
    BY DEF OpenOn, Unopened, Setup
  <2>2. IsFiniteSet(OpenOn(l)) /\ IsFiniteSet(Unopened)
    BY <2>1, SizeOfStreams
  <2>3. Cardinality(OpenOn(l) \cup Unopened)
          = Cardinality(OpenOn(l)) + Cardinality(Unopened) - Cardinality(OpenOn(l) \cap Unopened)
    BY <2>2, FS_Union
  <2>4. Cardinality(OpenOn(l) \cap Unopened) = 0
    BY <2>1, FS_EmptySet
  <2>5. Cardinality(OpenOn(l) \cup Unopened) <= Cardinality(Streams)
    BY <2>1, StreamsAssumption, FS_Subset
  <2> QED BY <2>3, <2>4, <2>5, SizesAreNatural
<1>4. PICK late : late = IF socket = listening THEN Opening(l) ELSE 0
  OBVIOUS
<1>5. PICK o, u, n \in Nat :
        o = Cardinality(OpenOn(l)) /\ u = Cardinality(Unopened) /\ n = Cardinality(Streams)
  BY SizesAreNatural, StreamsAssumption, FS_CardinalityType
<1>6. o + u <= n /\ late = (IF socket = listening THEN o ELSE 0) /\ late \in 0..n
  BY <1>2, <1>3, <1>4, <1>5
<1>7. reading' = [from |-> socket, link |-> l, loaded |-> {},
                  seen |-> [active |-> 0, total |-> 0], late |-> late]
  BY <1>4 DEF Query
<1>8. socket \in Daemons /\ proc[socket] = "answering"
  BY DEF Query, StatusInv, StatusTypeOK
<1>9. reading' \in Readings
  BY <1>5, <1>6, <1>7, <1>8 DEF Readings
<1>10. StatusTypeOK'
  BY <1>1, <1>9 DEF Query, socketVars, StatusInv, StatusTypeOK, Readings
<1>11. Cardinality(OpenOn(l)') = o /\ Cardinality(Unopened') = u
  BY <1>5, DataStays DEF Query
<1>12. /\ reading'.from = socket /\ reading'.link = l /\ reading'.loaded = {}
       /\ reading'.seen.active = 0 /\ reading'.late = late
  BY <1>7
<1>13. Snapshot'
  BY <1>5, <1>6, <1>8, <1>11, <1>12 DEF Query, Snapshot, socketVars
<1> QED BY <1>1, <1>10, <1>13 DEF StatusInv

\* A counter is loaded.  What is active is being opened, and so within late,
\* or relayed, and so within total.
LEMMA LoadInv ==
  ASSUME StatusInv, NEW f \in Fields, Load(f)
  PROVE  StatusInv'
<1>1. DataInv' /\ DataTypeOK' /\ ClearStarts'
  BY DataStays DEF Load, StatusInv, DataInv, socketVars, ClearStarts, InStart
<1>2. PICK x \in Readings : x = reading
  BY DEF Load, StatusInv, StatusTypeOK, Readings
<1>3. PICK now \in LinkStats : now = IF x.from = listening THEN stats[x.link] ELSE NoStats
  <2>1. stats[x.link] \in LinkStats /\ NoStats \in LinkStats
    BY DEF StatusInv, DataInv, DataTypeOK, LinkStats, NoStats, Readings
  <2> QED BY <2>1
<1>4. PICK y : y = [x EXCEPT !.loaded = x.loaded \cup {f},
                       !.seen = IF f = "active" THEN [x.seen EXCEPT !.active = now.active]
                                ELSE [x.seen EXCEPT !.total = now.total]]
  OBVIOUS
<1>5. reading' = y
  BY <1>2, <1>3, <1>4 DEF Load
<1>6. /\ y \in Readings /\ y.from = x.from /\ y.link = x.link /\ y.late = x.late
      /\ y.loaded = x.loaded \cup {f}
      /\ y.seen.active = (IF f = "active" THEN now.active ELSE x.seen.active)
      /\ y.seen.total = (IF f = "active" THEN x.seen.total ELSE now.total)
  BY <1>4 DEF Readings, LinkStats
<1>7. StatusTypeOK'
  BY <1>1, <1>5, <1>6 DEF Load, socketVars, StatusInv, StatusTypeOK, Readings
<1>8. Snapshot /\ f \notin x.loaded /\ f \in {"active", "total"}
  BY <1>2 DEF Load, StatusInv, Fields
<1>9. /\ Unopened' = Unopened /\ OpenOn(x.link)' = OpenOn(x.link)
      /\ UNCHANGED <<stats, listening, proc>>
  BY DataStays DEF Load, dataVars, socketVars
<1>10. CASE x.from # listening
  <2>1. now.active = 0
    BY <1>3, <1>10 DEF NoStats
  <2> QED BY <1>1, <1>2, <1>5, <1>6, <1>7, <1>8, <1>9, <1>10, <2>1 DEF Snapshot, StatusInv
<1>11. CASE x.from = listening
  <2>1. PICK o, p \in Nat : o = Cardinality(OpenOn(x.link)) /\ p = Cardinality(RelayOn(x.link))
    BY SizesAreNatural
  <2>2. now = stats[x.link] /\ now.active = o + p /\ p <= now.total /\ x.link \in DOMAIN Link
    BY <1>3, <1>11, <2>1 DEF StatusInv, DataInv, Exact, Readings
  <2>3. o <= x.late /\ x.late \in Nat /\ now.total \in Nat /\ now.active \in Nat
    BY <1>2, <1>8, <1>11, <2>1, StreamsAssumption, FS_CardinalityType DEF Snapshot, Readings, LinkStats
  <2>4. now.active <= now.total + x.late
    BY <2>1, <2>2, <2>3
  <2>5. /\ "total" \in y.loaded /\ "active" \notin y.loaded =>
             stats[y.link].active <= y.seen.total + y.late
        /\ "active" \in y.loaded /\ "total" \notin y.loaded =>
             y.seen.active <= stats[y.link].total + y.late
    BY <1>6, <1>8, <2>2, <2>4
  <2>6. "active" \in y.loaded /\ "total" \in y.loaded => y.seen.active <= y.seen.total + y.late
    BY <1>2, <1>6, <1>8, <1>11, <2>2 DEF Snapshot
  <2>7. Snapshot'
    BY <1>2, <1>5, <1>6, <1>8, <1>9, <1>11, <2>5, <2>6 DEF Snapshot
  <2> QED BY <1>1, <1>7, <2>7 DEF StatusInv
<1> QED BY <1>10, <1>11

\* Streams go on while the snapshot is taken.
LEMMA StreamsGoOnInv ==
  ASSUME StatusInv, StreamsGoOn
  PROVE  StatusInv'
<1>1. DataInv' /\ \A l \in DOMAIN Link : SeenStep(l)
  BY StreamStepInv DEF StreamsGoOn, StatusInv
<1>2. ClearStarts'
  BY DEF StreamsGoOn, StatusInv, socketVars, ClearStarts, InStart
<1>3. StatusTypeOK' /\ (reading' # None => Snapshot')
  <2>1. /\ DataTypeOK' /\ UNCHANGED socketVars
        /\ StatusTypeOK
    BY <1>1 DEF StreamsGoOn, StatusInv, DataInv
  <2>2. CASE reading = None
    BY <2>1, <2>2 DEF StreamsGoOn, StatusTypeOK, socketVars
  <2>3. CASE reading # None
    <3>1. PICK x \in Readings : x = reading
      BY <2>1, <2>3 DEF StatusTypeOK, Readings
    <3>2. Snapshot /\ x.link \in DOMAIN Link /\ x.late \in Nat
      BY <2>3, <3>1, StreamsAssumption, FS_CardinalityType DEF StatusInv, Readings
    <3>3. CASE x.from # listening
      <4>1. reading' = reading
        BY <3>1, <3>3 DEF StreamsGoOn
      <4>2. StatusTypeOK'
        BY <2>1, <4>1 DEF StatusTypeOK, socketVars
      <4>3. Snapshot'
        BY <2>1, <3>1, <3>2, <3>3, <4>1 DEF Snapshot, socketVars
      <4> QED BY <4>2, <4>3
    <3>4. CASE x.from = listening
      <4>1. PICK o, u, n, a, t, sa, st, late, op, up, ap, tp \in Nat :
              /\ o = Cardinality(OpenOn(x.link)) /\ u = Cardinality(Unopened)
              /\ n = Cardinality(Streams) /\ a = stats[x.link].active /\ t = stats[x.link].total
              /\ sa = x.seen.active /\ st = x.seen.total /\ late = x.late
              /\ op = Cardinality(OpenOn(x.link)') /\ up = Cardinality(Unopened')
              /\ ap = stats'[x.link].active /\ tp = stats'[x.link].total
        <5>1. /\ stats \in [DOMAIN Link -> LinkStats]
              /\ stats' \in [DOMAIN Link -> LinkStats]
          BY <1>1 DEF DataInv, DataTypeOK, StatusInv, LinkStats
        <5>2. /\ Cardinality(OpenOn(x.link)) \in Nat /\ Cardinality(Unopened) \in Nat
              /\ Cardinality(Streams) \in Nat
          BY SizesAreNatural, StreamsAssumption, FS_CardinalityType
        <5>3. Cardinality(OpenOn(x.link)') \in Nat /\ Cardinality(Unopened') \in Nat
          <6>1. OpenOn(x.link)' \in SUBSET Streams /\ Unopened' \in SUBSET Streams
            BY DEF OpenOn, Unopened
          <6> QED BY <6>1, SizeOfStreams
        <5> QED BY <3>2, <5>1, <5>2, <5>3 DEF Readings, LinkStats
      <4>2. /\ late + u <= n /\ o <= late
            /\ "total" \in x.loaded /\ "active" \notin x.loaded => a <= st + late
            /\ "active" \in x.loaded /\ "total" \notin x.loaded => sa <= t + late
            /\ "active" \in x.loaded /\ "total" \in x.loaded => sa <= st + late
        BY <3>1, <3>2, <3>4, <4>1 DEF Snapshot
      <4>3. t <= tp /\ (\/ ap = a + 1 /\ op = o + 1 /\ up = u - 1
                        \/ ap <= a /\ op <= o /\ up <= u)
        BY <1>1, <3>2, <4>1 DEF SeenStep
      <4>4. PICK lp \in Nat : lp = IF ap > a THEN late + 1 ELSE late
        OBVIOUS
      <4>5. PICK y : y = [x EXCEPT !.late = lp]
        OBVIOUS
      <4>6. lp + up <= n /\ op <= lp
        BY <4>2, <4>3, <4>4
      <4>7. /\ y \in Readings /\ y.from = x.from /\ y.link = x.link /\ y.loaded = x.loaded
            /\ y.seen = x.seen /\ y.late = lp
        BY <3>1, <4>1, <4>4, <4>5, <4>6 DEF Readings
      <4>8. reading' = y
        <5>1. x.from = reading.from /\ x.link = reading.link /\ x.late = reading.late
          BY <3>1
        <5>2. CASE ap > a
          BY <2>3, <3>1, <3>4, <4>1, <4>4, <4>5, <5>1, <5>2 DEF StreamsGoOn
        <5>3. CASE ~(ap > a)
          <6>1. reading' = x /\ lp = late
            BY <2>3, <3>1, <3>4, <4>1, <4>4, <5>1, <5>3 DEF StreamsGoOn
          <6> QED BY <4>1, <4>5, <6>1 DEF Readings
        <5> QED BY <5>2, <5>3
      <4>9. /\ "total" \in x.loaded /\ "active" \notin x.loaded => ap <= st + lp
            /\ "active" \in x.loaded /\ "total" \notin x.loaded => sa <= tp + lp
            /\ "active" \in x.loaded /\ "total" \in x.loaded => sa <= st + lp
        BY <4>2, <4>3, <4>4
      <4>10. StatusTypeOK'
        BY <2>1, <4>7, <4>8 DEF StatusTypeOK, socketVars, Readings
      <4>11. Snapshot'
        BY <2>1, <3>1, <3>2, <3>4, <4>1, <4>6, <4>7, <4>8, <4>9 DEF Snapshot, socketVars
      <4> QED BY <4>10, <4>11
    <3> QED BY <3>3, <3>4
  <2> QED BY <2>2, <2>3
<1> QED BY <1>1, <1>2, <1>3 DEF StatusInv

LEMMA StatusNextInv == StatusInv /\ [StatusNext]_statusVars => StatusInv'
<1> SUFFICES ASSUME StatusInv, [StatusNext]_statusVars PROVE StatusInv'
  OBVIOUS
<1>1. CASE Respond
  BY <1>1, DataStays DEF Respond, StatusInv, DataInv, StatusTypeOK, socketVars, ClearStarts, InStart
<1>2. CASE UNCHANGED statusVars
  <2>1. DataInv' /\ DataTypeOK' /\ UNCHANGED <<dataVars, socketVars, reading>>
    BY <1>2, DataStays DEF statusVars, StatusInv, DataInv
  <2>2. StatusTypeOK' /\ ClearStarts'
    BY <2>1 DEF StatusInv, StatusTypeOK, socketVars, ClearStarts, InStart
  <2>3. reading' # None => Snapshot'
    BY <2>1, SnapshotStays DEF StatusInv, socketVars
  <2> QED BY <2>1, <2>2, <2>3 DEF StatusInv
<1> QED BY <1>1, <1>2, ProcStepInv, StreamsGoOnInv, QueryInv, LoadInv DEF StatusNext

LEMMA StatusInvariance == StatusSpec => []StatusInv
<1>1. StatusInit => StatusInv
  BY StatusInitInv
<1>2. StatusInv /\ [StatusNext]_statusVars => StatusInv'
  BY StatusNextInv
<1> QED BY <1>1, <1>2, PTL DEF StatusSpec
-----------------------------------------------------------------------------
(***************************************************************************)
(* What holds in every state.                                              *)
(***************************************************************************)
\* Type correctness: no counter falls below zero, on any path through the
\* relay, and a relay always has a link of the configuration.
THEOREM StatusTypeCorrect == StatusSpec => []StatusTypeOK
<1>1. StatusInv => StatusTypeOK
  BY DEF StatusInv
<1> QED BY <1>1, StatusInvariance, PTL

\* A daemon whose start no other start overlaps is not left without its status
\* socket by what a crash, or a daemon before it, left at the path.
THEOREM StaleSocketReplacedAlways == StatusSpec => []StaleSocketReplaced
<1>1. StatusInv => StaleSocketReplaced
  BY DEF StatusInv, ClearStarts, StaleSocketReplaced
<1> QED BY <1>1, StatusInvariance, PTL

\* However the loads of a snapshot interleave with the relays, it shows no more
\* active streams than the total plus those opened while it was taken.
THEOREM ActiveWithinTotalAlways == StatusSpec => []ActiveWithinTotal
<1>1. StatusInv => ActiveWithinTotal
  <2> SUFFICES ASSUME StatusInv, reading # None, reading.loaded = Fields
               PROVE  reading.seen.active <= reading.seen.total + reading.late
    BY DEF ActiveWithinTotal
  <2>1. Snapshot /\ reading \in Readings
    BY DEF StatusInv, StatusTypeOK, Readings
  <2>2. reading.seen.total \in Nat /\ reading.late \in Nat
    BY <2>1, StreamsAssumption, FS_CardinalityType DEF Readings
  <2> QED BY <2>1, <2>2 DEF Snapshot, Fields
<1> QED BY <1>1, StatusInvariance, PTL

\* When no stream is under way, no link has an active stream, and the bytes
\* counted are those of the streams that ended without an error.
THEOREM QuietIsExactAlways == StatusSpec => []QuietIsExact
<1>1. StatusInv => QuietIsExact
  <2> SUFFICES ASSUME StatusInv, \A s \in Streams : stream[s].at \in {"idle", "ended"},
                      NEW l \in DOMAIN Link
               PROVE  /\ stats[l].active = 0
                      /\ stats[l].forward = Cardinality(ToLocal(Over(l)))
                      /\ stats[l].back = Cardinality(FromLocal(Over(l)))
    BY DEF QuietIsExact, Quiet
  <2>1. l # None
    BY NoneAssumption, LinkAssumption
  <2>2. Over(l) = DoneOn(l)
    BY <2>1 DEF StatusInv, DataInv, Fits, DoneOn, Over
  <2>3. OpenOn(l) = {} /\ RelayOn(l) = {}
    BY DEF OpenOn, RelayOn
  <2>4. Exact(l)
    BY DEF StatusInv, DataInv
  <2>5. Cardinality(OpenOn(l)) = 0 /\ Cardinality(RelayOn(l)) = 0
    BY <2>3, FS_EmptySet
  <2>6. stats[l].active = 0
    BY <2>4, <2>5 DEF Exact
  <2> QED BY <2>2, <2>4, <2>6 DEF Exact
<1> QED BY <1>1, StatusInvariance, PTL
=============================================================================
