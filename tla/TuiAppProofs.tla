---------------------------- MODULE TuiAppProofs ----------------------------
(***************************************************************************)
(* Theorems about the configuration (Config) and the terminal UI (TuiApp): *)
(* any ids, names, addresses and keys, lists of any length, any number of  *)
(* edits, any files written by hand.                                       *)
(***************************************************************************)
EXTENDS TuiApp, DequesProofs, FiniteSetTheorems

(***************************************************************************)
(* Lists: what Vec::retain and Vec::remove leave.                          *)
(***************************************************************************)
\* How many of the kept indices there are up to i.
Rank(kept, i) == Cardinality({j \in kept : j <= i})

\* The k-th of the kept indices is the one with k kept indices up to it.
LEMMA RankExists ==
  ASSUME NEW n \in Nat, NEW kept, kept \subseteq 1..n,
         NEW k \in Nat, k > 0, k <= Cardinality(kept)
  PROVE  \E i \in kept : Rank(kept, i) = k
<1> DEFINE UpTo(i) == {j \in kept : j <= i}
           Enough == {i \in 0..n : Cardinality(UpTo(i)) >= k}
<1>1. IsFiniteSet(kept) /\ Cardinality(kept) \in Nat
  <2>1. 1 \in Int /\ n \in Int
    OBVIOUS
  <2>2. IsFiniteSet(1..n)
    BY ONLY <2>1, FS_Interval
  <2> QED BY <2>2, FS_Subset, FS_CardinalityType
<1>2. \A j \in kept : j \in Nat /\ 1 <= j /\ j <= n
  OBVIOUS
<1>3. \A i : IsFiniteSet(UpTo(i)) /\ Cardinality(UpTo(i)) \in Nat
  <2>1. \A i : UpTo(i) \in SUBSET kept
    OBVIOUS
  <2> QED BY <1>1, <2>1, FS_Subset, FS_CardinalityType
<1>4. UpTo(n) = kept /\ UpTo(0) = {}
  <2>1. \A j \in kept : j <= n /\ ~(j <= 0)
    BY ONLY <1>2
  <2> QED BY ONLY <2>1
<1>5. n \in Enough /\ Enough \subseteq Nat
  <2>1. Cardinality(UpTo(n)) >= k
    BY <1>1, <1>4
  <2> HIDE DEF UpTo
  <2> QED BY <2>1
<1>6. PICK i \in Enough : \A y \in Enough : i <= y
  BY <1>5, LeastNatural
<1>7. i \in Nat /\ i <= n /\ Cardinality(UpTo(i)) >= k
  BY <1>6
<1>8. i # 0
  <2>1. Cardinality(UpTo(0)) = 0
    BY <1>4, FS_EmptySet
  <2> HIDE DEF UpTo
  <2> QED BY <1>7, <2>1
<1>9. i - 1 \in 0..n /\ i - 1 \notin Enough
  BY ONLY <1>6, <1>7, <1>8, n \in Nat
<1>10. ~(Cardinality(UpTo(i - 1)) >= k)
  BY <1>9
<1>11. i \in kept
  <2> SUFFICES ASSUME i \notin kept PROVE FALSE
    OBVIOUS
  <2>1. \A j \in kept : j <= i <=> j <= i - 1
    BY <1>2, <1>7
  <2>2. UpTo(i) = UpTo(i - 1)
    BY <2>1
  <2> HIDE DEF UpTo
  <2> QED BY <1>7, <1>10, <2>2
<1>12. UpTo(i) = UpTo(i - 1) \cup {i} /\ i \notin UpTo(i - 1)
  <2>1. \A j \in kept : j <= i <=> j <= i - 1 \/ j = i
    BY <1>2, <1>7
  <2>2. ~(i <= i - 1)
    BY <1>7
  <2> QED BY <1>11, <2>1, <2>2
<1> HIDE DEF UpTo
<1>13. Cardinality(UpTo(i)) = Cardinality(UpTo(i - 1)) + 1
  BY <1>3, <1>12, FS_AddElement
<1>14. Cardinality(UpTo(i)) = k
  <2>1. PICK a \in Nat : a = Cardinality(UpTo(i - 1))
    BY <1>3
  <2> QED BY <1>7, <1>10, <1>13, <2>1
<1> QED BY <1>11, <1>14 DEF UpTo, Rank

\* Each position of r stands for one of the kept indices of s, different
\* positions for different ones, and none is lost.
Picks(s, kept, r) ==
  \E f \in [DOMAIN r -> kept] :
    /\ \A k \in DOMAIN r : r[k] = s[f[k]]
    /\ \A k, m \in DOMAIN r : f[k] = f[m] => k = m
    /\ \A i \in kept : \E k \in DOMAIN r : f[k] = i

\* Retain keeps the elements at the kept indices.
LEMMA RetainKeeps ==
  ASSUME NEW S, NEW s \in Seq(S), NEW kept, kept \subseteq DOMAIN s
  PROVE  Retain(s, kept) \in Seq(S) /\ Picks(s, kept, Retain(s, kept))
<1> DEFINE rank(i) == Rank(kept, i)
           at(k) == CHOOSE i \in kept : rank(i) = k
           f == [k \in 1..Cardinality(kept) |-> at(k)]
<1>1. Len(s) \in Nat /\ DOMAIN s = 1..Len(s) /\ \A i \in kept : i \in Nat
  OBVIOUS
<1>2. PICK c \in Nat : c = Cardinality(kept) /\ IsFiniteSet(kept)
  <2>1. 1 \in Int /\ Len(s) \in Int
    BY <1>1
  <2>2. IsFiniteSet(1..Len(s))
    BY ONLY <2>1, FS_Interval
  <2>3. IsFiniteSet(kept)
    BY <1>1, <2>2, FS_Subset
  <2> QED BY <2>3, FS_CardinalityType
<1>3. \A k \in 1..c : at(k) \in kept /\ rank(at(k)) = k
  <2> SUFFICES ASSUME NEW k \in 1..c PROVE at(k) \in kept /\ rank(at(k)) = k
    OBVIOUS
  <2>1. k \in Nat /\ k > 0 /\ k <= Cardinality(kept) /\ kept \subseteq 1..Len(s)
    BY <1>1, <1>2
  <2>2. PICK n \in Nat : n = Len(s)
    BY <1>1
  <2>3. \E i \in kept : rank(i) = k
    BY <2>1, <2>2, RankExists
  <2> HIDE DEF rank
  <2> QED BY <2>3
<1>4. Retain(s, kept) = [k \in 1..c |-> s[at(k)]]
  BY <1>2 DEF Retain, Rank
<1>5. Retain(s, kept) \in Seq(S) /\ DOMAIN Retain(s, kept) = 1..c
  <2> HIDE DEF at
  <2>1. \A i \in kept : s[i] \in S
    OBVIOUS
  <2>2. \A k \in 1..c : s[at(k)] \in S
    BY ONLY <1>3, <2>1
  <2> QED BY <1>4, <2>2
<1>6. \A i \in kept : rank(i) \in 1..c
  <2> SUFFICES ASSUME NEW i \in kept PROVE rank(i) \in 1..c
    OBVIOUS
  <2>1. {j \in kept : j <= i} \in SUBSET kept /\ i \in {j \in kept : j <= i}
    BY <1>1
  <2>2. /\ IsFiniteSet({j \in kept : j <= i}) /\ rank(i) \in Nat /\ rank(i) # 0
        /\ rank(i) <= Cardinality(kept)
    BY <1>2, <2>1, FS_Subset, FS_CardinalityType, FS_EmptySet DEF Rank
  <2> HIDE DEF rank
  <2> QED BY <1>2, <2>2
<1>7. \A i, j \in kept : rank(i) = rank(j) => i = j
  <2>1. \A i, j \in kept : i < j => rank(i) # rank(j)
    <3> SUFFICES ASSUME NEW i \in kept, NEW j \in kept, i < j PROVE rank(i) # rank(j)
      OBVIOUS
    <3>1. /\ {l \in kept : l <= i} \in SUBSET {l \in kept : l <= j}
          /\ j \in {l \in kept : l <= j} /\ j \notin {l \in kept : l <= i}
      BY <1>1
    <3>2. IsFiniteSet({l \in kept : l <= j})
      BY <1>2, FS_Subset
    <3> QED BY <3>1, <3>2, FS_Subset DEF Rank
  <2>2. \A i, j \in kept : i = j \/ i < j \/ j < i
    BY <1>1
  <2> HIDE DEF rank
  <2> QED BY <2>1, <2>2
<1> HIDE DEF rank, at
<1>8. \A i \in kept : \E k \in 1..c : at(k) = i
  BY <1>3, <1>6, <1>7
<1>9. f \in [DOMAIN Retain(s, kept) -> kept] /\ \A k \in DOMAIN Retain(s, kept) : f[k] = at(k)
  BY <1>2, <1>3, <1>5
<1>10. \A k, m \in DOMAIN Retain(s, kept) : at(k) = at(m) => k = m
  BY <1>3, <1>5
<1>11. \A k \in DOMAIN Retain(s, kept) : Retain(s, kept)[k] = s[at(k)]
  BY <1>4, <1>5
<1>12. \A i \in kept : \E k \in DOMAIN Retain(s, kept) : f[k] = i
  BY <1>5, <1>8, <1>9
<1>13. \A k \in DOMAIN Retain(s, kept) : Retain(s, kept)[k] = s[f[k]]
  BY <1>9, <1>11
<1>14. \A k, m \in DOMAIN Retain(s, kept) : f[k] = f[m] => k = m
  BY <1>9, <1>10
<1> HIDE DEF f
<1> QED BY <1>5, <1>9, <1>12, <1>13, <1>14 DEF Picks

\* Removing one element leaves all others, in their order.
LEMMA WithoutIndexLeaves ==
  ASSUME NEW S, NEW s \in Seq(S), NEW n \in 0..(Len(s) - 1)
  PROVE  /\ WithoutIndex(s, n) \in Seq(S) /\ Len(WithoutIndex(s, n)) = Len(s) - 1
         /\ \A i \in 1..(Len(s) - 1) :
              WithoutIndex(s, n)[i] = s[IF i <= n THEN i ELSE i + 1]
<1>1. Len(s) \in Nat /\ n \in Nat /\ n < Len(s)
  OBVIOUS
<1>2. /\ SubSeq(s, 1, n) \in Seq(S) /\ Len(SubSeq(s, 1, n)) = n
      /\ \A i \in 1..n : SubSeq(s, 1, n)[i] = s[i]
  BY <1>1
<1>3. /\ SubSeq(s, n + 2, Len(s)) \in Seq(S) /\ Len(SubSeq(s, n + 2, Len(s))) = Len(s) - n - 1
      /\ \A i \in 1..(Len(s) - n - 1) : SubSeq(s, n + 2, Len(s))[i] = s[n + 1 + i]
  BY <1>1
<1>4. PICK a, b \in Seq(S) : a = SubSeq(s, 1, n) /\ b = SubSeq(s, n + 2, Len(s))
  BY <1>2, <1>3
<1>5. /\ a \o b \in Seq(S) /\ Len(a \o b) = Len(a) + Len(b)
      /\ \A i \in 1..(Len(a) + Len(b)) : (a \o b)[i] = IF i <= Len(a) THEN a[i] ELSE b[i - Len(a)]
  BY ConcatProperties
<1>6. WithoutIndex(s, n) = a \o b /\ Len(a) = n /\ Len(b) = Len(s) - n - 1
  BY <1>2, <1>3, <1>4 DEF WithoutIndex
<1>7. PICK w \in Seq(S), l \in Nat : w = WithoutIndex(s, n) /\ l = Len(s)
  BY <1>1, <1>5, <1>6
<1>8. Len(w) = l - 1
  BY <1>1, <1>5, <1>6, <1>7
<1>9. ASSUME NEW i \in 1..(l - 1) PROVE w[i] = s[IF i <= n THEN i ELSE i + 1]
  <2>1. w[i] = IF i <= n THEN a[i] ELSE b[i - n]
    BY <1>1, <1>5, <1>6, <1>7
  <2>2. CASE i <= n
    BY <1>1, <1>2, <1>4, <2>1, <2>2
  <2>3. CASE ~(i <= n)
    <3>1. i - n \in 1..(l - n - 1) /\ n + 1 + (i - n) = i + 1
      BY <1>1, <1>7, <2>3
    <3>2. b[i - n] = s[n + 1 + (i - n)]
      BY <1>3, <1>4, <1>7, <3>1
    <3> QED BY <2>1, <2>3, <3>1, <3>2
  <2> QED BY <2>2, <2>3
<1> QED BY <1>7, <1>8, <1>9
-----------------------------------------------------------------------------
(***************************************************************************)
(* Validation.  What edits keep of a valid configuration is stated entry   *)
(* by entry: Sound(c) says that none of the rules is broken that an edit   *)
(* never breaks.                                                           *)
(***************************************************************************)
UdpAddress(c) == IF c.role = "server" THEN c.listen_udp ELSE c.server_udp_addr

SoundLink(role, l) == ValidateLink(role, l) = {} /\ ~(l.transport = "udp" /\ l.mode = "reverse")

SoundLinks(c) ==
  /\ \A i, j \in DOMAIN c.links : c.links[i].id = c.links[j].id => i = j
  /\ \A i \in DOMAIN c.links : SoundLink(c.role, c.links[i])
  /\ \A i \in DOMAIN c.links : c.links[i].transport = "udp" => UdpAddress(c) # None

SoundPeers(c) ==
  /\ \A i, j \in DOMAIN c.peers : c.peers[i].name = c.peers[j].name => i = j
  /\ \A i \in DOMAIN c.peers : Decodes(c.peers[i].public_key)

SoundServer(c) ==
  /\ c.listen_control # None /\ c.listen_data # None
  /\ c.server_control_addr = None /\ c.server_data_addr = None /\ c.peer_public_key = None
  /\ SoundPeers(c)

SoundClient(c) ==
  /\ c.server_control_addr # None /\ c.server_data_addr # None
  /\ c.listen_control = None /\ c.listen_data = None
  /\ c.peer_public_key # None /\ Decodes(c.peer_public_key)
  /\ c.peers = <<>>

Sound(c) == /\ SoundLinks(c)
            /\ IF c.role = "server" THEN SoundServer(c) ELSE SoundClient(c)

\* A configuration holds lists, whose elements are in it.
LEMMA ConfigLists ==
  ASSUME NEW c \in Configs
  PROVE  /\ c.links \in Seq(LinkConfig) /\ c.peers \in Seq(PeerConfig)
         /\ Len(c.links) \in Nat /\ DOMAIN c.links = 1..Len(c.links)
         /\ Len(c.peers) \in Nat /\ DOMAIN c.peers = 1..Len(c.peers)
         /\ \A i \in DOMAIN c.links : c.links[i] \in LinkConfig
         /\ \A i \in DOMAIN c.peers : c.peers[i] \in PeerConfig
         /\ c.role \in Roles
<1>1. c.links \in Seq(LinkConfig) /\ c.peers \in Seq(PeerConfig) /\ c.role \in Roles
  BY DEF Configs
<1>2. PICK ls \in Seq(LinkConfig), ps \in Seq(PeerConfig) : ls = c.links /\ ps = c.peers
  BY <1>1
<1>3. /\ Len(ls) \in Nat /\ DOMAIN ls = 1..Len(ls) /\ Len(ps) \in Nat /\ DOMAIN ps = 1..Len(ps)
      /\ \A i \in DOMAIN ls : ls[i] \in LinkConfig
      /\ \A i \in DOMAIN ps : ps[i] \in PeerConfig
  OBVIOUS
<1> QED BY <1>1, <1>2, <1>3

\* No value is met twice exactly when all are different.
LEMMA NoRepeats ==
  ASSUME NEW n \in Nat, NEW v, DOMAIN v = 1..n
  PROVE  Repeats(v) = {} <=> \A i, j \in 1..n : v[i] = v[j] => i = j
<1>1. \A i \in 1..n : i \in Repeats(v) <=> \E k \in 1..(i - 1) : v[k] = v[i]
  BY DEF Repeats
<1>2. ASSUME Repeats(v) = {}, NEW i \in 1..n, NEW j \in 1..n, v[i] = v[j], i # j PROVE FALSE
  <2>1. CASE i < j
    <3>1. i \in 1..(j - 1)
      BY <2>1
    <3> QED BY <1>1, <1>2, <3>1
  <2>2. CASE j < i
    <3>1. j \in 1..(i - 1)
      BY <2>2
    <3> QED BY <1>1, <1>2, <3>1
  <2> QED BY <1>2, <2>1, <2>2
<1>3. ASSUME \A i, j \in 1..n : v[i] = v[j] => i = j, NEW i \in Repeats(v) PROVE FALSE
  <2>1. i \in 1..n
    BY DEF Repeats
  <2>2. PICK k \in 1..(i - 1) : v[k] = v[i]
    BY <1>1, <2>1
  <2>3. k \in 1..n /\ k # i
    BY <2>1
  <2> QED BY <1>3, <2>1, <2>2, <2>3
<1> QED BY <1>2, <1>3

\* A valid configuration is sound.
LEMMA ValidIsSound ==
  ASSUME NEW c \in Configs, Valid(c)
  PROVE  Sound(c)
<1>1. /\ ValidateLinks(c) = {} /\ ValidateUdp(c) = {}
      /\ c.role = "server" => ValidateServer(c) = {}
      /\ c.role # "server" => ValidateClient(c) = {}
  BY DEF Valid, Validate
<1>2. SoundLinks(c)
  <2>1. Repeats([j \in DOMAIN c.links |-> c.links[j].id]) = {}
    BY <1>1 DEF ValidateLinks
  <2>2. \A i, j \in DOMAIN c.links : c.links[i].id = c.links[j].id => i = j
    <3>1. PICK n \in Nat : n = Len(c.links) /\ DOMAIN c.links = 1..n
      BY ConfigLists
    <3>2. PICK v : v = [j \in 1..n |-> c.links[j].id]
      OBVIOUS
    <3>3. DOMAIN v = 1..n /\ Repeats(v) = {} /\ \A i \in 1..n : v[i] = c.links[i].id
      BY <2>1, <3>1, <3>2
    <3>4. \A i, j \in 1..n : v[i] = v[j] => i = j
      BY ONLY n \in Nat, <3>3, NoRepeats
    <3> QED BY <3>1, <3>3, <3>4
  <2>3. \A i \in DOMAIN c.links : c.links[i] \in Range(c.links)
    BY DEF Range
  <2>4. \A l \in Range(c.links) : ValidateLink(c.role, l) = {}
    BY <1>1 DEF ValidateLinks
  <2>5. \A l \in Range(c.links) : l.transport = "udp" => l.mode # "reverse"
    BY <1>1 DEF ValidateUdp
  <2>6. ASSUME NEW l \in Range(c.links), l.transport = "udp" PROVE UdpAddress(c) # None
    <3>1. {k \in Range(c.links) : k.transport = "udp"} # {}
      BY <2>6
    <3>2. RequirePresent(IF c.role = "server" THEN "listen_udp" ELSE "server_udp_addr",
                         UdpAddress(c)) = {}
      BY <1>1, <3>1 DEF ValidateUdp, UdpAddress
    <3> QED BY <3>2 DEF RequirePresent, When
  <2> QED BY <2>2, <2>3, <2>4, <2>5, <2>6 DEF SoundLinks, SoundLink
<1>3. CASE c.role = "server"
  <2>1. /\ ValidatePeers(c) = {}
        /\ RequirePresent("listen_control", c.listen_control) = {}
        /\ RequirePresent("listen_data", c.listen_data) = {}
        /\ RequireAbsent("server_control_addr", c.server_control_addr) = {}
        /\ RequireAbsent("server_data_addr", c.server_data_addr) = {}
        /\ RequireAbsent("peer_public_key", c.peer_public_key) = {}
    BY <1>1, <1>3 DEF ValidateServer
  <2>2. Repeats([j \in DOMAIN c.peers |-> c.peers[j].name]) = {}
    BY <2>1 DEF ValidatePeers
  <2>3. \A i, j \in DOMAIN c.peers : c.peers[i].name = c.peers[j].name => i = j
    <3>1. PICK n \in Nat : n = Len(c.peers) /\ DOMAIN c.peers = 1..n
      BY ConfigLists
    <3>2. PICK v : v = [j \in 1..n |-> c.peers[j].name]
      OBVIOUS
    <3>3. DOMAIN v = 1..n /\ Repeats(v) = {} /\ \A i \in 1..n : v[i] = c.peers[i].name
      BY <2>2, <3>1, <3>2
    <3>4. \A i, j \in 1..n : v[i] = v[j] => i = j
      BY ONLY n \in Nat, <3>3, NoRepeats
    <3> QED BY <3>1, <3>3, <3>4
  <2>4. \A p \in Range(c.peers) : Decodes(p.public_key)
    BY <2>1 DEF ValidatePeers
  <2>5. SoundPeers(c)
    BY <2>3, <2>4 DEF SoundPeers, Range
  <2> QED BY <1>2, <1>3, <2>1, <2>5 DEF Sound, SoundServer, RequirePresent, RequireAbsent, When
<1>4. CASE c.role # "server"
  <2>1. /\ RequirePresent("server_control_addr", c.server_control_addr) = {}
        /\ RequirePresent("server_data_addr", c.server_data_addr) = {}
        /\ RequireAbsent("listen_control", c.listen_control) = {}
        /\ RequireAbsent("listen_data", c.listen_data) = {}
        /\ RequirePresent("peer_public_key", c.peer_public_key) = {}
        /\ When(c.peer_public_key # None /\ ~Decodes(c.peer_public_key),
                <<"bad key", "peer_public_key">>) = {}
        /\ When(c.peers # <<>>, <<"forbidden", "peers">>) = {}
    BY <1>1, <1>4 DEF ValidateClient
  <2> QED BY <1>2, <1>4, <2>1 DEF Sound, SoundClient, RequirePresent, RequireAbsent, When
<1> QED BY <1>3, <1>4

\* Each link of a sound configuration has the address that its side uses.
LEMMA SoundLinkHasAddress ==
  ASSUME NEW role, NEW l, ValidateLink(role, l) = {}
  PROVE  IF LinkNeedsListen(role, l.mode) THEN l.listen # None ELSE l.target # None
BY DEF ValidateLink, RequirePresent, When

\* Whatever configuration validate() accepts, no expect("validated: ...") of
\* the daemon fails on it, at the start or when a connection arrives.
THEOREM ValidNeverPanics == \A c \in Configs : Valid(c) => None \notin Unwraps(c)
<1> SUFFICES ASSUME NEW c \in Configs, Valid(c) PROVE None \notin Unwraps(c)
  OBVIOUS
<1>1. Sound(c) /\ c.role \in Roles
  BY ValidIsSound, ConfigLists
<1>2. \A l \in Range(c.links) : /\ SoundLink(c.role, l)
                                /\ l.transport = "udp" => UdpAddress(c) # None
  BY <1>1 DEF Sound, SoundLinks, Range
<1>3. \A l \in Range(c.links) :
        IF LinkNeedsListen(c.role, l.mode) THEN l.listen # None ELSE l.target # None
  BY <1>2, SoundLinkHasAddress DEF SoundLink
<1>4. CASE c.role = "server"
  <2>1. /\ \A l \in Range(c.links) : l.mode = "reverse" => l.listen # None
        /\ \A l \in Range(c.links) : l.mode = "forward" => l.target # None
    BY <1>3, <1>4 DEF LinkNeedsListen
  <2>2. c.listen_control # None /\ c.listen_data # None
    BY <1>1, <1>4 DEF Sound, SoundServer
  <2> QED BY <1>4, <2>1, <2>2 DEF Unwraps, UnwrapsServer
<1>5. CASE c.role # "server"
  <2>1. \A l \in Range(c.links) : l.mode = "forward" => l.listen # None
    BY <1>1, <1>3, <1>5 DEF LinkNeedsListen, Roles
  <2>2. \A l \in Range(c.links) : l.transport = "udp" => c.server_udp_addr # None
    BY <1>2, <1>5 DEF UdpAddress
  <2>3. c.peer_public_key # None /\ c.server_control_addr # None /\ c.server_data_addr # None
    BY <1>1, <1>5 DEF Sound, SoundClient
  <2> QED BY <1>5, <2>1, <2>2, <2>3 DEF Unwraps, UnwrapsClient
<1> QED BY <1>4, <1>5

\* Nothing is refused about a sound configuration but what edits may cause.
LEMMA SoundErrors ==
  ASSUME NEW c \in Configs, Sound(c)
  PROVE  Validate(c) \subseteq EditErrors
<1>1. ValidateLinks(c) = {}
  <2>1. PICK n \in Nat : n = Len(c.links) /\ DOMAIN c.links = 1..n
    BY ConfigLists
  <2>2. PICK v : v = [j \in 1..n |-> c.links[j].id]
    OBVIOUS
  <2>3. DOMAIN v = 1..n /\ \A i, j \in 1..n : v[i] = v[j] => i = j
    BY <2>1, <2>2 DEF Sound, SoundLinks
  <2>4. Repeats(v) = {}
    BY ONLY n \in Nat, <2>3, NoRepeats
  <2>5. Repeats([j \in DOMAIN c.links |-> c.links[j].id]) = {}
    BY <2>1, <2>2, <2>4
  <2>6. \A l \in Range(c.links) : ValidateLink(c.role, l) = {}
    BY DEF Sound, SoundLinks, SoundLink, Range
  <2> QED BY <2>5, <2>6 DEF ValidateLinks
<1>2. ValidateUdp(c) \subseteq {<<"forbidden", "listen_udp">>, <<"forbidden", "server_udp_addr">>}
  <2>1. \A l \in Range(c.links) : /\ l.transport = "udp" => l.mode # "reverse"
                                  /\ l.transport = "udp" => UdpAddress(c) # None
    BY DEF Sound, SoundLinks, SoundLink, Range
  <2> DEFINE udp == {l \in Range(c.links) : l.transport = "udp"}
             field == IF c.role = "server" THEN "listen_udp" ELSE "server_udp_addr"
  <2>2. {<<"reverse udp", l.id>> : l \in {k \in udp : k.mode = "reverse"}} = {}
    BY <2>1
  <2>3. udp # {} => RequirePresent(field, UdpAddress(c)) = {}
    BY <2>1 DEF RequirePresent, When
  <2>4. RequireAbsent(field, UdpAddress(c))
          \subseteq {<<"forbidden", "listen_udp">>, <<"forbidden", "server_udp_addr">>}
    BY DEF RequireAbsent, When
  <2> QED BY <2>2, <2>3, <2>4 DEF ValidateUdp, UdpAddress
<1>3. CASE c.role = "server"
  <2>1. SoundPeers(c) /\ SoundServer(c)
    BY <1>3 DEF Sound, SoundServer
  <2>2. \A p \in Range(c.peers) : p.name \in Names /\ Decodes(p.public_key)
    BY <2>1, ConfigLists DEF SoundPeers, Range, PeerConfig
  <2>3. \A i \in DOMAIN c.peers : c.peers[i].name \in Names
    BY ConfigLists DEF PeerConfig
  <2>4. {<<"duplicate name", c.peers[i].name>> :
           i \in Repeats([j \in DOMAIN c.peers |-> c.peers[j].name])} = {}
    <3>1. PICK n \in Nat : n = Len(c.peers) /\ DOMAIN c.peers = 1..n
      BY ConfigLists
    <3>2. PICK v : v = [j \in 1..n |-> c.peers[j].name]
      OBVIOUS
    <3>3. DOMAIN v = 1..n /\ \A i, j \in 1..n : v[i] = v[j] => i = j
      BY <2>1, <3>1, <3>2 DEF SoundPeers
    <3>4. Repeats(v) = {}
      BY ONLY n \in Nat, <3>3, NoRepeats
    <3> QED BY <3>1, <3>2, <3>4
  <2>5. {<<"key reused", c.peers[i].name>> : i \in
           {i \in Repeats([j \in DOMAIN c.peers |-> DecodedKey[c.peers[j].public_key]]) :
              Decodes(c.peers[i].public_key)}} \subseteq EditErrors
    <3>1. \A v : DOMAIN v = DOMAIN c.peers => Repeats(v) \subseteq DOMAIN c.peers
      BY DEF Repeats
    <3>2. Repeats([j \in DOMAIN c.peers |-> DecodedKey[c.peers[j].public_key]])
            \subseteq DOMAIN c.peers
      BY <3>1
    <3> QED BY <2>3, <3>2 DEF EditErrors
  <2>6. {<<"bad key", p.name>> : p \in {q \in Range(c.peers) : ~Decodes(q.public_key)}} = {}
    BY <2>2
  <2>7. {<<"unknown link", p.name>> :
           p \in {q \in Range(c.peers) : ~(Range(q.links) \subseteq LinkIds(c))}} \subseteq EditErrors
    BY <2>2 DEF EditErrors
  <2>8. ValidatePeers(c) \subseteq EditErrors
    BY <2>4, <2>5, <2>6, <2>7 DEF ValidatePeers
  <2>9. /\ RequirePresent("listen_control", c.listen_control) = {}
        /\ RequirePresent("listen_data", c.listen_data) = {}
        /\ RequireAbsent("server_control_addr", c.server_control_addr) = {}
        /\ RequireAbsent("server_data_addr", c.server_data_addr) = {}
        /\ RequireAbsent("peer_public_key", c.peer_public_key) = {}
        /\ When(c.peers = <<>>, <<"required", "peers">>) \subseteq {<<"required", "peers">>}
    BY <2>1 DEF SoundServer, RequirePresent, RequireAbsent, When
  <2>10. ValidateServer(c) \subseteq EditErrors
    BY <2>8, <2>9 DEF ValidateServer, EditErrors
  <2> QED BY <1>1, <1>2, <1>3, <2>10 DEF Validate, EditErrors
<1>4. CASE c.role # "server"
  <2>1. ValidateClient(c) = {}
    BY <1>4 DEF Sound, SoundClient, ValidateClient, RequirePresent, RequireAbsent, When
  <2> QED BY <1>1, <1>2, <1>4, <2>1 DEF Validate, EditErrors
<1> QED BY <1>3, <1>4

\* A list of links is sound if its ids differ and each of its links comes from
\* the list before, or is a sound TCP link.
LEMMA SoundNewLinks ==
  ASSUME NEW c \in Configs, NEW links \in Seq(LinkConfig)
  PROVE  /\ [c EXCEPT !.links = links] \in Configs
         /\ (/\ Sound(c)
             /\ \A i, j \in DOMAIN links : links[i].id = links[j].id => i = j
             /\ \A i \in DOMAIN links :
                  \/ \E k \in DOMAIN c.links : links[i] = c.links[k]
                  \/ links[i].transport = "tcp" /\ SoundLink(c.role, links[i]))
              => Sound([c EXCEPT !.links = links])
<1>1. PICK d : d = [c EXCEPT !.links = links]
  OBVIOUS
<1>2. d \in Configs /\ d.links = links /\ d.role = c.role /\ d.peers = c.peers
  BY <1>1 DEF Configs
<1>3. /\ d.listen_control = c.listen_control /\ d.listen_data = c.listen_data
      /\ d.server_control_addr = c.server_control_addr
      /\ d.server_data_addr = c.server_data_addr /\ d.peer_public_key = c.peer_public_key
      /\ d.listen_udp = c.listen_udp /\ d.server_udp_addr = c.server_udp_addr
  BY <1>1 DEF Configs
<1>4. ASSUME Sound(c),
             \A i, j \in DOMAIN links : links[i].id = links[j].id => i = j,
             \A i \in DOMAIN links :
               \/ \E k \in DOMAIN c.links : links[i] = c.links[k]
               \/ links[i].transport = "tcp" /\ SoundLink(c.role, links[i])
      PROVE  Sound(d)
  <2>1. SoundLinks(d)
    BY <1>2, <1>3, <1>4 DEF Sound, SoundLinks, UdpAddress
  <2> QED BY <1>2, <1>3, <1>4, <2>1 DEF Sound, SoundServer, SoundClient, SoundPeers
<1> QED BY <1>1, <1>2, <1>4

\* The same for a list of peers, at a server.
LEMMA SoundNewPeers ==
  ASSUME NEW c \in Configs, NEW peers \in Seq(PeerConfig)
  PROVE  /\ [c EXCEPT !.peers = peers] \in Configs
         /\ (/\ Sound(c) /\ c.role = "server"
             /\ \A i, j \in DOMAIN peers : peers[i].name = peers[j].name => i = j
             /\ \A i \in DOMAIN peers : \/ \E k \in DOMAIN c.peers : peers[i] = c.peers[k]
                                        \/ Decodes(peers[i].public_key))
              => Sound([c EXCEPT !.peers = peers])
<1>1. PICK d : d = [c EXCEPT !.peers = peers]
  OBVIOUS
<1>2. d \in Configs /\ d.peers = peers /\ d.role = c.role /\ d.links = c.links
  BY <1>1 DEF Configs
<1>3. /\ d.listen_control = c.listen_control /\ d.listen_data = c.listen_data
      /\ d.server_control_addr = c.server_control_addr
      /\ d.server_data_addr = c.server_data_addr /\ d.peer_public_key = c.peer_public_key
      /\ d.listen_udp = c.listen_udp /\ d.server_udp_addr = c.server_udp_addr
  BY <1>1 DEF Configs
<1>4. ASSUME Sound(c), c.role = "server",
             \A i, j \in DOMAIN peers : peers[i].name = peers[j].name => i = j,
             \A i \in DOMAIN peers : \/ \E k \in DOMAIN c.peers : peers[i] = c.peers[k]
                                     \/ Decodes(peers[i].public_key)
      PROVE  Sound(d)
  <2>1. SoundLinks(d)
    BY <1>2, <1>3, <1>4 DEF Sound, SoundLinks, UdpAddress
  <2>2. SoundPeers(d)
    BY <1>2, <1>4 DEF Sound, SoundServer, SoundPeers
  <2> QED BY <1>2, <1>3, <1>4, <2>1, <2>2 DEF Sound, SoundServer
<1> QED BY <1>1, <1>2, <1>4
-----------------------------------------------------------------------------
(***************************************************************************)
(* What a change makes of a list.                                          *)
(***************************************************************************)
\* The list t holds n entries that stand for kept ones of s, and then x.
Replaces(s, kept, x, t, n) ==
  /\ n \in Nat /\ Len(t) = n + 1 /\ DOMAIN t = 1..(n + 1) /\ t[n + 1] = x
  /\ \A i \in kept : \E k \in 1..n : t[k] = s[i]
  /\ \E f \in [1..n -> kept] : /\ \A k \in 1..n : t[k] = s[f[k]]
                               /\ \A k, m \in 1..n : f[k] = f[m] => k = m

\* An entry put in the place of those that are not kept.
LEMMA Replaced ==
  ASSUME NEW S, NEW s \in Seq(S), NEW kept, kept \subseteq DOMAIN s, NEW x \in S
  PROVE  /\ Append(Retain(s, kept), x) \in Seq(S)
         /\ Replaces(s, kept, x, Append(Retain(s, kept), x), Len(Retain(s, kept)))
<1>1. PICK r \in Seq(S) : r = Retain(s, kept) /\ Picks(s, kept, r)
  BY RetainKeeps
<1>2. PICK n \in Nat : n = Len(r) /\ DOMAIN r = 1..n
  OBVIOUS
<1>3. PICK f : /\ f \in [1..n -> kept]
               /\ \A k \in 1..n : r[k] = s[f[k]]
               /\ \A k, m \in 1..n : f[k] = f[m] => k = m
               /\ \A i \in kept : \E k \in 1..n : f[k] = i
  <2>1. PICK f \in [DOMAIN r -> kept] :
          /\ \A k \in DOMAIN r : r[k] = s[f[k]]
          /\ \A k, m \in DOMAIN r : f[k] = f[m] => k = m
          /\ \A i \in kept : \E k \in DOMAIN r : f[k] = i
    BY <1>1 DEF Picks
  <2>2. /\ f \in [1..n -> kept]
        /\ \A k \in 1..n : r[k] = s[f[k]]
        /\ \A k, m \in 1..n : f[k] = f[m] => k = m
        /\ \A i \in kept : \E k \in 1..n : f[k] = i
    BY <1>2, <2>1
  <2> QED BY <2>2
<1>4. PICK t : t = Append(r, x)
  OBVIOUS
<1>5. /\ t \in Seq(S) /\ Len(t) = n + 1 /\ DOMAIN t = 1..(n + 1) /\ t[n + 1] = x
      /\ \A k \in 1..n : t[k] = r[k]
  BY <1>2, <1>4
<1>6. \A k \in 1..n : t[k] = s[f[k]]
  BY <1>3, <1>5
<1>7. \A i \in kept : \E k \in 1..n : t[k] = s[i]
  BY <1>3, <1>6
<1>8. Replaces(s, kept, x, t, n)
  BY <1>3, <1>5, <1>6, <1>7 DEF Replaces
<1> QED BY <1>1, <1>2, <1>4, <1>5, <1>8

\* The list of links once the wizard has put a link under its id.
LinkList(s, gone) == Retain(s, {i \in DOMAIN s : s[i].id \notin gone})
\* The list t is s with the link put in the place of those in gone.
LinkPut(s, gone, link, t) ==
  /\ t \in Seq(LinkConfig) /\ Len(LinkList(s, gone)) \in Nat
  /\ Len(t) = Len(LinkList(s, gone)) + 1
  /\ \A i \in DOMAIN t : \/ t[i] = link
                         \/ t[i].id \notin gone /\ \E k \in DOMAIN s : t[i] = s[k]
  /\ \A k \in DOMAIN s : s[k].id \notin gone => \E i \in DOMAIN t : t[i] = s[k]
  /\ (\A i, j \in DOMAIN s : s[i].id = s[j].id => i = j)
       => \A i, j \in DOMAIN t : t[i].id = t[j].id => i = j

LEMMA LinkReplaced ==
  ASSUME NEW s \in Seq(LinkConfig), NEW gone, NEW link \in LinkConfig, link.id \in gone,
         NEW t, t = Append(LinkList(s, gone), link)
  PROVE  LinkPut(s, gone, link, t)
<1>1. PICK kept : kept = {i \in DOMAIN s : s[i].id \notin gone}
  OBVIOUS
<1>2. PICK n : n = Len(LinkList(s, gone))
  OBVIOUS
<1>3. kept \subseteq DOMAIN s /\ t = Append(Retain(s, kept), link) /\ n = Len(Retain(s, kept))
  BY <1>1, <1>2 DEF LinkList
<1>4. t \in Seq(LinkConfig) /\ Replaces(s, kept, link, t, n)
  BY <1>3, Replaced
<1>5. /\ n \in Nat /\ Len(t) = n + 1 /\ DOMAIN t = 1..(n + 1) /\ t[n + 1] = link
      /\ \A i \in kept : \E k \in 1..n : t[k] = s[i]
  BY <1>4 DEF Replaces
<1>6. PICK f \in [1..n -> kept] : /\ \A k \in 1..n : t[k] = s[f[k]]
                                 /\ \A k, m \in 1..n : f[k] = f[m] => k = m
  BY <1>4 DEF Replaces
<1>7. \A i \in DOMAIN t : i = n + 1 \/ i \in 1..n
  BY <1>5
<1>8. \A k \in 1..n : f[k] \in DOMAIN s /\ t[k] = s[f[k]] /\ t[k].id \notin gone
  BY <1>1, <1>6
<1>9. ASSUME \A i, j \in DOMAIN s : s[i].id = s[j].id => i = j,
             NEW i \in DOMAIN t, NEW j \in DOMAIN t, t[i].id = t[j].id
      PROVE  i = j
  <2>1. CASE i \in 1..n /\ j \in 1..n
    <3>1. s[f[i]].id = s[f[j]].id /\ f[i] \in DOMAIN s /\ f[j] \in DOMAIN s
      BY <1>8, <1>9, <2>1
    <3>2. f[i] = f[j]
      BY <1>9, <3>1
    <3> QED BY <1>6, <2>1, <3>2
  <2>2. i = n + 1 => t[i].id \in gone
    BY <1>5
  <2>3. j = n + 1 => t[j].id \in gone
    BY <1>5
  <2>4. i \in 1..n => t[i].id \notin gone
    BY <1>8
  <2>5. j \in 1..n => t[j].id \notin gone
    BY <1>8
  <2> QED BY <1>7, <1>9, <2>1, <2>2, <2>3, <2>4, <2>5
<1>10. \A i \in DOMAIN t : \/ t[i] = link
                           \/ t[i].id \notin gone /\ \E k \in DOMAIN s : t[i] = s[k]
  BY <1>5, <1>7, <1>8
<1>11. \A k \in DOMAIN s : s[k].id \notin gone => \E i \in DOMAIN t : t[i] = s[k]
  <2>1. \A k \in DOMAIN s : s[k].id \notin gone => k \in kept
    BY <1>1
  <2>2. 1..n \subseteq DOMAIN t
    BY <1>5
  <2> QED BY <1>5, <2>1, <2>2
<1> QED BY <1>2, <1>4, <1>5, <1>9, <1>10, <1>11 DEF LinkPut

\* The list of peers once the wizard has put a peer under its name.
PeerList(s, gone) == Retain(s, {i \in DOMAIN s : s[i].name \notin gone})
\* The list t is s with the peer put in the place of those in gone.
PeerPut(s, gone, peer, t) ==
  /\ t \in Seq(PeerConfig) /\ Len(PeerList(s, gone)) \in Nat
  /\ Len(t) = Len(PeerList(s, gone)) + 1
  /\ \A i \in DOMAIN t : \/ t[i] = peer
                         \/ t[i].name \notin gone /\ \E k \in DOMAIN s : t[i] = s[k]
  /\ \A k \in DOMAIN s : s[k].name \notin gone => \E i \in DOMAIN t : t[i] = s[k]
  /\ (\A i, j \in DOMAIN s : s[i].name = s[j].name => i = j)
       => \A i, j \in DOMAIN t : t[i].name = t[j].name => i = j

LEMMA PeerReplaced ==
  ASSUME NEW s \in Seq(PeerConfig), NEW gone, NEW peer \in PeerConfig, peer.name \in gone,
         NEW t, t = Append(PeerList(s, gone), peer)
  PROVE  PeerPut(s, gone, peer, t)
<1>1. PICK kept : kept = {i \in DOMAIN s : s[i].name \notin gone}
  OBVIOUS
<1>2. PICK n : n = Len(PeerList(s, gone))
  OBVIOUS
<1>3. kept \subseteq DOMAIN s /\ t = Append(Retain(s, kept), peer) /\ n = Len(Retain(s, kept))
  BY <1>1, <1>2 DEF PeerList
<1>4. t \in Seq(PeerConfig) /\ Replaces(s, kept, peer, t, n)
  BY <1>3, Replaced
<1>5. /\ n \in Nat /\ Len(t) = n + 1 /\ DOMAIN t = 1..(n + 1) /\ t[n + 1] = peer
      /\ \A i \in kept : \E k \in 1..n : t[k] = s[i]
  BY <1>4 DEF Replaces
<1>6. PICK f \in [1..n -> kept] : /\ \A k \in 1..n : t[k] = s[f[k]]
                                 /\ \A k, m \in 1..n : f[k] = f[m] => k = m
  BY <1>4 DEF Replaces
<1>7. \A i \in DOMAIN t : i = n + 1 \/ i \in 1..n
  BY <1>5
<1>8. \A k \in 1..n : f[k] \in DOMAIN s /\ t[k] = s[f[k]] /\ t[k].name \notin gone
  BY <1>1, <1>6
<1>9. ASSUME \A i, j \in DOMAIN s : s[i].name = s[j].name => i = j,
             NEW i \in DOMAIN t, NEW j \in DOMAIN t, t[i].name = t[j].name
      PROVE  i = j
  <2>1. CASE i \in 1..n /\ j \in 1..n
    <3>1. s[f[i]].name = s[f[j]].name /\ f[i] \in DOMAIN s /\ f[j] \in DOMAIN s
      BY <1>8, <1>9, <2>1
    <3>2. f[i] = f[j]
      BY <1>9, <3>1
    <3> QED BY <1>6, <2>1, <3>2
  <2>2. i = n + 1 => t[i].name \in gone
    BY <1>5
  <2>3. j = n + 1 => t[j].name \in gone
    BY <1>5
  <2>4. i \in 1..n => t[i].name \notin gone
    BY <1>8
  <2>5. j \in 1..n => t[j].name \notin gone
    BY <1>8
  <2> QED BY <1>7, <1>9, <2>1, <2>2, <2>3, <2>4, <2>5
<1>10. \A i \in DOMAIN t : \/ t[i] = peer
                           \/ t[i].name \notin gone /\ \E k \in DOMAIN s : t[i] = s[k]
  BY <1>5, <1>7, <1>8
<1>11. \A k \in DOMAIN s : s[k].name \notin gone => \E i \in DOMAIN t : t[i] = s[k]
  <2>1. \A k \in DOMAIN s : s[k].name \notin gone => k \in kept
    BY <1>1
  <2>2. 1..n \subseteq DOMAIN t
    BY <1>5
  <2> QED BY <1>5, <2>1, <2>2
<1> QED BY <1>2, <1>4, <1>5, <1>9, <1>10, <1>11 DEF PeerPut

\* The entries of t stand for different ones of s.
Embeds(s, t) == \E f \in [DOMAIN t -> DOMAIN s] :
                  /\ \A i \in DOMAIN t : t[i] = s[f[i]]
                  /\ \A i, j \in DOMAIN t : f[i] = f[j] => i = j

\* One entry removed: each entry that is left stands for another one of the
\* entries before, and none is lost but the one removed.
LEMMA OneRemoved ==
  ASSUME NEW S, NEW s \in Seq(S), NEW n \in 0..(Len(s) - 1), NEW t, t = WithoutIndex(s, n)
  PROVE  /\ t \in Seq(S) /\ Len(t) = Len(s) - 1
         /\ \A i \in DOMAIN t : \E k \in DOMAIN s : t[i] = s[k]
         /\ \A k \in DOMAIN s : k # n + 1 => \E i \in DOMAIN t : t[i] = s[k]
         /\ Embeds(s, t)
<1>1. PICK l \in Nat : l = Len(s) /\ DOMAIN s = 1..l /\ n \in Nat /\ n < l
  OBVIOUS
<1>2. /\ t \in Seq(S) /\ Len(t) = l - 1 /\ DOMAIN t = 1..(l - 1)
      /\ \A i \in 1..(l - 1) : t[i] = s[IF i <= n THEN i ELSE i + 1]
  <2>1. /\ t \in Seq(S) /\ Len(t) = l - 1
        /\ \A i \in 1..(l - 1) : t[i] = s[IF i <= n THEN i ELSE i + 1]
    BY <1>1, WithoutIndexLeaves
  <2> QED BY <2>1
<1>3. PICK f : f = [i \in 1..(l - 1) |-> IF i <= n THEN i ELSE i + 1]
  OBVIOUS
<1>4. /\ f \in [DOMAIN t -> DOMAIN s]
      /\ \A i, j \in DOMAIN t : f[i] = f[j] => i = j
  BY <1>1, <1>2, <1>3
<1>5. \A i \in DOMAIN t : t[i] = s[f[i]]
  BY <1>2, <1>3
<1>6. ASSUME NEW k \in DOMAIN s, k # n + 1 PROVE \E i \in DOMAIN t : f[i] = k
  <2>1. CASE k <= n
    <3>1. k \in DOMAIN t /\ f[k] = k
      BY <1>1, <1>2, <1>3, <2>1
    <3> QED BY <3>1
  <2>2. CASE ~(k <= n)
    <3>1. k - 1 \in DOMAIN t /\ f[k - 1] = k
      BY <1>1, <1>2, <1>3, <1>6, <2>2
    <3> QED BY <3>1
  <2> QED BY <2>1, <2>2
<1>7. \A k \in DOMAIN s : k # n + 1 => \E i \in DOMAIN t : t[i] = s[k]
  BY <1>5, <1>6
<1>8. \A i \in DOMAIN t : \E k \in DOMAIN s : t[i] = s[k]
  BY <1>4, <1>5
<1>9. Embeds(s, t)
  BY <1>4, <1>5 DEF Embeds
<1> QED BY <1>1, <1>2, <1>7, <1>8, <1>9
-----------------------------------------------------------------------------
(***************************************************************************)
(* The inductive invariant.                                                *)
(***************************************************************************)
LinkWizards == [id : Ids \cup {None}, mode : Modes \cup {None}, original : Ids \cup {None}]
PeerWizards == [name : Names \cup {None}, public_key : KeyTexts \cup {None}, links : Seq(Ids),
                cursor : Nat, original : Names \cup {None}]

\* The wizard for links holds nothing while it is not open; open, it edits the
\* link that was selected, and has what its steps so far have asked for.
LinkWizardOK ==
  /\ linkWizard \in LinkWizards
  /\ mode \notin LinkModes => linkWizard = NoLink
  /\ mode \in LinkModes =>
       /\ tab = "Links" /\ edits < MaxEdits
       /\ chosen = IF linkWizard.original = None THEN {} ELSE {linkWizard.original}
  /\ mode \in {"AddLinkDirection", "AddLinkAddress"} => linkWizard.id \in Ids
  /\ mode = "AddLinkAddress" => linkWizard.mode \in Modes

\* The wizard for peers is open only at a server.  Closed, it holds no name,
\* but possibly the checklist it was left with.
PeerWizardOK ==
  /\ peerWizard \in PeerWizards
  /\ mode \notin PeerModes => peerWizard.name = None
  /\ mode # "AddPeerLinks" => peerWizard.cursor = 0
  /\ mode \in PeerModes =>
       /\ tab = "Peers" /\ edits < MaxEdits /\ config.role = "server"
       /\ chosen = IF peerWizard.original = None THEN {} ELSE {peerWizard.original}
       /\ Range(peerWizard.links) \subseteq offered
  /\ mode \in {"AddPeerPublicKey", "AddPeerLinks"} => peerWizard.name \in Names
  /\ mode = "AddPeerLinks" => peerWizard.public_key \in KeyTexts /\ Decodes(peerWizard.public_key)

\* What a prompt is about to remove is what was selected when it opened.
PromptOK ==
  /\ mode = "ConfirmRemoveLink" =>
       tab = "Links" /\ edits < MaxEdits /\ HasLink /\ chosen = {SelectedLink.id}
  /\ mode = "ConfirmRemovePeer" =>
       tab = "Peers" /\ edits < MaxEdits /\ HasPeer /\ chosen = {SelectedPeer.name}

\* What save_config wrote is valid, what was loaded valid is sound.
FileOK ==
  /\ byTui /\ file # Torn => Valid(file)
  /\ sound => mode # "Closed" /\ Sound(config)
  /\ CleanMeansSaved
  /\ DaemonNeverPanics

TuiInv == TuiTypeOK /\ LinkWizardOK /\ PeerWizardOK /\ PromptOK /\ FileOK

AllModes == {"Closed", "Normal"} \cup LinkModes \cup PeerModes \cup Prompts
CursorOn(i, s) == i \in {0} \cup 0..(Len(s) - 1)

\* A new App, or none, has an empty wizard and no prompt.
LEMMA NewAppInv ==
  ASSUME TuiInv, UNCHANGED <<file, byTui, daemon, unit>>, touched' = FALSE, NEW c, NewApp(c),
         c # None => c \in Configs /\ c = file
  PROVE  TuiInv'
<1>1. NoLink \in LinkWizards /\ NoPeer \in PeerWizards /\ NoPeer.cursor = 0 /\ NoPeer.name = None
  BY DEF NoLink, NoPeer, LinkWizards, PeerWizards
<1>2. TuiTypeOK'
  <2>1. /\ file' \in Configs \cup {Torn}
        /\ daemon' \in DaemonStates
        /\ edits' \in 0..MaxEdits
    BY DEF TuiInv, TuiTypeOK, NewApp
  <2>2. {byTui', touched', unit', dirty', sound'} \subseteq BOOLEAN
    BY DEF TuiInv, TuiTypeOK, NewApp
  <2>3. /\ mode' \in AllModes /\ tab' \in Tabs /\ pending_service_action' \in ServiceMenu \cup {None}
        /\ IF mode' = "Closed" THEN config' = None
           ELSE config' \in Configs /\ links_selected' = 0 /\ peers_selected' = 0
                  /\ peerWizard'.cursor = 0
    BY <1>1 DEF NewApp, AllModes, Tabs
  <2> QED BY <2>1, <2>2, <2>3 DEF TuiTypeOK, AllModes
<1>3. mode' \in {"Closed", "Normal"} /\ linkWizard' = NoLink /\ peerWizard' = NoPeer
  BY DEF NewApp
<1>4. LinkWizardOK' /\ PeerWizardOK' /\ PromptOK'
  BY <1>1, <1>3 DEF LinkWizardOK, PeerWizardOK, PromptOK, LinkModes, PeerModes
<1>5. FileOK'
  <2>1. sound' => mode' # "Closed" /\ Sound(config')
    BY ValidIsSound DEF NewApp
  <2>2. (byTui' /\ file' # Torn => Valid(file')) /\ DaemonNeverPanics'
    BY DEF TuiInv, FileOK, DaemonNeverPanics
  <2>3. CleanMeansSaved'
    BY DEF NewApp, CleanMeansSaved
  <2> QED BY <2>1, <2>2, <2>3 DEF FileOK
<1> QED BY <1>2, <1>4, <1>5 DEF TuiInv

LEMMA TuiInitInv == TuiInit => TuiInv
<1> SUFFICES ASSUME TuiInit PROVE TuiInv
  OBVIOUS
<1>1. NoLink \in LinkWizards /\ NoPeer \in PeerWizards /\ NoPeer.cursor = 0 /\ NoPeer.name = None
  BY DEF NoLink, NoPeer, LinkWizards, PeerWizards
<1>2. TuiTypeOK
  <2>1. /\ file \in Configs \cup {Torn} /\ edits \in 0..MaxEdits
        /\ daemon \in DaemonStates
    BY FilesAssumption, EditsAssumption DEF TuiInit, DaemonStates
  <2>2. {byTui, touched, unit, dirty, sound} \subseteq BOOLEAN
    BY DEF TuiInit
  <2>3. mode = "Closed" /\ config = None /\ tab \in Tabs /\ pending_service_action = None
    BY DEF TuiInit, Tabs
  <2> QED BY <2>1, <2>2, <2>3 DEF TuiTypeOK
<1>3. LinkWizardOK /\ PeerWizardOK /\ PromptOK
  BY <1>1 DEF TuiInit, LinkWizardOK, PeerWizardOK, PromptOK, LinkModes, PeerModes
<1>4. FileOK
  BY DEF TuiInit, FileOK, CleanMeansSaved, DaemonNeverPanics
<1> QED BY <1>2, <1>3, <1>4 DEF TuiInv

\* What a step keeps that leaves the file, the service and the configuration
\* as they are, in an App that stays open.
LEMMA Framed ==
  ASSUME TuiInv, UNCHANGED <<systemVars, configVars, sound>>,
         mode # "Closed", mode' \in AllModes \ {"Closed"}, tab' \in Tabs,
         pending_service_action' \in ServiceMenu \cup {None},
         CursorOn(links_selected', config.links), CursorOn(peers_selected', config.peers),
         CursorOn(peerWizard'.cursor, config.links)
  PROVE  TuiTypeOK' /\ FileOK'
<1>1. /\ UNCHANGED <<file, byTui, touched, daemon, unit>> /\ UNCHANGED <<config, dirty, edits>>
      /\ UNCHANGED sound
  BY DEF systemVars, configVars
<1>2. TuiTypeOK'
  <2>1. /\ file' \in Configs \cup {Torn}
        /\ daemon' \in DaemonStates
        /\ edits' \in 0..MaxEdits /\ config' \in Configs
    BY <1>1 DEF TuiInv, TuiTypeOK
  <2>2. {byTui', touched', unit', dirty', sound'} \subseteq BOOLEAN
    BY <1>1 DEF TuiInv, TuiTypeOK
  <2> QED BY <1>1, <2>1, <2>2 DEF TuiTypeOK, CursorOn, AllModes
<1>3. FileOK'
  BY <1>1 DEF TuiInv, FileOK, CleanMeansSaved, DaemonNeverPanics
<1> QED BY <1>2, <1>3

\* Cursors wrap around within their list.
LEMMA CursorMoves ==
  ASSUME NEW S, NEW s \in Seq(S), s # <<>>, NEW i \in Nat, NEW delta \in {-1, 1}
  PROVE  CursorOn(MoveCursor(i, delta, Len(s)), s)
<1>1. PICK n \in Nat : n = Len(s) /\ n > 0
  BY EmptySeq, LenProperties
<1>2. i + delta + n \in Int
  BY <1>1
<1>3. (i + delta + n) % n \in 0..(n - 1)
  BY <1>1, <1>2
<1> QED BY <1>1, <1>3 DEF CursorOn, MoveCursor

\* What is open and how its cursors lie.
LEMMA OpenApp ==
  ASSUME TuiInv, mode # "Closed"
  PROVE  /\ config \in Configs /\ config.links \in Seq(LinkConfig)
         /\ config.peers \in Seq(PeerConfig)
         /\ CursorOn(links_selected, config.links) /\ links_selected \in Nat
         /\ CursorOn(peers_selected, config.peers) /\ peers_selected \in Nat
         /\ CursorOn(peerWizard.cursor, config.links) /\ CursorOn(0, config.links)
         /\ tab \in Tabs /\ pending_service_action \in ServiceMenu \cup {None}
<1>1. config \in Configs
  BY DEF TuiInv, TuiTypeOK
<1>2. /\ CursorOn(links_selected, config.links) /\ CursorOn(peers_selected, config.peers)
      /\ CursorOn(peerWizard.cursor, config.links) /\ CursorOn(0, config.links)
      /\ tab \in Tabs /\ pending_service_action \in ServiceMenu \cup {None}
  BY DEF TuiInv, TuiTypeOK, CursorOn
<1>3. links_selected \in Nat /\ peers_selected \in Nat
  BY <1>1, <1>2, ConfigLists DEF CursorOn
<1> QED BY <1>1, <1>2, <1>3, ConfigLists

\* A selection that lies in its list.
LEMMA Selection ==
  ASSUME TuiInv, mode # "Closed"
  PROVE  /\ HasLink => /\ links_selected \in 0..(Len(config.links) - 1)
                       /\ links_selected + 1 \in DOMAIN config.links
                       /\ SelectedLink \in LinkConfig /\ SelectedLink.id \in Ids
         /\ HasPeer => /\ peers_selected \in 0..(Len(config.peers) - 1)
                       /\ peers_selected + 1 \in DOMAIN config.peers
                       /\ SelectedPeer \in PeerConfig /\ SelectedPeer.name \in Names
                       /\ SelectedPeer.links \in Seq(Ids)
<1>1. ASSUME NEW S, NEW s \in Seq(S), NEW i \in Nat, i < Len(s)
      PROVE  i \in 0..(Len(s) - 1) /\ i + 1 \in DOMAIN s /\ s[i + 1] \in S
  <2>1. PICK n \in Nat : n = Len(s) /\ DOMAIN s = 1..n
    OBVIOUS
  <2>2. i \in 0..(n - 1) /\ i + 1 \in 1..n
    BY <1>1, <2>1
  <2> QED BY <2>1, <2>2
<1>2. HasLink => /\ links_selected \in 0..(Len(config.links) - 1)
                 /\ links_selected + 1 \in DOMAIN config.links /\ SelectedLink \in LinkConfig
  BY <1>1, OpenApp DEF HasLink, SelectedLink
<1>3. HasPeer => /\ peers_selected \in 0..(Len(config.peers) - 1)
                 /\ peers_selected + 1 \in DOMAIN config.peers /\ SelectedPeer \in PeerConfig
  BY <1>1, OpenApp DEF HasPeer, SelectedPeer
<1> QED BY <1>2, <1>3 DEF LinkConfig, PeerConfig

\* What a step that changes nothing keeps.
LEMMA TuiStutter ==
  ASSUME TuiInv, UNCHANGED tuiVars
  PROVE  TuiInv'
<1>1. /\ UNCHANGED <<file, byTui, touched, daemon, unit, mode, tab, config, dirty, edits>>
      /\ UNCHANGED <<links_selected, peers_selected, linkWizard, peerWizard>>
      /\ UNCHANGED <<pending_service_action, sound, chosen, offered>>
  BY DEF tuiVars, systemVars, configVars, cursorVars, wizardVars, ghostVars
<1>2. TuiTypeOK' /\ FileOK'
  BY <1>1 DEF TuiInv, TuiTypeOK, FileOK, CleanMeansSaved, DaemonNeverPanics
<1>3. LinkWizardOK' /\ PeerWizardOK' /\ PromptOK'
  BY <1>1 DEF TuiInv, LinkWizardOK, PeerWizardOK, PromptOK, HasLink, HasPeer, SelectedLink,
              SelectedPeer
<1> QED BY <1>2, <1>3 DEF TuiInv

\* The steps of the Links tab before a change is committed, and the prompts.
LEMMA LinkStepInv ==
  ASSUME TuiInv, mode # "Closed",
         \/ BeginAddLink \/ BeginEditLink
         \/ \E m \in Modes \cup {None} : ConfirmTemplateChoice(m)
         \/ CancelLinkWizard \/ \E id \in Ids : ConfirmLinkId(id)
         \/ \E m \in Modes : ChooseLinkMode(m)
         \/ AskRemoveLink \/ AskRemovePeer \/ DeclineRemoval
  PROVE  TuiInv'
<1> USE DEF LinkModes, PeerModes, Prompts
<1>1. WizardStep /\ UNCHANGED peerWizard /\ mode' \in AllModes \ ({"Closed"} \cup PeerModes)
  BY DEF BeginAddLink, BeginEditLink, ConfirmTemplateChoice, CancelLinkWizard, ConfirmLinkId,
         ChooseLinkMode, AskRemoveLink, AskRemovePeer, DeclineRemoval, AllModes, wizardVars
<1>2. /\ UNCHANGED <<config, edits, tab, links_selected, peers_selected>>
      /\ UNCHANGED <<systemVars, configVars, sound>> /\ UNCHANGED pending_service_action
  BY <1>1 DEF WizardStep, configVars, cursorVars
<1>3. TuiTypeOK' /\ FileOK'
  BY <1>1, <1>2, OpenApp, Framed
<1>4. mode \notin PeerModes
  BY DEF BeginAddLink, BeginEditLink, ConfirmTemplateChoice, CancelLinkWizard, ConfirmLinkId,
         ChooseLinkMode, AskRemoveLink, AskRemovePeer, DeclineRemoval, On
<1>5. PeerWizardOK'
  BY <1>1, <1>2, <1>4 DEF TuiInv, PeerWizardOK
<1>6. HasLink => SelectedLink.id \in Ids
  BY Selection
<1>7. PICK w \in LinkWizards : w = linkWizard
  BY DEF TuiInv, LinkWizardOK
<1>8. NoLink \in LinkWizards /\ NoLink.original = None
  BY DEF NoLink, LinkWizards
<1>9. (HasLink' <=> HasLink) /\ SelectedLink' = SelectedLink /\ (HasPeer' <=> HasPeer)
        /\ SelectedPeer' = SelectedPeer
  BY <1>2 DEF HasLink, HasPeer, SelectedLink, SelectedPeer
<1>10. LinkWizardOK' /\ PromptOK'
  <2>1. CASE BeginAddLink
    BY <1>2, <1>8, <2>1 DEF TuiInv, BeginAddLink, On, LinkWizardOK, PromptOK
  <2>2. CASE BeginEditLink
    <3>1. PICK v \in LinkWizards : v = [NoLink EXCEPT !.original = SelectedLink.id]
      BY <1>6, <2>2 DEF BeginEditLink, NoLink, LinkWizards
    <3>2. v.original = SelectedLink.id /\ v.original # None
      BY <1>6, <2>2, <3>1, NoneAssumption DEF BeginEditLink, NoLink
    <3> QED BY <1>2, <2>2, <3>1, <3>2 DEF TuiInv, BeginEditLink, On, LinkWizardOK, PromptOK
  <2>3. ASSUME NEW m \in Modes \cup {None}, ConfirmTemplateChoice(m)
        PROVE  LinkWizardOK' /\ PromptOK'
    <3>1. PICK v : v = [w EXCEPT !.mode = m]
      OBVIOUS
    <3>2. v \in LinkWizards /\ v.original = w.original
      BY <3>1 DEF LinkWizards
    <3> QED BY <1>2, <1>7, <2>3, <3>1, <3>2 DEF TuiInv, ConfirmTemplateChoice, LinkWizardOK, PromptOK
  <2>4. CASE CancelLinkWizard
    BY <1>8, <2>4 DEF CancelLinkWizard, LinkWizardOK, PromptOK
  <2>5. ASSUME NEW id \in Ids, ConfirmLinkId(id)
        PROVE  LinkWizardOK' /\ PromptOK'
    <3>1. PICK v : v = [w EXCEPT !.id = id]
      OBVIOUS
    <3>2. v \in LinkWizards /\ v.original = w.original /\ v.mode = w.mode /\ v.id = id
      BY <3>1 DEF LinkWizards
    <3> QED BY <1>2, <1>7, <2>5, <3>1, <3>2 DEF TuiInv, ConfirmLinkId, LinkWizardOK, PromptOK, LinkWizards
  <2>6. ASSUME NEW m \in Modes, ChooseLinkMode(m)
        PROVE  LinkWizardOK' /\ PromptOK'
    <3>1. PICK v : v = [w EXCEPT !.mode = m]
      OBVIOUS
    <3>2. v \in LinkWizards /\ v.original = w.original /\ v.id = w.id /\ v.mode = m
      BY <3>1 DEF LinkWizards
    <3> QED BY <1>2, <1>7, <2>6, <3>1, <3>2 DEF TuiInv, ChooseLinkMode, LinkWizardOK, PromptOK
  <2>7. CASE AskRemoveLink
    BY <1>2, <1>8, <1>9, <2>7 DEF TuiInv, AskRemoveLink, On, LinkWizardOK, PromptOK, wizardVars
  <2>8. CASE DeclineRemoval
    BY <1>2, <1>8, <2>8 DEF TuiInv, DeclineRemoval, LinkWizardOK, PromptOK, wizardVars
  <2>9. CASE AskRemovePeer
    BY <1>2, <1>8, <1>9, <2>9 DEF TuiInv, AskRemovePeer, On, LinkWizardOK, PromptOK, wizardVars
  <2> QED BY <2>1, <2>2, <2>3, <2>4, <2>5, <2>6, <2>7, <2>8, <2>9
<1> QED BY <1>3, <1>5, <1>10 DEF TuiInv

\* A checklist after a link was added, and after one was removed.
LEMMA RangeAppended ==
  ASSUME NEW S, NEW s \in Seq(S), NEW x \in S
  PROVE  Append(s, x) \in Seq(S) /\ Range(Append(s, x)) \subseteq Range(s) \cup {x}
<1>1. PICK n \in Nat : n = Len(s) /\ DOMAIN s = 1..n
  OBVIOUS
<1>2. PICK t : t = Append(s, x)
  OBVIOUS
<1>3. /\ t \in Seq(S) /\ DOMAIN t = 1..(n + 1) /\ t[n + 1] = x
      /\ \A i \in 1..n : t[i] = s[i]
  BY <1>1, <1>2
<1>4. \A i \in DOMAIN t : t[i] = x \/ \E j \in DOMAIN s : t[i] = s[j]
  <2>1. \A i \in 1..(n + 1) : i = n + 1 \/ i \in 1..n
    OBVIOUS
  <2> QED BY <1>1, <1>3, <2>1
<1> QED BY <1>2, <1>3, <1>4 DEF Range

LEMMA RangeWithout ==
  ASSUME NEW S, NEW s \in Seq(S), NEW k \in DOMAIN s
  PROVE  WithoutIndex(s, k - 1) \in Seq(S) /\ Range(WithoutIndex(s, k - 1)) \subseteq Range(s)
<1>1. PICK n : n = k - 1
  OBVIOUS
<1>2. n \in 0..(Len(s) - 1)
  BY <1>1
<1>3. PICK t : t = WithoutIndex(s, n)
  OBVIOUS
<1>4. t \in Seq(S) /\ \A i \in DOMAIN t : \E j \in DOMAIN s : t[i] = s[j]
  BY ONLY s \in Seq(S), <1>2, <1>3, OneRemoved
<1> QED BY <1>1, <1>3, <1>4 DEF Range

\* The checklist once the link under the cursor has been toggled.
ToggledList(links, id) ==
  LET at == {i \in DOMAIN links : links[i] = id}
  IN  IF at = {} THEN Append(links, id)
      ELSE WithoutIndex(links, (CHOOSE i \in at : \A j \in at : i <= j) - 1)
LEMMA Toggled ==
  ASSUME NEW links \in Seq(Ids), NEW id \in Ids
  PROVE  /\ ToggledList(links, id) \in Seq(Ids)
         /\ Range(ToggledList(links, id)) \subseteq Range(links) \cup {id}
<1>1. PICK at : at = {i \in DOMAIN links : links[i] = id}
  OBVIOUS
<1>2. CASE at = {}
  <2>1. ToggledList(links, id) = Append(links, id)
    BY <1>1, <1>2 DEF ToggledList
  <2> QED BY <2>1, RangeAppended
<1>3. CASE at # {}
  <2>1. at \subseteq Nat /\ at \subseteq DOMAIN links
    BY <1>1
  <2>2. \E i \in at : \A j \in at : i <= j
    BY <1>3, <2>1, LeastNatural
  <2>3. PICK k : k = CHOOSE i \in at : \A j \in at : i <= j
    OBVIOUS
  <2>4. k \in at
    BY <2>2, <2>3
  <2>5. ToggledList(links, id) = WithoutIndex(links, k - 1)
    BY <1>1, <1>3, <2>3 DEF ToggledList
  <2> QED BY <2>1, <2>4, <2>5, RangeWithout
<1> QED BY <1>2, <1>3

\* The steps of the Peers tab before a change is committed.
LEMMA PeerStepInv ==
  ASSUME TuiInv, mode # "Closed",
         \/ BeginAddPeer \/ BeginEditPeer \/ CancelPeerWizard
         \/ \E name \in Names : ConfirmPeerName(name)
         \/ RefuseEmptyKey
         \/ \E key \in KeyTexts : ConfirmPeerPublicKey(key)
         \/ \E d \in {-1, 1} : MovePeerLinksCursor(d)
         \/ TogglePeerLink
  PROVE  TuiInv'
<1> USE DEF LinkModes, PeerModes, Prompts
<1>1. /\ WizardStep /\ UNCHANGED linkWizard /\ mode' \in {"Normal"} \cup PeerModes
      /\ mode \in {"Normal"} \cup PeerModes
  BY DEF BeginAddPeer, BeginEditPeer, CancelPeerWizard, ConfirmPeerName, RefuseEmptyKey,
         ConfirmPeerPublicKey, MovePeerLinksCursor, TogglePeerLink, On
<1>2. /\ UNCHANGED <<config, edits, tab, links_selected, peers_selected>>
      /\ UNCHANGED <<systemVars, configVars, sound>> /\ UNCHANGED pending_service_action
  BY <1>1 DEF WizardStep, configVars, cursorVars
<1>3. LinkWizardOK' /\ PromptOK'
  BY <1>1, <1>2 DEF TuiInv, LinkWizardOK, PromptOK
<1>4. PICK w \in PeerWizards : w = peerWizard
  BY DEF TuiInv, PeerWizardOK
<1>5. /\ NoPeer \in PeerWizards /\ NoPeer.original = None /\ NoPeer.name = None
      /\ NoPeer.cursor = 0 /\ NoPeer.links = <<>>
  BY DEF NoPeer, PeerWizards
<1>6. Range(<<>>) = {}
  BY DEF Range
<1>7. CursorOn(w.cursor, config.links) /\ CursorOn(0, config.links)
  BY <1>4, OpenApp
<1>8. PeerWizardOK' /\ CursorOn(peerWizard'.cursor, config.links)
  <2>1. CASE BeginAddPeer
    BY <1>2, <1>5, <1>6, <1>7, <2>1 DEF TuiInv, BeginAddPeer, On, PeerWizardOK
  <2>2. CASE BeginEditPeer
    <3>1. PICK v : v = [NoPeer EXCEPT !.original = SelectedPeer.name, !.links = SelectedPeer.links]
      OBVIOUS
    <3>2. SelectedPeer.name \in Names /\ SelectedPeer.links \in Seq(Ids)
      BY <2>2, Selection DEF BeginEditPeer
    <3>3. /\ v \in PeerWizards /\ v.original = SelectedPeer.name /\ v.cursor = 0
          /\ v.links = SelectedPeer.links /\ v.original # None
      BY <3>1, <3>2, NoneAssumption DEF NoPeer, PeerWizards
    <3> QED BY <1>2, <1>7, <2>2, <3>1, <3>3 DEF TuiInv, BeginEditPeer, On, PeerWizardOK
  <2>3. CASE CancelPeerWizard
    BY <1>5, <1>7, <2>3 DEF CancelPeerWizard, PeerWizardOK
  <2>4. ASSUME NEW name \in Names, ConfirmPeerName(name)
        PROVE  PeerWizardOK' /\ CursorOn(peerWizard'.cursor, config.links)
    <3>1. PICK v : v = [w EXCEPT !.name = name]
      OBVIOUS
    <3>2. /\ v \in PeerWizards /\ v.original = w.original /\ v.name = name
          /\ v.cursor = w.cursor /\ v.links = w.links
      BY <3>1 DEF PeerWizards
    <3> QED BY <1>2, <1>4, <1>7, <2>4, <3>1, <3>2 DEF TuiInv, ConfirmPeerName, PeerWizardOK
  <2>5. CASE RefuseEmptyKey
    <3>1. PICK v : v = [w EXCEPT !.original = None, !.name = None]
      OBVIOUS
    <3>2. v \in PeerWizards /\ v.name = None /\ v.cursor = w.cursor
      BY <3>1 DEF PeerWizards
    <3> QED BY <1>2, <1>4, <1>7, <2>5, <3>1, <3>2 DEF TuiInv, RefuseEmptyKey, PeerWizardOK
  <2>6. ASSUME NEW key \in KeyTexts, ConfirmPeerPublicKey(key)
        PROVE  PeerWizardOK' /\ CursorOn(peerWizard'.cursor, config.links)
    <3>1. PICK v : v = [w EXCEPT !.public_key = key, !.cursor = 0]
      OBVIOUS
    <3>2. /\ v \in PeerWizards /\ v.original = w.original /\ v.name = w.name
          /\ v.cursor = 0 /\ v.links = w.links /\ v.public_key = key
      BY <3>1 DEF PeerWizards
    <3> QED BY <1>2, <1>4, <1>7, <2>6, <3>1, <3>2 DEF TuiInv, ConfirmPeerPublicKey, PeerWizardOK
  <2>7. ASSUME NEW d \in {-1, 1}, MovePeerLinksCursor(d)
        PROVE  PeerWizardOK' /\ CursorOn(peerWizard'.cursor, config.links)
    <3>1. PICK c : c = MoveCursor(w.cursor, d, Len(config.links))
      OBVIOUS
    <3>2. CursorOn(c, config.links)
      <4>1. config.links \in Seq(LinkConfig) /\ config.links # <<>> /\ w.cursor \in Nat
        BY <2>7, OpenApp DEF MovePeerLinksCursor, PeerWizards
      <4> QED BY <3>1, <4>1, CursorMoves
    <3>3. c \in Nat
      BY <3>2, OpenApp DEF CursorOn
    <3>4. PICK v : v = [w EXCEPT !.cursor = c]
      OBVIOUS
    <3>5. /\ v \in PeerWizards /\ v.original = w.original /\ v.name = w.name
          /\ v.cursor = c /\ v.links = w.links /\ v.public_key = w.public_key
      BY <3>3, <3>4 DEF PeerWizards
    <3>6. peerWizard' = v
      BY <1>4, <2>7, <3>1, <3>4 DEF MovePeerLinksCursor
    <3> QED BY <1>2, <1>4, <2>7, <3>2, <3>5, <3>6 DEF TuiInv, MovePeerLinksCursor, PeerWizardOK
  <2>8. CASE TogglePeerLink
    <3>1. PICK id : id = config.links[w.cursor + 1].id
      OBVIOUS
    <3>2. id \in Ids
      <4>1. PICK s \in Seq(LinkConfig) : s = config.links
        BY OpenApp
      <4>2. PICK n \in Nat : n = Len(s) /\ DOMAIN s = 1..n
        OBVIOUS
      <4>3. PICK c \in Nat : c = w.cursor
        BY DEF PeerWizards
      <4>4. c < n
        BY <1>4, <2>8, <4>1, <4>2, <4>3 DEF TogglePeerLink
      <4>5. c + 1 \in DOMAIN s
        BY <4>2, <4>4
      <4>6. s[c + 1] \in LinkConfig
        BY <4>5
      <4> QED BY <3>1, <4>1, <4>3, <4>6 DEF LinkConfig
    <3>3. w.links \in Seq(Ids)
      BY DEF PeerWizards
    <3>4. PICK t : t = ToggledList(w.links, id)
      OBVIOUS
    <3>5. t \in Seq(Ids) /\ Range(t) \subseteq Range(w.links) \cup {id}
      BY <3>2, <3>3, <3>4, Toggled
    <3>6. PICK v : v = [w EXCEPT !.links = t]
      OBVIOUS
    <3>7. /\ v \in PeerWizards /\ v.original = w.original /\ v.name = w.name
          /\ v.cursor = w.cursor /\ v.links = t /\ v.public_key = w.public_key
      BY <3>5, <3>6 DEF PeerWizards
    <3>8. peerWizard' = v /\ offered' = offered \cup {id}
      BY <1>4, <2>8, <3>1, <3>4, <3>6 DEF TogglePeerLink, ToggledList
    <3>9. /\ mode = "AddPeerLinks" /\ UNCHANGED <<mode, chosen>>
      BY <2>8 DEF TogglePeerLink
    <3> QED BY <1>2, <1>4, <1>7, <3>5, <3>7, <3>8, <3>9 DEF TuiInv, PeerWizardOK
  <2> QED BY <2>1, <2>2, <2>3, <2>4, <2>5, <2>6, <2>7, <2>8
<1>9. TuiTypeOK' /\ FileOK'
  <2>1. mode' \in AllModes \ {"Closed"}
    BY <1>1 DEF AllModes
  <2> QED BY <1>2, <1>8, <2>1, OpenApp, Framed
<1> QED BY <1>3, <1>8, <1>9 DEF TuiInv

\* Moving a selection, switching tabs and the prompt of the Service tab.
LEMMA PlainStepInv ==
  ASSUME TuiInv, mode # "Closed",
         \/ \E d \in {-1, 1} : MoveLinkSelection(d) \/ MovePeerSelection(d)
         \/ \E t \in Tabs : SwitchTab(t)
         \/ \E a \in ServiceMenu : ActivateServiceAction(a)
         \/ CancelServiceAction
  PROVE  TuiInv'
<1> USE DEF LinkModes, PeerModes, Prompts
<1>1. /\ mode \in {"Normal", "ConfirmServiceAction"} /\ mode' \in {"Normal", "ConfirmServiceAction"}
      /\ UNCHANGED <<systemVars, configVars, sound>> /\ UNCHANGED <<linkWizard, peerWizard>>
      /\ tab' \in Tabs /\ pending_service_action' \in ServiceMenu \cup {None}
  BY OpenApp DEF MoveLinkSelection, MovePeerSelection, SwitchTab, ActivateServiceAction,
                 CancelServiceAction, On, wizardVars, ghostVars
<1>2. UNCHANGED config
  BY <1>1 DEF configVars
<1>3. CursorOn(links_selected', config.links) /\ CursorOn(peers_selected', config.peers)
  <2>1. ASSUME NEW d \in {-1, 1}, MoveLinkSelection(d)
        PROVE  CursorOn(links_selected', config.links) /\ UNCHANGED peers_selected
    BY <2>1, OpenApp, CursorMoves DEF MoveLinkSelection
  <2>2. ASSUME NEW d \in {-1, 1}, MovePeerSelection(d)
        PROVE  CursorOn(peers_selected', config.peers) /\ UNCHANGED links_selected
    BY <2>2, OpenApp, CursorMoves DEF MovePeerSelection
  <2> QED BY <2>1, <2>2, OpenApp DEF SwitchTab, ActivateServiceAction, CancelServiceAction, cursorVars
<1>4. TuiTypeOK' /\ FileOK'
  <2>1. mode' \in AllModes \ {"Closed"}
    BY <1>1 DEF AllModes
  <2> QED BY <1>1, <1>3, <2>1, OpenApp, Framed
<1>5. LinkWizardOK' /\ PeerWizardOK' /\ PromptOK'
  BY <1>1, <1>2 DEF TuiInv, LinkWizardOK, PeerWizardOK, PromptOK
<1> QED BY <1>4, <1>5 DEF TuiInv

\* What a step keeps that leaves the App as it is.
LEMMA AppKept ==
  ASSUME TuiInv, UNCHANGED <<mode, tab, config, edits, sound, chosen, offered>>,
         UNCHANGED <<cursorVars, wizardVars, pending_service_action>>,
         file' \in Configs \cup {Torn},
         daemon' \in DaemonStates,
         {byTui', touched', unit', dirty'} \subseteq BOOLEAN
  PROVE  TuiTypeOK' /\ LinkWizardOK' /\ PeerWizardOK' /\ PromptOK'
<1>1. UNCHANGED <<links_selected, peers_selected, linkWizard, peerWizard, pending_service_action>>
  BY DEF cursorVars, wizardVars
<1>2. {byTui', touched', unit', dirty', sound'} \subseteq BOOLEAN
  BY DEF TuiInv, TuiTypeOK
<1>3. TuiTypeOK'
  BY <1>1, <1>2 DEF TuiInv, TuiTypeOK
<1>4. LinkWizardOK' /\ PeerWizardOK' /\ PromptOK'
  BY <1>1 DEF TuiInv, LinkWizardOK, PeerWizardOK, PromptOK, HasLink, HasPeer, SelectedLink,
              SelectedPeer
<1> QED BY <1>3, <1>4

\* Writing the file: only what validates is saved.
LEMMA WriteInv ==
  ASSUME TuiInv, Save \/ SaveTorn \/ \E f \in Rewrites : HandEdit(f)
  PROVE  TuiInv'
<1>1. /\ UNCHANGED <<mode, tab, config, edits, sound, chosen, offered>>
      /\ UNCHANGED <<cursorVars, wizardVars, pending_service_action>>
      /\ UNCHANGED <<daemon, unit>>
  BY DEF Save, SaveTorn, HandEdit, AfterSave, configVars, ghostVars
<1>2. mode = "Normal" => config \in Configs
  BY OpenApp
<1>3. /\ file' \in Configs \cup {Torn} /\ {byTui', touched', dirty'} \subseteq BOOLEAN
      /\ byTui' /\ file' # Torn => Valid(file')
      /\ CleanMeansSaved'
  <2>1. CASE Save
    BY <1>1, <1>2, <2>1 DEF Save, SaveKey, AfterSave, CleanMeansSaved
  <2>2. CASE SaveTorn
    BY <1>1, <2>2 DEF TuiInv, TuiTypeOK, SaveTorn, AfterSave, CleanMeansSaved
  <2>3. ASSUME NEW f \in Rewrites, HandEdit(f)
        PROVE  /\ file' \in Configs \cup {Torn} /\ {byTui', touched', dirty'} \subseteq BOOLEAN
               /\ byTui' /\ file' # Torn => Valid(file')
               /\ CleanMeansSaved'
    <3>1. file' = f /\ byTui' = FALSE /\ dirty' = dirty
      BY <2>3 DEF HandEdit, configVars
    <3>2. dirty \in BOOLEAN /\ touched' \in BOOLEAN
      BY <2>3 DEF TuiInv, TuiTypeOK, HandEdit
    <3>3. mode' # "Closed" => touched'
      BY <1>1, <2>3 DEF HandEdit
    <3> QED BY <3>1, <3>2, <3>3, FilesAssumption DEF CleanMeansSaved
  <2> QED BY <2>1, <2>2, <2>3
<1>4. /\ daemon' \in DaemonStates /\ unit' \in BOOLEAN
  BY <1>1 DEF TuiInv, TuiTypeOK
<1>5. TuiTypeOK' /\ LinkWizardOK' /\ PeerWizardOK' /\ PromptOK'
  BY <1>1, <1>3, <1>4, AppKept
<1>6. FileOK'
  BY <1>1, <1>3 DEF TuiInv, FileOK, DaemonNeverPanics
<1> QED BY <1>5, <1>6 DEF TuiInv

\* Starting the service: validation comes before every expect().
LEMMA StartInv ==
  ASSUME TuiInv, StartDaemon
  PROVE  daemon' \in DaemonStates \ {"panicked"}
<1>1. PICK readable \in BOOLEAN :
        daemon' \in IF file = Torn THEN {"refused"} ELSE RunDaemon(file, readable)
  BY DEF StartDaemon
<1>2. CASE file = Torn
  BY <1>1, <1>2 DEF DaemonStates
<1>3. CASE file # Torn
  <2>1. file \in Configs
    BY <1>3 DEF TuiInv, TuiTypeOK
  <2>2. RunListeners(file) \subseteq {"ended", "failed", "running"}
    BY DEF RunListeners
  <2>3. RunDaemon(file, readable) \subseteq {"refused", "no key", "ended", "failed", "running"}
    BY <2>1, <2>2, ValidNeverPanics DEF RunDaemon
  <2> QED BY <1>1, <1>3, <2>3 DEF DaemonStates
<1> QED BY <1>2, <1>3

LEMMA ServiceInv ==
  ASSUME TuiInv, RunServiceAction \/ RetryDaemon
  PROVE  TuiInv'
<1> USE DEF LinkModes, PeerModes, Prompts
<1>1. /\ UNCHANGED <<file, byTui, touched, tab, config, dirty, edits, sound, chosen, offered>>
      /\ UNCHANGED <<links_selected, peers_selected, linkWizard, peerWizard>>
  BY DEF RunServiceAction, RetryDaemon, configVars, cursorVars, wizardVars, ghostVars
<1>2. /\ unit' \in BOOLEAN /\ DaemonNeverPanics'
      /\ daemon' \in DaemonStates
  <2>1. /\ unit \in BOOLEAN /\ DaemonNeverPanics
        /\ daemon \in DaemonStates
    BY DEF TuiInv, TuiTypeOK, FileOK
  <2>2. CASE RetryDaemon
    BY <2>1, <2>2, StartInv DEF RetryDaemon, DaemonNeverPanics
  <2>3. CASE RunServiceAction
    BY <2>1, <2>3, StartInv DEF RunServiceAction, ServiceEffect, DaemonNeverPanics, DaemonStates
  <2> QED BY <2>2, <2>3
<1>3. \/ UNCHANGED mode /\ UNCHANGED pending_service_action
      \/ /\ mode = "ConfirmServiceAction" /\ mode' = "Normal"
         /\ pending_service_action' = None
  BY DEF RunServiceAction, RetryDaemon
<1>4. TuiTypeOK'
  <2>1. {byTui', touched', unit', dirty', sound'} \subseteq BOOLEAN
    BY <1>1, <1>2 DEF TuiInv, TuiTypeOK
  <2> QED BY <1>1, <1>2, <1>3, <2>1 DEF TuiInv, TuiTypeOK
<1>5. LinkWizardOK' /\ PeerWizardOK' /\ PromptOK'
  BY <1>1, <1>3 DEF TuiInv, LinkWizardOK, PeerWizardOK, PromptOK, HasLink, HasPeer,
                    SelectedLink, SelectedPeer
<1>6. FileOK'
  BY <1>1, <1>2, <1>3 DEF TuiInv, FileOK, CleanMeansSaved
<1> QED BY <1>4, <1>5, <1>6 DEF TuiInv
-----------------------------------------------------------------------------
(***************************************************************************)
(* The changes: what each leaves, and what it touches.                     *)
(***************************************************************************)
LinksTouched ==
  /\ config'.peers = config.peers
  /\ \A x \in Range(config.links) :
       x.id \notin chosen \cup {linkWizard.id} => x \in Range(config'.links)
  /\ IF linkWizard.id = None THEN Len(config'.links) = Len(config.links) - 1
     ELSE \A x \in Range(config'.links) : x.id \notin chosen \ {linkWizard.id}

PeersTouched ==
  /\ config'.links = config.links
  /\ \A x \in Range(config.peers) :
       x.name \notin chosen \cup {peerWizard.name} => x \in Range(config'.peers)
  /\ IF peerWizard.name = None THEN Len(config'.peers) = Len(config.peers) - 1
     ELSE \A x \in Range(config'.peers) : x.name \notin chosen \ {peerWizard.name}

Touched == IF tab = "Links" THEN LinksTouched ELSE PeersTouched

\* A committed change leaves an App with a closed wizard and unsaved changes.
LEMMA EditedInv ==
  ASSUME TuiInv, mode # "Closed", Edited, edits < MaxEdits,
         config' \in Configs, sound => Sound(config'),
         CursorOn(links_selected', config'.links), CursorOn(peers_selected', config'.peers),
         linkWizard' = NoLink, peerWizard' \in PeerWizards, peerWizard'.name = None,
         peerWizard'.cursor = 0
  PROVE  TuiInv'
<1> USE DEF LinkModes, PeerModes, Prompts
<1>1. /\ UNCHANGED <<file, byTui, touched, daemon, unit, tab, pending_service_action, sound>>
      /\ dirty' = TRUE /\ mode' = "Normal" /\ edits' = edits + 1
  BY DEF Edited, systemVars
<1>2. TuiTypeOK'
  <2>1. {byTui', touched', unit', dirty', sound'} \subseteq BOOLEAN
    BY <1>1 DEF TuiInv, TuiTypeOK
  <2>2. edits' \in 0..MaxEdits
    <3>1. edits \in 0..MaxEdits
      BY DEF TuiInv, TuiTypeOK
    <3> QED BY ONLY <1>1, <3>1, edits < MaxEdits, EditsAssumption
  <2>3. /\ file' \in Configs \cup {Torn} /\ tab' \in Tabs
        /\ daemon' \in DaemonStates
        /\ pending_service_action' \in ServiceMenu \cup {None}
    BY <1>1 DEF TuiInv, TuiTypeOK
  <2> QED BY <1>1, <2>1, <2>2, <2>3 DEF TuiTypeOK, CursorOn
<1>3. NoLink \in LinkWizards
  BY DEF NoLink, LinkWizards
<1>4. LinkWizardOK' /\ PeerWizardOK' /\ PromptOK'
  BY <1>1, <1>3 DEF LinkWizardOK, PeerWizardOK, PromptOK
<1>5. FileOK'
  BY <1>1 DEF TuiInv, FileOK, CleanMeansSaved, DaemonNeverPanics
<1> QED BY <1>2, <1>4, <1>5 DEF TuiInv

\* A cursor on the last entry of a list, and one moved up by one when an entry
\* below or at it is gone.
LEMMA CursorLast ==
  ASSUME NEW S, NEW t \in Seq(S), NEW n \in Nat, Len(t) = n + 1
  PROVE  CursorOn(n, t)
BY DEF CursorOn

LEMMA CursorUp ==
  ASSUME NEW S, NEW T, NEW s \in Seq(S), NEW t \in Seq(T), NEW n \in 0..(Len(s) - 1),
         Len(t) = Len(s) - 1
  PROVE  CursorOn(SaturatingDec(n), t)
<1>1. PICK l \in Nat : l = Len(s)
  OBVIOUS
<1>2. SaturatingDec(n) \in {0} \cup 0..(l - 1 - 1)
  BY <1>1 DEF SaturatingDec
<1> QED BY <1>1, <1>2 DEF CursorOn

\* Entries that differed keep differing when one is removed.
LEMMA RemovedLinks ==
  ASSUME NEW s \in Seq(LinkConfig), NEW n \in 0..(Len(s) - 1), NEW t, t = WithoutIndex(s, n),
         \A i, j \in DOMAIN s : s[i].id = s[j].id => i = j
  PROVE  \A i, j \in DOMAIN t : t[i].id = t[j].id => i = j
<1>1. PICK f \in [DOMAIN t -> DOMAIN s] :
        /\ \A i \in DOMAIN t : t[i] = s[f[i]]
        /\ \A i, j \in DOMAIN t : f[i] = f[j] => i = j
  <2>1. Embeds(s, t)
    BY ONLY s \in Seq(LinkConfig), n \in 0..(Len(s) - 1), t = WithoutIndex(s, n), OneRemoved
  <2> QED BY <2>1 DEF Embeds
<1>2. ASSUME NEW i \in DOMAIN t, NEW j \in DOMAIN t, t[i].id = t[j].id PROVE i = j
  <2>1. f[i] \in DOMAIN s /\ f[j] \in DOMAIN s /\ s[f[i]].id = s[f[j]].id
    BY ONLY <1>1, <1>2
  <2>2. f[i] = f[j]
    BY <2>1
  <2> QED BY <1>1, <2>2
<1> QED BY <1>2

LEMMA RemovedPeers ==
  ASSUME NEW s \in Seq(PeerConfig), NEW n \in 0..(Len(s) - 1), NEW t, t = WithoutIndex(s, n),
         \A i, j \in DOMAIN s : s[i].name = s[j].name => i = j
  PROVE  \A i, j \in DOMAIN t : t[i].name = t[j].name => i = j
<1>1. PICK f \in [DOMAIN t -> DOMAIN s] :
        /\ \A i \in DOMAIN t : t[i] = s[f[i]]
        /\ \A i, j \in DOMAIN t : f[i] = f[j] => i = j
  <2>1. Embeds(s, t)
    BY ONLY s \in Seq(PeerConfig), n \in 0..(Len(s) - 1), t = WithoutIndex(s, n), OneRemoved
  <2> QED BY <2>1 DEF Embeds
<1>2. ASSUME NEW i \in DOMAIN t, NEW j \in DOMAIN t, t[i].name = t[j].name PROVE i = j
  <2>1. f[i] \in DOMAIN s /\ f[j] \in DOMAIN s /\ s[f[i]].name = s[f[j]].name
    BY ONLY <1>1, <1>2
  <2>2. f[i] = f[j]
    BY <2>1
  <2> QED BY <1>1, <2>2
<1> QED BY <1>2

LEMMA RemoveLinkInv ==
  ASSUME TuiInv, RemoveSelectedLink
  PROVE  TuiInv' /\ Touched
<1> USE DEF LinkModes, PeerModes
<1>1. /\ mode = "ConfirmRemoveLink" /\ Edited /\ tab = "Links" /\ edits < MaxEdits /\ HasLink
      /\ chosen = {SelectedLink.id} /\ UNCHANGED <<peers_selected, linkWizard, peerWizard>>
      /\ linkWizard = NoLink
  BY DEF RemoveSelectedLink, TuiInv, PromptOK, LinkWizardOK, wizardVars
<1>2. PICK s \in Seq(LinkConfig) : s = config.links
  BY <1>1, OpenApp
<1>3. PICK n : n = links_selected
  OBVIOUS
<1>4. n \in 0..(Len(s) - 1) /\ n + 1 \in DOMAIN s /\ SelectedLink = s[n + 1]
  BY <1>1, <1>2, <1>3, Selection DEF SelectedLink
<1>5. PICK t : t = WithoutIndex(s, n)
  OBVIOUS
<1>6. /\ t \in Seq(LinkConfig) /\ Len(t) = Len(s) - 1
      /\ \A i \in DOMAIN t : \E k \in DOMAIN s : t[i] = s[k]
      /\ \A k \in DOMAIN s : k # n + 1 => \E i \in DOMAIN t : t[i] = s[k]
  BY ONLY s \in Seq(LinkConfig), <1>4, <1>5, OneRemoved
<1>7. PICK c \in Configs : c = config
  BY <1>1, OpenApp
<1>8. config' = [c EXCEPT !.links = t]
  BY <1>2, <1>3, <1>5, <1>7 DEF RemoveSelectedLink
<1>9. config' \in Configs /\ config'.links = t /\ config'.peers = c.peers
  BY <1>6, <1>8 DEF Configs
<1>10. sound => Sound(config')
  <2>1. sound => Sound(c)
    BY <1>7 DEF TuiInv, FileOK
  <2>2. Sound(c) => \A i, j \in DOMAIN s : s[i].id = s[j].id => i = j
    BY <1>2, <1>7 DEF Sound, SoundLinks
  <2>3. Sound(c) => \A i, j \in DOMAIN t : t[i].id = t[j].id => i = j
    BY ONLY <2>2, s \in Seq(LinkConfig), <1>4, <1>5, RemovedLinks
  <2> QED BY <1>2, <1>6, <1>7, <1>8, <2>1, <2>3, SoundNewLinks
<1>11. TuiInv'
  <2>1. CursorOn(links_selected', config'.links)
    <3>1. links_selected' = SaturatingDec(n)
      BY <1>3 DEF RemoveSelectedLink
    <3> QED BY <1>4, <1>6, <1>9, <3>1, CursorUp
  <2>2. CursorOn(peers_selected', config'.peers)
    BY <1>1, <1>7, <1>9, OpenApp
  <2>3. peerWizard' \in PeerWizards /\ peerWizard'.name = None /\ peerWizard'.cursor = 0
    BY <1>1 DEF TuiInv, PeerWizardOK
  <2> QED BY <1>1, <1>9, <1>10, <2>1, <2>2, <2>3, EditedInv
<1>12. LinksTouched
  <2>1. linkWizard.id = None
    BY <1>1 DEF NoLink
  <2>2. ASSUME NEW x \in Range(s), x.id \notin chosen PROVE x \in Range(t)
    <3>1. PICK k \in DOMAIN s : x = s[k]
      BY DEF Range
    <3>2. k # n + 1
      BY <1>1, <1>4, <2>2, <3>1
    <3> QED BY <1>6, <3>1, <3>2 DEF Range
  <2> QED BY <1>2, <1>6, <1>7, <1>9, <2>1, <2>2 DEF LinksTouched
<1> QED BY <1>1, <1>11, <1>12 DEF Touched

LEMMA RemovePeerInv ==
  ASSUME TuiInv, RemoveSelectedPeer
  PROVE  TuiInv' /\ Touched
<1> USE DEF LinkModes, PeerModes
<1>1. /\ mode = "ConfirmRemovePeer" /\ Edited /\ tab = "Peers" /\ edits < MaxEdits /\ HasPeer
      /\ chosen = {SelectedPeer.name} /\ UNCHANGED <<links_selected, linkWizard, peerWizard>>
      /\ linkWizard = NoLink
  BY DEF RemoveSelectedPeer, TuiInv, PromptOK, LinkWizardOK, wizardVars
<1>2. PICK s \in Seq(PeerConfig) : s = config.peers
  BY <1>1, OpenApp
<1>3. PICK n : n = peers_selected
  OBVIOUS
<1>4. n \in 0..(Len(s) - 1) /\ n + 1 \in DOMAIN s /\ SelectedPeer = s[n + 1]
  BY <1>1, <1>2, <1>3, Selection DEF SelectedPeer
<1>5. PICK t : t = WithoutIndex(s, n)
  OBVIOUS
<1>6. /\ t \in Seq(PeerConfig) /\ Len(t) = Len(s) - 1
      /\ \A i \in DOMAIN t : \E k \in DOMAIN s : t[i] = s[k]
      /\ \A k \in DOMAIN s : k # n + 1 => \E i \in DOMAIN t : t[i] = s[k]
  BY ONLY s \in Seq(PeerConfig), <1>4, <1>5, OneRemoved
<1>7. PICK c \in Configs : c = config
  BY <1>1, OpenApp
<1>8. config' = [c EXCEPT !.peers = t]
  BY <1>2, <1>3, <1>5, <1>7 DEF RemoveSelectedPeer
<1>9. config' \in Configs /\ config'.peers = t /\ config'.links = c.links
  BY <1>6, <1>8 DEF Configs
<1>10. sound => Sound(config')
  <2>1. sound => Sound(c)
    BY <1>7 DEF TuiInv, FileOK
  \* A valid client has no peers, and so no prompt about one.
  <2>2. Sound(c) => c.role = "server"
    <3>1. s # <<>>
      BY <1>4
    <3> QED BY <1>2, <1>7, <3>1 DEF Sound, SoundClient
  <2>3. Sound(c) => \A i, j \in DOMAIN s : s[i].name = s[j].name => i = j
    BY <1>2, <1>7, <2>2 DEF Sound, SoundServer, SoundPeers
  <2>4. Sound(c) => \A i, j \in DOMAIN t : t[i].name = t[j].name => i = j
    BY ONLY <2>3, s \in Seq(PeerConfig), <1>4, <1>5, RemovedPeers
  <2> QED BY <1>2, <1>6, <1>7, <1>8, <2>1, <2>2, <2>4, SoundNewPeers
<1>11. TuiInv'
  <2>1. CursorOn(peers_selected', config'.peers)
    <3>1. peers_selected' = SaturatingDec(n)
      BY <1>3 DEF RemoveSelectedPeer
    <3> QED BY <1>4, <1>6, <1>9, <3>1, CursorUp
  <2>2. CursorOn(links_selected', config'.links)
    BY <1>1, <1>7, <1>9, OpenApp
  <2>3. peerWizard' \in PeerWizards /\ peerWizard'.name = None /\ peerWizard'.cursor = 0
    BY <1>1 DEF TuiInv, PeerWizardOK
  <2> QED BY <1>1, <1>9, <1>10, <2>1, <2>2, <2>3, EditedInv
<1>12. PeersTouched
  <2>1. peerWizard.name = None
    BY <1>1 DEF TuiInv, PeerWizardOK
  <2>2. ASSUME NEW x \in Range(s), x.name \notin chosen PROVE x \in Range(t)
    <3>1. PICK k \in DOMAIN s : x = s[k]
      BY DEF Range
    <3>2. k # n + 1
      BY <1>1, <1>4, <2>2, <3>1
    <3> QED BY <1>6, <3>1, <3>2 DEF Range
  <2> QED BY <1>2, <1>6, <1>7, <1>9, <2>1, <2>2 DEF PeersTouched
<1> QED BY <1>1, <1>11, <1>12 DEF Touched

\* The link that the wizard puts together has the address its side needs, and
\* one that parses.
LEMMA NewLinkSound ==
  ASSUME NEW role \in Roles, NEW id \in Ids, NEW m \in Modes, NEW addr \in Addresses,
         NEW link,
         link = [id |-> id, mode |-> m, transport |-> "tcp",
                 listen |-> IF LinkNeedsListen(role, m) THEN addr ELSE None,
                 target |-> IF LinkNeedsListen(role, m) THEN None ELSE addr]
  PROVE  /\ link \in LinkConfig /\ link.id = id /\ link.transport = "tcp"
         /\ SoundLink(role, link)
<1>1. link.id = id /\ link.mode = m /\ link.transport = "tcp"
  OBVIOUS
<1>2. addr # None /\ addr \notin BadTexts /\ None \notin BadTexts
  BY NoneAssumption, TextsAssumption
<1>3. CASE LinkNeedsListen(role, m)
  <2>1. link = [id |-> id, mode |-> m, transport |-> "tcp", listen |-> addr, target |-> None]
    BY <1>3
  <2>2. link.listen = addr /\ link.target = None
    BY <2>1
  <2>3. link \in LinkConfig
    BY <2>1 DEF LinkConfig, OptAddress, Transports
  <2>4. ValidateLink(role, link) = {}
    BY <1>1, <1>2, <1>3, <2>2 DEF ValidateLink, RequirePresent, RequireAbsent, When
  <2> QED BY <1>1, <2>3, <2>4 DEF SoundLink
<1>4. CASE ~LinkNeedsListen(role, m)
  <2>1. link = [id |-> id, mode |-> m, transport |-> "tcp", listen |-> None, target |-> addr]
    BY <1>4
  <2>2. link.listen = None /\ link.target = addr
    BY <2>1
  <2>3. link \in LinkConfig
    BY <2>1 DEF LinkConfig, OptAddress, Transports
  <2>4. ValidateLink(role, link) = {}
    BY <1>1, <1>2, <1>4, <2>2 DEF ValidateLink, RequirePresent, RequireAbsent, When
  <2> QED BY <1>1, <2>3, <2>4 DEF SoundLink
<1> QED BY <1>3, <1>4

LEMMA CommitLinkInv ==
  ASSUME TuiInv, NEW addr \in Addresses, ConfirmLinkAddress(addr)
  PROVE  TuiInv' /\ Touched
<1> USE DEF LinkModes, PeerModes
<1>1. /\ mode = "AddLinkAddress" /\ CommitLink(addr) /\ tab = "Links" /\ edits < MaxEdits
      /\ linkWizard \in LinkWizards /\ linkWizard.id \in Ids /\ linkWizard.mode \in Modes
      /\ chosen = IF linkWizard.original = None THEN {} ELSE {linkWizard.original}
  BY DEF ConfirmLinkAddress, TuiInv, LinkWizardOK
<1>2. PICK w \in LinkWizards : w = linkWizard
  BY <1>1
<1>3. PICK c \in Configs : c = config
  BY <1>1, OpenApp
<1>4. PICK s \in Seq(LinkConfig) : s = c.links
  BY ConfigLists
<1>5. PICK link : link = [id |-> w.id, mode |-> w.mode, transport |-> "tcp",
                          listen |-> IF LinkNeedsListen(c.role, w.mode) THEN addr ELSE None,
                          target |-> IF LinkNeedsListen(c.role, w.mode) THEN None ELSE addr]
  OBVIOUS
<1>6. /\ link \in LinkConfig /\ link.id = w.id /\ link.transport = "tcp"
      /\ SoundLink(c.role, link)
  <2>1. c.role \in Roles /\ w.id \in Ids /\ w.mode \in Modes
    BY <1>1, <1>2 DEF Configs
  <2> QED BY <1>5, <2>1, NewLinkSound
<1>7. PICK gone : gone = {w.original, w.id}
  OBVIOUS
<1>8. PICK t : t = Append(LinkList(s, gone), link)
  OBVIOUS
<1>9. /\ t \in Seq(LinkConfig) /\ Len(LinkList(s, gone)) \in Nat
      /\ Len(t) = Len(LinkList(s, gone)) + 1
      /\ \A i \in DOMAIN t : \/ t[i] = link
                             \/ t[i].id \notin gone /\ \E k \in DOMAIN s : t[i] = s[k]
      /\ \A k \in DOMAIN s : s[k].id \notin gone => \E i \in DOMAIN t : t[i] = s[k]
      /\ (\A i, j \in DOMAIN s : s[i].id = s[j].id => i = j)
           => \A i, j \in DOMAIN t : t[i].id = t[j].id => i = j
  <2>1. link.id \in gone
    BY <1>6, <1>7
  <2>2. LinkPut(s, gone, link, t)
    BY <1>6, <1>8, <2>1, LinkReplaced
  <2> QED BY <2>2 DEF LinkPut
<1>10. /\ config' = [c EXCEPT !.links = t] /\ links_selected' = Len(LinkList(s, gone))
       /\ linkWizard' = NoLink /\ Edited /\ UNCHANGED <<peers_selected, peerWizard>>
  BY <1>1, <1>2, <1>3, <1>4, <1>5, <1>7, <1>8 DEF CommitLink, LinkList
<1>11. config' \in Configs /\ config'.links = t /\ config'.peers = c.peers
  BY <1>9, <1>10 DEF Configs
<1>12. sound => Sound(config')
  <2>1. sound => Sound(c)
    BY <1>3 DEF TuiInv, FileOK
  <2>2. Sound(c) => \A i, j \in DOMAIN s : s[i].id = s[j].id => i = j
    BY <1>4 DEF Sound, SoundLinks
  <2>3. ASSUME NEW i \in DOMAIN t
        PROVE  \/ \E k \in DOMAIN c.links : t[i] = c.links[k]
               \/ t[i].transport = "tcp" /\ SoundLink(c.role, t[i])
    <3>1. CASE t[i] = link
      BY <1>6, <3>1
    <3>2. CASE \E k \in DOMAIN s : t[i] = s[k]
      BY <1>4, <3>2
    <3> QED BY <1>9, <3>1, <3>2
  <2> QED BY <1>9, <1>10, <2>1, <2>2, <2>3, SoundNewLinks
<1>13. TuiInv'
  <2>1. CursorOn(links_selected', config'.links)
    BY <1>9, <1>10, <1>11, CursorLast
  <2>2. CursorOn(peers_selected', config'.peers)
    BY <1>1, <1>3, <1>10, <1>11, OpenApp
  <2>3. peerWizard' \in PeerWizards /\ peerWizard'.name = None /\ peerWizard'.cursor = 0
    BY <1>1, <1>10 DEF TuiInv, PeerWizardOK
  <2> QED BY <1>1, <1>10, <1>11, <1>12, <2>1, <2>2, <2>3, EditedInv
<1>14. LinksTouched
  <2>1. w.id # None /\ \A x \in LinkConfig : x.id # None
    BY <1>1, <1>2, NoneAssumption DEF LinkConfig
  <2>2. ASSUME NEW x \in Range(s), x.id \notin chosen \cup {w.id} PROVE x \in Range(t)
    <3>1. PICK k \in DOMAIN s : x = s[k] /\ s[k] \in LinkConfig
      BY DEF Range
    <3>2. s[k].id \notin gone
      BY <1>1, <1>2, <1>7, <2>1, <2>2, <3>1
    <3> QED BY <1>9, <3>1, <3>2 DEF Range
  <2>3. ASSUME NEW x \in Range(t) PROVE x.id \notin chosen \ {w.id}
    <3>1. chosen \subseteq gone
      BY <1>1, <1>2, <1>7
    <3>2. PICK i \in DOMAIN t : x = t[i]
      BY DEF Range
    <3>3. CASE t[i] = link
      BY <1>6, <3>2, <3>3
    <3>4. CASE t[i].id \notin gone
      BY <3>1, <3>2, <3>4
    <3> QED BY <1>9, <3>3, <3>4
  <2> QED BY <1>2, <1>3, <1>4, <1>11, <2>1, <2>2, <2>3 DEF LinksTouched
<1> QED BY <1>1, <1>13, <1>14 DEF Touched

LEMMA CommitPeerInv ==
  ASSUME TuiInv, ConfirmPeerLinks
  PROVE  TuiInv' /\ Touched
<1> USE DEF LinkModes, PeerModes
<1>1. /\ mode = "AddPeerLinks" /\ tab = "Peers" /\ edits < MaxEdits /\ config.role = "server"
      /\ peerWizard \in PeerWizards /\ peerWizard.name \in Names
      /\ peerWizard.public_key \in KeyTexts /\ Decodes(peerWizard.public_key)
      /\ chosen = IF peerWizard.original = None THEN {} ELSE {peerWizard.original}
      /\ linkWizard = NoLink
  BY DEF ConfirmPeerLinks, TuiInv, PeerWizardOK, LinkWizardOK
<1>2. PICK w \in PeerWizards : w = peerWizard
  BY <1>1
<1>3. PICK c \in Configs : c = config
  BY <1>1, OpenApp
<1>4. PICK s \in Seq(PeerConfig) : s = c.peers
  BY ConfigLists
<1>5. PICK peer : peer = [name |-> w.name, public_key |-> w.public_key, links |-> w.links]
  OBVIOUS
<1>6. peer \in PeerConfig /\ peer.name = w.name /\ Decodes(peer.public_key)
  BY <1>1, <1>2, <1>5 DEF PeerConfig, PeerWizards
<1>7. PICK gone : gone = {w.original, w.name}
  OBVIOUS
<1>8. PICK t : t = Append(PeerList(s, gone), peer)
  OBVIOUS
<1>9. /\ t \in Seq(PeerConfig) /\ Len(PeerList(s, gone)) \in Nat
      /\ Len(t) = Len(PeerList(s, gone)) + 1
      /\ \A i \in DOMAIN t : \/ t[i] = peer
                             \/ t[i].name \notin gone /\ \E k \in DOMAIN s : t[i] = s[k]
      /\ \A k \in DOMAIN s : s[k].name \notin gone => \E i \in DOMAIN t : t[i] = s[k]
      /\ (\A i, j \in DOMAIN s : s[i].name = s[j].name => i = j)
           => \A i, j \in DOMAIN t : t[i].name = t[j].name => i = j
  <2>1. peer.name \in gone
    BY <1>6, <1>7
  <2>2. PeerPut(s, gone, peer, t)
    BY <1>6, <1>8, <2>1, PeerReplaced
  <2> QED BY <2>2 DEF PeerPut
<1>10. /\ config' = [c EXCEPT !.peers = t] /\ peers_selected' = Len(PeerList(s, gone))
       /\ peerWizard' = NoPeer /\ Edited /\ UNCHANGED <<links_selected, linkWizard>>
  BY <1>1, <1>2, <1>3, <1>4, <1>5, <1>7, <1>8 DEF ConfirmPeerLinks, PeerList
<1>11. config' \in Configs /\ config'.peers = t /\ config'.links = c.links
  BY <1>9, <1>10 DEF Configs
<1>12. sound => Sound(config')
  <2>1. sound => Sound(c)
    BY <1>3 DEF TuiInv, FileOK
  <2>2. Sound(c) => \A i, j \in DOMAIN s : s[i].name = s[j].name => i = j
    BY <1>1, <1>3, <1>4 DEF Sound, SoundServer, SoundPeers
  <2>3. \A i \in DOMAIN t : \/ \E k \in DOMAIN c.peers : t[i] = c.peers[k]
                           \/ Decodes(t[i].public_key)
    BY <1>4, <1>6, <1>9
  <2> QED BY <1>1, <1>3, <1>9, <1>10, <2>1, <2>2, <2>3, SoundNewPeers
<1>13. TuiInv'
  <2>1. CursorOn(peers_selected', config'.peers)
    BY <1>9, <1>10, <1>11, CursorLast
  <2>2. CursorOn(links_selected', config'.links)
    BY <1>1, <1>3, <1>10, <1>11, OpenApp
  <2>3. NoPeer \in PeerWizards /\ NoPeer.name = None /\ NoPeer.cursor = 0
    BY DEF NoPeer, PeerWizards
  <2> QED BY <1>1, <1>10, <1>11, <1>12, <2>1, <2>2, <2>3, EditedInv
<1>14. PeersTouched
  <2>1. w.name # None /\ \A x \in PeerConfig : x.name # None
    BY <1>1, <1>2, NoneAssumption DEF PeerConfig
  <2>2. ASSUME NEW x \in Range(s), x.name \notin chosen \cup {w.name} PROVE x \in Range(t)
    <3>1. PICK k \in DOMAIN s : x = s[k] /\ s[k] \in PeerConfig
      BY DEF Range
    <3>2. s[k].name \notin gone
      BY <1>1, <1>2, <1>7, <2>1, <2>2, <3>1
    <3> QED BY <1>9, <3>1, <3>2 DEF Range
  <2>3. ASSUME NEW x \in Range(t) PROVE x.name \notin chosen \ {w.name}
    <3>1. chosen \subseteq gone
      BY <1>1, <1>2, <1>7
    <3>2. PICK i \in DOMAIN t : x = t[i]
      BY DEF Range
    <3>3. CASE t[i] = peer
      BY <1>6, <3>2, <3>3
    <3>4. CASE t[i].name \notin gone
      BY <3>1, <3>2, <3>4
    <3> QED BY <1>9, <3>3, <3>4
  <2> QED BY <1>2, <1>3, <1>4, <1>11, <2>1, <2>2, <2>3 DEF PeersTouched
<1> QED BY <1>1, <1>13, <1>14 DEF Touched
-----------------------------------------------------------------------------
(***************************************************************************)
(* Every step.                                                             *)
(***************************************************************************)
LEMMA TuiNextInv == TuiInv /\ [TuiNext]_tuiVars => TuiInv' /\ (edits' > edits => Touched)
<1> SUFFICES ASSUME TuiInv, [TuiNext]_tuiVars
             PROVE  TuiInv' /\ (edits' > edits => Touched)
  OBVIOUS
<1>1. edits \in Nat
  <2>1. edits \in 0..MaxEdits
    BY DEF TuiInv, TuiTypeOK
  <2> QED BY ONLY <2>1, EditsAssumption
<1>2. UNCHANGED edits => ~(edits' > edits)
  BY <1>1
<1>3. CASE UNCHANGED tuiVars
  <2>1. UNCHANGED edits
    BY <1>3 DEF tuiVars, configVars
  <2> QED BY <1>2, <1>3, <2>1, TuiStutter
<1>4. CASE Open
  <2>1. file # None => file \in Configs
    BY <1>4 DEF Open, TuiInv, TuiTypeOK
  <2> QED BY <1>2, <1>4, <2>1, NewAppInv DEF Open, NewApp
<1>5. CASE Quit
  BY <1>2, <1>5, NewAppInv DEF Quit, NewApp
<1>6. CASE Save \/ SaveTorn \/ \E f \in Rewrites : HandEdit(f)
  <2>1. UNCHANGED edits
    BY <1>6 DEF Save, SaveTorn, HandEdit, AfterSave, configVars
  <2> QED BY <1>2, <1>6, <2>1, WriteInv
<1>7. CASE RunServiceAction \/ RetryDaemon
  <2>1. UNCHANGED edits
    BY <1>7 DEF RunServiceAction, RetryDaemon, configVars
  <2> QED BY <1>2, <1>7, <2>1, ServiceInv
<1>8. CASE \/ \E d \in {-1, 1} : MoveLinkSelection(d) \/ MovePeerSelection(d)
           \/ \E t \in Tabs : SwitchTab(t)
           \/ \E a \in ServiceMenu : ActivateServiceAction(a)
           \/ CancelServiceAction
  <2>1. UNCHANGED edits /\ mode # "Closed"
    BY <1>8 DEF MoveLinkSelection, MovePeerSelection, SwitchTab, ActivateServiceAction,
                CancelServiceAction, On, configVars
  <2> QED BY <1>2, <1>8, <2>1, PlainStepInv
<1>9. CASE \/ BeginAddLink \/ BeginEditLink
           \/ \E m \in Modes \cup {None} : ConfirmTemplateChoice(m)
           \/ CancelLinkWizard \/ \E id \in Ids : ConfirmLinkId(id)
           \/ \E m \in Modes : ChooseLinkMode(m)
           \/ AskRemoveLink \/ AskRemovePeer \/ DeclineRemoval
  <2>1. UNCHANGED edits /\ mode # "Closed"
    BY <1>9 DEF BeginAddLink, BeginEditLink, ConfirmTemplateChoice, CancelLinkWizard,
                ConfirmLinkId, ChooseLinkMode, AskRemoveLink, AskRemovePeer, DeclineRemoval,
                On, LinkModes, WizardStep, configVars
  <2> QED BY <1>2, <1>9, <2>1, LinkStepInv
<1>10. CASE \/ BeginAddPeer \/ BeginEditPeer \/ CancelPeerWizard
            \/ \E name \in Names : ConfirmPeerName(name)
            \/ RefuseEmptyKey
            \/ \E key \in KeyTexts : ConfirmPeerPublicKey(key)
            \/ \E d \in {-1, 1} : MovePeerLinksCursor(d)
            \/ TogglePeerLink
  <2>1. UNCHANGED edits /\ mode # "Closed"
    BY <1>10 DEF BeginAddPeer, BeginEditPeer, CancelPeerWizard, ConfirmPeerName, RefuseEmptyKey,
                 ConfirmPeerPublicKey, MovePeerLinksCursor, TogglePeerLink, On, PeerModes,
                 WizardStep, configVars
  <2> QED BY <1>2, <1>10, <2>1, PeerStepInv
<1>11. CASE RefuseAddress \/ \E key \in KeyTexts : RefuseKey(key)
  BY <1>3, <1>11 DEF RefuseAddress, RefuseKey
<1>12. CASE \E addr \in Addresses : ConfirmLinkAddress(addr)
  BY <1>12, CommitLinkInv
<1>13. CASE RemoveSelectedLink
  BY <1>13, RemoveLinkInv
<1>14. CASE ConfirmPeerLinks
  BY <1>14, CommitPeerInv
<1>15. CASE RemoveSelectedPeer
  BY <1>15, RemovePeerInv
<1>16. LinkKeys => TuiInv' /\ (edits' > edits => Touched)
  BY <1>8, <1>9, <1>11, <1>12, <1>13 DEF LinkKeys
<1>17. PeerKeys => TuiInv' /\ (edits' > edits => Touched)
  BY <1>8, <1>9, <1>10, <1>11, <1>14, <1>15 DEF PeerKeys
<1> QED BY <1>3, <1>4, <1>5, <1>6, <1>7, <1>8, <1>16, <1>17 DEF TuiNext

LEMMA TuiInvariant == TuiSpec => []TuiInv
<1>1. TuiInv /\ [TuiNext]_tuiVars => TuiInv'
  BY TuiNextInv
<1> QED BY <1>1, TuiInitInv, PTL DEF TuiSpec

\* The UI keeps its types, and its three cursors stay inside the lists they
\* walk through, whatever the wizards and prompts put in or take out.
THEOREM TuiTypeCorrect == TuiSpec => []TuiTypeOK
<1>1. TuiInv => TuiTypeOK
  BY DEF TuiInv
<1> QED BY <1>1, TuiInvariant, PTL

\* On no file, hand-written or saved, does the daemon run into an expect() of
\* something validate() should have refused.
THEOREM DaemonNeverPanicsAlways == TuiSpec => []DaemonNeverPanics
<1>1. TuiInv => DaemonNeverPanics
  BY DEF TuiInv, FileOK
<1> QED BY <1>1, TuiInvariant, PTL

\* On a file that save_config wrote whole the daemon can run, unless its UDP
\* channel has an address that does not parse.
THEOREM SavedFileStartsAlways == TuiSpec => []SavedFileStarts
<1>1. TuiInv => SavedFileStarts
  <2> SUFFICES ASSUME TuiInv, byTui, file # Torn,
                      ~(file.role = "server" /\ file.listen_udp \in BadTexts)
               PROVE  "running" \in RunDaemon(file, TRUE)
    BY DEF SavedFileStarts
  <2>1. file \in Configs /\ Valid(file)
    BY DEF TuiInv, TuiTypeOK, FileOK
  <2>2. file.role \in {"server", "client"}
    BY <2>1 DEF Configs, Roles
  <2>3. "running" \in RunListeners(file)
    BY <2>2 DEF RunListeners
  <2> QED BY <2>1, <2>3, ValidNeverPanics DEF RunDaemon
<1> QED BY <1>1, TuiInvariant, PTL

\* While the UI shows nothing to save, memory and file agree, or a write was
\* cut short, or the file was written by hand under the UI.
THEOREM CleanMeansSavedAlways == TuiSpec => []CleanMeansSaved
<1>1. TuiInv => CleanMeansSaved
  BY DEF TuiInv, FileOK
<1> QED BY <1>1, TuiInvariant, PTL

\* From a valid file, edits of any number lead to no other refusal of
\* save_config than the ones EditErrors lists.
THEOREM OnlyEditErrorsAlways == TuiSpec => []OnlyEditErrors
<1>1. TuiInv => OnlyEditErrors
  <2> SUFFICES ASSUME TuiInv, sound PROVE Validate(config) \subseteq EditErrors
    BY DEF OnlyEditErrors
  <2>1. config \in Configs /\ Sound(config)
    BY DEF TuiInv, TuiTypeOK, FileOK
  <2> QED BY <2>1, SoundErrors
<1> QED BY <1>1, TuiInvariant, PTL

\* The checklist of the peer wizard never holds a link that this wizard was
\* not opened with and that was not checked in it.
THEOREM GrantsAreOfferedAlways == TuiSpec => []GrantsAreOffered
<1>1. TuiInv => GrantsAreOffered
  BY DEF TuiInv, PeerWizardOK, GrantsAreOffered
<1> QED BY <1>1, TuiInvariant, PTL

\* A committed change touches what was selected when its wizard or prompt
\* opened, and the entry that has the new id or name, and nothing else.
THEOREM OnlyChosenTouchedAlways == TuiSpec => OnlyChosenTouched
<1>1. TuiInv /\ [TuiNext]_tuiVars => (edits' > edits => Touched)
  BY TuiNextInv
<1>2. (edits' > edits => Touched)
        => (edits' > edits =>
              IF tab = "Links"
              THEN /\ config'.peers = config.peers
                   /\ Survive(config.links, config'.links, LAMBDA l : l.id, linkWizard.id)
              ELSE /\ config'.links = config.links
                   /\ Survive(config.peers, config'.peers, LAMBDA p : p.name, peerWizard.name))
  BY DEF Touched, LinksTouched, PeersTouched, Survive
<1> QED BY <1>1, <1>2, TuiInvariant, PTL DEF TuiSpec, OnlyChosenTouched
=============================================================================
