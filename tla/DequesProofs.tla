---------------------------- MODULE DequesProofs ----------------------------
(***************************************************************************)
(* What popping the front of a sliding-window deque leaves.                *)
(***************************************************************************)
EXTENDS Deques, SequenceTheorems, WellFoundedInduction, TLAPS

\* A non-empty set of naturals has a least element.
LEMMA LeastNatural ==
  ASSUME NEW T, T \subseteq Nat, T # {}
  PROVE  \E x \in T : \A y \in T : x <= y
<1>1. PICK x \in T : \A y \in T : ~(<<y, x>> \in OpToRel(<, Nat))
  BY NatLessThanWellFounded, WFMin
<1>2. ASSUME NEW y \in T PROVE x <= y
  <2>1. x \in Nat /\ y \in Nat /\ <<y, x>> \in Nat \X Nat
    OBVIOUS
  <2>2. ~(y < x)
    BY <1>1, <2>1 DEF OpToRel
  <2> QED BY <2>1, <2>2
<1> QED BY <1>2

\* Popping removes a prefix of the deque, and only entries older than the
\* cutoff; the entry that is then in front is not older.
LEMMA PopOlderDrops ==
  ASSUME NEW s \in Seq(Nat), NEW cutoff \in Int
  PROVE  /\ PopOlder(s, cutoff) \in Seq(Nat)
         /\ Len(PopOlder(s, cutoff)) <= Len(s)
         /\ \A i \in 1 .. Len(PopOlder(s, cutoff)) :
              PopOlder(s, cutoff)[i] = s[Len(s) - Len(PopOlder(s, cutoff)) + i]
         /\ \A i \in 1 .. (Len(s) - Len(PopOlder(s, cutoff))) : s[i] < cutoff
         /\ Len(PopOlder(s, cutoff)) > 0 => PopOlder(s, cutoff)[1] >= cutoff
<1> DEFINE kept == {i \in DOMAIN s : s[i] >= cutoff}
<1>0. Len(s) \in Nat /\ DOMAIN s = 1 .. Len(s)
  OBVIOUS
<1>1. CASE kept = {}
  <2>1. PopOlder(s, cutoff) = << >>
    BY <1>1 DEF PopOlder
  <2>2. \A i \in 1 .. Len(s) : s[i] < cutoff
    BY <1>0, <1>1
  <2>3. Len(PopOlder(s, cutoff)) = 0 /\ PopOlder(s, cutoff) \in Seq(Nat)
    BY <2>1
  <2> QED BY <1>0, <2>2, <2>3
<1>2. CASE kept # {}
  <2> DEFINE k == CHOOSE i \in kept : \A j \in kept : i <= j
  <2>1. kept \subseteq Nat
    BY <1>0
  <2>2. k \in kept /\ \A j \in kept : k <= j
    <3>1. \E i \in kept : \A j \in kept : i <= j
      BY <1>2, <2>1, LeastNatural
    <3> QED BY <3>1
  <2>3. PopOlder(s, cutoff) = SubSeq(s, k, Len(s))
    BY <1>2 DEF PopOlder
  <2>4. k \in 1 .. Len(s)
    BY <1>0, <2>2
  <2> HIDE DEF k
  <2>5. \A i \in 1 .. (k - 1) : s[i] < cutoff
    <3> SUFFICES ASSUME NEW i \in 1 .. (k - 1), ~(s[i] < cutoff) PROVE FALSE
      OBVIOUS
    <3>0. i \in DOMAIN s /\ s[i] \in Nat
      BY <1>0, <2>4
    <3>1. i \in kept
      BY <3>0
    <3>2. k <= i
      BY <2>2, <3>1
    <3> QED BY ONLY <1>0, <2>4, <3>2, i \in 1 .. (k - 1)
  <2>5a. s[k] >= cutoff
    BY <2>2
  <2> HIDE DEF kept
  <2>6. /\ PopOlder(s, cutoff) \in Seq(Nat) /\ Len(PopOlder(s, cutoff)) = Len(s) - k + 1
        /\ \A i \in 1 .. (Len(s) - k + 1) : PopOlder(s, cutoff)[i] = s[k + i - 1]
    <3>1. /\ k \in Int /\ Len(s) \in Int /\ k <= Len(s)
          /\ \A i \in k .. Len(s) : s[i] \in Nat
      BY <1>0, <2>4
    <3>2. /\ SubSeq(s, k, Len(s)) \in Seq(Nat)
          /\ Len(SubSeq(s, k, Len(s))) = Len(s) - k + 1
          /\ \A i \in 1 .. Len(s) - k + 1 : SubSeq(s, k, Len(s))[i] = s[k + i - 1]
      BY <3>1, SubSeqProperties
    <3> QED BY <2>3, <3>2
  <2>7. PopOlder(s, cutoff)[1] >= cutoff
    <3>1. 1 \in 1 .. (Len(s) - k + 1) /\ k + 1 - 1 = k
      BY <1>0, <2>4
    <3>2. PopOlder(s, cutoff)[1] = s[k + 1 - 1]
      BY <2>6, <3>1
    <3> QED BY <2>5a, <3>1, <3>2
  <2> QED BY <1>0, <2>4, <2>5, <2>6, <2>7
<1> QED BY <1>1, <1>2

-----------------------------------------------------------------------------
\* Deque s holds the end of history h, and what it has dropped is older than
\* the cutoff.
Remembers(s, h, cutoff) ==
  /\ Len(s) <= Len(h)
  /\ \A i \in 1 .. Len(s) : s[i] = h[Len(h) - Len(s) + i]
  /\ \A i \in 1 .. (Len(h) - Len(s)) : h[i] < cutoff

\* A deque and its history grow together.
LEMMA RemembersAppend ==
  ASSUME NEW s \in Seq(Nat), NEW h \in Seq(Nat), NEW cutoff \in Int,
         NEW t \in Nat, Remembers(s, h, cutoff)
  PROVE  Remembers(Append(s, t), Append(h, t), cutoff)
<1> DEFINE u == Append(s, t)
           g == Append(h, t)
<1>1. /\ Len(s) \in Nat /\ Len(h) \in Nat /\ Len(s) <= Len(h)
      /\ Len(u) = Len(s) + 1 /\ Len(g) = Len(h) + 1
      /\ \A i \in 1 .. Len(s) : u[i] = s[i]
      /\ \A i \in 1 .. Len(h) : g[i] = h[i]
      /\ u[Len(s) + 1] = t /\ g[Len(h) + 1] = t
  BY DEF Remembers
<1> HIDE DEF u, g
<1>2. ASSUME NEW i \in 1 .. Len(u) PROVE u[i] = g[Len(g) - Len(u) + i]
  <2>1. CASE i = Len(s) + 1
    <3>1. Len(g) - Len(u) + i = Len(h) + 1
      BY <1>1, <2>1
    <3> QED BY <1>1, <2>1, <3>1
  <2>2. CASE i \in 1 .. Len(s)
    <3>1. /\ Len(g) - Len(u) + i = Len(h) - Len(s) + i
          /\ Len(h) - Len(s) + i \in 1 .. Len(h)
      BY <1>1, <2>2
    <3>2. u[i] = h[Len(h) - Len(s) + i]
      BY <1>1, <2>2 DEF Remembers
    <3> QED BY <1>1, <3>1, <3>2
  <2> QED BY <1>1, <2>1, <2>2
<1>3. ASSUME NEW i \in 1 .. (Len(g) - Len(u)) PROVE g[i] < cutoff
  <2>1. i \in 1 .. (Len(h) - Len(s)) /\ i \in 1 .. Len(h)
    BY <1>1
  <2> QED BY <1>1, <2>1 DEF Remembers
<1>4. Len(u) <= Len(g)
  BY <1>1
<1>5. Remembers(u, g, cutoff)
  BY <1>2, <1>3, <1>4 DEF Remembers
<1> QED BY <1>5 DEF u, g

\* Popping what is older than a later cutoff keeps the rest.
LEMMA RemembersPop ==
  ASSUME NEW s \in Seq(Nat), NEW h \in Seq(Nat), NEW old \in Int,
         NEW cutoff \in Int, old <= cutoff, Remembers(s, h, old)
  PROVE  Remembers(PopOlder(s, cutoff), h, cutoff)
<1> DEFINE p == PopOlder(s, cutoff)
<1>1. /\ p \in Seq(Nat) /\ Len(p) <= Len(s)
      /\ \A i \in 1 .. Len(p) : p[i] = s[Len(s) - Len(p) + i]
      /\ \A i \in 1 .. (Len(s) - Len(p)) : s[i] < cutoff
  BY PopOlderDrops
<1>2. /\ Len(p) \in Nat /\ Len(s) \in Nat /\ Len(h) \in Nat /\ Len(s) <= Len(h)
      /\ \A i \in 1 .. Len(h) : h[i] \in Nat
  BY <1>1 DEF Remembers
<1> HIDE DEF p
<1>3. ASSUME NEW i \in 1 .. Len(p) PROVE p[i] = h[Len(h) - Len(p) + i]
  <2>1. Len(s) - Len(p) + i \in 1 .. Len(s)
    BY <1>1, <1>2
  <2>2. Len(h) - Len(s) + (Len(s) - Len(p) + i) = Len(h) - Len(p) + i
    BY <1>2
  <2> QED BY <1>1, <2>1, <2>2 DEF Remembers
<1>4. ASSUME NEW i \in 1 .. (Len(h) - Len(p)) PROVE h[i] < cutoff
  <2>0. i \in 1 .. Len(h) /\ h[i] \in Nat
    BY <1>2
  <2>1. CASE i \in 1 .. (Len(h) - Len(s))
    <3>1. h[i] < old
      BY <2>1 DEF Remembers
    <3> QED BY <2>0, <3>1
  <2>2. CASE i \notin 1 .. (Len(h) - Len(s))
    <3> DEFINE j == i - (Len(h) - Len(s))
    <3>1. j \in 1 .. (Len(s) - Len(p)) /\ j \in 1 .. Len(s)
      BY <1>1, <1>2, <2>2
    <3>2. s[j] < cutoff /\ s[j] = h[Len(h) - Len(s) + j]
      BY <1>1, <3>1 DEF Remembers
    <3>3. Len(h) - Len(s) + j = i
      BY <1>2
    <3> QED BY <3>2, <3>3
  <2> QED BY <2>1, <2>2
<1> QED BY <1>1, <1>2, <1>3, <1>4 DEF Remembers, p
=============================================================================
