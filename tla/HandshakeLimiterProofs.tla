----------------------- MODULE HandshakeLimiterProofs -----------------------
(***************************************************************************)
(* Theorems about HandshakeLimiter for every set of addresses and every    *)
(* choice of the limits.                                                   *)
(***************************************************************************)
EXTENDS HandshakeLimiter, DequesProofs, FiniteSetTheorems, TLAPS

-----------------------------------------------------------------------------
\* The deque of an address is a suffix of everything it was admitted for, and
\* what has been dropped is older than the window.  WindowBounded needs it: a
\* deque with room means that the attempt MaxAttempts ago was dropped.
Remembered ==
  \A ip \in IPs :
    LET h == admitted[ip]
        s == attempts[ip]
    IN  /\ Len(s) <= Len(h)
        /\ \A i \in 1 .. Len(s) : s[i] = h[Len(h) - Len(s) + i]
        /\ \A i \in 1 .. (Len(h) - Len(s)) : h[i] + Window < now
        /\ \A i \in DOMAIN h : h[i] <= now

\* A loop between its two steps and a running handshake carry the number of an
\* admitted attempt; no number is carried twice.
Numbered ==
  /\ \A a \in Loops : loop[a] # AtAccept =>
       /\ loop[a].ip \in IPs
       /\ loop[a].nth <= Len(admitted[loop[a].ip])
       /\ <<loop[a].ip, loop[a].nth>> \notin shakes
       /\ \A b \in Loops : loop[b] = loop[a] => b = a
  /\ \A s \in shakes : s[2] <= Len(admitted[s[1]])
  /\ IsFiniteSet(shakes)

\* The inductive invariant behind the theorems below.
LimiterInv == /\ LimiterTypeOK /\ Remembered /\ Numbered
              /\ SlidingWindow /\ PermitsConserved

\* Pruning keeps a deque a suffix of the history and drops only old attempts.
LEMMA PrunedRemembered ==
  ASSUME LimiterTypeOK, Remembered, NEW ip \in IPs
  PROVE  LET h == admitted[ip]
             p == Prune(attempts[ip])
         IN  /\ h \in Seq(Nat) /\ p \in Seq(Nat) /\ Len(p) <= Len(h)
             /\ \A i \in 1 .. Len(p) : p[i] = h[Len(h) - Len(p) + i]
             /\ \A i \in 1 .. (Len(h) - Len(p)) : h[i] + Window < now
<1> DEFINE h == admitted[ip]
           s == attempts[ip]
           p == Prune(s)
<1>1. h \in Seq(Nat) /\ s \in Seq(Nat) /\ now \in Nat /\ Window \in Nat
  BY LimitsAssumption DEF LimiterTypeOK
<1>2. /\ p \in Seq(Nat) /\ Len(p) <= Len(s)
      /\ \A i \in 1 .. Len(p) : p[i] = s[Len(s) - Len(p) + i]
      /\ \A i \in 1 .. (Len(s) - Len(p)) : s[i] + Window < now
  <2>1. now - Window \in Int
    BY <1>1
  <2>2. /\ p \in Seq(Nat) /\ Len(p) <= Len(s)
        /\ \A i \in 1 .. Len(p) : p[i] = s[Len(s) - Len(p) + i]
        /\ \A i \in 1 .. (Len(s) - Len(p)) : s[i] < now - Window
    BY <1>1, <2>1, PopOlderDrops DEF Prune
  <2>3. \A i \in 1 .. (Len(s) - Len(p)) : s[i] \in Nat
    BY <1>1, <2>2
  <2> HIDE DEF s, p
  <2> QED BY <1>1, <2>2, <2>3
<1>3. /\ Len(s) <= Len(h)
      /\ \A i \in 1 .. Len(s) : s[i] = h[Len(h) - Len(s) + i]
      /\ \A i \in 1 .. (Len(h) - Len(s)) : h[i] + Window < now
  BY DEF Remembered
<1>4. Len(h) \in Nat /\ Len(s) \in Nat /\ Len(p) \in Nat
  BY <1>1, <1>2
<1> HIDE DEF h, s, p
<1>5. ASSUME NEW i \in 1 .. Len(p) PROVE p[i] = h[Len(h) - Len(p) + i]
  <2>1. Len(s) - Len(p) + i \in 1 .. Len(s)
    BY <1>2, <1>4
  <2>2. Len(h) - Len(s) + (Len(s) - Len(p) + i) = Len(h) - Len(p) + i
    BY <1>4
  <2> QED BY <1>2, <1>3, <2>1, <2>2
<1>6. ASSUME NEW i \in 1 .. (Len(h) - Len(p)) PROVE h[i] + Window < now
  <2>1. CASE i \in 1 .. (Len(h) - Len(s))
    BY <1>3, <2>1
  <2>2. CASE i \notin 1 .. (Len(h) - Len(s))
    <3> DEFINE j == i - (Len(h) - Len(s))
    <3>1. j \in 1 .. (Len(s) - Len(p)) /\ j \in 1 .. Len(s)
      BY <1>2, <1>3, <1>4, <2>2
    <3>2. s[j] + Window < now /\ s[j] = h[Len(h) - Len(s) + j]
      BY <1>2, <1>3, <3>1
    <3>3. Len(h) - Len(s) + j = i
      BY <1>4
    <3> QED BY <3>2, <3>3
  <2> QED BY <2>1, <2>2
<1> QED BY <1>1, <1>2, <1>3, <1>4, <1>5, <1>6 DEF h, s, p

\* One more attempt through a window with room keeps the bound.
LEMMA AdmitKeepsWindow ==
  ASSUME LimiterInv, NEW a \in Loops, NEW ip \in IPs, AdmitAttempt(a, ip)
  PROVE  Remembered' /\ SlidingWindow'
<1> DEFINE h == admitted[ip]
           p == Prune(attempts[ip])
<1>1. /\ h \in Seq(Nat) /\ p \in Seq(Nat) /\ Len(p) <= Len(h)
      /\ \A i \in 1 .. Len(p) : p[i] = h[Len(h) - Len(p) + i]
      /\ \A i \in 1 .. (Len(h) - Len(p)) : h[i] + Window < now
  BY PrunedRemembered DEF LimiterInv
<1>2. Len(p) < MaxAttempts /\ Len(p) \in Nat /\ Len(h) \in Nat /\ now \in Nat
  BY <1>1, LimitsAssumption DEF AdmitAttempt, WindowFull, LimiterInv, LimiterTypeOK
<1>3. /\ now' = now
      /\ attempts'[ip] = Append(p, now) /\ admitted'[ip] = Append(h, now)
      /\ \A k \in IPs : k # ip => /\ attempts'[k] = attempts[k]
                                  /\ admitted'[k] = admitted[k]
  BY DEF AdmitAttempt, LimiterInv, LimiterTypeOK
<1>4. /\ \A i \in DOMAIN h : h[i] <= now
      /\ \A i \in DOMAIN h : i + MaxAttempts \in DOMAIN h =>
           h[i + MaxAttempts] > h[i] + Window
  BY DEF LimiterInv, Remembered, SlidingWindow
<1> HIDE DEF h, p
<1> DEFINE h1 == Append(h, now)
           p1 == Append(p, now)
<1>5. /\ h1 \in Seq(Nat) /\ Len(h1) = Len(h) + 1 /\ DOMAIN h1 = 1 .. (Len(h) + 1)
      /\ \A i \in 1 .. Len(h) : h1[i] = h[i]
      /\ h1[Len(h) + 1] = now
  BY <1>1, <1>2
<1>6. /\ Len(p1) = Len(p) + 1
      /\ \A i \in 1 .. Len(p) : p1[i] = p[i]
      /\ p1[Len(p) + 1] = now
  BY <1>1, <1>2
<1>7. DOMAIN h = 1 .. Len(h)
  BY <1>1
<1> HIDE DEF h1, p1
<1>8. /\ Len(p1) <= Len(h1)
      /\ \A i \in 1 .. Len(p1) : p1[i] = h1[Len(h1) - Len(p1) + i]
      /\ \A i \in 1 .. (Len(h1) - Len(p1)) : h1[i] + Window < now
      /\ \A i \in DOMAIN h1 : h1[i] <= now
  <2>1. ASSUME NEW i \in 1 .. Len(p1) PROVE p1[i] = h1[Len(h1) - Len(p1) + i]
    <3>1. CASE i = Len(p) + 1
      BY <1>2, <1>5, <1>6, <3>1
    <3>2. CASE i # Len(p) + 1
      <4>1. i \in 1 .. Len(p) /\ Len(h) - Len(p) + i \in 1 .. Len(h)
        BY <1>1, <1>2, <1>6, <3>2
      <4>2. Len(h1) - Len(p1) + i = Len(h) - Len(p) + i
        BY <1>2, <1>5, <1>6
      <4> QED BY <1>1, <1>5, <1>6, <4>1, <4>2
    <3> QED BY <3>1, <3>2
  <2>2. ASSUME NEW i \in 1 .. (Len(h1) - Len(p1)) PROVE h1[i] + Window < now
    <3>1. i \in 1 .. (Len(h) - Len(p)) /\ i \in 1 .. Len(h)
      BY <1>1, <1>2, <1>5, <1>6
    <3> QED BY <1>1, <1>5, <3>1
  <2>3. ASSUME NEW i \in DOMAIN h1 PROVE h1[i] <= now
    <3>1. CASE i = Len(h) + 1
      BY <1>2, <1>5, <3>1
    <3>2. CASE i # Len(h) + 1
      <4>1. i \in 1 .. Len(h)
        BY <1>2, <1>5, <3>2
      <4> QED BY <1>4, <1>5, <1>7, <4>1
    <3> QED BY <3>1, <3>2
  <2>4. Len(p1) <= Len(h1)
    BY <1>1, <1>2, <1>5, <1>6
  <2> QED BY <2>1, <2>2, <2>3, <2>4
<1>9. Remembered'
  <2> SUFFICES ASSUME NEW k \in IPs
               PROVE  LET g == admitted'[k]
                          s == attempts'[k]
                      IN  /\ Len(s) <= Len(g)
                          /\ \A i \in 1 .. Len(s) : s[i] = g[Len(g) - Len(s) + i]
                          /\ \A i \in 1 .. (Len(g) - Len(s)) : g[i] + Window < now'
                          /\ \A i \in DOMAIN g : g[i] <= now'
    BY DEF Remembered
  <2>1. CASE k = ip
    BY <1>3, <1>8, <2>1 DEF h1, p1
  <2>2. CASE k # ip
    BY <1>3, <2>2 DEF LimiterInv, Remembered
  <2> QED BY <2>1, <2>2
<1>10. ASSUME NEW i \in DOMAIN h1, i + MaxAttempts \in DOMAIN h1
       PROVE  h1[i + MaxAttempts] > h1[i] + Window
  <2>0. MaxAttempts \in Nat /\ MaxAttempts > 0 /\ Window \in Nat
    BY LimitsAssumption
  <2>1. CASE i + MaxAttempts = Len(h) + 1
    <3>0. i \in Nat /\ i >= 1
      BY <1>2, <1>5
    <3>1. i \in 1 .. (Len(h) - Len(p)) /\ i \in 1 .. Len(h)
      BY ONLY <1>2, <2>0, <2>1, <3>0
    <3>2. h1[i] + Window < now
      BY <1>1, <1>5, <3>1
    <3>3. h1[i + MaxAttempts] = now
      BY <1>5, <2>1
    <3>4. h1[i] \in Nat
      BY <1>1, <1>5, <3>1
    <3> QED BY <1>2, <2>0, <3>2, <3>3, <3>4
  <2>2. CASE i + MaxAttempts # Len(h) + 1
    <3>1. i \in 1 .. Len(h) /\ i + MaxAttempts \in 1 .. Len(h)
      BY <1>2, <1>5, <1>10, <2>0, <2>2
    <3> QED BY <1>4, <1>5, <1>7, <3>1
  <2> QED BY <2>1, <2>2
<1>11. SlidingWindow'
  <2> SUFFICES ASSUME NEW k \in IPs, NEW i \in DOMAIN admitted'[k],
                      i + MaxAttempts \in DOMAIN admitted'[k]
               PROVE  admitted'[k][i + MaxAttempts] > admitted'[k][i] + Window
    BY DEF SlidingWindow
  <2>1. CASE k = ip
    BY <1>3, <1>10, <2>1 DEF h1
  <2>2. CASE k # ip
    BY <1>3, <2>2 DEF LimiterInv, SlidingWindow
  <2> QED BY <2>1, <2>2
<1> QED BY <1>9, <1>11

\* A new limiter has no attempts and all its permits.
LEMMA LimiterInitInv == LimiterInit => LimiterInv
<1> SUFFICES ASSUME LimiterInit PROVE LimiterInv
  OBVIOUS
<1> USE LimitsAssumption DEF LimiterInit
<1>1. LimiterTypeOK
  BY DEF LimiterTypeOK, AtAccept
<1>2. Remembered /\ SlidingWindow
  <2>1. \A ip \in IPs : admitted[ip] = << >> /\ attempts[ip] = << >>
    OBVIOUS
  <2> QED BY <2>1 DEF Remembered, SlidingWindow
<1>3. Numbered /\ PermitsConserved
  BY FS_EmptySet DEF Numbered, PermitsConserved
<1> QED BY <1>1, <1>2, <1>3 DEF LimiterInv

\* A step that neither records an attempt nor moves time backwards keeps the
\* window's bound.
LEMMA WindowStep ==
  ASSUME LimiterInv, UNCHANGED <<attempts, admitted>>, now' \in Nat, now <= now'
  PROVE  Remembered' /\ SlidingWindow'
<1>1. SlidingWindow'
  BY DEF LimiterInv, SlidingWindow
<1>2. Remembered'
  <2> SUFFICES ASSUME NEW ip \in IPs
               PROVE  LET h == admitted[ip]
                          s == attempts[ip]
                      IN  /\ Len(s) <= Len(h)
                          /\ \A i \in 1 .. Len(s) : s[i] = h[Len(h) - Len(s) + i]
                          /\ \A i \in 1 .. (Len(h) - Len(s)) : h[i] + Window < now'
                          /\ \A i \in DOMAIN h : h[i] <= now'
    BY DEF Remembered
  <2> DEFINE h == admitted[ip]
             s == attempts[ip]
  <2>1. /\ Len(s) <= Len(h)
        /\ \A i \in 1 .. Len(s) : s[i] = h[Len(h) - Len(s) + i]
        /\ \A i \in 1 .. (Len(h) - Len(s)) : h[i] + Window < now
        /\ \A i \in DOMAIN h : h[i] <= now
    BY DEF LimiterInv, Remembered
  <2>2. /\ h \in Seq(Nat) /\ s \in Seq(Nat) /\ now \in Nat /\ Window \in Nat
    BY LimitsAssumption DEF LimiterInv, LimiterTypeOK
  <2> HIDE DEF h, s
  <2>3. \A i \in 1 .. (Len(h) - Len(s)) : i \in DOMAIN h /\ h[i] \in Nat
    BY <2>1, <2>2
  <2>4. \A i \in DOMAIN h : h[i] \in Nat
    BY <2>2
  <2>5. /\ \A i \in 1 .. (Len(h) - Len(s)) : h[i] + Window < now'
        /\ \A i \in DOMAIN h : h[i] <= now'
    BY <2>1, <2>2, <2>3, <2>4
  <2> QED BY <2>1, <2>5 DEF h, s
<1> QED BY <1>1, <1>2

\* Every step of the two accept loops, the handshakes and the clock keeps it.
LEMMA LimiterNextInv == LimiterInv /\ [LimiterNext]_limiterVars => LimiterInv'
<1> SUFFICES ASSUME LimiterInv, [LimiterNext]_limiterVars PROVE LimiterInv'
  OBVIOUS
<1> USE LimitsAssumption, NoIPAssumption
<1>1. ASSUME NEW a \in Loops, NEW ip \in IPs, AdmitAttempt(a, ip)
      PROVE  LimiterInv'
  <2>1. Remembered' /\ SlidingWindow'
    BY <1>1, AdmitKeepsWindow
  <2>2. Append(Prune(attempts[ip]), now) \in Seq(Nat) /\ admitted[ip] \in Seq(Nat)
    BY PrunedRemembered DEF LimiterInv, LimiterTypeOK
  <2>3. /\ Len(admitted[ip]) \in Nat /\ Append(admitted[ip], now) \in Seq(Nat)
        /\ Len(Append(admitted[ip], now)) = Len(admitted[ip]) + 1
    BY <2>2 DEF LimiterInv, LimiterTypeOK
  <2>4. LimiterTypeOK'
    BY <1>1, <2>2, <2>3 DEF AdmitAttempt, LimiterInv, LimiterTypeOK
  <2>5. /\ \A b \in Loops : b # a => loop'[b] = loop[b]
        /\ loop'[a].ip = ip /\ loop'[a].nth = Len(admitted[ip]) + 1
        /\ shakes' = shakes /\ permits' = permits
        /\ admitted'[ip] = Append(admitted[ip], now)
        /\ \A k \in IPs : k # ip => admitted'[k] = admitted[k]
    BY <1>1 DEF AdmitAttempt, LimiterInv, LimiterTypeOK
  <2>6. \A k \in IPs : Len(admitted[k]) \in Nat /\ Len(admitted'[k]) \in Nat
                       /\ Len(admitted[k]) <= Len(admitted'[k])
    <3>1. \A k \in IPs : admitted[k] \in Seq(Nat)
      BY DEF LimiterInv, LimiterTypeOK
    <3>2. \A k \in IPs : Len(admitted[k]) \in Nat
      BY <3>1
    <3>3. ASSUME NEW k \in IPs
          PROVE  Len(admitted'[k]) \in Nat /\ Len(admitted[k]) <= Len(admitted'[k])
      <4>1. CASE k = ip
        BY <2>3, <2>5, <4>1
      <4>2. CASE k # ip
        BY <2>5, <3>2, <4>2
      <4> QED BY <4>1, <4>2
    <3> QED BY <3>2, <3>3
  <2>7. Numbered'
    <3> USE DEF Numbered
    <3>1. \A s \in shakes : s[1] \in IPs /\ s[2] \in Nat
      BY DEF LimiterInv, LimiterTypeOK
    <3>2. IsFiniteSet(shakes') /\ \A s \in shakes' : s[2] <= Len(admitted'[s[1]])
      BY <2>5, <2>6, <3>1 DEF LimiterInv
    <3>3. ASSUME NEW b \in Loops, loop'[b] # AtAccept
          PROVE  /\ loop'[b].ip \in IPs
                 /\ loop'[b].nth <= Len(admitted'[loop'[b].ip])
                 /\ <<loop'[b].ip, loop'[b].nth>> \notin shakes'
                 /\ \A c \in Loops : loop'[c] = loop'[b] => c = b
      <4>1. ASSUME NEW c \in Loops, loop[c] # AtAccept
            PROVE  /\ loop[c].ip \in IPs /\ loop[c].nth \in Nat
                   /\ loop[c].nth <= Len(admitted[loop[c].ip])
                   /\ <<loop[c].ip, loop[c].nth>> \notin shakes
                   /\ \A d \in Loops : loop[d] = loop[c] => d = c
        BY <4>1 DEF LimiterInv, LimiterTypeOK
      <4>2. \A c \in Loops : loop[c].ip = ip => loop[c] # AtAccept
        BY DEF AtAccept
      <4>3. \A c \in Loops : c # a => loop'[c] # loop'[a]
        <5> SUFFICES ASSUME NEW c \in Loops, c # a, loop'[c] = loop'[a] PROVE FALSE
          OBVIOUS
        <5>1. loop[c].ip = ip /\ loop[c].nth = Len(admitted[ip]) + 1
          BY <2>5
        <5>2. loop[c].nth <= Len(admitted[ip])
          BY <4>1, <4>2, <5>1
        <5> QED BY <2>3, <5>1, <5>2
      <4>4. CASE b = a
        <5>1. <<ip, Len(admitted[ip]) + 1>> \notin shakes
          <6> SUFFICES ASSUME <<ip, Len(admitted[ip]) + 1>> \in shakes PROVE FALSE
            OBVIOUS
          <6>1. Len(admitted[ip]) + 1 <= Len(admitted[ip])
            BY DEF LimiterInv
          <6> QED BY <2>3, <6>1
        <5>2. loop'[a].nth <= Len(admitted'[ip])
          BY <2>3, <2>5
        <5> QED BY <2>5, <4>3, <4>4, <5>1, <5>2
      <4>5. CASE b # a
        <5>1. loop'[b] = loop[b] /\ loop[b] # AtAccept
          BY <2>5, <3>3, <4>5
        <5>2. loop[b].nth <= Len(admitted'[loop[b].ip])
          <6>1. /\ loop[b].ip \in IPs /\ loop[b].nth \in Nat
                /\ loop[b].nth <= Len(admitted[loop[b].ip])
            BY <4>1, <5>1
          <6>2. /\ Len(admitted[loop[b].ip]) \in Nat
                /\ Len(admitted'[loop[b].ip]) \in Nat
                /\ Len(admitted[loop[b].ip]) <= Len(admitted'[loop[b].ip])
            BY <2>6, <6>1
          <6> QED BY ONLY <6>1, <6>2
        <5>3. \A c \in Loops : loop'[c] = loop'[b] => c = b
          BY <2>5, <4>1, <4>3, <4>5, <5>1
        <5> QED BY <2>5, <4>1, <5>1, <5>2, <5>3
      <4> QED BY <4>4, <4>5
    <3> QED BY <3>2, <3>3
  <2>8. PermitsConserved'
    BY <2>5 DEF LimiterInv, PermitsConserved
  <2> QED BY <2>1, <2>4, <2>7, <2>8 DEF LimiterInv
<1>2. ASSUME NEW a \in Loops, NEW ip \in IPs, WindowRefuses(a, ip)
      PROVE  LimiterInv'
  <2>1. /\ admitted[ip] \in Seq(Nat) /\ Prune(attempts[ip]) \in Seq(Nat)
        /\ Len(Prune(attempts[ip])) <= Len(admitted[ip])
        /\ \A i \in 1 .. Len(Prune(attempts[ip])) :
             Prune(attempts[ip])[i] =
               admitted[ip][Len(admitted[ip]) - Len(Prune(attempts[ip])) + i]
        /\ \A i \in 1 .. (Len(admitted[ip]) - Len(Prune(attempts[ip]))) :
             admitted[ip][i] + Window < now
    BY PrunedRemembered DEF LimiterInv
  <2>2. /\ attempts'[ip] = Prune(attempts[ip])
        /\ \A k \in IPs : k # ip => attempts'[k] = attempts[k]
        /\ UNCHANGED <<now, admitted, permits, loop, shakes>>
    BY <1>2 DEF WindowRefuses, LimiterInv, LimiterTypeOK
  <2>3. LimiterTypeOK'
    BY <1>2, <2>1 DEF WindowRefuses, LimiterInv, LimiterTypeOK
  <2>4. Remembered'
    <3> SUFFICES ASSUME NEW k \in IPs
                 PROVE  LET h == admitted[k]
                            s == attempts'[k]
                        IN  /\ Len(s) <= Len(h)
                            /\ \A i \in 1 .. Len(s) : s[i] = h[Len(h) - Len(s) + i]
                            /\ \A i \in 1 .. (Len(h) - Len(s)) : h[i] + Window < now
                            /\ \A i \in DOMAIN h : h[i] <= now
      BY <2>2 DEF Remembered
    <3>1. \A i \in DOMAIN admitted[k] : admitted[k][i] <= now
      BY DEF LimiterInv, Remembered
    <3>2. CASE k = ip
      BY <2>1, <2>2, <3>1, <3>2
    <3>3. CASE k # ip
      BY <2>2, <3>3 DEF LimiterInv, Remembered
    <3> QED BY <3>2, <3>3
  <2>5. Numbered' /\ SlidingWindow' /\ PermitsConserved'
    BY <2>2 DEF LimiterInv, Numbered, SlidingWindow, PermitsConserved
  <2> QED BY <2>3, <2>4, <2>5 DEF LimiterInv
<1>3. ASSUME NEW a \in Loops, TakePermit(a) PROVE LimiterInv'
  <2> DEFINE s == <<loop[a].ip, loop[a].nth>>
  <2>1. /\ loop[a].ip \in IPs /\ loop[a].nth \in Nat /\ s \notin shakes
        /\ loop[a].nth <= Len(admitted[loop[a].ip]) /\ IsFiniteSet(shakes)
        /\ \A b \in Loops : loop[b] = loop[a] => b = a
    BY <1>3 DEF TakePermit, LimiterInv, LimiterTypeOK, Numbered
  <2>2. /\ permits \in Nat /\ permits > 0 /\ permits' = permits - 1
        /\ shakes' = shakes \cup {s} /\ UNCHANGED <<now, attempts, admitted>>
        /\ loop'[a] = AtAccept /\ \A b \in Loops : b # a => loop'[b] = loop[b]
    BY <1>3 DEF TakePermit, LimiterInv, LimiterTypeOK
  <2>3. Cardinality(shakes') = Cardinality(shakes) + 1 /\ IsFiniteSet(shakes')
    BY <2>1, <2>2, FS_AddElement
  <2>4. LimiterTypeOK'
    BY <1>3, <2>1, <2>2 DEF TakePermit, LimiterInv, LimiterTypeOK, AtAccept
  <2>5. Remembered' /\ SlidingWindow'
    BY <2>2, WindowStep DEF LimiterInv, LimiterTypeOK
  <2>6. PermitsConserved'
    <3>1. Cardinality(shakes) \in Nat
      BY <2>1, FS_CardinalityType
    <3> QED BY <2>2, <2>3, <3>1 DEF LimiterInv, PermitsConserved
  <2>7. Numbered'
    <3>1. \A b \in Loops : b # a /\ loop[b] # AtAccept =>
            <<loop[b].ip, loop[b].nth>> # s
      BY <2>1 DEF LimiterInv, LimiterTypeOK
    <3>2. s[1] = loop[a].ip /\ s[2] = loop[a].nth
      OBVIOUS
    <3> HIDE DEF s
    <3> QED BY <2>1, <2>2, <2>3, <3>1, <3>2 DEF LimiterInv, Numbered
  <2> QED BY <2>4, <2>5, <2>6, <2>7 DEF LimiterInv
<1>4. ASSUME NEW a \in Loops, CapRefuses(a) PROVE LimiterInv'
  <2>1. /\ UNCHANGED <<now, attempts, admitted, permits, shakes>>
        /\ loop'[a] = AtAccept /\ \A b \in Loops : b # a => loop'[b] = loop[b]
    BY <1>4 DEF CapRefuses, LimiterInv, LimiterTypeOK
  <2>2. LimiterTypeOK'
    BY <1>4 DEF CapRefuses, LimiterInv, LimiterTypeOK, AtAccept
  <2>3. Remembered' /\ SlidingWindow'
    BY <2>1, WindowStep DEF LimiterInv, LimiterTypeOK
  <2>4. Numbered' /\ PermitsConserved'
    BY <2>1 DEF LimiterInv, Numbered, PermitsConserved
  <2> QED BY <2>2, <2>3, <2>4 DEF LimiterInv
<1>5. ASSUME NEW s \in shakes, HandshakeEnds(s) PROVE LimiterInv'
  <2>1. /\ UNCHANGED <<now, attempts, admitted, loop>>
        /\ shakes' = shakes \ {s} /\ permits' = permits + 1 /\ IsFiniteSet(shakes)
    BY <1>5 DEF HandshakeEnds, LimiterInv, Numbered
  <2>2. /\ Cardinality(shakes') = Cardinality(shakes) - 1
        /\ IsFiniteSet(shakes') /\ Cardinality(shakes) \in Nat
        /\ Cardinality(shakes') \in Nat
    BY <2>1, FS_RemoveElement, FS_CardinalityType
  <2>3. PermitsConserved' /\ permits' \in 0 .. MaxConcurrent
    BY <2>1, <2>2 DEF LimiterInv, LimiterTypeOK, PermitsConserved
  <2>4. LimiterTypeOK'
    BY <2>1, <2>3 DEF LimiterInv, LimiterTypeOK
  <2>5. Remembered' /\ SlidingWindow'
    BY <2>1, WindowStep DEF LimiterInv, LimiterTypeOK
  <2>6. Numbered'
    BY <2>1, <2>2 DEF LimiterInv, Numbered
  <2> QED BY <2>3, <2>4, <2>5, <2>6 DEF LimiterInv
<1>6. CASE Tick \/ UNCHANGED limiterVars
  <2>1. /\ UNCHANGED <<attempts, admitted, permits, loop, shakes>>
        /\ now' \in Nat /\ now <= now'
    BY <1>6 DEF Tick, limiterVars, LimiterInv, LimiterTypeOK
  <2>2. Remembered' /\ SlidingWindow'
    BY <2>1, WindowStep
  <2> QED BY <2>1, <2>2 DEF LimiterInv, LimiterTypeOK, Numbered, PermitsConserved
<1> QED BY <1>1, <1>2, <1>3, <1>4, <1>5, <1>6 DEF LimiterNext, LoopStep

\* No address gets more than MAX_ATTEMPTS_PER_WINDOW attempts through any
\* closed interval of length WINDOW.
THEOREM SlidingWindowAlways == LimiterSpec => []SlidingWindow
<1>1. LimiterInv => SlidingWindow
  BY DEF LimiterInv
<1> QED BY LimiterInitInv, LimiterNextInv, <1>1, PTL DEF LimiterSpec

\* Permits are neither leaked nor returned twice, and no more handshakes run
\* than the semaphore has permits.
THEOREM PermitsConservedAlways == LimiterSpec => []PermitsConserved
<1>1. LimiterInv => PermitsConserved
  BY DEF LimiterInv
<1> QED BY LimiterInitInv, LimiterNextInv, <1>1, PTL DEF LimiterSpec

\* Every value keeps its type; permits never exceed the semaphore's size.
THEOREM LimiterTypeCorrect == LimiterSpec => []LimiterTypeOK
<1>1. LimiterInv => LimiterTypeOK
  BY DEF LimiterInv
<1> QED BY LimiterInitInv, LimiterNextInv, <1>1, PTL DEF LimiterSpec
=============================================================================
