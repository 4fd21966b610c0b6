--------------------------- MODULE FirewallProofs ---------------------------
(***************************************************************************)
(* Theorems about Firewall for every set of addresses and every tuning,    *)
(* and about the server it guards: that GuardedServer is a Firewall and a  *)
(* HandshakeLimiter at once, and how their counts are related.             *)
(***************************************************************************)
EXTENDS GuardedServer, DequesProofs, FiniteSetTheorems, TLAPS

\* The deque of an address is the end of the streak it belongs to, what it has
\* dropped is outside the window, and it is shorter than the threshold, so the
\* next failure can at most reach it.
Tracked == \A ip \in IPs : /\ Remembers(history[ip], streak[ip], now - FailWindow)
                           /\ Len(history[ip]) < Threshold

\* The inductive invariant behind the theorems below.
FirewallInv == FirewallTypeOK /\ Tracked /\ StreaksCaught /\ NeverBannableSpared

\* An empty deque remembers an empty streak.
LEMMA RemembersNothing ==
  ASSUME NEW cutoff \in Int
  PROVE  Remembers(<< >>, << >>, cutoff)
BY DEF Remembers

\* An invariant state whose times are all forgotten.
LEMMA NoTimesTracked ==
  ASSUME now \in Nat, history = NoTimes, streak = NoTimes
  PROVE  /\ history \in [IPs -> Seq(Nat)] /\ streak \in [IPs -> Seq(Nat)]
         /\ Tracked /\ StreaksCaught
<1>1. \A ip \in IPs : history[ip] = << >> /\ streak[ip] = << >>
  BY DEF NoTimes
<1>2. now - FailWindow \in Int /\ Threshold \in Nat \ {0}
  BY TuningAssumption
<1>3. Tracked
  BY <1>1, <1>2, RemembersNothing DEF Tracked
<1>4. StreaksCaught
  BY <1>1 DEF StreaksCaught
<1>5. << >> \in Seq(Nat)
  OBVIOUS
<1> QED BY <1>3, <1>4, <1>5 DEF NoTimes

\* The firewall starts with nothing recorded and nothing banned.
LEMMA FirewallInitInv == FirewallInit => FirewallInv
<1> SUFFICES ASSUME FirewallInit PROVE FirewallInv
  OBVIOUS
<1>1. now \in Nat /\ history = NoTimes /\ streak = NoTimes
  BY DEF FirewallInit
<1>2. FirewallTypeOK
  <2>1. history \in [IPs -> Seq(Nat)] /\ streak \in [IPs -> Seq(Nat)]
    BY <1>1, NoTimesTracked
  <2>2. /\ pipe \in Seq(Lines) /\ channel \in Seq(Offenses)
        /\ Len(channel) <= ChannelCap
    <3>1. Len(<< >>) = 0 /\ << >> \in Seq(Lines) /\ << >> \in Seq(Offenses)
      OBVIOUS
    <3> QED BY <3>1, TuningAssumption DEF FirewallInit
  <2> QED BY <1>1, <2>1, <2>2 DEF FirewallInit, FirewallTypeOK
<1>3. NeverBannableSpared
  BY AddressAssumption DEF FirewallInit, NeverBannableSpared
<1> QED BY <1>1, <1>2, <1>3, NoTimesTracked DEF FirewallInv

-----------------------------------------------------------------------------
\* The offense that run_daemon handles next, and what it leaves behind.
LEMMA HeadOffense ==
  ASSUME channel \in Seq(Offenses), channel # << >>
  PROVE  /\ Head(channel) \in Offenses /\ Head(channel).ip \in IPs
         /\ Tail(channel) \in Seq(Offenses) /\ Len(Tail(channel)) = Len(channel) - 1
<1>1. Head(channel) \in Offenses
  BY HeadTailProperties
<1>2. Tail(channel) \in Seq(Offenses) /\ Len(Tail(channel)) = Len(channel) - 1
  BY HeadTailProperties
<1>3. Head(channel).ip \in IPs
  <2> HIDE DEF Offenses
  <2> DEFINE x == Head(channel)
  <2>1. x \in Offenses
    BY <1>1
  <2> HIDE DEF x
  <2>2. x.ip \in IPs
    BY <2>1 DEF Offenses
  <2> QED BY <2>2 DEF x
<1> QED BY <1>1, <1>2, <1>3

\* What the tracker knows once a failure of ip has been recorded.
LEMMA RecordRemembers ==
  ASSUME FirewallInv, NEW ip \in IPs
  PROVE  /\ Record(ip) \in Seq(Nat) /\ Append(streak[ip], now) \in Seq(Nat)
         /\ Remembers(Record(ip), Append(streak[ip], now), now - FailWindow)
         /\ Len(Record(ip)) \in Nat /\ Len(Record(ip)) <= Threshold
         /\ Len(Record(ip)) > 0 => Record(ip)[1] >= now - FailWindow
<1> DEFINE s == history[ip]
           h == streak[ip]
           c == now - FailWindow
<1>1. /\ s \in Seq(Nat) /\ h \in Seq(Nat) /\ now \in Nat /\ c \in Int
      /\ Threshold \in Nat
  BY TuningAssumption DEF FirewallInv, FirewallTypeOK
<1>2. Remembers(s, h, c) /\ Len(s) < Threshold
  BY DEF FirewallInv, Tracked
<1> HIDE DEF s, h, c
<1>3. Remembers(Append(s, now), Append(h, now), c)
  BY <1>1, <1>2, RemembersAppend
<1>4. /\ Append(s, now) \in Seq(Nat) /\ Append(h, now) \in Seq(Nat)
      /\ Len(Append(s, now)) = Len(s) + 1 /\ Len(s) \in Nat
  BY <1>1, AppendProperties, LenProperties
<1>5. Remembers(PopOlder(Append(s, now), c), Append(h, now), c)
  <2>1. c <= c
    BY <1>1
  <2> QED BY <1>1, <1>3, <1>4, <2>1, RemembersPop
<1>6. /\ PopOlder(Append(s, now), c) \in Seq(Nat)
      /\ Len(PopOlder(Append(s, now), c)) <= Len(s) + 1
      /\ Len(PopOlder(Append(s, now), c)) > 0 => PopOlder(Append(s, now), c)[1] >= c
  BY <1>1, <1>4, PopOlderDrops
<1>7. Len(PopOlder(Append(s, now), c)) \in Nat
  BY <1>6
<1>8. Len(PopOlder(Append(s, now), c)) <= Threshold
  BY <1>1, <1>2, <1>4, <1>6, <1>7
<1>9. Record(ip) = PopOlder(Append(s, now), c)
  BY DEF Record, s, c
<1> QED BY <1>4, <1>5, <1>6, <1>7, <1>8, <1>9 DEF h, c

\* A failure that does not complete a streak is recorded without missing one.
LEMMA CountStep ==
  ASSUME FirewallInv, CountFailure
  PROVE  FirewallInv'
<1> DEFINE o == Head(channel)
           ip == o.ip
           p == Record(ip)
           g == Append(streak[ip], now)
<1>1. /\ channel \in Seq(Offenses) /\ channel # << >> /\ now \in Nat
      /\ history \in [IPs -> Seq(Nat)] /\ streak \in [IPs -> Seq(Nat)]
      /\ Len(channel) <= ChannelCap /\ ChannelCap \in Nat
      /\ Threshold \in Nat /\ FailWindow \in Nat
  BY TuningAssumption DEF CountFailure, FirewallInv, FirewallTypeOK
<1>2. o \in Offenses /\ ip \in IPs
  BY <1>1, HeadOffense
<1>3. /\ p \in Seq(Nat) /\ g \in Seq(Nat) /\ Remembers(p, g, now - FailWindow)
      /\ Len(p) \in Nat /\ Len(p) <= Threshold
  BY <1>2, RecordRemembers
<1>4. Len(p) # Threshold
  BY DEF CountFailure, ShouldBan
<1>5. /\ now' = now /\ blackhole' = blackhole /\ table' = table
      /\ daemon' = daemon /\ tail' = tail /\ pipe' = pipe
      /\ channel' = Tail(channel)
      /\ history' = [history EXCEPT ![ip] = p]
      /\ streak' = [streak EXCEPT ![ip] = g]
  BY DEF CountFailure, nftVars
<1>6. Tail(channel) \in Seq(Offenses) /\ Len(Tail(channel)) <= ChannelCap
  BY <1>1, HeadOffense, LenProperties
<1>7. /\ streak[ip] \in Seq(Nat) /\ Len(g) = Len(streak[ip]) + 1
      /\ DOMAIN g = 1 .. Len(streak[ip]) + 1 /\ DOMAIN streak[ip] = 1 .. Len(streak[ip])
      /\ Len(streak[ip]) \in Nat /\ g[Len(streak[ip]) + 1] = now
      /\ \A i \in 1 .. Len(streak[ip]) : g[i] = streak[ip][i]
  BY <1>1, <1>2
<1> HIDE DEF o, ip, p, g
<1>8. FirewallTypeOK'
  <2>1. history' \in [IPs -> Seq(Nat)] /\ streak' \in [IPs -> Seq(Nat)]
    BY <1>1, <1>2, <1>3, <1>5
  <2> QED BY <1>5, <1>6, <2>1 DEF FirewallInv, FirewallTypeOK
<1>9. Tracked'
  <2> SUFFICES ASSUME NEW k \in IPs
               PROVE  /\ Remembers(history'[k], streak'[k], now' - FailWindow)
                      /\ Len(history'[k]) < Threshold
    BY DEF Tracked
  <2>1. CASE k = ip
    <3>1. history'[k] = p /\ streak'[k] = g
      BY <1>1, <1>2, <1>5, <2>1
    <3> QED BY <1>1, <1>3, <1>4, <1>5, <3>1
  <2>2. CASE k # ip
    <3>1. history'[k] = history[k] /\ streak'[k] = streak[k]
      BY <1>1, <1>2, <1>5, <2>2
    <3> QED BY <1>5, <3>1 DEF FirewallInv, Tracked
  <2> QED BY <2>1, <2>2
<1>10. StreaksCaught'
  <2> SUFFICES ASSUME NEW k \in IPs, NEW i \in DOMAIN streak'[k],
                      i + Threshold - 1 \in DOMAIN streak'[k]
               PROVE  streak'[k][i + Threshold - 1] > streak'[k][i] + FailWindow
    BY DEF StreaksCaught
  <2>1. CASE k = ip
    <3>1. streak'[k] = g
      BY <1>1, <1>2, <1>5, <2>1
    <3>2. i \in DOMAIN g /\ i + Threshold - 1 \in DOMAIN g /\ i \in Nat
      BY <1>7, <3>1
    <3>3. CASE i + Threshold - 1 \in 1 .. Len(streak[ip])
      <4>1. i \in 1 .. Len(streak[ip])
        <5>1. Threshold >= 1
          BY TuningAssumption
        <5> QED BY <1>1, <1>7, <3>2, <3>3, <5>1
      <4>2. streak[ip][i + Threshold - 1] > streak[ip][i] + FailWindow
        BY <1>2, <1>7, <3>3, <4>1 DEF FirewallInv, StreaksCaught
      <4> QED BY <1>7, <3>1, <3>3, <4>1, <4>2
    <3>4. CASE i + Threshold - 1 = Len(streak[ip]) + 1
      <4>1. i \in 1 .. (Len(g) - Len(p))
        <5>1. Len(p) <= Threshold - 1
          BY ONLY <1>1, <1>3, <1>4
        <5>2. i >= 1
          BY <1>7, <3>2
        <5>3. /\ Len(g) = Len(streak[ip]) + 1 /\ Len(streak[ip]) \in Nat
              /\ Len(p) \in Nat /\ Threshold \in Nat /\ i \in Nat
          BY <1>1, <1>3, <1>7, <3>2
        <5>4. i <= Len(g) - Len(p)
          BY ONLY <3>4, <5>1, <5>3
        <5> QED BY ONLY <5>2, <5>3, <5>4
      <4>2. g[i] < now - FailWindow
        BY <1>3, <4>1 DEF Remembers
      <4>3. g[i] \in Nat
        BY <1>3, <3>2
      <4>4. now > g[i] + FailWindow
        BY <1>1, <4>2, <4>3
      <4>5. g[i + Threshold - 1] = now
        BY <1>7, <3>4
      <4> QED BY <3>1, <4>4, <4>5
    <3> QED BY <1>7, <3>2, <3>3, <3>4
  <2>2. CASE k # ip
    <3>1. streak'[k] = streak[k]
      BY <1>1, <1>2, <1>5, <2>2
    <3> QED BY <3>1 DEF FirewallInv, StreaksCaught
  <2> QED BY <2>1, <2>2
<1>11. NeverBannableSpared'
  BY <1>5 DEF FirewallInv, NeverBannableSpared
<1> QED BY <1>8, <1>9, <1>10, <1>11 DEF FirewallInv

\* A decision to ban resets deque and streak of one address, whatever becomes
\* of the ban.
LEMMA DecideStep ==
  ASSUME FirewallInv, Decide
  PROVE  /\ Head(channel).ip \in IPs
         /\ now' = now /\ now \in Nat
         /\ daemon' \in {"off", "live", "dry"} /\ tail' \in BOOLEAN
         /\ pipe' \in Seq(Lines)
         /\ channel' \in Seq(Offenses) /\ Len(channel') <= ChannelCap
         /\ history' \in [IPs -> Seq(Nat)] /\ streak' \in [IPs -> Seq(Nat)]
         /\ Tracked' /\ StreaksCaught'
<1> DEFINE ip == Head(channel).ip
<1>1. /\ channel \in Seq(Offenses) /\ channel # << >> /\ now \in Nat
      /\ history \in [IPs -> Seq(Nat)] /\ streak \in [IPs -> Seq(Nat)]
      /\ Len(channel) <= ChannelCap /\ ChannelCap \in Nat
      /\ Threshold \in Nat \ {0} /\ FailWindow \in Nat
  BY TuningAssumption DEF Decide, FirewallInv, FirewallTypeOK
<1>2. ip \in IPs /\ Tail(channel) \in Seq(Offenses) /\ Len(Tail(channel)) <= ChannelCap
  BY <1>1, HeadOffense, LenProperties
<1>3. /\ now' = now /\ daemon' = daemon /\ tail' = tail /\ pipe' = pipe
      /\ channel' = Tail(channel)
      /\ history' = [history EXCEPT ![ip] = << >>]
      /\ streak' = [streak EXCEPT ![ip] = << >>]
  BY DEF Decide, Forget
<1> HIDE DEF ip
<1>4. << >> \in Seq(Nat) /\ Len(<< >>) = 0 /\ DOMAIN << >> = {}
  OBVIOUS
<1>5. history' \in [IPs -> Seq(Nat)] /\ streak' \in [IPs -> Seq(Nat)]
  BY <1>1, <1>2, <1>3, <1>4
<1>6. /\ history'[ip] = << >> /\ streak'[ip] = << >>
      /\ \A k \in IPs : k # ip => history'[k] = history[k] /\ streak'[k] = streak[k]
  BY <1>1, <1>2, <1>3
<1>7. now' - FailWindow \in Int
  BY <1>1, <1>3
<1>8. Tracked'
  <2> SUFFICES ASSUME NEW k \in IPs
               PROVE  /\ Remembers(history'[k], streak'[k], now' - FailWindow)
                      /\ Len(history'[k]) < Threshold
    BY DEF Tracked
  <2>1. CASE k = ip
    BY <1>1, <1>4, <1>6, <1>7, <2>1, RemembersNothing
  <2>2. CASE k # ip
    BY <1>3, <1>6, <2>2 DEF FirewallInv, Tracked
  <2> QED BY <2>1, <2>2
<1>9. StreaksCaught'
  <2> SUFFICES ASSUME NEW k \in IPs, NEW i \in DOMAIN streak'[k],
                      i + Threshold - 1 \in DOMAIN streak'[k]
               PROVE  streak'[k][i + Threshold - 1] > streak'[k][i] + FailWindow
    BY DEF StreaksCaught
  <2>1. k # ip
    BY <1>4, <1>6
  <2> QED BY <1>6, <2>1 DEF FirewallInv, StreaksCaught
<1>10. /\ daemon' \in {"off", "live", "dry"} /\ tail' \in BOOLEAN
       /\ pipe' \in Seq(Lines)
  BY <1>3 DEF FirewallInv, FirewallTypeOK
<1> QED BY <1>1, <1>2, <1>3, <1>5, <1>8, <1>9, <1>10 DEF ip

\* A new element of the set keeps the set well-formed and the private
\* addresses out.
LEMMA AddElementStep ==
  ASSUME FirewallInv, NEW ip \in IPs, ip \notin NeverBannable, NEW ticks \in Nat,
         AddElement(ip, ticks)
  PROVE  blackhole' \in [IPs -> Nat] /\ table' \in BOOLEAN /\ NeverBannableSpared'
<1>1. PICK t \in {blackhole[ip], now + ticks} :
        blackhole' = [blackhole EXCEPT ![ip] = t]
  BY DEF AddElement
<1>2. blackhole \in [IPs -> Nat] /\ now \in Nat /\ table' = table /\ table \in BOOLEAN
  BY DEF FirewallInv, FirewallTypeOK, AddElement
<1>3. t \in Nat
  BY <1>1, <1>2
<1>4. \A k \in NeverBannable : blackhole'[k] = blackhole[k]
  BY <1>1, <1>2, AddressAssumption
<1> QED BY <1>1, <1>2, <1>3, <1>4 DEF FirewallInv, NeverBannableSpared

\* What touches neither the clock nor the tracker keeps the tracker's part.
LEMMA TrackerQuiet ==
  ASSUME FirewallInv, UNCHANGED <<now, history, streak>>
  PROVE  /\ Tracked' /\ StreaksCaught' /\ now' \in Nat
         /\ history' \in [IPs -> Seq(Nat)] /\ streak' \in [IPs -> Seq(Nat)]
BY DEF FirewallInv, FirewallTypeOK, Tracked, StreaksCaught

\* What touches neither table nor set keeps their part.
LEMMA TableQuiet ==
  ASSUME FirewallInv, UNCHANGED nftVars
  PROVE  blackhole' \in [IPs -> Nat] /\ table' \in BOOLEAN /\ NeverBannableSpared'
BY DEF FirewallInv, FirewallTypeOK, NeverBannableSpared, nftVars

\* The journal, its tail and the channel.
LEMMA WatchStep ==
  ASSUME FirewallInv,
         \/ \E ip \in IPs, text \in Texts : Logged(ip, text) /\ UNCHANGED now
         \/ Watch \/ SkipProtected
  PROVE  FirewallInv'
<1>1. UNCHANGED <<now, history, streak>> /\ UNCHANGED nftVars /\ daemon' = daemon
  BY DEF Logged, Watch, WatchReads, TailExits, TailStarts, SkipProtected
<1>2. /\ channel \in Seq(Offenses) /\ Len(channel) <= ChannelCap
      /\ pipe \in Seq(Lines) /\ tail \in BOOLEAN /\ ChannelCap \in Nat
      /\ daemon \in {"off", "live", "dry"}
  BY TuningAssumption DEF FirewallInv, FirewallTypeOK
<1>3. /\ channel' \in Seq(Offenses) /\ Len(channel') <= ChannelCap
      /\ pipe' \in Seq(Lines) /\ tail' \in BOOLEAN
  <2>1. ASSUME NEW ip \in IPs, NEW text \in Texts, Logged(ip, text) PROVE <1>3!:
    <3> DEFINE line == [ip |-> ip, text |-> text]
    <3>1. line \in Lines
      BY DEF Lines
    <3>2. channel' = channel /\ tail' = tail /\ pipe' \in {pipe, Append(pipe, line)}
      BY <2>1 DEF Logged
    <3> HIDE DEF line
    <3> QED BY <1>2, <3>1, <3>2, AppendProperties
  <2>2. CASE WatchReads
    <3>1. pipe # << >> /\ pipe' = Tail(pipe) /\ tail' = tail
      BY <2>2 DEF WatchReads
    <3>2. pipe' \in Seq(Lines) /\ Head(pipe) \in Lines
      BY <1>2, <3>1, HeadTailProperties
    <3> DEFINE o == Extract(Head(pipe))
    <3>3. o \in Offenses
      <4> DEFINE line == Head(pipe)
      <4>1. line \in Lines
        BY <3>2
      <4> HIDE DEF line
      <4>2. line.ip \in IPs
        BY <4>1 DEF Lines
      <4>3. Extract(line) \in Offenses
        BY <4>2 DEF Extract, Offenses
      <4> QED BY <4>3 DEF line
    <3>4. \/ channel' = channel
          \/ Len(channel) < ChannelCap /\ channel' = Append(channel, o)
      BY <2>2 DEF WatchReads
    <3> HIDE DEF o
    <3>5. Append(channel, o) \in Seq(Offenses) /\ Len(Append(channel, o)) = Len(channel) + 1
      BY <1>2, <3>3, AppendProperties
    <3>6. Len(channel) \in Nat
      BY <1>2, LenProperties
    <3>7. channel' \in Seq(Offenses) /\ Len(channel') <= ChannelCap
      <4>1. CASE channel' = channel
        BY <1>2, <4>1
      <4>2. CASE Len(channel) < ChannelCap /\ channel' = Append(channel, o)
        <5>1. Len(channel') = Len(channel) + 1 /\ channel' \in Seq(Offenses)
          BY <4>2, <3>5
        <5>2. Len(channel) + 1 <= ChannelCap
          BY <1>2, <3>6, <4>2
        <5> QED BY <5>1, <5>2
      <4> QED BY <3>4, <4>1, <4>2
    <3> QED BY <1>2, <3>1, <3>2, <3>7
  <2>3. CASE TailExits \/ TailStarts
    BY <1>2, <2>3 DEF TailExits, TailStarts
  <2>4. CASE SkipProtected
    <3>1. channel # << >> /\ channel' = Tail(channel) /\ pipe' = pipe /\ tail' = tail
      BY <2>4 DEF SkipProtected
    <3>2. Len(channel) \in Nat
      BY <1>2, LenProperties
    <3> QED BY <1>2, <3>1, <3>2, HeadOffense
  <2> QED BY <2>1, <2>2, <2>3, <2>4 DEF Watch
<1> QED BY <1>1, <1>2, <1>3, TrackerQuiet, TableQuiet DEF FirewallInv, FirewallTypeOK

\* A ban, a ban that fails and a dry run.
LEMMA BanStep ==
  ASSUME FirewallInv, Ban \/ BanFails \/ DryRunBan
  PROVE  FirewallInv'
<1>1. Decide /\ Head(channel).ip \notin NeverBannable
  BY DEF Ban, BanFails, DryRunBan, Decide, Protected
<1>2. blackhole' \in [IPs -> Nat] /\ table' \in BOOLEAN /\ NeverBannableSpared'
  <2>1. CASE Ban
    <3>1. Head(channel).ip \in IPs /\ AddElement(Head(channel).ip, BanTime) /\ BanTime \in Nat
      BY <1>1, <2>1, DecideStep, TuningAssumption DEF Ban
    <3> QED BY <1>1, <3>1, AddElementStep
  <2>2. CASE BanFails \/ DryRunBan
    BY <2>2, TableQuiet DEF BanFails, DryRunBan
  <2> QED BY <2>1, <2>2
<1> QED BY <1>1, <1>2, DecideStep DEF FirewallInv, FirewallTypeOK

\* Stopping the daemon forgets every time it had recorded.
LEMMA StopStep ==
  ASSUME FirewallInv, DaemonStops
  PROVE  FirewallInv'
<1>1. /\ now' = now /\ now \in Nat /\ daemon' = "off" /\ tail' = FALSE
      /\ pipe' = << >> /\ channel' = << >> /\ UNCHANGED nftVars
      /\ history' = [ip \in IPs |-> << >>] /\ streak' = [ip \in IPs |-> << >>]
  BY DEF FirewallInv, FirewallTypeOK, DaemonStops, NoTimes
<1>2. /\ << >> \in Seq(Nat) /\ << >> \in Seq(Lines) /\ << >> \in Seq(Offenses)
      /\ Len(<< >>) = 0 /\ DOMAIN << >> = {}
  OBVIOUS
<1>3. /\ history' \in [IPs -> Seq(Nat)] /\ streak' \in [IPs -> Seq(Nat)]
      /\ \A ip \in IPs : history'[ip] = << >> /\ streak'[ip] = << >>
  BY <1>1, <1>2
<1>4. now' - FailWindow \in Int /\ Threshold \in Nat \ {0} /\ ChannelCap \in Nat
  BY <1>1, TuningAssumption
<1>5. Tracked'
  BY <1>2, <1>3, <1>4, RemembersNothing DEF Tracked
<1>6. StreaksCaught'
  BY <1>2, <1>3 DEF StreaksCaught
<1>7. FirewallTypeOK'
  <2>1. Len(channel') <= ChannelCap /\ channel' \in Seq(Offenses) /\ pipe' \in Seq(Lines)
    BY <1>1, <1>2, <1>4
  <2> QED BY <1>1, <1>3, <2>1, TableQuiet DEF FirewallTypeOK
<1> QED BY <1>1, <1>5, <1>6, <1>7, TableQuiet DEF FirewallInv

\* The admin's commands and the start of the daemon leave the tracker alone.
LEMMA AdminStep ==
  ASSUME FirewallInv, Admin
  PROVE  FirewallInv'
<1>1. ASSUME UNCHANGED <<now, tail, pipe, channel, history, streak>>,
             daemon' \in {"off", "live", "dry"},
             blackhole' \in [IPs -> Nat] /\ table' \in BOOLEAN, NeverBannableSpared'
      PROVE  FirewallInv'
  <2>1. /\ tail \in BOOLEAN /\ pipe \in Seq(Lines)
        /\ channel \in Seq(Offenses) /\ Len(channel) <= ChannelCap
    BY DEF FirewallInv, FirewallTypeOK
  <2> QED BY <1>1, <2>1, TrackerQuiet DEF FirewallInv, FirewallTypeOK
<1>2. /\ daemon \in {"off", "live", "dry"} /\ table \in BOOLEAN
      /\ blackhole \in [IPs -> Nat] /\ \A ip \in NeverBannable : blackhole[ip] = 0
  BY DEF FirewallInv, FirewallTypeOK, NeverBannableSpared
<1>3. ASSUME NEW mode \in {"live", "dry"}, DaemonStarts(mode) PROVE FirewallInv'
  <2>1. /\ UNCHANGED <<now, tail, pipe, channel, history, streak>>
        /\ daemon' = mode /\ blackhole' = blackhole /\ table' \in BOOLEAN
    BY <1>2, <1>3 DEF DaemonStarts
  <2>2. NeverBannableSpared'
    BY <1>2, <2>1 DEF NeverBannableSpared
  <2> QED BY <1>1, <1>2, <2>1, <2>2
<1>4. CASE Setup
  <2>1. NeverBannableSpared'
    BY <1>2, <1>4 DEF Setup, NeverBannableSpared
  <2> QED BY <1>1, <1>2, <1>4, <2>1 DEF Setup, daemonVars
<1>5. CASE Teardown
  <2>1. blackhole' \in [IPs -> Nat] /\ NeverBannableSpared'
    BY <1>5, AddressAssumption DEF Teardown, NeverBannableSpared
  <2> QED BY <1>1, <1>2, <1>5, <2>1 DEF Teardown, daemonVars
<1>6. ASSUME NEW ip \in IPs, TestBan(ip) PROVE FirewallInv'
  <2>1. ip \notin NeverBannable /\ AddElement(ip, TestBanTime) /\ TestBanTime \in Nat
    BY <1>6, TuningAssumption DEF TestBan
  <2>2. blackhole' \in [IPs -> Nat] /\ table' \in BOOLEAN /\ NeverBannableSpared'
    BY <2>1, AddElementStep
  <2> QED BY <1>1, <1>2, <1>6, <2>2 DEF TestBan, daemonVars
<1>7. ASSUME NEW ip \in IPs, Unban(ip) PROVE FirewallInv'
  <2>1. blackhole' = [blackhole EXCEPT ![ip] = 0] /\ table' = table
    BY <1>7 DEF Unban
  <2>2. blackhole' \in [IPs -> Nat] /\ NeverBannableSpared'
    BY <1>2, <2>1, AddressAssumption DEF NeverBannableSpared
  <2> QED BY <1>1, <1>2, <1>7, <2>1, <2>2 DEF Unban, daemonVars
<1> QED BY <1>3, <1>4, <1>5, <1>6, <1>7, StopStep DEF Admin

\* As time passes, what was outside the window stays outside.
LEMMA TickStep ==
  ASSUME FirewallInv, FirewallTick
  PROVE  FirewallInv'
<1>1. /\ now' = now + 1 /\ now \in Nat /\ UNCHANGED daemonVars /\ UNCHANGED nftVars
      /\ FailWindow \in Nat
      /\ history \in [IPs -> Seq(Nat)] /\ streak \in [IPs -> Seq(Nat)]
  BY TuningAssumption DEF FirewallInv, FirewallTypeOK, FirewallTick
<1>2. ASSUME NEW ip \in IPs
      PROVE  Remembers(history[ip], streak[ip], now' - FailWindow)
  <2>1. Remembers(history[ip], streak[ip], now - FailWindow)
    BY DEF FirewallInv, Tracked
  <2> DEFINE h == streak[ip]
             n == Len(streak[ip]) - Len(history[ip])
  <2>2. \A i \in 1 .. n : h[i] < now - FailWindow
    BY <2>1 DEF Remembers
  <2>3. \A i \in 1 .. n : h[i] \in Nat
    <3>1. history[ip] \in Seq(Nat) /\ streak[ip] \in Seq(Nat)
      BY <1>1
    <3>2. Len(history[ip]) \in Nat /\ Len(h) \in Nat /\ \A i \in 1 .. Len(h) : h[i] \in Nat
      BY <3>1
    <3> QED BY <3>2
  <2> HIDE DEF h, n
  <2>4. \A i \in 1 .. n : h[i] < now' - FailWindow
    BY <1>1, <2>2, <2>3
  <2> QED BY <2>1, <2>4 DEF Remembers, h, n
<1>3. Tracked' /\ StreaksCaught'
  BY <1>1, <1>2 DEF FirewallInv, Tracked, StreaksCaught, daemonVars
<1>4. now' \in Nat
  BY <1>1
<1> QED BY <1>1, <1>3, <1>4, TableQuiet DEF FirewallInv, FirewallTypeOK, daemonVars

\* Every step of the daemon, its tail, the admin and the clock keeps it.
LEMMA FirewallNextInv == FirewallInv /\ [FirewallNext]_firewallVars => FirewallInv'
<1> SUFFICES ASSUME FirewallInv, [FirewallNext]_firewallVars PROVE FirewallInv'
  OBVIOUS
<1>1. CASE UNCHANGED firewallVars
  <2>1. UNCHANGED <<now, history, streak>> /\ UNCHANGED nftVars
        /\ UNCHANGED <<daemon, tail, pipe, channel>>
    BY <1>1 DEF firewallVars, daemonVars, nftVars
  <2> QED BY <2>1, TrackerQuiet, TableQuiet DEF FirewallInv, FirewallTypeOK
<1>2. CASE FirewallNext
  BY <1>2, WatchStep, CountStep, BanStep, AdminStep, TickStep DEF FirewallNext, Handle
<1> QED BY <1>1, <1>2

-----------------------------------------------------------------------------
\* Every value keeps its type, and the channel its capacity.
THEOREM FirewallTypeCorrect == FirewallSpec => []FirewallTypeOK
<1>1. FirewallInv => FirewallTypeOK
  BY DEF FirewallInv
<1> QED BY FirewallInitInv, FirewallNextInv, <1>1, PTL DEF FirewallSpec

\* FailureTracker::record misses no streak, although it tests for equality:
\* every path through run_daemon that reaches the threshold also forgets.
THEOREM StreaksCaughtAlways == FirewallSpec => []StreaksCaught
<1>1. FirewallInv => StreaksCaught
  BY DEF FirewallInv
<1> QED BY FirewallInitInv, FirewallNextInv, <1>1, PTL DEF FirewallSpec

\* No loopback or private address is ever in the set, by daemon or by command.
THEOREM NeverBannableSparedAlways == FirewallSpec => []NeverBannableSpared
<1>1. FirewallInv => NeverBannableSpared
  BY DEF FirewallInv
<1> QED BY FirewallInitInv, FirewallNextInv, <1>1, PTL DEF FirewallSpec

\* Only Ban changes channel and set together.
LEMMA BanChangesBoth ==
  ASSUME FirewallNext, channel' # channel, blackhole' # blackhole
  PROVE  Decide
BY DEF FirewallNext, Logged, Watch, WatchReads, TailExits, TailStarts, Handle,
       SkipProtected, CountFailure, Ban, BanFails, DryRunBan, Admin, DaemonStarts,
       DaemonStops, Setup, Teardown, TestBan, Unban, FirewallTick, daemonVars, nftVars

\* The daemon bans only for a rate-limit rejection or a whole streak within
\* one window, whatever was pruned, forgotten or lost before.
THEOREM BansEarnedAlways == FirewallSpec => BansEarned
<1> DEFINE A == channel' # channel /\ blackhole' # blackhole => Earned(Head(channel))
<1>1. FirewallInv /\ [FirewallNext]_firewallVars => [A]_firewallVars
  <2> SUFFICES ASSUME FirewallInv, FirewallNext, channel' # channel,
                      blackhole' # blackhole
               PROVE  Earned(Head(channel))
    OBVIOUS
  <2> DEFINE o == Head(channel)
             ip == Head(channel).ip
             p == Record(ip)
             g == Append(streak[ip], now)
  <2>1. Decide
    BY BanChangesBoth
  <2>2. ip \in IPs /\ ip \notin Protected /\ ShouldBan(o)
    BY <2>1, DecideStep DEF Decide
  <2>3. CASE o.offense = "RateLimited"
    BY <2>2, <2>3 DEF Earned
  <2>4. CASE Len(p) = Threshold
    <3>1. /\ Remembers(p, g, now - FailWindow) /\ p \in Seq(Nat) /\ g \in Seq(Nat)
          /\ Len(p) > 0 => p[1] >= now - FailWindow
      BY <2>2, RecordRemembers
    <3>2. Threshold \in Nat /\ Threshold >= 1 /\ now \in Nat /\ FailWindow \in Nat
      BY TuningAssumption DEF FirewallInv, FirewallTypeOK
    <3> HIDE DEF p, g
    <3>3. /\ Len(p) <= Len(g) /\ 1 \in 1 .. Len(p) /\ Len(g) \in Nat
          /\ p[1] = g[Len(g) - Len(p) + 1] /\ p[1] \in Nat
      BY <2>4, <3>1, <3>2 DEF Remembers
    <3>4. p[1] >= now - FailWindow
      BY <2>4, <3>1, <3>2
    <3>5. Len(g) >= Threshold /\ g[Len(g) - Threshold + 1] + FailWindow >= now
      BY <2>4, <3>2, <3>3, <3>4
    <3> QED BY <2>2, <3>5 DEF Earned, g
  <2> QED BY <2>2, <2>3, <2>4 DEF ShouldBan
<1> QED BY FirewallInitInv, FirewallNextInv, <1>1, PTL DEF FirewallSpec, BansEarned

-----------------------------------------------------------------------------
(***************************************************************************)
(* GuardedServer.  How often something occurs in a sequence.               *)
(***************************************************************************)
Places(s, x) == {j \in DOMAIN s : s[j] = x}
CountOf(s, x) == Cardinality(Places(s, x))

LEMMA PlacesFinite ==
  ASSUME NEW S, NEW s \in Seq(S), NEW x
  PROVE  IsFiniteSet(Places(s, x)) /\ CountOf(s, x) \in Nat
<1>1. Len(s) \in Nat /\ DOMAIN s = 1..Len(s)
  OBVIOUS
<1>2. IsFiniteSet(1..Len(s))
  BY <1>1, FS_Interval
<1>3. Places(s, x) \in SUBSET (1..Len(s))
  BY <1>1 DEF Places
<1>4. IsFiniteSet(Places(s, x))
  BY <1>2, <1>3, FS_Subset
<1> QED BY <1>4, FS_CardinalityType DEF CountOf

LEMMA CountNone ==
  ASSUME NEW x
  PROVE  CountOf(<<>>, x) = 0
<1>1. Places(<<>>, x) = {}
  BY DEF Places
<1> QED BY <1>1, FS_EmptySet DEF CountOf

LEMMA CountAppend ==
  ASSUME NEW S, NEW s \in Seq(S), NEW y \in S, NEW x
  PROVE  CountOf(Append(s, y), x) = IF y = x THEN CountOf(s, x) + 1 ELSE CountOf(s, x)
<1> DEFINE n == Len(s) + 1
<1>1. /\ Len(s) \in Nat /\ DOMAIN s = 1..Len(s) /\ DOMAIN Append(s, y) = 1..n
      /\ Append(s, y)[n] = y /\ \A j \in 1..Len(s) : Append(s, y)[j] = s[j]
  OBVIOUS
<1>2. n \notin Places(s, x) /\ IsFiniteSet(Places(s, x))
  <2>1. n \notin 1..Len(s)
    BY <1>1
  <2> QED BY <1>1, <2>1, PlacesFinite DEF Places
<1>3. CASE y = x
  <2>1. Places(Append(s, y), x) = Places(s, x) \cup {n}
    BY <1>1, <1>3 DEF Places
  <2> QED BY <1>2, <1>3, <2>1, FS_AddElement DEF CountOf
<1>4. CASE y # x
  <2>1. Places(Append(s, y), x) = Places(s, x)
    BY <1>1, <1>4 DEF Places
  <2> QED BY <1>4, <2>1 DEF CountOf
<1> QED BY <1>3, <1>4

LEMMA CountTail ==
  ASSUME NEW S, NEW s \in Seq(S), s # <<>>, NEW x
  PROVE  CountOf(Tail(s), x) = IF Head(s) = x THEN CountOf(s, x) - 1 ELSE CountOf(s, x)
<1> DEFINE A == Places(s, x)
           B == Places(Tail(s), x)
           f == [j \in B |-> j + 1]
<1>1. /\ Len(s) \in Nat \ {0} /\ DOMAIN s = 1..Len(s) /\ Head(s) = s[1]
      /\ DOMAIN Tail(s) = 1..(Len(s) - 1) /\ \A j \in 1..(Len(s) - 1) : Tail(s)[j] = s[j + 1]
  OBVIOUS
<1>2. IsFiniteSet(A)
  BY PlacesFinite
<1>3. Tail(s) \in Seq(S)
  OBVIOUS
<1>4. IsFiniteSet(B)
  BY <1>3, PlacesFinite
<1>5. ASSUME NEW j \in B PROVE j + 1 \in A \ {1} /\ j \in Nat
  BY <1>1 DEF Places
<1>6. ASSUME NEW k \in A \ {1} PROVE k - 1 \in B /\ (k - 1) + 1 = k
  BY <1>1 DEF Places
<1>7. (1 \in A) <=> Head(s) = x
  BY <1>1 DEF Places
<1> HIDE DEF A, B
<1>8. f \in Bijection(B, A \ {1})
  <2>1. f \in [B -> A \ {1}]
    BY <1>5
  <2>2. \A i, j \in B : f[i] = f[j] => i = j
    BY <1>5
  <2>3. \A k \in A \ {1} : \E j \in B : f[j] = k
    BY <1>6
  <2> QED BY <2>1, <2>2, <2>3 DEF Bijection, Injection, Surjection, IsInjective
<1>9. Cardinality(A \ {1}) = Cardinality(B)
  BY <1>4, <1>8, FS_Bijection DEF ExistsBijection
<1>10. Cardinality(A \ {1}) = IF 1 \in A THEN Cardinality(A) - 1 ELSE Cardinality(A)
  BY <1>2, FS_RemoveElement
<1> QED BY <1>7, <1>9, <1>10 DEF CountOf, A, B

LEMMA TagCount ==
  ASSUME NEW A, IsFiniteSet(A), NEW t
  PROVE  LET T == {<<t, i>> : i \in A} IN IsFiniteSet(T) /\ Cardinality(T) = Cardinality(A)
<1> DEFINE T == {<<t, i>> : i \in A}
           f == [i \in A |-> <<t, i>>]
<1>1. f \in Bijection(A, T)
  <2>1. f \in [A -> T]
    OBVIOUS
  <2>2. \A i, j \in A : f[i] = f[j] => i = j
    OBVIOUS
  <2>3. \A y \in T : \E i \in A : f[i] = y
    OBVIOUS
  <2> QED BY <2>1, <2>2, <2>3 DEF Bijection, Injection, Surjection, IsInjective
<1> QED BY <1>1, FS_Bijection DEF ExistsBijection

FailedLine(ip) == [ip |-> ip, text |-> "failed"]
FailedOffense(ip) == [ip |-> ip, offense |-> "HandshakeFailed"]

\* What is in flight is counted in the pipe and in the channel.
LEMMA InFlightCount ==
  ASSUME FirewallTypeOK, NEW ip \in IPs
  PROVE  Cardinality(InFlight(ip)) = CountOf(pipe, FailedLine(ip)) + CountOf(channel, FailedOffense(ip))
<1> DEFINE P == Places(pipe, FailedLine(ip))
           C == Places(channel, FailedOffense(ip))
           TP == {<<"pipe", i>> : i \in P}
           TC == {<<"channel", i>> : i \in C}
<1>1. IsFiniteSet(P) /\ IsFiniteSet(C)
  BY PlacesFinite DEF FirewallTypeOK
<1>2. InFlight(ip) = TP \cup TC
  BY DEF InFlight, Places, FailedLine, FailedOffense
<1> HIDE DEF P, C
<1>3. IsFiniteSet(TP) /\ Cardinality(TP) = Cardinality(P)
  BY <1>1, TagCount
<1>4. IsFiniteSet(TC) /\ Cardinality(TC) = Cardinality(C)
  BY <1>1, TagCount
<1>5. TP \cap TC = {}
  OBVIOUS
<1> HIDE DEF TP, TC
<1>6. Cardinality(TP \cup TC) = Cardinality(TP) + Cardinality(TC) - Cardinality({})
  BY <1>3, <1>4, <1>5, FS_Union
<1>7. Cardinality(P) \in Nat /\ Cardinality(C) \in Nat
  BY <1>1, FS_CardinalityType
<1> QED BY <1>2, <1>3, <1>4, <1>6, <1>7, FS_EmptySet DEF CountOf, P, C
-----------------------------------------------------------------------------
(***************************************************************************)
(* The two components in the composed server.                              *)
(***************************************************************************)
\* An accept loop that is past the window holds an address; a control
\* handshake is one of the running ones.
ServerInv ==
  /\ now \in Nat
  /\ loop \in [Loops -> [ip : IPs \cup {NoIP}, nth : Nat]]
  /\ \A a \in Loops : loop[a] = AtAccept \/ loop[a].ip \in IPs
  /\ admitted \in [IPs -> Seq(Nat)]
  /\ shakes \in SUBSET (IPs \X Nat)
  /\ onControl \subseteq shakes /\ IsFiniteSet(onControl)

\* The steps of the daemon and of the admin take no time.
LEMMA FirewallStepsTimeless ==
  ASSUME Watch \/ Handle \/ Admin
  PROVE  now' = now
<1>1. CASE Watch
  BY <1>1 DEF Watch, WatchReads, TailExits, TailStarts
<1>2. CASE Handle
  BY <1>2 DEF Handle, SkipProtected, CountFailure, Ban, BanFails, DryRunBan, Decide
<1>3. CASE Admin
  BY <1>3 DEF Admin, DaemonStarts, DaemonStops, Setup, Teardown, TestBan, Unban
<1> QED BY <1>1, <1>2, <1>3

LEMMA ServerInitInv == GuardedInit => ServerInv
<1> SUFFICES ASSUME GuardedInit PROVE ServerInv
  OBVIOUS
<1>1. /\ now = 0 /\ loop = [a \in Loops |-> AtAccept]
      /\ admitted = [ip \in IPs |-> << >>] /\ shakes = {} /\ onControl = {}
  BY DEF GuardedInit, LimiterInit
<1>2. AtAccept \in [ip : IPs \cup {NoIP}, nth : Nat]
  BY DEF AtAccept
<1> QED BY <1>1, <1>2, FS_EmptySet DEF ServerInv

\* What a handshake that ends leaves of the running ones.
LEMMA ServerEndsInv ==
  ASSUME ServerInv, NEW s \in shakes, HandshakeEnds(s), onControl' = onControl \ {s}
  PROVE  ServerInv'
<1>1. shakes' = shakes \ {s} /\ UNCHANGED <<now, admitted, loop>>
  BY DEF HandshakeEnds
<1>2. IsFiniteSet(onControl')
  BY FS_RemoveElement DEF ServerInv
<1> QED BY <1>1, <1>2 DEF ServerInv

LEMMA ServerStepInv == ServerInv /\ [GuardedNext]_guardedVars => ServerInv'
<1> SUFFICES ASSUME ServerInv, [GuardedNext]_guardedVars PROVE ServerInv'
  OBVIOUS
<1> USE DEF ServerInv
<1>1. ASSUME NEW a \in Loops, NEW ip \in IPs, Admit(a, ip)
      PROVE  ServerInv'
  <2> DEFINE r == [ip |-> ip, nth |-> Len(admitted[ip]) + 1]
  <2>1. /\ admitted' = [admitted EXCEPT ![ip] = Append(admitted[ip], now)]
        /\ loop' = [loop EXCEPT ![a] = r]
        /\ UNCHANGED <<now, shakes, onControl>>
    BY <1>1 DEF Admit, AdmitAttempt
  <2>2. Append(admitted[ip], now) \in Seq(Nat) /\ Len(admitted[ip]) + 1 \in Nat
    OBVIOUS
  <2>3. r \in [ip : IPs \cup {NoIP}, nth : Nat] /\ r.ip \in IPs
    BY <2>2
  <2> HIDE DEF r
  <2> QED BY <2>1, <2>2, <2>3
<1>2. ASSUME NEW a \in Loops, NEW ip \in IPs, RejectByWindow(a, ip)
      PROVE  ServerInv'
  BY <1>2 DEF RejectByWindow, WindowRefuses
<1>3. AtAccept \in [ip : IPs \cup {NoIP}, nth : Nat]
  BY DEF AtAccept
<1>4. ASSUME NEW a \in Loops, RejectByCap(a)
      PROVE  ServerInv'
  <2>1. loop' = [loop EXCEPT ![a] = AtAccept] /\ UNCHANGED <<now, admitted, shakes, onControl>>
    BY <1>4 DEF RejectByCap, CapRefuses
  <2> QED BY <1>3, <2>1
<1>5. ASSUME NEW a \in Loops, StartHandshake(a)
      PROVE  ServerInv'
  <2> DEFINE x == <<loop[a].ip, loop[a].nth>>
  <2>1. /\ loop[a] # AtAccept
        /\ loop' = [loop EXCEPT ![a] = AtAccept]
        /\ shakes' = shakes \cup {x} /\ UNCHANGED <<now, admitted>>
        /\ onControl' = IF a = "control" THEN onControl \cup (shakes' \ shakes) ELSE onControl
    BY <1>5 DEF StartHandshake, TakePermit
  <2>2. x \in IPs \X Nat
    <3>1. loop[a].ip \in IPs /\ loop[a].nth \in Nat
      BY <2>1
    <3> QED BY <3>1
  <2> HIDE DEF x
  <2>3. onControl' = onControl \/ onControl' = onControl \cup {x}
    BY <2>1
  <2>4. IsFiniteSet(onControl')
    <3>1. IsFiniteSet(onControl \cup {x})
      BY FS_AddElement
    <3> QED BY <2>3, <3>1
  <2> QED BY <1>3, <2>1, <2>2, <2>3, <2>4
<1>6. ASSUME NEW s \in shakes,
             HandshakeQuiet(s) \/ ControlNoMatch(s) \/ ControlIoError(s) \/ ControlTimesOut(s)
      PROVE  ServerInv'
  <2>1. HandshakeEnds(s) /\ onControl' = onControl \ {s}
    BY <1>6 DEF HandshakeQuiet, ControlNoMatch, ControlIoError, ControlTimesOut, ControlEndsWith
  <2> QED BY <2>1, ServerEndsInv
<1>7. CASE GuardedTick
  BY <1>7 DEF GuardedTick, Tick
<1>8. CASE (Watch \/ Handle \/ Admin) /\ UNCHANGED serverVars
  BY <1>8, FirewallStepsTimeless DEF serverVars
<1>9. CASE UNCHANGED guardedVars
  BY <1>9 DEF guardedVars, firewallVars, serverVars
<1> QED BY <1>1, <1>2, <1>4, <1>5, <1>6, <1>7, <1>8, <1>9 DEF GuardedNext, ServerStep

\* A step of the composed server is one of its firewall, or none: the server
\* prints a line, the clock ticks, or the daemon or the admin does something.
LEMMA GuardedStepIsFirewall ==
  ServerInv /\ [GuardedNext]_guardedVars => [FirewallNext]_firewallVars
<1> SUFFICES ASSUME ServerInv, [GuardedNext]_guardedVars PROVE [FirewallNext]_firewallVars
  OBVIOUS
<1>1. ASSUME NEW ip \in IPs, NEW text \in Texts, Logged(ip, text), now' = now
      PROVE  FirewallNext
  BY <1>1 DEF FirewallNext
<1>2. ASSUME NEW a \in Loops, NEW ip \in IPs, Admit(a, ip)
      PROVE  UNCHANGED firewallVars
  BY <1>2 DEF Admit, AdmitAttempt, firewallVars
<1>3. ASSUME NEW a \in Loops, NEW ip \in IPs, RejectByWindow(a, ip)
      PROVE  FirewallNext
  BY <1>1, <1>3 DEF RejectByWindow, WindowRefuses, Texts
<1>4. ASSUME NEW a \in Loops, RejectByCap(a)
      PROVE  FirewallNext
  <2>1. loop[a].ip \in IPs /\ Logged(loop[a].ip, "rejected") /\ now' = now
    BY <1>4 DEF RejectByCap, CapRefuses, ServerInv
  <2> QED BY <1>1, <2>1 DEF Texts
<1>5. ASSUME NEW a \in Loops, StartHandshake(a)
      PROVE  UNCHANGED firewallVars
  BY <1>5 DEF StartHandshake, TakePermit, firewallVars
<1>6. ASSUME NEW s \in shakes, HandshakeQuiet(s)
      PROVE  UNCHANGED firewallVars
  BY <1>6 DEF HandshakeQuiet, HandshakeEnds, firewallVars
<1>7. ASSUME NEW s \in shakes, ControlNoMatch(s) \/ ControlIoError(s) \/ ControlTimesOut(s)
      PROVE  FirewallNext
  <2>1. s[1] \in IPs
    BY DEF ServerInv
  <2>2. now' = now /\ (Logged(s[1], "failed") \/ Logged(s[1], "other"))
    BY <1>7 DEF ControlNoMatch, ControlIoError, ControlTimesOut, ControlEndsWith,
       HandshakeEnds
  <2> QED BY <1>1, <2>1, <2>2 DEF Texts
<1>8. CASE GuardedTick
  BY <1>8 DEF GuardedTick, Tick, FirewallTick, FirewallNext
<1>9. CASE Watch \/ Handle \/ Admin
  BY <1>9 DEF FirewallNext
<1>10. CASE UNCHANGED guardedVars
  BY <1>10 DEF guardedVars
<1> QED BY <1>2, <1>3, <1>4, <1>5, <1>6, <1>7, <1>8, <1>9, <1>10 DEF GuardedNext, ServerStep

\* ... and one of its limiter, or none.
LEMMA GuardedStepIsLimiter ==
  [GuardedNext]_guardedVars => [LimiterNext]_(limiterVars)
<1> SUFFICES ASSUME [GuardedNext]_guardedVars
             PROVE  [LimiterNext]_(limiterVars)
  OBVIOUS
<1>1. ASSUME NEW a \in Loops, NEW ip \in IPs, Admit(a, ip) \/ RejectByWindow(a, ip)
      PROVE  LimiterNext
  BY <1>1 DEF Admit, RejectByWindow, LimiterNext, LoopStep
<1>2. ASSUME NEW a \in Loops, RejectByCap(a) \/ StartHandshake(a)
      PROVE  LimiterNext
  BY <1>2 DEF RejectByCap, StartHandshake, LimiterNext, LoopStep
<1>3. ASSUME NEW s \in shakes,
             HandshakeQuiet(s) \/ ControlNoMatch(s) \/ ControlIoError(s) \/ ControlTimesOut(s)
      PROVE  LimiterNext
  BY <1>3 DEF HandshakeQuiet, ControlNoMatch, ControlIoError, ControlTimesOut,
     ControlEndsWith, LimiterNext
<1>4. CASE GuardedTick
  BY <1>4 DEF GuardedTick, LimiterNext
<1>5. CASE (Watch \/ Handle \/ Admin) /\ UNCHANGED serverVars
  BY <1>5, FirewallStepsTimeless DEF serverVars, limiterVars
<1>6. CASE UNCHANGED guardedVars
  BY <1>6 DEF guardedVars, firewallVars, serverVars, limiterVars
<1> QED BY <1>1, <1>2, <1>3, <1>4, <1>5, <1>6 DEF GuardedNext, ServerStep

LEMMA ServerInvAlways == GuardedSpec => []ServerInv
BY ServerInitInv, ServerStepInv, PTL DEF GuardedSpec

\* The guarded server implements the firewall's specification: whatever the
\* accept loops do, the firewall's theorems hold of the composition.
THEOREM GuardedIsFirewall == GuardedSpec => FirewallSpec
<1>1. GuardedInit => FirewallInit
  BY DEF GuardedInit
<1> QED BY <1>1, ServerInvAlways, GuardedStepIsFirewall, PTL DEF GuardedSpec, FirewallSpec

\* The guarded server implements the limiter's specification: whatever the
\* firewall bans, the limiter's theorems hold of the composition.
THEOREM GuardedIsLimiter == GuardedSpec => LimiterSpec
<1>1. GuardedInit => LimiterInit
  BY DEF GuardedInit
<1> QED BY <1>1, GuardedStepIsLimiter, PTL DEF GuardedSpec, LimiterSpec
-----------------------------------------------------------------------------
(***************************************************************************)
(* What an address has been admitted for pays for each of its failures     *)
(* once.  An attempt of the control loop that waits for its permit will    *)
(* pay for a failure too.                                                  *)
(***************************************************************************)
AtControl(ip) == {s \in onControl : s[1] = ip}
Waiting(ip) == IF loop["control"] # AtAccept /\ loop["control"].ip = ip THEN 1 ELSE 0

Claims(ip) == CountOf(pipe, FailedLine(ip)) + CountOf(channel, FailedOffense(ip))
                + Cardinality(AtControl(ip)) + Waiting(ip)

ClaimsPaid == \A ip \in IPs : Len(history[ip]) + Claims(ip) <= Len(admitted[ip])

GuardedInv == FirewallInv /\ ServerInv /\ ClaimsPaid

ClaimTyped(ip) ==
  /\ CountOf(pipe, FailedLine(ip)) \in Nat /\ CountOf(channel, FailedOffense(ip)) \in Nat
  /\ IsFiniteSet(AtControl(ip)) /\ Cardinality(AtControl(ip)) \in Nat
  /\ Waiting(ip) \in Nat
  /\ Len(history[ip]) \in Nat /\ Len(admitted[ip]) \in Nat

ClaimsTyped == \A ip \in IPs : ClaimTyped(ip)

LEMMA ClaimTypes == FirewallTypeOK /\ ServerInv => ClaimsTyped
<1> SUFFICES ASSUME FirewallTypeOK, ServerInv, NEW ip \in IPs
             PROVE  ClaimTyped(ip)
  BY DEF ClaimsTyped
<1>1. CountOf(pipe, FailedLine(ip)) \in Nat /\ CountOf(channel, FailedOffense(ip)) \in Nat
  BY PlacesFinite DEF FirewallTypeOK
<1>2. IsFiniteSet(AtControl(ip)) /\ Cardinality(AtControl(ip)) \in Nat
  <2>1. AtControl(ip) \in SUBSET onControl
    BY DEF AtControl
  <2> QED BY <2>1, FS_Subset, FS_CardinalityType DEF ServerInv
<1>3. Waiting(ip) \in Nat
  BY DEF Waiting
<1>4. Len(history[ip]) \in Nat /\ Len(admitted[ip]) \in Nat
  BY DEF FirewallTypeOK, ServerInv
<1> QED BY <1>1, <1>2, <1>3, <1>4 DEF ClaimTyped

\* How much the claims of an address, and what pays for them, grow in a step:
\* counted, in the pipe, in the channel, on the control port, waiting; admitted.
Grows(ip, dh, dp, dc, do, dw, da) ==
  /\ Len(history'[ip]) <= Len(history[ip]) + dh
  /\ CountOf(pipe', FailedLine(ip)) <= CountOf(pipe, FailedLine(ip)) + dp
  /\ CountOf(channel', FailedOffense(ip)) <= CountOf(channel, FailedOffense(ip)) + dc
  /\ Cardinality(AtControl(ip)') <= Cardinality(AtControl(ip)) + do
  /\ Waiting(ip)' <= Waiting(ip) + dw
  /\ Len(admitted[ip]) + da <= Len(admitted'[ip])

LEMMA StillPaid ==
  ASSUME NEW ip \in IPs, ClaimsTyped, ClaimsTyped', ClaimsPaid,
         NEW dh \in Int, NEW dp \in Int, NEW dc \in Int, NEW do \in Int, NEW dw \in Int, NEW da \in Int,
         Grows(ip, dh, dp, dc, do, dw, da), dh + dp + dc + do + dw <= da
  PROVE  (Len(history[ip]) + Claims(ip) <= Len(admitted[ip]))'
<1>1. PICK h, p, c, o, w, a \in Nat :
        /\ h = Len(history[ip]) /\ p = CountOf(pipe, FailedLine(ip))
        /\ c = CountOf(channel, FailedOffense(ip)) /\ o = Cardinality(AtControl(ip))
        /\ w = Waiting(ip) /\ a = Len(admitted[ip])
  BY DEF ClaimsTyped, ClaimTyped
<1>2. PICK h1, p1, c1, o1, w1, a1 \in Nat :
        /\ h1 = Len(history'[ip]) /\ p1 = CountOf(pipe', FailedLine(ip))
        /\ c1 = CountOf(channel', FailedOffense(ip)) /\ o1 = Cardinality(AtControl(ip)')
        /\ w1 = Waiting(ip)' /\ a1 = Len(admitted'[ip])
  BY DEF ClaimsTyped, ClaimTyped
<1>3. h + (p + c + o + w) <= a
  BY <1>1 DEF ClaimsPaid, Claims
<1>4. /\ h1 <= h + dh /\ p1 <= p + dp /\ c1 <= c + dc /\ o1 <= o + do /\ w1 <= w + dw
      /\ a + da <= a1
  BY <1>1, <1>2 DEF Grows
<1>5. h1 + (p1 + c1 + o1 + w1) <= a1
  BY <1>3, <1>4
<1> QED BY <1>2, <1>5 DEF Claims

\* A printed line adds a claim only if it says that a handshake failed.
LEMMA LoggedClaims ==
  ASSUME FirewallTypeOK, NEW who \in IPs, NEW text \in Texts, Logged(who, text), NEW ip \in IPs
  PROVE  /\ channel' = channel /\ history' = history
         /\ CountOf(pipe', FailedLine(ip)) <=
              CountOf(pipe, FailedLine(ip)) + (IF who = ip /\ text = "failed" THEN 1 ELSE 0)
<1> DEFINE y == [ip |-> who, text |-> text]
<1>1. /\ channel' = channel /\ history' = history
      /\ pipe' = Append(pipe, y) \/ pipe' = pipe
  BY DEF Logged
<1>2. pipe \in Seq(Lines) /\ y \in Lines
  BY DEF FirewallTypeOK, Lines
<1>3. PICK n \in Nat : n = CountOf(pipe, FailedLine(ip))
  BY <1>2, PlacesFinite
<1>4. y = FailedLine(ip) <=> who = ip /\ text = "failed"
  BY DEF FailedLine
<1> HIDE DEF y
<1>5. CountOf(Append(pipe, y), FailedLine(ip)) = IF y = FailedLine(ip) THEN n + 1 ELSE n
  BY <1>2, <1>3, CountAppend
<1>6. CASE pipe' = pipe
  BY <1>1, <1>3, <1>6
<1>7. CASE pipe' = Append(pipe, y)
  <2>1. CASE who = ip /\ text = "failed"
    BY <1>1, <1>3, <1>4, <1>5, <1>7, <2>1
  <2>2. CASE ~(who = ip /\ text = "failed")
    BY <1>1, <1>3, <1>4, <1>5, <1>7, <2>2
  <2> QED BY <2>1, <2>2
<1> QED BY <1>1, <1>6, <1>7

\* The accept loops: an attempt that passed the window is paid for, whether it
\* waits for its permit, gets it or is turned away.
LEMMA AdmitClaims ==
  ASSUME ClaimsTyped, ClaimsTyped', ClaimsPaid, ServerInv,
         NEW a \in Loops, NEW who \in IPs, Admit(a, who), NEW ip \in IPs
  PROVE  (Len(history[ip]) + Claims(ip) <= Len(admitted[ip]))'
<1>0. ClaimTyped(ip) /\ ClaimTyped(ip)'
  BY DEF ClaimsTyped
<1>1. /\ loop[a] = AtAccept
      /\ admitted' = [admitted EXCEPT ![who] = Append(admitted[who], now)]
      /\ loop' = [loop EXCEPT ![a] = [ip |-> who, nth |-> Len(admitted[who]) + 1]]
      /\ UNCHANGED <<pipe, channel, history, onControl>>
  BY DEF Admit, AdmitAttempt, daemonVars
<1>2. /\ Len(history'[ip]) <= Len(history[ip])
      /\ CountOf(pipe', FailedLine(ip)) <= CountOf(pipe, FailedLine(ip))
      /\ CountOf(channel', FailedOffense(ip)) <= CountOf(channel, FailedOffense(ip))
      /\ Cardinality(AtControl(ip)') <= Cardinality(AtControl(ip))
  BY <1>0, <1>1 DEF ClaimTyped, AtControl
<1>3. CASE who = ip
  <2>1. Len(admitted[ip]) + 1 <= Len(admitted'[ip])
    <3>1. admitted'[ip] = Append(admitted[ip], now) /\ admitted[ip] \in Seq(Nat)
      BY <1>1, <1>3 DEF ServerInv
    <3>2. Len(admitted'[ip]) = Len(admitted[ip]) + 1
      BY <3>1
    <3> QED BY <1>0, <3>2 DEF ClaimTyped
  <2>2. Waiting(ip)' <= Waiting(ip) + 1
    BY DEF Waiting
  <2>3. Grows(ip, 0, 0, 0, 0, 1, 1)
    BY <1>0, <1>2, <2>1, <2>2 DEF ClaimTyped, Grows
  <2> QED BY <2>3, StillPaid
<1>4. CASE who # ip
  <2>1. Len(admitted[ip]) <= Len(admitted'[ip])
    BY <1>0, <1>1, <1>4 DEF ServerInv, ClaimTyped
  <2>2. Waiting(ip)' = Waiting(ip)
    <3>1. CASE a = "control"
      <4>1. loop'["control"].ip = who
        BY <1>1, <3>1 DEF ServerInv
      <4> QED BY <1>1, <1>4, <3>1, <4>1 DEF Waiting
    <3>2. CASE a # "control"
      <4>1. loop'["control"] = loop["control"]
        BY <1>1, <3>2 DEF ServerInv, Loops
      <4> QED BY <4>1 DEF Waiting
    <3> QED BY <3>1, <3>2
  <2>3. Waiting(ip)' <= Waiting(ip)
    BY <1>0, <2>2 DEF ClaimTyped
  <2>4. Grows(ip, 0, 0, 0, 0, 0, 0)
    BY <1>0, <1>2, <2>1, <2>3 DEF ClaimTyped, Grows
  <2> QED BY <2>4, StillPaid
<1> QED BY <1>3, <1>4

LEMMA RejectClaims ==
  ASSUME ClaimsTyped, ClaimsTyped', ClaimsPaid, ServerInv, FirewallTypeOK,
         NEW a \in Loops, RejectByCap(a) \/ \E who \in IPs : RejectByWindow(a, who),
         NEW ip \in IPs
  PROVE  (Len(history[ip]) + Claims(ip) <= Len(admitted[ip]))'
<1>0. ClaimTyped(ip) /\ ClaimTyped(ip)'
  BY DEF ClaimsTyped
<1>1. PICK who \in IPs : Logged(who, "rejected")
  BY DEF RejectByCap, RejectByWindow, CapRefuses, ServerInv
<1>2. /\ channel' = channel /\ history' = history
      /\ CountOf(pipe', FailedLine(ip)) <= CountOf(pipe, FailedLine(ip))
  <2>1. "rejected" \in Texts
    BY DEF Texts
  <2>2. /\ channel' = channel /\ history' = history
        /\ CountOf(pipe', FailedLine(ip)) <= CountOf(pipe, FailedLine(ip))
             + (IF who = ip /\ "rejected" = "failed" THEN 1 ELSE 0)
    BY <1>1, <2>1, LoggedClaims
  <2> QED BY <1>0, <2>2 DEF ClaimTyped
<1>3. /\ loop' = loop \/ loop' = [loop EXCEPT ![a] = AtAccept]
      /\ UNCHANGED <<admitted, onControl>>
  BY DEF RejectByCap, RejectByWindow, CapRefuses, WindowRefuses
<1>4. Waiting(ip)' <= Waiting(ip)
  <2>1. loop'["control"] = loop["control"] \/ loop'["control"] = AtAccept
    BY <1>3 DEF ServerInv, Loops
  <2> QED BY <2>1 DEF Waiting
<1>5. /\ Len(history'[ip]) <= Len(history[ip])
      /\ CountOf(channel', FailedOffense(ip)) <= CountOf(channel, FailedOffense(ip))
      /\ Cardinality(AtControl(ip)') <= Cardinality(AtControl(ip))
      /\ Len(admitted[ip]) <= Len(admitted'[ip])
  BY <1>0, <1>2, <1>3 DEF ClaimTyped, AtControl
<1>6. Grows(ip, 0, 0, 0, 0, 0, 0)
  BY <1>0, <1>2, <1>4, <1>5 DEF ClaimTyped, Grows
<1> QED BY <1>6, StillPaid

LEMMA StartClaims ==
  ASSUME ClaimsTyped, ClaimsTyped', ClaimsPaid, ServerInv,
         NEW a \in Loops, StartHandshake(a), NEW ip \in IPs
  PROVE  (Len(history[ip]) + Claims(ip) <= Len(admitted[ip]))'
<1>0. ClaimTyped(ip) /\ ClaimTyped(ip)'
  BY DEF ClaimsTyped
<1> DEFINE x == <<loop[a].ip, loop[a].nth>>
<1>1. /\ loop[a] # AtAccept /\ shakes' = shakes \cup {x}
      /\ loop' = [loop EXCEPT ![a] = AtAccept]
      /\ onControl' = IF a = "control" THEN onControl \cup (shakes' \ shakes) ELSE onControl
      /\ UNCHANGED <<pipe, channel, history, admitted>>
  BY DEF StartHandshake, TakePermit, daemonVars
<1>2. x[1] = loop[a].ip
  OBVIOUS
<1> HIDE DEF x
<1>3. /\ Len(history'[ip]) <= Len(history[ip])
      /\ CountOf(pipe', FailedLine(ip)) <= CountOf(pipe, FailedLine(ip))
      /\ CountOf(channel', FailedOffense(ip)) <= CountOf(channel, FailedOffense(ip))
      /\ Len(admitted[ip]) <= Len(admitted'[ip])
  BY <1>0, <1>1 DEF ClaimTyped
<1>4. CASE a = "control" /\ loop[a].ip = ip
  <2>1. Waiting(ip)' <= Waiting(ip) - 1
    <3>1. loop'["control"] = AtAccept
      BY <1>1, <1>4 DEF ServerInv
    <3>2. Waiting(ip) = 1 /\ Waiting(ip)' = 0
      BY <1>1, <1>4, <3>1 DEF Waiting
    <3> QED BY <3>2
  <2>2. Cardinality(AtControl(ip)') <= Cardinality(AtControl(ip)) + 1
    <3>1. AtControl(ip)' \in SUBSET (AtControl(ip) \cup {x})
      BY <1>1 DEF AtControl
    <3>2. /\ IsFiniteSet(AtControl(ip) \cup {x}) /\ Cardinality(AtControl(ip)) \in Nat
          /\ Cardinality(AtControl(ip) \cup {x}) \in {Cardinality(AtControl(ip)), Cardinality(AtControl(ip)) + 1}
      BY <1>0, FS_AddElement DEF ClaimTyped
    <3>3. Cardinality(AtControl(ip)') <= Cardinality(AtControl(ip) \cup {x})
      BY <3>1, <3>2, FS_Subset
    <3>4. Cardinality(AtControl(ip)') \in Nat
      BY <1>0 DEF ClaimTyped
    <3> QED BY <3>2, <3>3, <3>4
  <2>4. Grows(ip, 0, 0, 0, 1, -1, 0)
    BY <1>0, <1>3, <2>1, <2>2 DEF ClaimTyped, Grows
  <2> QED BY <2>4, StillPaid
<1>5. CASE ~(a = "control" /\ loop[a].ip = ip)
  <2>1. Waiting(ip)' <= Waiting(ip)
    <3>1. loop'["control"] = loop["control"] \/ loop'["control"] = AtAccept
      BY <1>1 DEF ServerInv, Loops
    <3> QED BY <3>1 DEF Waiting
  <2>2. AtControl(ip)' = AtControl(ip)
    BY <1>1, <1>2, <1>5 DEF AtControl
  <2>3. Cardinality(AtControl(ip)') <= Cardinality(AtControl(ip))
    BY <1>0, <2>2 DEF ClaimTyped
  <2>4. Grows(ip, 0, 0, 0, 0, 0, 0)
    BY <1>0, <1>3, <2>1, <2>3 DEF ClaimTyped, Grows
  <2> QED BY <2>4, StillPaid
<1> QED BY <1>4, <1>5

\* A handshake that ends gives up its claim; a line about its failure takes it
\* over.
LEMMA EndClaims ==
  ASSUME ClaimsTyped, ClaimsTyped', ClaimsPaid, ServerInv, FirewallTypeOK,
         NEW s \in shakes,
         HandshakeQuiet(s) \/ ControlNoMatch(s) \/ ControlIoError(s) \/ ControlTimesOut(s),
         NEW ip \in IPs
  PROVE  (Len(history[ip]) + Claims(ip) <= Len(admitted[ip]))'
<1>0. ClaimTyped(ip) /\ ClaimTyped(ip)'
  BY DEF ClaimsTyped
<1>1. HandshakeEnds(s) /\ onControl' = onControl \ {s}
  BY DEF HandshakeQuiet, ControlNoMatch, ControlIoError, ControlTimesOut, ControlEndsWith
<1>2. UNCHANGED <<loop, admitted>>
  BY <1>1 DEF HandshakeEnds
<1>3. Waiting(ip)' <= Waiting(ip) /\ Len(admitted[ip]) <= Len(admitted'[ip])
  BY <1>0, <1>2 DEF Waiting, ClaimTyped
<1>4. AtControl(ip)' = AtControl(ip) \ {s}
  BY <1>1 DEF AtControl
<1>5. /\ Cardinality(AtControl(ip)) \in Nat /\ Cardinality(AtControl(ip)') \in Nat
      /\ Cardinality(AtControl(ip)') = IF s \in AtControl(ip) THEN Cardinality(AtControl(ip)) - 1
                                       ELSE Cardinality(AtControl(ip))
  BY <1>0, <1>4, FS_RemoveElement DEF ClaimTyped
<1>6. CASE HandshakeQuiet(s)
  <2>1. UNCHANGED <<pipe, channel, history>>
    BY <1>6 DEF HandshakeQuiet, daemonVars
  <2>2. /\ Len(history'[ip]) <= Len(history[ip])
        /\ CountOf(pipe', FailedLine(ip)) <= CountOf(pipe, FailedLine(ip))
        /\ CountOf(channel', FailedOffense(ip)) <= CountOf(channel, FailedOffense(ip))
    BY <1>0, <2>1 DEF ClaimTyped
  <2>3. Cardinality(AtControl(ip)') <= Cardinality(AtControl(ip))
    BY <1>5
  <2>4. Grows(ip, 0, 0, 0, 0, 0, 0)
    BY <1>0, <1>3, <2>2, <2>3 DEF ClaimTyped, Grows
  <2> QED BY <2>4, StillPaid
<1>7. CASE ControlNoMatch(s) \/ ControlIoError(s) \/ ControlTimesOut(s)
  <2>1. PICK text \in Texts : s \in onControl /\ Logged(s[1], text)
    BY <1>7 DEF ControlNoMatch, ControlIoError, ControlTimesOut, ControlEndsWith, Texts
  <2>2. s[1] \in IPs
    BY DEF ServerInv
  <2>3. /\ channel' = channel /\ history' = history
        /\ CountOf(pipe', FailedLine(ip)) <= CountOf(pipe, FailedLine(ip))
             + (IF s[1] = ip /\ text = "failed" THEN 1 ELSE 0)
    BY <2>1, <2>2, LoggedClaims
  <2>4. /\ Len(history'[ip]) <= Len(history[ip])
        /\ CountOf(channel', FailedOffense(ip)) <= CountOf(channel, FailedOffense(ip))
    BY <1>0, <2>3 DEF ClaimTyped
  <2>5. CASE s[1] = ip
    <3>1. Cardinality(AtControl(ip)') <= Cardinality(AtControl(ip)) - 1
      <4>1. s \in AtControl(ip)
        BY <2>1, <2>5 DEF AtControl
      <4> QED BY <1>5, <4>1
    <3>2. CountOf(pipe', FailedLine(ip)) <= CountOf(pipe, FailedLine(ip)) + 1
      BY <1>0, <2>3 DEF ClaimTyped
    <3>4. Grows(ip, 0, 1, 0, -1, 0, 0)
      BY <1>0, <1>3, <2>4, <3>1, <3>2 DEF ClaimTyped, Grows
    <3> QED BY <3>4, StillPaid
  <2>6. CASE s[1] # ip
    <3>1. Cardinality(AtControl(ip)') <= Cardinality(AtControl(ip))
      BY <1>5
    <3>2. CountOf(pipe', FailedLine(ip)) <= CountOf(pipe, FailedLine(ip))
      BY <1>0, <2>3, <2>6 DEF ClaimTyped
    <3>3. Grows(ip, 0, 0, 0, 0, 0, 0)
      BY <1>0, <1>3, <2>4, <3>1, <3>2 DEF ClaimTyped, Grows
    <3> QED BY <3>3, StillPaid
  <2> QED BY <2>5, <2>6
<1> QED BY <1>6, <1>7

\* What the daemon does leaves the accept loops alone.
LEMMA ServerQuiet ==
  ASSUME ClaimsTyped, UNCHANGED serverVars, NEW ip \in IPs
  PROVE  /\ Cardinality(AtControl(ip)') <= Cardinality(AtControl(ip)) + 0
         /\ Waiting(ip)' <= Waiting(ip) + 0
         /\ Len(admitted[ip]) + 0 <= Len(admitted'[ip])
<1>1. UNCHANGED <<onControl, loop, admitted>>
  BY DEF serverVars
<1>2. AtControl(ip)' = AtControl(ip) /\ Waiting(ip)' = Waiting(ip)
  BY <1>1 DEF AtControl, Waiting
<1> QED BY <1>1, <1>2 DEF ClaimsTyped, ClaimTyped

\* watch_service moves a failure from the pipe to the channel.
LEMMA WatchClaims ==
  ASSUME ClaimsTyped, ClaimsTyped', ClaimsPaid, FirewallTypeOK,
         Watch, UNCHANGED serverVars, NEW ip \in IPs
  PROVE  (Len(history[ip]) + Claims(ip) <= Len(admitted[ip]))'
<1>0. ClaimTyped(ip) /\ ClaimTyped(ip)'
  BY DEF ClaimsTyped
<1>1. /\ Cardinality(AtControl(ip)') <= Cardinality(AtControl(ip)) + 0
      /\ Waiting(ip)' <= Waiting(ip) + 0
      /\ Len(admitted[ip]) + 0 <= Len(admitted'[ip])
  BY ServerQuiet
<1>2. history' = history
  BY DEF Watch, WatchReads, TailExits, TailStarts
<1>3. CASE TailExits \/ TailStarts
  <2>1. pipe' = pipe /\ channel' = channel
    BY <1>3 DEF TailExits, TailStarts
  <2>2. Grows(ip, 0, 0, 0, 0, 0, 0)
    BY <1>0, <1>1, <1>2, <2>1 DEF Grows, ClaimTyped
  <2> QED BY <2>2, StillPaid
<1>4. CASE WatchReads
  <2> DEFINE x == Head(pipe)
  <2>1. /\ pipe \in Seq(Lines) /\ pipe # <<>> /\ pipe' = Tail(pipe) /\ channel \in Seq(Offenses)
        /\ \/ x.text = "other" /\ channel' = channel
           \/ x.text # "other" /\ channel' = Append(channel, Extract(x))
    BY <1>4 DEF WatchReads, FirewallTypeOK
  <2>2. x \in Lines
    BY <2>1, HeadTailProperties
  <2>3. CountOf(pipe', FailedLine(ip)) = IF x = FailedLine(ip) THEN CountOf(pipe, FailedLine(ip)) - 1
                                         ELSE CountOf(pipe, FailedLine(ip))
    BY <2>1, CountTail
  <2> HIDE DEF x
  <2>4. Extract(x) \in Offenses
    BY <2>2 DEF Extract, Lines, Offenses
  <2>5. CountOf(Append(channel, Extract(x)), FailedOffense(ip)) =
          IF Extract(x) = FailedOffense(ip) THEN CountOf(channel, FailedOffense(ip)) + 1
          ELSE CountOf(channel, FailedOffense(ip))
    BY <2>1, <2>4, CountAppend
  <2>6. x.text # "other" => (Extract(x) = FailedOffense(ip) <=> x = FailedLine(ip))
    <3>1. x.text \in Texts /\ x = [ip |-> x.ip, text |-> x.text]
      BY <2>2 DEF Lines
    <3>2. x = FailedLine(ip) <=> x.ip = ip /\ x.text = "failed"
      BY <3>1 DEF FailedLine
    <3>3. Extract(x) = FailedOffense(ip) <=> x.ip = ip /\ x.text # "rejected"
      BY DEF Extract, FailedOffense
    <3> QED BY <3>1, <3>2, <3>3 DEF Texts
  <2>7. CASE x.text # "other" /\ x = FailedLine(ip)
    <3>1. /\ CountOf(pipe', FailedLine(ip)) = CountOf(pipe, FailedLine(ip)) - 1
          /\ CountOf(channel', FailedOffense(ip)) = CountOf(channel, FailedOffense(ip)) + 1
      BY <2>1, <2>3, <2>5, <2>6, <2>7
    <3>2. Grows(ip, 0, -1, 1, 0, 0, 0)
      BY <1>0, <1>1, <1>2, <3>1 DEF Grows, ClaimTyped
    <3> QED BY <3>2, StillPaid
  <2>8. CASE x.text # "other" /\ x # FailedLine(ip)
    <3>1. /\ CountOf(pipe', FailedLine(ip)) = CountOf(pipe, FailedLine(ip))
          /\ CountOf(channel', FailedOffense(ip)) = CountOf(channel, FailedOffense(ip))
      BY <2>1, <2>3, <2>5, <2>6, <2>8
    <3>2. Grows(ip, 0, 0, 0, 0, 0, 0)
      BY <1>0, <1>1, <1>2, <3>1 DEF Grows, ClaimTyped
    <3> QED BY <3>2, StillPaid
  <2>9. CASE x.text = "other"
    <3>1. channel' = channel /\ CountOf(pipe', FailedLine(ip)) <= CountOf(pipe, FailedLine(ip))
      BY <1>0, <2>1, <2>3, <2>9 DEF ClaimTyped
    <3>2. Grows(ip, 0, 0, 0, 0, 0, 0)
      BY <1>0, <1>1, <1>2, <3>1 DEF Grows, ClaimTyped
    <3> QED BY <3>2, StillPaid
  <2> QED BY <2>7, <2>8, <2>9
<1> QED BY <1>3, <1>4 DEF Watch

\* run_daemon counts a failure of the channel, or drops it.
LEMMA HandleClaims ==
  ASSUME ClaimsTyped, ClaimsTyped', ClaimsPaid, FirewallInv,
         Handle, UNCHANGED serverVars, NEW ip \in IPs
  PROVE  (Len(history[ip]) + Claims(ip) <= Len(admitted[ip]))'
<1>0. ClaimTyped(ip) /\ ClaimTyped(ip)'
  BY DEF ClaimsTyped
<1>1. /\ Cardinality(AtControl(ip)') <= Cardinality(AtControl(ip)) + 0
      /\ Waiting(ip)' <= Waiting(ip) + 0
      /\ Len(admitted[ip]) + 0 <= Len(admitted'[ip])
  BY ServerQuiet
<1> DEFINE x == Head(channel)
<1>2. /\ channel # <<>> /\ channel \in Seq(Offenses) /\ channel' = Tail(channel) /\ pipe' = pipe
      /\ history \in [IPs -> Seq(Nat)]
  BY DEF Handle, SkipProtected, CountFailure, Ban, BanFails, DryRunBan, Decide,
     FirewallInv, FirewallTypeOK
<1>3. x \in Offenses /\ x.ip \in IPs
  BY <1>2, HeadOffense
<1>4. CountOf(channel', FailedOffense(ip)) =
        IF x = FailedOffense(ip) THEN CountOf(channel, FailedOffense(ip)) - 1
        ELSE CountOf(channel, FailedOffense(ip))
  BY <1>2, CountTail
<1>5. CASE CountFailure /\ x.ip = ip
  <2>1. history'[ip] = Record(ip)
    BY <1>2, <1>3, <1>5 DEF CountFailure
  <2>2. Len(Record(ip)) <= Len(history[ip]) + 1
    <3>1. Append(history[ip], now) \in Seq(Nat) /\ Len(Append(history[ip], now)) = Len(history[ip]) + 1
      BY <1>2, AppendProperties DEF FirewallInv, FirewallTypeOK
    <3>2. now - FailWindow \in Int
      BY TuningAssumption DEF FirewallInv, FirewallTypeOK
    <3>3. Len(PopOlder(Append(history[ip], now), now - FailWindow)) <= Len(Append(history[ip], now))
      BY <3>1, <3>2, PopOlderDrops
    <3> QED BY <3>1, <3>3 DEF Record
  <2>3. x = FailedOffense(ip)
    <3>1. x.offense # "RateLimited"
      BY <1>5 DEF CountFailure, ShouldBan
    <3> HIDE DEF x
    <3>2. x.offense = "HandshakeFailed" /\ x = [ip |-> x.ip, offense |-> x.offense]
      BY <1>3, <3>1 DEF Offenses
    <3> QED BY <1>5, <3>2 DEF FailedOffense
  <2>4. Grows(ip, 1, 0, -1, 0, 0, 0)
    BY <1>0, <1>1, <1>2, <1>4, <2>1, <2>2, <2>3 DEF Grows, ClaimTyped
  <2> QED BY <2>4, StillPaid
<1>6. CASE ~(CountFailure /\ x.ip = ip)
  <2>1. CountOf(channel', FailedOffense(ip)) <= CountOf(channel, FailedOffense(ip)) + 0
    BY <1>0, <1>4 DEF ClaimTyped
  <2>2. history'[ip] = history[ip] \/ history'[ip] = <<>>
    <3>1. CASE CountFailure
      <4>1. history' = [history EXCEPT ![x.ip] = Record(x.ip)]
        BY <3>1 DEF CountFailure
      <4> QED BY <1>2, <1>3, <1>6, <3>1, <4>1
    <3>2. CASE SkipProtected
      BY <3>2 DEF SkipProtected
    <3>3. CASE Decide
      <4>1. history' = [history EXCEPT ![x.ip] = <<>>]
        BY <3>3 DEF Decide, Forget
      <4> HIDE DEF x
      <4> QED BY <1>2, <1>3, <4>1
    <3> QED BY <3>1, <3>2, <3>3 DEF Handle, Ban, BanFails, DryRunBan
  <2>3. Len(history'[ip]) <= Len(history[ip]) + 0
    <3>1. Len(<<>>) = 0 /\ Len(history[ip]) \in Nat
      BY <1>0 DEF ClaimTyped
    <3> QED BY <2>2, <3>1
  <2>4. Grows(ip, 0, 0, 0, 0, 0, 0)
    BY <1>0, <1>1, <1>2, <2>1, <2>3 DEF Grows, ClaimTyped
  <2> QED BY <2>4, StillPaid
<1> QED BY <1>5, <1>6

\* A restart of the daemon forgets claims and adds none.
LEMMA AdminClaims ==
  ASSUME ClaimsTyped, ClaimsTyped', ClaimsPaid,
         Admin, UNCHANGED serverVars, NEW ip \in IPs
  PROVE  (Len(history[ip]) + Claims(ip) <= Len(admitted[ip]))'
<1>0. ClaimTyped(ip) /\ ClaimTyped(ip)'
  BY DEF ClaimsTyped
<1>1. /\ Cardinality(AtControl(ip)') <= Cardinality(AtControl(ip)) + 0
      /\ Waiting(ip)' <= Waiting(ip) + 0
      /\ Len(admitted[ip]) + 0 <= Len(admitted'[ip])
  BY ServerQuiet
<1>2. CASE DaemonStops
  <2>1. pipe' = <<>> /\ channel' = <<>> /\ history'[ip] = <<>>
    BY <1>2 DEF DaemonStops, NoTimes
  <2>2. /\ CountOf(<<>>, FailedLine(ip)) = 0 /\ CountOf(<<>>, FailedOffense(ip)) = 0
        /\ Len(<<>>) = 0
    BY CountNone
  <2>3. Grows(ip, 0, 0, 0, 0, 0, 0)
    BY <1>0, <1>1, <2>1, <2>2 DEF Grows, ClaimTyped
  <2> QED BY <2>3, StillPaid
<1>3. CASE ~DaemonStops
  <2>1. UNCHANGED <<pipe, channel, history>>
    BY <1>3 DEF Admin, DaemonStarts, Setup, Teardown, TestBan, Unban, daemonVars
  <2>2. Grows(ip, 0, 0, 0, 0, 0, 0)
    BY <1>0, <1>1, <2>1 DEF Grows, ClaimTyped
  <2> QED BY <2>2, StillPaid
<1> QED BY <1>2, <1>3

LEMMA GuardedInitInv == GuardedInit => GuardedInv
<1> SUFFICES ASSUME GuardedInit PROVE GuardedInv
  OBVIOUS
<1>1. FirewallInv /\ ServerInv
  BY FirewallInitInv, ServerInitInv DEF GuardedInit
<1>2. ASSUME NEW ip \in IPs PROVE Len(history[ip]) + Claims(ip) <= Len(admitted[ip])
  <2>1. /\ pipe = <<>> /\ channel = <<>> /\ history[ip] = <<>> /\ admitted[ip] = <<>>
        /\ onControl = {} /\ loop["control"] = AtAccept
    BY DEF GuardedInit, FirewallInit, NoTimes, LimiterInit, Loops
  <2>2. AtControl(ip) = {} /\ Waiting(ip) = 0
    BY <2>1 DEF AtControl, Waiting
  <2>3. CountOf(pipe, FailedLine(ip)) = 0 /\ CountOf(channel, FailedOffense(ip)) = 0
    BY <2>1, CountNone
  <2>4. Len(history[ip]) = 0 /\ Len(admitted[ip]) = 0
    BY <2>1
  <2> QED BY <2>2, <2>3, <2>4, FS_EmptySet DEF Claims
<1> QED BY <1>1, <1>2 DEF GuardedInv, ClaimsPaid

LEMMA ClaimTypesNext == (FirewallTypeOK /\ ServerInv => ClaimsTyped)'
BY ClaimTypes, PTL

LEMMA GuardedStepInv == GuardedInv /\ [GuardedNext]_guardedVars => GuardedInv'
<1> SUFFICES ASSUME GuardedInv, [GuardedNext]_guardedVars PROVE GuardedInv'
  OBVIOUS
<1>1. FirewallInv' /\ ServerInv'
  BY GuardedStepIsFirewall, FirewallNextInv, ServerStepInv DEF GuardedInv
<1>2. /\ ClaimsTyped /\ ClaimsTyped' /\ ClaimsPaid /\ ServerInv /\ FirewallInv
      /\ FirewallTypeOK
  BY <1>1, ClaimTypes, ClaimTypesNext DEF GuardedInv, FirewallInv
<1>3. ASSUME NEW ip \in IPs
      PROVE  (Len(history[ip]) + Claims(ip) <= Len(admitted[ip]))'
  <2>1. ASSUME NEW a \in Loops, RejectByCap(a) \/ StartHandshake(a)
        PROVE  (Len(history[ip]) + Claims(ip) <= Len(admitted[ip]))'
    BY <1>2, <2>1, RejectClaims, StartClaims
  <2>2. ASSUME NEW a \in Loops, NEW who \in IPs, Admit(a, who) \/ RejectByWindow(a, who)
        PROVE  (Len(history[ip]) + Claims(ip) <= Len(admitted[ip]))'
    BY <1>2, <2>2, RejectClaims, AdmitClaims
  <2>3. ASSUME NEW s \in shakes,
               HandshakeQuiet(s) \/ ControlNoMatch(s) \/ ControlIoError(s) \/ ControlTimesOut(s)
        PROVE  (Len(history[ip]) + Claims(ip) <= Len(admitted[ip]))'
    BY <1>2, <2>3, EndClaims
  <2>4. CASE GuardedTick \/ UNCHANGED guardedVars
    <3>1. UNCHANGED <<pipe, channel, history, onControl, loop, admitted>>
      BY <2>4 DEF GuardedTick, Tick, guardedVars, firewallVars, serverVars, daemonVars
    <3>2. Len(history[ip]) + Claims(ip) <= Len(admitted[ip])
      BY <1>2 DEF ClaimsPaid
    <3> QED BY <3>1, <3>2 DEF Claims, AtControl, Waiting
  <2>5. CASE (Watch \/ Handle \/ Admin) /\ UNCHANGED serverVars
    BY <1>2, <2>5, WatchClaims, HandleClaims, AdminClaims
  <2> QED BY <2>1, <2>2, <2>3, <2>4, <2>5 DEF GuardedNext, ServerStep
<1> QED BY <1>1, <1>3 DEF GuardedInv, ClaimsPaid

\* The claims on a streak are among the ones that are paid for.
LEMMA CountOnceFromInv == GuardedInv => AttemptsCountOnce
<1> SUFFICES ASSUME GuardedInv, NEW ip \in IPs
             PROVE  Len(history[ip]) + Cardinality(InFlight(ip))
                      + Cardinality({s \in onControl : s[1] = ip}) <= Len(admitted[ip])
  BY DEF AttemptsCountOnce
<1>1. FirewallTypeOK /\ ServerInv /\ ClaimsPaid
  BY DEF GuardedInv, FirewallInv
<1>2. ClaimTyped(ip)
  BY <1>1, ClaimTypes DEF ClaimsTyped
<1>3. PICK h, p, c, o, w, a \in Nat :
        /\ h = Len(history[ip]) /\ p = CountOf(pipe, FailedLine(ip))
        /\ c = CountOf(channel, FailedOffense(ip)) /\ o = Cardinality(AtControl(ip))
        /\ w = Waiting(ip) /\ a = Len(admitted[ip])
  BY <1>2 DEF ClaimTyped
<1>4. h + (p + c + o + w) <= a
  BY <1>1, <1>3 DEF ClaimsPaid, Claims
<1>5. h + (p + c) + o <= a
  BY <1>4
<1>6. Cardinality(InFlight(ip)) = p + c
  BY <1>1, <1>3, InFlightCount
<1> QED BY <1>3, <1>5, <1>6 DEF AtControl

\* For every set of addresses and every tuning, each attempt that passed the
\* limiter counts at most once towards a ban, across restarts of the daemon and
\* of its tail.
THEOREM AttemptsCountOnceAlways == GuardedSpec => []AttemptsCountOnce
BY GuardedInitInv, GuardedStepInv, CountOnceFromInv, PTL DEF GuardedSpec
=============================================================================
