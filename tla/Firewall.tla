------------------------------ MODULE Firewall ------------------------------
(***************************************************************************)
(* ghostport-firewall: watch_service tails the server's journal and sends  *)
(* the offenses it recognises down a bounded channel; run_daemon decides   *)
(* for each whether its source is banned in an nftables set whose entries  *)
(* expire by themselves.  The admin's one-shot commands change the same    *)
(* table from other processes, and the daemon, the tail or nft may fail.   *)
(***************************************************************************)
EXTENDS Integers, Sequences, Deques, Clock

CONSTANTS NeverBannable,  \* loopback and private ranges
          Allowlist,      \* the config's allowlist
          Threshold,      \* config: failures that make a streak
          FailWindow,     \* config: window_secs, in ticks
          BanTime,        \* config: ban_secs, in ticks
          TestBanTime,    \* the 60 s of --test-ban, in ticks
          ChannelCap,     \* capacity of the offense channel (256)
          PipeCap         \* bound: lines printed and not yet read

ASSUME AddressAssumption == NeverBannable \subseteq IPs /\ Allowlist \subseteq IPs
ASSUME TuningAssumption == /\ Threshold \in Nat \ {0}
                           /\ FailWindow \in Nat
                           /\ BanTime \in Nat \ {0}
                           /\ TestBanTime \in Nat \ {0}
                           /\ ChannelCap \in Nat \ {0}
                           /\ PipeCap \in Nat \ {0}
                           /\ MaxTime \in Nat

VARIABLES
  daemon,     \* "off", "live" or "dry" (--dry-run)
  tail,       \* whether journalctl -f is running
  pipe,       \* lines it has printed and watch_service has not read
  channel,    \* the offense channel
  history,    \* FailureTracker::history
  table,      \* whether the nftables table exists
  blackhole,  \* the tick at which the ban of an address expires, 0 for none
  streak      \* history: failures counted since the last decision to ban

daemonVars == <<daemon, tail, pipe, channel, history, streak>>
nftVars    == <<table, blackhole>>
firewallVars == <<now, daemonVars, nftVars>>

Texts    == {"rejected", "failed", "other"}
Lines    == [ip : IPs, text : Texts]
Offenses == [ip : IPs, offense : {"RateLimited", "HandshakeFailed"}]

FirewallTypeOK ==
  /\ now \in Nat
  /\ daemon \in {"off", "live", "dry"}
  /\ tail \in BOOLEAN
  /\ pipe \in Seq(Lines)
  /\ channel \in Seq(Offenses) /\ Len(channel) <= ChannelCap
  /\ history \in [IPs -> Seq(Nat)]
  /\ table \in BOOLEAN
  /\ blackhole \in [IPs -> Nat]
  /\ streak \in [IPs -> Seq(Nat)]

NoTimes == [ip \in IPs |-> << >>]

FirewallInit ==
  /\ now = 0
  /\ daemon = "off"
  /\ tail = FALSE
  /\ pipe = << >>
  /\ channel = << >>
  /\ history = NoTimes
  /\ table = FALSE
  /\ blackhole = [ip \in IPs |-> 0]
  /\ streak = NoTimes

Banned(ip) == blackhole[ip] > now
-----------------------------------------------------------------------------
(***************************************************************************)
(* watch_service and the journal.                                          *)
(***************************************************************************)
\* The server prints a line; only a running tail sees it (--since now).
Logged(ip, text) ==
  /\ Len(pipe) < PipeCap
  /\ pipe' = IF tail THEN Append(pipe, [ip |-> ip, text |-> text]) ELSE pipe
  /\ UNCHANGED <<daemon, tail, channel, history, streak, nftVars>>

\* extract_offense of a line that matches one of the patterns.
Extract(line) ==
  [ip |-> line.ip,
   offense |-> IF line.text = "rejected" THEN "RateLimited" ELSE "HandshakeFailed"]

\* Mutant: the offense is sent without waiting for room in the channel.
WatchReadsUnbounded ==
  /\ pipe # << >>
  /\ pipe' = Tail(pipe)
  /\ channel' = IF Head(pipe).text = "other" THEN channel
                ELSE Append(channel, Extract(Head(pipe)))
  /\ UNCHANGED <<now, daemon, tail, history, streak, nftVars>>

\* A line is read, and if it is an offense sent once the channel has room.
\* What a dead journalctl left in the pipe is still read.
WatchReads ==
  /\ pipe # << >>
  /\ pipe' = Tail(pipe)
  /\ \/ /\ Head(pipe).text = "other"
        /\ UNCHANGED channel
     \/ /\ Head(pipe).text # "other"
        /\ Len(channel) < ChannelCap
        /\ channel' = Append(channel, Extract(Head(pipe)))
  /\ UNCHANGED <<now, daemon, tail, history, streak, nftVars>>

TailExits ==
  /\ tail
  /\ tail' = FALSE
  /\ UNCHANGED <<now, daemon, pipe, channel, history, streak, nftVars>>

\* Spawned at start-up, and ten seconds after the old one's output has ended.
TailStarts ==
  /\ daemon # "off"
  /\ ~tail
  /\ pipe = << >>
  /\ tail' = TRUE
  /\ UNCHANGED <<now, daemon, pipe, channel, history, streak, nftVars>>
-----------------------------------------------------------------------------
(***************************************************************************)
(* run_daemon's loop over the offenses.                                    *)
(***************************************************************************)
\* nft adds the element; an address already in the set keeps its timeout or
\* gets a new one, depending on the kernel.
AddElement(ip, ticks) ==
  /\ table
  /\ \E t \in {blackhole[ip], now + ticks} :
       t > now /\ blackhole' = [blackhole EXCEPT ![ip] = t]
  /\ UNCHANGED table

Protected == NeverBannable \cup Allowlist

\* Mutant: failures are counted and never expire.
RecordForever(ip) == Append(history[ip], now)

\* FailureTracker::record, without its verdict: push, then pop what is older
\* than the window.
Record(ip) == PopOlder(Append(history[ip], now), now - FailWindow)

\* Mutant: the count survives the decision to ban.
ForgetNothing(ip) == [history EXCEPT ![ip] = Record(ip)]

\* FailureTracker::forget.
Forget(ip) == [history EXCEPT ![ip] = << >>]

\* A rejection by the rate limiter bans at once, a failed handshake when the
\* count reaches the threshold.
ShouldBan(o) == \/ o.offense = "RateLimited"
                \/ Len(Record(o.ip)) = Threshold

\* Loopback, private or allowlisted: the offense is dropped.
SkipProtected ==
  /\ channel # << >>
  /\ Head(channel).ip \in Protected
  /\ channel' = Tail(channel)
  /\ UNCHANGED <<now, daemon, tail, pipe, history, streak, nftVars>>

CountFailure ==
  /\ channel # << >>
  /\ Head(channel).ip \notin Protected
  /\ ~ShouldBan(Head(channel))
  /\ channel' = Tail(channel)
  /\ history' = [history EXCEPT ![Head(channel).ip] = Record(Head(channel).ip)]
  /\ streak' = [streak EXCEPT ![Head(channel).ip] = Append(@, now)]
  /\ UNCHANGED <<now, daemon, tail, pipe, nftVars>>

\* What every decision to ban does, whatever becomes of the ban.
Decide ==
  /\ channel # << >>
  /\ Head(channel).ip \notin Protected
  /\ ShouldBan(Head(channel))
  /\ channel' = Tail(channel)
  /\ history' = Forget(Head(channel).ip)
  /\ streak' = [streak EXCEPT ![Head(channel).ip] = << >>]
  /\ UNCHANGED <<now, daemon, tail, pipe>>

Ban == daemon = "live" /\ Decide /\ AddElement(Head(channel).ip, BanTime)

\* nft is missing, is refused, or finds no table: logged, nothing else.
BanFails == daemon = "live" /\ Decide /\ UNCHANGED nftVars

DryRunBan == daemon = "dry" /\ Decide /\ UNCHANGED nftVars
-----------------------------------------------------------------------------
(***************************************************************************)
(* Starting and stopping the daemon, and the admin's commands.             *)
(***************************************************************************)
\* nft::setup creates what is missing and keeps the bans; --dry-run skips it.
DaemonStarts(mode) ==
  /\ daemon = "off"
  /\ daemon' = mode
  /\ table' = (table \/ mode = "live")
  /\ UNCHANGED <<now, tail, pipe, channel, history, streak, blackhole>>

\* Stopped or killed: its counts, channel and journalctl go with it, the bans
\* stay in the kernel.
DaemonStops ==
  /\ daemon # "off"
  /\ daemon' = "off"
  /\ tail' = FALSE
  /\ pipe' = << >>
  /\ channel' = << >>
  /\ history' = NoTimes
  /\ streak' = NoTimes
  /\ UNCHANGED <<now, nftVars>>

Setup == table' = TRUE /\ UNCHANGED <<now, daemonVars, blackhole>>

Teardown == /\ table' = FALSE
            /\ blackhole' = [ip \in IPs |-> 0]
            /\ UNCHANGED <<now, daemonVars>>

\* Mutant: --test-ban trusts the admin.
TestBanAny(ip) == /\ AddElement(ip, TestBanTime)
                  /\ UNCHANGED <<now, daemonVars>>

TestBan(ip) == /\ ip \notin NeverBannable
               /\ AddElement(ip, TestBanTime)
               /\ UNCHANGED <<now, daemonVars>>

Unban(ip) == /\ Banned(ip)
             /\ blackhole' = [blackhole EXCEPT ![ip] = 0]
             /\ UNCHANGED <<now, table, daemonVars>>

FirewallTick == /\ now < MaxTime
                /\ now' = now + 1
                /\ UNCHANGED <<daemonVars, nftVars>>

Watch  == WatchReads \/ TailExits \/ TailStarts
Handle == SkipProtected \/ CountFailure \/ Ban \/ BanFails \/ DryRunBan
Admin  == \/ \E mode \in {"live", "dry"} : DaemonStarts(mode)
          \/ DaemonStops \/ Setup \/ Teardown
          \/ \E ip \in IPs : TestBan(ip) \/ Unban(ip)

FirewallNext == \/ \E ip \in IPs, text \in Texts : Logged(ip, text) /\ UNCHANGED now
                \/ Watch \/ Handle \/ Admin \/ FirewallTick

FirewallSpec == FirewallInit /\ [][FirewallNext]_firewallVars
-----------------------------------------------------------------------------
\* No streak is missed: among the failures counted since the last decision,
\* any Threshold in a row span more than the window.  record fires only when
\* the length equals the threshold, so a count that got past it would never
\* ban its source again.
StreaksCaught == \A ip \in IPs : \A i \in DOMAIN streak[ip] :
                   i + Threshold - 1 \in DOMAIN streak[ip] =>
                     streak[ip][i + Threshold - 1] > streak[ip][i] + FailWindow

\* Whether offense o, handled now, deserves a ban.
Earned(o) ==
  /\ o.ip \notin Protected
  /\ \/ o.offense = "RateLimited"
     \/ LET s == Append(streak[o.ip], now)
        IN  /\ Len(s) >= Threshold
            /\ s[Len(s) - Threshold + 1] + FailWindow >= now

\* The daemon bans only an unprotected source, for a rate-limit rejection or
\* for Threshold failures inside one window, none of which has already been
\* spent on an earlier ban.
BansEarned == [][channel' # channel /\ blackhole' # blackhole
                   => Earned(Head(channel))]_firewallVars

\* Neither the daemon nor --test-ban ever puts a loopback or private address
\* in the set.
NeverBannableSpared == \A ip \in NeverBannable : blackhole[ip] = 0
=============================================================================
