---------------------------- MODULE GuardedServer ----------------------------
(***************************************************************************)
(* The server's two accept loops with their shared HandshakeLimiter, and   *)
(* ghostport-firewall reading what they print.  The journal is the only    *)
(* thing the firewall learns from, the blackhole set is all it gives back: *)
(* a banned source no longer reaches the accept loops.                     *)
(***************************************************************************)
EXTENDS Firewall, HandshakeLimiter

CONSTANT KeyHolders   \* sources that hold a configured peer's key

ASSUME KeyHoldersAssumption == KeyHolders \subseteq IPs

VARIABLES onControl,  \* the running handshakes of control connections
          abusive     \* history: sources whose own window was full

serverVars  == <<attempts, admitted, permits, loop, shakes, onControl, abusive>>
guardedVars == <<firewallVars, serverVars>>

GuardedInit == /\ FirewallInit
               /\ LimiterInit
               /\ onControl = {}
               /\ abusive = {}
-----------------------------------------------------------------------------
(***************************************************************************)
(* The accept loops.                                                       *)
(***************************************************************************)
Admit(a, ip) == /\ ~Banned(ip)
                /\ AdmitAttempt(a, ip)
                /\ UNCHANGED <<daemonVars, nftVars, onControl, abusive>>

\* "rejected ... (too many recent handshake attempts)", for the window
RejectByWindow(a, ip) == /\ ~Banned(ip)
                         /\ WindowRefuses(a, ip)
                         /\ Logged(ip, "rejected")
                         /\ abusive' = abusive \cup {ip}
                         /\ UNCHANGED onControl

\* ... and, in the same words, for the global cap.
RejectByCap(a) == /\ CapRefuses(a)
                  /\ Logged(loop[a].ip, "rejected")
                  /\ UNCHANGED <<onControl, abusive>>

StartHandshake(a) ==
  /\ TakePermit(a)
  /\ onControl' = IF a = "control" THEN onControl \cup (shakes' \ shakes) ELSE onControl
  /\ UNCHANGED <<daemonVars, nftVars, abusive>>
-----------------------------------------------------------------------------
(***************************************************************************)
(* How a handshake ends.                                                   *)
(***************************************************************************)
\* The peer is authenticated; or a data connection fails, which prints a line
\* that is no offense whatever the reason.
HandshakeQuiet(s) ==
  /\ s \in onControl => s[1] \in KeyHolders
  /\ HandshakeEnds(s)
  /\ onControl' = onControl \ {s}
  /\ UNCHANGED <<daemonVars, nftVars, abusive>>

\* Mutant: the failure is printed and the handshake goes on.
ControlPrintsAndGoesOn(s, text) ==
  /\ s \in onControl
  /\ Logged(s[1], text)
  /\ UNCHANGED <<now, serverVars>>

\* A control handshake ends without a session, and the server says why.
ControlEndsWith(s, text) ==
  /\ s \in onControl
  /\ HandshakeEnds(s)
  /\ Logged(s[1], text)
  /\ onControl' = onControl \ {s}
  /\ UNCHANGED abusive

\* "control: handshake with ... failed: no configured peer matched"
ControlNoMatch(s) == s[1] \notin KeyHolders /\ ControlEndsWith(s, "failed")

\* The read or write of a handshake message fails, because the other end or
\* the network closed the connection: the line is the same up to the reason.
ControlIoError(s) == ControlEndsWith(s, "failed")

\* "control: handshake with ... timed out"
ControlTimesOut(s) == ControlEndsWith(s, "other")

GuardedTick == /\ Tick
               /\ UNCHANGED <<daemonVars, nftVars, onControl, abusive>>

ServerStep == \/ \E a \in Loops : RejectByCap(a) \/ StartHandshake(a)
              \/ \E a \in Loops, ip \in IPs :
                   Admit(a, ip) \/ RejectByWindow(a, ip)
              \/ \E s \in shakes : \/ HandshakeQuiet(s) \/ ControlNoMatch(s)
                                   \/ ControlIoError(s) \/ ControlTimesOut(s)

GuardedNext == \/ ServerStep \/ GuardedTick
               \/ (Watch \/ Handle \/ Admin) /\ UNCHANGED serverVars

GuardedSpec == GuardedInit /\ [][GuardedNext]_guardedVars
-----------------------------------------------------------------------------
\* The failures of ip on their way to the tracker, in the pipe or the channel.
InFlight(ip) ==
  {<<"pipe", i>> : i \in {j \in DOMAIN pipe : pipe[j] = [ip |-> ip, text |-> "failed"]}}
  \cup
  {<<"channel", i>> : i \in {j \in DOMAIN channel :
                       channel[j] = [ip |-> ip, offense |-> "HandshakeFailed"]}}

\* The failures of ip that are counted, on their way, or still possible never
\* outnumber the attempts its window admitted: each attempt counts at most
\* once towards a ban, across restarts of the daemon and of its tail, so a
\* streak takes Threshold attempts that passed the limiter.
AttemptsCountOnce ==
  \A ip \in IPs :
    Len(history[ip]) + Cardinality(InFlight(ip))
      + Cardinality({s \in onControl : s[1] = ip}) <= Len(admitted[ip])

\* Offense::RateLimited's comment: the limiter "already decided this source IP
\* was abusive before this line was ever printed".
RateLimitedIsAbusive ==
  \A i \in DOMAIN channel : channel[i].offense = "RateLimited"
                              => channel[i].ip \in abusive
=============================================================================
