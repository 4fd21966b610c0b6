-------------------------- MODULE HandshakeLimiter --------------------------
(***************************************************************************)
(* ratelimit::HandshakeLimiter and its two callers, the control and the    *)
(* data accept loop.  try_acquire is two steps: the attempt is checked     *)
(* against the address's sliding window and recorded under the lock, and   *)
(* the permit is taken from the semaphore after the lock is released, so   *)
(* the other loop can run in between.                                      *)
(***************************************************************************)
EXTENDS Integers, Sequences, FiniteSets, Deques, Clock

CONSTANTS MaxAttempts,    \* MAX_ATTEMPTS_PER_WINDOW (10)
          Window,         \* WINDOW, in ticks (60 s)
          MaxConcurrent,  \* MAX_CONCURRENT_HANDSHAKES (64)
          NoIP            \* an accept loop that holds no connection

ASSUME LimitsAssumption == /\ MaxAttempts \in Nat \ {0}
                           /\ Window \in Nat
                           /\ MaxConcurrent \in Nat \ {0}
                           /\ MaxTime \in Nat
ASSUME NoIPAssumption == NoIP \notin IPs

Loops == {"control", "data"}

VARIABLES
  attempts,  \* per_ip: the deque of recorded attempts of each address
  admitted,  \* history: every attempt an address's window let through
  permits,   \* free permits of the semaphore
  loop,      \* the locals of each accept loop between the two steps
  shakes     \* running handshakes: <<ip, n>>, the n-th admitted attempt of ip

limiterVars == <<now, attempts, admitted, permits, loop, shakes>>

AtAccept == [ip |-> NoIP, nth |-> 0]

LimiterTypeOK ==
  /\ now \in Nat
  /\ attempts \in [IPs -> Seq(Nat)]
  /\ admitted \in [IPs -> Seq(Nat)]
  /\ permits \in 0 .. MaxConcurrent
  /\ loop \in [Loops -> [ip : IPs \cup {NoIP}, nth : Nat]]
  /\ shakes \in SUBSET (IPs \X Nat)

LimiterInit ==
  /\ now = 0
  /\ attempts = [ip \in IPs |-> << >>]
  /\ admitted = [ip \in IPs |-> << >>]
  /\ permits = MaxConcurrent
  /\ loop = [a \in Loops |-> AtAccept]
  /\ shakes = {}

\* The attempts since the cutoff, now - WINDOW.
Prune(s) == PopOlder(s, now - Window)

\* The address's window has no room for one more attempt.
WindowFull(ip) == Len(Prune(attempts[ip])) >= MaxAttempts
-----------------------------------------------------------------------------
\* An accept loop accepts from ip, whose window has room: the attempt counts
\* from now on, whatever the semaphore answers.
AdmitAttempt(a, ip) ==
  /\ loop[a] = AtAccept
  /\ ~WindowFull(ip)
  /\ attempts' = [attempts EXCEPT ![ip] = Append(Prune(attempts[ip]), now)]
  /\ admitted' = [admitted EXCEPT ![ip] = Append(admitted[ip], now)]
  /\ loop' = [loop EXCEPT ![a] = [ip |-> ip, nth |-> Len(admitted[ip]) + 1]]
  /\ UNCHANGED <<now, permits, shakes>>

\* The window is full: the connection is dropped, the pruned deque stays.
WindowRefuses(a, ip) ==
  /\ loop[a] = AtAccept
  /\ WindowFull(ip)
  /\ attempts' = [attempts EXCEPT ![ip] = Prune(attempts[ip])]
  /\ UNCHANGED <<now, admitted, permits, loop, shakes>>

\* try_acquire_owned succeeds; the loop spawns the handshake with its permit.
TakePermit(a) ==
  /\ loop[a] # AtAccept
  /\ permits > 0
  /\ permits' = permits - 1
  /\ shakes' = shakes \cup {<<loop[a].ip, loop[a].nth>>}
  /\ loop' = [loop EXCEPT ![a] = AtAccept]
  /\ UNCHANGED <<now, attempts, admitted>>

\* No permit is free: the connection is dropped, its attempt stays recorded.
CapRefuses(a) ==
  /\ loop[a] # AtAccept
  /\ permits = 0
  /\ loop' = [loop EXCEPT ![a] = AtAccept]
  /\ UNCHANGED <<now, attempts, admitted, permits, shakes>>

\* Mutant: the permit is released twice, by drop and at the end of the task.
HandshakeReleasesTwice(s) ==
  /\ s \in shakes
  /\ shakes' = shakes \ {s}
  /\ permits' = permits + 2
  /\ UNCHANGED <<now, attempts, admitted, loop>>

\* Mutant: the permit moves into the session and outlives the handshake.
HandshakeKeepsPermit(s) ==
  /\ s \in shakes
  /\ shakes' = shakes \ {s}
  /\ UNCHANGED <<now, attempts, admitted, permits, loop>>

\* The handshake succeeds, fails or times out: its permit is dropped.
HandshakeEnds(s) ==
  /\ s \in shakes
  /\ shakes' = shakes \ {s}
  /\ permits' = permits + 1
  /\ UNCHANGED <<now, attempts, admitted, loop>>

Tick == /\ now < MaxTime
        /\ now' = now + 1
        /\ UNCHANGED <<attempts, admitted, permits, loop, shakes>>

LoopStep(a) == \/ TakePermit(a) \/ CapRefuses(a)
               \/ \E ip \in IPs : AdmitAttempt(a, ip) \/ WindowRefuses(a, ip)

LimiterNext == \/ \E a \in Loops : LoopStep(a)
               \/ \E s \in shakes : HandshakeEnds(s)
               \/ Tick

LimiterSpec == LimiterInit /\ [][LimiterNext]_limiterVars
-----------------------------------------------------------------------------
\* Any MaxAttempts + 1 attempts that one address got through its window span
\* more than WINDOW, however the two accept loops interleave: an attempt is
\* never forgotten while it still counts.
SlidingWindow == \A ip \in IPs : \A i \in DOMAIN admitted[ip] :
                   i + MaxAttempts \in DOMAIN admitted[ip] =>
                     admitted[ip][i + MaxAttempts] > admitted[ip][i] + Window

\* Every permit is either free or held by exactly one running handshake, so
\* at most MaxConcurrent handshakes run and none of the permits leaks.
PermitsConserved == permits + Cardinality(shakes) = MaxConcurrent
=============================================================================
