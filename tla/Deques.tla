------------------------------- MODULE Deques -------------------------------
(***************************************************************************)
(* The sliding-window deque that HandshakeLimiter and FailureTracker both  *)
(* keep per address: a sequence of times, oldest first.                    *)
(***************************************************************************)
EXTENDS Integers, Sequences

\* Mutant: an entry as old as the cutoff is popped too.
PopUpTo(s, cutoff) ==
  LET kept == {i \in DOMAIN s : s[i] > cutoff}
  IN  IF kept = {} THEN << >>
      ELSE SubSeq(s, CHOOSE i \in kept : \A j \in kept : i <= j, Len(s))

\* pop_front while the front is older than the cutoff.
PopOlder(s, cutoff) ==
  LET kept == {i \in DOMAIN s : s[i] >= cutoff}
  IN  IF kept = {} THEN << >>
      ELSE SubSeq(s, CHOOSE i \in kept : \A j \in kept : i <= j, Len(s))
=============================================================================
