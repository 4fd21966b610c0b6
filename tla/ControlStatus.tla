---------------------------- MODULE ControlStatus ----------------------------
(***************************************************************************)
(* ControlStatus of stats.rs: a flag and three values, each stored and     *)
(* loaded on its own.  The loop that serves control sessions, of either    *)
(* role, stores them when a session begins and clears the flag when it     *)
(* ends; a status query loads them one after the other while that goes on. *)
(*                                                                         *)
(* A value is the number of the session that stored it, 0 for none: the    *)
(* time, the address and the name of a session are told apart by nothing   *)
(* else.  The flag is a relaxed atomic; the locks of the other three order *)
(* what comes before and after them, so no step can be seen out of order.  *)
(***************************************************************************)
EXTENDS Naturals

CONSTANT MaxSessions   \* bound: control sessions served

ASSUME StatusAssumption == MaxSessions \in Nat

VARIABLES
  stage,     \* where the loop is: the next value set_connected stores
  count,     \* sessions begun so far
  status,    \* the ControlStatus
  view       \* the snapshot being taken, with two histories: the sessions
             \* begun, and whether all of them were stored, at its first load

statusVars == <<stage, count, status, view>>

Numbers == 0..MaxSessions
Statuses == [connected : BOOLEAN, since : Numbers, addr : Numbers, name : Numbers]
Views == [at : {"none", "since", "addr", "name", "done"}, connected : BOOLEAN,
          since : Numbers, addr : Numbers, name : Numbers,
          from : Numbers, settled : BOOLEAN]

StatusTypeOK ==
  /\ stage \in {"idle", "since", "addr", "name", "serving"}
  /\ count \in Numbers
  /\ status \in Statuses
  /\ view \in Views

StatusInit ==
  /\ stage = "idle" /\ count = 0
  /\ status = [connected |-> FALSE, since |-> 0, addr |-> 0, name |-> 0]
  /\ view = [at |-> "none", connected |-> FALSE, since |-> 0, addr |-> 0, name |-> 0,
             from |-> 0, settled |-> TRUE]
-----------------------------------------------------------------------------
(***************************************************************************)
(* The session loop: set_connected, a session, set_disconnected.           *)
(***************************************************************************)
\* A connection is taken from the queue; the flag is stored first.
StoreConnected ==
  /\ stage = "idle" /\ count < MaxSessions
  /\ count' = count + 1
  /\ status' = [status EXCEPT !.connected = TRUE]
  /\ stage' = "since" /\ UNCHANGED view

StoreSince ==
  /\ stage = "since"
  /\ status' = [status EXCEPT !.since = count]
  /\ stage' = "addr" /\ UNCHANGED <<count, view>>

StoreAddr ==
  /\ stage = "addr"
  /\ status' = [status EXCEPT !.addr = count]
  /\ stage' = "name" /\ UNCHANGED <<count, view>>

\* Mutant: a name that is already there is kept.
StoreFirstName ==
  /\ stage = "name"
  /\ status' = [status EXCEPT !.name = IF status.name = 0 THEN count ELSE status.name]
  /\ stage' = "serving" /\ UNCHANGED <<count, view>>

StoreName ==
  /\ stage = "name"
  /\ status' = [status EXCEPT !.name = count]
  /\ stage' = "serving" /\ UNCHANGED <<count, view>>

\* The session has ended; only the flag changes.
StoreDisconnected ==
  /\ stage = "serving"
  /\ status' = [status EXCEPT !.connected = FALSE]
  /\ stage' = "idle" /\ UNCHANGED <<count, view>>
-----------------------------------------------------------------------------
(***************************************************************************)
(* SharedState::snapshot.                                                  *)
(***************************************************************************)
LoadConnected ==
  /\ view.at \in {"none", "done"}
  /\ view' = [at |-> "since", connected |-> status.connected,
              since |-> 0, addr |-> 0, name |-> 0,
              from |-> count, settled |-> stage \in {"idle", "serving"}]
  /\ UNCHANGED <<stage, count, status>>

\* The time is left out of a snapshot that says disconnected.
LoadSince ==
  /\ view.at = "since"
  /\ view' = [view EXCEPT !.at = "addr",
                          !.since = IF view.connected THEN status.since ELSE 0]
  /\ UNCHANGED <<stage, count, status>>

LoadAddr ==
  /\ view.at = "addr"
  /\ view' = [view EXCEPT !.at = "name", !.addr = status.addr]
  /\ UNCHANGED <<stage, count, status>>

LoadName ==
  /\ view.at = "name"
  /\ view' = [view EXCEPT !.at = "done", !.name = status.name]
  /\ UNCHANGED <<stage, count, status>>
-----------------------------------------------------------------------------
StatusNext ==
  \/ StoreConnected \/ StoreSince \/ StoreAddr \/ StoreName \/ StoreDisconnected
  \/ LoadConnected \/ LoadSince \/ LoadAddr \/ LoadName

StatusSpec == StatusInit /\ [][StatusNext]_statusVars
-----------------------------------------------------------------------------
\* The oldest session a snapshot may tell of: the last one begun when it was
\* started, or the one before if set_connected was not through with that one.
Oldest == IF view.settled THEN view.from ELSE view.from - 1

\* A snapshot never goes back further than that, however sessions come and go
\* while it is taken: its time, address and name are those of the session that
\* was running or the last to run when it began, or of a later one; only a
\* query that falls into set_connected can show the session before, as
\* connected (stats.rs stores the flag first, and set_disconnected leaves the
\* old name in place).  A point in time, as the comment on snapshot has it, it is
\* not: in between it can show the values of two sessions.
SnapshotIsRecent ==
  view.at = "done" => /\ view.addr >= Oldest
                      /\ view.name >= Oldest
                      /\ view.connected => view.since >= Oldest
=============================================================================
