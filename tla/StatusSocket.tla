---------------------------- MODULE StatusSocket ----------------------------
(***************************************************************************)
(* Daemon processes of one configuration on one machine: they start, crash *)
(* and start again, a second one may be started by mistake, and all use    *)
(* the same path for the status socket.  The first holds the listeners and *)
(* so the streams of DataStreams; a later one fails to bind them and goes  *)
(* on running.  Whoever asks for the status gets a snapshot that is read   *)
(* one counter at a time while the streams go on.                          *)
(***************************************************************************)
EXTENDS DataStreams

CONSTANT MaxStarts \* bound on the processes that are started

\* Processes in the order in which they are started.
Daemons == 1..MaxStarts

ASSUME DaemonsAssumption == MaxStarts \in Nat /\ None \notin Daemons

VARIABLES proc,      \* where run_ipc_server of a process is, "off" if none runs
          socket,    \* the process that bound the path last, None if it is gone
          listening, \* the process that holds the data listeners, or None
          clear,     \* history: no other process started during its start, and
                     \* the file system refused it nothing
          reading,   \* a snapshot being taken, or None
          starts     \* the last process started, 0 before the first

socketVars == <<proc, socket, listening, clear, starts>>
statusVars == <<dataVars, socketVars, reading>>

InStart == {d \in Daemons : proc[d] \in {"starting", "removed"}}
Fields  == {"active", "total"}   \* the counters a property looks at

StatusTypeOK ==
  /\ DataTypeOK
  /\ proc \in [Daemons -> {"off", "starting", "removed", "answering", "deaf"}]
  /\ socket \in Daemons \cup {None} /\ listening \in Daemons \cup {None}
  /\ clear \subseteq Daemons
  /\ starts \in 0..MaxStarts
  /\ reading # None =>
       reading \in [from : Daemons, link : DOMAIN Link, loaded : SUBSET Fields,
                    seen : [active : Nat, total : Nat], late : 0..Cardinality(Streams)]

StatusInit == /\ DataInit
              /\ proc = [d \in Daemons |-> "off"] /\ socket = None /\ listening = None
              /\ clear = {} /\ reading = None /\ starts = 0
-----------------------------------------------------------------------------
\* run_daemon: zeroed SharedState; the listeners go to the first process.
Start(d) ==
  /\ d = starts + 1
  /\ proc' = [proc EXCEPT ![d] = "starting"]
  /\ listening' = IF listening = None THEN d ELSE listening
  /\ clear' = IF InStart = {} THEN clear \cup {d} ELSE clear \ InStart
  /\ starts' = d
  /\ UNCHANGED <<dataVars, socket, reading>>

\* The process is killed or panics: its streams and counters are gone, its
\* socket file is not.  A snapshot it was sending is cut short.
Crash(d) ==
  /\ proc[d] # "off"
  /\ proc' = [proc EXCEPT ![d] = "off"]
  /\ clear' = clear \ {d}
  /\ reading' = IF reading # None /\ reading.from = d THEN None ELSE reading
  /\ IF listening = d
     THEN listening' = None /\ stats' = ZeroStats /\ stream' = [s \in Streams |-> NewStream]
     ELSE UNCHANGED <<listening, stream, stats>>
  /\ UNCHANGED <<role, socket, starts>>

Moves(d, from, to) == proc[d] = from /\ proc' = [proc EXCEPT ![d] = to]

NoDirectory(d) == /\ Moves(d, "starting", "deaf")
                  /\ clear' = clear \ {d}
                  /\ UNCHANGED <<dataVars, socket, listening, starts, reading>>

\* Mutant: a file at the path is left where it is.
KeepSocket(d) == /\ Moves(d, "starting", "removed")
                 /\ UNCHANGED <<dataVars, socket, listening, clear, starts, reading>>

\* remove_file, whoever the socket belongs to; that there is none is ignored.
RemoveSocket(d) == /\ Moves(d, "starting", "removed")
                   /\ socket' = None
                   /\ UNCHANGED <<dataVars, listening, clear, starts, reading>>

\* remove_file is refused: that, too, is ignored.
RemoveFails(d) == /\ socket # None /\ Moves(d, "starting", "removed")
                  /\ clear' = clear \ {d}
                  /\ UNCHANGED <<dataVars, socket, listening, starts, reading>>

\* UnixListener::bind succeeds, or fails because something is at the path or
\* for a reason of the file system (permissions, the length of the path, a
\* directory at it): the process goes on without a status socket.
BindSocket(d) == /\ socket = None /\ Moves(d, "removed", "answering")
                 /\ socket' = d
                 /\ UNCHANGED <<dataVars, listening, clear, starts, reading>>

BindFails(d) == /\ Moves(d, "removed", "deaf")
                /\ \/ socket # None /\ UNCHANGED clear
                   \/ clear' = clear \ {d}
                /\ UNCHANGED <<dataVars, socket, listening, starts, reading>>
-----------------------------------------------------------------------------
Opening(l) == Cardinality({s \in Streams : stream[s].link = l /\ stream[s].at = "opening"})

\* accept, then SharedState::snapshot begins with one of the links.
Query(l) == /\ reading = None /\ socket # None /\ proc[socket] = "answering"
            /\ reading' = [from |-> socket, link |-> l, loaded |-> {},
                           seen |-> [active |-> 0, total |-> 0],
                           late |-> IF socket = listening THEN Opening(l) ELSE 0]
            /\ UNCHANGED <<dataVars, socketVars>>

\* One counter is loaded.  The loads are relaxed: they, and the updates of a
\* relay, may take effect in any order.  A process without listeners has
\* counted nothing.
Load(f) ==
  /\ reading # None /\ f \notin reading.loaded
  /\ LET now == IF reading.from = listening THEN stats[reading.link] ELSE NoStats
     IN reading' = [reading EXCEPT !.loaded = @ \cup {f},
                      !.seen = IF f = "active" THEN [@ EXCEPT !.active = now.active]
                               ELSE [@ EXCEPT !.total = now.total]]
  /\ UNCHANGED <<dataVars, socketVars>>

\* Streams go on meanwhile; history: relays that the process being read opened
\* on the link being read.
StreamsGoOn ==
  /\ listening # None
  /\ \E s \in Streams : StreamStep(s)
  /\ reading' = IF /\ reading # None /\ reading.from = listening
                   /\ stats'[reading.link].active > stats[reading.link].active
                THEN [reading EXCEPT !.late = @ + 1] ELSE reading
  /\ UNCHANGED socketVars

\* The byte counters are loaded, the answer is written out and the connection closed.
Respond == /\ reading # None /\ reading.loaded = Fields
           /\ reading' = None
           /\ UNCHANGED <<dataVars, socketVars>>
-----------------------------------------------------------------------------
ProcStep(d) == \/ Start(d) \/ Crash(d) \/ NoDirectory(d)
               \/ RemoveSocket(d) \/ RemoveFails(d) \/ BindSocket(d) \/ BindFails(d)

StatusNext == \/ \E d \in Daemons : ProcStep(d)
              \/ StreamsGoOn
              \/ \E l \in DOMAIN Link : Query(l)
              \/ \E f \in Fields : Load(f)
              \/ Respond

StatusFairness ==
  \A s \in Streams : WF_statusVars(Proceeds(s) /\ UNCHANGED <<socketVars, reading>>)

StatusSpec == StatusInit /\ [][StatusNext]_statusVars /\ StatusFairness
-----------------------------------------------------------------------------
\* A daemon that starts while no other is starting, and whose file operations
\* are not refused, gets its status socket, whatever a crash left at the path:
\* between remove_file and bind nothing but another start puts a file there.
StaleSocketReplaced == \A d \in Daemons : proc[d] = "deaf" => d \notin clear

\* A snapshot shows more active streams than were ever opened only by those
\* that were being opened while it was taken: what is torn heals by itself.
ActiveWithinTotal ==
  reading # None /\ reading.loaded = Fields =>
    reading.seen.active <= reading.seen.total + reading.late
=============================================================================
