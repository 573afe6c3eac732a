------------------------------ MODULE Realtime ------------------------------
(***************************************************************************)
(* The websocket that tells a page about its files                         *)
(* (chat/realtime.gateway.ts): an accepted socket has an interval that     *)
(* reads the jobs and sends them, until it disconnects.  The cookie is     *)
(* looked up before the interval starts, and nothing stops the process     *)
(* from ending when a promise of either rejects.                           *)
(***************************************************************************)
EXTENDS FiniteSets

CONSTANTS Sockets  \* the connections made in all (a bound)

VARIABLES
  socket,    \* socket -> "away", "open" or "closed"
  looking,   \* sockets whose cookie is being looked up
  reading,   \* sockets whose interval waits for the database
  timers,    \* the map: sockets that have an interval
  welcome,   \* history: sockets accepted while the process ran on
  hasty      \* history: sockets that closed while their cookie was looked up

realtimeVars == <<socket, looking, reading, timers, welcome, hasty>>

RealtimeInit ==
  /\ socket = [s \in Sockets |-> "away"]
  /\ looking = {} /\ reading = {} /\ timers = {} /\ welcome = {} /\ hasty = {}

Connects(s) ==
  /\ socket[s] = "away"
  /\ socket' = [socket EXCEPT ![s] = "open"]
  /\ looking' = looking \cup {s}
  /\ UNCHANGED <<reading, timers, welcome, hasty>>

\* The interval starts whether the socket is still open or not.
Accepts(s) ==
  /\ s \in looking
  /\ looking' = looking \ {s}
  /\ timers' = timers \cup {s} /\ welcome' = welcome \cup {s}
  /\ UNCHANGED <<socket, reading, hasty>>

\* No session: the close handshake follows, and Disconnects.
Refuses(s) ==
  /\ s \in looking
  /\ looking' = looking \ {s}
  /\ UNCHANGED <<socket, reading, timers, welcome, hasty>>

Ticks(s) ==
  /\ s \in timers \ reading /\ socket[s] = "open"
  /\ reading' = reading \cup {s}
  /\ UNCHANGED <<socket, looking, timers, welcome, hasty>>

Tells(s) ==
  /\ s \in reading
  /\ reading' = reading \ {s}
  /\ UNCHANGED <<socket, looking, timers, welcome, hasty>>

\* (slip: the interval is left to find its socket closed)
DisconnectsOnly(s) ==
  /\ socket[s] = "open"
  /\ socket' = [socket EXCEPT ![s] = "closed"]
  /\ hasty' = IF s \in looking THEN hasty \cup {s} ELSE hasty
  /\ UNCHANGED <<looking, reading, timers, welcome>>

Disconnects(s) ==
  /\ socket[s] = "open"
  /\ socket' = [socket EXCEPT ![s] = "closed"]
  /\ timers' = timers \ {s}
  /\ hasty' = IF s \in looking THEN hasty \cup {s} ELSE hasty
  /\ UNCHANGED <<looking, reading, welcome>>

\* A statement of either fails: nothing catches it, the process ends with every socket,
\* and is started again.
Breaks ==
  /\ looking \cup reading # {}
  /\ socket' = [s \in Sockets |-> IF socket[s] = "open" THEN "closed" ELSE socket[s]]
  /\ looking' = {} /\ reading' = {} /\ timers' = {} /\ welcome' = {}
  /\ UNCHANGED hasty

RealtimeNext ==
  \/ \E s \in Sockets : \/ Connects(s) \/ Accepts(s) \/ Refuses(s)
                        \/ Ticks(s) \/ Tells(s) \/ Disconnects(s)
  \/ Breaks

\* The intervals are those of the accepted sockets that are open: none is missing,
\* and one is left over only of a socket that closed before it was accepted.
TimersFollow ==
  LET open == {s \in welcome : socket[s] = "open"} IN
  open \subseteq timers /\ timers \subseteq open \cup hasty
==============================================================================
