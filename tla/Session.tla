------------------------------ MODULE Session ------------------------------
(***************************************************************************)
(* The lifecycle of telnet connections in src/src/mud/telnet.cc: the       *)
(* constructor, activity stamping in process_command, set_mode, begin_mccp *)
(* and end_mccp, check_time, hangup and disconnect, for several           *)
(* connections that share the per-host connection count kept by           *)
(* NetworkManager.connections.                                             *)
(*                                                                         *)
(* The network manager is not part of the sources.  Its contract, as the  *)
(* handler's interface shows it, is modelled: it counts a connection when *)
(* it accepts it (IPConnList::add, refusing beyond MaxPerHost), it calls   *)
(* check_time periodically on every handler it holds and drops a handler *)
(* when check_time returns 1, and it reports a hangup on an open socket.  *)
(*                                                                         *)
(* Time is kept as the number of timeout units since in_stamp, saturating *)
(* at Timeout: check_time only compares that difference with the timeout. *)
(***************************************************************************)
EXTENDS Integers, FiniteSets

CONSTANTS
    Handlers,    \* connections, as model values
    Addr,        \* the peer address of each connection
    Modes,       \* the modes a connection goes through (login, play)
    MaxPerHost,  \* per-host limit of IPConnList::add
    Timeout,     \* the activity timeout, in ticks
    MaxReads     \* reads per connection

NoMode == "none"

VARIABLES
    hs,      \* per connection: the handler's fields and ghost counters
    conns    \* NetworkManager.connections: connections counted per address

vars == <<hs, conns>>

Hosts == {Addr[h] : h \in Handlers}

\* A connection the manager has not accepted yet.
Unborn == [created |-> FALSE, sock |-> FALSE, registered |-> FALSE,
           mode |-> NoMode, used |-> {}, zstate |-> FALSE,
           idle |-> 0, quiet |-> 0, reads |-> 0,
           removes |-> 0, closes |-> 0, zends |-> 0,
           shut |-> [m \in Modes |-> 0], notices |-> 0]

\* end_mccp: deflateEnd and NULL when a stream exists.
EndMccp(r) ==
    IF r.zstate THEN [r EXCEPT !.zstate = FALSE, !.zends = @ + 1] ELSE r

DisconnectKeepsMode(r) ==
    LET z == EndMccp([r EXCEPT !.removes = @ + 1])
        m == IF z.mode # NoMode THEN [z EXCEPT !.shut[z.mode] = @ + 1] ELSE z
    IN  IF m.sock THEN [m EXCEPT !.sock = FALSE, !.closes = @ + 1] ELSE m

\* disconnect: connections.remove(addr), end_mccp, shut the mode down and
\* forget it, close the socket if it is open.
Disconnect(r) ==
    LET z == EndMccp([r EXCEPT !.removes = @ + 1])
        m == IF z.mode # NoMode
             THEN [z EXCEPT !.shut[z.mode] = @ + 1, !.mode = NoMode] ELSE z
    IN  IF m.sock THEN [m EXCEPT !.sock = FALSE, !.closes = @ + 1] ELSE m

\* The per-host count after one connections.remove(addr) of handler h.
Removed(h) == [conns EXCEPT ![Addr[h]] = @ - 1]

\* The manager accepts a connection (IPConnList::add) and constructs its
\* handler: socket open, no mode, no compression, in_stamp = now.
Accept(h) ==
    /\ ~hs[h].created
    /\ conns[Addr[h]] < MaxPerHost
    /\ hs' = [hs EXCEPT ![h] = [Unborn EXCEPT !.created = TRUE, !.sock = TRUE,
                                              !.registered = TRUE]]
    /\ conns' = [conns EXCEPT ![Addr[h]] = @ + 1]

\* in_handle: bytes arrive.  Only a complete line reaches process_command,
\* which stamps in_stamp; negotiation or a partial line does not.
Read(h, line) ==
    /\ hs[h].sock
    /\ hs[h].reads < MaxReads
    /\ hs' = [hs EXCEPT ![h].reads = @ + 1, ![h].quiet = 0,
                        ![h].idle = IF line THEN 0 ELSE @]
    /\ UNCHANGED conns

\* A line after which the mode ends the session (mode->process calls the
\* handler's disconnect).
Quit(h) ==
    /\ hs[h].sock
    /\ hs[h].mode # NoMode
    /\ hs[h].reads < MaxReads
    /\ hs' = [hs EXCEPT ![h] = Disconnect([@ EXCEPT !.reads = @ + 1, !.quiet = 0,
                                                     !.idle = 0])]
    /\ conns' = Removed(h)

\* set_mode: shut the old mode down, install the new one; if its
\* initialize() fails, forget it and disconnect.
SetMode(h, m, initOk) ==
    /\ hs[h].sock
    /\ m \notin hs[h].used
    /\ LET r0 == [hs[h] EXCEPT !.used = @ \cup {m}]
           r1 == IF r0.mode # NoMode THEN [r0 EXCEPT !.shut[r0.mode] = @ + 1] ELSE r0
           r2 == [r1 EXCEPT !.mode = m]
       IN  IF initOk
           THEN /\ hs' = [hs EXCEPT ![h] = r2]
                /\ UNCHANGED conns
           ELSE /\ hs' = [hs EXCEPT ![h] = Disconnect([r2 EXCEPT !.mode = NoMode])]
                /\ conns' = Removed(h)

\* begin_mccp when deflateInit succeeds.
BeginMccp(h) ==
    /\ hs[h].sock
    /\ ~hs[h].zstate
    /\ hs' = [hs EXCEPT ![h].zstate = TRUE]
    /\ UNCHANGED conns

CheckTimeSkipsClosed(h) ==
    /\ hs[h].registered
    /\ hs[h].sock
    /\ hs[h].idle >= Timeout
    /\ hs' = [hs EXCEPT ![h] = [Disconnect(@) EXCEPT !.notices = @ + 1,
                                                     !.registered = FALSE]]
    /\ conns' = Removed(h)

\* check_time, called by the manager on a handler it holds: once in_stamp
\* is Timeout old, queue the notice, disconnect and return 1, upon which
\* the manager drops the handler.  Otherwise it returns 0 and nothing
\* changes.
CheckTime(h) ==
    /\ hs[h].registered
    /\ hs[h].idle >= Timeout
    /\ hs' = [hs EXCEPT ![h] = [Disconnect(@) EXCEPT !.notices = @ + 1,
                                                     !.registered = FALSE]]
    /\ conns' = Removed(h)

\* hangup: the manager saw the peer close an open socket.
Hangup(h) ==
    /\ hs[h].sock
    /\ hs' = [hs EXCEPT ![h] = Disconnect(@)]
    /\ conns' = Removed(h)

\* A timeout unit passes.
Tick ==
    /\ \E h \in Handlers : hs[h].created /\ (hs[h].idle < Timeout \/ hs[h].quiet < Timeout)
    /\ hs' = [h \in Handlers |->
                IF hs[h].created
                THEN [hs[h] EXCEPT !.idle = IF @ < Timeout THEN @ + 1 ELSE @,
                                   !.quiet = IF @ < Timeout THEN @ + 1 ELSE @]
                ELSE hs[h]]
    /\ UNCHANGED conns

Init ==
    /\ hs = [h \in Handlers |-> Unborn]
    /\ conns = [a \in Hosts |-> 0]

Next ==
    \/ \E h \in Handlers :
          \/ Accept(h)
          \/ \E line \in BOOLEAN : Read(h, line)
          \/ Quit(h)
          \/ \E m \in Modes, ok \in BOOLEAN : SetMode(h, m, ok)
          \/ BeginMccp(h)
          \/ CheckTime(h)
          \/ Hangup(h)
    \/ Tick

\* The manager calls check_time on every handler it holds, and time passes.
Spec == Init /\ [][Next]_vars /\ WF_vars(Tick) /\ \A h \in Handlers : WF_vars(CheckTime(h))

-----------------------------------------------------------------------------
(* Properties *)

TypeOK ==
    /\ \A h \in Handlers :
         /\ hs[h].mode \in Modes \cup {NoMode}
         /\ hs[h].idle \in 0..Timeout /\ hs[h].quiet \in 0..Timeout
         /\ hs[h].reads \in 0..MaxReads
    /\ conns \in [Hosts -> Int]

\* Teardown releases each resource once, however often disconnect runs
\* (quit, set_mode failure, hangup, then the timeout): the socket is
\* closed once, deflateEnd runs once per stream, every mode is shut down
\* once.
ReleasedOnce ==
    \A h \in Handlers :
        /\ hs[h].closes <= 1
        /\ hs[h].zends <= 1
        /\ \A m \in Modes : hs[h].shut[m] <= 1

\* The manager eventually lets go of every connection it accepted, once
\* its peer goes quiet, whatever ended it.
EveryConnectionEnds ==
    \A h \in Handlers : hs[h].created ~> ~hs[h].registered

\* The per-host count is the number of this host's connections that are
\* not torn down: teardown is idempotent (spec section 6) and counts a
\* connection off once.
ConnCountAccurate ==
    \A a \in Hosts :
        conns[a] = Cardinality({h \in Handlers : Addr[h] = a /\ hs[h].created
                                                /\ hs[h].removes = 0})

\* Spec section 6: the activity stamp is refreshed on every inbound read,
\* so check_time disconnects only a connection that sent nothing for the
\* whole timeout.
OnlyIdleTimedOut ==
    [][\A h \in Handlers :
         hs'[h].notices > hs[h].notices => hs[h].quiet >= Timeout]_vars
=============================================================================
