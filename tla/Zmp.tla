-------------------------------- MODULE Zmp --------------------------------
(***************************************************************************)
(* The ZMP application channel of src/src/mud/zmp.cc: the command         *)
(* registry of SZMPManager (initialize, add, lookup, match), the decoding *)
(* of a ZMP subnegotiation in TelnetHandler::process_zmp (check_zmp_chunk *)
(* and the argv loop), the built-in handlers, zmp_support and send_zmp    *)
(* with its IAC doubling and NUL termination.                              *)
(*                                                                         *)
(* A ZMP payload is a sequence of bytes; to keep names readable a byte is  *)
(* a word ("zmp", "ping", ...) or the separator ".", with NUL, IAC and a   *)
(* non-printable CTL as the bytes the framing rules single out.  Names    *)
(* are compared byte by byte, and since "." is a byte of its own the      *)
(* strncmp prefix tests of lookup and match keep their meaning.            *)
(***************************************************************************)
EXTENDS Integers, Sequences, SequencesExt

CONSTANTS
    Payloads,     \* the ZMP payloads (after IAC SB ZMP, unstuffed) a peer sends
    ScriptNames,  \* names game scripts register handlers under
    ArgvSize,     \* argv_size of process_zmp: 20 in the code
    NumCTypes,    \* NUM_CTYPES: one color.define message per colour type but 0
    MaxSteps      \* bound on DO ZMP, payloads and registrations

NUL == "NUL"
IAC == "IAC"
CTL == "CTL"
SB == "SB"
SE == "SE"
TELOPT_ZMP == "ZMP"
Dot == "."

ZmpPing      == <<"zmp", Dot, "ping">>
ZmpCheck     == <<"zmp", Dot, "check">>
ZmpSupport   == <<"zmp", Dot, "support">>
ZmpNoSupport == <<"zmp", Dot, "no-support">>
ZmpInput     == <<"zmp", Dot, "input">>
ZmpIdent     == <<"zmp", Dot, "ident">>
ZmpTime      == <<"zmp", Dot, "time">>
ColorDefine  == <<"color", Dot, "define">>
NetAwemud    == <<"net", Dot, "awemud", Dot>>
Packages     == {ColorDefine, NetAwemud}

\* A string argument standing for text the model does not tell apart (the
\* time, the server name, a colour name).
Text == <<"x">>

VARIABLES
    commands,    \* SZMPManager::commands, in registration order
    conn,        \* the ZMP part of one TelnetHandler
    dispatched,  \* the last handler call: payload, entry, argv (ghost)
    announced,   \* per package, the peer's last support/no-support (ghost)
    steps

vars == <<commands, conn, dispatched, announced, steps>>

-----------------------------------------------------------------------------
(* The registry *)

\* SZMPManager::add: a name ending in "." is a wild-card (package) entry.
Entry(name, fn) == [name |-> name, wild |-> Last(name) = Dot, fn |-> fn]

\* SZMPManager::initialize, run once at start-up.
Builtins == <<Entry(ZmpPing, "ping"), Entry(ZmpCheck, "check"),
              Entry(ZmpSupport, "support"), Entry(ZmpInput, "input")>>

\* SZMPManager::lookup: the first entry, in list order, that is a wild
\* prefix of name or equal to it; 0 for NULL.
Lookup(cmds, name) ==
    SelectInSeq(cmds, LAMBDA c : IF c.wild THEN IsPrefix(c.name, name) ELSE c.name = name)

MatchNoWild(cmds, pattern) ==
    LET package == pattern # <<>> /\ Last(pattern) = Dot
    IN  /\ pattern # <<>>
        /\ \E i \in DOMAIN cmds :
              \/ package /\ IsPrefix(pattern, cmds[i].name)
              \/ ~package /\ cmds[i].name = pattern

\* SZMPManager::match: a package pattern matches any name inside it, a
\* plain pattern its exact name or a wild entry that is a prefix of it.
Match(cmds, pattern) ==
    LET package == pattern # <<>> /\ Last(pattern) = Dot
    IN  /\ pattern # <<>>
        /\ \E i \in DOMAIN cmds :
              \/ package /\ IsPrefix(pattern, cmds[i].name)
              \/ ~package /\ cmds[i].name = pattern
              \/ cmds[i].wild /\ IsPrefix(cmds[i].name, pattern)

-----------------------------------------------------------------------------
(* Decoding: check_zmp_chunk and the argv loop of process_zmp *)

\* check_zmp_chunk: at least two bytes, a printable first byte, a NUL last.
CheckZmpChunk(d) ==
    /\ Len(d) >= 2
    /\ d[1] \notin {NUL, IAC, CTL}
    /\ Last(d) = NUL

\* The C string starting at byte i.
StringAt(d, i) == SubSeq(d, i, Min({j \in i..Len(d) : d[j] = NUL} \cup {Len(d) + 1}) - 1)

ParseArgvPastEnd(d) ==
    LET seps   == SetToSortSeq({i \in DOMAIN d : d[i] = NUL /\ i < Len(d)}, <)
        starts == <<1>> \o [j \in DOMAIN seps |-> seps[j] + 1]
        argc   == Min({ArgvSize + 1, Len(starts)})
    IN  [k \in 1..argc |-> StringAt(d, starts[k])]

\* argv[0] is the payload; while argc < argv_size, skip to the next NUL,
\* stop if it is the last byte, else the next argument starts after it.
ParseArgv(d) ==
    LET seps   == SetToSortSeq({i \in DOMAIN d : d[i] = NUL /\ i < Len(d)}, <)
        starts == <<1>> \o [j \in DOMAIN seps |-> seps[j] + 1]
        argc   == Min({ArgvSize, Len(starts)})
    IN  [k \in 1..argc |-> StringAt(d, starts[k])]

-----------------------------------------------------------------------------
(* Encoding: send_zmp *)

EncodeArgNoNul(a) ==
    FoldLeft(LAMBDA acc, b : IF b = IAC THEN acc \o <<IAC, IAC>> ELSE Append(acc, b), <<>>, a)

\* One argument: the bytes up to each IAC, IAC IAC, and the rest with its
\* NUL (strlen + 1).
EncodeArg(a) ==
    Append(FoldLeft(LAMBDA acc, b : IF b = IAC THEN acc \o <<IAC, IAC>> ELSE Append(acc, b),
                    <<>>, a), NUL)

EncodeZmp(args) ==
    <<IAC, SB, TELOPT_ZMP>>
      \o FoldLeft(LAMBDA acc, a : acc \o EncodeArg(a), <<>>, args)
      \o <<IAC, SE>>

\* send_zmp: nothing without ZMP support or without a command name.
SendZmp(c, args) ==
    IF ~c.zmp \/ args = <<>> THEN c
    ELSE [c EXCEPT !.out = Append(@, EncodeZmp(args)), !.sent = Append(@, args)]

SendAll(c, msgs) == FoldLeft(SendZmp, c, msgs)

-----------------------------------------------------------------------------
(* Handlers *)

\* TelnetHandler::zmp_support: color.define switches ZMP colours and, when
\* on, defines every colour type; net.awemud. announces the name and the
\* two status bars.
ZmpSupportPkg(c, pkg, value) ==
    CASE pkg = ColorDefine ->
           LET c1 == [c EXCEPT !.zmp_color = value]
           IN  IF value
               THEN SendAll(c1, [i \in 1..NumCTypes - 1 |-> <<ColorDefine, Text, Text, Text>>])
               ELSE c1
      [] pkg = NetAwemud ->
           LET c1 == [c EXCEPT !.zmp_net_awemud = value]
           IN  IF value
               THEN SendAll(c1, << <<NetAwemud \o <<"name">>, Text>>,
                                   <<NetAwemud \o <<"status", Dot, "create">>, Text, Text, Text>>,
                                   <<NetAwemud \o <<"status", Dot, "create">>, Text, Text, Text>> >>)
               ELSE c1
      [] OTHER -> c

\* handle_zmp_ping: answer zmp.time with the current time.
HandleZmpPing(c, argv) == SendZmp(c, <<ZmpTime, Text>>)

\* handle_zmp_check: answer zmp.support or zmp.no-support for argv[1].
HandleZmpCheck(c, argv, cmds) ==
    IF Len(argv) # 2 THEN c
    ELSE IF Match(cmds, argv[2]) THEN SendZmp(c, <<ZmpSupport, argv[2]>>)
    ELSE SendZmp(c, <<ZmpNoSupport, argv[2]>>)

\* handle_zmp_support
HandleZmpSupport(c, argv) ==
    IF Len(argv) # 2 THEN c ELSE ZmpSupportPkg(c, argv[2], TRUE)

\* handle_zmp_input: the argument goes to process_command as a typed line.
HandleZmpInput(c, argv) ==
    IF Len(argv) # 2 THEN c ELSE [c EXCEPT !.processed = Append(@, argv[2])]

\* Invoke the entry's function; a script function only sees argc/argv.
Invoke(c, fn, argv, cmds) ==
    CASE fn = "ping"    -> HandleZmpPing(c, argv)
      [] fn = "check"   -> HandleZmpCheck(c, argv, cmds)
      [] fn = "support" -> HandleZmpSupport(c, argv)
      [] fn = "input"   -> HandleZmpInput(c, argv)
      [] OTHER          -> c

-----------------------------------------------------------------------------
(* Reference definitions, for the properties *)

\* The strings of a payload: the bytes between NULs.
SplitRef(d) ==
    FoldLeft(LAMBDA st, b : IF b = NUL THEN [done |-> Append(st.done, st.cur), cur |-> <<>>]
                            ELSE [st EXCEPT !.cur = Append(@, b)],
             [done |-> <<>>, cur |-> <<>>], d).done

\* Spec section 4.6: an exact entry if there is one, else the first
\* package entry that is a prefix of the name.
RefLookup(cmds, name) ==
    LET exact == SelectInSeq(cmds, LAMBDA c : ~c.wild /\ c.name = name)
    IN  IF exact # 0 THEN exact
        ELSE SelectInSeq(cmds, LAMBDA c : c.wild /\ IsPrefix(c.name, name))

\* How the peer decodes one ZMP frame: strip the framing, undo IAC IAC,
\* split at NULs.
Unstuff(s) ==
    FoldLeft(LAMBDA st, b : IF b = IAC /\ st.esc THEN [out |-> st.out, esc |-> FALSE]
                            ELSE [out |-> Append(st.out, b), esc |-> b = IAC],
             [out |-> <<>>, esc |-> FALSE], s).out
DecodeFrame(f) ==
    IF Len(f) >= 5 /\ SubSeq(f, 1, 3) = <<IAC, SB, TELOPT_ZMP>>
       /\ SubSeq(f, Len(f) - 1, Len(f)) = <<IAC, SE>>
    THEN SplitRef(Unstuff(SubSeq(f, 4, Len(f) - 2)))
    ELSE <<>>

\* The peer's own well-formed zmp.support / zmp.no-support about a package.
PeerAnnounces(p) ==
    LET s == SplitRef(p)
    IN  IF CheckZmpChunk(p) /\ Len(s) = 2 /\ s[2] \in Packages
           /\ s[1] \in {ZmpSupport, ZmpNoSupport}
        THEN [announced EXCEPT ![s[2]] = s[1] = ZmpSupport]
        ELSE announced

-----------------------------------------------------------------------------
(* Actions *)

\* DO ZMP (ISTATE_DO in mud/telnet.cc): ZMP on, zmp.ident, and checks for
\* the net.awemud. package and the color.define command.
DoZmp ==
    /\ steps < MaxSteps
    /\ steps' = steps + 1
    /\ conn' = SendAll([conn EXCEPT !.zmp = TRUE],
                       << <<ZmpIdent, Text, Text, Text>>,
                          <<ZmpCheck, NetAwemud>>, <<ZmpCheck, ColorDefine>> >>)
    /\ UNCHANGED <<commands, dispatched, announced>>

\* process_sb calls process_zmp only once ZMP is on.  The payload is
\* dropped unless check_zmp_chunk accepts it and lookup finds its name.
ProcessZmp(p) ==
    LET name == StringAt(p, 1)
        e    == Lookup(commands, name)
        argv == ParseArgv(p)
    IN  /\ steps < MaxSteps
        /\ conn.zmp
        /\ steps' = steps + 1
        /\ announced' = PeerAnnounces(p)
        /\ IF CheckZmpChunk(p) /\ e # 0
           THEN /\ conn' = Invoke(conn, commands[e].fn, argv, commands)
                /\ dispatched' = [payload |-> p, entry |-> e,
                                  ref |-> RefLookup(commands, name), argv |-> argv]
           ELSE UNCHANGED <<conn, dispatched>>
        /\ UNCHANGED commands

\* SZMPManager::add(name, ScriptFunction) from a game script.
ScriptAdd(name) ==
    /\ steps < MaxSteps
    /\ steps' = steps + 1
    /\ commands' = Append(commands, Entry(name, "script"))
    /\ UNCHANGED <<conn, dispatched, announced>>

Init ==
    /\ commands = Builtins
    /\ conn = [zmp |-> FALSE, zmp_color |-> FALSE, zmp_net_awemud |-> FALSE,
               sent |-> <<>>, out |-> <<>>, processed |-> <<>>]
    /\ dispatched = [payload |-> <<>>, entry |-> 0, ref |-> 0, argv |-> <<>>]
    /\ announced = [p \in Packages |-> FALSE]
    /\ steps = 0

Next ==
    \/ DoZmp
    \/ \E p \in Payloads : ProcessZmp(p)
    \/ \E n \in ScriptNames : ScriptAdd(n)

Spec == Init /\ [][Next]_vars

-----------------------------------------------------------------------------
(* Properties *)

TypeOK ==
    /\ \A i \in DOMAIN commands : commands[i].fn \in {"ping", "check", "support", "input", "script"}
    /\ conn.zmp \in BOOLEAN /\ conn.zmp_color \in BOOLEAN
    /\ Len(conn.out) = Len(conn.sent)
    /\ dispatched.entry \in 0..Len(commands)
    /\ steps \in 0..MaxSteps

\* process_zmp hands a handler exactly the NUL-separated strings of the
\* payload, the command name first, and never more than argv_size of them.
DispatchFramed ==
    dispatched.entry # 0 =>
        LET s == SplitRef(dispatched.payload)
        IN  dispatched.argv = SubSeq(s, 1, Min({ArgvSize, Len(s)}))

\* What zmp.check tells the peer agrees with what process_zmp would do: a
\* command name is reported supported exactly when lookup finds a handler.
CheckAgreesWithLookup ==
    \A p \in Payloads :
        LET n == StringAt(p, 1)
        IN  n # <<>> /\ Last(n) # Dot => (Match(commands, n) <=> Lookup(commands, n) # 0)

\* Every ZMP message the server sends decodes, at the peer, to the argument
\* list send_zmp was given.
SentRoundTrip ==
    \A i \in DOMAIN conn.out : DecodeFrame(conn.out[i]) = conn.sent[i]

\* Spec section 4.6: a name registered exactly is dispatched to its exact
\* entry even when a package entry also covers it.
LookupExactFirst == dispatched.entry = dispatched.ref

\* ZMP colours are in use exactly when the peer's last word about
\* color.define was zmp.support.
ColorAsAnnounced == conn.zmp_color = announced[ColorDefine]
=============================================================================
