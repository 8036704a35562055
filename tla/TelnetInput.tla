---------------------------- MODULE TelnetInput -----------------------------
(***************************************************************************)
(* The input side of one telnet connection, as written in                 *)
(* src/src/mud/telnet.cc: the byte decoder TelnetHandler::in_handle (text, *)
(* backspace, type-ahead limit, IAC commands, subnegotiation unstuffing,   *)
(* WILL/WONT/DO/DONT answers), process_sb, process_input, process_command, *)
(* process_telnet_command and toggle_echo, together with the peer that    *)
(* writes well-formed telnet units into a TCP stream.  The stream is read *)
(* in segments of any length, so a unit may be split across calls of      *)
(* in_handle or several units may arrive in one.                           *)
(*                                                                         *)
(* Bytes are integers.  Names a peer sends inside a subnegotiation         *)
(* ("XTERM", "ANSI", "SYSTEMTYPE", "WIN32") are one symbolic byte each, and *)
(* the words after "!" in a telnet command are one symbolic byte.  What    *)
(* the server writes back is kept only as the sequence of negotiation     *)
(* messages it sends (sent); echoed characters and text messages are       *)
(* output, modelled in TelnetOutput.                                       *)
(***************************************************************************)
EXTENDS Integers, Sequences, SequencesExt

CONSTANTS
  Lines,         \* lines the peer may type (byte sequences without NL)
  NegOpts,       \* options the peer may send WILL/WONT/DO/DONT about
  Blocks,        \* subnegotiation payloads the peer may send (option first)
  PeerErases,    \* whether the peer may send IAC EL (erase line)
  Junk,          \* values a read past the end of subrequest may produce
  BufferLines,   \* TELNET_BUFFER_LINES
  InputCap,      \* capacity of input when input.grow() fails
  SbCap,         \* capacity of subrequest when subrequest.grow() fails
  ReadMax,       \* largest segment one read() returns
  MaxSteps,      \* bound on the units the peer writes
  MaxToggles     \* bound on the calls of toggle_echo by the mode

ASSUME BufferLines \in Nat \ {0} /\ InputCap \in Nat /\ SbCap \in Nat
ASSUME ReadMax \in Nat \ {0} /\ MaxSteps \in Nat /\ MaxToggles \in Nat

\* arpa/telnet.h
IAC == 255
DONT == 254
DO == 253
WONT == 252
WILL == 251
SB == 250
EL == 248
EC == 247
SE == 240
TELOPT_ECHO == 1
TELOPT_TTYPE == 24
TELOPT_EOR == 25
TELOPT_NAWS == 31
TELOPT_LFLOW == 33
TELOPT_NEW_ENVIRON == 39
TELOPT_MCCP2 == 86
TELOPT_ZMP == 93
NL == 10
DEL == 127
BANG == 33
Printable == 32 .. 126                              \* isprint()
\* symbolic bytes for the names compared with memcmp in process_sb
XTERM == 200
ANSI == 201
SYSTEMTYPE == 202
WIN32 == 203
\* symbolic bytes for the words after "!" in process_telnet_command
ColorOn == 99
ColorOff == 100
EchoOn == 101
EchoOff == 102
Screen == 115

VARIABLES
  istate,       \* ISTATE_TEXT, _IAC, _SB, _SE, _WILL, _WONT, _DO, _DONT
  input,        \* input.data()[0 .. in_cnt-1]
  sub,          \* subrequest.data()[0 .. sb_cnt-1]
  io,           \* the IOFlags bits used by the input path
  width,
  height,
  zstate,       \* "none" (NULL), "on", or "broken" (deflateInit failed)
  sent,         \* negotiation messages the server wrote, as <<cmd, opt>>
  dispatched,   \* subrequests process_sb acted on, in order
  processed,    \* lines passed to process_command, in order
  wire,         \* bytes written by the peer and not yet read
  typed,        \* the lines the peer typed, as edited by the peer
  blocks,       \* the subnegotiation payloads the peer sent
  steps,        \* units written by the peer so far
  toggles       \* calls of toggle_echo so far

server == <<istate, input, sub, io, width, height, zstate, sent, dispatched,
            processed>>
vars == <<server, wire, typed, blocks, steps, toggles>>

(* The handler's fields as one record, so that in_handle is a fold of one *)
(* step per byte over it.                                                  *)
Handler ==
  [istate |-> istate, input |-> input, sub |-> sub, io |-> io,
   width |-> width, height |-> height, zstate |-> zstate, sent |-> sent,
   dispatched |-> dispatched, processed |-> processed]

Send(h, msgs) == [h EXCEPT !.sent = @ \o msgs]

-----------------------------------------------------------------------------
(* ISTATE_TEXT                                                             *)

NthNewline(s, n) ==
  {i \in DOMAIN s : s[i] = NL /\ Cardinality({j \in 1 .. i : s[j] = NL}) = n}

\* the type-ahead check run after each newline: keep the first BufferLines
\* lines and cut what follows them
\* mutant: the cut also drops the last kept newline
TypeAheadNoNewline(s) ==
  LET p == NthNewline(s, BufferLines)
      cut == CHOOSE i \in p : TRUE
  IN  IF p # {} /\ cut < Len(s) THEN SubSeq(s, 1, cut - 1) ELSE s

TypeAhead(s) ==
  LET p == NthNewline(s, BufferLines)
      cut == CHOOSE i \in p : TRUE
  IN  IF p # {} /\ cut < Len(s) THEN SubSeq(s, 1, cut) ELSE s

TextNewline(h) ==
  [h EXCEPT !.io.need_newline = FALSE, !.io.need_prompt = TRUE,
            !.input = TypeAhead(@)]

\* mutant: no room kept for the terminating NUL
TextCharNoRoom(h, c) ==
  IF Len(h.input) + 1 > InputCap THEN h
  ELSE LET h1 == [h EXCEPT !.input = Append(@, c)]
       IN  IF c = NL THEN TextNewline(h1) ELSE h1

TextChar(h, c) ==
  IF Len(h.input) + 2 >= InputCap THEN h     \* input.grow() failed: break
  ELSE LET h1 == [h EXCEPT !.input = Append(@, c)]
       IN  IF c = NL THEN TextNewline(h1) ELSE h1

Backspace(h) ==
  IF h.input # <<>> /\ Last(h.input) # NL
    THEN [h EXCEPT !.input = Front(@)] ELSE h

TextByte(h, c) ==
  CASE c = IAC                  -> [h EXCEPT !.istate = "IAC"]
    [] c = NL \/ c \in Printable -> TextChar(h, c)
    [] c = DEL                  -> Backspace(h)
    [] OTHER                    -> h

-----------------------------------------------------------------------------
(* ISTATE_IAC                                                              *)

\* IAC EL: cut the input at the last newline, or drop it all
EraseLine(s) ==
  LET nl == SelectLastInSeq(s, LAMBDA x : x = NL)
  IN  IF nl > 0 THEN SubSeq(s, 1, nl - 1) ELSE <<>>

IacByte(h, c) ==
  LET next == [x \in {WILL, WONT, DO, DONT, SB} |->
                 CASE x = WILL -> "WILL" [] x = WONT -> "WONT"
                   [] x = DO -> "DO" [] x = DONT -> "DONT" [] x = SB -> "SB"]
  IN  CASE c \in DOMAIN next -> [h EXCEPT !.istate = next[c],
                                          !.sub = IF c = SB THEN <<>> ELSE @]
        [] c = EL            -> [h EXCEPT !.istate = "TEXT",
                                          !.input = EraseLine(@)]
        [] OTHER             -> [h EXCEPT !.istate = "TEXT"]

-----------------------------------------------------------------------------
(* ISTATE_SB, ISTATE_SE and process_sb                                     *)

SbAppend(h, c) ==
  IF Len(h.sub) >= SbCap THEN h ELSE [h EXCEPT !.sub = Append(@, c)]

\* process_sb; the bytes read past sb_cnt by the NAWS case are junk.  A ZMP
\* block is passed to process_zmp, which the Zmp module models.
ProcessSb(h, junk) ==
  LET d == h.sub
      n == Len(d)
      B(k) == IF k <= n THEN d[k] ELSE junk
      h1 == [h EXCEPT !.dispatched = Append(@, d)]
  IN  IF n = 0 THEN h
      ELSE CASE d[1] = TELOPT_NAWS ->
                  [h1 EXCEPT !.width = B(2) * 256 + B(3),
                             !.height = B(4) * 256 + B(5)]
             [] d[1] = TELOPT_TTYPE /\ n > 2 /\ d[2] = 0 ->
                  [h1 EXCEPT !.io.xterm = @ \/ (n = 3 /\ d[3] = XTERM),
                             !.io.ansi_term = @ \/ (n = 3 /\ d[3] = ANSI)]
             [] d[1] = TELOPT_NEW_ENVIRON /\ n > 3 /\ d[2] = 0 /\ d[3] = 0
                  /\ d[4] = SYSTEMTYPE /\ n >= 6 /\ d[5] = 1 /\ d[6] = WIN32 ->
                  [h1 EXCEPT !.io.force_echo = TRUE,
                             !.io.do_echo = @ \/ h.io.want_echo]
             [] OTHER -> h1

SbByte(h, c) ==
  IF c = IAC THEN [h EXCEPT !.istate = "SE"] ELSE SbAppend(h, c)

\* mutant: the escaped IAC of IAC IAC is not stored
SeByteDropsIac(h, c, junk) ==
  IF c = SE
    THEN [ProcessSb(h, junk) EXCEPT !.sub = <<>>, !.istate = "TEXT"]
    ELSE [h EXCEPT !.istate = "SB"]

SeByte(h, c, junk) ==
  IF c = SE
    THEN [ProcessSb(h, junk) EXCEPT !.sub = <<>>, !.istate = "TEXT"]
    ELSE SbAppend([h EXCEPT !.istate = "SB"], IAC)

-----------------------------------------------------------------------------
(* ISTATE_WILL, _WONT, _DO, _DONT                                          *)

WillByte(h, c) ==
  LET h1 == [h EXCEPT !.istate = "TEXT"]
  IN  CASE c = TELOPT_NAWS        -> h1
        [] c = TELOPT_TTYPE       -> Send(h1, <<<<SB, TELOPT_TTYPE>>>>)
        [] c = TELOPT_NEW_ENVIRON -> Send(h1, <<<<SB, TELOPT_NEW_ENVIRON>>>>)
        [] OTHER                  -> Send(h1, <<<<DONT, c>>>>)

WontByte(h, c) ==
  [h EXCEPT !.istate = "TEXT",
            !.width = IF c = TELOPT_NAWS THEN 70 ELSE @]

\* begin_mccp(): deflateInit may fail, leaving zstate allocated
BeginMccp(h, zok) ==
  CASE h.zstate # "none" -> h
    [] zok               -> Send([h EXCEPT !.zstate = "on"],
                                 <<<<SB, TELOPT_MCCP2>>>>)
    [] OTHER             -> [h EXCEPT !.zstate = "broken"]

\* zmp.ident, zmp.check net.awemud., zmp.check color.define
ZmpHello == <<<<SB, TELOPT_ZMP>>, <<SB, TELOPT_ZMP>>, <<SB, TELOPT_ZMP>>>>

\* mutant: DO ECHO turns echo on without asking the mode
DoByteEchoUnguarded(h, c, zok) ==
  LET h1 == [h EXCEPT !.istate = "TEXT"]
  IN  CASE c = TELOPT_ECHO  -> [h1 EXCEPT !.io.do_echo = TRUE]
        [] c = TELOPT_EOR   -> IF h.io.do_eor THEN h1
                               ELSE Send([h1 EXCEPT !.io.do_eor = TRUE],
                                         <<<<WILL, TELOPT_EOR>>>>)
        [] c = TELOPT_MCCP2 -> BeginMccp(h1, zok)
        [] c = TELOPT_ZMP   -> Send([h1 EXCEPT !.io.zmp = TRUE], ZmpHello)
        [] OTHER            -> Send(h1, <<<<WONT, c>>>>)

DoByte(h, c, zok) ==
  LET h1 == [h EXCEPT !.istate = "TEXT"]
  IN  CASE c = TELOPT_ECHO  -> [h1 EXCEPT !.io.do_echo = @ \/ h.io.want_echo]
        [] c = TELOPT_EOR   -> IF h.io.do_eor THEN h1
                               ELSE Send([h1 EXCEPT !.io.do_eor = TRUE],
                                         <<<<WILL, TELOPT_EOR>>>>)
        [] c = TELOPT_MCCP2 -> BeginMccp(h1, zok)
        [] c = TELOPT_ZMP   -> Send([h1 EXCEPT !.io.zmp = TRUE], ZmpHello)
        [] OTHER            -> Send(h1, <<<<WONT, c>>>>)

DontByte(h, c) ==
  LET h1 == [h EXCEPT !.istate = "TEXT"]
  IN  CASE c = TELOPT_ECHO -> [h1 EXCEPT !.io.do_echo = @ /\ h.io.force_echo]
        [] c = TELOPT_EOR  -> IF ~h.io.do_eor THEN h1
                              ELSE Send([h1 EXCEPT !.io.do_eor = FALSE],
                                        <<<<WONT, TELOPT_EOR>>>>)
        [] OTHER           -> Send(h1, <<<<WONT, c>>>>)

-----------------------------------------------------------------------------
(* One byte of in_handle, and the commands                                 *)

InByte(h, c, junk, zok) ==
  CASE h.istate = "TEXT" -> TextByte(h, c)
    [] h.istate = "IAC"  -> IacByte(h, c)
    [] h.istate = "SB"   -> SbByte(h, c)
    [] h.istate = "SE"   -> SeByte(h, c, junk)
    [] h.istate = "WILL" -> WillByte(h, c)
    [] h.istate = "WONT" -> WontByte(h, c)
    [] h.istate = "DO"   -> DoByte(h, c, zok)
    [] h.istate = "DONT" -> DontByte(h, c)

\* "!echo off" calls send_iac(WONT, TELOPT_ECHO): the count argument is
\* WONT (252), so IAC, ECHO and 251 bytes of whatever the stack holds go out.
\* Garbled stands for that message; it is not a WILL or WONT.
Garbled == 0

ProcessTelnetCommand(h, args) ==
  CASE args = <<ColorOn>>  -> [h EXCEPT !.io.use_ansi = TRUE]
    [] args = <<ColorOff>> -> [h EXCEPT !.io.use_ansi = FALSE]
    [] args = <<Screen>>   -> [h EXCEPT !.width = 80, !.height = 24]
    [] args = <<EchoOn>>   -> [h EXCEPT !.io.force_echo = TRUE,
                                        !.io.do_echo = @ \/ h.io.want_echo]
    [] args = <<EchoOff>>  -> IF h.io.want_echo
                                THEN Send([h EXCEPT !.io.force_echo = FALSE],
                                          <<<<Garbled, TELOPT_ECHO>>>>)
                                ELSE [h EXCEPT !.io.force_echo = FALSE]
    [] OTHER               -> h                      \* help text

\* the connection is in a mode, so other lines go to mode->process
ProcessCommand(h, line) ==
  LET h1 == [h EXCEPT !.io.need_prompt = TRUE,
                      !.processed = Append(@, line)]
  IN  IF line # <<>> /\ line[1] = BANG
        THEN ProcessTelnetCommand(h1, Tail(line)) ELSE h1

\* process_input: the first complete line only
ProcessInput(h) ==
  LET nl == SelectInSeq(h.input, LAMBDA x : x = NL)
  IN  IF nl > 0
        THEN ProcessCommand([h EXCEPT !.input = SubSeq(@, nl + 1, Len(@))],
                            SubSeq(h.input, 1, nl - 1))
        ELSE h

InHandle(h, bytes, junk, zok) ==
  ProcessInput(FoldLeft(LAMBDA x, c : InByte(x, c, junk, zok), h, bytes))

ApplyHandler(h) ==
  /\ istate' = h.istate /\ input' = h.input /\ sub' = h.sub /\ io' = h.io
  /\ width' = h.width /\ height' = h.height /\ zstate' = h.zstate
  /\ sent' = h.sent /\ dispatched' = h.dispatched /\ processed' = h.processed

-----------------------------------------------------------------------------
(* The peer                                                                *)

\* what the peer means by a line it typed with backspaces in it
Edited(l) == FoldLeft(LAMBDA s, c : IF c = DEL THEN (IF s = <<>> THEN s ELSE Front(s))
                                    ELSE Append(s, c), <<>>, l)

\* IAC doubling inside a subnegotiation
Stuff(b) == FoldLeft(LAMBDA s, c : IF c = IAC THEN s \o <<IAC, IAC>>
                                   ELSE Append(s, c), <<>>, b)

PeerWrite(bytes) ==
  /\ steps < MaxSteps
  /\ wire' = wire \o bytes
  /\ steps' = steps + 1
  /\ UNCHANGED <<server, toggles>>

PeerLine(l) ==
  /\ PeerWrite(l \o <<NL>>)
  /\ typed' = Append(typed, Edited(l))
  /\ UNCHANGED blocks

PeerNegotiate(cmd, o) ==
  /\ PeerWrite(<<IAC, cmd, o>>)
  /\ UNCHANGED <<typed, blocks>>

PeerSub(b) ==
  /\ PeerWrite(<<IAC, SB>> \o Stuff(b) \o <<IAC, SE>>)
  /\ blocks' = Append(blocks, b)
  /\ UNCHANGED typed

PeerEraseLine ==
  /\ PeerErases
  /\ PeerWrite(<<IAC, EL>>)
  /\ UNCHANGED <<typed, blocks>>

-----------------------------------------------------------------------------
(* The server                                                              *)

\* sock_input: read() returns the first k bytes of the stream
Read ==
  \E k \in 1 .. ReadMax, junk \in Junk, zok \in BOOLEAN :
    /\ k <= Len(wire)
    /\ ApplyHandler(InHandle(Handler, SubSeq(wire, 1, k), junk, zok))
    /\ wire' = SubSeq(wire, k + 1, Len(wire))
    /\ UNCHANGED <<typed, blocks, steps, toggles>>

\* the mode asks for a password (FALSE) or plain input (TRUE)
ToggleEcho(v) ==
  /\ toggles < MaxToggles
  /\ toggles' = toggles + 1
  /\ io' = [io EXCEPT !.want_echo = v,
                      !.do_echo = IF io.force_echo THEN v ELSE @ /\ v]
  /\ sent' = IF io.force_echo THEN sent
             ELSE Append(sent, <<IF v THEN WONT ELSE WILL, TELOPT_ECHO>>)
  /\ UNCHANGED <<istate, input, sub, width, height, zstate, dispatched,
                 processed, wire, typed, blocks, steps>>

Init ==
  /\ istate = "TEXT" /\ input = <<>> /\ sub = <<>>
  /\ io = [want_echo |-> TRUE, do_echo |-> FALSE, force_echo |-> FALSE,
           do_eor |-> FALSE, zmp |-> FALSE, xterm |-> FALSE,
           ansi_term |-> FALSE, use_ansi |-> TRUE, need_newline |-> FALSE,
           need_prompt |-> FALSE]
  /\ width = 70 /\ height = 0 /\ zstate = "none"
  /\ sent = <<<<WONT, TELOPT_ECHO>>, <<WILL, TELOPT_EOR>>, <<WILL, TELOPT_ZMP>>,
             <<DO, TELOPT_NEW_ENVIRON>>, <<DO, TELOPT_TTYPE>>,
             <<DO, TELOPT_NAWS>>, <<DO, TELOPT_LFLOW>>, <<WILL, TELOPT_MCCP2>>>>
  /\ dispatched = <<>> /\ processed = <<>>
  /\ wire = <<>> /\ typed = <<>> /\ blocks = <<>> /\ steps = 0
  /\ toggles = 0

Next ==
  \/ \E l \in Lines : PeerLine(l)
  \/ \E cmd \in {WILL, WONT, DO, DONT}, o \in NegOpts : PeerNegotiate(cmd, o)
  \/ \E b \in Blocks : PeerSub(b)
  \/ PeerEraseLine
  \/ Read
  \/ \E v \in BOOLEAN : ToggleEcho(v)

Spec == Init /\ [][Next]_vars /\ WF_vars(Read)

-----------------------------------------------------------------------------
(* Properties                                                              *)

Msgs == {WILL, WONT, DO, DONT, SB, Garbled} \X (0 .. 255)

TypeOK ==
  /\ istate \in {"TEXT", "IAC", "SB", "SE", "WILL", "WONT", "DO", "DONT"}
  /\ input \in Seq(Printable \cup {NL}) /\ Len(input) < InputCap
  /\ sub \in Seq(0 .. 255) /\ Len(sub) <= SbCap
  /\ zstate \in {"none", "on", "broken"}
  /\ sent \in Seq(Msgs)

(* Subnegotiation framing (ISTATE_SB/ISTATE_SE, process_sb): whatever the  *)
(* segmentation of the stream into reads, the blocks process_sb acts on    *)
(* are exactly the payloads the peer sent, in order, with IAC IAC undone.  *)
SubnegotiationIntact == IsPrefix(dispatched, blocks)

(* Echo and passwords (toggle_echo, DO ECHO, "!echo on", the WIN32        *)
(* NEW-ENVIRON case): while the mode has asked for echo to be off, the     *)
(* server never echoes typed characters.                                   *)
PasswordNotEchoed == ~io.want_echo => ~io.do_echo

\* s is t with some elements left out
IsSubsequence(s, t) ==
  \E f \in [DOMAIN s -> DOMAIN t] :
    \A i \in DOMAIN s : s[i] = t[f[i]] /\ (i > 1 => f[i - 1] < f[i])

(* Line delivery (ISTATE_TEXT, backspace, the type-ahead cut,              *)
(* process_input): the lines handed to process_command are lines the peer *)
(* typed, as the peer edited them, in the order typed; the type-ahead      *)
(* limit may drop lines but never changes or merges one.                   *)
LinesInOrder == IsSubsequence(processed, typed)

(* The last WILL or WONT the server sent about option o, or 0.            *)
Announced(o) ==
  LET i == SelectLastInSeq(sent, LAMBDA m : m[2] = o /\ m[1] \in {WILL, WONT})
  IN  IF i = 0 THEN 0 ELSE sent[i][1]

(* Server echo (toggle_echo, DO/DONT ECHO, "!echo on/off"): unless echo is *)
(* forced for a client that ignores the negotiation, the server echoes     *)
(* only after telling the peer WILL ECHO, so the peer does not echo too.   *)
NoDoubleEcho ==
  io.do_echo /\ ~io.force_echo => Announced(TELOPT_ECHO) = WILL

(* Options the server performs (DO/DONT EOR, ZMP, MCCP2): the server uses  *)
(* EOR, ZMP or compression only while its last word to the peer about     *)
(* that option was WILL.                                                   *)
ServerOptionsAsAnnounced ==
  /\ io.do_eor => Announced(TELOPT_EOR) = WILL
  /\ io.zmp => Announced(TELOPT_ZMP) = WILL
  /\ zstate = "on" => Announced(TELOPT_MCCP2) = WILL

(* Loop prevention (spec section 8): the server never repeats its last     *)
(* negotiation message about an option, so a peer answering every         *)
(* message cannot drive an endless exchange.                               *)
NoRedundantNegotiation ==
  \A i, j \in DOMAIN sent :
    /\ i < j /\ sent[i][2] = sent[j][2] /\ sent[i][1] \in {WILL, WONT, DO, DONT}
    /\ \A k \in i + 1 .. j - 1 : sent[k][2] # sent[i][2]
    => sent[i] # sent[j]

(* Window size (the NAWS case of process_sb, WONT NAWS): the width the   *)
(* output engine wraps at is the default 70 or a width the peer sent in a  *)
(* NAWS block.                                                             *)
WidthAsAnnounced ==
  \/ width = 70
  \/ \E i \in DOMAIN blocks :
       LET b == blocks[i]
       IN  b[1] = TELOPT_NAWS /\ Len(b) >= 3 /\ width = b[2] * 256 + b[3]

(* Compression (begin_mccp, add_output compresses whenever zstate is not  *)
(* NULL): output is compressed only after the server has told the peer so *)
(* with IAC SB MCCP2 IAC SE.                                               *)
CompressionAnnounced == zstate # "none" => <<SB, TELOPT_MCCP2>> \in Range(sent)

(* Commands to the peer (send_iac): every telnet command the server sends  *)
(* is a well-formed IAC command, never a run of stray stack bytes.         *)
WellFormedCommands == \A i \in DOMAIN sent : sent[i][1] # Garbled

(* Lines in the buffer (process_input runs once per read): a complete line *)
(* in the input buffer is eventually passed to process_command.            *)
LineEventuallyProcessed ==
  \A n \in 0 .. MaxSteps :
    (NL \in Range(input) /\ Len(processed) = n) ~> Len(processed) > n

=============================================================================
