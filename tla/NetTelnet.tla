----------------------------- MODULE NetTelnet -----------------------------
(***************************************************************************)
(* The libtelnet-based TelnetHandler of src/src/net/telnet.cc: the line    *)
(* assembly of its LIBTELNET_EV_DATA callback (printable bytes, backspace, *)
(* the TELNET_INPUT_BUFFER_SIZE overflow, the TELNET_BUFFER_LINES          *)
(* type-ahead cut), sock_input and process_input, and the connection's     *)
(* life: set_mode, finish, sock_hangup, sock_flush with its check_timeout, *)
(* disconnect.  The output path of NetTelnetOutput runs inside them: a     *)
(* processed line is answered through stream_put, disconnect ends the      *)
(* chunk, sock_flush writes the timeout notice, resets the colour and      *)
(* draws the prompt.                                                       *)
(*                                                                         *)
(* libtelnet and the network manager are not in the sources.  libtelnet_   *)
(* push is modelled by the events it raises for the bytes pushed: one      *)
(* EV_DATA per byte, and, where the run allows it, an EV_ERROR after them. *)
(* The manager reads from and flushes a connection it holds, and lets go   *)
(* of it some time after sock_disconnect closed it.                        *)
(*                                                                         *)
(* The peer is modelled by what it typed: typed holds its finished lines  *)
(* and cur the line it is editing, with its own DEL applied.               *)
(***************************************************************************)
EXTENDS Integers, Sequences, SequencesExt, FiniteSets, NetTelnetOutput

CONSTANTS
    Chunks,      \* byte chunks a read may bring
    Printable,   \* the printable bytes
    InSize,      \* TELNET_INPUT_BUFFER_SIZE
    MaxLines,    \* TELNET_BUFFER_LINES
    Modes,       \* the modes a connection goes through
    Errors,      \* whether libtelnet may report EV_ERROR
    Timeout,     \* the activity timeout, in ticks
    MaxSteps,    \* reads over a behaviour
    MaxNotices,  \* timeout notices over a behaviour
    Replies,     \* texts the mode or the telnet-command parser answers a line with
    Notice,      \* the timeout notice of check_timeout
    CutNotice    \* the type-ahead notice of the EV_DATA case

NL == "\n"
DEL == "DEL"
NoMode == "none"

VARIABLES
    h,       \* the handler's fields and ghost counters
    peer,    \* what the peer typed: [typed, cur]
    steps,
    out      \* the output state of NetTelnetOutput

vars == <<h, peer, steps, out>>

-----------------------------------------------------------------------------
(* The LIBTELNET_EV_DATA case of libtelnet_event *)

\* The positions of the newlines in the input buffer.
NewlinesIn(s) == {i \in DOMAIN s : s[i] = NL}

\* After a newline: once TELNET_BUFFER_LINES newlines are counted, the
\* buffer is cut before the next byte, with a notice.
CutTypeAhead(r) ==
    LET nls == SetToSortSeq(NewlinesIn(r.input), <)
    IN  IF Len(nls) >= MaxLines /\ nls[MaxLines] < Len(r.input)
        THEN [r EXCEPT !.input = SubSeq(@, 1, nls[MaxLines]), !.cuts = @ + 1]
        ELSE r

DataByteDelNl(r, c) ==
    LET r1 == IF c = NL \/ c \in Printable
              THEN [r EXCEPT !.input = Append(IF Len(@) + 2 >= InSize THEN <<>> ELSE @, c)]
              ELSE IF c = DEL /\ r.input # <<>>
              THEN [r EXCEPT !.input = Front(@)]
              ELSE r
    IN  IF c = NL THEN CutTypeAhead(r1) ELSE r1

\* One byte: a newline or printable byte is stored, the buffer emptied
\* first when inpos + 2 reaches its size; DEL removes the last byte of the
\* unfinished line; anything else is dropped.  A newline then applies the
\* type-ahead limit.
DataByte(r, c) ==
    LET r1 == IF c = NL \/ c \in Printable
              THEN [r EXCEPT !.input = Append(IF Len(@) + 2 >= InSize THEN <<>> ELSE @, c)]
              ELSE IF c = DEL /\ r.input # <<>> /\ Last(r.input) # NL
              THEN [r EXCEPT !.input = Front(@)]
              ELSE r
    IN  IF c = NL THEN CutTypeAhead(r1) ELSE r1

\* The peer's own view of the same byte.
Typed(p, c) ==
    CASE c = NL          -> [typed |-> Append(p.typed, p.cur), cur |-> <<>>]
      [] c \in Printable -> [p EXCEPT !.cur = Append(@, c)]
      [] c = DEL         -> [p EXCEPT !.cur = IF @ = <<>> THEN @ ELSE Front(@)]
      [] OTHER           -> p

-----------------------------------------------------------------------------
(* Teardown and line processing *)

DisconnectKeepsOpen(r) ==
    LET m == IF r.mode # NoMode
             THEN [r EXCEPT !.shut[r.mode] = @ + 1, !.mode = NoMode] ELSE r
    IN  [m EXCEPT !.removes = @ + 1, !.frees = @ + 1]

\* disconnect: connections.remove, libtelnet_free, shut the mode down and
\* forget it, end_chunk, sock_disconnect.
Disconnect(r) ==
    LET m == IF r.mode # NoMode
             THEN [r EXCEPT !.shut[r.mode] = @ + 1, !.mode = NoMode] ELSE r
    IN  [m EXCEPT !.removes = @ + 1, !.frees = @ + 1, !.open = FALSE]

\* process_input: at most one line per call; a line goes to the mode, or
\* to the telnet-command parser when it starts with "!" or there is no
\* mode.
ProcessInput(r) ==
    IF NewlinesIn(r.input) = {} THEN r
    ELSE LET nl == Min(NewlinesIn(r.input))
         IN  [r EXCEPT !.input = SubSeq(@, nl + 1, Len(@)),
                       !.lines = Append(@, SubSeq(r.input, 1, nl - 1))]

-----------------------------------------------------------------------------
(* Actions *)

\* Stream the type-ahead notice n times.
RECURSIVE CutNotices(_, _)
CutNotices(o, left) == IF left = 0 THEN o ELSE CutNotices(StreamPut(o, CutNotice), left - 1)

\* The output side of the EV_DATA bytes: a newline clears need_newline and
\* owes a prompt (do_echo is off, so nothing is echoed; the peer's own
\* echo of its line leaves the terminal on a fresh line), and each
\* type-ahead cut streams its notice.
DataOutput(o, data, cut) ==
    LET typed == IF \E i \in DOMAIN data : data[i] = NL
                 THEN [o EXCEPT !.need_newline = FALSE, !.need_prompt = TRUE, !.line = <<>>]
                 ELSE o
    IN  CutNotices(typed, cut)

\* The rest of the output of sock_input: the chunk ended by a disconnect,
\* and the answer t to a processed line.
SockOutput(o, err, processed, t) ==
    LET Ended(g)    == IF err THEN EndChunk(g) ELSE g
        Answered(g) == IF processed THEN StreamPut([g EXCEPT !.need_prompt = TRUE], t) ELSE g
    IN  Answered(Ended(o))

\* sock_input: stamp in_stamp, push the bytes through libtelnet (which may
\* end in EV_ERROR and a disconnect, ending the chunk), then process_input;
\* process_command owes a prompt and the mode or the telnet-command parser
\* answers the line with text t.
SockInput(bs, err, t) ==
    LET fed   == FoldLeft(DataByte, h, bs)
        ended == IF err THEN Disconnect(fed) ELSE fed
        done  == ProcessInput(ended)
    IN  /\ h.open /\ h.held
        /\ steps < MaxSteps
        /\ steps' = steps + 1
        /\ h' = [done EXCEPT !.idle = 0]
        /\ peer' = FoldLeft(Typed, peer, bs)
        /\ \E cut \in 0 .. Len(bs) :
              /\ cut = fed.cuts - h.cuts
              /\ \E data \in {DataOutput(out, bs, cut)} :
                    out' = SockOutput(data, err, Len(done.lines) > Len(ended.lines), t)

\* set_mode: shut the old mode down, install the new one; if its
\* initialize() fails, forget it (mode = NULL) and disconnect.
SetMode(m, ok) ==
    /\ h.open
    /\ m \notin h.used
    /\ LET r0 == [h EXCEPT !.used = @ \cup {m}]
           r1 == IF r0.mode # NoMode THEN [r0 EXCEPT !.shut[r0.mode] = @ + 1] ELSE r0
       IN  h' = IF ok THEN [r1 EXCEPT !.mode = m]
                ELSE Disconnect([r1 EXCEPT !.mode = NoMode])
    /\ out' = IF ok THEN out ELSE EndChunk(out)
    /\ UNCHANGED <<peer, steps>>

\* finish: the mode's finish, or the handler itself, disconnects.
Finish ==
    /\ h.open
    /\ h' = Disconnect(h)
    /\ out' = EndChunk(out)
    /\ UNCHANGED <<peer, steps>>

\* sock_hangup
SockHangup ==
    /\ h.open
    /\ h' = Disconnect(h)
    /\ out' = EndChunk(out)
    /\ UNCHANGED <<peer, steps>>

\* sock_flush, on every connection the manager holds: check_timeout
\* first (once in_stamp is Timeout old: the notice through stream_put,
\* then disconnect, which ends the chunk), then the colour reset,
\* end_chunk and the prompt of FlushOutput, on the torn-down handler too.
SockFlush ==
    /\ h.held
    /\ LET timed == h.idle >= Timeout
           o1    == IF timed THEN EndChunk(StreamPut(out, Notice)) ELSE out
       IN  /\ timed => h.notices < MaxNotices
           /\ h' = IF timed THEN [Disconnect(h) EXCEPT !.notices = @ + 1] ELSE h
           /\ out' = FlushOutput(o1)
    /\ UNCHANGED <<peer, steps>>

\* The manager lets go of a closed connection.
Reap ==
    /\ h.held /\ ~h.open
    /\ h' = [h EXCEPT !.held = FALSE]
    /\ UNCHANGED <<peer, steps, out>>

\* A timeout unit passes.
Tick ==
    /\ h.held
    /\ h.idle < Timeout
    /\ h' = [h EXCEPT !.idle = @ + 1]
    /\ UNCHANGED <<peer, steps, out>>

\* The constructor: empty input, no mode, in_stamp = now.
Init ==
    /\ h = [input |-> <<>>, lines |-> <<>>, cuts |-> 0, open |-> TRUE, held |-> TRUE,
            mode |-> NoMode, used |-> {}, shut |-> [m \in Modes |-> 0],
            removes |-> 0, frees |-> 0, notices |-> 0, idle |-> 0]
    /\ peer = [typed |-> <<>>, cur |-> <<>>]
    /\ steps = 0
    /\ out = OutInit

Next ==
    \/ \E bs \in Chunks, err \in Errors, t \in Replies : SockInput(bs, err, t)
    \/ \E m \in Modes, ok \in BOOLEAN : SetMode(m, ok)
    \/ Finish
    \/ SockHangup
    \/ SockFlush
    \/ Reap
    \/ Tick

\* ENABLED <<SockFlush>>_vars as a state predicate: a timed-out flush
\* always changes the handler, any other one when it has output to write.
FlushPossible ==
    /\ h.held
    /\ IF h.idle >= Timeout THEN h.notices < MaxNotices ELSE FlushOutput(out) # out

\* The manager keeps flushing the connections it holds and reaps closed
\* ones; time passes.  The weak fairness of SockFlush is written out,
\* []<>~ENABLED \/ []<>step, with FlushPossible for its ENABLED.
Spec ==
    /\ Init /\ [][Next]_vars
    /\ ([]<>~FlushPossible \/ []<><<SockFlush>>_vars)
    /\ WF_vars(Reap) /\ WF_vars(Tick)

-----------------------------------------------------------------------------
(* Properties *)

\* No line the peer finished is lost silently: each one has been handed
\* to process_command, is still waiting in the input buffer, or was cut
\* with a type-ahead notice.  Backspace, the type-ahead cut and
\* process_input, which takes one line per read, all move lines about.
LinesAccounted ==
    Len(peer.typed) = Len(h.lines) + Cardinality(NewlinesIn(h.input)) + h.cuts

\* The manager eventually lets go of the connection.
ConnectionEnds == <>(~h.held)

\* s is a subsequence of t (greedy match).
IsSubSeqOf(s, t) ==
    FoldLeft(LAMBDA k, x : IF k <= Len(s) /\ s[k] = x THEN k + 1 ELSE k, 1, t) = Len(s) + 1

\* Every line handed on is a line the peer typed, in the order typed, none
\* twice; a line may be missing (cut with a notice) but never altered.
ProcessedAsTyped == IsSubSeqOf(h.lines, peer.typed)

\* Every screen line the peer has been shown holds at most width - 2
\* columns, unless it is a single word too long to wrap (spec section 8).
LineWithinWidth == ~out.wide

\* Word wrap places every column within width - 2, wherever tabs left the
\* cursor: a screen line past that column is one word too long to wrap,
\* or a tab (the '\t' case adds 4 % cur_col columns with no wrap test)
\* first crossed it.  This is end_chunk's wrap test, the ' ' case of
\* stream_put and add_to_chunk's mid-word flush of a full chunk, across
\* replies, type-ahead and timeout notices and prompts.
WrapWithinWidth == ~out.misplaced

\* The colour stack and the terminal agree: once the chunk is sent the
\* terminal is in the colour on top of the stack, or normal when it is
\* empty ("C0" re-selects the enclosing colour, sock_flush resets it).
ColorStackMatchesTerminal == StackMatchesTerminal(out)

\* Text without empty lines shows none: a newline right after a soft
\* wrap is dropped (stream_put's soft_break test).
NoBlankLine == ~out.blank

\* cur_col, from which end_chunk and stream_put decide where to wrap, is
\* the column the terminal's cursor is at after every chunk sent (the
\* line a prompt leaves aside, where sock_flush sets it to 0 on purpose).
ColumnMatchesTerminal == ~out.drift

\* Teardown frees the libtelnet state once (disconnect, however often it
\* runs).
FreedOnce == h.frees <= 1
=============================================================================
