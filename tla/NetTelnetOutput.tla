-------------------------- MODULE NetTelnetOutput ---------------------------
(***************************************************************************)
(* The output path of the libtelnet-based TelnetHandler, src/src/net/     *)
(* telnet.cc: stream_put (word wrap, margins, the "\033!..!" markup and    *)
(* ANSI pass-through), add_to_chunk with its fixed chunk buffer,           *)
(* end_chunk, the OUTPUT_INDENT macro, set_indent, and the output half of *)
(* sock_flush (colour reset, chunk, prompt).  It differs from the mud      *)
(* handler in three places: end_chunk has no "only if we have data" test,  *)
(* add_to_chunk sends a full chunk from inside the copy loop, and the     *)
(* column advances by every byte of a chunk, visible or not.               *)
(*                                                                         *)
(* The handler's output state is a record o, written by pure operators so *)
(* that NetTelnet can run them inside its actions.  What goes to the peer *)
(* is modelled byte by byte: a visible character "w", a space "s", a       *)
(* column of a tab stop "t", a line break "NL", a byte of a colour code    *)
(* ("code", the last byte carrying the colour), a byte of another ANSI     *)
(* sequence ("ansi").  The terminal is what it shows: the items of the     *)
(* current screen line and its colour.                                     *)
(*                                                                         *)
(* Not in the sources: the ANSI_* and TELNET_* macros (their sizes are     *)
(* constants), libtelnet (its send functions are taken to write the bytes *)
(* in order), buffer_output (taken to write in order with them).           *)
(* io_flags.zmp_color is never set in net/telnet.cc, so the ZMP colour     *)
(* branch is not taken; use_ansi and do_eor change only on input this      *)
(* model does not feed (!color, DO EOR) and keep their constructor values. *)
(***************************************************************************)
EXTENDS Integers, Sequences, SequencesExt

CONSTANTS
    Width,        \* width (70 in the constructor; NAWS and !screen not fed)
    ChunkSize,    \* TELNET_CHUNK_BUFFER_SIZE
    MaxEscape,    \* TELNET_MAX_ESCAPE_SIZE, the size of esc_buf
    CodeLen,      \* bytes of an ANSI colour code (ANSI_NORMAL, color_values)
    ColorOfType,  \* color_type_defaults: colour type -> colour value
    NumCTypes,    \* NUM_CTYPES
    PromptText    \* what the prompt writes (mode->prompt(), or ">")

Normal == 0     \* index of ANSI_NORMAL in color_values

Digits == [d \in {"0", "1", "2", "7"} |->
             CASE d = "0" -> 0 [] d = "1" -> 1 [] d = "2" -> 2 [] d = "7" -> 7]
\* isalpha().  "J" ends the only raw ANSI sequence the application writes,
\* clear_scr's erase of the screen, which selects no colour.
Alpha == {"a", "C", "I", "A", "J"}

Byte(k) == [kind |-> k, color |-> Normal]
Spaces(n) == [i \in 1 .. n |-> Byte("s")]
TabStop(n) == [i \in 1 .. n |-> Byte("t")]

\* color_values[c]: CodeLen bytes, the last one selecting the colour.
ColorCode(c) ==
    [i \in 1 .. CodeLen |-> IF i = CodeLen THEN [kind |-> "color", color |-> c]
                            ELSE Byte("code")]

\* atoi / strtol of the digits after the command letter.
RECURSIVE LeadingNum(_, _)
LeadingNum(s, acc) ==
    IF s = <<>> \/ Head(s) \notin DOMAIN Digits THEN acc
    ELSE LeadingNum(Tail(s), 10 * acc + Digits[Head(s)])

\* The constructor's output state.
OutInit ==
    [ostate |-> "TEXT", esc |-> <<>>, chunk |-> <<>>, chunkwidth |-> 0,
     cur_col |-> 0, margin |-> 0, colors |-> <<>>, soft_break |-> FALSE,
     need_newline |-> FALSE, need_prompt |-> FALSE, auto_indent |-> FALSE,
     line |-> <<>>, term |-> Normal, blank |-> FALSE, wide |-> FALSE,
     misplaced |-> FALSE, drift |-> FALSE,
     crashed |-> FALSE]

-----------------------------------------------------------------------------
(* Bytes to the peer, the chunk *)

\* A screen line fits: at most width - 2 columns, unless it is one word
\* too long to wrap.  It is overrun by a tab when the first column past
\* width - 2 is a tab column.
Words(l) == Cardinality({i \in DOMAIN l : l[i] = "w" /\ (i = 1 \/ l[i-1] \in {"s", "t"})})
Fits(l) == Width > 0 => (Len(l) <= Width - 2 \/ Words(l) <= 1)
TabOverrun(l) == Width - 1 \in 1 .. Len(l) /\ l[Width - 1] = "t"

\* One byte reaches the terminal.  The ghosts record a break on an empty
\* screen line (a blank line), a screen line that does not fit, and one
\* that does not fit though no tab overran it.
Show(o, b) ==
    LET Grown(l) == [o EXCEPT !.line = l, !.wide = @ \/ ~Fits(l),
                              !.misplaced = @ \/ ~(Fits(l) \/ TabOverrun(l))]
    IN
    CASE b.kind = "NL"         -> [o EXCEPT !.line = <<>>, !.blank = @ \/ o.line = <<>>]
      [] b.kind \in {"w", "s", "t"} -> Grown(Append(o.line, b.kind))
      [] b.kind = "color"      -> [o EXCEPT !.term = b.color]
      [] OTHER                 -> o

\* libtelnet_send_data, libtelnet_printf2, buffer_output.
Send(o, bs) == FoldLeft(Show, o, bs)

\* OUTPUT_INDENT(): pad to the margin.
OutputIndent(o) ==
    IF o.cur_col < o.margin
    THEN [Send(o, Spaces(o.margin - o.cur_col)) EXCEPT !.cur_col = o.margin]
    ELSE o

\* Mutant: the wrap test of end_chunk leaves out the chunk's own width.
EndChunkNoWidth(o) ==
    LET Sent(g, s) == [s EXCEPT !.cur_col = g.cur_col + Len(g.chunk), !.chunk = <<>>,
                                !.chunkwidth = 0, !.soft_break = FALSE]
        Wrapped(g) == Sent(g, Send(g, g.chunk))
    IN  Wrapped(IF Width > 0 /\ o.cur_col >= Width - 2
                THEN OutputIndent([Send(o, <<Byte("NL")>>) EXCEPT !.cur_col = 0])
                ELSE o)

\* end_chunk(): wrap when the chunk's width does not fit, send the chunk,
\* advance the column by chunkpos, clear soft_break, whether or not the
\* chunk held anything.  The ghost drift records a column that is not the
\* terminal's (outside the line a prompt leaves, where cur_col is 0).
EndChunk(o) ==
    LET Sent(s, c) == [s EXCEPT !.cur_col = c, !.chunk = <<>>, !.chunkwidth = 0,
                                !.soft_break = FALSE,
                                !.drift = @ \/ (~o.need_newline /\ c # Len(s.line))]
        Wrapped(g) == Sent(Send(g, g.chunk), g.cur_col + Len(g.chunk))
    IN  Wrapped(IF Width > 0 /\ o.chunkwidth + o.cur_col >= Width - 2
                THEN OutputIndent([Send(o, <<Byte("NL")>>) EXCEPT !.cur_col = 0])
                ELSE o)

\* One byte of add_to_chunk's copy loop: store it, count it unless it is
\* invisible, end the chunk when the buffer is full.
ChunkByte(o, b, invis) ==
    LET Full(c) == IF Len(c.chunk) = ChunkSize THEN EndChunk(c) ELSE c
    IN  Full([o EXCEPT !.chunk = Append(@, b), !.chunkwidth = IF invis THEN @ ELSE @ + 1])

\* add_to_chunk(data, len, invis): OUTPUT_INDENT, then the copy loop.
AddToChunk(o, bs, invis) ==
    FoldLeft(LAMBDA x, b : ChunkByte(x, b, invis), OutputIndent(o), bs)

\* set_indent()
SetIndent(o, n) == [EndChunk(o) EXCEPT !.margin = n]

-----------------------------------------------------------------------------
(* stream_put *)

\* ' ': end the chunk; unless soft-wrapped, break the line when the space
\* would reach width - 2, or indent and write the space.
TextSpace(o) ==
    LET Space(i) == [Send(i, <<Byte("s")>>) EXCEPT !.cur_col = i.cur_col + 1]
        Break(g) ==
            IF g.soft_break THEN g
            ELSE IF Width # 0 /\ g.cur_col + 1 >= Width - 2
            THEN [Send(g, <<Byte("NL")>>) EXCEPT !.cur_col = 0, !.soft_break = TRUE]
            ELSE Space(OutputIndent(g))
    IN  Break(EndChunk(o))

\* '\n': end the chunk; break the line unless right after a soft break.
TextNewline(o) ==
    LET Break(g) == IF g.soft_break THEN g
                    ELSE [Send(g, <<Byte("NL")>>) EXCEPT !.cur_col = 0]
    IN  [Break(EndChunk(o)) EXCEPT !.soft_break = FALSE]

\* '\t': 4 % cur_col spaces, a division by zero at column 0.
TextTab(o) ==
    LET Pad(g, n) == [Send(g, TabStop(n)) EXCEPT !.cur_col = g.cur_col + n]
        Tab(g)    == IF g.cur_col = 0 THEN [g EXCEPT !.crashed = TRUE]
                     ELSE Pad(g, 4 % g.cur_col)
    IN  Tab(OutputIndent(EndChunk(o)))

\* OSTATE_TEXT.  Any other character goes to the chunk, visible.
PutText(o, c) ==
    CASE c = " "   -> TextSpace(o)
      [] c = "NL"  -> TextNewline(o)
      [] c = "ESC" -> [o EXCEPT !.ostate = "ESCAPE", !.esc = <<"ESC">>]
      [] c = "TAB" -> TextTab(o)
      [] OTHER     -> AddToChunk(o, <<Byte("w")>>, FALSE)

\* OSTATE_ESCAPE
PutEscape(o, c) ==
    CASE c = "!" -> [o EXCEPT !.esc = <<>>, !.ostate = "AWECODE"]
      [] c = "[" -> [o EXCEPT !.esc = <<"ESC", "[">>, !.ostate = "ANSI"]
      [] OTHER   -> [o EXCEPT !.ostate = "TEXT"]

\* Mutant: "C0" pops the stack without re-selecting the enclosing colour.
AweColorNoRestore(o) ==
    LET n == LeadingNum(Tail(o.esc), 0)
        Pop(g) == IF g.colors = <<>> THEN g ELSE [g EXCEPT !.colors = Front(@)]
    IN  IF n = 0
        THEN Pop(AddToChunk(o, ColorCode(Normal), TRUE))
        ELSE IF n < NumCTypes
        THEN LET cv == ColorOfType[n]
             IN  AddToChunk([o EXCEPT !.colors = Append(@, cv)], ColorCode(cv), TRUE)
        ELSE o

\* The "C" awecode with ANSI colour: "C0" writes ANSI_NORMAL, pops the
\* stack and re-selects the colour below; "Cn" pushes and selects the
\* colour of type n.  Colour codes go to the chunk as invisible.
AweColor(o) ==
    LET n == LeadingNum(Tail(o.esc), 0)
        Pop(g) == IF g.colors = <<>> THEN g ELSE [g EXCEPT !.colors = Front(@)]
        Restore(p) == IF p.colors = <<>> THEN p
                      ELSE AddToChunk(p, ColorCode(Last(p.colors)), TRUE)
    IN  IF n = 0
        THEN Restore(Pop(AddToChunk(o, ColorCode(Normal), TRUE)))
        ELSE IF n < NumCTypes
        THEN LET cv == ColorOfType[n]
             IN  AddToChunk([o EXCEPT !.colors = Append(@, cv)], ColorCode(cv), TRUE)
        ELSE o

\* A complete awecode: colour, indent (strtol is never negative here),
\* auto-indent; then back to text.
AweCode(o) ==
    LET cmd == Head(o.esc)
        g   == CASE cmd = "C" -> AweColor(o)
                 [] cmd = "I" -> SetIndent(o, LeadingNum(Tail(o.esc), 0))
                 [] cmd = "A" -> [o EXCEPT !.auto_indent = (Len(o.esc) > 1 /\ o.esc[2] = "1")]
                 [] OTHER     -> o
    IN  [g EXCEPT !.ostate = "TEXT"]

\* OSTATE_AWECODE: collect up to TELNET_MAX_ESCAPE_SIZE - 1 characters
\* (room for the NUL), an empty code is ignored.
PutAwecode(o, c) ==
    IF c # "!"
    THEN IF Len(o.esc) < MaxEscape - 1 THEN [o EXCEPT !.esc = Append(@, c)] ELSE o
    ELSE IF o.esc = <<>> THEN [o EXCEPT !.ostate = "TEXT"]
    ELSE AweCode(o)

\* OSTATE_ANSI: collect up to TELNET_MAX_ESCAPE_SIZE characters; the
\* final letter passes the whole sequence to the chunk, counted visible.
PutAnsi(o, c) ==
    LET Pass(g) == IF c \notin Alpha THEN g
                   ELSE [AddToChunk(g, [i \in DOMAIN g.esc |-> Byte("ansi")], FALSE)
                           EXCEPT !.ostate = "TEXT"]
    IN  Pass(IF Len(o.esc) < MaxEscape THEN [o EXCEPT !.esc = Append(@, c)] ELSE o)

PutChar(o, c) ==
    IF o.crashed THEN o
    ELSE CASE o.ostate = "TEXT"    -> PutText(o, c)
           [] o.ostate = "ESCAPE"  -> PutEscape(o, c)
           [] o.ostate = "AWECODE" -> PutAwecode(o, c)
           [] o.ostate = "ANSI"    -> PutAnsi(o, c)

\* stream_put(text): the newline owed after a prompt, every character,
\* then a prompt is owed.
StreamPut(o, text) ==
    LET g == IF o.need_newline
             THEN [Send(o, <<Byte("NL")>>) EXCEPT !.soft_break = FALSE, !.cur_col = 0]
             ELSE o
        p == FoldLeft(PutChar, [g EXCEPT !.need_newline = FALSE], text)
    IN  [p EXCEPT !.need_prompt = TRUE]

\* The output half of sock_flush: reset an open colour, end the chunk,
\* and if a prompt is owed write it, end the chunk, write " ", and owe a
\* newline from column 0.
FlushOutput(o) ==
    LET Prompted(p) == [Send(p, <<Byte("s")>>) EXCEPT !.need_prompt = FALSE,
                                                  !.need_newline = TRUE, !.cur_col = 0]
        Prompt(e)   == IF ~e.need_prompt THEN e
                       ELSE Prompted(EndChunk(StreamPut(e, PromptText)))
    IN  Prompt(EndChunk(IF o.colors = <<>> THEN o
                        ELSE [AddToChunk(o, ColorCode(Normal), TRUE) EXCEPT !.colors = <<>>]))

-----------------------------------------------------------------------------
(* Properties of an output state o *)

\* The colour the terminal will be in once the chunk is sent is the top
\* of the colour stack, or normal when it is empty.
ColorAfter(c, bs) == FoldLeft(LAMBDA x, b : IF b.kind = "color" THEN b.color ELSE x, c, bs)
StackMatchesTerminal(o) ==
    ColorAfter(o.term, o.chunk) = IF o.colors = <<>> THEN Normal ELSE Last(o.colors)

=============================================================================
