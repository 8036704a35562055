---------------------------- MODULE TelnetOutput ----------------------------
(***************************************************************************)
(* The output formatting engine of one telnet connection, as written in    *)
(* src/src/mud/telnet.cc: TelnetHandler::stream_put (word wrap, margins,   *)
(* the "\033!..!" markup and ANSI pass-through), add_to_chunk, end_chunk,  *)
(* the OUTPUT_INDENT macro, set_indent and prepare (colour reset and       *)
(* prompt).  The bytes written by add_output are not kept as a string:     *)
(* the terminal is modelled by what it shows, the items of the current     *)
(* screen line (a visible character "w" or a space "s") and the colour the *)
(* last ANSI colour code selected.                                         *)
(*                                                                         *)
(* Text given to stream_put is a sequence of characters from Chars; the   *)
(* letters, digits and punctuation that the markup uses are kept, every    *)
(* other printable character is the letter "a".                            *)
(***************************************************************************)
EXTENDS Integers, Sequences, SequencesExt

CONSTANTS
  Width,        \* initial value of width (70 in the constructor)
  MaxEscape,    \* TELNET_MAX_ESCAPE_SIZE, the size of esc_buf
  Texts,        \* the texts the application passes to stream_put
  PromptText,   \* what mode->prompt() writes (">" when there is no mode)
  ColorOfType,  \* color_type_defaults: colour type -> colour value
  NumCTypes,    \* NUM_CTYPES
  MaxSteps      \* bound on the number of handler calls explored

ASSUME Width \in Nat /\ MaxEscape \in Nat \ {0} /\ MaxSteps \in Nat

VARIABLES
  ostate,       \* OSTATE_TEXT / _ESCAPE / _AWECODE / _ANSI
  esc,          \* esc_buf[0 .. esc_cnt-1]
  outchunk,     \* outchunk[0 .. outchunk_cnt-1], as items
  chunk_size,   \* visible width of the pending chunk
  cur_col,      \* column the engine believes the cursor is at
  margin,       \* left margin set by set_indent
  width,        \* screen width (0 disables wrapping)
  colors,       \* the colour stack
  io_flags,     \* the IOFlags bits used by the output path
  line,         \* terminal: items shown on the current screen line
  term_color,   \* terminal: colour selected by the last colour code
  crashed,      \* the process died (SIGFPE)
  steps         \* number of handler calls so far (bounded)

vars == <<ostate, esc, outchunk, chunk_size, cur_col, margin, width, colors,
          io_flags, line, term_color, crashed, steps>>

Normal == 0     \* index of ANSI_NORMAL in color_values

Digits == [d \in {"0", "1", "2", "7", "9"} |->
             CASE d = "0" -> 0 [] d = "1" -> 1 [] d = "2" -> 2
               [] d = "7" -> 7 [] d = "9" -> 9]
\* isalpha().  "J" ends the only raw ANSI sequence the application writes,
\* clear_scr's erase of the screen, which selects no colour.
Alpha == {"a", "C", "I", "A", "J"}
Chars == {"a", " ", "NL", "TAB", "IAC", "ESC", "!", "["} \cup Alpha
           \cup DOMAIN Digits

(* Items of the output chunk and of add_output: a visible character "w",  *)
(* a space "s", a column of a tab stop "t", the "\n\r" line break, an ANSI colour code, another ANSI   *)
(* sequence, a ZMP subnegotiation, the EOR command.                        *)
Kinds == {"w", "s", "t", "NL", "color", "ansi", "zmp", "eor"}
Items == [kind : Kinds, color : 0 .. 23]
It(k) == [kind |-> k, color |-> Normal]
ColorCode(c) == [kind |-> "color", color |-> c]
Its(ks) == [i \in DOMAIN ks |-> It(ks[i])]

(***************************************************************************)
(* atoi / strtol of the digits that follow the command letter.             *)
(***************************************************************************)
RECURSIVE LeadingNum(_, _)
LeadingNum(s, acc) ==
  IF s = <<>> \/ Head(s) \notin DOMAIN Digits THEN acc
  ELSE LeadingNum(Tail(s), 10 * acc + Digits[Head(s)])

(***************************************************************************)
(* The engine state as one record, so that a call can be evaluated as a   *)
(* fold of one step per character.                                         *)
(***************************************************************************)
Handler ==
  [ostate |-> ostate, esc |-> esc, outchunk |-> outchunk,
   chunk_size |-> chunk_size, cur_col |-> cur_col, margin |-> margin,
   width |-> width, colors |-> colors, io |-> io_flags, line |-> line,
   term_color |-> term_color, crashed |-> crashed]

(* add_output / add_to_out_buffer, seen from the terminal. *)
Show(h, it) ==
  CASE it.kind = "NL"         -> [h EXCEPT !.line = <<>>]
    [] it.kind \in {"w", "s", "t"} -> [h EXCEPT !.line = Append(@, it.kind)]
    [] it.kind = "color"      -> [h EXCEPT !.term_color = it.color]
    [] OTHER                  -> h
AddOutput(h, items) == FoldLeft(Show, h, items)
Spaces(n) == [i \in 1 .. n |-> It("s")]
TabStop(n) == [i \in 1 .. n |-> It("t")]

(* OUTPUT_INDENT() *)
OutputIndent(h) ==
  IF h.cur_col < h.margin
  THEN [AddOutput(h, Spaces(h.margin - h.cur_col)) EXCEPT !.cur_col = h.margin]
  ELSE h

(* add_to_chunk(): OUTPUT_INDENT, then the text is appended.  The grow    *)
(* loop and its forced dump are not modelled: the chunk buffer grows to   *)
(* fit the few characters a text of the model holds.                       *)
AddToChunk(h, items) ==
  LET g == OutputIndent(h) IN [g EXCEPT !.outchunk = @ \o items]

(* Mutant: the wrap test of end_chunk() written with > instead of >=. *)
EndChunkLateWrap(h) ==
  IF h.outchunk = <<>> THEN h
  ELSE LET wrap == h.width > 0 /\ h.chunk_size + h.cur_col > h.width - 2
           g == IF wrap
                THEN OutputIndent([AddOutput(h, <<It("NL")>>) EXCEPT !.cur_col = 0])
                ELSE h
           o == AddOutput(g, g.outchunk)
       IN [o EXCEPT !.outchunk = <<>>, !.cur_col = g.cur_col + g.chunk_size,
                    !.chunk_size = 0, !.io.soft_break = FALSE]

(* end_chunk() *)
EndChunk(h) ==
  IF h.outchunk = <<>> THEN h
  ELSE LET wrap == h.width > 0 /\ h.chunk_size + h.cur_col >= h.width - 2
           g == IF wrap
                THEN OutputIndent([AddOutput(h, <<It("NL")>>) EXCEPT !.cur_col = 0])
                ELSE h
           o == AddOutput(g, g.outchunk)
       IN [o EXCEPT !.outchunk = <<>>, !.cur_col = g.cur_col + g.chunk_size,
                    !.chunk_size = 0, !.io.soft_break = FALSE]

(* set_indent() *)
SetIndent(h, n) == [EndChunk(h) EXCEPT !.margin = n]

-----------------------------------------------------------------------------
(* One character of stream_put() in OSTATE_TEXT. *)
TextSpace(h) ==
  LET g == EndChunk(h) IN
  IF g.io.soft_break THEN g
  ELSE IF g.width /= 0 /\ g.cur_col + 1 >= g.width - 2
  THEN [AddOutput(g, <<It("NL")>>) EXCEPT !.cur_col = 0, !.io.soft_break = TRUE]
  ELSE LET i == OutputIndent(g)
       IN [AddOutput(i, <<It("s")>>) EXCEPT !.cur_col = i.cur_col + 1]

TextNewline(h) ==
  LET g == EndChunk(h)
      n == IF g.io.soft_break THEN g
           ELSE [AddOutput(g, <<It("NL")>>) EXCEPT !.cur_col = 0]
  IN [n EXCEPT !.io.soft_break = FALSE]

(* The tab stop is 4 % cur_col: a division by zero when cur_col is 0. *)
TextTab(h) ==
  LET g == OutputIndent(EndChunk(h)) IN
  IF g.cur_col = 0 THEN [g EXCEPT !.crashed = TRUE]
  ELSE LET n == 4 % g.cur_col
       IN [AddOutput(g, TabStop(n)) EXCEPT !.cur_col = g.cur_col + n]

TextData(h) ==
  [AddToChunk(h, <<It("w")>>) EXCEPT !.chunk_size = h.chunk_size + 1]

PutText(h, c) ==
  CASE c = " "   -> TextSpace(h)
    [] c = "NL"  -> TextNewline(h)
    [] c = "ESC" -> [h EXCEPT !.ostate = "ESCAPE", !.esc = <<"ESC">>]
    [] c = "TAB" -> TextTab(h)
    [] OTHER     -> TextData(h)      \* IAC is doubled, but one column wide

PutEscape(h, c) ==
  CASE c = "!" -> [h EXCEPT !.esc = <<>>, !.ostate = "AWECODE"]
    [] c = "[" -> [h EXCEPT !.esc = <<"ESC", "[">>, !.ostate = "ANSI"]
    [] OTHER   -> [h EXCEPT !.ostate = "TEXT"]

(* Mutant: "C0" pops the stack but does not re-select the enclosing colour. *)
AweColorNoRestore(h) ==
  LET n == LeadingNum(Tail(h.esc), 0) IN
  IF h.io.zmp_color
  THEN IF h.io.zmp THEN AddToChunk(h, <<It("zmp")>>) ELSE h
  ELSE IF ~h.io.use_ansi THEN h
  ELSE IF n = 0
  THEN LET g == AddToChunk(h, <<ColorCode(Normal)>>)
       IN IF g.colors = <<>> THEN g ELSE [g EXCEPT !.colors = Front(@)]
  ELSE IF n < NumCTypes
  THEN LET cv == ColorOfType[n]
       IN [AddToChunk(h, <<ColorCode(cv)>>) EXCEPT !.colors = Append(@, cv)]
  ELSE h

(* The "C" awecode: a colour through ZMP, or ANSI and the colour stack. *)
AweColor(h) ==
  LET n == LeadingNum(Tail(h.esc), 0) IN
  IF h.io.zmp_color
  THEN IF h.io.zmp THEN AddToChunk(h, <<It("zmp")>>) ELSE h
  ELSE IF ~h.io.use_ansi THEN h
  ELSE IF n = 0
  THEN LET g == AddToChunk(h, <<ColorCode(Normal)>>)
           p == IF g.colors = <<>> THEN g ELSE [g EXCEPT !.colors = Front(@)]
       IN IF p.colors = <<>> THEN p
          ELSE AddToChunk(p, <<ColorCode(Last(p.colors))>>)
  ELSE IF n < NumCTypes
  THEN LET cv == ColorOfType[n]
       IN [AddToChunk(h, <<ColorCode(cv)>>) EXCEPT !.colors = Append(@, cv)]
  ELSE h

AweCode(h) ==
  LET cmd == Head(h.esc)
      g == CASE cmd = "C" -> AweColor(h)
             [] cmd = "I" -> SetIndent(h, LeadingNum(Tail(h.esc), 0))
             [] cmd = "A" -> [h EXCEPT !.io.auto_indent =
                                (Len(h.esc) > 1 /\ h.esc[2] = "1")]
             [] OTHER     -> h
  IN [g EXCEPT !.ostate = "TEXT"]

(* Mutant: the awecode is collected up to the full size of esc_buf,     *)
(* leaving no room for the NUL written after it.                          *)
PutAwecodeNoRoom(h, c) ==
  IF c /= "!"
  THEN IF Len(h.esc) < MaxEscape THEN [h EXCEPT !.esc = Append(@, c)] ELSE h
  ELSE IF h.esc = <<>> THEN [h EXCEPT !.ostate = "TEXT"]
  ELSE AweCode(h)

PutAwecode(h, c) ==
  IF c /= "!"
  THEN IF Len(h.esc) < MaxEscape - 1 THEN [h EXCEPT !.esc = Append(@, c)] ELSE h
  ELSE IF h.esc = <<>> THEN [h EXCEPT !.ostate = "TEXT"]
  ELSE AweCode(h)

PutAnsi(h, c) ==
  LET g == IF Len(h.esc) < MaxEscape THEN [h EXCEPT !.esc = Append(@, c)] ELSE h
  IN IF c \notin Alpha THEN g
     ELSE [(IF g.io.use_ansi THEN AddToChunk(g, <<It("ansi")>>) ELSE g)
              EXCEPT !.ostate = "TEXT"]

PutChar(h, c) ==
  IF h.crashed THEN h
  ELSE CASE h.ostate = "TEXT"    -> PutText(h, c)
         [] h.ostate = "ESCAPE"  -> PutEscape(h, c)
         [] h.ostate = "AWECODE" -> PutAwecode(h, c)
         [] h.ostate = "ANSI"    -> PutAnsi(h, c)

(* stream_put(): the pending newline after a prompt, then every character. *)
StreamPut(h, text) ==
  LET g == IF h.io.need_newline
           THEN [AddOutput(h, <<It("NL")>>) EXCEPT !.io.soft_break = FALSE,
                                               !.cur_col = 0]
           ELSE h
      p == FoldLeft(PutChar, [g EXCEPT !.io.need_newline = FALSE], text)
  IN [p EXCEPT !.io.need_prompt = TRUE]

(* prepare(): reset the colour, flush the chunk, draw the prompt. *)
Prepare(h) ==
  LET c == IF h.colors = <<>> THEN h
           ELSE [(IF h.io.use_ansi THEN AddToChunk(h, <<ColorCode(Normal)>>)
                  ELSE h) EXCEPT !.colors = <<>>]
      e == EndChunk(c)
  IN IF ~e.io.need_prompt THEN e
     ELSE LET p == EndChunk(StreamPut(e, PromptText))
              s == AddOutput(p, <<It("s")>> \o (IF p.io.do_eor THEN <<It("eor")>> ELSE <<>>))
          IN [s EXCEPT !.io.need_prompt = FALSE, !.io.need_newline = TRUE,
                       !.cur_col = 0]
-----------------------------------------------------------------------------
Apply(h) ==
  /\ ostate' = h.ostate /\ esc' = h.esc /\ outchunk' = h.outchunk
  /\ chunk_size' = h.chunk_size /\ cur_col' = h.cur_col /\ margin' = h.margin
  /\ width' = h.width /\ colors' = h.colors /\ io_flags' = h.io
  /\ line' = h.line /\ term_color' = h.term_color /\ crashed' = h.crashed
  /\ steps' = steps + 1

(* The constructor: no markup pending, width 70, ANSI colour on. *)
Init ==
  /\ ostate = "TEXT" /\ esc = <<>> /\ outchunk = <<>> /\ chunk_size = 0
  /\ cur_col = 0 /\ margin = 0 /\ width = Width /\ colors = <<>>
  /\ io_flags = [soft_break |-> FALSE, need_newline |-> FALSE,
                 need_prompt |-> FALSE, use_ansi |-> TRUE, zmp |-> FALSE,
                 zmp_color |-> FALSE, auto_indent |-> FALSE, do_eor |-> FALSE]
  /\ line = <<>> /\ term_color = Normal /\ crashed = FALSE /\ steps = 0

Running == ~crashed /\ steps < MaxSteps

(* The application writes text (the << operator of the stream). *)
Put(text) == Running /\ Apply(StreamPut(Handler, text))

(* The event loop flushes the connection before polling. *)
Flush == Running /\ Apply(Prepare(Handler))

(* in_handle() sees '\n' of a line the client echoed itself: the client   *)
(* moved to a new screen line; the line goes to process_command().        *)
InputLine ==
  /\ Running
  /\ Apply([Handler EXCEPT !.line = <<>>, !.io.need_newline = FALSE,
                           !.io.need_prompt = TRUE])

(* The line "!color on" or "!color off": process_telnet_command() sets    *)
(* use_ansi and answers CADMIN "ANSI Color Enabled" CNORMAL "\n" or        *)
(* "ANSI Color Disabled\n" (CADMIN is colour type 7, CNORMAL type 0).      *)
OnMessage  == <<"ESC", "!", "C", "7", "!", "a", "ESC", "!", "C", "0", "!", "NL">>
OffMessage == <<"a", "NL">>
ColorCommand(v) ==
  /\ Running
  /\ LET typed == [Handler EXCEPT !.line = <<>>, !.io.need_newline = FALSE,
                                  !.io.need_prompt = TRUE, !.io.use_ansi = v]
     IN Apply(StreamPut(typed, IF v THEN OnMessage ELSE OffMessage))

(* DO EOR / DONT EOR in in_handle(); the WILL/WONT reply is not visible. *)
DoEor   == Running /\ Apply([Handler EXCEPT !.io.do_eor = TRUE])
DontEor == Running /\ Apply([Handler EXCEPT !.io.do_eor = FALSE])

(* DO ZMP: io_flags.zmp is set and zmp.ident / zmp.check are sent. *)
DoZmp ==
  /\ Running
  /\ Apply([AddOutput(Handler, Its(<<"zmp", "zmp", "zmp">>)) EXCEPT !.io.zmp = TRUE])

(* zmp.support color.define: zmp_support() sets zmp_color and sends one   *)
(* color.define per colour type through send_zmp().                       *)
ZmpSupportColor ==
  /\ Running
  /\ io_flags.zmp
  /\ Apply([AddOutput(Handler, [i \in 1 .. NumCTypes - 1 |-> It("zmp")])
              EXCEPT !.io.zmp_color = TRUE])

Next ==
  \/ \E t \in Texts : Put(t)
  \/ Flush
  \/ InputLine
  \/ \E v \in BOOLEAN : ColorCommand(v)
  \/ DoEor \/ DontEor
  \/ DoZmp
  \/ ZmpSupportColor

Spec == Init /\ [][Next]_vars

-----------------------------------------------------------------------------
TypeOK ==
  /\ ostate \in {"TEXT", "ESCAPE", "AWECODE", "ANSI"}
  /\ esc \in Seq(Chars) /\ Len(esc) <= MaxEscape
  /\ ostate = "AWECODE" => Len(esc) < MaxEscape   \* room for esc_buf's NUL
  /\ outchunk \in Seq(Items)
  /\ {chunk_size, cur_col, margin, width} \subseteq Nat
  /\ colors \in Seq(0 .. 23)
  /\ line \in Seq({"w", "s", "t"}) /\ term_color \in 0 .. 23
  /\ crashed \in BOOLEAN

(* A screen line holds at most width - 2 columns, unless it is the margin  *)
(* and one word too long to wrap (spec section 8).                         *)
Words(l) == Cardinality({i \in DOMAIN l : l[i] = "w" /\ (i = 1 \/ l[i-1] \in {"s", "t"})})
LineWithinWidth ==
  width > 0 => (Len(line) <= width - 2 \/ Words(line) <= 1)

(* Word wrap (end_chunk, the ' ' case) keeps every column it places       *)
(* within width - 2, wherever tabs left the cursor: a screen line that    *)
(* runs past that column is one word too long to wrap, or the '\t' case,  *)
(* which adds its columns without a wrap test, is what first crossed it.  *)
WrapWithinWidth ==
  width > 0 =>
    \/ Len(line) <= width - 2
    \/ Words(line) <= 1
    \/ width - 1 \in 1 .. Len(line) /\ line[width - 1] = "t"

(* The colour stack and the terminal agree: with ANSI colour in use, the   *)
(* colour the terminal will be in once the pending chunk is written is     *)
(* the top of the stack, or normal when it is empty ("C0" restores the     *)
(* enclosing colour, prepare() resets it).                                 *)
ColorAfter(c, items) ==
  FoldLeft(LAMBDA x, it : IF it.kind = "color" THEN it.color ELSE x,
           c, items)
ColorStackMatchesTerminal ==
  (io_flags.use_ansi /\ ~io_flags.zmp_color) =>
    ColorAfter(term_color, outchunk) = IF colors = <<>> THEN Normal ELSE Last(colors)

(* prepare() draws every prompt in the normal colour. *)
PromptInNormalColor ==
  (io_flags.need_newline /\ outchunk = <<>>) => term_color = Normal

(* A tab never divides by a zero column (stream_put, case '\t'). *)
NoDivisionByZero == ~crashed
====
