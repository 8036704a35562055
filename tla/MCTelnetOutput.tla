--------------------------- MODULE MCTelnetOutput ---------------------------
(* Model-checking instance of TelnetOutput: a narrow screen so that wrap  *)
(* happens after two or three words, and texts that exercise every state   *)
(* of stream_put().                                                        *)
EXTENDS TelnetOutput

(* color_type_defaults[] of src/src/mud/telnet.cc, as indices of          *)
(* color_values[] (normal 0, red 2, green 3, brown 4, magenta 6, cyan 7,   *)
(* grey 8, lightred 10, lightgreen 11, yellow 12, lightblue 13,            *)
(* lightcyan 15).                                                          *)
MCColorOfType ==
  [t \in 0 .. 15 |-> <<0, 3, 0, 6, 4, 13, 4, 2, 7, 8, 10, 12, 15, 11, 4, 7>>[t + 1]]

Awe(cmd, n) == <<"ESC", "!", cmd, n, "!">>

(* Texts.  The last one leaves an awecode open, as a stream_put call of   *)
(* a code split over several << operators does; it is also longer than     *)
(* esc_buf.  "ESC [ J" is a raw ANSI sequence, as clear_scr writes.        *)
MCTexts ==
  { <<"a", "a">>, <<"a", "a", "a", "a", "a", "a">>, <<" ">>, <<"NL">>,
    <<"IAC">>, Awe("C", "7"), Awe("C", "1"), Awe("C", "0"),
    Awe("I", "2"), Awe("I", "0"), <<"ESC", "[", "J">>,
    <<"ESC", "!", "C", "0", "0", "7">> }

(* The same texts and a tab after a word, as in a table the game lays out *)
(* with tabs; and a tab alone, which may come at column 0.                 *)
MCTabTexts == MCTexts \cup { <<"a", "TAB">>, <<"TAB">> }

MCPrompt == <<"a">>
====
