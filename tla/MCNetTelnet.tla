---------------------------- MODULE MCNetTelnet -----------------------------
(* Model-checking instance of NetTelnet: a peer that types one-letter lines *)
(* in reads of up to three bytes, with backspaces (one right after a       *)
(* newline), a control byte the handler drops, and several lines in one    *)
(* read, so that the type-ahead limit and process_input's one line per     *)
(* read both come into play.                                               *)
EXTENDS NetTelnet

MCPrintable == {"a", "b"}

MCChunks == { <<"a", NL, "b">>, <<NL, NL>>, <<DEL, NL>>, <<"b", "ESC", DEL>>, <<NL, DEL, "a">> }

MCModes == {"login", "play"}

(* color_type_defaults[] of src/src/net/telnet.cc, as indices of          *)
(* color_values[].                                                         *)
MCColorOfType ==
  [t \in 0 .. 15 |-> <<0, 3, 0, 6, 4, 13, 4, 2, 7, 8, 10, 12, 15, 11, 4, 7>>[t + 1]]

Awe(cmd, n) == <<"ESC", "!", cmd, n, "!">>

(* The answers to a line: two words that do not fit a narrow screen     *)
(* together, and nested colours of which CNORMAL closes only the inner     *)
(* one (sock_flush resets the other), with an ANSI sequence passed         *)
(* through (clear_scr's ESC [ J), and a tab that a second word leaves     *)
(* past the wrap column.                                                  *)
MCReplies ==
  { <<"a", "a", "a", " ", "a", "a", "a", "NL">>,
    <<"a", " ", "a", "a", "a", "TAB", "NL">>,
    Awe("C", "7") \o <<"a">> \o Awe("C", "1") \o <<"a", " ">> \o Awe("C", "0")
      \o <<"a", "ESC", "[", "J", "NL">> }

(* Plain answers, one of which ends its last word right before the wrap  *)
(* column and has a space before its newline.                              *)
MCBlankReplies ==
  { <<"a", "a", "a", " ", "a", "a", "a", "NL">>, <<"a", "a", "a", "a", "a", " ", "NL">> }

(* check_timeout: CADMIN "You are being disconnected ..." CNORMAL "\n". *)
MCNotice == Awe("C", "7") \o <<"a">> \o Awe("C", "0") \o <<"NL">>

(* The EV_DATA case: CADMIN "You only have " N " type-ahead lines."     *)
(* CNORMAL "\n".                                                          *)
MCCutNotice == Awe("C", "7") \o <<"a", " ", "a">> \o Awe("C", "0") \o <<"NL">>

MCPrompt == <<"a">>
====
