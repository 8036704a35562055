------------------------------- MODULE MCZmp -------------------------------
(* Model-checking instance of Zmp: the built-in commands with well-formed  *)
(* and malformed payloads, an argument that needs IAC doubling on the way  *)
(* back, more arguments than argv holds, and script entries under "net.".  *)
EXTENDS Zmp

\* A payload from its strings, each NUL-terminated.
Payload(strs) == FoldLeft(LAMBDA acc, s : acc \o s \o <<NUL>>, <<>>, strs)

MCPayloads ==
    { Payload(<<ZmpPing>>),
      Payload(<<ZmpCheck, ColorDefine>>),
      Payload(<<ZmpCheck, <<IAC>>>>),
      Payload(<<ZmpSupport, ColorDefine>>),
      Payload(<<ZmpNoSupport, ColorDefine>>),
      Payload(<<ZmpSupport, NetAwemud>>),
      Payload(<<ZmpInput, Text>>),
      Payload(<<ZmpInput, Text, Text, Text>>),
      Payload(<<<<"net", Dot, "x">>>>),
      <<CTL, NUL>>, <<NUL>>, ZmpPing }

\* a package entry for "net."
MCScriptNames == { <<"net", Dot>> }

\* a package entry and an exact entry inside it
MCOrderNames == { <<"net", Dot>>, <<"net", Dot, "x">> }
====
