---------------------------- MODULE MCControl -------------------------------
(* Model-checking instance of Control: an administrator and a plain user  *)
(* on the control socket, one existing account and one name free for      *)
(* newaccount, a 10-byte in_buffer so that long lines overflow it.         *)
EXTENDS Control

CONSTANTS admin, user

MCClients == {admin, user}
MCAdmins == {admin}
MCNames == {"acct", "new"}
MCExisting == {"acct"}
MCNumbers == [w \in {"-1", "2"} |-> IF w = "-1" THEN -1 ELSE 2]

\* Command lines of every shape process() distinguishes: plain, with runs
\* of spaces, with a {quoted argument}, with escapes, split over two
\* reads, and one longer than the buffer.
MCChunks ==
    { <<"disable", SP, "acct", NL>>,
      <<"newaccount", SP, SP, "new", NL>>,
      <<"setmaxchars", SP, "acct", SP, "-1", NL>>,
      <<"chname", SP, "acct", SP, LBR, "a", SP, "b", RBR, NL>>,
      <<"enable", SP, "acct", BS, EN, NL>>,
      <<"quit", BS, NL>>,
      <<"shutdown">>, <<NL>>,
      <<"quit", NL>> }

\* A quoted argument whose closing brace never comes.
MCOpenQuote == { <<"chname", SP, LBR, "a", NL>>, <<"version", NL>> }
====
