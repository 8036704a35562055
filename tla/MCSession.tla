---------------------------- MODULE MCSession -------------------------------
(* Model-checking instance of Session: two connections from one host,     *)
(* one allowed at a time, going through a login and a play mode.          *)
EXTENDS Session

CONSTANTS h1, h2

MCHandlers == {h1, h2}

\* every connection comes from the same peer address
MCAddr == [h \in MCHandlers |-> "host"]

MCModes == {"login", "play"}
====
