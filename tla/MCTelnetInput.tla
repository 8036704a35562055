--------------------------- MODULE MCTelnetInput ----------------------------
(* Model-checking instance of TelnetInput: a peer that types short lines   *)
(* (one with a backspace, two telnet commands), negotiates a supported,    *)
(* a half-supported and an unsupported option, and sends subnegotiations   *)
(* with a doubled IAC, the Windows NEW-ENVIRON answer and a short NAWS.    *)
EXTENDS TelnetInput

MCLines == { <<97>>, <<98, DEL, 97>>, <<BANG, EchoOff>>, <<BANG, EchoOn>> }

\* lines without telnet commands
MCPlainLines == { <<97>> }

\* only compression is offered
MCMccpOpts == { TELOPT_MCCP2 }

MCNegOpts == { TELOPT_ECHO, TELOPT_ZMP, 7 }

MCBlocks == { <<TELOPT_ZMP, IAC, 0>>,
              <<TELOPT_NEW_ENVIRON, 0, 0, SYSTEMTYPE, 1, WIN32>>,
              <<TELOPT_NAWS, 0>> }
====
