---------------------------- MODULE TelnetEncode ----------------------------
(***************************************************************************)
(* send_iac and send_data of mud/telnet.cc: the variadic bytes are copied  *)
(* into a 16-byte stack buffer, every IAC doubled, and the buffer is       *)
(* handed to add_output each time it fills and once at the end.  The       *)
(* model keeps the buffer index arithmetic exactly and records every       *)
(* add_output call; the buffer capacity is a constant so that small        *)
(* inputs reach it.                                                        *)
(***************************************************************************)
EXTENDS Integers, Sequences, SequencesExt

CONSTANTS
    ChunkCap,   \* sizeof(buffer): 16 in the code
    ArgBytes,   \* byte values an argument may take
    MaxArgs     \* longest argument list

IAC == 255

VARIABLES
    kind,    \* which of the two functions ran last
    args,    \* its arguments
    calls    \* the add_output calls it made, each a byte sequence

vars == <<kind, args, calls>>

\* Loop state: the stack buffer buffer[0..bc-1] and the calls made so far.
Flush(st) == [buf |-> <<>>, out |-> Append(st.out, st.buf)]

\* One byte of the loop: store it, flush on a full buffer, store a second
\* IAC, flush on a full buffer.
PutByteLateFlush(st, byte) ==
    LET s1 == [st EXCEPT !.buf = Append(@, byte)]
        s2 == IF Len(s1.buf) > ChunkCap THEN Flush(s1) ELSE s1
        s3 == IF byte = IAC THEN [s2 EXCEPT !.buf = Append(@, IAC)] ELSE s2
    IN  IF Len(s3.buf) > ChunkCap THEN Flush(s3) ELSE s3

PutByte(st, byte) ==
    LET s1 == [st EXCEPT !.buf = Append(@, byte)]
        s2 == IF Len(s1.buf) >= ChunkCap THEN Flush(s1) ELSE s1
        s3 == IF byte = IAC THEN [s2 EXCEPT !.buf = Append(@, IAC)] ELSE s2
    IN  IF Len(s3.buf) >= ChunkCap THEN Flush(s3) ELSE s3

EncodeNoFinalFlush(start, a) ==
    FoldLeft(PutByte, [buf |-> start, out |-> <<>>], a).out

\* The loop over the arguments and the final "if (bc) add_output".
Encode(start, a) ==
    LET st == FoldLeft(PutByte, [buf |-> start, out |-> <<>>], a)
    IN  IF st.buf # <<>> THEN Flush(st).out ELSE st.out

\* send_iac(count, ...): the buffer starts with IAC (bc = 1).
SendIac(a) ==
    /\ kind' = "iac"
    /\ args' = a
    /\ calls' = Encode(<<IAC>>, a)

\* send_data(count, ...): the buffer starts empty (bc = 0).
SendData(a) ==
    /\ kind' = "data"
    /\ args' = a
    /\ calls' = Encode(<<>>, a)

ArgLists == UNION {[1..n -> ArgBytes] : n \in 0..MaxArgs}

Init ==
    /\ kind = "data"
    /\ args = <<>>
    /\ calls = <<>>

Next == \E a \in ArgLists : SendIac(a) \/ SendData(a)

Spec == Init /\ [][Next]_vars

-----------------------------------------------------------------------------
(* Properties *)

\* Reference definition of byte-stuffing: each IAC is sent twice.
RECURSIVE Stuffed(_)
Stuffed(s) ==
    IF s = <<>> THEN <<>>
    ELSE (IF Head(s) = IAC THEN <<IAC, IAC>> ELSE <<Head(s)>>) \o Stuffed(Tail(s))

Concat(cs) == FoldLeft(LAMBDA acc, c : acc \o c, <<>>, cs)

TypeOK ==
    /\ kind \in {"iac", "data"}
    /\ args \in ArgLists
    /\ calls \in Seq(Seq(0..255))

\* Every add_output call hands over between 1 and sizeof(buffer) bytes: the
\* loop never writes buffer[16], and never calls add_output with nothing.
ChunksFitBuffer == \A i \in DOMAIN calls : Len(calls[i]) \in 1..ChunkCap

\* Taken together the add_output calls carry exactly the byte-stuffed
\* arguments, behind an IAC for send_iac.
EncodedAsReference ==
    Concat(calls) = (IF kind = "iac" THEN <<IAC>> ELSE <<>>) \o Stuffed(args)
=============================================================================
