--------------------------- MODULE OutputChannel ---------------------------
(***************************************************************************)
(* What the output side of a telnet connection promises (spec section 4.1 *)
(* and the resource-exhaustion rule of section 7): a FIFO of bytes from   *)
(* the server to the peer.  Bytes are delivered in the order queued, each *)
(* once.  When queueing would exceed the capacity, the undelivered bytes  *)
(* are replaced by a notice followed by the newest bytes that fit.  Every *)
(* queued byte is eventually delivered or replaced.                       *)
(***************************************************************************)
EXTENDS Integers, Sequences, SequencesExt

CONSTANTS
    Cap,       \* capacity: queueing that reaches it overflows
    Notice,    \* the overflow notice, a sequence of bytes
    MaxLen,    \* longest single write
    MaxBytes   \* bound on the bytes queued over a behaviour

VARIABLES
    queue,   \* bytes accepted and not yet delivered
    recv,    \* bytes delivered, in order
    next     \* next data token to queue

vars == <<queue, recv, next>>

\* Write the next len tokens: append when they fit, else the notice and a
\* non-empty tail of the new bytes that fits beside it.
Enqueue(len) ==
    LET data == [i \in 1..len |-> next + i - 1]
    IN  /\ next + len - 1 <= MaxBytes
        /\ IF Len(queue) + len < Cap
           THEN queue' = queue \o data
           ELSE \E k \in 1..Min({len, Cap - Len(Notice)}) :
                   queue' = Notice \o SubSeq(data, len - k + 1, len)
        /\ next' = next + len
        /\ UNCHANGED recv

\* The transport takes the first k bytes.
Deliver(k) ==
    /\ k \in 1..Len(queue)
    /\ recv' = recv \o SubSeq(queue, 1, k)
    /\ queue' = SubSeq(queue, k + 1, Len(queue))
    /\ UNCHANGED next

Init ==
    /\ queue = <<>>
    /\ recv = <<>>
    /\ next = 1

Next ==
    \/ \E len \in 1..MaxLen : Enqueue(len)
    \/ \E k \in 1..Len(queue) : Deliver(k)

\* Whatever is queued is eventually delivered.
Spec == Init /\ [][Next]_vars /\ WF_vars(Deliver(Len(queue)))
=============================================================================
