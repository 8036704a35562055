----------------------------- MODULE OutBuffer -----------------------------
(***************************************************************************)
(* The output side of one telnet connection in mud/telnet.cc: the pooled  *)
(* TextBuffer that holds the bytes waiting for the socket (alloc, grow,    *)
(* release), add_to_out_buffer with its overflow policy, get_poll_flags    *)
(* that asks the reactor for write readiness, and out_ready that hands the *)
(* buffer to send().                                                       *)
(*                                                                         *)
(* Data is abstracted to distinct tokens: the n-th byte ever queued is the *)
(* integer n, so loss, duplication and reordering are visible.  Bytes that *)
(* are not part of this connection's output are Stale (whatever a pooled   *)
(* or out-of-bounds memory cell holds), Nul (strncpy padding) or the bytes *)
(* of the overflow notice.                                                 *)
(***************************************************************************)
EXTENDS Integers, Sequences, SequencesExt

CONSTANTS
    Sizes,        \* capacities of the TextBufferList size classes, ascending
    OvfLen,       \* strlen of the "OUTPUT OVERFLOW" notice
    MaxLen,       \* longest single add_output call
    MaxBytes,     \* bound on the bytes queued over a behaviour
    PartialSends  \* may send() accept a proper prefix of the buffer?

ASSUME /\ Len(Sizes) >= 1
       /\ \A i \in 1..Len(Sizes) - 1 : Sizes[i] < Sizes[i+1]
       /\ OvfLen \in 1..Sizes[Len(Sizes)] - 1

VARIABLES
    bsize,    \* size class of the buffer, 0 for EMPTY
    store,    \* contents of the buffer memory, cell by cell
    out_cnt,  \* number of valid bytes at the front of the buffer
    recv,     \* bytes the peer has received, in order
    next      \* next data token to queue (ghost)

vars == <<bsize, store, out_cnt, recv, next>>

Stale == 0
Nul == -1
OvfMsg == [i \in 1..OvfLen |-> -1 - i]
Cells == 1..Sizes[Len(Sizes)]
Byte == {Stale, Nul} \cup Range(OvfMsg) \cup 1..MaxBytes

\* TextBuffer::size(): capacity of the current class, 0 when EMPTY.
Size(b) == IF b = 0 THEN 0 ELSE Sizes[b]

\* The valid bytes of the buffer.
Pending == [i \in 1..out_cnt |-> store[i]]

GetPollFlagsOffByOne == {"READ"} \cup (IF out_cnt > 1 THEN {"WRITE"} ELSE {})

\* POLLSYS flags returned by get_poll_flags.
GetPollFlags == {"READ"} \cup (IF out_cnt > 0 THEN {"WRITE"} ELSE {})

\* A freshly allocated or released buffer: its memory holds nothing of ours.
StaleStore == [c \in Cells |-> Stale]

\* grow() from class b up to class nb: memcpy of the old size() bytes into
\* the new buffer, the rest of which is pooled memory.
Grown(b, nb) == [c \in Cells |-> IF c <= Size(b) THEN store[c] ELSE Stale]

\* memcpy(output.data() + at, data, Len(data)).
CopyIn(s, at, data) ==
    [c \in Cells |-> IF c > at /\ c <= at + Len(data) THEN data[c - at] ELSE s[c]]

\* strncpy(output.data(), overflow_msg, output.size()) into the largest
\* class: the notice, then NUL padding up to size().
Notice == [c \in Cells |-> IF c <= OvfLen THEN OvfMsg[c] ELSE Nul]

OverflowKeepHead(data) ==
    LET top    == Len(Sizes)
        remain == Size(top) - OvfLen
        kept   == SubSeq(data, 1, Min({Len(data), remain}))
    IN  /\ bsize' = top
        /\ store' = CopyIn(Notice, OvfLen, kept)
        /\ out_cnt' = OvfLen + Len(kept)

OverflowAtZero(data) ==
    LET top    == Len(Sizes)
        remain == Size(top)
        kept   == IF Len(data) > remain THEN SubSeq(data, Len(data) - remain + 1, Len(data)) ELSE data
    IN  /\ bsize' = top
        /\ store' = CopyIn(Notice, 0, kept)
        /\ out_cnt' = Len(kept)

OverflowNoClamp(data) ==
    LET top == Len(Sizes)
    IN  /\ bsize' = top
        /\ store' = CopyIn(Notice, OvfLen, SubSeq(data, 1, Min({Len(data), Size(top) - OvfLen})))
        /\ out_cnt' = OvfLen + Len(data)

OverflowCountsNul(data) ==
    LET top    == Len(Sizes)
        remain == Size(top) - OvfLen - 1
        kept   == IF Len(data) > remain THEN SubSeq(data, Len(data) - remain + 1, Len(data)) ELSE data
    IN  /\ bsize' = top
        /\ store' = CopyIn(Notice, OvfLen + 1, kept)
        /\ out_cnt' = OvfLen + 1 + Len(kept)

\* The overflow branch of add_to_out_buffer: the notice, out_cnt = strlen,
\* and as much of the end of the new data as fits after it.
Overflow(data) ==
    LET top    == Len(Sizes)
        remain == Size(top) - OvfLen
        kept   == IF Len(data) > remain THEN SubSeq(data, Len(data) - remain + 1, Len(data)) ELSE data
    IN  /\ bsize' = top
        /\ store' = CopyIn(Notice, OvfLen, kept)
        /\ out_cnt' = OvfLen + Len(kept)

\* add_to_out_buffer(data, len): grow while len + out_cnt >= size(); a
\* grow() of the largest class fails and takes the overflow branch.
AddToOutBuffer(data) ==
    LET need  == Len(data) + out_cnt
        first == IF bsize = 0 THEN 1 ELSE bsize
        fits  == {i \in first..Len(Sizes) : need < Sizes[i]}
    IN  IF fits = {}
        THEN Overflow(data)
        ELSE LET nb == Min(fits) IN
             /\ bsize' = nb
             /\ store' = CopyIn(IF nb = bsize THEN store ELSE Grown(bsize, nb), out_cnt, data)
             /\ out_cnt' = need

\* add_output(data, len) without compression: len fresh bytes are queued.
AddOutput(len) ==
    /\ next + len - 1 <= MaxBytes
    /\ AddToOutBuffer([i \in 1..len |-> next + i - 1])
    /\ next' = next + len
    /\ UNCHANGED recv

\* out_ready after poll reported the socket writable: send() takes ret
\* bytes.  A result of -1 or 0 changes nothing and is a stuttering step.
\* On a short send the code moves memory from data + out_cnt (not
\* data + ret) and leaves out_cnt as it was; cells past size() read
\* whatever lies beyond the buffer.
OutReady(ret) ==
    /\ "WRITE" \in GetPollFlags
    /\ recv' = recv \o SubSeq(Pending, 1, ret)
    /\ IF out_cnt - ret > 0
       THEN /\ store' = [c \in Cells |->
                   IF c <= out_cnt - ret
                   THEN IF out_cnt + c <= Size(bsize) THEN store[out_cnt + c] ELSE Stale
                   ELSE store[c]]
            /\ UNCHANGED <<bsize, out_cnt>>
       ELSE /\ bsize' = 0
            /\ store' = StaleStore
            /\ out_cnt' = 0
    /\ UNCHANGED next

SendResults == IF PartialSends THEN 1..out_cnt ELSE {out_cnt}

Init ==
    /\ bsize = 0
    /\ store = StaleStore
    /\ out_cnt = 0
    /\ recv = <<>>
    /\ next = 1

Next ==
    \/ \E len \in 1..MaxLen : AddOutput(len)
    \/ \E ret \in SendResults : OutReady(ret)

\* The reactor calls out_ready whenever poll reports the socket writable;
\* the peer is assumed to keep reading, so a whole send is eventually
\* possible and stays possible until taken.
Spec == Init /\ [][Next]_vars /\ WF_vars(OutReady(out_cnt))

-----------------------------------------------------------------------------
(* Properties *)

\* The buffer never holds more valid bytes than its capacity: every memcpy
\* of add_to_out_buffer stays inside output.data().
TypeOK ==
    /\ bsize \in 0..Len(Sizes)
    /\ store \in [Cells -> Byte]
    /\ out_cnt \in 0..Size(bsize)
    /\ recv \in Seq(Byte)
    /\ next \in 1..MaxBytes + 1

\* What the peer has received followed by what is pending is this
\* connection's own output in queueing order: no byte twice, none out of
\* order, no pooled memory and no strncpy padding.
Delivered == recv \o Pending
StreamIntegrity ==
    /\ \A i \in DOMAIN Delivered : Delivered[i] \notin {Stale, Nul}
    /\ \A i, j \in DOMAIN Delivered :
          i < j /\ Delivered[i] > 0 /\ Delivered[j] > 0 => Delivered[i] < Delivered[j]

\* The overflow branch keeps the end of the new data: the newest byte
\* queued is always either received or pending.
NewestKept == next > 1 => next - 1 \in Range(Delivered)

\* Output is only lost with notice: every byte that was queued but will
\* never reach the peer is followed in the stream by the overflow notice.
LossAnnounced ==
    \A t \in 1..next - 1 :
        t \notin Range(Delivered) =>
            \E i \in DOMAIN Delivered :
                /\ Delivered[i] = OvfMsg[1]
                /\ \A j \in i..Len(Delivered) : Delivered[j] > 0 => Delivered[j] > t

\* The buffer implements the output channel of OutputChannel: the valid
\* bytes of the buffer are the channel's queue.  Safety says that growth,
\* the overflow branch and out_ready keep the FIFO; liveness says that the
\* write interest of get_poll_flags keeps out_ready coming until every
\* queued byte has been sent.
Channel == INSTANCE OutputChannel WITH
    Cap <- Sizes[Len(Sizes)], Notice <- OvfMsg, queue <- Pending
ImplementsChannel == Channel!Spec
=============================================================================
