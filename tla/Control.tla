------------------------------ MODULE Control ------------------------------
(***************************************************************************)
(* The control interface of src/src/mud/control.cc: local clients, some of *)
(* them administrators, send command lines over a socket; in_handle        *)
(* appends the bytes to the fixed in_buffer and process() splits complete  *)
(* lines into arguments in place (escapes, {quoted} arguments, runs of     *)
(* spaces) and calls handle(), which answers "-" data lines and one "+"    *)
(* status line and may change accounts or stop the server.  out_ready      *)
(* sends out_buffer and clears it.                                         *)
(*                                                                         *)
(* Bytes are atoms: the punctuation the tokenizer looks at, and whole      *)
(* words for command names, account names and numbers.  in_buffer is the  *)
(* array of CONTROL_BUFFER_SIZE cells with the stale bytes earlier lines   *)
(* left behind, because the tokenizer can read them.  AccountManager,      *)
(* tolong and the accept path (which sets admin_flag) are not in the       *)
(* sources; their effects are modelled by contract.                        *)
(***************************************************************************)
EXTENDS Integers, Sequences, SequencesExt, FiniteSets

CONSTANTS
    Clients,       \* control connections
    Admins,        \* those accepted with admin_flag set
    Chunks,        \* byte chunks a client may send in one read
    BufSize,       \* CONTROL_BUFFER_SIZE
    Names,         \* account names
    Existing,      \* the accounts that exist at start
    Numbers,       \* the value tolong gives a number word
    SendResults,   \* the outcomes of send() the run allows: "all", "partial", "error"
    MaxSteps       \* reads over a behaviour

NUL == "NUL"
NL == "\n"
BS == "\\"
SP == " "
LBR == "{"
RBR == "}"
EN == "n"
OOB == "OOB"   \* a read outside the array
MaxArgs == 20  \* MAX_CTRL_ARGS

VARIABLES
    ctl,        \* per client: in_buffer, out_buffer, socket, and ghosts
    accounts,   \* AccountManager: the fields the commands set
    down,       \* AweMUD::shutdown was called
    steps

vars == <<ctl, accounts, down, steps>>

Rd(buf, i) == IF i \in 1..BufSize THEN buf[i] ELSE OOB

\* strlen(in_buffer)
Strlen(buf) == Min({j \in 1..BufSize : buf[j] = NUL} \cup {BufSize + 1}) - 1

\* The C string at index i.
StringAt(buf, i) ==
    IF i > BufSize THEN <<>>
    ELSE SubSeq(buf, i, Min({j \in i..BufSize : buf[j] = NUL} \cup {BufSize + 1}) - 1)

-----------------------------------------------------------------------------
(* process(): the tokenizer of one line, in place *)

\* cptr = c, bptr = b, argv holds the start index of each argument; end is
\* the index of the NUL that ended the data when the line was found.
ScanStart(buf, len) ==
    [buf |-> buf, c |-> 1, b |-> 1, quote |-> FALSE, argc |-> 0, argv |-> <<1>>,
     done |-> FALSE, overrun |-> FALSE, stale |-> FALSE, end |-> len + 1]

Put(s, x) == [s EXCEPT !.buf[s.b] = x, !.b = @ + 1]
EndArg(s) == [s EXCEPT !.buf[s.b] = NUL, !.argc = @ + 1]
Overrun(s) == [s EXCEPT !.overrun = TRUE, !.done = TRUE]

\* One pass of the while (true) loop, its branches in the code's order.
ScanStep(s0) ==
    LET ch == Rd(s0.buf, s0.c)
        s  == [s0 EXCEPT !.stale = @ \/ s0.c > s0.end]
    IN  IF ch = OOB THEN Overrun(s)
        ELSE IF ch = BS THEN
             LET n == Rd(s.buf, s.c + 1)
             IN  IF n = OOB THEN Overrun(s)
                 ELSE IF n = NL THEN [s EXCEPT !.done = TRUE]
                 ELSE [Put(s, IF n = EN THEN NL ELSE n)
                         EXCEPT !.c = @ + 2, !.stale = @ \/ s.c + 1 > s.end]
        ELSE IF s.quote /\ ch # NUL THEN
             IF ch = RBR THEN [s EXCEPT !.quote = FALSE, !.c = @ + 1]
             ELSE [Put(s, ch) EXCEPT !.c = @ + 1]
        ELSE IF ~s.quote /\ ch = SP THEN
             LET e == EndArg(s)
                 k == Min({j \in s.c..BufSize : Rd(s.buf, j + 1) # SP})
             IN  IF e.argc = MaxArgs THEN [e EXCEPT !.done = TRUE]
                 ELSE [e EXCEPT !.argv = Append(@, s.b + 1), !.b = @ + 1,
                                !.c = k + 1, !.done = Rd(s.buf, k + 1) = NL]
        ELSE IF ch = NL THEN [EndArg(s) EXCEPT !.done = TRUE]
        ELSE IF ~s.quote /\ ch = LBR THEN [s EXCEPT !.quote = TRUE, !.c = @ + 1]
        ELSE [Put(s, ch) EXCEPT !.c = @ + 1]

RECURSIVE Scan(_)
Scan(s) == IF s.done THEN s ELSE Scan(ScanStep(s))

-----------------------------------------------------------------------------
(* handle() *)

\* argv[k], for k below the number of argument starts.
Arg(buf, argv, k) == IF k < Len(argv) THEN StringAt(buf, argv[k + 1]) ELSE <<>>

\* operator<< into out_buffer (stream_put); log keeps every line queued.
Say(st, rs) == [st EXCEPT !.out = @ \o rs, !.log = @ \o rs]

\* CHECK_ADMIN: is_admin() is the admin_flag given at accept time.
CheckAdminNone(c) == TRUE
CheckAdmin(c) == c \in Admins

\* AccountManager.get(name)
Found(st, name) == Len(name) = 1 /\ name[1] \in Names /\ st.acc[name[1]].exists

\* tolong: a number word's value, 0 for anything else.
ToLong(s) == IF Len(s) = 1 /\ s[1] \in DOMAIN Numbers THEN Numbers[s[1]] ELSE 0

SetField(st, n, f, v) == [st EXCEPT !.acc[n][f] = v]

\* The account commands: argument count, CHECK_ADMIN, AccountManager.get,
\* then the change (updated, the state after it); each failed check
\* answers and returns.
AccountCmd(st, c, name, argsOk, updated) ==
    IF ~argsOk THEN Say(st, <<"+BADPARAM">>)
    ELSE IF ~CheckAdmin(c) THEN Say(st, <<"+NOACCESS">>)
    ELSE IF ~Found(st, name) THEN Say(st, <<"+NOTFOUND">>)
    ELSE updated

SetMaxNoReturn(st, n, f, amount) ==
    LET st1 == IF amount < 0 THEN Say(st, <<"+BADPARAM">>) ELSE st
    IN  Say(SetField(st1, n, f, amount), <<"+OK">>)

\* setmaxchars / setmaxactive: a negative amount is refused, else set and
\* saved.
SetMax(st, n, f, amount) ==
    IF amount < 0 THEN Say(st, <<"+BADPARAM">>)
    ELSE Say(SetField(st, n, f, amount), <<"+OK">>)

Handle(st, c, argc, argv) ==
    LET A(k)   == Arg(st.buf, argv, k)
        cmd    == A(0)
        Is(w)  == cmd = <<w>>
    IN  CASE Is("version") \/ Is("build") \/ Is("pcount") -> Say(st, <<"-", "+OK">>)
          [] Is("quit") -> [Say(st, <<"+OK">>) EXCEPT !.sock = FALSE]
          [] Is("chpass") ->
               AccountCmd(st, c, A(1), argc = 3, Say(SetField(st, A(1)[1], "pass", A(2)), <<"+OK">>))
          [] Is("newaccount") ->
               IF argc # 2 THEN Say(st, <<"+BADPARAM">>)
               ELSE IF ~CheckAdmin(c) THEN Say(st, <<"+NOACCESS">>)
               ELSE IF ~(Len(A(1)) = 1 /\ A(1)[1] \in Names) THEN Say(st, <<"+INVALID">>)
               ELSE IF Found(st, A(1)) THEN Say(st, <<"+DUPLICATE">>)
               ELSE Say(SetField(st, A(1)[1], "exists", TRUE), <<"+OK">>)
          [] Is("chname") ->
               AccountCmd(st, c, A(1), argc >= 3, Say(SetField(st, A(1)[1], "name", A(2)), <<"+OK">>))
          [] Is("chmail") ->
               AccountCmd(st, c, A(1), argc = 3, Say(SetField(st, A(1)[1], "email", A(2)), <<"+OK">>))
          [] Is("disable") ->
               AccountCmd(st, c, A(1), argc >= 2, Say(SetField(st, A(1)[1], "disabled", TRUE), <<"+OK">>))
          [] Is("enable") ->
               AccountCmd(st, c, A(1), argc >= 2, Say(SetField(st, A(1)[1], "disabled", FALSE), <<"+OK">>))
          [] Is("setmaxchars") ->
               AccountCmd(st, c, A(1), argc >= 3, SetMax(st, A(1)[1], "maxchars", ToLong(A(2))))
          [] Is("setmaxactive") ->
               AccountCmd(st, c, A(1), argc >= 3, SetMax(st, A(1)[1], "maxactive", ToLong(A(2))))
          [] Is("showaccount") ->
               IF argc < 2 THEN Say(st, <<"+BADPARAM">>)
               ELSE IF ~Found(st, A(1)) THEN Say(st, <<"+NOTFOUND">>)
               ELSE Say(st, <<"-", "+OK">>)
          [] Is("shutdown") ->
               IF ~CheckAdmin(c) THEN Say(st, <<"+NOACCESS">>)
               ELSE Say([st EXCEPT !.down = TRUE], <<"+OK">>)
          [] Is("announce") ->
               IF argc < 2 THEN Say(st, <<"+BADPARAM">>)
               ELSE IF ~CheckAdmin(c) THEN Say(st, <<"+NOACCESS">>)
               ELSE Say(st, <<"+OK">>)
          [] Is("connections") -> Say(st, <<"-", "+OK">>)
          [] OTHER -> Say(st, <<"+BADCOMMAND">>)

-----------------------------------------------------------------------------
(* process(), in_handle, out_ready *)

\* strchr(in_buffer, '\n'): the index of the first newline, 0 if none.
FirstNL(buf) ==
    LET nls == {j \in 1..Strlen(buf) : buf[j] = NL}
    IN  IF nls = {} THEN 0 ELSE Min(nls)

\* The cleanup after handle: memmove the len - (blen + 1) bytes after the
\* newline to the front and terminate them.
CleanupNoNul(buf, brk, len) ==
    [i \in 1..BufSize |-> IF i <= len - brk THEN buf[i + brk] ELSE buf[i]]

Cleanup(buf, brk, len) ==
    [i \in 1..BufSize |-> IF i <= len - brk THEN buf[i + brk]
                          ELSE IF i = len - brk + 1 THEN NUL ELSE buf[i]]

\* The while (brk != NULL) loop of process().  A tokenizer that runs off
\* the array is undefined behaviour; the model stops there.
RECURSIVE ProcessLoop(_, _, _)
ProcessLoop(st, c, len) ==
    LET brk == FirstNL(st.buf)
        sc  == Scan(ScanStart(st.buf, len))
        h   == Handle([st EXCEPT !.buf = sc.buf, !.stale = @ \/ sc.stale], c, sc.argc, sc.argv)
        buf == Cleanup(h.buf, brk, len)
    IN  IF brk = 0 THEN st
        ELSE IF sc.overrun THEN [st EXCEPT !.overrun = TRUE]
        ELSE ProcessLoop([h EXCEPT !.buf = buf], c, Strlen(buf))

ClientFields == {"buf", "out", "log", "sock", "recv", "sent", "refused", "stale", "overrun"}

\* in_handle: refuse data that does not fit (answer, close the socket;
\* the ghosts sent and refused record the read), else append it and its
\* NUL and run process().
InHandle(c, data) ==
    LET r    == ctl[c]
        len  == Strlen(r.buf)
        size == Len(data)
        buf  == [i \in 1..BufSize |-> IF i \in len + 1..len + size THEN data[i - len]
                                      ELSE IF i = len + size + 1 THEN NUL ELSE r.buf[i]]
        st   == ProcessLoop([buf |-> buf, sent |-> r.sent \o data, acc |-> accounts, down |-> down]
                              @@ r, c, len + size)
    IN  /\ steps < MaxSteps
        /\ r.sock
        /\ steps' = steps + 1
        /\ IF len + size + 1 > BufSize
           THEN /\ ctl' = [ctl EXCEPT ![c] = [Say(r, <<"+INTERNAL">>) EXCEPT !.sock = FALSE,
                                                  !.sent = @ \o data, !.refused = data]]
                /\ UNCHANGED <<accounts, down>>
           ELSE /\ ctl' = [ctl EXCEPT ![c] = [f \in ClientFields |-> st[f]]]
                /\ accounts' = st.acc
                /\ down' = st.down

\* The whole-line counts send() may return: all, fewer, or -1.
Sent(c) ==
    LET n == Len(ctl[c].out)
    IN  (IF "all" \in SendResults THEN {n} ELSE {})
        \cup (IF "partial" \in SendResults THEN 0..n - 1 ELSE {})
        \cup (IF "error" \in SendResults THEN {-1} ELSE {})

\* out_ready, while get_poll_flags asks for WRITE: send the buffer; on -1
\* close the socket; clear the buffer either way.
OutReady(c, k) ==
    /\ ctl[c].sock
    /\ ctl[c].out # <<>>
    /\ ctl' = [ctl EXCEPT ![c].recv = @ \o SubSeq(ctl[c].out, 1, IF k < 0 THEN 0 ELSE k),
                          ![c].out = <<>>, ![c].sock = (k # -1)]
    /\ UNCHANGED <<accounts, down, steps>>

\* ControlHandler's constructor: in_buffer[0] = '\0'.  The rest of the
\* array is taken to be zero.
Init ==
    /\ ctl = [c \in Clients |->
                [buf |-> [i \in 1..BufSize |-> NUL], out |-> <<>>, log |-> <<>>,
                 sock |-> TRUE, recv |-> <<>>, sent |-> <<>>, refused |-> <<>>,
                 stale |-> FALSE, overrun |-> FALSE]]
    /\ accounts = [n \in Names |->
                     [exists |-> n \in Existing, disabled |-> FALSE,
                      pass |-> <<>>, name |-> <<>>, email |-> <<>>,
                      maxchars |-> 0, maxactive |-> 0]]
    /\ down = FALSE
    /\ steps = 0

Next ==
    \E c \in Clients :
        \/ \E d \in Chunks : InHandle(c, d)
        \/ \E k \in Sent(c) : OutReady(c, k)

Spec == Init /\ [][Next]_vars

-----------------------------------------------------------------------------
(* Properties *)

\* Only an administrator's command changes an account or stops the
\* server: every step that does is a read on an admin connection
\* (CHECK_ADMIN in handle).
AdminOnly ==
    [][(accounts' # accounts \/ down' # down) => \E c \in Admins : ctl'[c] # ctl[c]]_vars

\* After process() the input buffer holds exactly the unfinished last line
\* of what the client sent before any refused read: no complete line is left, no byte is lost and
\* no byte of an earlier line comes back (the memmove and NUL of the
\* cleanup).
AfterLastNL(s) ==
    LET nls == {i \in DOMAIN s : s[i] = NL}
    IN  IF nls = {} THEN s ELSE SubSeq(s, Max(nls) + 1, Len(s))
Accepted(r) == SubSeq(r.sent, 1, Len(r.sent) - Len(r.refused))
LineFraming == \A c \in Clients : StringAt(ctl[c].buf, 1) = AfterLastNL(Accepted(ctl[c]))

\* Each command line the client sent gets exactly one "+" status line, the
\* client's cue that the answer is complete, across lines split over
\* reads and several lines per read (process() and handle()); only the
\* lines of a read in_handle refused for not fitting the buffer go
\* unanswered (the +INTERNAL notice closes the connection instead).
IsStatus(t) == t \notin {"-", "+INTERNAL"}
IsNL(b) == b = NL
OneReplyPerLine ==
    \A c \in Clients :
        Len(SelectSeq(ctl[c].log, IsStatus)) = Len(SelectSeq(Accepted(ctl[c]), IsNL))

\* The client receives the lines queued for it in order, none lost or
\* repeated, up to what is still queued (out_ready).
DeliveredInOrder == \A c \in Clients : ctl[c].recv \o ctl[c].out = ctl[c].log

\* The tokenizer reads only the bytes received, never stale bytes behind
\* the string's NUL nor past the array (process()).
NoStaleRead == \A c \in Clients : ~ctl[c].stale /\ ~ctl[c].overrun
=============================================================================
