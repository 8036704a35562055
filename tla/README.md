# TLA+ models of the AweMUD telnet engine and game world

This directory holds TLA+ models of the telnet protocol engine in `src/`. The
engine sits between one client's TCP byte stream and the MUD's application
layer. Each module is translated from the C++ source. `PROJECT.json` lists
each definition with the source lines it models (`map`), and it also records
the runs, the mutants, the findings and the hazards.

## 1. The system

### Parts and how they interact

There are two implementations of the same engine:

* `src/src/mud/telnet.cc` is hand-written. TelnetOutput, TelnetInput, OutBuffer, TelnetEncode and Session model it.
* `src/src/net/telnet.cc` is built on libtelnet. NetTelnet models its input side and connection life. NetTelnetOutput models its output path, which NetTelnet runs inside the same handler's actions.

Beside them, `src/src/mud/zmp.cc` is the ZMP channel (module Zmp), and `src/src/mud/control.cc` is the administrators' control socket (module Control).

The game world's entity model is modelled where its code is in `src/`: object blueprints and objects (`src/src/mud/object.cc`, modules Blueprint and Objects) and the doors between rooms (`src/src/mud/portal.cc`, module Portal). Module World composes them.

Both run single-threaded. The event loop outside `src/` calls them, one
callback per connection at a time:

* `in_handle` runs on readable data.
* `prepare` / `out_ready` run before and on writability.
* `check_time` runs periodically.
* `hangup` runs on a socket error.

| part | source | state | operations |
|---|---|---|---|
| Output formatting | mud/telnet.cc 43-594, 1042-1074, 1148-1268 | `ostate`, `esc_buf`, `outchunk`, `chunk_size`, `cur_col`, `margin`, `width`, colour stack, `io_flags` | `stream_put` (per character: space/newline/tab/IAC/ESC, awecode `!C`, `!I`, `!A`, ANSI), `add_to_chunk`, `end_chunk`, `set_indent`, `prepare` |
| Input decoder | mud/telnet.cc 619-900 | `istate`, `input`/`in_cnt`, `subrequest`/`sb_cnt` | `in_handle` per byte, `process_input`, `process_command`, `process_telnet_command` |
| Option negotiation | mud/telnet.cc 244-291, 364-379, 759-848, 981-1039 | `io_flags` (`want_echo`, `do_echo`, `force_echo`, `do_eor`, `zmp`, `xterm`, `ansi_term`), `width`, `height`, `zstate` | constructor offers, WILL/WONT/DO/DONT answers, `process_sb`, `toggle_echo`, `begin_mccp` |
| Output buffer | mud/telnet.cc 1078-1244, 1292-1321 | `output`/`out_cnt`, `zstate` | `send_iac`, `send_data`, `add_output` (deflate), `add_to_out_buffer`, `get_poll_flags`, `out_ready` |
| ZMP | mud/zmp.cc | the command registry (filled once at start-up) | `check_zmp_chunk`, `add`, `lookup`, `match`, `process_zmp`, `send_zmp`, `add_zmp`, the ping/check/support/input handlers |
| Session | mud/telnet.cc 337-360, 903-916, 1271-1289, 1324 | `in_stamp`, `timeout`, `mode`, socket | `check_time`, `disconnect`, `set_mode`, `hangup` |
| libtelnet variant | net/telnet.cc | the same state, with libtelnet doing the decoding | event callback, `stream_put`, `end_chunk`, `sock_flush`, `check_timeout`, `disconnect` |
| Control socket | mud/control.cc | `in_buffer`, `out_buffer` | line assembly, about 40 admin commands, `out_ready` |
| Object blueprints | mud/object.cc 46-420, 929-993 | blueprint fields and their set flags, parent, containers; the manager's id map | `load`, `set_parent`/`refresh`, `save`, `has_container`, `initialize` |
| Objects | mud/object.cc 424-878 | owner, location, children list, `calc_weight`, `trash_timer` | `add_object`, `set_owner`/`owner_release`, `recalc_weight`, `heartbeat`, `save`/`load_node`/`load_finish` |
| Doors | mud/portal.cc, include/mud/exit.h | door flags: door, closed, locked, synced | `open`, `close`, `unlock`, `lock`, `get_target_portal`, `save`, `load_node` |
| Rest of the application | race, cmd_init, event, mail, log, pmanager, ... | | registration, lookup and text (section 4) |

The parts interact as follows:

* A byte read from the peer goes through the decoder.
* Negotiation bytes change `io_flags`, and those flags change the output path:
  * `use_ansi` and `zmp_color` choose how colour is sent.
  * `do_eor` marks prompts.
  * `zstate` compresses everything after it.
  * `do_echo` sends typed characters back.
* A complete line goes to `process_command`, which sets `need_prompt`. The next `prepare` draws the prompt.
* ZMP blocks go from `process_sb` to `process_zmp`. The `zmp.input` handler re-enters `process_command`.

### What is hard

Every behaviour below is listed in `PROJECT.json` under `hazards`, at the line where it bites.

* The TCP stream is cut into reads at arbitrary points. So a line, an IAC pair or a whole subnegotiation may be split across `in_handle` calls, or several may arrive in one.
* State carried between calls has to stay right over long call sequences:
  * `istate` and `subrequest` in the decoder;
  * `cur_col`, `chunk_size`, `soft_break` and the colour stack in the output engine.
* Option negotiation is a protocol with a peer that may repeat or contradict itself. Echo in particular has four writers: DO/DONT ECHO, the WIN32 environment answer, `!echo on/off`, and the mode's `toggle_echo`.
* Bounds:
  * the type-ahead line limit;
  * buffer growth failure (input, subrequest, output);
  * `esc_buf` size;
  * ZMP's 20 arguments.
* Numeric edges:
  * the `4 % cur_col` tab;
  * the `width - 2` wrap threshold;
  * NAWS values read past the block.
* Partial sends and timeouts.
* In the game world:
  * blueprint files are read in readdir order while parents are resolved by id at load time;
  * `add_object` hands an object over through `set_owner`, and the old owner's `owner_release` must let go of it;
  * a cached weight must follow every move;
  * trashing waits for an empty room;
  * a door's synced flag decides whether operating one side reaches the other, and it must survive a zone save and reload.

## 2. Modules

### TelnetOutput: the output formatting engine (`mud/telnet.cc`)

State and actions:

* The variables are the handler's fields used by `stream_put`, `end_chunk` and `prepare`.
* It adds a terminal model: `line`, the items of the current screen line, and `term_color`, the colour selected by the last ANSI code.
* Each handler call is one action, and it is the whole call: `Put(text)` folds `PutChar` over the text, then sets `need_prompt`. The per-character operators mirror the `switch (ostate)` cases.
* `Flush` is `prepare`. `InputLine`, `ColorCommand`, `DoEor`/`DontEor`, `DoZmp` and `ZmpSupportColor` are the input-side events that change the flags the output reads.

Abstractions:

* Text is a sequence of characters from a small alphabet. The letters and digits the markup uses are kept; every other visible character is `"a"`.
* Output bytes are items: a visible character, a space, a tab column, a line break, a colour code, other ANSI, ZMP, EOR.
* The only raw ANSI sequence the code writes is `clear_scr`'s `ESC [ 2 J ESC [ H`; the texts pass one such sequence (`ESC [ J`) through `PutAnsi`.
* `Show` is the tail of `add_to_out_buffer` (the append). Its overflow path is modelled in OutBuffer, not here; `AddToChunk` likewise leaves out the chunk buffer's grow loop and forced dump.

Properties:

* `WrapWithinWidth`: no screen line goes past `width - 2` columns, except one holding a single long word or one whose first column past `width - 2` is a tab's. The `'\t'` case adds `4 % cur_col` columns with no wrap test, so a tab may cross the wrap column; the wrap of everything else is checked around it.
* `LineWithinWidth`: the same without the tab exception, as spec §8 states it. TLC finds it violated by a tab (reproduction `MCTelnetOutput_width.cfg`).
* `ColorStackMatchesTerminal`: the colour the terminal shows after the pending chunk is the top of the colour stack.
* `PromptInNormalColor`: the prompt is drawn in the normal colour.
* `NoDivisionByZero`: no tab is evaluated at column 0.

### TelnetInput: the decoder and negotiation (`mud/telnet.cc`)

How the code maps onto the model:

* **The handler record.** `in_handle` is `InHandle`: a fold of `InByte` (one case per `istate`) over the bytes of one read, followed by `ProcessInput`.
  * `TextByte` covers printable characters, newline, the type-ahead cut and backspace.
  * `IacByte` covers the byte after IAC, including IAC EL.
  * `SbByte` and `SeByte` cover subnegotiation with unstuffing, and the buffer's growth failure.
  * `WillByte`, `WontByte`, `DoByte` and `DontByte` answer negotiation.
  * `ProcessSb` dispatches a completed block.
  * `ProcessCommand` and `ProcessTelnetCommand` cover `!color`, `!screen` and `!echo`.
  * `ToggleEcho` is the mode's call.
* **The peer.** It writes whole telnet units into `wire`: typed lines (with DEL), negotiation commands, subnegotiations with IAC doubled, and IAC EL.
* **Reads.** `Read` takes the first 1 to `ReadMax` bytes of `wire`, so every segmentation is explored.
* **Ghost variables.** `typed` and `blocks` record what the peer meant. `processed` and `dispatched` record what the server acted on.
* **Sent messages.** `sent` is the sequence of negotiation messages the server wrote, starting with the constructor's offers.

Abstractions:

* Subnegotiation names (XTERM, ANSI, SYSTEMTYPE, WIN32) are one symbolic byte each.
* The words after `!` are one symbolic byte.
* Bytes that NAWS reads past the end of the block come from `Junk`.
* `deflateInit` success or failure is a nondeterministic choice per read.
* `send_iac(WONT, TELOPT_ECHO)` in `!echo off` is a `Garbled` message. It passes 252 as the byte count, so 251 stack words follow IAC ECHO.

Properties:

* `SubnegotiationIntact`: the blocks `process_sb` acts on are the peer's payloads, in order, unstuffed (spec §8).
* `PasswordNotEchoed`: no echo while the mode has asked for echo off.
* `LinesInOrder`: lines passed to `process_command` are a subsequence of the lines typed, as edited.
* `NoDoubleEcho`: the server echoes (unless forced) only after its last word was WILL ECHO.
* `ServerOptionsAsAnnounced`: EOR, ZMP and compression are used only while the last word was WILL.
* `NoRedundantNegotiation`: no negotiation message repeats the previous one about the same option (spec §8 loop prevention).
* `LineEventuallyProcessed`: a complete buffered line is eventually processed (liveness).

### OutBuffer and OutputChannel: the output buffer, and what it promises (`mud/telnet.cc`)

* OutBuffer's state is the pooled `TextBuffer` (size class and cells), `out_cnt`, and `recv`, what the peer has received.
* Its actions:
  * `AddOutput` is `add_to_out_buffer`, with grow, and with the overflow path that replaces the pending bytes by a notice and the newest bytes.
  * `OutReady` is `out_ready`: `send()` returns the whole buffer, or any prefix when `PartialSends` is set.
* Bytes are distinct tokens: the n-th byte queued is n. So loss, duplication and reordering are visible.
* OutputChannel is the abstract specification: a FIFO that, on overflow, replaces undelivered bytes by a notice and the newest bytes.
* OutBuffer instantiates it (`Channel == INSTANCE OutputChannel WITH ...`), with the pending bytes as the queue. `ImplementsChannel == Channel!Spec` is checked as a PROPERTY.
* Properties:
  * `StreamIntegrity`: what the peer received, followed by what is pending, is the queued stream with only announced gaps.
  * `NewestKept`: the newest byte is never dropped.
  * `LossAnnounced`: every gap is preceded by the overflow notice.

### TelnetEncode: `send_iac` / `send_data` (`mud/telnet.cc`)

* `Encode` folds `PutByte` over the arguments. Each IAC is doubled into a buffer of `ChunkCap` bytes, which is flushed to `add_output` when full and once at the end.
* Properties:
  * `ChunksFitBuffer`: no `add_output` call carries more than the buffer holds, including when an IAC pair straddles the boundary.
  * `EncodedAsReference`: the concatenated calls equal a reference stuffing of the arguments, for every argument list up to `MaxArgs`.

### Zmp: the ZMP channel (`mud/zmp.cc`)

* The state has three parts:
  * the registry, which `initialize` and script `add` fill;
  * the connection's ZMP flags;
  * what was dispatched and sent.
* Actions:
  * `DoZmp` is the peer's DO ZMP.
  * `ProcessZmp` is a subnegotiation payload: `check_zmp_chunk`, the argv loop, `lookup`, and the handler.
  * `ScriptAdd` is a registration.
* Names are sequences of word bytes and ".", so the `strncmp` prefix tests keep their meaning.
* `RefLookup`, `SplitRef` and `DecodeFrame` are reference definitions. The code's operators are checked against them.
* Properties:
  * `DispatchFramed`: only well-framed payloads are dispatched, with the peer's argv.
  * `CheckAgreesWithLookup`: `zmp.check` answers as `lookup`/`match` would dispatch.
  * `SentRoundTrip`: every `send_zmp` frame decodes back to its arguments.

### Session: connection lifecycle (`mud/telnet.cc`)

* The state is one record per handler, plus the network manager's per-host count `conns`.
* The handler record holds:
  * socket, mode and MCCP stream;
  * the time since `in_stamp`;
  * ghost counters of removes, closes, `deflateEnd` calls, mode shutdowns and timeout notices.
* The actions are `Accept` (constructor), `Read`, `Quit`, `SetMode`, `BeginMccp`, `CheckTime`, `Hangup` and `Tick`. `Disconnect` is the whole teardown, and every path to it runs it.
* The manager is not in the sources. Its contract is modelled:
  * it counts on accept and refuses beyond `MaxPerHost`;
  * it calls `check_time` on held handlers;
  * it drops a handler when `check_time` returns 1.
* Properties:
  * `ReleasedOnce`: socket, stream and mode are released once, however many paths tear down.
  * `EveryConnectionEnds` (liveness): the manager eventually drops every accepted connection.
  * `ConnCountAccurate`: the per-host count equals the live connections.
  * `OnlyIdleTimedOut`: only a peer silent for the whole timeout is timed out (spec §6).

### Control: the control socket (`mud/control.cc`)

* Per client, the state has:
  * `buf`, the fixed `in_buffer` array, modelled cell by cell with NUL bytes, so that `strlen`, `memmove` and reads past the string are exact;
  * `out`, the `out_buffer`;
  * the socket;
  * ghosts: `sent` (bytes sent by the client), `refused` (the read `in_handle` refused), `recv` (bytes delivered) and `log` (everything queued).
* Shared state is the account table (abstract fields per name) and the shutdown flag.
* Actions:
  * `InHandle(c, data)` is `in_handle` with its overflow check, followed by the whole of `process()`. `ProcessLoop` is the `while (brk != NULL)` loop. `Scan`/`ScanStep` is the tokenizer, one step per branch of its if/else chain. `Handle` is `handle()`, one CASE arm per command, with its `argc` / `CHECK_ADMIN` / `AccountManager.get` checks in the code's order. `Cleanup` is the `memmove`.
  * `OutReady(c, k)` is `out_ready`, where `k` is what `send()` returns.
* Properties:
  * `LineFraming`: the buffer holds exactly the client's unfinished line of what it sent before any refused read.
  * `OneReplyPerLine`: every complete line of an accepted read gets exactly one status reply. The lines of a refused read get none: `in_handle` queues `+INTERNAL` and closes the socket in the same step, so even that notice is never sent. Spec §89 asks instead for truncation, a one-line diagnostic and a session that continues; the hazard list records this.
  * `DeliveredInOrder`: what the client received, followed by what is pending, is everything queued. Checked only with partial sends (reproduction `MCControl_send.cfg`), since with whole sends it restates the clear in `out_ready`.
  * `AdminOnly` (action property): a step that changes accounts or shuts down is a step of an admin client.
  * `NoStaleRead`: the tokenizer never reads past the string's end or the array.

### NetTelnet: the libtelnet handler (`net/telnet.cc`)

* The state is the handler record and a ghost peer.
* The handler record holds:
  * `input`, the input buffer;
  * `lines`, the lines given to `process_command`;
  * `cuts`, the type-ahead notices;
  * the mode;
  * `open` (socket) and `held` (the manager still holds the handler);
  * `idle`;
  * teardown counters.
* The ghost peer has `typed` (its finished lines) and `cur` (the line it is editing, with its own DEL).
* Actions:
  * `SockInput(bs, err)` is `sock_input`: `in_stamp`, then `DataByte` folded over the bytes (the EV_DATA case, with the overflow reset and the type-ahead cut), then an optional EV_ERROR disconnect, then `process_input`. Its output side is `DataOutput` (a newline clears `need_newline` and owes a prompt; each cut streams the type-ahead notice `CutNotice`), then `SockOutput` (the disconnect's `end_chunk`, the reply). `do_echo` is off, so nothing is echoed.
  * `SockFlush` is `sock_flush` and its `check_timeout`.
  * `SetMode`, `Finish` and `SockHangup` model the code's functions of the same names. A failed `initialize` sets `mode` to NULL before `disconnect`, so the new mode is not shut down.
  * `Reap` and `Tick` are the manager and time.
* Lines 555-789 of `sock_input` are commented out in the source, and are not modelled.
* Properties:
  * `LinesAccounted`: every finished line was processed, is buffered, or was cut with a notice.
  * `ConnectionEnds` (liveness): the manager eventually lets go of the connection.
  * `ProcessedAsTyped`: processed lines are a subsequence of the typed lines.
  * `FreedOnce`: `libtelnet_free` runs once.
  * `WrapWithinWidth`, `LineWithinWidth`, `ColorStackMatchesTerminal`, `NoBlankLine`, `ColumnMatchesTerminal`: see NetTelnetOutput below.

### NetTelnetOutput: the libtelnet handler's output path (`net/telnet.cc`)

* The module has no variables of its own. Its operators compute the handler's output state `out`, a record that NetTelnet holds as a variable and changes inside its actions.
* `out` holds:
  * `ostate` and `esc`, the `stream_put` state machine and `esc_buf`;
  * `chunk` and `chunkwidth`;
  * `cur_col` and `margin`;
  * `colors`, the colour stack;
  * the `soft_break`, `need_newline`, `need_prompt` and `auto_indent` flags.
* It also holds the terminal: the current screen line, the terminal's colour, and ghosts recording a blank line, a line too wide, a line too wide that no tab overran, and a column that drifted.
* Bytes are symbolic: a letter, a space, a tab column, a newline, the bytes of a colour code (the last one carries the colour), and ANSI bytes.
* Operators, one per function or `switch` case:
  * `StreamPut` and `PutChar`: the `ostate` machine;
  * `TextSpace`, `TextNewline` and `TextTab`: the text cases;
  * `PutEscape`, `PutAwecode`, `AweCode` and `AweColor`: escapes and awecodes;
  * `PutAnsi`: ANSI pass-through;
  * `AddToChunk` and `ChunkByte`: `add_to_chunk`;
  * `EndChunk`, `OutputIndent` and `SetIndent`;
  * `FlushOutput`: the output half of `sock_flush` (colour reset, chunk, prompt).
* How NetTelnet drives it:
  * `SockInput` streams the type-ahead notice for each cut, and writes a reply (`Replies`) for each line that `process_input` hands to the mode.
  * `SockFlush` writes the timeout notice of `check_timeout`, and then runs `FlushOutput`.
  * `disconnect`'s `end_chunk` runs in every teardown.
* The code differs from `mud/telnet.cc` in three places:
  * `end_chunk` has no "only if we have data" test, and always clears `soft_break` (line 1033);
  * `add_to_chunk` ends a full chunk from inside its copy loop;
  * the column advances by `chunkpos`, which counts invisible colour bytes too (line 1028).
* Properties:
  * `WrapWithinWidth`: no screen line is longer than `width - 2`, unless it is a single word or a tab crossed the wrap column (as in TelnetOutput).
  * `LineWithinWidth`: the same without the tab exception; TLC finds it violated by the reply `a aaa\t` (reproduction `MCNetTelnet_tab.cfg`).
  * `ColorStackMatchesTerminal`: once the chunk is sent, the terminal shows the colour on top of the stack.
  * `NoBlankLine`: a newline right after a soft wrap prints no empty line.
  * `ColumnMatchesTerminal`: `cur_col` is the terminal's column after every chunk sent.

### Blueprint, Objects, Portal and World: the game world (`mud/object.cc`, `mud/portal.cc`)

* **Blueprint.**
  * Variables:
    * `bps`, the loaded blueprints, keyed by slot (file, position);
    * `index`, the manager's id map;
    * `unread`, the files `initialize` has not reached;
    * `failed`.
  * A blueprint keeps the fields the other modules read: name, weight, hidden, trashable and rotting, each with its set flag, plus its parent and containers.
  * `Load` folds `LoadAttr` over a blueprint's attributes, in file order. `roomlist` is negated into hidden. `parent` is looked up in `index` and runs `SetParent`, which is `set_parent` followed by `Refresh` (the `reset_X` calls).
  * `Save` writes the set fields, with hidden as the negated `roomlist`, then the parent's id and the containers.
  * `ReadFile(f)` is one iteration of `initialize`'s readdir loop. A blueprint without an id makes it fail.
  * `object.h` is not in the sources. `set_X` is taken to store the value and mark the field set, as `reset_X` and `refresh` presuppose.
* **Objects** extends Blueprint.
  * Per object: `st`, `bp`, `owner` (the room or an object), `location`, `calc` and `timer`; plus `children` lists and `players` in the room.
  * `Create` is `load_blueprint` followed by the room taking the object.
  * `AddObject(c, o, t)` is `add_object`, in order:
    1. `has_container`;
    2. `set_owner`, which releases `o` from its old owner (`OwnerRelease`);
    3. location and append;
    4. `recalc_weight` of `c`, then of `c`'s owner when that is an object.
  * `MoveTo` is the room taking an object, through `set_owner`.
  * `Heartbeat` is `heartbeat`: rot at `RotTicks`, trash at `TrashTicks` when no player is present, and otherwise count.
  * `ObjReload` is the zone save and reload (`save`, `load_node`, `load_finish`): structure kept, timers back to 0, weights recomputed from the leaves up, destroyed objects gone.
  * `get_weight` is not in the sources. It is taken to be the blueprint weight plus `calc_weight`.
* **Portal.**
  * Variable: `doors`, the door flags per portal.
  * `Open`, `Close`, `Unlock` and `Lock` set a flag, and `SetSynced` sets it on `TargetPortal` (`get_target_portal`) too when the acting side is synced.
  * `Reload` runs every portal through `SavePortal` and `LoadPortal` (`save`, `load_node`).
* **World.**
  * It instantiates Objects and Portal. Every step is a step of one of them.
  * Exception: `ZoneReload` rewrites objects and doors together, since both live in the zone file.
* Properties:
  * `ContainmentConsistent`: a live object is listed exactly once, in the children list of the object that owns it, and in no other.
  * `SavedAsLoaded`: `Load(Save(b)) = b` for every loaded blueprint, inherited values included.
  * `TrashedWhenLeft` (liveness): a trashable object left in an empty room is trashed, unless it is taken or a player comes in.
  * `WeightCached`: `calc_weight` equals the weight of the contents.
  * `ParentLinked`: after `initialize`, a blueprint whose parent exists has it.
  * `NoSyncHonoured`: a door its zone file marks `nosync` is not synced.

## 3. Runs

There are twelve standing runs: nine pass runs and three violations. Each property of a pass run is paired with a mutant in `PROJECT.json`. The mutant is a plausible bug in the mapped code, and TLC finds it breaks the property.

| run | cfg | expect | what it shows |
|---|---|---|---|
| output_wrap | MCTelnetOutput.cfg | pass | Wrap (tabs aside) and colour stack are correct over every order of up to 5 calls, tabs included (about 96k states). |
| input_decoder | MCTelnetInput.cfg | pass | Subnegotiation framing and the echo rules hold under every segmentation (about 240k states). |
| out_buffer | MCOutBuffer.cfg | pass | Growth and overflow keep the stream intact. The buffer refines OutputChannel. |
| out_partial_send | MCOutBuffer_partial.cfg | violation | A short `send()` makes `out_ready` keep the wrong bytes (finding). |
| send_iac_encoding | MCTelnetEncode.cfg | pass | The IAC-doubling encoder agrees with the reference and never overfills its buffer. |
| zmp | MCZmp.cfg | pass | ZMP decoding, dispatch, `zmp.check` and `send_zmp` agree with reference definitions. |
| session | MCSession.cfg | pass | Teardown releases each resource once, and every connection ends (about 33k states). |
| session_conn_count | MCSession_count.cfg | violation | A connection torn down by quit and then by the timeout is counted off twice (finding). |
| control | MCControl.cfg | pass | Line framing and one reply per line of every accepted read, and admin-only changes, for an admin and a user, with reads too long for the buffer (about 8k states). |
| net_telnet | MCNetTelnet.cfg | pass | No line is lost silently across backspace, the type-ahead cut and EV_ERROR. Replies, the type-ahead and timeout notices and the prompt wrap within the width (tabs aside) and keep the colour stack on the terminal. The connection ends (about 62k states). |
| world | MCWorld.cfg | pass | Containment, blueprint save/load and trashing over both readdir orders, moves between containers, heartbeats, door operations from either side and a zone reload (about 16k states). |
| portal_nosync | MCWorld_nosync.cfg | violation | A door saved as `nosync` is loaded synced, since `load_node` passes the value to `set_synced` unnegated (finding). |

### Reproductions

Further configurations are kept beside the standing runs. Each reproduces a disagreement between the code and what the spec or a comment says, with a single property:

| cfg | property | what TLC finds |
|---|---|---|
| MCTelnetOutput_prompt.cfg | PromptInNormalColor | `!color off` with a colour open leaves the prompt coloured. |
| MCTelnetInput_erase.cfg | LinesInOrder | IAC EL merges a buffered line with the next. |
| MCTelnetInput_stranded.cfg | LineEventuallyProcessed | The second of two lines read together waits for more input. |
| MCTelnetInput_sboverflow.cfg | SubnegotiationIntact | A subnegotiation that cannot grow is dispatched truncated. |
| MCTelnetInput_echo.cfg | NoDoubleEcho | DO ECHO starts server echo without WILL ECHO. |
| MCTelnetInput_options.cfg | ServerOptionsAsAnnounced | DONT ZMP is answered WONT while ZMP stays on. |
| MCTelnetInput_redundant.cfg | NoRedundantNegotiation | Repeated WILL of an unsupported option is answered every time. |
| MCTelnetInput_naws.cfg | WidthAsAnnounced | A short NAWS block sets the width from bytes past the block. |
| MCTelnetInput_mccp.cfg | CompressionAnnounced | After a failed `deflateInit`, DO MCCP2 is ignored. |
| MCTelnetInput_garbled.cfg | WellFormedCommands | `!echo off` sends IAC ECHO followed by 251 stack words. |
| MCZmp_order.cfg | LookupExactFirst | A wild entry registered first shadows an exact one. |
| MCZmp_nosupport.cfg | ColorAsAnnounced | `zmp.no-support` is never registered. |
| MCSession_stamp.cfg | OnlyIdleTimedOut | A peer that only negotiates is timed out, since only complete lines stamp `in_stamp`. |
| MCControl_send.cfg | DeliveredInOrder | A partial `send()` loses the rest of `out_buffer` (the FIXME at control.cc:60). |
| MCNetTelnet_overflow.cfg | ProcessedAsTyped | The `inpos = 0` reset drops a buffered line and delivers an altered one (the FIXMEs at net/telnet.cc:481). |
| MCNetTelnet_free.cfg | FreedOnce | `sock_flush` repeats the timeout disconnect, so `libtelnet_free` runs twice. |
| MCNetTelnet_blank.cfg | NoBlankLine | The reply `aaaaa \n` at width 8 prints an empty line: the space wraps softly, and then the newline's `end_chunk` clears `soft_break` with nothing sent (net/telnet.cc:1033). |
| MCNetTelnet_column.cfg | ColumnMatchesTerminal | After a coloured word, `cur_col` counts the colour code's bytes (net/telnet.cc:1028). |
| MCTelnetOutput_tab.cfg | NoDivisionByZero | A tab at column 0 evaluates `4 % 0`. |
| MCTelnetOutput_width.cfg | LineWithinWidth | A tab after a word near the margin carries the line past `width - 2` with no wrap test (mud/telnet.cc:447). |
| MCNetTelnet_tab.cfg | LineWithinWidth | The same for the libtelnet handler: the reply `a aaa\t` at width 8 (net/telnet.cc:309). |
| MCControl_quote.cfg | NoStaleRead | An unclosed `{` makes the tokenizer read past the line's terminating NUL. |
| MCWorld_weight.cfg | WeightCached | Taking an object out of a container leaves the container's `calc_weight` stale (`owner_release` does not recalc). |
| MCWorld_parent.cfg | ParentLinked | When readdir returns the child's file first, its `parent` lookup fails and the blueprint has no parent. |

### Bounds, and why they are enough

* **Output.** Width 8 makes a wrap happen after two short words or one 6-letter word. So the boundary column, the lone long word and a wrap right after a margin all occur within 5 calls. `MaxEscape` 4 lets `!C007!` overflow `esc_buf`. The texts `a\t` and `\t` put a tab at column 0, after a word, and past the wrap column.
* **Input.** 3 peer units and reads of 1-3 bytes split every 3-byte negotiation and every IAC pair.
* **Output buffer.** Size classes of 2, 3 and 4 bytes, with writes of up to 3 bytes, make growth, the size-class change and overflow (past the largest class) all happen within 10 bytes.
* **Encoder.** A buffer capacity of 3 and up to 6 argument bytes of {1, IAC} put an IAC pair across every flush point.
* **Session.** Two connections of one host with `MaxPerHost` 1 exercise the refusal and the count. Timeout 1 and one read per connection reach every teardown order.
* **Control.**
  * A buffer of 10 bytes holds the longest chunk (`chname acct {a b}`) and overflows on two chunks together.
  * Three reads split and merge lines: `shutdown` then a lone newline; a backslash-newline continuation; doubled spaces.
  * Account names: one existing and one new. Amounts: -1 and 2.
* **NetTelnet.**
  * `TELNET_BUFFER_LINES` 1 with chunks of up to two newlines makes the cut happen on the second line of a read.
  * An input size of 12 is above what three 3-byte reads can fill. So the pass run shows the line logic without the overflow, and the overflow reproduction uses 4.
  * Bounds on timeout notices (`MaxNotices` 2) and reads (`MaxSteps` 3) keep the state space finite.
  * For the output:
    * Width 8 (the constructor sets 70; NAWS and `!screen` are not fed).
    * `TELNET_CHUNK_BUFFER_SIZE` 4: a word of 4 letters fills the chunk mid-word.
    * `TELNET_MAX_ESCAPE_SIZE` 4.
    * Colour codes of 3 bytes.
  * Three replies:
    * two 3-letter words, which do not fit one line together;
    * `a aaa` and a tab, which the tab carries from column 5 to column 9;
    * nested colours of which `C0` closes only the inner one, with an ANSI sequence (`ESC [ J`) passed through.
  * A coloured type-ahead notice of two words, streamed mid-read before the reply.
  * These reach the wrap in `end_chunk` and in the space case, a chunk filled mid-word, a tab past the wrap column, the colour restore, and the reset in `sock_flush` with a colour left open.

* **World.**
  * Two blueprint files: `gear` has parents in `base`, so both readdir orders matter.
  * Three objects:
    * a sack with an IN container (not rotting);
    * a chest inheriting from the sack, with an ON container, not trashable;
    * an apple inheriting from a hidden coin.
    These reach nesting two deep, moves between containers and both heartbeat outcomes.
  * `RotTicks` = `TrashTicks` = 1: the two constants are not defined in the sources.
  * `MaxWeight` 3 bounds `calc_weight`. Stale weights would otherwise grow without end (see `WeightCached`).
  * One zone reload.
  * Two facing doors, both closed in the zone file.

### Fairness

* **Input decoder.** `Read` is weakly fair: the event loop calls `in_handle` whenever bytes are waiting.
* **Session.** `Tick` and each `CheckTime(h)` are weakly fair: the manager polls `check_time` on every handler it holds, and time passes.
* **NetTelnet.** `SockFlush`, `Reap` and `Tick` are weakly fair: the manager flushes the connections it holds, and releases closed ones.
  * The weak fairness of `SockFlush` is written out as `[]<>~FlushPossible \/ []<><<SockFlush>>_vars`.
  * `FlushPossible` is the state predicate equal to `ENABLED <<SockFlush>>_vars`. TLC does not cache `ENABLED` of an action built from the output folds, and computing it directly does not finish.
* **World.** Each object's `Heartbeat` is weakly fair: the game's update loop calls `heartbeat` on every active object.
* **No fairness.** The peers, the modes and the control clients get none, since a client may stop at any time.
* **Deadlock checking** is off where the system really stops:
  * after the bounded peer input, the server waits in poll;
  * a released connection has nothing left to do.

## 4. Not modelled

* **The rest of the application.** Command registration (`cmd_init.cc`), races, mail, id maps, player files and logging are application code. Spec §1 treats them as external collaborators, and they are registration, lookup and text I/O.
  * The event queue of `event.cc` has no live producer: every `Events::send*` body is commented out, and `handle_event`'s script call is too.
* **Parts of the game world.**
  * Scripted object actions (`get_action`, `do_action`).
  * `show_contents`, `find_object` and `name_match`, which only produce or match text.
  * `set_container_exist`: its callers, the builder commands, are not in the sources.
  * Rooms and characters are not in the sources. Objects has the room as an owner, a player count, and the room taking objects; a character holding objects is left out, since `heartbeat` ignores such objects.
* **The network manager, libtelnet and zlib.** They are not in the sources. Their contracts are modelled where a module needs them (Session, NetTelnet).
* **SControlManager.** It does socket creation and uid checks, which is pure I/O.
* **Parts of the libtelnet handler.**
  * libtelnet's option events (NAWS, TTYPE, NEW_ENVIRON, ZMP, MCCP2) and the `!screen`, `!color` and `!echo` commands. `width`, `use_ansi` and `do_eor` therefore keep their constructor values.
  * The ZMP colour branch of the `C` awecode: `io_flags.zmp_color` is never set in `net/telnet.cc`.
  * `chunk_size` (line 315) is counted but never read.
* **The byte content of messages.** Messages are items or symbolic bytes, since the properties need only their kind.
* **The modes** (login, play). They are not under `src/`. Their calls into the engine are nondeterministic inputs.
