# Verification of ClientServerChatApp

TLA+ models of the chat server, the chat client and LibSocket, checked with TLC, and
theorems about them checked with TLAPS. Paths without a directory are files of `src/`.

Check a model with `tlc -config X.cfg M`, a proof with `tlapm M.tla`.
`PROJECT.json` lists the components, the runs with their modules, the lines each definition
stands for, the hazards, what the runs found and the theorems.

## 1. The system

Two programs, written in C++20.

| Component | State | Operations | Talks to |
|---|---|---|---|
| **RingBuffer** (`RingBuffer.h`) | a queue, a mutex, a condition variable | `tx`, `rx` | console's `ring_buffer`: input thread and shutdown task to main; client's `send_buffer`: main to sender |
| **SyncPoint** (`SyncPoint.h`) | one pointer, a mutex, a condition variable | `resolve`, `retrieve` | the client's handshake (main and net thread), `refresh_text` (everybody to the renderer) |
| **Server loop** (`Server.cpp`, `Server.h`) | `_client_sockets`, `users`, `_read_fds`, `console->shutdown` | `run_loop`, the accept handler, the receive handlers, `broadcast` | LibSocket; peers by TCP; the server's console |
| **Client** (`Client.cpp`, `clientmain.cpp`) | five SyncPoints, `send_buffer`, `registered`, the handlers | `run_client`, the sender, `main`'s loop | console, LibSocket, the server |
| **ShutdownTasks, DeferExec** | a list of functions and a mutex; one function | `push_task`, `execute`; run at the end of a scope | every thread of the client |
| **LibSocket** (`libsocket/`) | a descriptor, one map of handlers per method | one method per system call; `full_send`, `receive_str` | the kernel |
| **Console** (`Console.cpp`, `Console.h`) | messages, scroll position, input buffer, hooks, `shutdown` | renderer, window-size checker, input thread, hooks, drawing | terminal, all threads |
| **Server process** (`servermain.cpp`, `Server.cpp` 154-187) | the threads; the UDP socket | start-up, UDP broadcaster, joins | console, discovery |
| **Discovery** (`Server.cpp` 162-187, `clientmain.cpp` 53-82) | - | broadcast the address every second; wait ten seconds for it | client's `main` |
| **Logger** (`Logger.cpp`) | a file | `log` | `$getlog` |

A frame is a size of type `SocketSizeType`, the text, and a NUL that the size does not count.
The client sends `$register name` and after the answer everything the user types; the server
answers to the one (`$getlist`, `$getlog`, errors) or broadcasts to all.

**What is hard.** In the server a single thread holds everything together with *blocking*
sockets: what `select` said is used after handlers have changed the list, descriptors are
reused while `users` is keyed by them, and one peer that does not read stops everything. In the
client five threads wait for each other at eight places (four SyncPoints, two RingBuffers,
`recv`, joins) and a shutdown that may start in any of three of them has to wake all. LibSocket
puts messages on a stream without boundaries, and keys its handlers by numbers the
compiler chooses.

**What makes it correct.** The queue: no lost wake-up, nothing lost or reordered. The
SyncPoint: never a stale value, never a lost last one. The server: descriptors, list and
connections agree; no blocking `recv`; names belong to connections; broadcasts are complete;
answers are contiguous; everybody is served; shutdown ends the loop, as long as peers read. The client: registration
comes first; a shutdown wakes those who wait (that it ends all threads is false, section 3); the
terminal is restored unless a signal ends the process; after an answer the keys and the screen go
back to where they were. The console: no redraw is lost and a window that
follows shows the latest message. LibSocket: the stream is a
channel of messages, until one is too long or arrives in pieces; an error runs its handler and
nothing else does. Discovery: a client that listens to the server's port finds a server that announces
itself, and one that announces itself serves.

## 2. The modules

### Channel, RingBuffer, RingBufferProofs
`Channel` is the abstract promise: `sent` and `received`, a `Receive` that takes the next
message. `RingBuffer` has the buffer and, for every consumer, whether it is out of `rx`, asleep
in `cv.wait` or notified. As both methods hold the mutex throughout, the stretch between
two points where it is free is one step: `tx`, `Pop` (the end of `rx`), `Sleep`, and a spurious
wake-up. `ImplementsChannel` is `Channel!Spec` under the identity mapping of the history
variables.

### Mailbox, SyncPoint, SyncPointProofs
The same for a slot. `Mailbox` is its promise: `Retrieve` returns the value of the last `Resolve`, and none twice (it counts what it returned);
what was not retrieved before the next `Resolve` is lost. `ImplementsMailbox` is its specification under the identity mapping
of the three history variables: a receiver that took anything but the newest value, or one for the second time, would not be a `Retrieve`. Values are numbered by the order of the `resolve` calls, so that old and
new ones can be told apart. That `resolve` leaks the value it overwrites is not modelled.

### Server, MCServer, ChatRoom, ServerProofs
One action per operation of the server's thread, and `pc` says where it is:

| Action | Code |
|---|---|
| `Poll`, `Select` | head of the loop, `run_loop` up to `select` (Server.cpp 188, 200-209) |
| `Accept`, `AcceptFails` | `accept` and its handlers (Server.cpp 20-28, 103-108) |
| `Receive`, `Dispatch`, `Register` | `receive_str` and the message handler up to its first send (29-82) |
| `Disconnecting` | end of the stream (86-99) |
| `NotReady`, `ScanEnds` | the loop over the sockets (211-216) |
| `SendReply`, `SendBroadcast`, `BroadcastEnds` with `Leave`, `SendEntry`, `SendLine` | one `::send` each; what a handler does after its last one belongs to that step |
| `Stop`, `SigPipe` | the two ends of the thread |
| `TypeExit` | `$exit` at the server's keyboard (the only other thread that matters here) |
| `Connect`, `Ask`, `Read`, `Hangup`, `RstArrives` | peers and TCP (external) |

Cutting handlers at their sends is what makes the model honest: a send may wait for a peer to
read, and between two sends peers come, go and talk. The state of a peer distinguishes the
FIN, the first send after it (accepted, answered by RST) and the sends after the RST, since only
the latter raise SIGPIPE. `owner` is the descriptor table, with the POSIX rule of the
lowest free number, because that rule decides who inherits an entry of `users`.
Not in it: sizes and NULs (Framing), which errno runs what (Dispatch), the text of messages. A frame
of a peer is one of the requests the handler distinguishes; `$getlog` chooses the number of lines of
the log, up to `MaxLog`.

`ChatRoom` is what the users see of it: `members`, and one thing `said` at a time, which every member
is told (`Tell`) before anybody says the next (`Finish`); each hears it once, in the order of the room, and
the speaker who leaves hears its own farewell. It knows neither descriptors nor places of a list.
`Server` implements it (`ImplementsChatRoom`) under a mapping in which the members are the
owners of the listed descriptors, and those who had their turn the owners of the first `k - 1`. The
mapping shows what the list and the cursor do: a place that is counted twice or skipped is a member
told twice or not at all.

### ClientSession, ClientSessionProofs
Threads as program counters: `main` (clientmain.cpp), `net` and `sender` (Client.cpp),
`renderer` and `input` (Console.cpp). A step is what happens between two operations on shared
state that another thread can tell apart; a `push_message` after a `resolve` is one step with it.
RingBuffers are queues and SyncPoints slots whose `retrieve` is disabled when empty; this is what
the two modules above establish about them. `ShutdownTasks::execute` is `LockTasks`, one
`RunTask` per task effect, `UnlockTasks`: other threads run between the effects, and `push_task`
waits for the mutex. The window-size checker is `Resize`: it may ask for a refresh until
the renderer has joined it. The user types lines of `Typed`, and the server answers every frame
and hangs up after `$exit`. `Faults` says what may go wrong: no announcement, `socket`
fails, `connect` fails with an errno that Errors.h lists or with another (`unlisted`, for which the handler
of a success runs and there is no connection), the server is full, the server vanishes.
`process` tells how it ends: by main's return, by `std::terminate`, or killed by the SIGPIPE of a send
behind a reset or on a socket without a connection. That signal is a choice of `SendFrame`: the RST may still be on its way, and
a system may answer ENOTCONN instead. `heardBack` remembers that a frame came back behind the `$register`, whoever it is
from, for the client does not tell.
Not in it: the alternate screen of `$getlist` and `$getlog` (AlternateScreen), PHASE 1. A `$register ` without a name is a
`register` here: ten characters pass the test (Commands.h:11, clientmain.cpp:126), the name is empty, and the server's error counts as
its answer. What comes of that is in AlternateScreen (`named`).

### MessageWindow, MessageWindowProofs
Which messages the renderer shows, with the four threads that have a say. Positions, heights and the flag
are atomics without a lock, so that an action is one load or store: the branch of an arrow key is
`ArrowUp`, `TestTop`, `Subtract`, `KeyEnds`, and the renderer may run between any two. `messages_mtx` is held
by the renderer from `BeginDraw` to `Print` and by whoever is between `PushBegins` and `PushEnds`. The
down key reads `messages.size()` without it, which is undefined while another thread is in `push_back`:
the comparison then goes either way (`addTorn`). The server does not measure the terminal before it
starts its threads and the client does; `Init` has both.
Not in it: the width, the title, the letters, the scroll bar.

### InputLine, AlternateScreen, AlternateScreenProofs
`InputLine` is the buffer and its cursor with the four edits of the input hook; beyond the end of the
buffer the C++ is undefined and `Insert` is disabled. `AlternateScreen` has the hooks of Console.h as two
functions from group to flag. `set_active` is one step; the sender
and the hook for q make four of them each (`Entering`, `Leaving`), and the net thread another when it
hides the hook it has just pushed. `execute` sorts and copies the hooks without the lock. A copy is two steps,
one hook each, and a switch by another thread may come between. The hooks are pushed in the order of their
groups, and the sort of libc++ writes nothing to a vector in order; that of libstdc++ moves the last hook out and back (`MoveInputHook`,
`MoveRenderHook`), over what `set_active` has written in the mean time. `library` is the one the client was built with.
`named` tells whether the server has the client in `users`: one that has not, for it registered with an empty name, gets an error for an
answer, without SRV_DONE_SEND (`AnswerOf`, Server.cpp:43), until it registers again; `refused` remembers that the last request
went that way. An answer may also be the signal of its end alone, when the log is empty.
`display` tells what the terminal shows: the window and how many messages are in it,
lines of an answer, the prompt. `hasty` remembers a user who pressed q, or asked again, before the answer had ended.
Replacing the handler while another thread runs it destroys a running `std::function`; the model
runs it to its end.

### ServerProcess, Discovery, DiscoveryProofs
`ServerProcess` has six threads as program counters: main, the server thread with its start-up
(`Create`, `Bind`, `Listen` and the error handlers, after which it goes on in any case), the broadcaster, renderer,
window-size checker and input thread, with the joins and the task list, of which the renderer is the only author here.
Of the server's loop it has the test of the flag and a send that may hold the thread (`Send`), until the peer
reads (`PeerReads`), which nothing makes it do.
`Discovery` adds clients and time. The server is given one of the ports `Port` when it starts, and a client listens to `ClientPort`.
It does only if its `bind` succeeds (`owns`), which it does not while another client of the machine has the port; which
clients share a machine is left open, so that the choice in `StartClient` has every placement. The broadcaster sends and sleeps for a second; `Announce` gives the
datagram to every client that listens to its port, or loses it; `Tick` is a second, in which those who wait get older;
`GiveUp` is the timeout of `recvfrom`. A thread whose time has come acts before the next second ends: the
assumption is that scheduling takes less than a second.
The IP address has been checked by main (servermain.cpp 28-36), so that the broadcaster's own check
of it (Server.cpp:173) never fails and is left out.

### Framing, LibSocketProofs
`full_send` puts a `Frame` on the wire: a size, the characters and a NUL. The bytes
arrive one by one (`Arrive`), before, between or after the reads; `receive_str` is its two calls of `recv`, `ReadSize` and
`ReadBody`, of which each takes what is there, be it a part of the payload only. The width of the
size is scaled down: `SizeMax` stands for 127 and arithmetic is modulo `2 * (SizeMax + 1)`, with
the sign of a signed `char`; lengths beyond it are sent like any other. After a negative size the C++ is undefined, and the model stops there.
Once a message is too long, or a payload is received in part, the reader takes letters for sizes, and nothing can be promised. Three
history variables say how far it has not come to that: `intact` messages were sent before the first that is too long,
`short` tells that a `recv` found a part of a payload, and `whole` messages were received before it did.
`ImplementsChannel` is `Channel!Spec` for the first `intact` messages sent and as many of the first `whole`
received.

### Dispatch, MCDispatch, LibSocketProofs
The selection of a handler by each method of `Socket.h`: `Listed` are the enumerators of
`Errors.h` with an errno, `Numbered` those the compiler counts on from `LastValued`, `Installed` the handlers
that both programs install. `Platform` is a set of tables of errno values, of which a behaviour has one; `MCDispatch` has those of Linux
and macOS. On both, `INVALID_ADDRESS` is the same number as `ECONNREFUSED`, and on Linux the `SUCCESS` of
`connect` is `EHOSTUNREACH`; neither confuses a listed error with a success. `ReceiveSize` is
`receive_str`'s own `recv`: an errno without a handler (ECONNRESET) goes on to `receive` with a
size of 0, which finds 0 bytes and runs DISCONNECTING, so that this one works out. `Refuse` is
`bind_v4` and `connect_v4` with an address or a port that does not match. As the programs install nothing for
`bind`, `select` and `close`, the socket `thorough` has a handler for every enumerator. `Portable` is what Errors.h takes for granted of an
`<errno.h>`: it has the names, and no number listed for a call is that of SUCCESS or DISCONNECTING of the same call.

## 3. The runs

| Run | What it shows | Bounds, and why they are enough |
|---|---|---|
| `ringbuffer` | no lost wake-up, implements Channel (exactly once, in order), every message is received | 2 consumers race for one message while one sleeps; 4 messages are more than consumers, so both queueing and sleeping happen |
| `syncpoint` | no lost wake-up, implements Mailbox (the newest value, once), the last value is retrieved | 3 receivers, 5 values: several are overwritten before one is retrieved |
| `server` | descriptors are sound, `recv` never blocks, names stick to connections, answers are complete, a farewell precedes a close | 3 peers for 2 places and 3 requests of any kind and 2 names: refusals, renaming, erasing before another socket of the same iteration, reuse of a descriptor; a log of up to one line; one frame of buffer, so that sends wait; one peer may vanish, before, in and after a send |
| `server_live` | implements ChatRoom, every frame is served, every connection answered, shutdown completes | 2 peers, one may vanish and stays in the list; 3 requests: registering (with a name or without), chatting and leaving, in any order |
| `client` | types, terminal restored unless a signal ends the process, registration first and a frame back before anything else, a shutdown wakes main and the renderer, and at any moment the wake-up is still to come | `$register` and `$exit` in any order, all faults, one unread frame of others: it may come between the `$register` and its answer |
| `framing` | implements Channel and everything arrives, up to the first message that is too long and the first payload received in part | `SizeMax` is 3 and the lengths are 1, 2, 3 (which fit), 5 (a negative size), 8 (none at all) and 9 (that of a short message); 3 sends, byte by byte, so that a read finds any part of any number of frames |
| `dispatch` | success is no failure, a listed error runs its handler | every method, socket and outcome, after every other, on two platforms: complete |
| `message_window` | no redraw is lost, following shows the latest, every message is drawn | heights 2 and 3, up to 3 messages, 2 keys in either direction and a resize: the window overflows, the end is left and reached again, and the height changes between any two of it |
| `alternate_screen` | keys and screen agree, the signal of the end is hidden, the screen comes back, answers end, and an answer that is collected has its end before it | four reads of the keyboard or messages of others: a request is two reads (a letter and the end of the line), so that q comes before, in and after the answer, or a second request does; answers of one line, none, or an error; the sort of either library |
| `discovery` | a client that listens to the server's port finds it, an announced server serves, all threads end if no send holds the server for ever | the port of the clients and another; two clients, on one machine or two; a timeout of 2 seconds with one datagram lost at most, the property's limit; create, bind or listen may fail; `$exit` at any time and any number of times |

The types of RingBuffer and SyncPoint are in no run: they are proved, and every other property of the two runs would fail with them.

Where it says CHECK_DEADLOCK FALSE the system does stop: a process ends or hangs (that is
what a finding is about), in Framing all sends may be done, in Discovery the server may have ended and no client wait, and in AlternateScreen the user may have typed
all there is to type. MessageWindow and the server's runs check deadlock; of the server:
it has a step for as long as it runs, even when everything waits for a peer to read.
A line of text is, to main and the sender, what `$exit` is after it has run the tasks; the `client`
run therefore types only the other two.

### Findings
These runs are expected to fail: each checks what a text of the repository says, and its trace
shows the code doing otherwise.

| Run | What happens |
|---|---|
| `server_ghost` | `$exit` leaves the entry in `users` (Server.cpp:53); the next connection under that descriptor may chat without registering |
| `client_unregistered` | `$exit` before `$register`: nobody resolves `sync_username` (Client.cpp:128), main waits for the net thread |

The same models show more, with other constants or other properties, which the modules define with the comment
they contradict:
- `Server`, `SendErrorsAreHandled` (README.md:20, Server.cpp:143): the second send to a vanished peer
  raises SIGPIPE (Socket.h:311) and ends the server.
- `ClientSession`, `GracefulExit` (README.md:20) with `Faults = {}`: `sender.join()` twice (Client.cpp:175,
  179), which is `std::terminate`; with `Faults = {"discovery"}`, `Typed = {}` the console's threads are joined twice
  (clientmain.cpp 38-41 and 76-77).
- `ClientSession`, `TerminalNeverLeftRaw` (clientmain.cpp:13) with `Faults = {"vanish"}` or `{"unlisted"}`: a send behind the server's RST,
  or on a socket that `connect` left without a connection, raises SIGPIPE (Socket.h:311), and no task sets the terminal back.
- `ClientSession`, `AnsweredFirst` (Client.cpp 130-135) with `Typed = {"register", "text"}`: what another user said is on its way when the `$register` is
  sent; the client takes it for the answer and goes on before the server has served the `$register`.
- `ClientSession`, `ShutdownEndsProcess` with `Faults = {"connect"}`, `Typed = {"register"}`: the error
  handler resolves `sync_socket_created` (Client.cpp:92) where main may be waiting for
  `sync_socket_established` (clientmain.cpp:136); with `Faults = {"vanish"}` main leaves its loop without passing the task's `$exit` on,
  and nobody wakes the sender (Client.cpp:149).
- `Framing`, `SizeIsNeverNegative` (README.md:61, which says 255): 128 characters or more have a
  negative size (Socket.h:329), with which the reader declares an array (293); `NothingIsGarbled` (README.md:61 speaks of a partial
  message loop) even with one `Length` that fits: a payload in two pieces is not put together, for Socket.h:295 receives once.
- `MessageWindow`, `RowsExist`, `StopsAtTop`, `DownResumes` (Console.cpp:507, 498, 511): the row behind the last
  message is read when there is room for it (335); the renderer's reset to 0 and the key's
  subtraction leave the position at -1; in a window with room for everything the down key never resumes
  following, for the end is negative.
- `AlternateScreen`, `EveryAnswerEnds` (Client.cpp:162): a client that registered with an empty name collects for ever, for its
  request is answered without SRV_DONE_SEND (Server.cpp:43); whatever is said from then on is shown as part of the answer until it
  types q, which puts the handler back.
- `AlternateScreen`, `KeyboardWorks` (Client.cpp:164): with libstdc++, the sort for a key that is read while the sender switches takes
  the activation of the hook for q back, and no hook is left; `KeyboardWorksInAHurry`: with libc++ too, when a request is set up while q switches
  back. `AnswerStays` (Client.cpp:151): a renderer that has copied the hooks before draws over the answer.
  `CursorAtEnd` (InputLine) with `Chunk = 2`: of two characters in one read both are copied and the position moves by one (Console.cpp:494), so that
  the next one does not go "to the end of console buffer" (493) but replaces the second.
- `Discovery`, `EveryClientFindsServer`, with the set-up of README.md:42 and build-and-start.sh (6, 58): the server is given port 33420,
  which its datagrams go to, and the client listens to 12345 (clientmain.cpp:63); with port 12345, of two clients on one machine
  the second one's `bind` fails unnoticed (clientmain.cpp:64).
- `Discovery`, `AnnouncesItsPort` (Server.cpp:126): a port in use goes unnoticed and `listen` takes
  another (Socket.h:444), while the one asked for is reported and announced.
- `Discovery`, `EveryShutdownEndsProcess` (README.md:20): a peer that does not read holds the server's thread in `send` (Server.cpp:196), and main at
  its join.
- `Server`, `ShutdownCompletes` when peers read only once they have registered, as Client.cpp:128
  has it: broadcasts fill the buffers of the others and stop the server in `send`.
- `Dispatch`: an errno that Errors.h does not list (EMFILE, EHOSTUNREACH) runs SUCCESS's handler.

Every property named here is defined in its module; TLC gives the trace with the constants of the module's own configuration, but for those
named. That of `SendErrorsAreHandled` takes two peers that vanish; that of `ShutdownCompletes` a fairness of `Read` for registered peers only.

### Fairness
- `RingBuffer`, `SyncPoint`: consumers call `rx` and `retrieve` in loops and the scheduler runs
  them; nothing obliges producers.
- `Server`: weak fairness of the thread as a whole, because it is one thread and `select` has
  a timeout of two seconds (Server.cpp:189). `FairSpec` assumes in addition that peers read, as
  a client that has registered does (Client.cpp 176-178); without that `ShutdownCompletes` is false.
- `ClientSession`: weak fairness of every thread and of the server's answers. Nothing makes the
  user type, others talk, or the window change. Mutexes are not contended for ever in the runs with
  a temporal property, so weak fairness suffices.
- `Framing`: the network delivers, the reader reads.
- `MessageWindow`: weak fairness of renderer, checker, a push under way and a key under way. The renderer gets
  the lock because messages are finitely many; a mutex promises nothing against those who push for ever.
- `AlternateScreen`: weak fairness of the four threads; nothing makes the user type or others talk.
- `Discovery`: weak fairness of `Progress`, which is any step of the process's threads, the passing of a second, the broadcaster's send or a
  timeout. It promises no thread its turn while others run, so that what it proves of them does not depend on the scheduler. Nobody has to
  type `$exit`, and no peer to read; `ShutdownEndsProcess` therefore has the premise that the server's thread leaves its sends. It
  has nothing to do with ClientSession's of the same name, which does not hold.
Symmetry is used only in runs without temporal properties over fairness.

## 4. The proofs

All theorems are for every value of the constants, under the assumptions the modules name:
types of the constants, `NoConn \notin Conn`, `NoName \notin Name`. Only the two about Dispatch need more, and have it as a hypothesis (`ASSUME`), named below.

- **RingBufferProofs**: `TypeCorrect`, `NoLostWakeup` and `NothingLostOrReordered` are inductive
  as they stand, given the types; `Implementation` maps `tx` to `Send` and `Pop` to `Receive`,
  with `ExactlyOnceInOrder` telling that the front of the buffer is the next message due.
- **SyncPointProofs**: `Implementation` maps `resolve` to `Resolve` and `Take` to `Retrieve`. It rests on `Newest`: what is in the slot is the
  value of the last `resolve` and newer than what was taken; `NoLostWakeup` and `TypeCorrect` are the other parts of the invariant.
- **ServerProofs**: one inductive invariant, `IInv`, for `TypeOK`, `FdLedger`,
  `RecvNeverBlocks` and `RegistrationSticks`:
  - `Cursor`: where the cursors point, in each place of the program: a handler serves the `i`-th
    socket; a refused one is open and not listed; the backlog is not empty before `accept`.
  - `Waiting`: a connection waits in the backlog once, and one that waits or was never opened
    has registered no name. An accepted connection therefore starts without a history.
  - `Ahead`: a socket at or behind the index `i` that is in `ready` is readable. `RecvNeverBlocks`
    alone is not inductive: it speaks of the socket at `i` only, and after a step of the loop
    another one is there. `Ahead` says it of all sockets still to come, and has to know that a
    handler reads from its own socket only, once, and that erasing moves the others forward.

  Each conjunct has its own lemma (`TypeStep`, `LedgerStep`, `WaitingStep`, `CursorStep`,
  `RegistrationStep`, `AheadStep`), with a step for every action. On top of it:
  - `ChatRoomImplemented`, the step simulation from `IInv` and `RightKind` (what a
    handler sends is of its kind). The room changes only in `Receive` and `Disconnecting` (`Begins`, `Answers`), in
    `SendBroadcast` (`Tells`), at the end of a broadcast (`Finishes`) and in `Accept` (`Joins`); every other step
    leaves list, descriptors of listed sockets and broadcast alone (`RoomIsSame`). `FdLedger` is what makes `Tell`
    one member: no two places of the list have the same owner.
  - `AnswersAreContiguous` and `FarewellPrecedesClose`, two action
    properties. `Answering` says that a peer whose last frame is a part of an answer is the one being answered now,
    or has gone, or the process is over; `Untold` that a peer that has not come has heard nothing; `Heard` that
    everybody in front of the cursor of a broadcast heard the broadcast last, so that at its end the
    speaker who leaves has heard its farewell.
- **MessageWindowProofs**: one inductive invariant for `TypeOK`, `ScreenIsCurrent` and `FollowsLatest`. `Key`: while
  a key's branch is under way the window does not follow, so nobody resets the position under a later
  key. `Drawn` and `Following` say of a renderer at rest what is true unless a request is there or another
  thread is about to make one; `Measured` says when the checker is.
- **ClientSessionProofs**: `TypeCorrect`, `TerminalComesBack`, `RegistrationComesFirst`, `WakeUpComes`. The types are not inductive
  alone: a thread that takes the mutex goes on where `ret` says (`Returns`), and the input
  thread holds a line when it is about to push it (`LineHeld`). `Restored`: the terminal's task is the first of the list, so whoever runs a later effect, or finds the list
  executed, is behind it. It says nothing of a process that a signal ended. `Talk`: what has been sent so far, as a function of where the net thread is, and that a frame came back before the sender was started.
  `WakeUpComes` is the safety behind `ShutdownWakesThreads`: as long as the flag is set and main or the renderer waits for nothing, a task that wakes it is
  ahead of the thread that runs them. A flag may be set by the other's task, so that this is not inductive. `FlagFirst`: in front of every wake-up there is a flag, in
  whatever order the two threads register theirs. `FlagPassed`: a flag that was passed is set; hence the step that sets it for the first time has every wake-up still in front of it.
  `HasPushed`: who waits has registered its wake-up before. `Holds`: who runs the tasks has the mutex, so that none is registered meanwhile.
- **AlternateScreenProofs**: `AnswerIsNoMessage`, `ModesComeTogether` and `WindowComesBack`, for a user who waits. `Waits`: the hook for q finds no
  answer under way, and one request is on its way at most. `Placed`: frames of an answer are in front of nothing but
  messages, and nowhere while the answer is being asked for. `Busy` and `Held` are what the sender and the input thread rely on.
  `Switching`: the flags are those of editing or those of the answer's screen, but for the ones that the
  sender or the hook for q has already switched, and the two are not on their way together.
  `Collecting`: while an answer is awaited the line is not edited, so that nothing of an answer is put on the screen of the window. `Current`: while the line is edited, the terminal shows every message and nothing else, or a refresh is
  asked for, or the renderer is about to print both: it has copied the hook that clears (`0 \in renderCopy`) and counted
  the last message. `ModesComeTogether` and `WindowComesBack` are about builds whose sort leaves the hooks alone (`Calm`), in which no thread is in the middle
  of one; with the other library flags are lost, as the findings show. `TypeCorrect` adds the types that this does not need. `EndComes` is about every user and either library: `EndIsAhead`, the safety behind `AnswerEnds`, holds of overlapping answers too, as long as the server does not refuse one,
  for the handler is set before the request is sent, and each end that the collecting handler finds sets it back. It needs `Busy` (the sender is about to send a request, which an answer with an end follows) and `Switching` (the sender starts only when the net thread has hidden the hook).
- **DiscoveryProofs**: `TypeCorrect`, `AnnouncedIsServed`, `ClientIsFound` and `RedrawComes`, without hypotheses: any faults, ports and clients, on any machines. `Started` says how far the server's thread is when nobody has
  asked for a shutdown: a server that failed to create or to listen has asked for one, and one that did not serves on the port it was given unless its `bind` failed. `Counted`: the seconds
  that a client with the right port has waited are those whose datagram was lost, and the one whose datagram is about to come. `RedrawComes` is the safety behind `ShutdownEndsProcess` for the renderer, the only thread of the server, besides one in a send, that waits without a timeout, the joins apart: an invariant as in the client,
  where the error handlers of the start also set the flag, and ask for the redraw themselves.
- **LibSocketProofs**, Framing: `TypeCorrect`, `SizesAreReadable`, `ReaderInStep` and `ChannelImplemented`, without hypotheses: any lengths, any width of the size,
  any boundaries. `SizesAreReadable` holds even where the reader takes letters for sizes: no byte on its way is negative before a message that is too long
  has been sent (`Readable`). The invariant `InStep` holds until a `recv` finds a part of a payload or the first message that is too long is the next to be read (`Over`).
  It has one witness under an existential quantifier, `R`: `R[i]` is what is left to read when the frame of the i-th message is next. `Tails` says that this
  is the size, the message, the NUL and `R[i + 1]`, and that behind the last frame there is nothing; `Turn` that the reader is where `R` says: at a size, at the uncounted NUL, or at the payload.
  `Rest` is what has arrived followed by what is on the wire, so that an arrival changes nothing. `SendStep` extends each `R[i]` by the new frame.
  How many bytes are on the wire never has to be
  computed, which would be a sum and a proof by induction over data. `Counts` ties the history variables together; of the prefixes in the mapping each step extends one by one message at most.
- **LibSocketProofs**, Dispatch: `SuccessesAreNoFailures` and `ErrorsAreReported`, for every set of platforms of which each is `Portable`; `MCDispatch` has TLC evaluate that Linux and macOS are,
  which they cease to be when the enumerators without a value are put behind another one (EADDRINUSE for `connect`).
  On a table that is not, `ErrorsAreReported` is false: the error runs the handler of the success. `KeysDiffer` carries both proofs: the number of a success is that of no listed errno (`Portable`),
  nor of another enumerator the compiler numbers, as these differ by their places. The numbers of `INVALID_ADDRESS` and `INVALID_PORT` may well be those of an errno, which the properties leave to the calls that refuse.

Every invariant of the passing runs is proved, and every refinement and action property. Only model-checked are the leads-to properties: fairness and ENABLED are out of the
prover's reach. What they rest on is proved where it is an invariant: `NoSleepOnData`, `WakeUpIsAhead`, `EndIsAhead`, `RedrawIsAhead`.
The other way round, `SizesAreReadable`, `ReaderInStep` and `RedrawComes` prove invariants that no passing run lists.

## 5. Not modelled

Drawing and the escape sequences (output only, the scroll bar's division by 0 at Console.cpp:354 included), build
scripts, the Logger's file, PHASE 1 of `clientmain.cpp` (not compiled), the methods of LibSocket and of the hooks
nobody calls. Memory: what `resolve` leaks, a `std::function` that is replaced while it runs, a vector of hooks or messages that
is moved under a reader. What a build does with these cannot be derived from the code; the models take the outcomes in which
the program goes on. The terminal of the server, which is never set back (servermain.cpp 40-42), is a fact of one line. The hazards of
`PROJECT.json` without a property say why in their notes.

## 6. Plan

A version of ClientSession over RingBuffer and SyncPoint themselves, to check that what it assumes about
them is what they do: the two are proved to implement `Channel` and `Mailbox`, and ClientSession uses a queue and a slot that look like these.
