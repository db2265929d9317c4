# lua_xlib in TLA+

lua_xlib is a set of Lua modules written in C, C++ and Lua: POSIX and System V
calls, sockets, an AMQP client, database access, bridges to Python, zlog, GMP
and rapidxml, and network clients in plain Lua. Most of its functions are one
system call. This directory models the parts that keep state between calls and
that meet somebody else's steps in the middle of their own: a server, a peer,
the kernel, a signal, the application's own loop.

Every module names, in `PROJECT.json` under `map`, the lines each definition
translates. The default build of the `Makefile` is meant throughout: `poll(2)`
and not `USE_EPOLL`, assertions on.

## Inventory

| part | state it keeps | operations | what is hard | module |
|---|---|---|---|---|
| AMQP client, `lamqplib.c` | connection: status, time stamp, bitmap of channel numbers, librabbitmq's state; channel object: number, time stamp | connect, close, `channel()`, drain, every request of a channel, close, good, gc | the server closes channels and the connection when it likes; its notice is read by whichever call reads next; reconnects | `AmqpChannel` |
| AMQP deliveries | librabbitmq's list of frames | `basic_get`, `drain_events` | frames of several channels between the replies; a frame put back | `AmqpFrames` |
| AMQP messages | none | encode and decode properties and headers | numbers among keys and values, who keeps a string alive | `AmqpCodec` |
| poll selector, `lsocklib.c` 885-1146 | array of entries, iterators with a position | register, modify, unregister, clear, select, iterate | calls in the middle of an iteration move entries | `PollSet`, `PollSelector` |
| line reader, `lsocklib.c` 637-733 | errno, deadline, pieces of the line | `readline(size, timeout)` | pieces, end and reset of the stream, signals, time | `ReadLine` |
| socket objects, `lsocklib.c` | a descriptor, -1 when closed | socket, pair, bind, connect, listen, accept, recv, recvfrom, recvmsg, close, gc | descriptor 0, numbers used again, the end and an empty message | `SocketLife` |
| socket options | table of options | getsockopt, setsockopt | sizes, structures, the end of the table | `SocketOptions` |
| signal handlers, `lsyslib.c` 590-854 | table of references to Lua functions | `signal`, the C handler | the handler runs between two statements of `signal` | `SignalTable` |
| processes, `lsyslib.c`; descriptors, `lfdlib.c` | none | one system call each | the order of fork, exec, exit and wait | as `runshell.lua` uses them: `RunShell` |
| time, limits, iconv, syslog, `lsyslib.c` | none | one system call each | | no |
| POSIX queues and semaphores, `lipclib.c` | queue with cached blocking mode | timed waits, setblocking | processes that share a queue, sums of times | `PosixIpc` |
| shared memory, `lipclib.c`, `lsvipc.c` | mapping and cursor | attach, read, write, seek, detach | boundaries, sums that wrap around | `ShmCursor` |
| System V semaphores, `lsvipc.c` | list of operations | `add_op`, `done`, `setval`, `setall` | a `done` that fails, exits, 16 bits | `SvSem` |
| System V messages, `lsvipc.c` | one buffer, used within a call | one system call each | | no |
| directories, `lfslib.c`; accounts, `luserlib.c` | a directory stream; a cursor of the C library | iterators | loops inside loops, loops left early | `Listings` |
| the rest of those, `lerrno.c`, `lua_util.h` | none | one call each | | no |
| database, `lua_otl.hpp` | connection status, cursors and their streams | connect, execute, bind, flush, fetch, commit, rollback, close, gc | a step that fails half way, a lost connection | `OtlSession` |
| Python bridge, `lua_py.c` | reference counts, the error indicator | calls, iterators, conversions, gc | a reference used after it was given up | `PyRefs` |
| zlog binding, `lzlog.c` | 20 record slots | `set_record`, logging, reload | Lua runs inside zlog's lock | `ZlogRecords` |
| XML, `rapidxml.cpp` | documents, nodes that point into them | parse, edit, iterate, gc | a node that outlives its document, edits inside a loop | `XmlTree` |
| big integers, `lbnlib.c` | GMP numbers | arithmetic | | no |
| `base64.lua`, `digest.lua` | none | pure functions | groups and blocks that are not full | `TextCodecs` |
| `util.lua` | lists and sets | pure functions | | no |
| FTP client, `libs/ftp.lua` | control connection, last reply, data socket | login, commands, rename, get, put, list | several replies per call, replies after a timeout, a data connection that does not come | `FtpClient` |
| HTTP client, `libs/http.lua` | socket, closed flag | request, getresponse, connect, close | a line cut off by a timeout, what is left of a body | `HttpClient` |
| `examples/tcp_proxy.lua` | the two sockets of a session | forward | two directions, the end of one | `TcpProxy` |
| `examples/runshell.lua` | pipes and a child | run with a timeout | the end of one pipe, the child's exit | `RunShell` |
| other examples, `third_party/` | | | | no |

How they interact: everything runs in one Lua thread, so a call of the
application is over before the next begins; concurrency comes from outside.
`ftp.lua` and `http.lua` read lines with `readline` and poll with a timeout.
`tcp_proxy.lua` is an event loop over a `PollSelector`. Signal handlers written
in Lua run between any two instructions of the rest. Objects of the C modules
are collected by Lua's collector, in any order. Socket calls leave `errno` to
whoever looks at it next, and `readline` does.

What makes each part correct: bookkeeping agrees with the other side up to what
is still under way (AMQP, FTP); no event and no byte is lost, doubled or
invented (selector, line reader); a call ends when its time is over; nothing
stays open after an error; an object used after its resource is gone says so.
The list of hazards in `PROJECT.json` says, line by line, which property covers
which, and which ones the code does not stand up to.

## Modules

### AmqpChannel

State as in `connection_t` and `channel_t`: `state`, `status`, `timestamp`,
`channels` (the bitmap), and per object `channelId` and `stamp`. The other side
is the server's view of each channel (`server`), the close notices not read yet
(`wire`), those librabbitmq has read and set aside (`queued`), and the `link`.

| action | code |
|---|---|
| `Establish`, `CloseConnection` | `establish_connection`, `close_connection` |
| `DrainClose`, `DrainError` | `cn_drain` when a frame is a close, or the link is broken |
| `AttachChannel`, `OpenChannel`, `OpenRefused`, `ScanLeavesBitmap` | `cn_channel`: bit set, bit clear, number above the negotiated maximum, no bit clear |
| `Request` | every operation that waits for a reply: flow, exchange, queue, qos, consume, get, tx, confirm |
| `SendFails`, `PublishReceives` | the operations that only send; `amqp_basic_publish` with a heartbeat reads as well |
| `CloseChannel`, `ForgetClosed`, `FreeChannel` | `ch_close`, `ch_good`, `ch_free` |
| `BlockedReturns` | a call whose reply never came gets a close or an error |
| `ServerCloseChannel`, `ServerCloseConnection`, `LinkLost`, `Tick` | the server, the transport, the clock |

`SimpleRpc` is librabbitmq 0.8.0 (in `third_party/`) as this code uses it: a
request reads the socket until its reply, a close of its channel or a close of
the connection, and sets every other frame aside; only `drain_events` looks at
what was set aside. An operation is one action because nothing else of the
application runs in it; a request whose reply never comes leaves `call` set.

`channelMax` is negotiated with each connection (`ChannelMaxes`) and may be the last
number that has a bit, `MaxId`, which stands for 65535. There the scan for a free
number finds every bit set, reads on behind the bitmap and asks for whatever number
it makes of that (`ScanLeavesBitmap`); what becomes of such a request is history in
`overran`, since a refused open may consume another channel's notice.

Assumed: a new TCP connection starts with nothing in flight; RabbitMQ's treatment of a channel it
is closing (it answers `channel.close`, and waits for its own close-ok).

`channel:close()` and `channel:good()` look at the bit and not at the time
stamp. An object of an earlier connection can therefore close the new
connection's channel of the same number, or call itself good. The model has
this (`CloseChannel`, `ForgetClosed`); no property forbids it, because nothing in
the repository says otherwise.

### PollSet and PollSelector

`PollSet` says what a selector promises: a set of descriptors with the events
asked for, the events of the latest poll, and iterators that hand those out
once each. `PollSelector` is the code: `fds`, `len`, `size`, and each iterator's
`position`, with one action per method (`Register`, `SetEvents`, `Unregister`,
`Clear`, `Select`, `SelectFails`), `NextEvent` and `EndOfEvents` for a call of the
iterator, and `Break` for a loop left early. Several iterators may be alive at
once and every method may be called inside a loop. The abstract set is a
function of the array (`Interest`, `ReadyEvents`).
Assumed: `realloc` succeeds, and a descriptor is unregistered before it is
closed (a descriptor closed first is the kernel's `POLLNVAL`).

### ReadLine

One call of `readline`, step by step: poll, peek, take. Between the steps the
peer sends, closes or resets and time passes. `errno` is a variable that
successful calls leave alone. `Deadline` is `time_add` as written, in ticks;
`Second` says how many ticks a second has. With a size of 0 the code asks for no
bytes and takes the answer for the end of the stream; the module does the same.

### FtpClient

`pc` says what the client waits for, `cmd` what it sent last. Commands and
replies are two queues, and only their order ties them together, as on the real
control connection; each queued reply carries the command it answers as history,
which the client does not see. `GetReply` times out whenever there is nothing to
read. `Begin` and `BeginTransfer` start every call; the transfers go through PASV
or PORT, the command, the data connection (`Connect`, `Accept`,
`AcceptTimesOut`), the first reply, the data and the second reply. The server
answers, refuses, connects before or after it says 150, fails half way, or goes
away. It may send any number of lines that end no reply (`ServerSaysMore`, passed over
by `PassesLine`) and rows of a listing (`ServerLists`, `KeepsRow`), each with the whole
timeout; and it may say what the client cannot read (`odd`): an address or a time
without its numbers, a blank row. There `pasvconn`, `time` and `list` raise an error
(`PasvAnswered`, `TimeAnswered`, `RowRaises`).

### AmqpFrames and AmqpCodec

`AmqpFrames` is the other half of the AMQP client: the frames of each channel that are
still in the socket (`outbox`), librabbitmq's list of those read while another call was
waiting (`frames`), and the `call` under way: a request, a `basic_get`, a `drain_events`
in a message of several frames. `basic_get` puts the frame it read back at the end of
the list (`Requeued`), which is right only because what comes first of a channel was put
there first (`InOrder`, `FramesInPlace`, `AnnouncedIsThere`).

`AmqpCodec` is one `basic_publish` and the delivery of its message: the properties are
read field by field (`ReadString`, `ReadByte`, `EncodeHeaders`), numbers become strings
that only the stack keeps alive (`converted`, `freed`), tables live in the connection's
`pool`. `Byte` and `IntMax` are small, so that the numbers at a limit are few.

### SocketLife and SocketOptions

`SocketLife` has the objects (`sockfd`, `kind`) against the kernel's files (`file`), where
a number is given again once it is closed, by `close` or by the collector (`Close`). The
receiving calls say what they took and what they returned (`balance`), and whether they
reported the end of the stream (`told`). `Receives` lists the calls by the kind of socket
they are made on and the size they ask for; `ReceivesRight` names those of which nothing
under "Disagreements" speaks. `SocketOptions` is the table of options with the
conversion of each type; a `timeval` may lose a microsecond where the double is cut off
(`Truncated`), so what is read back is the value set or one less.

### SignalTable

`sys.signal` cut into its statements (`Begin`, `Release`, `ClearSlot`, `Push`, `Store`,
`SetDisposition`): a signal that arrives between two of them runs a handler
(`HandlerSets`, `HandlerRaises`). Lua's registry and its list of free entries are
modelled (`registry`, `free`), since an entry that was released is the next one handed
out. `NoReferenceLost` speaks of the free list as a sequence: that the entries are as
many as the references held and free, as it was put at first, is true of two signals and
not of three (one that is held twice makes up for one that is lost).

### SvSem, ShmCursor and PosixIpc

The object of each process against the kernel's. `SvSem`: queued operations (`operands`
says which ones the processes of a behaviour give), one atomic `semop` per `done` (`Done`,
`Perform`, `Refuse`: `Values` and `Undoes` are what its operations make of the values one
after the other, all or nothing), SEM_UNDO with its range and its clamping, exits, sets
removed and made again. `ShmCursor`: read, write and seek with sums modulo `Word`, for
System V segments and POSIX mappings. `PosixIpc`: queues with the cached mode
(`SetBlocking`, `Fork`; `knows` has the processes whose object saw the mode being set), and waits until a time made of seconds and fractions (`Tick`,
`Expires`, `Goes`).

### OtlSession

`status` and `connected` of the connection against the `session` that the server has, or
no longer has (`alive`); each cursor's `object`, `stream` and OTL's buffer, bound value by
value (`BeginBind`, `WriteValue`, `CheckBuffer`, `BindReturns`, `BindRaises`,
`BindRefused`). A buffer has the rows that are complete (`rows`) and the values of the one
that is not (`part`); of a value only the bind that wrote it is kept. `pending` and `table`
say how often the server has each row; `accepted` and `confirmed` are histories of what the
program was told.

### PyRefs, ZlogRecords and XmlTree

`PyRefs` counts the references (`refs`) of each Python object; those who hold one are
userdata (`handle`), closures of loops, Python's own variables, other objects and the
error indicator. References that are lost for good are a history (`leaks`). What a last
reference frees may hold the last reference to another object; `Decref` follows that chain,
one `GivenBack` for each object, which is enough since an object is freed once. A closure
may be called after its end (`NextItem`): it gives its reference back once more, which
`again` records. `Taken` and
`Released` are the conversion of the arguments, one after the other, and the end of their
list, which CPython empties from its last item.
`ZlogRecords` has the process's slots (`record`), zlog's table (`output`), the record
functions running inside one another (`calls`), and zlog's lock (`readers`). `XmlTree` has
nodes and their `children` in order, the declaration, and a `loop` that holds the node it
met last. Of the loop's history, `kept` are the children it began with that were not removed,
`seen` those it has handed out; of a node's attributes one value is kept.

### RunShell, TcpProxy, HttpClient and Listings

`RunShell` runs a command, any that writes, closes its streams, leaves a process behind
and exits, next to the clock. `TcpProxy` is one session with two peers; bytes are counted
(`inq`, `outq`, `owed`), queues are bounded, resets and SIGPIPE are steps. In
`HttpClient` each piece of a response carries the number of its request as history, as
in `FtpClient`; a line that was cut off by the timeout leaves its rest on the `wire`.
`Listings` has loops over directory streams and over the C library's cursors; an iterator
called once more after its nil is left out, with the streams that such a call would close
under another loop.

### TextCodecs

Operators for base64, base16 and the padding and blocks of the digests, next to the
definitions of RFC 4648, RFC 1321 and FIPS 180; the actions apply them.

### Compositions

Most of these components meet in an application only: none calls another one, and none
reads a variable of another one. The runs therefore put them side by side.
`SocketParts`, `ProcessParts`, `BindingParts`, `MCBindings` and `MCWaits` instantiate each
module with its own variables. The first three leave the constants open, so that the proofs
speak of all of them, and `MCSockets`, `MCProcesses` and `MCBindings` give them values;
`MCBindings` extends `BindingParts` by the functions that no theorem is about. The variable
`part` is chosen at the start and never changes, and a behaviour is one of the component that
`part` names. What is checked is
thus each component by itself, with one specification, one invariant and one set of
constants for each: `SocketSafety` is `part = "sockets" => Sockets!Safety`, where
`Safety` in each module is the conjunction of its type invariant and its properties.
In `MCWaits` one part may stand for the same module with other constants.

Where one component is built on another, the interface is what the lower one promises:
`PollSet` is implemented by `PollSelector` (checked and proved), and `FtpClient` and
`HttpClient` take from `ReadLine` that a timed call ends with a line, a piece of one, or
nothing.

## Runs

| run | what it asks | bounds |
|---|---|---|
| `amqp_channels` | does the client's bookkeeping agree with the server's, up to unread notices; when does the scan leave the bitmap; can an old object pass for a new one; when does a call block for ever | 2 objects, 3 bits with `channel_max` 2 and 3, 2 connections, 2 seconds, with heartbeat: two numbers to mix up with one above them, a full bitmap, a number opened again by another object, a reconnect within a second and across one |
| `amqp_documented_range` | may every number in "(0, channel_max]" be asked for (no) | 2 objects |
| `amqp_automatic_number` | does the code pick such a number itself (no) | 2 objects |
| `poll_selector` | does the array implement the set; what may an iterator repeat or miss | 3 descriptors, 2 iterators, array of 1 that grows twice, one event |
| `read_line` | are all bytes handed over, are lines lines, when is a stream called closed, does a call wait too long | chunk of 2, 4 bytes, sizes none, 0 and 2, timeouts none, 0 and 2, non-blocking, signals, any errno |
| `read_line_spins` | does a call with a timeout return when signals interrupt a poll (no) | blocking, 2 bytes |
| `read_line_waits` | the deadline with a timeout of half a second (no) | 2 ticks to a second |
| `ftp_client` | is a reply taken for the right command, is every data socket closed, when does a call raise, does a call return | both modes, at most one reply or command left over when a call begins; any number of lines in a reply or a listing, and replies that cannot be read |
| `sockets` | `SocketSafety`: has each open object a descriptor of its own, is none leaked, is the end of a stream the end, is what was taken given | 3 objects, 4 descriptors of which 0 is the standard input, recv of 1 or 2 from a stream of messages of 1 and 2, recv and recvfrom of 2 from datagrams, recvmsg of 1 |
| | `ProxySafety`: is a byte lost or doubled, is the direction whose end ends the session complete | buffers of 3, chunks of 2, either side ends or resets at any time, with the timeout |
| | `HttpSafety`: is a response the one to the latest request, is something left on a connection that is kept | 3 requests, bodies of 2 pieces, with and without a length |
| `processes` | `ShellSafety`: is a process or descriptor left behind, is the ended stream complete, why is a command stopped | 3 writes, pipes of 2, with a time limit |
| | `SignalSafety`: does a signal run its own function, do table and system agree, is a reference lost or released twice | 2 signals, 2 functions, as many entries |
| | `SemaphoreSafety`: is what was taken given back, what does one `done` do | 2 processes, one semaphore, which take and give, or take and wait for zero; words of 3 bits |
| | `MemorySafety`: does a cursor stay inside the attached memory | 2 processes, 2 bytes, words of 8, lengths -3 to 3, 2 segments |
| | `PosixSafety`: is a wait as long as its timeout, has a queue the mode it was put in | 2 processes that share a queue by fork or have one each, seconds of 3 ticks, timeouts none, 0 and a second and two thirds |
| | `ListingSafety`: is each entry met once, which streams stay open | 3 loops, 2 streams, 2 entries |
| `bindings` | `OtlSafety`: does the status tell the truth, are rows whole, are flushed rows stored, and once | rows of 2 values, right, wrong or refused, batches of 1 and 2, 2 rows and one failure; 2 cursors in one session, or one in two (`FewCursors`); a lost session is reported |
| | `PySafety`: is what Lua holds alive, is what nobody holds freed, is an error reported by the call that made it | 2 objects, 2 userdata, one loop, calls with up to 2 arguments; up to the first call of a closure after its end (`HeapIsSound`) |
| | `ZlogSafety`: does a message go to the function set last, when is the lock held | one state, 3 records, 2 slots, 3 calls deep, 2 errors |
| | `XmlSafety`: does a document keep one root and the declaration set last, does a loop meet each child once | 4 elements, or 3 nodes that have texts, or attributes, which with 3 nodes only declarations have (`FewNodes`): three children and the parent of a loop; 2 attribute values |
| | `FramesSafety`: are the messages of a channel given in order, is each frame read where it has to come | 2 channels, 2 messages and one |
| | `ReadsBackWhatWasWritten`: messages of AMQP, texts of base64 and base16, socket options; and the padding of digests | tables two deep with mixed and missing keys, numbers up to `IntMax` and beyond; messages of 4 bytes, texts of 5 characters, every length to 130; one option of each type |
| `calls_end` | `NotStarved`: is a descriptor that stays ready handed out again and again | 2 descriptors, one loop, array of 1 |
| | `TimedCallReturnsOrSpins`: does a readline with a timeout return, once the peer sends no more, in every other way than `read_line_spins` | blocking, signals, any errno, sizes none and 0, 2 bytes under way; the peer may send for ever |
| | `EveryCallEnds`: timed waits, the end of a command or of its time, both directions of the proxy, an HTTP response, the messages of two AMQP channels | the smallest instance of each in which two actors get in each other's way |

`N`, `MaxBytes`, `MaxPending` and the other `Max...` constants, and `Capacity`, are
bounds; the widths `Byte`, `Word`, `UShort` and `IntMax` stand for 256, 2^64, 65536 and
the largest int: a comparison goes wrong at its own limit whatever the limit is. A
notice, a bit, an entry or a descriptor only ever meets one other of its kind, so two
numbers, and objects for both of them, show every order of two steps with a third in between; the
theorems below take the bounds away where they matter most. Symmetry is used for
objects, descriptors, processes and the like in runs without liveness.
`CHECK_DEADLOCK FALSE` stands where the system may stop: the AMQP runs end when the
clock and the connections are used up, a client when it is closed, a program when all
its loops, processes or objects are used up.

What the bounds leave out: a table of options in which two share a name or a level is
not looked at in `bindings` (one option of each type); a message arrives once in a
behaviour of "messages"; two cursors share one session only; `calls_end` has two
descriptors, where `poll_selector` has three; the command of `processes` does not
ignore SIGTERM. `HeapIsSound` stops `bindings` at the one step after which the counts of
Python's heap are not those of its references; what is left to say there, its types and
`OwnErrors`, is proved without the bound. `MCWaits` adds `Forgets` to `ReadLine`: the
histories are cut down to what is under way, so that its `MaxBytes` bounds that, and not how
much the peer sends.

### Fairness

The safety runs have none. `LoopSpec` of `PollSelector` is fair to `Select` and to the
iterator, because the loop of an application is a loop; the descriptors and the handlers
owe nothing. `FairSpec` of `ReadLine` is fair to the call's own steps (the process is
scheduled) and to time; the peer owes nothing. `FairSpec` of `FtpClient` is fair to the
client's steps; a timeout is one of them, and the server owes nothing. But `CallsReturn`
has the premise that the server's lines come to an end: `get_reply` (`libs/ftp.lua:35`) and
`list` (`:214`) start a new timeout with each line. `get` and `put` are
left out of `CallsReturn`: they receive and send on the data connection without a
timeout. `HttpClient` is fair to `getresponse` alone, with its timeouts. `AmqpFrames` is
fair to the server's answers and to an application that goes on draining; strongly to
reading and draining, which other channels keep interrupting. `PosixIpc` is strongly fair
to the clock, which calls that return at once may hold up for a while, and weakly to the
kernel ending a wait whose time is over; nobody need post or send. `RunShell` is fair to
`runshell`, to the clock and to SIGTERM ending the command; the command owes nothing
else. `TcpProxy` is fair to the proxy and the network, and to both peers reading: a peer
that does not read holds a blocking `send`, and with it the other direction, as long as
it likes.

`MCWaits` has all of these at once. Since `part` never changes, a fairness condition of
one component and one of another can be written as one: the disjunction is enabled
exactly when the disjunct of the part that runs is. Its seven conditions are the
`FairSpec`s of the modules, put together that way.

### What was found

Four runs show a violation.

- `lamqplib.c:609` refuses `channel_max`, which the message of line 608 includes;
  `lamqplib.c:613` picks a number above it by itself when the others are in use,
  and the server closes the connection.
- `lsocklib.c:692`: `readline` tests `errno` after `recv` returned 0. After an
  interrupted or empty-handed call it polls and peeks at the end of the stream for
  ever.
- `lsocklib.c:643`: milliseconds times a million are not microseconds; the deadline
  of a timeout that is not a whole number of seconds is up to a second late.

And what holds only with its condition, which the properties state: an object of
an earlier connection is recognised only if it was not made in the second of the
reconnect (`OldObjectNeedsSameSecond`); a call on a channel whose notice another
call set aside never returns (`BlockedOnClosingChannel`); an iterator misses an
event when something it has passed is unregistered (`NothingMissed`); after a
timeout the FTP client takes late replies for the wrong command (`OwnReplies`);
an active transfer whose data connection comes too late calls a method of nil
(`RaisesForAReason`); `readline` reports the end of a live connection when it is asked for
no bytes (`ClosedMeansDrained`); it goes on past its time while bytes without a newline keep
coming, and spins on a stale errno (`TimedCallReturnsOrSpins`); an HTTP response is another request's after a cut line or a body
without a length (`OwnResponse`); a loop over all accounts is complete only if no other
one moves the cursor (`AccountsOnce`); the end of one direction drops what the other
one still had to forward (`EndedIsForwarded`); an error inside a record function leaves
zlog locked (`LockIsHeld`); a signal's own function runs unless a handler changed the
signal of the call it interrupted, or left an error on its stack (`RunsItsOwn`).

### Disagreements

The modules also state what a header comment or an assertion of the repository says and
the code does not do. These properties are marked in the modules; no run of this project
checks them, and each is refuted by TLC within seconds when its name is put into a
`.cfg` for an instance as small as those above, with the constant named here.

| code | property | what happens |
|---|---|---|
| `lua_otl.hpp:641` | `OtlSession!CommittedByCommit` | The statement is made with OTL's own auto-commit on: each execution of the buffer commits, whatever the mode of the connection, and `rollback()` has nothing to undo (`lua_otl.hpp:4`, `:8`). |
| `lua_otl.hpp:240` | `OtlSession!GoodCursorHasSession` | After `close()` and `connect()` a cursor of the session before passes the check. |
| `lua_py.c:285` | `PyRefs!IteratorAlive` | The iterator is released when it is exhausted, and the closure keeps the pointer to it. Called again, it gives back a reference that it does not have; where `iter(x)` is `x`, that frees an object which a userdata of Lua still holds. `HeldIsAlive` therefore holds up to such a call only. |
| `lua_py.c:125` | `PyRefs!ToluaFillsTable` | The userdata is pushed twice, so an object in a converted list is not stored in the table. |
| `lsvipc.c:566` | `SvSem!SetAllSets` (`SetValues` with one above `UShort`) | `setall` stores 65537 as 1 and returns true; `setval` refuses it. |
| `lipclib.c:256` | `PosixIpc!TimesAreValid` | A sum of exactly 1000000000 nanoseconds is not carried, and the call is refused. |
| `lamqplib.c:1554` | `AmqpCodec!StringsAlive` | A property given as a number points into a string that nothing keeps. |
| `lsocklib.c:418` | `SocketLife!OpenIsUsable` (`Stdin` FALSE) | Descriptor 0 counts as closed for the check, `close` and the collector, and as open for `closed()`. |
| `lsocklib.c:784` | `SocketLife!TakenIsGiven` (`recvfrom` on a stream) | The kernel writes no address; an uninitialised one is read, and may raise after the bytes were taken. |
| `lsocklib.c:1493` | `SocketLife!TakenIsGiven` (`recvmsg` with a buffer larger than the message) | The string has the length of the buffer. |
| `lsocklib.c:746` | `SocketLife!ClosedIsTheEnd` (`Sizes` with 0) | An empty datagram is reported as the end of the connection. |
| `lsocklib.c:466` | `SocketLife!BindAsDocumented` | For AF_UNIX the path is the third argument; the documented call raises. |
| `lsocklib.c:172` | `SocketLife!PairReturns` | The object is on the stack twice, and the result is stored into it instead of the table. |
| `lsocklib.c:1380` | `SocketOptions!ListedIsSet` (type "linger") | The length stays 0 for SO_LINGER, and the kernel refuses it. |
| `lsocklib.c:1285` | `SocketOptions!ListedIsSet` (level 0) | The search ends at the first entry of level 0, which is SOL_IP. |
| `lzlog.c:178` | `ZlogRecords!CalledInUse` (two states) | A state that loads the module clears the slots that zlog still calls; the assertion of line 145 fails. |
| `rapidxml.cpp:486` | `XmlTree!ValueIsDumped` | `value(text)` of a node that has a text among its children does not appear in the dump. |
| `rapidxml.cpp:190` | `XmlTree!NodeOfLiveDocument` | The object of a node does not keep the document. |
| `rapidxml.cpp:270` | `XmlTree!ParsesAgain` | `parse` writes zero bytes into the Lua string, which is not well-formed the next time. |

Seen while modelling, and not stated as properties, since nothing in the repository
says otherwise. Most are in a module, and a property states what holds all the same.

- `lamqplib.c:613`: with `channel_max` 65535 and every number in use the scan reads behind
  the bitmap (`ScanLeavesBitmapOnlyWhenFull`). The open that fails then may consume the
  close notice of another channel, which no close-ok follows (`overran`).
- `lamqplib.c:1336`: `drain_event` waits its whole timeout again after each frame it cannot use.
- `lsocklib.c:687`: `readline(0, t)` reports the end of a connection that is alive.
- `lsocklib.c:716`: `readline` whose time is over goes on while a peer pours in bytes without
  a newline.
- `lsocklib.c:1121`: an iterator of a selector does not keep it alive (not modelled).
- `lsocklib.c:1375`: the microseconds of a timeout are cut off from a product of doubles;
  1.001 seconds are stored as 1 second and 999 microseconds.
- `libs/ftp.lua:35`, `:214`: a server that keeps sending lines holds any call for ever.
- `libs/ftp.lua:124`: `time` raises when the reply is not a time.
- `libs/ftp.lua:131`: `pasvconn` raises when the reply has no address, or the connection was
  reset, and leaves its socket open (`DataClosed`, `RaisesForAReason`).
- `libs/ftp.lua:187`: a row of blanks makes `list` raise, with its data socket open and its
  last reply unread, so that later replies are taken for the wrong command.
- `libs/ftp.lua:243`: `get` has no timeout on its data.
- `lipclib.c:373`: after `fork`, `setblocking` compares with the mode its own object
  remembers: when another process has changed the queue's it returns true and changes
  nothing (`ModeAsAsked` has this as its condition).
- `lsyslib.c:831`: a handler that raises leaves the error where `sys.signal` looks for the new
  function, and one that sets the signal of the call it interrupts has its own overwritten;
  without `~disturbed`, `RunsItsOwn` is refuted.
- `rapidxml.cpp:315`: `declaration{...}` with a wrong value raises after the old declaration was
  removed; the document has none then, and `DeclarationIsSet` asks for none.

## Proofs

`AmqpChannelProofs` proves, for any number of objects, bits, connections and
seconds: `TypeOK`, `StatusMatchesState`, `ScanLeavesBitmapOnlyWhenFull`,
`BitmapMatchesServer`, `NoticeMatchesChannel`, `OldObjectNeedsSameSecond` and
`BlockedOnClosingChannel`. All follow from one inductive invariant `IInv`:

- `BitmapNegotiated`: only numbers up to `channel_max` have a bit, since the server
  refuses the others; so a full bitmap means that `channel_max` is its last number, and,
  while the link is up, that the server has or is closing a channel under each;
- `TimesOrdered`: stamps follow the clock, and an object of an earlier connection
  is no younger than this connection;
- `BlockedIsGood` and `LinkInv`: while the link is up nobody has closed the
  connection, a notice is in one place only, and the server is still closing the
  channel it is about. None of `BitmapMatchesServer`, `NoticeMatchesChannel` and
  `BlockedOnClosingChannel` is inductive alone: a notice that is read clears a bit,
  so what it is about must be known, and a call that gives up must not have reached
  a channel opened again.

`PollSelectorProofs` proves, for any finite set of descriptors and any number of
iterators and events: `TypeOK`, `OneEntryPerDescriptor`, `ToldIsPassed`,
`NothingMissed`, and `Spec => ImplementsPollSet`, by showing that the initial state
is one of the set's and that each method is a step of the set or leaves it as it
is. The inductive invariant adds `ToldIsRegistered` to the properties.

`ReadLineProofs` proves, for any chunk size, any set of sizes and timeouts and any
length of the stream: `TypeOK`, `StreamIntact`, `LinesAreLines` and
`ClosedMeansDrained`. Their inductive invariant adds what the loop of
`sockobj_readline` relies on from one round to the next:

- `HeldHasNoNewline`: a piece on the Lua stack has no newline, or the call would have
  returned; without it a line joined from pieces could hold one in its middle;
- `SizeIsLeft`: the pieces and the size that is left make the size that was asked for;
  it is 0 in the loop only if 0 was asked for, where recv is asked for nothing and that is
  taken for the end of the stream: the one exception of `ClosedMeansDrained`;
- `PeekedIsThere`: between the two calls of recv nothing that was peeked goes away.

`WaitsCorrect` proves `WaitsNoLonger` under the hypothesis `WholeSeconds`, that each
positive timeout is a whole number of seconds. The hypothesis is needed: the run
`read_line_waits` refutes the property for half a second. Its invariant is
`DeadlineIsDue`.

`FtpClientProofs` proves, for any modes and any number of calls: `TypeOK`,
`OwnReplies`, `DataClosed` and `RaisesForAReason`. The heart of the inductive invariant
is `InStep`: at each place of the client, unless a wait ended in vain or the server said
something the client cannot read (`Regular`), the commands on
their way, the one the server works on, the replies it has sent and those the client still
expects fit each other exactly (`OneReply`, `SecondReply`, `TwoReplies`, `Quiet`).
`OwnReplies` alone says nothing of a reply that nobody has read yet, and a call that
returns leaves one behind as easily as not. `DataOfStep` says which socket of a transfer
is open where, `WaitsInCall` which call and mode each wait is for, `OddIsTold` and
`BlankIsTold` that nothing odd is under way unless `odd` says so.

`SocketPartsProofs` proves the safety of `SocketLife`, `TcpProxy` and `HttpClient` as parts
of `SocketParts`:

- `DescriptorsCorrect`, for every set of receiving calls: an open object has a descriptor of
  its own, and only descriptor 0 is left behind. The invariant `Descriptors` ties the number
  that each object has to the file the kernel has under it.
- `SocketCorrect` adds that the end is the end and that every byte is given (`InboxWhole`,
  `ToldIsOpen`), under the hypothesis `ReceivesRight`. The hypothesis is needed: the
  disagreements of `lsocklib.c:784`, `:1493` and `:746` are calls that it leaves out.
- `ProxyCorrect`, for every capacity and chunk: `NothingMade` counts every byte sent as
  either owed, in the buffer or in a queue; `TodoIsReadable` and `EndIsLast` say that what
  the loop has still to handle of one poll stays readable, and that nothing is behind an end.
- `HttpCorrect`, for bodies of any length and any number of requests: `OnItsWay` describes
  what of which response may be on the wire, `ReadingLines`, `ReadingBody` and `Room` what
  the client still wants of it. `OwnResponse` needs all of them: whether a response is the
  latest one's is decided when the one before it is read to its end, or is not.

`ProcessPartsProofs` proves the parts of `ProcessParts`:

- `ShellCorrect`: `Counts` (what was written is collected, or in a pipe), `EndsOpen` and
  `ItsProcess` (which ends and processes may still be there at which statement),
  `ReportedIsReadable` (what poll reported stays so until it is read) and `LeftForAReason`.
- `SignalsCorrect`, for any number of signals, functions and references: the free list is a
  sequence without repetition, whose entries and those of the signals that hold one make up
  the registry (`NoReferenceLost`). A call that was interrupted holds a released entry in the
  table for a while; `CallIsInPlace`, `HoldsItsOwn` and `CaughtBefore` say what the statement it is at
  may rely on. All of it is conditional on `~disturbed`: a handler that changes the signal
  of the call it interrupts, or leaves an error under it, really breaks the table.
- `SemaphoresCorrect`, for any finite set of processes, any number of semaphores and any
  operations: `OrdersInv` (the array of an object up to its count is what was added since the
  last `done`) gives `DoesWhatWasAdded` and `WaitsUnlessTold`. `Conserved` needs `AllUndone`:
  from `add_op` to its return, an operation carries SEM_UNDO exactly if it changes a value;
  the `op ? SEM_UNDO : 0` of `lsvipc.c:487` is what the balance rests on. `PerformKeeps`
  sees one `semop` as two sequences, of values and of undo values, whose sum stays
  (`TogetherTheSame`) and which stay in range (`StaysInRange`), `ExitKeeps` an exit as a sum
  whose one term becomes 0 (`SumsDiffer`). Both are inductions over data, done without the
  library's induction theorems: by the least counterexample in a set (`UpToAll`, from
  `WFMin`), and, for the sum over the processes, from the existence of a recursive function
  on the subsets of a finite set (`SumExists`).
- `MemoryCorrect`: `StaysInside` of `ShmCursor` for every word width and any integers as
  lengths, from `AttachedIsThere`. What is assumed of the memory, that it is smaller than
  half of what a `size_t` can count, holds of any memory of a process.
- `PosixCorrect`, whether or not queues are shared: `WaitsAsLong` is inductive with the types of a call
  (`Waiting`), since what is left and what was waited make up the timeout at every tick;
  `ModeAsAsked` follows from `ModeKnown`, that an object which saw the queue get its mode has
  that mode; `RefusedAtSecond` from the arithmetic of the carry.
- `ListingsCorrect`: `NamesSoFar` and `AccountsSoFar` say that an undisturbed loop has met
  exactly what is before its position, which is the cursor of the C library;
  `NothingMet` starts them.

`OtlAndPyProofs` proves two of the parts of `BindingParts`. The first is
`OtlCorrect`, the safety of the database sessions: for any number of
cursors, rows, values in a row, sessions and failures, batches of any size, and whether or not
the build reports a lost session. (In the run, 2 cursors meet in one session only; the
theorem has no such bound.) Its invariant `IInv`:

- `RowsAligned`: a buffer that will be executed holds whole rows of binds that are over, and
  of the bind under way what it has written. It holds before the first error in the middle
  of a row, and after that on the cursors without trouble; `RowsAreWhole` follows from the first of
  these, `FlushedIsStored` needs the second.
- `BuffersFit`: a full buffer is checked at once and has no incomplete row. Without it,
  OTL's overwriting of the last row (`Written`) could take a row that a bind had returned true for.
- `NotYetWhole`: a bind that has not written its last value has its row nowhere, in the
  database or in a buffer. Rows that were put together from two binds could look like one of a
  third; they do not, since a row that begins with the values of the bind under way is in its
  own cursor's buffer and has no more values than that bind has written.
- `KeptOnce`: without failures of the connection, a row is stored once, or is at one place in
  one buffer that will be executed. The buffers that an error has stopped keep rows that are
  stored already, which is why they are left out.
- `AcceptedIsKept` and `ConfirmedIsCommitted`: what a bind returned true for, on a cursor
  without trouble, is committed or still in its buffer; what a flush confirmed is committed,
  since OTL commits after each execution. So nothing that was confirmed is undone by a rollback.

A flush has one lemma for all of its outcomes (`FlushKeeps`), and so has a value that is written
(`WritingKeeps`), with or without a flush before it.

The second is `PyCorrect`, the safety of the Python bridge, for any finite numbers of objects,
userdata and loops, and calls with any number of arguments. (Finite, because an object's holders are
counted.) Its invariant `PyInv`:

- `PySound`: the count of an object is at least what is owed for it, and, as long as nothing
  was lost, exactly that (`Enough`). What is owed is what refers to the object from outside
  (`External`: userdata, loops that are not over, Python's variables, the error indicator) and from
  inside other objects. `HeldIsAlive` and `NothingLost` are this, read for one object
  (`HoldersAreNeeded`).
- `ErrorsLeft`: the indicator is empty between calls, unless an error was left in it by one
  that returned. `OwnErrors` needs it: only then can a call report somebody else's error.

In the middle of a call more is owed than the invariant knows of: a new reference not
yet stored, the method of an operator, and the arguments of a list that is half built or
half freed (`Lent`). The lemmas about heaps are therefore stated for whatever is owed, as `Balanced`:
`IncrefSound`, `MadeSound`, `TakenSound`, `ReleasedSound`, and each action is a chain of them. The heart
is `DecrefSound`: one reference is given back, however long the chain of objects it frees. After
each `GivenBack` the heap is balanced with one reference less for `next`, and an object
less is alive, so that the chain has ended after as many steps as there are objects.
`ConversionKeeps` and `ReportKeeps` show the steps that lose references; a lost one stays
counted, so that `HeldIsAlive` holds after it, and `NothingLost` says no more. All of this ends
with the first call of a closure after its end (`again`), which takes a reference that somebody
else owns; from there on `SoundAnyway` and `SoundNext` keep the shape of the heap only, and
`OwnErrors`.

`BindingPartsProofs` proves, of the remaining parts of `BindingParts`:

- `FramesCorrect`, for any number of channels and messages. `NoneMissing` says of the frames
  of a channel that are left, in librabbitmq's list and in the socket, that they are those of
  all messages after the last one given, without what `drain_event` has read already;
  `InSequence` says that they are in the order in which the server sent them. Together they make the
  first frame of a channel the one that `ReadListed` or `ReadSocket` has to read.
  `RepliesAwaited` adds that a reply is on its way only to the call that waits for it, after
  which no other answer is in the socket: that is why the frame that `basic_get` puts at the end of the
  list comes after the older ones of its channel and before those still in the socket.
- `LockCorrect`, for any number of states, records and slots: `LocksCounted` ties how often the
  lock is held to the functions that run and the errors there were.
- `ZlogCorrect` adds `RunsLatest` under the hypothesis `OneState`. The hypothesis is needed:
  with two states the code does not keep it (`lzlog.c:178` under "Disagreements").
  `SlotOfName` follows zlog's own table into the slots.
- `XmlCorrect`, for any names, values, types of leaves and number of nodes. `XmlSafety` is an
  action property, since a loop that ends leaves no trace in a state; it follows from the
  invariant `XmlInv` and one step. `EachNodeOnce` says that a node is in one list and once
  in it, which is what makes "the sibling after this one" a place. `TopIsOrdered` says where
  elements and declarations can be: a declaration is first in the document, and an element at the
  top is the first node. `OneRoot` and `DeclarationIsSet` need it, because `doc_decl` puts the new
  declaration in front of whatever is left. `LoopFollows` splits the list at the node that the loop
  met last: nothing behind it was met, and what stayed before it was. A body may
  remove, prepend and append; the split survives, and at the end of the list it says that all that
  stayed were met.

The compositions add one argument only: a step of another part leaves the variables of
this one alone, and a part whose turn it is not stays as it began (`StepOfParts`, and a
`...Stutter` lemma for each). The theorem of a part is thus one about its module, for the
constants that its assumption allows.

Two properties were changed because a proof failed. `NoReferenceLost` was a count that
is false with three signals (see `SignalTable`), and `OnlyLeftOpen` could not be proved of a
loop over a stream that another call had closed after its nil, which `Listings` now leaves
out with the call.

The constants' assumptions are `ChannelAssumption`, `PollAssumption`,
`ReadLineAssumption`, and `Assumptions` of the compositions (`PartsAssumptions` in `BindingParts`), which are those of
each part; TLC evaluates them in the runs.

Only model-checked: liveness (`NotStarved`, `TimedCallReturnsOrSpins`, `CallsReturn`,
`EveryCallEnds`), which is out of the prover's reach, and `ReadsBackWhatWasWritten`, which
`MCBindings` adds to `BindingParts`. `AmqpCodec` is written with recursive operators over
trees, and `TextCodecs` and `SocketOptions` are about what functions compute for each input;
they have no theorems for these reasons.

## Plan

What a further theorem would need: `AmqpCodec` with its tables as functions on paths instead
of recursive operators, so that its round trip could be proved for tables of any depth.

## Not modelled

- Functions that are one call of the system or a library and keep nothing: most of
  `lsyslib.c`, `lfdlib.c`, `lfslib.c`, `luserlib.c`, System V message queues, the mapped
  diagnostic context and levels of zlog, GMP's arithmetic.
- `util.lua`: data structures of one caller. The compression functions of the digests.
- Tables of constants, `lerrno.c`, `lua_util.h`, third-party code, the `USE_EPOLL`
  build, other examples.
- Cases left out of a module: a signal that arrives inside a function of Lua's own
  (`SignalTable`); coroutines as the states of a record function (`ZlogRecords`); a loop
  over children whose parent object is collected (`XmlTree`); document types, which the
  documentation lists and `make_node` refuses (`XmlTree`); returned messages and
  acknowledgements (`AmqpFrames`); the accept loop
  (`TcpProxy`); a directory that changes while it is listed (`Listings`); a command that
  cannot be executed, and a `pipe()` that fails at `runshell.lua:8` (`RunShell`); several requests
  before the first response, SIGPIPE, and the error that comparing a content length that is
  no number raises (`HttpClient`); a text that is not well-formed or has more than one root, for
  `parse` (`XmlTree`); a record name longer than its buffer, which `strcpy` copies all the same
  at `lzlog.c:225` (`ZlogRecords`); reply lines cut off by a timeout, a `socket()` or `accept()`
  without a descriptor left, and the local file that an early return leaves to the collector
  (`FtpClient`); the kernel's own rounding of socket timeouts (`SocketOptions`).
