# TLA+ specifications of yonaa

yonaa is a small C++ networking library for Linux: a callback-driven `server`
and `client`, each with one network thread, on top of thin wrappers of the
socket API. This directory holds TLA+ models of it, the TLC configurations
that check them and TLAPS proofs about them. Paths below are relative to the
repository.

## Inventory

| Component | State | Operations | Interacts with |
|---|---|---|---|
| `server` (`src/server.cpp`) | `running_`, `has_disconnected_clients_`, `ec_`, `clients_` (vector of `unique_ptr<client_info>`), `next_available_id` (global) | `run`, `stop`, `~server`; `message_client`, `message_all_clients`, `remove_client`; on its thread `handle_incoming_connections_`, `handle_incoming_messages_`, `handle_disconnected_clients_` | calls the user's handlers, which call back into it; `acceptor`, `poll_group`, `connection`; other servers, through `next_available_id` |
| `client` (`src/client.cpp`) | `running_` (never initialised), `ec_`, `conn_` | `connect`, `disconnect`, `send_message`, `~client`; on its thread `handle_incoming_messages_` | user's handlers; `connection`, `resolve` |
| `connection` (`src/connection.cpp`) | `socket_`, two endpoints | `connect`, `disconnect`, `send`, `receive`, `has_data_available`, moves | `socket_ops`, `poll_socket`, `::send`, `::recv` |
| `acceptor` (`src/acceptor.cpp`) | `socket_`, local endpoint | `open`, `close`, `has_pending_connection`, `accept` | `socket_ops`, `::accept`; makes `connection`s |
| `poll_group` (`src/detail/poll.cpp`) | `pfds_` | `add_socket`, `remove_socket`, `poll` | `::poll` |
| `socket_ops` (`src/detail/socket_ops.cpp`) | none | create a connected or listening socket from a list of endpoints, close one | the kernel |
| `resolve`, `endpoint` | an address in a `buffer` | name resolution, construction, comparison | the kernel's native addresses |
| `buffer` | bytes | construction, resize, zero, comparison | `connection`, `endpoint` |
| logging, addresses, types, example, tests | - | - | no control of their own |

What is hard: the owner's thread and the network thread share plain members
without synchronisation; handlers re-enter the server while it walks its
containers; one `std::error_code` member is reused by every operation and
never cleared; descriptors are numbers that are closed in one place and still
mentioned in others, and the kernel reuses them; 0 is a descriptor and also
means "none"; clients are removed by `std::remove_if` over owning pointers;
both threads loop until a flag changes, and some of their system calls can
block or fail for ever; results of system calls go unchecked. The list, line
by line, is under `hazards` in `PROJECT.json`.

What makes the components correct: descriptors have exactly one owner and are
not lost; ids name one client; the poll set, the client vector and the removal
flag agree; the network thread does not block; bytes are sent whole and reach
the right handler in order; each client is announced once and given notice
once; stop requests and removals take effect; an operation that leaves an
object closed says so.

## Modules

The kernel and the vocabulary of `::poll`:

* `Sockets` - the kernel's side, external to the repository: the descriptor
  table, TCP connections (`Peers`), and descriptors that *other* code of the
  process opens and closes (`Foreign`), so that a number can be reused as soon
  as it is closed. Bytes are counted, not stored.
* `PollStatus` - the flags of `detail/poll.hpp` and their translation.

The two programs the library is for:

* `Server` (over `Sockets`) - one action per step of `network_thread_function_`
  and of the three handlers it loops over, with control points where other
  threads or user code can intervene: every test of `running_`, every accepted
  connection, every poll result, every iteration of `std::remove_if`, every
  removed client, and the inside of each user handler (`on_connect`, `on_data`,
  `on_disconnect`), where any sequence of API calls may happen. `clients_` is a
  sequence over the connections and `nullptr`, `info[p]` the fields of the
  client object created for `p` (`fd` is `client_info::fd`, `socket_` is
  `conn.socket_`). `ec_` is a Boolean: set or not. `pc` also says how the
  process died (`segv`, `terminated`, `exited`).
* `Sessions` - the abstract specification of a server: the handler calls only.
  `Server` implements it (`SessionsRefined`).
* `Client` (over `Sockets`) - the client's network thread and, concurrently, the
  owner's calls. Both threads touch `conn_` and `ec_` without a lock, so each
  access that the other thread can tell apart is a step: in
  `connection::disconnect` the `::close` and the reset of `socket_`; in
  `connection::connect` the new socket and its assignment; in `resolve`,
  `connect` and `receive` what is assigned to `ec_`, and in the caller its test;
  a close and the call of `on_disconnect_` for it. `send_message`, on either
  thread, is a check of `socket_` (`SendRefused`, `SendChecked`), the `::send`
  (`SendPerformed`) and the test of `ec_` (`SendReported`); which of two values
  of `socket_` reaches `::send`, the checked or the present one, depends on the
  build, so both are allowed. `running_` starts with any value.
* `Ids` - the network threads of several servers, reduced to what they do with
  `next_available_id`: its `++` and `--` are a load and a store each.

The layers below, each with the faults that `Server` and `Client` leave out:

* `Buffer`, `Endpoint` - the two value types as operators; an endpoint's storage
  is a sequence of cells, some of which nobody has written.
* `Connection` (over `Endpoint`) - `connection` and `acceptor` objects as owners
  of descriptors: construction, moves, destruction, `connect` and `open` one
  endpoint at a time, `accept`, with every system call free to fail.
* `Handles` - the abstract specification of ownership. `Connection` implements
  it until the first *lapse* (`OwnershipUntilLapse`).
* `Stream` (over `Buffer` and `PollStatus`) - what travels over open
  connections: `send`, `receive`, `has_data_available`, `poll_group`, with
  partial, blocking and interrupted calls and a `::poll` that fails.

`MCServer`, `MCClient`, `MCConnection`, `MCStream`, `MCIds` are instances for
TLC. The proofs about `Server` are in `ServerProofs` (types, ids, descriptors),
`PollingProofs` (poll set and marks, on top of the first) and `SessionProofs`
(events, data, handler calls, on top of the second); those about the others are
in `ClientProofs`, `ConnectionProofs`, `StreamProofs` and `IdsProofs`.

Operators defined just before a definition and named as a variation of it
(`IdReused`, `EraseSkipped`, `SocketKept`, ...) are slips a programmer could
make there; `mutants` in `PROJECT.json` says which property notices each.

### Decisions that matter

* `running_` is a plain `bool` shared by two threads. Every loop that reads it
  makes calls the compiler cannot see through, so it is reloaded each time, and
  a read returns the last value written.
* A connection that ends with `::recv` returning 0 assigns `errno` to `ec_`,
  although no call set `errno`: the error code becomes set *or clear*. The same
  happens in `connection::connect` when the new socket's number is 0.
* `handle_incoming_messages_` handles poll results in the order of `pfds_`; the
  model takes them in any order, which includes that one.
* `RemoveIf` follows the library's algorithm: moving a `unique_ptr` onto a slot
  destroys what the slot held, and the source becomes null.
* `::accept` fails either because the connection was aborted (it leaves the
  queue) or because no descriptor is free (it stays).
* A peer that closed its side still takes a first message; one that reset does
  not. `POLLNVAL` has no `socket_status`, so such an entry has an empty status.
* `get_endpoint` ignores a failing `::getpeername` and uses the storage as it
  was: such an endpoint compares as anything (`get_endpoint_failed`).
* `receive` disconnects when `::recv` returns 0, also when it only peeks; when
  `::recv` returns -1 the connection stays open.
* An operation that succeeds leaves the `std::error_code` it was given as it
  was. In `Stream` the user passes a fresh one or the last one again
  (`PassesEc`); `server` and `client` pass their `ec_`.
* `on_disconnect_` is a set of marks in `Client`: whether the connection was
  open or closed when it was called. A call with `socket_` still set (a failed
  send) is not a report of a close.
* After a failed `::poll` the entries hold their old `revents`, or none: the
  kernel may have cleared them before it failed. `poll_group::poll` reports
  what it finds.
* The listening descriptor is not a member of `Fds` in `Server`; in
  `Connection` it is a descriptor like every other.

## Runs

| Run | Instance | Shows |
|---|---|---|
| `server_sessions` | 2 connections, 2 bytes each in 1-byte receives, all handler calls | no blocking `::recv`, no lost byte, refinement of `Sessions` |
| `server_removal` | 3 connections and descriptors, 1 of which other code may take, no data, `remove_client` | types; ids unique; sockets owned by exactly one client and other code's descriptors intact; poll set and client vector agree whenever `clients_` is not being compacted; what `::poll` is given is open and a client's; a marked client always finds the flag raised; a client lost without a notice always ends the process; all this in the behaviours that leave nulls in `clients_` too |
| `server_liveness` | 2 connections, no data, fair | a visible `stop()` ends the thread and `~server` returns; failed and removed clients leave |
| `client` | 3 bytes in receives of up to 2, 2 descriptors, fair | `socket_` agrees with the kernel but for the window between `::close` and its reset; a send goes astray only once the connection is closed, and never from a handler; the thread does not go on after a close it has not reported; no `on_disconnect_` on a healthy connection; no gap in delivered data; `disconnect()` ends the thread once the remote has closed |
| `connection` | 2 connections and an acceptor over descriptors 0 to 3; lists of 0, 1 and 2 endpoints | sockets are held once, also after others were lost; endpoints and error codes tell whether there is a connection; refinement of `Handles` up to the first lapse |
| `stream` | 1 connection, a 2-byte message and an empty one, a send queue of 1 byte, fair | bytes received in order, none lost by peeking or failing; a send without error was whole; a clean end of the stream comes with everything received; a report of readability is good until the connection is used; `send` returns while the other end reads |
| `two_servers` | 2 servers, ids up to 4 | ids are unique in the process and never 0 until an increment or decrement races |

The other runs, on the smallest instance that shows it, each violate a statement
of the repository; `findings` quotes it.

| Run | Shows |
|---|---|
| `server_null_client` | `std::remove_if` destroys a client without notice and leaves a null pointer |
| `server_stale_error` | one client's error removes another client |
| `server_lost_stop` | a `stop()` before the thread's first statement is lost |
| `client_delivery` | data, the end of the stream or a reset that is there when the client looks is ignored for ever |
| `client_early_send` | the error of a `send_message` made before the connection is up ends the process, with a connection that could be opened |

Bounds. Two connections are enough for one client to suffer from another's
error, event or descriptor; three are the least for which `std::remove_if`
leaves a null *behind* a client that is still announced, so that a handler can
run onto it. More descriptors than connections change nothing; fewer are the
limit case, which `MaxForeign` reaches. One byte shows loss and confusion;
`MaxBytes > MaxBufferSize` shows several receives. `BacklogSize` stands for 128
and never refuses. Two descriptors in `Client` let other code have the number of
the closed socket, and another one. In `Connection`, four descriptors let both
connections and the acceptor be open beside one lost socket or standard input,
and lists of two endpoints fail on the first and succeed on the second. In `Stream` one
connection is enough because connections share nothing but the calling thread;
a message longer than the queue makes `send` loop and block. In `Ids`,
`IdModulus` stands for 2^64 and lies above `MaxId`, so that only a decrement
below 0 wraps; deadlock is not checked there because nobody may want to connect
any more. Interchangeable connections, descriptors and servers are declared
symmetric in the safety runs; the liveness runs use no symmetry.

Fairness: weak fairness of the network thread (the system schedules it, and
its loops wait only in `sleep_for`), which includes that user handlers return;
of `join` once the thread has ended; and, in `Client`, of a `send_message` under
way. In `Client` the return of a handler is strongly fair: a handler may call
`send_message` any number of times, and still comes to its end.
`Server` and `Client` take it that `::send` does not block for ever; `Stream`
examines that: there a `::send` that can proceed does, and a host that reads
takes what is queued for it, but it may stop reading. Nothing is assumed of the
owner, of what remote hosts send or when they close, or of the descriptors
other code holds. A thread inside `::recv` with nothing to read is *not*
enabled, so `Client` may wait there for ever.

What passes and what does not belongs together:

* `StopEndsThread` and `DestructorReturns` hold for a `stop()` after the
  thread's first statement, `StopIsHonoured` fails for one before it.
* `NoByteLost` and `SessionsRefined` hold, yet clients may be dropped for
  somebody else's error (`OnlyFailedClientsMarked`) and vanish without a notice
  (`RemovedClientsAreNotified`).
* `RemovedClientsAreNotified` fails because `std::remove_if` destroys clients
  that were not reported; `UnreportedClientsStay` holds because the null pointer
  it leaves then ends the process before the server goes on. A fix that only
  skips the null pointer (the operator `NullSkipped`) makes the loss silent.
* The liveness of `Server` holds with as many descriptors as connections. With
  fewer, the accept loop fails for want of a descriptor, the connection stays
  pending, and the thread does not get to the disconnected clients whose
  descriptors it would need.
* `DisconnectEndsThread` needs the remote host's close because the client's
  readiness test is inverted (`RemoteIsHeard` fails): without it a thread in
  `::recv` is out of reach of `disconnect()`, whatever `client.hpp:52` says.
* `running_` of a client may be false from the start, so that `is_running()` is
  false with the thread running, against `client.hpp:59`. The properties of
  `Client` are checked and proved for both values.
* `StraysOnlyAfterClose` bounds a race of the client and does not deny it:
  `send_message` may write to a descriptor that other code has got since it was
  checked, or while `socket_` still names the closed one.
* `ClosedIsReported` is about closes the client makes itself, at the end of the
  stream or of the loop. That the remote host's close gets that far is part of
  `RemoteIsHeard`, which fails. `NoticeHasCause` is the converse: no notice
  without an error, an end or `running_` being false.
* No property says that a process that exits has called `on_disconnect_` before:
  the network thread may find the error of a `send_message` and exit before that
  call of `send_message` has come to its own test of `ec_`.
* `CleanEndIsComplete` is for a `receive` that closes without an error. With an
  error it should close too: `connection.hpp:109-111` and `119-121` promise a
  closed state when an error occurs, and the code leaves the connection open
  when `::recv` returns -1.
* `OwnershipUntilLapse` holds up to a failed attempt on an endpoint, an open
  socket overwritten by a move, a second `connect` or `accept`, or a socket
  numbered 0: each of these loses a descriptor. `SocketsHeldOnce` holds after
  them as well: descriptors are lost, never closed twice.
* `PromisesKept` excepts connections used since the last successful `::poll`,
  which a failed one reports again although `poll.hpp:64` speaks of status
  changes: a receive that trusts such a report can block. The `RecvNeverBlocks`
  of `Server` is for a `::poll` that succeeds.
* `NoErrorMeansConnected` and `EndpointsTellConnection` except a process in which
  a socket got the number 0: that connection is made and lost, maybe without an
  error, although `socket_ops.hpp:9` has 0 stand for a connection that could not
  be opened.
* `IdsUniqueUnlessRaced` is what is left of "unique" with two servers in one
  process; after the race two clients can have the same id, or the id 0.

## Proofs

Every invariant, action property and refinement of the passing runs is also
proved, for every value of the constants that the named assumptions allow. Each
proof is one inductive invariant, checked with TLC on the instances of the runs
before it was proved, with one lemma or step per action; the theorems are listed
in `PROJECT.json`.

Assumptions. `SocketsAssumption`, `ServerAssumption`, `StreamAssumption`: bounds
are natural numbers, special values differ from connections, 0 is not in `Fds`.
`ClientAssumption`: a client has one connection. `ConnectionAssumption`: the
acceptor is not a connection, and no object has one of the names that `Handles`
gives to descriptors without a holder. `AddressAssumption`: what the kernel and
`::getaddrinfo` fill in starts with a family that `endpoint` knows.
`LiteralsAssumption`: the only 0 of a character array is its terminator.
`IdsAssumption`: `MaxId` lies below the wrap-around.

**`ServerProofs`**: `TypeCorrect`, `IdsAreUnique`, `DescriptorsAreOwned`,
`ForeignDescriptorsIntact`. `TypeOK` is not inductive: erasing the tail of
`clients_` needs `result <= Len(clients_) + 1` (`Cursors`). The invariant of the
others, `IInv`, adds that `clients_` has no client twice, that every id is below
`next_available_id`, that a connection in the backlog is not a client yet, and
that the clients the removal loop has passed have closed their sockets
(`TailClosed`; without it `clients_.erase` could drop a client whose descriptor
is open). Ownership and `ForeignIntact` need each other: closing a socket spares
other code's descriptors because the table says the socket is the client's, and
other code's closes spare the clients for the mirrored reason.

**`PollingProofs`**: `PollGroupFollowsClients`, `PollsOpenDescriptors`,
`MarksAreFlagged`. `clients_` and `poll_group_` disagree during
`handle_disconnected_clients_`, so `PollInv` says how far each of its loops has
come: which positions hold clients that are certainly open (`KeptOpen`), where
null pointers can be (`NullsAhead`), that all behind `result` are marked
(`TailMarked`), and which descriptors are still watched (`Watched`). The key is
that a client moved by `std::remove_if` leaves a null that the next loop cannot
get past, so that only a removal that moved nothing reaches the erase. That
descriptors in the poll set stay different follows from `KeptOpen`: while
connections are accepted every client is open, so the kernel returns another
number.

**`SessionProofs`**: `ReceivesNeverBlock`, `NoByteIsLost`,
`ServerImplementsSessions`, `SilentLossIsFatal`. `SessionInv` adds to `PollInv`
that a poll reports a descriptor once, that whatever it reported has something
to return until its turn comes, and how often each handler was called for each
client. `HandledClient` shows that the client found for an entry is the one whose
open socket was reported; the events of the others survive its turn because
descriptors are different. The refinement of `Sessions` then takes the actions
one by one: an accept is an announcement, a receive without an error a delivery,
one turn of the removal loop a notice, and the rest calls no handler
(`NoHandlerCalled`). `StayInv` adds that as long as nothing was moved `clients_`
has every announced client that was not reported.

**`ClientProofs`**: `TypeCorrect`, `SocketIsOwned`, `NoStrayWhileOpen`,
`ClosingIsReported`, `NoticesHaveCause`, `DataWithoutGap`. There is one
connection, and the network thread alone makes and closes it before `join()`
returns; the owner's thread sees every state in between, so `IInv` says what
holds at each control point. `SocketInv` has the two places where `socket_` and
the kernel disagree (`SocketGaps`: before the assignment in `connect`, after
`::close`) and a `send_message` under way, whose checked socket is that of the
connection or has been closed since (`SendsOnOneSocket`). `StartInv` says that
nothing is sent, received or noticed as connected before `socket_` is assigned.
`DataInv` says what `receive` has found (`ReceiveFacts`) and that until the first
error everything received was delivered or is about to be (`AllDelivered`): an
error set by either thread stays until the socket is closed. `NoticeInv` follows
`on_disconnect_`: an empty receive means an error or an end, the loop is left
only when `running_` is false (`EndFacts`), and a thread that finds no socket in
the loop has reported that already.

**`ConnectionProofs`**: `TypeCorrect`, `SocketsAreHeldOnce`, `EndpointsTell`,
`NoErrorIsConnected`, `OwnershipKept`. `IInv` adds what the endpoints of open and
closed objects contain until a socket is numbered 0 (`EndpointsMatch`), from which
`EndpointsTell` follows by the code's comparison of storage bytes, and that no
descriptor is unaccounted for until the first lapse (`NoneLost`), from which the
refinement of `Handles` follows: a successful attempt or accept acquires, a
disconnect or destruction releases, a move transfers.

**`StreamProofs`**: `TypeCorrect`, `ReceivesInOrder`, `PromisesAreKept`,
`SendsWhole`, `CleanEndsAreComplete`. The invariant says how far a `send` has got
(`SendUnderWay`: the wire is what it was plus a prefix of the buffer), that
nothing waits for a closed connection, and that unused entries of the poll group
tell the truth (`EntriesKept`), since a failing poll reports them again. The
lemmas on sequences (`Cut`, `Handover`, `Arrival`, `ReceiveBufferExact`) say that
dividing the bytes among calls keeps them in order.

**`IdsProofs`**: `TypeCorrect`, `UniqueUnlessRaced`. An id that a server has
taken and not used yet is as much in use as a client's: the invariant has both
below `next_available_id` and all different until the first race.

Model-checked only: the liveness properties (`StopEndsThread`,
`DestructorReturns`, `FailedClientsLeave`, `RemovedClientsLeave`,
`DisconnectEndsThread`, `SendReturns`), since fairness is out of the prover's
reach; and the runs that expect a violation, which are counterexamples.

## Not modelled

* API calls of the server made by threads other than the network thread,
  `run`, `stop` and `~server` excepted. Such calls walk `clients_` while it
  changes, which is undefined behaviour with no useful set of outcomes.
* Replacing handlers while a thread runs, and handlers that were never
  installed.
* In `Server`: a failing `::poll` and sends that block (both in `Stream`).
  In `Server` and `Client`: a process in which descriptor 0 is free (in
  `Connection`).
* In `Stream`: descriptors that are closed and used again (in `Server`).
* `send_flags`, which the kernel interprets; of the `receive_flags`, peeking
  is modelled.
* `buffer::zero`, `as<T>` and `str`, and `buffer::operator==`, which nothing in
  the library uses. It returns the result of `std::memcmp` as a `bool`, so that
  buffers of one size compare equal when they differ, against `buffer.hpp:83`;
  one call shows it. Formatting of addresses and endpoints;
  logging; constants, aliases and the umbrella header; the example and tests.

## Plan

1. *Done*: `Sockets`, `Server`, `Sessions`, `Client` and their runs.
2. *Done*: the layers below and the process around them: `Buffer`, `Endpoint`,
   `Connection`, `Handles`, `PollStatus`, `Stream`, `Ids`.
3. *Done*: proofs of all safety properties and of both refinements.
4. Left: the safety half of the liveness arguments (for instance that a stopped
   server admits no further client), and lemmas on `Buffer` and `Endpoint` of
   their own.
