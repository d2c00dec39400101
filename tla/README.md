# Verification of DConf: device communication, bindings and flexible logic

DConf is a Qt program that configures relay-protection devices. It reads a
device's parameters and files over a channel (TCP, a serial port, RS485 behind
either), edits them as a project, compiles user-drawn logic to byte code and
writes everything back. This directory holds TLA+ models of the parts where the
order of things matters, TLC configurations that check them, and proofs.

## The system

| Component | State | Operations | What is hard |
|---|---|---|---|
| `AsyncChannel` (Dpc/.../channel/async) | `m_queue` of replies, `m_isScheduledNext`, each reply's state and error | `exec`, `connectToDevice`, `disconnectFromDevice`, posted `execNext` | signals are calls: slots run in the middle of `finishNext`, `setError`, `onDisconnectedFromDevice` |
| `AsyncTcpChannel` | the socket, a 10 s response timer | `doSendData`, socket slots, `onTimeout` | errors inside `flush()`, a connection attempt that is not wanted any more, answers split or late |
| `AsyncVComChannel` | the port, the timer, `m_read_data` | as above plus packet reassembly | `aboutToClose` while the port is still open, noise, late answers after reopening |
| `AsyncChannelManager` | `m_isConnected`, `m_isConnecting`, pending requests, two file-system queues, the login state, buffer sizes | `exec`, `connectToDevice`, `setChannel`, channel slots | pending requests across failures, login/logout around overlapping file requests |
| Requests (`ReadParamRequest`, `WriteParamRequest`, `MultipleRequest`, file transfer) | progress of a transfer | `run`, chunk callbacks | chunk boundaries, end of data, one step of several failing |
| `Channel` (synchronous) | error state, login, buffer sizes | `read`, `write`, file transfer, update | implicit reconnection, busy device, partial writes |
| Device operations (DConf/device_operations) | current operation, restart flags | read/write configuration, reset, restart, update | failure between steps, restart of the device in between |
| CFC compiler and parser | the logic graph, the byte code | `compile`, `parse` | ordering of nodes, cycles, limits |
| Service manager, signals, services | sources, targets and drivers of signals, the parameters of the elements | `setSource`, `setTarget`, `init` from the parameters | one binding held at both ends, in a parameter and in old tables; setters that call each other |
| Forms of bindings and functions | what may be chosen | bind, unbind, choose a function's input | forms that look at different copies of the same binding |
| Logic editor | the scene's nodes and links, the copy buffer, the pins of the service | add, copy, paste, bind, link, remove, save, close | raw pointers from nodes to pins and links, a copy that shares a pin, removal that leaves pointers |
| Data model, project database | parameter pools, SQLite templates | load, save | mostly data |
| GUI forms, embedded vendored code | widgets | — | not modelled |

Interaction: the GUI starts device operations in a worker thread, one at a
time; they use the synchronous `Channel`. Asynchronous users queue requests with
`AsyncChannelManager`, which connects on demand and turns each request into
calls of `AsyncChannel::exec`; answers come back as `finished()` signals, which
are plain calls in the same thread.


Two sides of the program hold its own logic. One is communication: the channels,
the manager, the requests and the device operations. The other is the project:
signals bound to functions and algorithms, the logic a user draws, its byte code,
and the parameters all of it ends up in. The rest is editing of tables of values
in Qt widgets, containers and conversions.

## The modules

| Module | Models | Extends / uses |
|---|---|---|
| `RequestService` | what an asynchronous channel promises its user (abstract) | |
| `AsyncChannel` | `AsyncChannel`, what every transport shares | instantiates `RequestService` as `Service` |
| `AsyncTcpChannel` | `AsyncTcpChannel`, Qt's socket, the device | `AsyncChannel` |
| `AsyncVComChannel` | `AsyncVComChannel`, Qt's serial port, the device | `AsyncChannel` |
| `AsyncChannelManager` | `AsyncChannelManager`, `IRequest`, the file system requests, with the channel reduced to what `RequestService` promises and the order of its signals | |
| `FileTransfer` | the blocks of a file or of firmware: `downloadFile`, `uploadFile`, `updateDevice` of `Channel` over its `read` and `write`; `DownloadFileRequest` and `UploadFileRequest` over `ReadParamRequest` and `WriteParamRequest`; the device's file and flash | |
| `DeviceOperations` | write, read, set time and restart, `DeviceWidget`'s one operation at a time, the device | |
| `SignalBindings` | the setters of both ends of a binding, the order in which `ServiceManager` loads, what the forms offer and do, the tables | |
| `LogicEditor` | opening a project, the editor's nodes and their pins, the graph file, reading a device's configuration; composes with the forms | `SignalBindings` |
| `LogicCompiler` | the graph in the scene, in its file, and as code; the list of algorithms; a full disk and the end of the program | |
| `MC...` | instances for TLC: the values of the constants | the module of the same name |
| `AsyncChannelManagerInvariants` | the parts of the manager's inductive invariant and the notions its proofs use; no theorem | `AsyncChannelManager` |
| `AsyncChannelProofs`, `AsyncTcpChannelProofs`, `AsyncVComChannelProofs`, `AsyncChannelManagerProofs`, `DeviceOperationsProofs`, `FileTransferProofs`, `LogicEditorProofs`, `LogicCompilerProofs` | theorems and proofs | the modules of the same names; the manager's over `AsyncChannelManagerInvariants` |

### Signals are calls

The asynchronous code runs in one thread, and what makes it hard is that Qt
delivers a signal between objects of one thread as a plain call. `finishNext`
emits `finished()` and the slots of the application run before `finishNext`
returns; they may queue requests, connect and disconnect, which emits further
signals. So the models keep the call stack: `stack` is a sequence of frames, its
head is what runs next, a frame `slot` is application code, and any other frame is
the rest of a function that waits for the call above it to return. An action
takes the code from one emission to the next. The event loop (posted
`execNext`, the timer, the socket's or port's signals) runs when the stack is
empty. `QMetaObject::invokeMethod` with a queued connection (`scheduleNext`) is
the flag `scheduled`, as `m_isScheduledNext` is in the code.

### `AsyncChannel` and its transports

| Code | Model |
|---|---|
| `m_queue` of `ChannelReply*` | `queue`, the numbers of the replies; `reply` holds state, error, request kind and data of each |
| `m_isScheduledNext` | `scheduled` |
| `exec`, `addToQueue` | `Exec` |
| `execNext` | `ExecNothing`, `ExecNotConnected`, `ExecSend`, then `Unanswered` for its last lines |
| `finishNext` | `FinishNext`: pop, post `execNext`, then the slots |
| `setError` | `SetError` (emit `error()`), `ErrorFinish`, `ErrorClose` |
| `onDisconnectedFromDevice` | `OnDisconnected`, then `Drain` until the queue is empty, then `disconnectedFromDevice()` |
| `onReceivedData` | `OnReceivedData`: the answer goes to the head of the queue, whoever that is |

In `AsyncTcpChannel`, `socket`, `pendingClose`, `unflushed` are what Qt documents
of `QTcpSocket` and the code relies on: `disconnectFromHost()` closes at once, when
the buffer is empty, or once connected; `flush()` may find the connection broken
and emit `errorOccurred()` inside `doSendData`. In `AsyncVComChannel`, `close()`
emits `aboutToClose()` while `isOpen()` still holds, so the frame `closed` stands
between the signal and the closed port. `atDevice` and `inbox` or `line` are the
device and the wire: an answer is a piece or two, and one for a serial port that
was closed and opened again may still be under way. A response's contents are
reduced to which request it answers and whether it is whole; the device's return
codes are data to this layer. RS485 over a gate is the constant
`AlwaysResponse`.
An empty read from the socket (`AsyncTcpChannel.cpp:98-101`) and packets too short for their
CRC over the serial port are left out.

### `AsyncChannelManager`

The channel is here a queue `chan` of exchanges, each of which ends once and in order
(what `RequestService` promises, and `ImplementsService` shows of both transports),
with the signals the transports make at the same places: `setError` calls the
manager before it ends the exchange, a serial port connects and disconnects within
the call. An exchange is a whole `ReadParamRequest` or `WriteParamRequest`; one with
`SP_FILE_DATA` stands for all blocks of a file. `fsCtrl` and `fsData` are
`m_fsCtrlQueue` and `m_fsDataQueue`, `login` is `m_fsLoginState`, `session`,
`command` and `file` what the device's file system knows.

Assumed of what is not in the code: the device keeps its file system session when a
connection is lost (if it did not, a command could be sent without a login: listed
under hazards); the application connects to `finished()` before `exec`, executes a
request object once and calls `setChannel` between events, with the old channel
destroyed. The new channel may lead to the same device or to another, where nobody
is logged in (`SetChannel`), while `m_fsLoginState` stays as it was
(`AsyncChannelManager.cpp:62-66`). After it a command may therefore go to a device
without LGIN, and contents may be asked of a file opened on the old channel: what
`CommandsInSession`, `OwnFile`, `NoLostFSRequest` and `EveryRequestFinishes` say is
claimed of applications that keep their channel, and the first is checked and proved
of those only.

### `DeviceOperations`

An operation is a sequence of calls of the synchronous `Channel`. Each is one
exchange: carried out, refused (the device answers with an error: the connection
stays), or broken before or after the device acted. A broken connection is opened
again by the next call (`onSendData`), without a login; what the device then
refuses is covered by refusals, so no state of the connection is kept. The device
has parameters in use and saved ones, files, an archive and the restart flag the
code writes; it may restart at any time and fall back to what it saved.
Configurations are told apart only by where they come from.

`UploadFile` has the outcome that `FileTransfer` shows of `uploadFile` (run `upload_gap`):
when the second write of a block fails, the upload goes on behind the gap and succeeds
(`Channel.cpp:600`). The file is then partial, the operation goes on to save the
parameters, and nothing in the code knows. `op.gaps` keeps the files it happened to, and
`WrittenAsReported` and `MainSavedLast` speak of the other files; that none has a gap is
not claimed. Reading goes on without an archive when the device has none
(`ReadConfigArchive`); an archive that cannot be read to its end is not noticed either
(`QZipReader` takes its status from opening the file alone, `qzip.cpp:711-731`), so a file
it replaces may be the archive's, cut off, or not there (`Unpacked`). Such files are among
those that were reported when they could not be read from the device.

Assumed: the device does not restart between the check of the restart flag and the
end of the saving (`RestartsUnseen = FALSE`; the code cannot tell, see the hazard at
`DcWriteConfigOperation.cpp:410`, and `WrittenAsReported` fails with TRUE); boards
restart only when told to; a board has one parameter, so writing a board is one
exchange; the files to move are those the project names; the order within a
container of parameters or files is any order. Progress, messages and the thread
the channel moves to are left out.

### `FileTransfer`

`task` is the transfer that runs: `api` says whether the synchronous `Channel` or the
requests carry it, `step` where it is, `pack` the block in hand and `done` the bytes moved
before it. An exchange is one action per outcome: `ReadAnswered` with one item or
more, `ReadBusy`, `ReadFails` (an error, or no answer, with the device having moved its pointer
or not), and the same for writing. `Again` is what `downloadFile` does when a block
comes short: sets the pointer back and asks for the whole block once more.
`BlockStep` and `SetProfile` are the 16-bit address of `updateDevice` and the profile
that stands for its upper half. Bytes are their own numbers, so a byte at
a wrong place, a repeated and a missing one are seen in the content.

Assumed of the device: with an answer Good it gives or takes at least one item (the loops of
`Channel::read`, `Channel::write` and of both requests otherwise never end); the size it
tells of a file may be one more than the file has; opening for writing empties the file.
The exchanges before an image's first block (software number, login, header) are one step
each, as is the confirmation. An item is one byte. The count of items in a write
has 8 bits (`CountMod`) and the code does not check that it fits; the buffer sizes it comes from are
16-bit numbers the device tells. The instance keeps a write below `CountMod`.

Seen on the way, and left as remarks:

- of an empty file `downloadFile` reads no block and returns false without raising
  an error, against `Channel.h:128`; `DownloadFileRequest` takes data from a block it never
  got (`DownloadFileRequest.cpp:86`) and the program ends. The model reaches both
  (`result = "crashed"`).
- `updateDevice` uses the software number without a look whether it could be read
  (`Channel.cpp:769`).

### `SignalBindings` and `LogicEditor`

| Code | Model |
|---|---|
| `TargetElement::m_source`, `InputSignal::m_targets` | `bind.source`, `bind.targets` |
| `ServiceOutput::m_target`, `VirtualInputSignal::m_source` | `bind.target`, `bind.driver` |
| the elements' parameters (`bindParam`) | `bind.param` |
| `matrix_signals`, `matrix_alg`, `matrix_cfc` (`SP_...CROSSTABLE` and the archive) | `table` |
| `TargetElement::setSource` | `SetSource`, the new links as a function of the old |
| `ServiceOutput::setTarget` and `VirtualInputSignal::setSource`, which call each other | `SetTarget`, what the calls amount to |
| `ServiceManager::init`, `loadAlg`, `loadCfcAlgs` | `OpenProject`, then `LoadElement` and `LoadNode` in the turn of the code (`Turn`), the order within a turn being any |
| `CfcAlgService::m_ios`, `freePin` | `pin`, `FreePins` (any free pin, instead of the first) |
| nodes BI and BO of the scene and of the copy buffer, with their `bindParam` pointer | `node`, whose `io` is the pin pointed at |
| the XML file of the graph | `graph` |
| `newEditorNode`, `copyNode`, `pasteSelected`, `paintElement`, `onActionBI/BO`, `removeLink`, `removeNode` | `AddNode`, `CopyNode`, `Paste`, `Paint`, `BindNode`, `RemoveLink`, `RemoveNode` |
| `onEditorAboutToClose`, `removeAlgorithm` | `CloseEditor`, `RemoveAlgorithm` |
| `BindingForm`, the form of virtual functions | `EditForms`, from `BindInput`, `UnbindInput`, `BindOutput`, `UnbindOutput`, `EditFunction` |
| `DcReadConfigOperation` after the parameters were read | `ReadConfig` |

The editor is modal, so forms act only when it is closed. Using a null or freed pointer
ends the program (`Die`): what is not stored is gone, and the project is opened
again. `odd` remembers what has happened since the last opening that the properties make
an exception for: a copy saved before it was ever painted, pins that ran out, a node
removed, another configuration read from the device. `kept` remembers the bindings a
project had when it was closed with all of them stored.

The parameters and graphs a device or another program left are small sets
(`DeviceParams`, `DeviceGraphs`), chosen to include two claims of the same virtual
input, a parameter that names an input of the wrong kind, and a pin that does not exist.
In an old project the graph names the same signals as the tables. Analogue signals, names
and the list of functions a service supports are left out.

A remark: that the device gets what the forms show does not hold, and is not claimed.
`setAlgorithmEnabled` fills the pins' parameters from `matrix_cfc` when the editor is
closed, and `compileBindindgs` the others from `matrix_alg` and `matrix_signals` just
before a configuration is written (`DcWriteConfigOperation.cpp:121-153`). No form writes
these tables, though the comments at `DcCustomAlgorithmsForm.cpp:484` ("set the actual
bindings of the algorithm") and `output_signal.h:8` ("setting and resetting bindings edits
the table matrix_signals") say otherwise; so both replace parameters by what an earlier
version stored, until the project is opened again. `ParamFollowsLink` says where that can
happen: whatever is bound, unbound, robbed or loaded takes its parameter along, and
parameter and link part only in a step that changes no link and is neither the editor's nor
the loading's, by the entry of a table, the form of functions or the reading of a
device (`FromElsewhere`).

Left out of loading: a graph file that cannot be read is skipped.

### `LogicCompiler`

`file` and `code` are the graph's file and the compiled `.bca`; `alg` the entry in the
list with its flags; `scene` the nodes and links in the editor, with the links that a removed
node left with its neighbours (`cfc_basic_scene.cpp:498-503`), whose use may end the
program or not. `CompileFile` is `CfcCompiler::compile`: it removes the old code first, then checks;
`Before` is the order of outputs in the compiler's list, `Number` counts along it, and `Feed`
is what `setLinks` writes at each input. `Disk` makes the disk full or writable again at any moment,
and the program may end between any two steps.

Remarks on what the model does because the code does it:

- a second link into a used input is accepted when it is drawn from an output
  (`cfc_scene.cpp:232`); the compiler takes the last (`CodeIsGraph` asks for one of them);
- a link from an element to itself is accepted too; read back, it has no target
  (`cfc_parser.cpp:275-279`), and compiling (`cfc_compiler.cpp:260`), saving and opening the project
  use that null pointer. Opening has by then removed the graph and its code
  (`service_manager.cpp:521`), so the graph is lost; `GraphKept` leaves these graphs out;
- opening a project removes every `.bca`, while the list and the parameter with the
  names of files keep saying compiled and enabled. Hence "enabled, so the code is
  there" does not hold and is not a property; what `CodeIsGraph` says is that code
  which is there, and called compiled, is never that of another graph;
- a short write of the graph goes unnoticed, `createFile` does not check its write, an unlinked
  input is written as -1 and the number of nodes in 8 bits: not modelled.

## What is checked

Every run has a `.cfg` of its name; every property that passes has a faulty variant
of a definition (`...Only`, `...Early`, `...Stale` and the like, beside the
definition they stand in for) under which TLC finds it violated.

| Run | States | Shows |
|---|---|---|
| `tcp_core` | 351,800 | With every fault, the TCP channel ends requests in order, never loses `execNext`, always guards a running request, emits `disconnectedFromDevice()` when it is down, and implements `RequestService`, liveness included |
| `tcp_gate` | 112,564 | Over a gate an answer belongs to the request that gets it (unsplit answers), a request that was not sent never succeeds, the timer runs only for a waiting request |
| `vcom_core` | 764,328 | The same core over a serial port with noise and split answers, and that only one whole answer is taken for one |
| `manager_tcp` | 708,010 | A download, an upload and a command overlap over TCP: login sessions, answers, files, heads of queues that are always served, and the end of every request unless the manager comes to loop (`Stuck`, which the run reaches) |
| `manager_replaced` | 1.88 M | The same requests over a serial port, the channel replaced in between by one to the same or another device: no request ends twice, no answer is read for another's |
| `ops_config` | 9.73 M | Any sequence of operations, with refusals, broken exchanges and restarts: what is reported moved is what moved, but for files uploaded behind a gap, and the device's parameters are saved last |
| `transfers` | 4,966 | Block by block, a download leaves the whole file or none, an upload that succeeds without a warning has put the whole file there where a block is one write, firmware is confirmed only with every byte at its address |
| `bindings` | 357,287 | Forms, editor, loading and a configuration read from the device on the same bindings: both ends agree, a changed link takes its parameter along, nodes keep pins of their own, nothing stays bound that no one can see, a stored project comes back as it was |
| `compiler` | 1.96 M | What is called compiled is the code of the graph on the disk, and a saved graph stays readable, with a disk that fills up and a program that ends anywhere |
| `tcp_unsent_success` | violation | A request that was never sent ends without error |
| `ops_time_protocol` | violation | The temporary synchronisation protocol is saved, with success |
| `upload_gap` | violation | A block written in part counts as written: the file has a gap, the upload ends with success |

The three violations are what the code does against what its comments say; each is
a finding in `PROJECT.json` with the lines.

Three more behaviours were met while modelling and are kept as remarks, not as runs:

- over a serial port `OwnAnswer` does not hold: `AsyncChannel.cpp:131` gives what arrives to the
  head of the queue, so after a timeout and a reopened port the answer to an earlier
  request ends a later one;
- over a serial port not every request finishes: the port says that it is
  disconnected while it is still open, so a request executed from a slot of that signal makes the manager
  connect (`AsyncChannelManager.cpp:101`) a channel that thinks it is connected and
  does nothing; `m_isConnecting` stays set and every later request waits for ever.
  `EveryRequestFinishes` is therefore claimed over TCP only;
- the loop over pending requests (`AsyncChannelManager.cpp:182`) does not look whether the
  connection still stands: when a request that ends as soon as it is started lets a
  slot disconnect, `start()` puts each further request back on the queue that the loop
  empties, and the loop never ends. `Stuck` describes that state, and
  `EveryRequestFinishes` names it as the one exception. `manager_tcp` has two calls of
  connect or disconnect, enough to reach it with its three requests.

The instance `TwoPlain` of `MCAsyncChannelManager`, over a serial port and with
`MaxCalls = 1`, shows the second when the condition on the transport is taken out of
`EveryRequestFinishes`; `WithEmpty`, over TCP with `MaxCalls = 1`, comes to `Stuck` with two requests.

### Bounds

`MaxRequests = 3`: one request running, one behind it that execNext must still be
posted for, and one queued by a slot in the middle of the end of the first.
`MaxConnects = 2`: a connection and the one made after, or during, its loss.
`MaxCalls`, for the serial port, counts connects and disconnects: open, close and
open again are three. Faults are sets of kinds and not counted: each may come
as often as it likes. The manager runs have one request of every kind that shares
a queue, a download, an upload and a control command, so that two transfers
compete for the data queue and three requests for the control queue. `MaxCalls` counts
connects, disconnects and replacements: one leaves a connection unwanted, two
(`manager_tcp`) also bring the loop over the pending requests to a closed connection, three
(`manager_replaced`) replace the channel, connect and disconnect or replace it again.
`ops_config` has two parameters, one of them the clock's
protocol, two boards (symmetric, all its properties are safety), one file
and the archive, so that a loop over each has a first and a last turn
and "some moved, some not" occurs. Operations repeat without bound.

`transfers` has sizes 0, 1, 3, 5 and 7 with blocks of 2 and 3 bytes and writes of 1, 2 and 3: an
empty file, one block, a last block that is full and one that is not, a block in
one write and in two; addresses wrap at 4 (`Wrap`), so an image crosses two profiles.
Transfers repeat without bound. `bindings` has one element of each kind,
two virtual inputs, two pins and two nodes, so that a second claim
to an input, a copy and pins that run out all happen; `MaxEdits = 5` bounds what the
user does between the first opening and the end, loading and reading of devices being
as often as they like; one odd event may happen between two openings. Virtual inputs, pins
and nodes are symmetric, all properties are safety. `compiler` has one BI,
one BO and two elements of one input each: a cycle of two, a fork, a link to itself and a second
link into an input exist; `MaxEdits = 7` changes of the scene suffice to build the
full graph and to remove and link again; saving, compiling, opening and faults are not
bounded.

### Fairness

Weak fairness of: slots return (`AppReturns`), suspended functions go on
(`Resume`), posted `execNext` runs, a running timer ends. All four are the event loop's
and the language's own doing. Nothing is assumed of the application, the peer or
the device: they may never call, connect, accept, close or answer. In the manager,
an exchange the channel has accepted ends (`Answer`, `NotConnected` or `Timeout`),
which `RequestService!Spec` provides, and a connection attempt ends, which the
socket's own timeout does. `DeviceOperations`, `FileTransfer`, `LogicEditor` and
`LogicCompiler` claim safety only: a device may be busy for ever, and the user
owes the program nothing.

Deadlock is not checked where the application may have made all its calls and the
system is at rest, which is a proper end.

## What is proved

Every theorem is about `Spec` and all values of the constants that the module's `ASSUME`
allows; a condition beyond that is an `ASSUME` of the theorem itself and is named
below. An invariant is proved from an inductive one (`IInv` or the like), which TLC
checked on the instances of the runs before.

### Channels

`AsyncTcpChannelProofs`, for every number of requests and connections, every set of request
kinds and every set of faults:

- `TypeCorrect`: `TypeOK` always holds;
- `Fifo`: `FifoOrder`, requests end in the order of acceptance and none is lost;
- `Wakeup`: `NoLostWakeup`;
- `Watched`: `RunningIsGuarded`;
- `Serves`: the channel implements the safety part of `RequestService`
  (`Service!Safety`), each step a step of the abstract one or a stutter;
- `DownWhenTold`: `DisconnectedWhenDown`;
- `TimerWaits`: `TimerOnlyWhileWaiting`, if every request is answered and `flush()` never finds
  the connection broken;
- `OwnAnswers` and `NoUnsentSuccess`: `OwnAnswer` and `SuccessMeansSent`, if every request is
  answered and no answer comes in two pieces.

The conditions are those of the instance `tcp_gate`, and needed: a request without an answer
ends from a timer whose answer may be late, `doSendData` starts the timer after a `flush()`
that has closed the socket, and a second piece is taken for the answer to the next request.

The inductive invariant is `IInv`: `ChannelInv` (types, `FifoOrder`,
`NoLostWakeup`), the types of the transport's variables, and `Guarded`.
`FifoOrder` is needed by itself for the rest: a step that finishes "the head" can only
be related to one request when the queue is known to be the consecutive numbers
after the ended ones, the head alone possibly running. `Guarded` strengthens
nothing but is stated over `Has`, "a frame of this kind is on the stack", whose
lemmas (`HasPush`, `HasTail`, `HasConcat`) say how pushing and returning
change it. The lemmas of `AsyncChannelProofs` are one per function of the shared
class (`FinishNextStep`, `ExecSendStep`, `SetErrorStep`, ...) and are stated
without the transport; the proof of a step of the transport only adds what happens to the
socket, the timer and the stack. `Serves` rests on the invariant and on one lemma per function
of how the states of the replies change (`FinishNextServes`, `ExecServes`,
`ExecSendServes`, `SilentServes`).

The later theorems add to it what an event leaves behind. `Down`: while the queue is
being failed the connection is down. `Timing`: a running timer means that no function is suspended
and the head of the queue waits. `Answering`: at most one request or answer is under way,
and either it belongs to the running head, or the connection is going to be closed
(`WillClose`) before anything else is sent. This is why a late answer finds no one to mistake
it for: a timeout closes the socket, and closing discards what is under way.

`AsyncVComChannelProofs` proves over the same lemmas, for the serial port, `TypeCorrect`, `Watched`,
`FifoAndWakeup` (`FifoOrder` and `NoLostWakeup`), `Serves`, and `Intact`: `IntactAnswer`, with
noise and pieces. For `Intact` it needs `Sent`: everything at the device, on the line and
in the buffer belongs to a request that was sent.

### The manager

`AsyncChannelManagerProofs`, for every number of requests of every kind and every number of
calls of the application, over both transports and whatever connections do:

- `TypeCorrect`: `TypeOK`;
- `ConnectingCorrect`: `ConnectingIsReal`, over TCP and if the application keeps its channel;
- `EndsOnceAlways`: `EndsOnce`, with no condition;
- `NoneLostAlways`: `NoLostFSRequest`, if the application keeps its channel: the login that is
  waited for, the head of the control queue and the transfer at the head of the data queue are on their way;
- `OwnResponseAlways`: `OwnResponse`, with no condition;
- `OwnFileAlways`: `OwnFile`, if the application keeps its channel;
- `CommandsInSessionAlways`: `CommandsInSession`, if the application keeps its channel and no request is a
  `MultipleRequest` without parts.

The conditions are needed. `CommandsInSession` is false with an empty `MultipleRequest`, which
ends within its `exec`: if it was executed while the device was being connected, and a `QUIT` is pending
behind it, a control request that the application executes in its `finished()` starts a login that enters
the channel before that `QUIT`; the `QUIT` then ends the new session and the request's command is sent
without one. TLC shows it over TCP with two control requests and an empty one. Nothing in the
repository creates a `MultipleRequest` of any kind, so the runs have no empty one besides control
requests, and the theorem assumes that there is none. `setChannel` forgets the requests of the channel it replaces, so a
login under way is lost with it, and keeps the login state and the queues, which the new channel's device
knows nothing of; a serial port calls back within `connectToDevice`, where
"between events" has no connection being made.

The inductive invariant is `ManagerInv`, and `DeviceInv` for the last three; their parts are in
`AsyncChannelManagerInvariants`. The manager's functions
call each other through signals, so that most of what has to be known is about the call stack.
`Top` says that functions which do all their work at once are only ever the running one.
The lemma `Shape` says what any step leaves of the stack: the running function calls others on top of it or
returns to what is below (`Calling`, `Returning`), and none of what it calls starts a login, a `QUIT` or
the pending requests, except in the named steps that do just that (`LogsIn`, `Quits`, `Begins`). The
proofs about sessions and about the connection split on its cases instead of the actions.
What a queue's head means is known by counting: `Fly(S)` is how many of the items of `S` are
pending, in the channel, being started or being finished, `Cd`, `Dd` and `Rj` how many wait in
a function that removes them from their queue or reports them. The invariants are a ledger over
these counts.

- `LoginInv`: at most one login is under way, none but while logging in;
- `CtrlInv`: at most one command is under way or ending, it is the head of `fsCtrl`, and there
  is none while `execNextFSRequest` is about to start one; while logged in
  a queue that is not empty has one, or the function that will start it is on the stack;
- `DataInv`: the same of the steps of the transfers, of which one at most is active, and that the
  transfer at the head of `fsData` has a request under way or in `fsCtrl`, or the function that
  will start one is on the stack;
- `EndInv`: a request that waits will end at most once, one that does not wait, never;
- `StartDataInv`, `ChanInv`, `OwnInv`: where the second half of `execNextFSRequest` may be
  suspended, that a lost connection leaves no exchange, and that nothing is below the answer to
  a login.

`NoLostFSRequest` cannot be proved without the whole of it. That the head is on its way needs the count to be exactly one,
hence that no second start is possible, hence where every call on the stack came from. Each
function has a lemma of what it does to the counts (`FinishLedger`, `StepEnds`,
...), whatever the set counted; the proof of a step cites them for the sets of each invariant.

`OwnFile` needs `FileInv`: a transfer whose attributes or contents are under way has its file open.
It holds since what would open or close another is counted in the same `DataInv`. `OwnResponse` needs
`RespInv`, the answer to be read is to the last command the device was given, which a
`QUIT` could break: it is not queued behind the requests but goes straight to the channel. `QuitInv`
excludes it: once logged in a `QUIT` is in the channel only ahead of every command, and
`PendInv` that a pending one has been started by then.

`CommandsInSession` needs to know that a `QUIT` never overtakes, nor is overtaken by, the login after it, in
two queues and in the functions that move requests between them. `SessionInv` says it in three parts:
`OpenInv` (once the login was answered, the device has the session, and no `QUIT` is in the channel),
`OrderInv` (in each queue every `QUIT` is ahead of the login, none is pending while a login is in
the channel, and what is about to be started keeps to that) and `LoopInv` (while connected, a `QUIT` or
a login is pending only within the loop of `onChannelConnected`; without connection or attempt, only
what `onChannelError` is about to end). None of them holds if the connection is lost within that
loop, where `start` keeps what the loop gives it. `Stuck` describes that state, which no step leaves and
in which the channel is empty; the invariant is `Stuck` or the three parts.

### Device operations

`DeviceOperationsProofs`, for any sets of boards, parameters, files and values:

- `TypeCorrect`: `TypeOK`;
- `ReadFaithful`: `ReadAsReported`;
- `WriteFaithful`: `WrittenAsReported`, unless the device restarts unseen (`RestartsUnseen`);
- `SavedLast`: `MainSavedLast`, under the same condition.

The last two speak of the files without those in `op.gaps`, whose upload succeeded with bytes
missing, as `upload_gap` shows of `uploadFile`.

The invariant says for each step of an operation what has been moved so far:
for a read (`ReadInv`), that what is not to do any more and was not reported is the device's, unless
the device restarted meanwhile; for a write (`WriteInv`), that it is in use on
the device as long as the restart flag stands, in use for certain after the flag was looked
at, and saved board after board, the main board last. The condition is the
hazard at `DcWriteConfigOperation.cpp:410`: between the look at the flag and the end of the saving the
program cannot tell of a restart.

### File transfers

`FileTransferProofs`, for any sizes of files, blocks, writes and addresses (the sizes have
a largest one: they are 32-bit numbers in the code):

- `TypeCorrect`: `TypeOK`;
- `Downloaded`: `LocalWholeOrGone`;
- `Uploaded`: `UploadedWhole`, if `UploadsFit`;
- `Updated`: `FlashIsImage`, if `UpdatesFit`.

A download keeps `Stored`: the bytes stored, followed by the block in hand, are the beginning of
the device's file and its pointer is at their end, also while `Again` sets the pointer back.
An upload keeps that the device's file is the first `done + count` bytes (`UploadInv`), an update
that the flash holds each of its bytes at its address (`Placed`), that they are the first
`done + count` ones, and which profile they went to (`Set`, `ToSet`): a block never crosses the wrap of
the 16-bit address because the wrap is a multiple of the block (`Room`).
`UploadsFit` and `UpdatesFit` say that the number of items in one write fits its 8 bits. Firmware
is written in blocks of 0x80, so `UpdatesFit` holds in the program; for uploads the sizes come
from the device, with 16 bits, and the code does not compare them with the field:
`UploadsFit` is a condition on the device.

### Bindings and the logic editor

`LogicEditorProofs`, for every set of outputs, algorithms, functions, pins, signals and nodes,
every parameters and graphs of a device and any number of edits (the kinds of elements are
distinct; a device has more than flexible logic):

- `TypeCorrect`: `TypeOK` always holds;
- `BothEnds`: `LinksAgree`, the two ends of every binding say the same;
- `ParamsFollow`: `ParamFollowsLink`, a changed link changes its parameter alike, and parameters leave
  their links only where they are written from elsewhere;
- `PinsOwned`: `OwnPins`, if `GraphsOwn`;
- `NoGhosts`: `NoGhostBindings`;
- `Orphaned`: `OrphansOnlyFromLogic`;
- `BindingsKept`: `KeepsBindings`.

`LinksAgree` is not inductive. A pin can be an input of the algorithm, with a source, or
an output, with a target, and is in both `Targets` and `Drivers`; were it ever bound both
ways, unbinding it as one would leave the parameter naming the other. So the invariant
`IInv` adds `OneWay` (only a pin that is an input in `m_ios` has a source, only an
output a target) and, because the editor reaches pins through the pointers its nodes hold, `NodePins`
(what a node holds is of the node's kind). The lemmas are in
three layers: what each setter does to any bindings that agree (`SetSourceKeeps`,
`SetTargetKeeps`, with the driver that is robbed), what each operation composed of
setters does, and one lemma per action. `Follows` is proved along with the invariant, for the parameter is
right only because the setter's nested calls reach every element whose link changes.

`OwnPins` needs to know the files. `OwnInv` says of the graph file, of a file being loaded
(`FileInv`: what is not loaded yet finds its pin free) and of the nodes of the editor that no pin
belongs to two. `GraphsOwn` asks the same of the graphs that devices bring: one that this program saved
numbers all its pins, distinctly; one of an earlier version numbers none. `GhostInv` says which node stands
for a bound pin (`Stands`): one of the scene while the editor is open, one of the graph file
while it is closed, a loaded one in between. `Orphaned` rests on what each setter does to the drivers
of inputs (`SetSourceLeaves`, `SetTargetLeaves`). `BindingsKept` is the longest argument. While a project
loads, what was stored still names the bindings that are to be kept (`Stored`), each input
having one driver, so that no element, when its turn comes, takes an input from one that was loaded
before; what is loaded is bound as before and the rest is not bound (`Remade`).

### The logic compiler

`LogicCompilerProofs`, for any nodes, any number of inputs of an element and of edits (a file that is
missing or cannot be read is not a graph):

- `Invariant`: types, and the three parts named below;
- `CodeFollows`: `CodeIsGraph`, whatever was edited, saved, compiled or lost since;
- `KeptReadable`: `GraphKept`;
- `DiesOnlyOfFatal`: a step that ends the program finds a link that joins a node to itself, on the disk or in
  the scene, or a pointer to a deleted link (`Fatal`). Nothing else that is edited, and no full disk, ends it.

`CodeIsGraph` is about two files and a flag, and says nothing of what the steps between a compilation and
the next do. Its inductive form is `CodeInv`: code that is there and listed as compiled is
`Number` and `Feed` of the graph file as it is now. What makes it hold is that everything that writes the
graph removes the code, and that a new algorithm of a name begins as not compiled. That such code
is right is then a fact about graphs alone. `BeforeOrders`: `Before` is a strict total order of the outputs of
a graph, of nodes BI by pin and of elements by their place in the file. So the outputs before one are a
strict subset of those before a later one (`NumbersRise`), no two have the same number
(`NumbersOwn`), and an input that several are linked to has the largest of their numbers
(`MaxOf`, `FeedIsLinked`), which is not the -1 of an input without links.

`GraphKept` needs `FileInv` and `SceneInv`. A save breaks the file when a link in the scene lacks a socket.
Such links come from files only, and from graphs that link a node to itself:
for every other link of a sound graph (`Sound`: each node once, no link without its nodes) both nodes are found
(`LooseAreSelf`). So the invariant says that a link of the scene without a socket joins a node
to itself, and that the file, while it can be read, has that link too: it is the one that was opened,
since a save from such a scene leaves none. Every edit must keep the scene sound
(`EditKeeps`); removing a node takes out its links and its place in the list, which leaves the others
as they were (`NodesRemove`). `DiesOnlyOfFatal` rests on the same parts: what the compiler and the saving use
without a look is a link without a socket, which by `LooseAreSelf` joins a node to itself.

### Only model-checked

Liveness (`ImplementsService` beyond its safety, `EveryRequestFinishes`), which is out of
the prover's reach like anything with ENABLED. The properties of the three violated runs are false, and
their counterexamples are TLC's.

## What is not modelled

`PROJECT.json` lists every component with its reason. In short: packet coding,
ASCII and CRC, parameter packs and conversions are pure functions of bytes; the
data model, reports, journal, file lists, templates and protocol settings forms are
data and widgets; SQLite, QZip and RapidXML are vendored. What a device does on a
factory reset or with the session of a broken connection is not in the repository.
`MultipleRequest`, the geometry of the editor and elements that gain and lose inputs,
the layout of the byte code with its limits and checksum, the loop of an update over the boards,
and analogue signals are parts of modelled components that the models leave out.

## The plan

What would add most next, in this order:

1. `MultipleRequest`: serial and parallel execution with each policy; it ends
   after its last part and once.
2. That a transfer of `FileTransfer` is one exchange of the manager's model, as a refinement.
3. `DcResetOperation` and the loop over boards of `DcUpdateDeviceOperation` added to
   `DeviceOperations`.
4. The limits and the layout of the byte code, against what the device is documented to read.
