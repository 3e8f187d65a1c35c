# Verification of capnzero

capnzero generates RPC and publish/subscribe code from an interface
description (TOML). A generated client talks to a generated server over
ZeroMQ with Cap'n Proto payloads; there is a C++ backend (`scripts/cpp`), whose
output is self-contained, and a Python backend (`scripts/python_backend.py`),
whose output drives the classes of `python/capnzero/runtime.py`.

This directory holds TLA+ models of the running system, the TLC configurations
that check them on small instances, and proofs for all instances.

## The system

| Part | State it keeps | Operations |
|---|---|---|
| Python RPC client (`runtime.Client`) | a DEALER socket or `None` | construct, `_call`, `close` |
| C++ RPC client (`client_transport_inl.py`) | a DEALER socket | construct, one function per method, destroy |
| Python RPC server (`runtime.Server`) | a ROUTER socket, the handler table | construct, `process_request`, `close` |
| C++ RPC server (`server_cpp.py`) | a ROUTER socket, one interface object per service | construct, `processNextRequest`, `processNextRequestAllNonBlock` |
| ZeroMQ | pipes of a DEALER, queues of a ROUTER per connection | connect, send, receive, reconnect, linger |
| C++ threaded signal client (`client_cpp.py`) | callback members, termination flag, a PAIR to its receiver thread, a SUB socket | `StartThread`, `onX`, destroy; the receiver's loop |
| C++ signal client | callback members, a SUB socket | `onX`, `handleIncomingSignal`, `handleIncomingSignalAllNonBlock` |
| C++ signal server | an XPUB socket, subscription callbacks | one emitter per signal, `registerX`, `handleAllSubscriptions` |
| Python signals (`runtime`) | callbacks by topic; subscription callbacks | `_on`, `poll_signal`, `_emit`, `on_subscribe`, `process_subscription` |
| Qt clients (`qobject_client_cpp.py`) | a cache per property | property setters, `xChanged` handlers |
| Example event loop (`tests/TemperatureQt/utils/FdSet.cpp`) | an epoll set | add, remove, `Select` |
| Compiler (`capnzeroc.py`, `normalization.py`, `model.py`) | the interface description | lower properties, number methods, render with one backend, write |
| C++ backend (`scripts/cpp`) | the files rendered so far | one function per file: headers, sources, transport, server, Qt client |
| Python backend (`python_backend.py`) | the names that are taken, the tables of methods and signals | render each enumeration, method and signal; refuse |
| Field conversions (`runtime.Field`, `Payload`; generated C++) | nothing | encode and decode arguments, results and signals |

How they interact. A client sends a request, one frame of coordinates (service
and method number) and at most one of payload, over its DEALER. The server's
ROUTER queues requests per connection; the serving loop takes one, runs the
handler in the same thread, and answers it if the method returns something.
**No frame carries a request id**: the first reply a waiting client receives is
the result of its call. A method without a return (one-way) is never answered
and never acknowledged. Signals go from an XPUB to SUB sockets that subscribe
to topics by prefix. A property of the interface is lowered to a setter method,
a toggle method and an `xChanged` signal; the server's subscription callbacks
publish the initial value.

What is hard:

* a reply that comes late, after a timeout, a broken connection, a restart or a
  handler that threw, must not be taken for the answer of a later call;
* a request may be lost anywhere, but must not run twice or out of order;
* one-way calls leave nothing behind at the caller that tells their fate;
* the threaded signal client shares plain `std::function` members between two
  threads without a lock, and its termination is a flag plus a message;
* generated peers of different languages, or of different versions of the
  interface, read the same frames with different code, and convert the same
  values with different code;
* the name of one generated entity is computed in several functions, for its
  declaration, its definition and its uses, which must agree for every interface.

The hazards, each at the line where it bites, are in `PROJECT.json`.

## Modules

| Module | What it is |
|---|---|
| `Idl` | The methods of an interface, by the kind of their return, and how often a server of each language answers one. |
| `RpcLinks` | External: ZeroMQ's DEALER/ROUTER as the code uses it. |
| `RpcClient` | The Python and the C++ client: calls, replies, timeouts, exceptions, closing. |
| `RpcServer` | The Python and the C++ server: one request at a time; stop and restart. |
| `RpcSystem` | Clients, connections and server together; fairness; the properties; the inductive invariant; the refinement. |
| `RpcContract` | The abstract specification: a call begins, is run at most once, and returns its own answer or raises. |
| `RpcProofs` | The theorems about `RpcSystem`. |
| `MCRpc` | Its small instances. |
| `SignalThread` | The two threads of `ClientSignalsThreaded` with PAIR, SUB and publisher. |
| `SignalThreadProofs` | The theorems about it. |
| `MCSignalThread` | Its small instances. |
| `PubSub` | External: ZeroMQ's XPUB/SUB as the code uses it. |
| `PropertySync` | The values of properties at the server and in the clients' caches, through changes, late subscriptions, full pipes, broken connections and restarts. |
| `MCPropertySync` | Its small instances. |
| `PropertyRegister` | The abstract specification of a property: a value that changes, and readers that never go back. |
| `PropertySyncProofs` | The theorems about `PropertySync`. |
| `Framing` | How each server gets from the frames of requests to handlers, for senders of any version of the interface. |
| `SignalFraming` | How each client gets from the frames of signals to callbacks, likewise. |
| `Wire` | Both sockets side by side. |
| `FramingProofs` | The theorems about `Framing`, `SignalFraming` and `Wire`. |
| `MCWire` | The pairings of peers that are checked. |
| `Codec` | The conversions of values in one exchange, in all pairs of languages. |
| `CodecProofs` | The theorems about it. |
| `EventLoop` | The Qt examples' event loop over the descriptors of ZeroMQ sockets. |
| `EventLoopProofs` | The theorems about it. |
| `MCEventLoop` | Its small instances. |
| `Lowering` | From an interface's tables to numbered methods and signals. |
| `LoweringProofs` | The theorems about it. |
| `MCLowering` | Its small instances. |
| `PythonBindings` | The names of the Python backend and what it refuses. |
| `CppNames` | The functions of the C++ backend that make names. |
| `CppBindings` | The files of the C++ backend: what each includes, declares, defines and uses. |
| `Generator` | The compiler: both backends and the writing of what they rendered. |
| `GeneratorProofs` | The theorems about `Generator` and the bindings of both backends. |
| `MCGenerator` | The interfaces that are checked. |

The first four run as one system: `RpcLinks`, `RpcClient` and `RpcServer` extend one another
and each own their variables; an action of a client or server is the conjunction of what it
does to its own variables and one operation of `RpcLinks`.

### RPC: correspondence with the code

* A request is a record of the call's number and its method. The number stands
  for the arguments and lets the properties tell calls apart; no action of a
  client or server decides anything by it. A reply is the number of the call
  it answers.
* `link[c]` is the connection a client's socket has. ZeroMQ's ROUTER gives every
  connection a new routing id, so a reconnect takes a new number; the ROUTER
  keeps what it received from a connection that is gone (`inq`) and drops replies
  to it.
* `_call` has two steps: `PyCall` up to `send_multipart`, then `PyReturn` or
  `PyTimeout`. Between them everybody else runs. `PyTimeout` may happen with the
  reply already in the socket's way, for poll's clock is not the model's.
  `timeout_ms` itself is not modelled.
* `PyServe` is the whole of `process_request`. It is one step because only the
  server's thread touches the ROUTER, and a client cannot tell when inside the
  handler its request was run. A handler (or the encoding of its result) that
  raises leaves the request consumed and unanswered.
* `CppServe` is `processNextRequest`. A native handler answers through the writer
  it is given, as often as it likes: `NativeWrites` says how often it may.
* `Misread` is a reply that a waiting client takes and cannot use: too many frames, or a
  payload that does not decode (`runtime.py:138-140`; in C++ the reader throws). The call
  raises, the reply is gone, and the socket stays. It is one of the faults.
* Argument errors and full pipes raise before anything is queued, and leave the
  state as it was; they are not steps. Frames that do not fit the interface are
  the subject of `Framing`.
* `Interrupt` is any exception other than the timeout that leaves a blocked
  call; it is a fault of its own, and the properties below about replies are
  claimed without it.
* What a call's arguments and results go through is the subject of `Codec`.

### SignalThread: correspondence with the code

The application thread walks through `onX` (test, assign, send) and the
destructor (store, send, join), the receiver through `signalReceiverThreadFn`. The
constructor of the class itself starts no thread, that of the derived `Client` does
(`client_cpp.py:85-91,214,229`): `Init` allows for both, and nobody need call
`StartThread`. Without a thread the PAIR has no peer and the first send blocks.

A `std::function` assignment takes time: it lasts as long as the thread is in
`"assign"`, and the dispatcher reads the member in `"dispatch"`; both at once for
one topic is the data race (`Racing`). What the dispatcher finds then is undefined: the
member as it was or as it will be (`Dispatch`), or half of each, which ends the process
(`CallHalfAssigned`). A PAIR without a peer, or a full one, blocks its sender.

`Matches` says which topics a subscription lets through, for ZeroMQ matches prefixes, and
nothing in the generator keeps one topic from being the beginning of another. So the properties
say where the race and the unset callback are: only at a topic that begins with one that
was registered before (`RacesNeedPrefixes`, `DispatchFindsCallback`). That they do
occur there see under "Disagreements".

### PropertySync: correspondence with the code

* A property's value is the number of values it went through, so that "older" and
  "newer" can be said; a restarted server starts with values of its own, which
  count as newer.
* `SetValue` is a setter of the example servers: compare, assign, emit. A setter
  called with the present value does nothing and is not a step.
* `HandleSubscription` is `process_subscription` and one round of
  `handleAllSubscriptions`. Both ignore unsubscriptions, which are left out.
* A reconnecting subscriber sends its subscriptions again, in any order; ZeroMQ keeps them
  in a tree.
* `Stored` is the dispatch by exact topic of `poll_signal`, of `handleIncomingSignal`
  and of the Qt client's `connect`s, and the storing of the value.
* `dropped` is a ghost variable: the topics whose last signal found the subscriber's
  pipe full. The properties below make an exception of them, because nothing in
  the code repairs that.
* A client object that is destroyed looks like one whose connection is never made
  again, and is left out. Properties whose server has no subscription callback
  (`enabled` and `uuid` in `TemperatureQt`) are not in `Announced`.

### Framing: correspondence with the code

A frame is a record of its kind and the request it belongs to. `PyProcess` takes a
message as a whole, as `recv_multipart` does; `CppProcess` takes as many frames as
the server's own interface says. A C++ server that is out of step reads a payload as
coordinates (any method) or a route: that is five bytes, too short for a Cap'n Proto
message, and the reader throws (`CppThrows`); the serving loop is taken to catch it.
What the properties claim of a C++ server they claim for senders that differ
in methods without parameters only (`Compatible`), because with others it does lose its
step; nothing in the repository promises that versions mix.

`SignalFraming` is its counterpart at the other socket. `PyHandle` takes whole messages;
`CppHandle` and `QtHandle` a key and, if their own interface says so, a payload. A key
that equals none is passed over. A key that is received as a payload goes to
`FlatArrayMessageReader` and `getRoot` (`client_cpp.py:22-23`, `qobject_client_cpp.py:54-55`),
which throw: `Misread`. In the receiver thread of `ClientSignalsThreaded` (language
`"threaded"`) nobody catches that and the process ends; in the other clients it leaves the
function that handles signals, and `Throws` lets the caller end or go on (`running`). So
do the errors of `poll_signal`. The callback is never reached in these steps, and
`CallbacksMatch` needs no assumption on the peers' versions. `LossIsLocal` says what is lost:
the signal they disagree about and the one behind it, and the client itself only after such a
signal. A native payload's reader is not asked for its root here; the model is about
payloads of generated types. The Qt client emits its Qt signal in any case, the
others look for a callback. `Wire` runs either socket; a behaviour uses one, since they
have nothing in common.

### Codec: correspondence with the code

One exchange: `Send` is `encode_arguments` or what the generated C++ does in its place,
`Receive` is `decode_arguments` with the call of the handler or callback, `Answer` and
`Take` are `encode_result` and `decode_result`. A field's value is its declared type and
what tells conversions apart: an enumerator the other version of the interface may lack,
a text that has a NUL, Data of the declared (not empty) size or another one, base64 or
bytes. A conversion is the set of its outcomes: none if it raises, several where the
libraries' versions differ (Cap'n Proto's and Qt's conversions of texts with a NUL),
`Undefined` where the C++ has no defined behaviour: a view of n bytes over a payload of
another size, and a copy of a result into a value of another size, guarded by an `assert`
only. What the C++ compiler rules out (`Data<n>` of another size, a result of type `Span`)
is not passed. Native messages are bytes nobody looks at, and are left out; numbers,
which every language takes as they are, too.

### EventLoop: correspondence with the code

`told[s]` are the messages ZeroMQ told the socket of, by a command in its mailbox; the
descriptor is readable while there is one. `ready[s]` are the messages the socket holds.
Reading `ZMQ_EVENTS`, receiving and sending process the commands, that is, move `told` to
`ready`. `Select` is `epoll_wait` and its dispatch loop, `Handle` and `Drained` the rounds and
the end of `processNextRequestAllNonBlock` and `handleAllSubscriptions`. `emitting` says which
handlers of a program send signals; in the example server the timer and the setters do. A send
*may* process commands (libzmq does so at times only): `Emission` is what it may do to the
XPUB. `overtaken` is an auxiliary variable: a handler's send took notice of subscriptions that
no drain loop has looked for since. All programs are checked, those whose handlers send among
them.

### Lowering: correspondence with the code

A name is a word in a form: declared plainly, or made by `set`, `toggle` or `Changed`.
`lowerfirst` and `upperfirst` are what makes `Active` and `active` derive the same names.
`ExpandShorthand` is the first loop of `expand_properties`, `LowerProperty` the body of
the second one, `Build` the numbering in `build_protocol`. What a declared method takes
is left opaque.

### PythonBindings: correspondence with the code

A name is a sequence of words and a style, so that `getValue` and `get_value` differ and
become the same Python name. `interface` is what `render` walks through: enumerations,
then each service's methods and signals. `clash` stands for two fields, parameters or
members of one declaration that become one Python name. The topic of a signal is made
from names, not from Python names, as in `wire.py`. `Blank`, the empty word, is what stands
between two underscores, or beside one at either end of a name. A service is one word in
small letters. `ResultClass` keeps apart what the code does: the result class of `get_value`
is `Get_valueResult`, that of `getValue` `GetValueResult`, and a service's name is put in front
before (`DevGet_valueResult`), while the main service's `dev_get_value` gets `Dev_get_valueResult`.
`Keyword` stands for Python's keywords and `self`, which the code treats as
one more; `None`, `True` and `False`, which begin with a capital letter, are left out.

### CppNames and CppBindings: correspondence with the code

A name is a sequence of words, each with or without a capital letter; `__`, and the
service `_`, are words of their own, so that a service-qualified name can be told from, or equal, a
plain one as in C++. The words are those of `Vocabulary`; an entity's name begins with a
letter. `CppNames` has one operator per function of `scripts/cpp` and
`wire.py` that makes a name. `Render` renders one file after the other, in the order of
`backend.py`; of each file the model keeps what it includes, what it declares and
defines, and what it uses: with the entity of the interface it is made of, its scope, its
name and the kinds of its parameters. A use resolves if the file, or one it
includes, declares that name for that entity. What a file declares, defines and uses are sets with
names of their own (`ClientDeclares`, `ServerUses`, ...). The members that a class has for every
interface are declared too (`ClientAlways`, `FixedOfSignals`, `QtAlways`). A native message has two
shapes, a builder for who sends it and a reader for who receives it. `Raises` is where the
backend itself raises. `Normalized` lowers properties with
`Update`, as in `Lowering`. The text between the names, the order of declarations
in a file and enumerations are left out.

### Generator: correspondence with the code

`generate` renders with the backend of its language and writes the files if nothing was
raised; `FailCpp` is the C++ backend raising, after which no file is there. The variables of
the backend that is not asked keep their initial values.

## Runs

| Run | Instance | What it shows |
|---|---|---|
| `rpc_calm` | C++ server; a Python and a C++ client; a value, a one-way and a native method; no faults; fair | Every call ends; on a connection the calls before a returned one have run, one-way calls included; one-way calls of a C++ client run even if it is destroyed at once. |
| `rpc_faults` | Python server; every fault, replies that cannot be read among them; fair | A request is in one place, runs at most once and in the order of its connection (`OrderInv`, the inductive invariant); Python calls end whatever happens. |
| `rpc_replies` | C++ server; stop, break, raise, misread; native handlers answer once or not at all | Every call returns its own answer; the inductive invariant; the contract is implemented. |
| `rpc_interrupt` | Python server; interrupts | Expected violation: see below. |
| `signal_thread` | three signals, the topic of one the beginning of another's; an object that starts with or without its thread; fair | Races on callbacks, and signals without one, only behind a registered prefix; registrations take effect; the receiver leaves its loop; nothing runs after the destructor. |
| `signal_destructor` | two signals with unrelated topics; fair | Expected violation: see below. |
| `sync` | a Qt and a Python client; two properties, one topic the beginning of the other, one announced; fair | A subscribed client has the value, or it is under way, still to be answered or was dropped; the system implements `PropertyRegister`: nobody goes back to an older value or knows one the server never had; when changes end, every client comes to have it. |
| `framing` | requests: servers of both languages, senders of the same interface, with one void method more, and with parameters added and removed; signals: clients in Python, C++ (with and without the thread) and Qt of the same, an older and a disagreeing version, one key the beginning of another | No handler or callback runs on frames of another message; what both sides understand runs, in order; a signal the peers disagree about costs itself, the next one and, where the exception is not caught, the client, and nothing else does. |
| `codec` | all pairs of languages, calls and signals with up to two fields | What arrives is what was passed; what ends an exchange early is a value that is not of its type. |
| `event_loop` | ROUTER, XPUB, timer; every choice of handlers that send signals; fair | Requests are never forgotten, whatever the handlers send. Subscriptions are forgotten only if a handler's send came between their arrival and `epoll_wait`, and then only until the descriptor is readable again. |
| `lowering` | two words in both cases, two properties, two methods and signals declared in every order | Numbers stay, names are unique, the last property decides. |
| `bindings` | Python: up to three declarations of names that come close to one another; C++: up to three entities of two services and properties | What the Python backend accepts is complete and hides nothing, what it refuses is ambiguous; every name in the C++ and Qt files resolves but for five named cases, every declared method is defined once, names clash only where the interface's do, the classes' own members included. |

Bounds. Three calls and three connections are enough for a late reply to meet
a later call, for a request to be left behind on a connection that broke while
its successor is used, and for a third client object to reuse a closed one's
place; a pipe of two messages fills up. `rpc_interrupt` needs two calls;
`rpc_faults`, with every fault at once, has two connections (what it says of safety is
proved for any number). `MaxCalls` and `MaxLinks` appear in the guards of `SendCall`,
`Connect` and `Break` only. In `SignalThread` the pipes hold two messages, so that they fill up
before the receiver looks; of its three topics one is a prefix, one begins with it and one is
unrelated. In `PropertySync` `SubWater = 2` lets a pipe fill up, two values
are enough for an initial value to race with a change, and `MaxBreaks = 1` allows one
broken connection or one restart in the middle of anything.
Five requests in `Framing` put two messages behind one that shifts the server. Four
signals in `SignalFraming` put two behind one that shifts the client and the one that it
takes for a payload. Three
arrivals in `EventLoop` are one that is handled, one that is held and one that is
told. Two properties in `Lowering` are enough to derive the same name twice; in
`PythonBindings` two names collide, and a third declaration may stand before or after
them or be of another service; in `CppBindings` likewise, a third entity being the service
or the property that makes a file include another one. Two fields in `Codec` are one
that converts and one that does not. Deadlock is not checked: a system whose calls are used
up, or whose objects are destroyed, stops.

Fairness. Weak fairness of ZeroMQ's I/O thread, of each link at the server (the ROUTER queues
fairly and the serving loop goes on after an exception), of reading a reply that is there, of
the Python timeout (poll ends) and of restarting a stopped server. Nobody has to call, connect
or close. In `SignalThread` both threads take their own next step; the application has to
start the thread, register and destroy nothing, and what is said of the receiver is said once
there is one. In `PropertySync` the serving loop goes on receiving subscriptions, clients go
on polling, ZeroMQ delivers and a stopped server is restarted; the loops of the examples and
of the documentation poll for ever. In `EventLoop` only the loop's own thread is fair: nothing
need arrive and the timer need not expire.

## Disagreements between the code and its comments

* `rpc_interrupt`. `runtime.py:132` says a late reply must never become the next
  call's result. The socket is closed on the timeout only: after an exception
  of another kind (a `KeyboardInterrupt` the application survives) the next call
  returns the reply of the abandoned one.
* `signal_destructor`. The destructor of `ClientSignalsThreaded` stores the flag,
  then sends the message that is to "quit signal thread loop"
  (`client_cpp.py:96`). A receiver that reads the flag in between closes its end of
  the PAIR first; the send then has no peer and blocks for ever.

Things the properties make an exception of, each by a definition of its own:

* `RacesNeedPrefixes` and `DispatchFindsCallback` except topics that begin with a registered
  one (`BehindPrefix`). With signals `mode` and `modeChanged`, `onMode` subscribes to `mode`,
  ZeroMQ delivers `modeChanged` as well, and its dispatch reads `m_modeChangedCb`
  (`client_cpp.py:38`) while `onModeChanged` assigns it (`client_cpp.py:199`). No lock or
  atomic is between them: a data race on a `std::function`. The runtime's subscribing to
  topics as they are (`runtime.py:158-159`) and `tests/python/test_runtime.py:53` expect such
  prefixes, and the dispatcher's `if(m_xCb)` is for the signals that come that way without a
  callback.
* `SubscriptionsHandled` and `NothingForgotten` except what is `overtaken`, and the example
  server is a program where that happens: a signal sent by the timer's or a request's handler
  between a subscription's arrival and the next `Select` takes notice of the subscription; the
  descriptor is quiet and the subscription, with the initial value its callback would publish,
  waits until something else wakes the socket. `SubscriptionsHandled` shows that it waits no
  longer than that, and without the exception TLC finds the lost one. Calling
  `handleAllSubscriptions` after every `Select` would be enough.
* `TopicsDistinct` excepts signals of a named service that are called like a Python keyword,
  or whose service is. The main service's signal `dev__class` and the service `dev`'s signal
  `class` get different Python names and one topic, and are accepted; a client keeps the last
  callback. `docs/python.md:36` says "Ambiguous generated names fail clearly."
* `NamesResolve` excepts five cases. `CommaAlone`: a method with a native return and without
  parameters is declared with a comma that nothing precedes (`client_h.py:40`) and its handler
  called with one (`server_cpp.py:98`), whereas its definition has none
  (`common_client.py:65`); `Readme.md:24` says that a void input can simply be omitted.
  `Unbound`: the generator finds the property of a signal by the signal's name without
  `Changed` (`qobject_client_cpp.py:105`); since that name begins with a lower-case letter, a
  property `Active` is never found and its cache never changes, although `Readme.md:7`
  promises property bindings. `LosesCapital`: an rpc `Reset` of the main service is declared
  in Qt's classes as it is (`qobject_client_h.py:49`, `common_client.py:211`) and defined as
  `reset` (`common_client.py:57`, which a comment calls a dirty hack). `WrongMessage`: a
  native signal is declared in Qt's classes with a `::capnp::MessageBuilder&`
  (`common.py:139-140`) and emitted with the `FlatArrayMessageReader` it came in
  (`qobject_client_cpp.py:67-70`). `NoValue`: a signal named like a property is taken for the
  one the property is lowered to, and its value is called `val`
  (`qobject_client_cpp.py:111-123`), whatever the signal calls it. If it has no parameter at
  all, `arguments[0]` raises an `IndexError` (`qobject_client_cpp.py:108`) and nothing is
  generated, not for Qt and not for anybody (`FailCpp`). `DefinedOnce` excepts the first and
  the third of them.
* `EndsForCause` names two causes of undefined behaviour. A Qt client does not check the
  size of what it passes as `Data<n>`, and a C++ server's view spans n bytes over whatever came.
  A result of type `Data<n>` is copied into a QByteArray, which is empty: the assertion
  in front of the copy (`common_client.py:118,135`) fails for every such result, and without
  assertions the copy is out of bounds. The interface of the web channel example has one.

## Proofs

`RpcProofs` proves for all sets of clients and methods, all return kinds, both
server languages and all bounds:

* `TypeCorrect`, `RequestsKeepOrder` (`OrderInv`), and from it `HandlersRunAtMostOnce` and
  `ConnectionsKeepOrder`: under every fault.
* `InvariantHolds`, `RepliesMatchCalls`, `SystemImplementsContract`: assuming
  `WellBehaved`, that calls are not interrupted and native handlers write at
  most once.
* `EarlierCallsHaveRun`: assuming `Steady`, that besides this no connection breaks by itself and
  the server stays up. Calls may still time out, handlers raise and clients close.

The argument. `ReplyMatchesCall` is not inductive. What makes it true is
`AnswerInv`: a client's pipe, its current connection and its inbox hold, besides
one-way requests, only the call the client is blocked in. A timeout keeps it
because it gives up pipe, inbox and connection together; a reconnect because it
only cuts off; a server that answers an old connection because the reply is
dropped. That needs connections not to be shared (`LinkInv`). `AtMostOnce` and
`LinkOrder` need that a request is in one place (`OnePlace`) and that the places
along a connection hold increasing numbers (`InOrder`). `RpcInv` conjoins them;
`rpc_replies` checks it with TLC. The refinement maps `executed` to the order of
the runs and every step to `Begin`, `Run`, `Return`, `Raise` or a stutter.

`EarlierCallsRan` needs to know that nothing falls out between a call and a later one of its
connection, which is `SteadyInv`: a client's pipe and its connection hold all that the
connection still has to carry (`NothingLost`), so whatever is queued or ran comes after all
earlier calls of its connection are queued or ran (`ArrivedInOrder`, `RanInOrder`), and what
returned ran (`ReturnedRan`). A timeout or a close does cut off what is in the pipe, but
nothing of that connection returns any more.

`SignalThreadProofs` proves `TypeCorrect` and `DestructorIsLast`, and, for any topics and
any `Matches`, prefixes or not, `RacesOnPrefixesOnly` and `SignalsFindCallbacks`. The invariant
is `CallbackInv`: a topic is on the PAIR or subscribed to only if its callback is set, and what
is queued or being dispatched is let through by one whose callback is set (`Covered`). While
`onX` assigns, its own callback is not set yet (`Registering`); so if the receiver reads just this
one, another topic let it through.

`EventLoopProofs` proves `TypeCorrect`, `NoRequestForgotten` and `NoMessageForgotten`, for any
program, any sockets and any number of messages. `HeldIsDrained`, for the XPUB with the
exception of what is `overtaken`, is inductive together with the types: a drain loop ends only
after the socket was asked and had nothing, and nobody else makes a socket hold messages,
except a handler's send, and that only the XPUB.

`FramingProofs` proves, for any methods, any interfaces of both peers and any number of
requests, that the stream is whole messages (`StreamIsWhole`), `HandlersMatchRequests` and
`NoRequestSkipped`; for a C++ server under `Compatible`. The argument is `FramingInv`: the
frames of the stream follow one another as a message's do (`FramesInOrder`), it begins with
a route and ends with a whole message (`Aligned`), and what ran is behind it
(`RanBefore`). Each way of processing a request takes exactly one message off it.

For signals it proves `CallbacksMatchSignals` and `LossesAreLocal`, for clients in all three
languages and any interfaces of both peers, and `QueuesAreWhole`, which puts both sockets
together. A C++ client may be out of step, so the invariant (`SignalInv`) cannot say that its
stream begins with a key; it says that the stream is what arrived and is not handled yet,
in order and without a gap, at most its first key missing. Then a callback runs on the
payload that follows its own key, or the frame that follows is a key and the reader throws. A
client that threw and goes on passes over frames up to the next key. That `LossIsLocal` holds
needs that keys are received in the order in which their signals arrived (`TakenInOrder`).

`PropertySyncProofs` proves for any clients, topics, values, and under every fault,
`TypeCorrect`, and `SyncImplementsRegister`: server, pipes and caches implement
`PropertyRegister`. What is needed is `SentInOrder`: for every client and topic the values in
the pipe do not fall, none is below what the client knows, and none above what the server
has. `SentInOrder` holds because a setter only appends the present value, a subscription's answer
reads the value when it is sent, not when the subscription came, and a broken connection
or a restart only takes values out.

`SubscribersAreUpToDate` proves `UpToDate` for the same instances. It is inductive together
with `TypeOK` and `Subscribed`, that the server filters only what the client wants: a
subscription reaches the server before it is answered, the answer is the last value under way,
a change is sent to all whom the server knows as subscribers, and a pipe that is full is
`dropped`. A broken connection or a restart leaves the client with a subscription under way
again.

`LoweringProofs` proves for any interface `TypeCorrect`, `NamesAreUnique`, `NumbersStay` and
`LastOneDecides`. All of them rest on what `Update` does to a table without repeated
names: the names before it are a prefix of those after it, the named entry is there with
its new content, and the others are untouched.

`CodecProofs` proves for any number of fields that what arrives is what was passed
(`WhatArrivesWasPassed`) and that exchanges end for cause (`ExchangesEndForCause`). The
invariant says of every message under way that it is an encoding of what was passed,
field by field; each pair of conversions is a lemma.

`GeneratorProofs` proves for interfaces of any length, over any words:

* `PythonHidesNothing`, `PythonRefusesForCause` and `PythonTopicsDiffer`. The invariant
  (`BindingsInv`) says what the tables hold of the declarations that are rendered so far: every
  method and nothing else is in the handler table at its number, signals have the topics and
  classes the names of their declarations, and names differ. A failure then has two
  declarations that caused it. The rest are facts about names: those of the runtime, of
  `on_` and of `emit_` methods differ by their first word, and a topic tells the Python
  name it was made from, except where a keyword gets its underscore.
* `FilesAreOfTheInterface`, `CppNamesAreDeclared` and `CppMethodsAreDefined`. The invariant
  (`CompilerInv`) says that the files are rendered in `Order` and hold the sets that are named
  for them. That a used name is declared is then a lemma for each kind of use, from how names
  are made: to change the first letter and to append words commute, the first letter made small
  twice is small, what `Changed` was appended to is found again when it is cut off. The five
  exceptions are those of the property, and that the backend did not raise (`Raises`) is a
  condition of the last file's step. That a
  method is defined once follows from its class, which names the one file that defines it,
  for `ClientRpc` together with whether it is a template.
* `CppNamesClashForCause` proves `ClashesForCause` for interfaces of plain names
  (`PlainNames`): two entities, or an entity and a member the class has for every interface,
  get one name in one class only if the interface names them alike, as `Alike` lists. It is no
  theorem for names of arbitrary words, since an interface may spell what the generator adds
  to a name. TLC finds a clash for every conjunct of `Plain` that is dropped:

  | Not plain | clashes with |
  |---|---|
  | a signal `x__a` of the main service, registered by `onX__a` | an rpc `a` of a service `onX` |
  | a service `m_x` | a service `x` |
  | a property `m_a` | a property `a` |
  | an rpc `ReturnA` | an rpc `a` that returns a table |
  | an rpc `ACb` | a signal `a` |
  | an rpc `rpcIf` of `dev` that returns a table | a service `Returndev` |

  All the interfaces of `bindings` are plain: `PoolIsPlain` in `MCGenerator`, which
  TLC evaluates. The argument goes class by class. What a class declares has one of a few forms
  (a name, `Return` and a name, a name and `Cb`, service `__` name, ...). Names of two
  forms differ in their first word, their last word or in having a `__`, which plain
  names cannot imitate (`...Names` lemmas). Names of one form are equal only if what they are made
  of is, as `\o` can be cancelled on either side (`Cancelled`), up to the case of a first letter
  (`Letters`); what is left of that is `Alike`. Words are compared, not characters: two words that
  together are spelt like a third are different names in the model.

`GeneratorAssumption` and `BindingsAssumption` say that the words the generator adds are among
the words, that names begin with a letter, and that no two entities of a description are of
one kind, service and name: a TOML table has a key once.

Every invariant and every action property of the runs that pass is the property of a
theorem. Only model-checked are the liveness properties (`EveryCallEnds`, `PyCallsEnd`,
`CppOneWayRuns`, `RegistrationTakesEffect`, `ReceiverStops`, `ClientsConverge`,
`RequestsHandled`, `SubscriptionsHandled`), because the prover does not handle fairness. Of
interfaces whose names are not plain, `ClashesForCause` is neither checked nor proved: there it
can be false, as the table shows.

## Not modelled

* The build (CMake, CPM, packaging), option parsing, `span.h`, the web channel glue
  and its JavaScript: third-party code or plain input and output.
* Layout, enumeration declarations and meta-type registrations of the generated C++; the
  text and the validation of the Cap'n Proto schema; parsing and structural validation of
  descriptions. They keep no state and have no names that other files use.
* Removing descriptors from the event loop's set and `UnBlock`, which the examples'
  servers do not call.
* Names that begin with a digit, in front of which the Python backend puts an underscore
  (`python_backend.py:15-16`). They would be a second exception of `TopicsDistinct`: the signal
  `1a` of a service `dev` and the main service's `dev__1a` have one topic and two Python names.
* Members that Qt's classes inherit from `QObject`, and names of the C++ library and of C++
  itself, although an entity may be called like one of them.
* What libzmq does inside; `RpcLinks`, `PubSub` and the sockets of `EventLoop` state
  what the code relies on. Full DEALER pipes, which make a Python send raise and a C++
  one wait.
* Demo programs, but for the server of `TemperatureQt`.

## Plan

Done, in this order, which is that of what matters most to a running system: the RPC
system, its contract and its proofs; the threaded signal client and its proofs; properties,
framing and the event loop; lowering and the Python backend; the frames of signals; the
files of the C++ backend; the abstract register and the refinement; the conversions; the
proofs of framing, properties, lowering and conversions; the proofs of signals, of
up-to-date subscribers, of earlier calls and of the bindings in both languages; the proof
that plain names clash for cause. What could follow:

1. The refinement of `PropertyRegister` extended to clients that are destroyed and made anew.
2. `EventLoop` extended by removing descriptors and `UnBlock`.
