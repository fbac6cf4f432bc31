# Verification of esp32_iot

TLA+ models of the firmware under `src/src`: what its tasks share, which orders of
their steps can go wrong, and which cannot. The models follow the C code, line by line
where the order of accesses matters; TLC checks them on small instances and TLAPS proves
the main invariants for every value of the constants.

Paths below are relative to `src/src`.

## 1. The system

An ESP32 joins a WiFi network, opens a websocket to a server and carries out the
commands it receives. A command frame is `ENDPOINT_ID | MESSAGE_ID | MESSAGE_TYPE | DATA`
(`tasks/communication/communication.task.c:15-20`); each command is answered with a status.

```
 server <--ws--> websocket task --[xMailboxIncomingQueue, 1 pointer]--> endpoint task (GPIO)
                  |  sendStatus  <------------- onRecieve --------------'
                  | CONNECTED_TO_SERVER
                  v
 WiFi driver -> event task --CONNECTED_TO_NETWORK--> xAppStateEventGroup
                                                      |            |
                                            communication task   heartbeat task -> LED
```

### Tasks

| task | created by | priority | runs |
|---|---|---|---|
| communication | `app_main` | 1 | `xConnect`: WiFi, client, handlers, start; then sleeps |
| heartbeat | `app_main` | 1 | `vTaskHeartbeat` |
| GPIO endpoint | `app_main` | 2 | `vEndpointTaskGPIO`: polls the mailbox every tick |
| websocket | `esp_websocket_client_start` | 15 | `esp_websocket_client_task` and, inside it, all websocket event handlers |
| event task | ESP-IDF | | `xEventHandler` of `wifi_sta.c` |

The build uses both cores and pins no task to one (`sdkconfig`), so priorities do not
exclude any interleaving: a task of priority 1 runs on one core while one of priority 15
runs on the other. Heap poisoning is off (`sdkconfig:674`), so a freed block keeps its
contents; a panic reboots the chip (`sdkconfig:456`).

### Components, their state and what makes them correct

**Mailbox** (`include/mailbox.c`, `.h`). State: a FreeRTOS queue of one pointer.
Operations: `vMailboxInit`, `vMailboxRecieve` (count, peek, compare the id, reset, handle).
Hard: the four queue calls are separate, the queue hands out a pointer, and the producer
frees what it replaces. Correct when every message has one owner, none leaks, and each
command is answered once and truthfully.

**Command path** (`communication.task.c`). State: heap blocks, `xConnectionHandle`.
Operations: `parseMessage`/`clone`, `sendDataToMailboxIncoming`, `onMessageRecieved`,
`sendStatus`, `vWebsocketEventHandler`. Hard: two allocations of which either may fail, the
replaced message, the ignored result of `xQueueSend`.

**GPIO endpoint** (`tasks/endpoints/gpio/gpio.c`). State: the pins. Operations:
`vMessageHandler`, `writeLevel`. Hard: a pin is reset, made an output and only then set, and
one of the pins is the heartbeat's. Correct when every path ends in one `onRecieve` and a
status that follows the pin.

**Websocket client** (`protocols/websocket_client`). State: `state`, `run`, the transport,
`lock`, `tx_buffer`, `STOPPED_BIT`, the clocks, the configuration's strings. Operations: the
task loop (connect, poll, ping, read, reconnect), `send`, `is_connected`, `start`, `stop`,
`destroy`, `init`, `set_uri`, `set_config`. Hard: `state` and `run` are read and written by
several tasks without a lock; only `send` takes the mutex; a long message goes out in
portions; `stop` and `destroy` race with the end of the task; each of two dozen allocations
may fail half way through `init`, which then calls `destroy`. Correct when portions of
messages do not mix, the result of `send` is true, `statusCONNECTED_TO_SERVER` follows the
state, a lost connection is retried in time, a quiet one is probed, a client has one task,
`stop` returns with the connection closed, and each string has one owner.

**WiFi station** (`components/wifi_sta/wifi_sta.c`). State: `statusCONNECTED_TO_NETWORK`.
Operations: `xEventHandler`, `vConnectWifi`. Hard: events lag behind the driver, and the
handler has no case for some of them; on a loss it asks for a new connection before it clears
the bit, and does not look at what `esp_wifi_connect` returns. Correct when the bit is right
once the events are handled, and the station tries again as long as it can.

**Communication task start-up** (`communication.task.c:119-138`, `components/websocket`),
**heartbeat** (`tasks/heartbeat`), **application start** (`main.c`, `state.h`): the order of
start-up, the wait for an address, and the LED that shows the server bit.

**Build configuration** (`sdkconfig`, `sdkconfig.h`): generated; only its facts are used.

`PROJECT.json` lists, at their lines, the places in this code that tests would hardly
reach, each with the properties that watch it or the reason why none does yet.

## 2. The modules

| module | models | extends / used by |
|---|---|---|
| `Mailbox` | mailbox, command path, the endpoint task up to the effect on the pins, faults and reboot | |
| `MCMailbox` | frames for TLC | extends `Mailbox` |
| `MailboxProofs` | theorems on ownership and answers; one command at a time never races | extends `Mailbox` |
| `MailboxOrder` | `Mailbox` with the history of which command came before which | extends `Mailbox` |
| `MCMailboxOrder` | frames for two endpoints for TLC | extends `MCMailbox`, `MailboxOrder` |
| `Delivery` | how the commands of a server that sends several at a time fare: an abstract specification | instantiated by `MailboxOrder` |
| `MailboxOrderProofs` | no command overtakes another; `MailboxOrder` implements `Delivery` | extends `MailboxOrder`, `MailboxProofs` |
| `Commands` | what the device promises a server: the abstract specification | instantiated by `Device` |
| `Device` | `Mailbox` with `writeLevel`, the pins and the heartbeat's use of one of them | extends `Mailbox` |
| `MCDevice` | commands and pins for TLC | extends `Device` |
| `DeviceProofs` | `Device` implements `Commands`; when the LED's pin has no output | extends `Device`, `MailboxProofs` |
| `WsClient` | the websocket task's loop, `send`, the server bit | |
| `MCWsClient` | the bound on calls of `send` | extends `WsClient` |
| `WsClientProofs` | theorems on `send` and on the server bit | extends `WsClient` |
| `WsTimers` | the loop with its clocks: reconnect delay and PING | extends `WsClient` |
| `WsTimersProofs` | theorems on the clocks; `WsTimers` implements `WsClient` | extends `WsTimers`, `WsClientProofs` |
| `WsLifecycle` | `start`, `stop`, `destroy` against the task they create and end | |
| `ClientCalls` | what `start`, `stop` and `destroy` promise their caller: an abstract specification | instantiated by `WsLifecycle` |
| `WsLifecycleProofs` | theorems for a patient application; `WsLifecycle` implements `ClientCalls` | extends `WsLifecycle` |
| `WsConfig` | `init`, `set_uri`, `set_config`, `destroy`: allocations, strings, defaults | |
| `WsConfigProofs` | theorems on ownership, crashes, leaks and completeness | extends `WsConfig` |
| `AppState` | WiFi station, start-up, heartbeat, the event group | |
| `AppStateProofs` | theorems on the network bit and on an idle station | extends `AppState` |

### `Mailbox`

`slot` is the queue, `live`/`contents` the heap, `wsPc`/`pMessage`/`prevMessage` the
websocket task inside `sendDataToMailboxIncoming`, `epPc`/`epMessage` the endpoint tasks
inside `vMailboxRecieve`. Each queue call, heap access and free is one action, named for
what it does: `Parse`, `ParseCloneFails`, `ParseMallocFails`, `CheckWaiting`,
`TakePrevious`/`TakeNothing`, `AnswerPrevious`, `FreePrevious`, `QueueSend` on one side;
`Poll`, `Peek`, `Match`, `QueueReset`, `Handle`, `Answer`, `FreeHandled` on the other.
A message and its body are one block, since they are allocated and freed together. When
only `clone` fails the block's contents are `Junk`, as in the code: no field is written.
`Fault` is what freed or unwritten memory can lead to, `Reboot` what follows. Frames are
at least a header long; `sendStatus` is a call here, and what becomes of it is the subject
of `WsClient`.

`raced` remembers whether a message left the queue while a task that had peeked it was
still to test its id or to reset the queue. The properties that the window at
`mailbox.c:13-15` really breaks carry `~raced` as their premise; `QueueSendNeverDrops` does
not need it.

### `MailboxOrder` and `Delivery`

`MailboxOrder` runs `Mailbox` and records in `ahead`, for each command that waits, the commands
that waited when it arrived and still do. It restricts no step. `Delivery` is what remains when
queue, heap and tasks are taken away: a command is new, waiting, broken (its body found no
memory), refused, handled, answered, replaced or lost. It says who may be handled when (nobody
before an older command for the same endpoint), that only a command which a newer one follows is
replaced, that each is handled and answered at most once, that a reboot needs a broken command,
and when the peek window may open (`Race`), after which every command's state is unknown. The
mapping (`StatusOf`, `AheadNow`) reads a command's state off the frames in flight and the log: a
status that is sent twice or does not tell what the handler did is in no state of `Delivery`.

### `Device` and `Commands`

`Device` keeps every variable and step of `Mailbox` and adds the calls `writeLevel` makes
(`ResetPin`, `SetDirection`, `SetLevel`, with `call` naming the next one) before `Handle`
may be taken, and the heartbeat's three writes to its pin. Pins and ESP-IDF's driver are
external: a pin has an output latch and an output enable, `gpio_reset_pin` clears the
enable only, and an input-only pin takes neither. The steps of the handler on a message
that was never written (`WriteWild`) may write any output.

`Commands` says what a server that sends one command at a time can see: a command is new,
sent, moving a pin, done, answered, refused, broken or lost; a pin is off, low, high or
moving. The refinement mapping (`StatusOf`, `PinLevel`) reads a command's status off the
answers it got, the frames in flight and the handler's position, and a pin's level off
latch and enable. The LED's pin is left out of the mapping, since the heartbeat drives it
too; `LedDarkOnlyInWrite` and `LedLives` are about it. The heartbeat makes the pin an output
once, and each command that names it disables the output for the time between `gpio_reset_pin`
and `gpio_set_direction`: at no other time is a blink lost.

### `WsClient`

The loop of `esp_websocket_client_task` (one action for each `case` and result of a
transport call) and any number of callers of `esp_websocket_client_send`, the websocket
task itself among them from its DATA event. A write lasts from `Copy` to `WriteSome` or
`WriteFails`, so everything else may happen meanwhile. `wire` records the portions the
transport takes. The transport is external and may return anything the code tests for.
Time is abstract: a PING is due or not, the wait is over or not. `autoReconnect` is chosen
at the start.

### `WsTimers`

Each step is a step of `WsClient` together with the time it may take and what it does to
`ping_tick_ms` and `reconnect_tick_ms`; where `WsClient` leaves open whether a PING is due or
the wait is over, the clocks decide. `abortedAt` and `heard` remember when the connection was
given up and when it last carried data or a PING. `auto_reconnect` is on, as in the program,
and no task is inside `send` in the run: `send` touches no clock.

### `WsLifecycle`

One application task calls `start`, `stop` and `destroy` in any order (`destroy` last, as
`websocket_client.h:142` asks) on a client that `init` returned. Every access to `state`,
`run` and `STOPPED_BIT`, on both sides, is an action. A pass of the loop is one action
(`Pass`), whose detail is in `WsClient`. `early` and `late` remember that a call looked at
the client during the first steps of a task (before `websocket_client.c:424`) or between
its last two (`:495-496`). An application that does neither is `Patient`.

`ClientCalls` has one variable for the client's phase, one for the connection and two for the
call in progress and the last answer. `Phase` maps the tasks, `run` and `appPc` to it. An application that
is not patient makes the abstract `Misuse` step and is promised nothing from then on
(`chaos`). A client that is not `Lasting` (auto_reconnect off, or a URI whose scheme has no
transport) may end on its own account, and then a `destroy` does not wait for its task.

### `WsConfig`

The calls are sequential, so `pc` names the next test, allocation or assignment of the code,
and `After` the one that follows it across the functions (`init` calls `set_uri` and
`set_config`). `Make` creates a part of the client, `Store` frees an old string and allocates
the new one, `MakeFails` and `StoreFails` are their failures, which end in `destroy` when `init`
was the caller and in an error otherwise. `StoreFailsUnnoticed` is a failed `asprintf`
that leaves its result as it was: the C library does not say that it becomes NULL, and the
code tests for NULL. `MakeUnlisted` is an `esp_transport_list_add` that finds no memory, which
`init` does not notice (`:234`, `:241`, `:254`, `:261`): the transport is made and `destroy`
will not free it. `origin` says where each value came from and `wsPath` what the transports
were told. A URI is the set of its parts; the URL parser is external and may refuse any URI.

### `AppState`

The station (`link`) is off, idle, joining, associated, has an address, or has one that has
lapsed. The driver fails to join or associates, gets an address, loses it or the access point,
and posts an event each time but for the lapse: an address that is gone is reported by
`LOST_IP` when the timer of `sdkconfig:934` runs out (`timer`, `ReportLostIp`), and not at all
if a new one comes first. `xEventHandler` handles the events one by one, in two steps where the
code makes two calls; `CONNECTED` and `LOST_IP` fall into its `default` (`HandleOther`,
`wifi_sta.c:30`). `esp_wifi_connect` takes an idle station to joining or fails, and then no event
follows: `refused` remembers that, since the code ignores the result (`:20`, `:27`). The communication task starts the driver, waits for the bit (setting it wakes the
task even if it is cleared before the task runs), creates the client and registers its
handlers (`InitConnection`), and starts it. The heartbeat task
reads the server bit and drives the LED. A failed `ESP_ERROR_CHECK` reboots.

## 3. What the runs check

| run | instance | shows |
|---|---|---|
| `mailbox_program` | 2 endpoints, 3 frames (two for the GPIO task, one of them unsupported and without a body), 3 blocks, 3 in flight, fairness | ownership, no leak, a true answer, none forgotten, the two causes of a fault, `xQueueSend` never drops; the mailbox implements `Delivery` (which has each command answered once and none overtaken); every command for an endpoint with a task is answered |
| `device_paced` | 1 endpoint, 5 commands on an output, the LED's pin and an input, 1 in flight, 1 failed allocation, fairness | the device implements `Commands`; a server that awaits each answer never meets the peek window; the LED is dark only inside a command for its pin and is lit again and again |
| `mailbox_race` | 2 in flight | **violated**: a command answered `ERR_NOT_RECIEVED` is executed all the same |
| `mailbox_nomem` | 1 failed allocation | **violated**: out of memory is answered with `ERR_NOT_ENOUGH_MEMORY` only when the first of two allocations fails |
| `wsclient_send` | endpoint task (2 sends) and websocket task (1), lengths 0 and 3, buffer of 2, both values of auto_reconnect, fairness | mutex, buffer, bounds of `memcpy`, order on the wire, true results, the server bit, every send returns |
| `wsclient_failure` | length 3, buffer of 2 | **violated**: a send whose second portion times out returns 0, not the number of bytes sent and not -1 |
| `wstimers_clock` | poll 2, PING 6, reconnect 2, network 3, handlers 4, 24 units of time | a reconnect is tried neither too soon nor too late; a connection is never silent for longer than the PING interval (or a connect with its handlers) and a poll |
| `wslifecycle_calls` | up to 3 tasks, fairness | a patient application has one task, its loop has a state, `stop` returns; the client implements `ClientCalls` (which has `stop` leave the connection closed and `destroy` wait for the loop) |
| `wslifecycle_restart` | 2 tasks | **violated**: the old task's last write (`:496`) overwrites the new task's INIT; the new task spins without a state |
| `wslifecycle_destroy` | 2 tasks | **violated**: `destroy` frees the client under a task that has left its loop by itself |
| `wsconfig_memory` | 4 URIs, 4 sets of fields, 2 failures, 2 later calls of `set_uri` | ownership of the strings; the only causes of a crash and of a leak; which values, path and port a client that `init` returned will connect with |
| `appstate_network` | 3 waiting events, 2 reboots, fairness | what the network bit tells, that only a failed `esp_wifi_connect` strands the station, the end of the wait, the LED |

Four safety properties have a theorem and no run of their own, since the refinement a run checks
is stronger: `AnsweredOnce` and `HandledInOrder` follow from `ImplementsDelivery` (a command with a
second status is in no state of `Delivery`, and its `Handle` has the order as its guard), `StopMeansClosed` and `DestroyWaitsForLoop` from `ImplementsCalls` (a client
retires without a connection, and a lasting one is freed only when it is stopped or retires).
The type invariants `ClocksTypeOK` (the clocks) and `DeviceTypeOK` (the pins) are proved only.

The violations concern the following lines: the peek window `mailbox.c:13-15` (a fix is
`xQueueReceive` by the endpoint the message is for, or a queue for each endpoint);
`communication.task.c:67-76` (free the message and return NULL when `clone` fails);
`websocket_client.c:567` (return `widx` or -1); `:495-496` (swap the two lines); `:321` (wait
for the task, not for `run`). The program itself calls `start` once and never `stop` or
`destroy`, so the last two are about the client as a library.

Some invariants name the cause of what they do not exclude, and that cause is a slip of the
code: `CrashHasACause` the branch for `OVER_TCP`, which stores through the configuration
before it is made (`:243`, `:267`), and `destroy` on a client without a lock or a list of
transports (`:328`); `LeakHasACause` the host that `set_config` overwrites (`:145`), the
returns of `set_uri` that skip `free(user_info)` (`:393`, `:397`) and a transport that is not in
the list; `NobodyIsStranded` and `AlwaysRejoins` a failed `esp_wifi_connect`. A second
`start` before the first task has written INIT makes two tasks (`:505`, `:424`); `Patient`
excludes it from the lifecycle's properties.

Four places where the code and its documentation or configuration disagree show in how a
property had to be stated:

- `websocket_client.h:82` lets the URI override the fields; `init` calls `set_config` after
  `set_uri` (`:270-280`), so a field overrides the URI until the next `set_uri`.
  `ReadyIsComplete` asks that each value be one of those given and does not say which wins.
- `websocket_client.h:87` has a field for the path; `set_config` stores it (`:170-174`) but only
  `set_uri` tells the transports (`:370-377`), so a path given by a field is never used.
  `ReadyIsComplete` names it as the only way the transports fall behind the configuration.
- `websocket_client.h:84` has the port depend on the transport; the task stores the default of
  the first scheme (`:421`), and a later `set_uri` with another scheme and no port leaves it.
  `ReadyIsComplete` asks for the port of the scheme until then.
- `sdkconfig:934` has the loss of an address reported after 120 s; `wifi_sta.c:30` ignores the
  report. `NetworkBitIsTrue` says what `statusCONNECTED_TO_NETWORK` then means: the station is
  associated and has had an address since, not that it has one.

### Bounds, and why they are enough

- *Frames, `Window` and `MaxFailures` of the mailbox.* The queue holds one message and the
  producer one or two more, so three in flight give every overlap of queued, replaced and
  handled message, and three blocks hold them. Frames are sent once each; a frame sent twice
  differs in no branch of the code from two frames. In `mailbox_program` only the allocation
  for the frame without a body fails (`MaxFailures` is 0), which brings the fault and the reboot;
  in `device_paced` and `mailbox_nomem` any one allocation may, and the theorems cover any number, as
  they cover frames for an endpoint that nobody polls.
- *Pins.* One output, the output the heartbeat uses and one pin that has none; both levels
  of the first, so that a command finds the pin in the other's level.
- *Send.* Length 3 and buffer 2 give a message of one portion or two, a full and a partial
  portion, and short writes; length 0 is the argument check. Two sends of one task and one
  of the other cover a message before, between and after portions of another.
- *Lifecycle.* Two tasks give every overlap of an old and a new task; the third lets a
  restarted client be restarted.
- *Time.* The times are small numbers in the order of the real ones (poll and reconnect 1 s,
  PING and network 10 s), with handlers slow enough to be what delays a reconnect and a PING;
  `MaxTime` leaves room for three connections.
  The theorems hold for all times, the real ones included.
- *Configuration.* Two failures (`MaxFailures`) are one in `init`'s or `set_uri`'s string and
  one after it; two later calls (`MaxCalls`) of `set_uri` let the second meet what a failed
  first one left. The URIs and fields set every string and leave out every string, in both
  places and in one. Nine blocks are more than the strings of a client, leaked ones included.
- *Events.* Three waiting events allow a loss, an address and a loss before the first is
  handled.

TLC checks actions too: every action of every module is taken in some passing run.
`CHECK_DEADLOCK FALSE` is set where the system stops by design: the websocket task ends
without auto_reconnect and callers are bounded (`WsClient`); the model's time is over (`WsTimers`); the client is destroyed, or the next start has
no task left (`WsLifecycle`); the client is gone (`WsConfig`). In the mailbox runs polling never stops.

### Fairness

- `Mailbox`: weak fairness of the websocket task inside its handler, of each endpoint task
  and of the reboot. Each task sleeps a tick or blocks between rounds
  (`gpio.c:79`, `communication.task.c:136`), and there are two cores. The server owes nothing.
- `Device`: weak fairness of the GPIO task, the heartbeat (`heartbeat.task.c` sleeps between
  its writes) and the reboot.
- `WsClient`: weak fairness of the steps inside `send` only: the mutex is taken with a
  timeout (`communication.task.c:46`) and the transport is given one
  (`websocket_client.c:561-564`). No connection is promised.
- `WsLifecycle`: weak fairness of a call that has begun and of each task. A pass of the loop
  ends because each transport call in it has a timeout. Nobody has to make a call.
- `AppState`: weak fairness of the event task, the heartbeat, the start-up and the driver's
  verdict on an attempt to join (success or failure). No access point, no address and no server
  is promised, and `esp_wifi_connect` may fail, which is why the LED's properties are conditional.

## 4. What is proved

All theorems hold for every value of the constants. Assumptions: `SentinelAssumption` and
`FramesAssumption` (`Mailbox`: the null pointer is no block, unwritten contents are no
frame), `PinAssumption` (`Device`: the LED's pin is an output, a command names one pin),
`TasksAssumption` and `LengthsAssumption` (`WsClient`: a buffer has at least one byte),
`TimesAssumption` (`WsTimers`: times are natural numbers), `NullAssumption` and
`PartsAssumption` (`WsConfig`: NULL is no block, which parts a URI and which fields a
configuration has), `BoundsAssumption` (`AppState`).

**`MailboxProofs`.** `TypeCorrect`, `Invariance`, and from it `SendNeverDrops`, `Ownership`,
`NothingLeaks`, `FaultsHaveACause`, `OneAnswer`, `TrueAnswer`, `NothingForgotten`. Ownership
is not inductive by itself: that `TakePrevious` gives the websocket task a message nobody
else holds needs to know that a peeked message is still the one in the queue
(`PeekCustody`), and that an answer is the first one needs to know what was done for the
frame in each block (`Ledger`), and that no two live blocks carry the same frame
(`LiveFrames`). `IInv` is `TypeOK`, `SendInv`, `FaultInv`, and `Custody /\ Ledger` while
nothing has raced.

`OneAtATime`, in the same module: with `Window = 1` and one endpoint, `[]~raced`. So for
a server that awaits each answer the premises of the theorems above always hold. The
invariant says that while the endpoint task is between peek and answer, or a message is
queued, a command is outstanding: then no frame arrives and nothing can be replaced.

**`MailboxOrderProofs`.** `CommandsInOrder` and `MailboxImplementsDelivery`, for every window. The
history is carried by `Mailbox`'s own steps, so `IInv` holds with it. That no command is
overtaken follows from where a command that waits can be (`WaitingPlaces`) and that one which is
ahead of another is in a handler, or in the queue or about to be answered while the other is
still to be sent (`Ordered`); handlers that run at once are of different endpoints (`Addressed`). The
refinement needs more: that an unwritten message stands for a frame that stays without an answer
until the reboot (`BrokenInv`), since a fault must have a broken command to show for it, and that
the frame to be sent arrived after what is in the queue or about to be answered (`Behind`), since
only a command that a newer one follows is replaced or taken from under a peeking task. `Behind` is
stated of a frame and not of the message, because an unwritten message does not say whose it is. Each step
is then a step of `Delivery` (`ReceiveImplements`, `AnswerPreviousReplaces`, `HandleImplements`,
`AnswerImplements`, `RebootImplements`, `RaceImplements`) or a stutter (`QuietStutters`).

**`DeviceProofs`.** `DeviceIsMailbox`: every behaviour of the device is one of `Mailbox`, so the
theorems above hold of it. With `Window = 1` and the GPIO endpoint as the only one:
`DeviceInvariance`, `DeviceTypeCorrect`, `LedIsDarkOnlyInWrite`, and `DeviceImplementsCommands`, the refinement. Its
invariant adds to that of the paced mailbox where `writeLevel` stands (`CallInv`), that a
message under way in the endpoint task is addressed to it (`AddresseeInv`), and that the
frames in the heap are the one command that is outstanding (`WaitingInv`); then each step
of the device is shown to be a step of `Commands` or to leave its variables alone.

**`WsClientProofs`.** `TypeCorrect`, `Invariance`, `LockIsSafe`, `BufferIsSafe`, `CopyIsSafe`,
`MessagesAreWhole`, `TrueResult`, `BitIsTrue`. `Progress` says how far a task inside `send`
has come, `PortionInv` that no portion on the wire lies beyond what its message has sent
so far, `LastInv` that the message being sent ends the wire (which needs the lock), and
`Returned` what a finished call knows. `BitIsTrue` has an invariant of its own
(`LoopInv`): at each point of the loop the state is known.

**`WsTimersProofs`.** `TimedImplementsUntimed`: the clocks only choose among the steps `WsClient`
leaves open, so `WsClient`'s theorems hold of the client with its clocks. `TimedInvariance`,
`ClocksTyped`, `ReconnectIsTimely`, `QuietIsShort`, for all times: the invariant says how old
`reconnect_tick_ms` can be at each point of the wait, and how old `ping_tick_ms` and the last
traffic can be at each point of a pass through the loop.

**`WsLifecycleProofs`.** `TypeCorrect`, `Invariance`, `AtMostOneTask`, `LoopIsNotIdle`,
`StopIsTrue`, `LoopEndsBeforeFree` and `ClientImplementsCalls`, for any number of restarts. `OneTask` rests on `TaskInv` (a task past its first
steps shows in `state`), `StopMeansClosed` on `OpenInv` (an open connection has a task in
its loop) and `BitInv` (`STOPPED_BIT` is not set before the task is at its end), and both on
what the application knows at each point of a call (`AppInv`). `LoopEndsBeforeFree` and the
refinement need to know who keeps the client running: `RunInv` (a client with `run` set has a
task that is not at its end; one without a task is in its first state), `EndInv` (a lasting client
has run until it was asked to stop) and `CallInv` (what each call has found out: when `destroy` frees,
`run` is off and no task is starting). `StepImplements` takes each step to one of `ClientCalls` or
to a stutter; from the first call at the wrong time on there is only chaos.

**`WsConfigProofs`.** `Invariance`, `TypeCorrect`, `StringsHaveOneOwner`, `CrashesHaveACause`,
`LeaksHaveACause`, `ReadyClientsAreComplete`, for any number of failed allocations. Ownership is
inductive by itself. Crash and leak need to know how far the code has come: `PlaceInv` says
which parts are made by then and that `user_info` is there only inside `set_uri`, `HostInv` that
there is no host to lose before the URI has been read, `KeptInv` that every live block is still
pointed to. Completeness numbers the steps of `init` (`Rank`): `MadeInv`, `SchemeInv` and
`OriginInv` say what the steps below the present one have left, `PathInv` that only a field
parts the transports' path from the configuration's, `PortInv` that a default port comes last.

**`AppStateProofs`.** `TypeCorrect`, `Invariance`, `NetworkBitTells`, `OnlyRefusalStrands`, for any
queue length. `BitInv` follows the driver's last word among the events the handler heeds: the
newest of them that waits, else the loss that is half handled, else the bit (`NewestInv` picks
it out of a queue that also holds events that are ignored). `NobodyIsStranded` is inductive with
`StartInv` (what is there before the driver has been started).

Only model-checked: the liveness properties (`CommandsAreAnswered`, `SendsReturn`,
`StopIsAnswered`, `AlwaysRejoins`, `IpEndsTheWait`, `LedSteadyWithoutServer`,
`LedBlinksWithServer`, `LedLives`), which TLAPS does not reach, and the violations, which are
counterexamples.

## 5. What is not modelled, and the plan

Outside the code under `src`: the transport (`esp_transport`), the WiFi driver, FreeRTOS and
the heap are external and modelled by the results the code tests for. In particular, what
happens inside the transport when `abort_connection` closes it during another task's write
(`websocket_client.c:122`), or when a PING overlaps a write (`:460`), is not modelled beyond
the write's result. The text of log messages, the SSID and the password are left out.

Inside `src` and left out:

- `stop` called from an event handler, which waits for the task that runs it
  (`websocket_client.c:527`); nothing in the program does.
- The server bit across a `stop` while connected, which ends the loop without a DISCONNECTED
  event (`:526`): `WsClient` has no `stop`, and `WsLifecycle` no bit. The program never stops.
- A message that one read does not return whole arrives as several DATA events
  (`websocket_client.h:43`), each parsed as a command: how it is cut is the transport's choice,
  and the models start from whole frames.
- The copies of `task_prio`, `task_stack`, `cert_pem`, `buffer_size` and `user_context` in `init`:
  no branch depends on them later.
- `app_main`'s creation of the tasks, and the generated `sdkconfig.h`.

The models were written in the order of what matters most: the mailbox (every command passes
through it), `send` and the loop, the lifecycle, the shared application state, then the
device from command to pin, the clocks and the configuration. What would add most now:

1. `WsClient` with `WsLifecycle`: the loop under `start` and `stop`, with the server bit across a
   stop, and `WsLifecycle`'s `Pass` refined by the loop.
2. The pins under a server that sends several commands at a time: `Delivery` covers such a server
   up to the handler's call, `Commands` and the pins only one that awaits each answer.
3. Frames in pieces, with the transport as an explicit environment.
