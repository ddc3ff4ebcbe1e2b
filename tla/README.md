# Arduino_ConnectionHandler: models, model checking and proofs

Arduino_ConnectionHandler keeps a board on the network. A sketch owns one handler,
calls `check()` from `loop()`, and is told by callbacks when the connection comes, goes
or fails. This directory holds TLA+ modules of the library, the TLC configurations
that check them and theorems that TLAPS proves. Source lines below are relative to the
repository's `src/` directory.

## 1. Inventory

### The parts and the state they keep

| part | state | operations |
|---|---|---|
| `ConnectionHandler` (`ConnectionHandlerInterface.h/.cpp`) | `_current_net_connection_state`, `_keep_alive`, `_check_internet_availability`, `_interface`, `_settings`, `_timeoutTable`, `_lastConnectionTickTime`, three callbacks | `check`, `updateConnectionState`, `updateCallback`, `connect`, `disconnect`, `addCallback`, `updateSetting`, `getSetting`, `setKeepAlive`, `enableCheckInternetAvailability`, `updateTimeoutTable`, `updateTimeoutInterval` |
| seven adapters (`WiFi`, `Ethernet`, `LoRa`, `GSM`, `NB`, `CatM1`, `Cellular`) | none of their own but CatM1's `_reset`, the connection itself is in the driver | constructors and the five hooks `update_handleInit ... update_handleDisconnected` |
| `GenericConnectionHandler` | `_ch`, the inner handler, and its own copy of everything in the base class | `updateSetting` (allocate, replace, delete), `connect`, `disconnect`, `setKeepAlive`, the override of `updateConnectionState` |
| drivers (external) | the association, the settings it was made with | `begin`, `disconnect`, `status`, `ping`, ... |
| settings models | a tagged union of buffers | copied by `memcpy` |
| sketch (`examples/`) | `attemptConnect`, `lastConnToggleMs` | calls everything above, from `loop()` and from callbacks |

### How they interact

`check()` compares the time since the last tick with the interval of the current state.
When it has passed, `updateConnectionState()` calls one virtual hook, the hook calls the
driver and returns the next state, the state is assigned, a change of state calls the
user's callback if there is one, and the state is assigned a second time (line 61, for
the generic handler). The program has one thread. Everything that happens concurrently
is the network's doing, and everything that happens re-entrantly is a callback's: it
runs in the middle of `check()` and may call any method of the same handler. The
generic handler inherits `check()`, and its override of `updateConnectionState()` runs
the inner handler's state machine, so that two objects hold one state.

### What is hard

- **Re-entrancy**: a callback calls `connect()` or `disconnect()` between the two
  assignments of `check()`.
- **Asynchrony**: a driver associates after `begin()` returned, or loses the network
  between two polls; an answer is stale when the next tick uses it.
- **Order of calls**: `disconnect()` in any state, settings that arrive in the wrong
  state, switches turned in the middle of a connection.
- **Failure and retry**: hardware that hangs, a network that goes away and comes back,
  a state (`ERROR`) that no tick leaves.
- **Two objects, one state**: the generic handler's outer and inner object.
- **Time**: `millis()` wraps and the interval is read into an `unsigned int`.

`PROJECT.json` lists each hazard at its line, with the properties that catch it or the
reason none does.

### What makes each part correct

- base class: the sketch can rely on the events it is told; `disconnect()` holds until
  it is revoked; settings that were accepted are used; a tick is never missed.
- adapters: a released link is released in the driver; CONNECTED with the check on means
  that the Internet answered; the connection comes back; a loss is noticed.
- generic handler: it behaves as the handler inside it, and it survives a refused update.

## 2. Modules

| module | models |
|---|---|
| `ConnectionHandlerDefinitions` | the enums of `ConnectionHandlerDefinitions.h` |
| `NetworkDriver` | the external driver, its hardware and network: the variable `dev` |
| `ConnectionHandlerObject` | the members of the base class as a record, and the methods that only write members as operators from record to record |
| `WiFi-`, `Ethernet-`, `LoRa-`, `GSM-`, `NB-`, `CatM1-`, `CellularConnectionHandler` | the constructors and the hooks of each adapter: a hook relates the object, the state it returns, and the driver before and after |
| `ConnectionHandlerInterface` | the virtual dispatch, `updateConnectionState` and `updateCallback` |
| `ConnectionHandler` | the system of a sketch with one concrete handler, and its properties |
| `ConnectionLifecycle` | the abstract specification: the state, the keep-alive and the last event of a connection, whatever the adapter; `ConnectionHandler` implements it |
| `ConnectionHandlerInterface_proof` | lemmas that both systems' proofs use: what the hooks of all adapters may do, what the methods change, how a constructed object looks, how the stack of callbacks grows and shrinks |
| `ConnectionHandler_proof` | the theorems about `ConnectionHandler` |
| `GenericConnectionHandler` | the system of a sketch with a generic handler, and its properties; uses `ConnectionHandler` as the specification it implements |
| `GenericConnectionHandler_proof` | the theorems about `GenericConnectionHandler` |
| `NetworkSettings` | the buffers of `settings.h` and the copies that constructors make: a text is its length |
| `ConnectionHandlerDemo` | the three example sketches with a concrete handler, with the board's clock; implements `ConnectionHandler` |
| `ConnectionHandlerDemo_proof` | the theorems about `ConnectionHandlerDemo` |
| `MCConnectionHandler`, `MCGenericConnectionHandler`, `MCConnectionHandlerDemo` | constants for TLC |

The modules make a chain of specifications: the sketches with their wrapping clocks
implement `ConnectionHandler`, where time is exact and a sketch may call anything; the
generic handler implements it too, between two calls of `updateSetting()`; and
`ConnectionHandler` implements `ConnectionLifecycle`, which knows no adapter, driver or
time. The generic handler implements `ConnectionLifecycle` over its whole life: a handler
that is allocated, replaced or deleted is there no more than a change of the keep-alive.

### State and actions of `ConnectionHandler`

`self` is the object. `elapsed` is `millis() - _lastConnectionTickTime`, which stops at
`MaxElapsed`. `running` is a stack: the local `next_net_connection_state` of each
`check()` that is inside a callback, the innermost first, at most `MaxNesting` deep.
`told`, `asked` and `want` are history variables for the properties.

- `Check` is `check()` up to and including the call of the callback; `CheckReturn` is
  the rest of it. Between them the callback runs, and may take any action that
  `CallbackCalls` permits; where that is `check`, `Check` again, when the new state's
  interval is over.
- A hook is one step. The calls it makes to the driver are blocking and the model lets
  the network change before and after, and in one place within (WiFi's two `status()`
  calls in INIT, whose answers decide different things).
- `Connect`, `Disconnect`, `SetKeepAlive`, `EnableCheckInternetAvailability`,
  `UpdateSetting`, `UpdateTimeoutInterval`, `UpdateTimeoutTable` and `AddCallback` are
  the methods. The three deprecated `add...Callback()` are `AddCallback`.
- `Tick`, `Associates`, `LosesNetwork`, `FindsNetwork`, `TogglesInternet` and `Fails` are
  the environment.

Calls that change nothing (a `check()` that is not due, `connect()` in INIT, a refused
`updateSetting()`) are not steps.

### State and actions of `GenericConnectionHandler`

`outer` is the generic object and `inner` the handler `_ch` points to, or `nullptr`. The
inner object's callbacks, timeouts and clock are never used by the code, because only
the outer's `check()` runs. `UpdateSetting` is `updateSetting()` with its four outcomes:
refused, passed to the inner handler, a handler allocated (and an old one deleted), and
no handler at all. `Wrapped` is the inner handler with the outer's callbacks and
timeouts, which is what the sketch deals with. `dev` is the driver of the inner handler; on a switch it becomes
another driver, fresh if its adapter was never used and in any state otherwise, because
the code deletes a handler without stopping its driver. `Connection` is what the sketch
has: the inner handler, or without one a connection that waits in INIT.

### State and actions of `ConnectionHandlerDemo`

It extends `ConnectionHandler` with the sketch: `calls`, what `setup()` has still to call
(`SetUp` makes one call); `pc`, the half of `loop()` that is next (`Toggle` or
`NoToggle`, then `LoopCheck`); `attemptConnect` and `lastConnToggleMs`, the sketch's
globals; and the two clocks, `now` and `_lastConnectionTickTime`, values of a `millis()`
that wraps at `MillisModulus`. `LoopCheck` makes the comparison of
`ConnectionHandlerInterface.cpp:38-42` as it is written, a difference modulo
`MillisModulus` against an interval modulo `IntModulus`. `elapsed` stays in the model as
the time that really went by, which is what the refinement is about. `Millis` lets time
pass: in a hook that blocks, up to the `HookTime` of its state (`hook` is what is left of
it, and `loop()` going on ends it), and up to `LongestLoop` from there to the next
`check()` (`waited`). `check()` reads the clock before it calls the hook, so both count
towards the next interval. The modem of GSM blocks in INIT for up to 30 s twice
(`GSMConnectionHandler.cpp:24-25, 95-96`), as long as a period of the toggle.

The object is constructed from texts as long as `settings.h` allows (`Secrets`), through
the constructors' `strncpy()`. The NB sketch gives a PIN only. The LoRa sketch gives no
channel mask, the default argument is `NULL`, and what a copy from `NULL` leaves is one
of `Garbage`.

### What the driver model assumes

An association needs coverage, working hardware and settings. A driver that was begun
may associate on its own later. Losing coverage or hardware drops the link. A CatM1
modem that hangs recovers when `begin()` restarts it (`_reset`) and otherwise does not.
`Ethernet.linkStatus()` reports the cable and not the address: `begin()` may return 0
with the cable in, because no DHCP server answered in time. GSM, NB, CatM1 and Cellular
attach synchronously. GSM and NB test the attach for one failure only
(`GSMConnectionHandler.cpp:103`, `NBConnectionHandler.cpp:116`), so an attempt that finds
no network may end in ERROR or with another status, which the hook takes for a success;
their SIM may accept an empty PIN. LoRa sends the channel mask of its settings at every
`begin()` (`dev.mask`): the test before `sendMask()` is of an array and always true.
Settings are opaque, and are wrong only when there are none; in `ConnectionHandlerDemo`
they are the lengths of their texts.

## 3. Runs

All runs use small sets: one or two settings, at most seven adapters one at a time.
That is enough because no line of the library compares two settings or refers to more
than one handler, and every interleaving of calls, network changes and ticks is taken.
`MaxElapsed = 1` with the intervals `EveryTick` (all 0) makes every tick due after one
unit of time: how long an interval is matters only to the `liveness` run, which uses the
shape of the default table and lets the sketch change it, to `generic`, and to `demos`,
described below. `generic` starts with `SlowInit`, where INIT waits one unit more than the
other states, as it does in the code (500 ms against DISCONNECTING's 100 ms): with equal
intervals nobody could tell which of two objects' states `check()` waits for. `MaxNesting = 2` in the two runs with callbacks that call `check()`: one `check()`
inside another is the case where the outer assigns what the inner has changed; a third
level repeats it.

`demos` keeps the order of the numbers in the code and not their size: every interval of
`ConnectionHandlerTimeoutTable` is twice the default one (INIT's is more in the code, which
adds nothing to a refinement that holds for any table). `HookTime` is 5 in INIT, as long as
the toggle's period, 2 in DISCONNECTING and nothing elsewhere. `CONN_TOGGLE_MS = 5` is
exactly what a shutdown may take here, intervals, hook and two late loops (0 + 2 + 1 + 2),
where the code has 60 s for 1.1 s and the hook. `millis()` wraps at 13, which is no
multiple of the toggle's period, so that it falls into every phase of it, and
`MaxElapsed = 7` lets `elapsed` count beyond the longest hook and loop together.
`LongestLoop = 1` makes a `check()` come before, at and after the end of an interval. Both
lengths in `Garbage`, empty and full, are outcomes of the copy from `NULL`.

| run | what it shows |
|---|---|
| `adapters` | all seven adapters, failing hardware, two settings, `loop()` calls everything, callbacks only look. `EventsExplainState`: the last event and the sketch's own calls determine the state. `DisconnectHonoured`, `DisconnectReleasesLink`: a handler taken down stays down and its driver is stopped. `SettingsInForce`: no accepted setting is left unused, but on WiFi. `InternetCheckedBeforeConnected`. `ImplementsLifecycle`: no hook of any adapter skips a state, leaves ERROR or CLOSED by itself or turns the keep-alive, and every event is told once. |
| `callbacks` | callbacks are added and removed and call the handler, `check()` too, from inside `check()`. `NeverReopens`: a `disconnect()` from a callback may lose its effect on the state, never its effect on `_keep_alive`: the handler does not get to INIT or CONNECTING, whose hooks begin, attach and join, and a tick stops the driver or leaves it alone. That is said of the states and of the tick, because on an adapter whose driver was never stopped (LoRa, Cellular, or any after line 61 took it past DISCONNECTING) a `begin()` does not show in the driver. |
| `liveness` | under fairness: `Reconnects` (adapters that retry), `DisconnectCompletes`, `LossDetected`. The sketch may also call `updateSetting()`, without which a default-constructed handler, whose CatM1 `_reset` is uninitialised, would never connect. `LossDetected` says that a CONNECTED on a network that is gone is withdrawn and not repeated; GSM without the Internet check may repeat it, since its CONNECTING asks nothing, and then withdraws it each time. Only CatM1's hardware may fail here, as it is the only one that the code can bring back. |
| `generic` | two supported adapters and requests for a third, WiFi hardware that may fail (the one of the two whose failure leads to ERROR), `INIT` slower than the other states. `InSync`: the two copies of the state agree, but for one named case that the next tick repairs (`Awaiting`), and the inner handler keeps no connection alive that the outer was told to let go. `WrapsHandler`: every step of the wrapper but `updateSetting()` is a step of `ConnectionHandler` or invisible there, a refinement with `Wrapped` as the handler, but for the interval of one tick (`MistimedTick`). `EventsExplainState`: the last event and the sketch's own calls determine the state of the handler it has now, although handlers are replaced without an event. `ImplementsLifecycle`: from the first call to the last the sketch deals with one connection, which begins in INIT and whose state no call but `connect()` and `disconnect()` changes. |
| `generic_callbacks` | callbacks that call the generic handler. `DisconnectHonoured` holds here although it does not for a concrete handler: line 61 overwrites the outer's state, the inner's is out of its reach. |
| `demos` | the three sketches on each adapter. `ImplementsConnectionHandler`: no tick comes early, whatever the clock's wrap. `NoTickLost`: none comes later than a loop after the end of an interval or of the longest hook. `ToggleFindsClosed`: `connect()` is called when the last `disconnect()` is complete. `CredentialsArrive`: the driver gets the sketch's texts whole. |

The six `v_` runs each check one sentence of the repository's documentation that the
code does not keep, and find the behaviour:

| run | the sentence | the behaviour |
|---|---|---|
| `v_reconnect` | `README.md:8`, automatic reconnection in case of connection-loss | after a connection with a link, NB, GSM and Cellular enter ERROR for good when the first attempt to reconnect fails |
| `v_nb_internet` | `CheckInternetAvailabilityDemo.ino:29-30` | NB never makes the check |
| `v_wifi_settings` | `ConnectionHandlerInterface.h:85-91` | settings accepted in INIT while the first association is under way: it completes with the old ones, and WiFi then skips `begin()` |
| `v_generic_update` | `ConnectionHandlerInterface.h:85-91`, otherwise nothing is performed | a refused update of the generic handler deletes the handler it had |
| `v_lora_mask` | `LoRaConnectionHandler.cpp:122`, set channelmask based on configuration | a LoRa sketch that gives no mask copies from `NULL`, and whatever that leaves is sent by a test that is always true |
| `v_generic_check` | `CheckInternetAvailabilityDemo.ino:29-30` | the flag set after `updateSetting()` does not reach the inner handler |

### Fairness

`FairSpec` assumes weak fairness of `Check` and `CheckReturn` (the sketch keeps calling
`check()` from `loop()`, and its callbacks return), of `Tick` (time passes) and of
`Associates` (a driver that the network would admit associates in the end). Nothing is
assumed of the network's other changes or of the sketch's other calls. `Reconnects`
therefore has as its hypothesis that from some time on the network is there and the
sketch only calls `check()`: a network that flaps for ever owes nobody a connection.

## 4. Proofs

The theorems hold for every set of adapters, settings, intervals, tables and calls and
every depth of nesting, where the runs check one instance. `ConnectionHandler_proof`:

| theorem | property | needs |
|---|---|---|
| `TypeCorrect` | `TypeOK` | |
| `DisconnectIsFinal` | `NeverReopens` | nothing: callbacks may call anything |
| `RunningInvHolds` | `RunningInv` | no callback calls the handler |
| `DisconnectIsHonoured` | `DisconnectHonoured` | no callback calls the handler |
| `DisconnectReleases` | `DisconnectReleasesLink` | no callback calls the handler |
| `EventsTellState` | `EventsExplainState` | `Listening`: the three callbacks are registered, stay so and only look |
| `SettingsAreInForce` | `SettingsInForce` | no callback calls `updateSetting()` |
| `LifecycleImplemented` | `ImplementsLifecycle` | `Listening` |
| `InternetIsChecked` | `InternetCheckedBeforeConnected` | no callback calls the handler, a build whose `ping()` works and tests it |

`GenericConnectionHandler_proof`:

| theorem | property | needs |
|---|---|---|
| `GenericTypeCorrect` | `TypeOK` | |
| `GenericDisconnectIsHonoured` | `DisconnectHonoured` | nothing: callbacks may call anything, `updateSetting()` included |
| `ObjectsInSync` | `InSync` | no callback calls the handler |
| `WrapperRefines` | `WrapsHandler` | no callback calls the handler |
| `GenericEventsTellState` | `EventsExplainState` | `Listening`: the three callbacks are registered, stay so and only look |
| `GenericLifecycleImplemented` | `ImplementsLifecycle` | `Listening` |

`ConnectionHandlerDemo_proof`:

| theorem | property | needs |
|---|---|---|
| `SketchesRefine` | `ImplementsConnectionHandler` | `SketchAssumption`: intervals fit an unsigned int, a hook and a loop are over before the clock laps |
| `TicksKept` | `NoTickLost` | `SketchAssumption` |
| `SketchTypesCorrect` | `DemoTypeOK` | `SketchAssumption` |
| `SketchesDisconnect` | `NeverReopens`, for the sketches | `SketchAssumption` |
| `CredentialsReachDriver` | `CredentialsArrive` | `SketchAssumption` |
| `ToggleComesAfterClosing` | `ToggleFindsClosed` | `ToggleAssumption` as well: the toggle's period covers the intervals of DISCONNECTING and DISCONNECTED, the hook that stops the driver and two loops (1100 ms, the hook and two loops, of 60 s). Hooks that begin, attach or join may block longer |

What a theorem needs is either an `ASSUME` of the module, which TLC evaluates on the
constants of its runs, or a hypothesis of the theorem (the last column where no
assumption is named), which the constants of the run that checks the property fulfil.

The argument. One lemma per hook states what all adapters have in common: the states it
may return, what it does to the driver, and what it asked before CONNECTED. `CheckStep`
and `AdjustStep` say what a tick and a setter change, `StepCases` sorts every step, and
each invariant is proved over those cases.

None of the properties of `ConnectionHandler` is inductive. `DisconnectIsFinal` rests on `DownInv`: after
`disconnect()`, `_keep_alive` is off and the state is neither INIT nor CONNECTING, and
the state that line 61 restores is one a callback is called for, so never one of these
two. `DownTick` adds that the hooks of the states that remain stop the driver or leave it
alone. The others rest on `RunningInv`: while a callback runs, the state is the one the
callback was told, so that `CheckReturn` changes nothing; this is what fails when a
callback calls the handler, whose `connect()` or `disconnect()` line 61 overwrites, and
why the theorems ask for callbacks that only look. `DisconnectReleasesLink` needs that DISCONNECTED is entered, on the way
down, through the hook that stops the driver; `SettingsInForce` needs that CONNECTING is
entered from INIT, which begins anew.

`LifecycleImplemented` is a step refinement: `CheckStep` gives the successor of a tick,
`EventsInv` that a change of state is told, and each call maps to the call of the same
name or to a stutter. `SketchesRefine` needs `DemoInv`: while `elapsed` counts, it equals
the difference that `check()` measures (`Ticking` is the arithmetic of one step of a
wrapping clock), and that difference stays below the modulus because, with what is left of the hook, it
is at most an interval, or the longest hook, and the time waited since. The same invariant gives `TicksKept`;
`SketchesDisconnect` follows from `SketchesRefine` and a theorem about
`ConnectionHandler` alone.

`GenericDisconnectIsHonoured` is inductive with the types alone, and that is what sets
the generic handler apart: line 61 assigns the outer's state and cannot reach the inner's,
`updateSetting()` is refused outside INIT, and no hook and no setter leads out of the
three states with the keep-alive off. `ObjectsInSync` rests on `SyncInv`: a callback runs
exactly while the outer waits to be assigned the inner's state, and without an inner
handler check() and the methods leave the outer in INIT or DISCONNECTING, the two
states in which a new handler can find it.

`WrapperRefines` is a step refinement under `Wrapped`. The hooks read neither callbacks
nor timeouts (`SameHooks`), and each method commutes with the wrapping. A tick that
`check()` makes is due by the outer's state, and by `SyncInv` that is the inner's, with one
exception: a `disconnect()` that found no handler, followed by `updateSetting()`, leaves
the outer in DISCONNECTING over a new handler in INIT, and the first tick waits for the
wrong one of two intervals. The theorem with no exception is false. It was proved only
after the exception was found, by the step that failed and a run with `SlowInit`, and
`MistimedTick` states it: the same tick of the same handler, sooner or later.

`GenericEventsTellState` and `GenericLifecycleImplemented` are about `Connection` and go
by way of `updateSetting()`, which `WrapperRefines` leaves out. `UpdateKeepsState`: it is
refused outside INIT, and a new handler begins in INIT, so that replacing one shows as a
`setKeepAlive()`. `CheckTells` is what remains to be shown of a tick: `check()` compares
the inner's next state with the outer's, so a change might be told twice or not at all
where the two differ. By `SyncInv` they differ only when the outer is in DISCONNECTING
over a new handler in INIT, and INIT's successors do not include DISCONNECTING. Without
an inner handler a tick takes the outer from DISCONNECTING to INIT and tells nothing,
neither being an event. The generic `EventsInv` is the history invariant of
`ConnectionHandler` with `Connection` in the handler's place.

`CredentialsReachDriver` needs `CredentialsInv`: the handler keeps the settings of its
constructor, and so does a driver that runs, or one that a handler other than WiFi's is
about to use in CONNECTING. The copy is the lemma `TextsFit`, for every text no longer
than its comment allows. LoRa is left out because of the finding `v_lora_mask`.

`ToggleComesAfterClosing` is about two clocks, the handler's and the sketch's, both
differences on a `millis()` that wraps. `Closing` bounds the one by the other: in
DISCONNECTING no more time has passed since the toggle than since the last tick, and at most
that state's interval and the wait for the current `check()`; in DISCONNECTED at most the
first interval, one loop and the time since the tick, which is at most the hook of
DISCONNECTING, the second interval and the wait. A hook of
INIT or of a reconnection that blocks for minutes does not matter: it is over when
`loop()` comes to the toggle, and the toggle calls `disconnect()` then. At a toggle that is due more time
has passed than both bounds add up to, so the handler is in CLOSED. `ToggleClockInv`
keeps the sketch's difference from wrapping.

Each inductive invariant (`SyncInv`, the two `EventsInv`, `CredentialsInv`, `CallbackInv`, `ToggleInv` and those
before) was checked by TLC as an invariant of the corresponding run before it was proved.

Only model-checked: the three liveness properties, because liveness under fairness is out
of the prover's reach. Every safety invariant and action property of the passing runs is
proved, under the hypotheses above. What the six `v_` runs refute is false, and there is
nothing to prove.

## 5. Not modelled

- The members of settings that are numbers, and Ethernet addresses: `ip_addr.type` is
  never set, and what `IPAddress` makes of it is the core's business.
- Buffers of handlers that are not global: nothing zeroes them.
- Intervals that do not fit an unsigned int (65536 ms and more on an AVR): excluded by
  `SketchAssumption`.
- `GenericConnectionHandlerDemo` as a module of its own: `GenericConnectionHandler` allows
  every call it makes, in any order.
- A driver for each adapter under the generic handler: the model has the one in use.
- The data path (`getClient`, `getUDP`, `read`, `write`) and the queries (`getTime`,
  `ping` by the sketch), which keep no state. `getUDP()` of Cellular never returns.
- Board selection by the preprocessor: its results are constants.
- Debug output, delays inside hooks, watchdog calls.

## 6. Plan

1. *Done*: definitions, driver, object, adapters, interface, `ConnectionHandler`; runs
   `adapters`, `callbacks`, `liveness`; its invariants proved; `GenericConnectionHandler`
   with its refinement of `ConnectionHandler` as a run.
2. *Done*: `ConnectionLifecycle`, implemented by `ConnectionHandler`, as a run and a
   theorem; `check()` nested in callbacks; whole timeout tables.
3. *Done*: the sketches with wrapping clocks and buffers, as a run, with the refinement
   of `ConnectionHandler` and `NoTickLost` proved.
4. *Done*: `GenericConnectionHandler_proof`, with type correctness, `InSync`,
   `DisconnectHonoured` and `WrapsHandler` as a step refinement.
5. *Done*: `CredentialsArrive` and `ToggleFindsClosed` as theorems.
6. One driver per adapter under the generic handler, for the drivers that deleted
   handlers leave running.
7. *Done*: what a sketch with a generic handler can tell from its events, and the
   lifecycle it implements, as properties and theorems.
8. `InternetCheckedBeforeConnected` and `SettingsInForce` for the generic handler, with
   the copies of the flag and of the settings that `updateSetting()` makes.
