----------------------- MODULE GenericConnectionHandler -----------------------
(***************************************************************************)
(* A sketch that owns a GenericConnectionHandler: an outer object that     *)
(* keeps the timing, the callbacks and a state of its own, and an inner    *)
(* concrete handler that updateSetting() allocates, replaces and deletes.  *)
(*                                                                         *)
(* The inner handler's own clock, callbacks and timeout table are never    *)
(* used.  As in ConnectionHandler, calls that change nothing are not steps.*)
(***************************************************************************)
EXTENDS ConnectionHandlerInterface, Sequences

CONSTANTS
    Supported,      \* the adapters of the board (BOARD_HAS_...)
    Requested,      \* the types of the settings the sketch offers
    FaultyAdapters, \* the adapters whose hardware may fail
    TimeoutChoices, RetimedStates, TimeoutTables, MaxElapsed,
    LoopCalls, CallbackCalls, SetUpCallbacks, MaxNesting  \* as in ConnectionHandler

ASSUME GenericAssumption ==
    /\ Supported \subseteq NetworkAdapter \ {"LORA"}
    /\ Requested \subseteq NetworkAdapter
    /\ FaultyAdapters \subseteq Supported
    /\ SetUpCallbacks \subseteq NetworkConnectionEvent
    /\ MaxElapsed \in Nat
    /\ RetimedStates \subseteq NetworkConnectionState
    /\ TimeoutChoices \subseteq 0 .. (MaxElapsed - 1)
    /\ TimeoutTables \cup {DefaultTimeoutTable}
          \subseteq [NetworkConnectionState -> 0 .. (MaxElapsed - 1)]
    /\ MaxNesting \in Nat
    /\ NoSetting \notin Settings

VARIABLES
    outer,    \* the GenericConnectionHandler itself
    inner,    \* the object _ch points to, or nullptr
    used,     \* the adapters that had a handler: their drivers may be running
    elapsed, running, told, asked,  \* of the outer, as in ConnectionHandler
    want      \* history: "down" from a disconnect() that found an inner handler
              \* until the sketch asks for a connection again

history == <<told, asked, want>>
program == <<outer, inner, used, elapsed, running, history>>
vars == <<program, dev>>

nullptr == [interface |-> None]
Allocated == inner # nullptr

OuterObject ==
    [interface      : NetworkAdapter \cup {None},
     state          : NetworkConnectionState,
     keep_alive     : BOOLEAN,
     check_internet : BOOLEAN,
     settings       : {NoSetting},
     timeoutTable   : [NetworkConnectionState -> Nat],
     callbacks      : SUBSET NetworkConnectionEvent]

TypeOK ==
    /\ outer \in OuterObject
    /\ Allocated => inner \in Handler /\ inner.interface \in Supported
    /\ used \subseteq Supported
    /\ elapsed \in 0 .. MaxElapsed
    /\ running \in Seq(NetworkConnectionEvent)
    /\ told \in NetworkConnectionEvent \cup {None}
    /\ asked \in {None, "connect", "disconnect"}
    /\ want \in {"up", "down"}
    /\ dev \in Device

GenericConstructed(keep_alive) == Constructed(None, keep_alive, FALSE, NoSetting)

Init ==
    /\ \E k \in BOOLEAN :
          outer = [GenericConstructed(k) EXCEPT !.callbacks = SetUpCallbacks]
    /\ inner = nullptr
    /\ used = {}
    /\ PoweredOn /\ ~dev.reset /\ ~dev.fault
    /\ elapsed = 0
    /\ running = <<>>
    /\ told = None
    /\ asked = None
    /\ want = "up"

-----------------------------------------------------------------------------
(* check(): the base class's, over the overridden updateConnectionState.   *)

\* Mutant: updateConnectionState() is not overridden: the base class's switch on
\* the outer's state calls the hooks that are forwarded to the inner handler.
genericUpdateConnectionState_OuterSwitch(next) ==
    \/ /\ Allocated
       /\ updateConnectionState([inner EXCEPT !.state = outer.state], next)
       /\ inner' = [inner EXCEPT !.state = next]
    \/ /\ ~Allocated
       /\ next = "INIT"
       /\ UNCHANGED <<inner, dev>>

\* With an inner handler, its state machine runs and its state is assigned; the
\* outer's is not.
genericUpdateConnectionState(next) ==
    \/ /\ Allocated
       /\ updateConnectionState(inner, next)
       /\ inner' = [inner EXCEPT !.state = next]
    \/ /\ ~Allocated
       /\ next = "INIT"
       /\ UNCHANGED <<inner, dev>>

MayCheck ==
    \/ running = <<>>
    \/ "check" \in CallbackCalls /\ Len(running) < MaxNesting

\* The outer's state is assigned by check() itself, after the callback if any.
Check ==
    /\ MayCheck
    /\ elapsed > outer.timeoutTable[outer.state]
    /\ elapsed' = 0
    /\ \E next \in NetworkConnectionState :
          /\ genericUpdateConnectionState(next)
          /\ IF callsBack(outer, next)
             THEN /\ running' = <<next>> \o running /\ told' = next /\ asked' = None
                  /\ UNCHANGED outer
             ELSE /\ outer' = [outer EXCEPT !.state = next]
                  /\ UNCHANGED <<running, told, asked>>
    /\ UNCHANGED <<used, want>>

\* Mutant: check() relies on updateConnectionState() to assign the state.
CheckReturn_NoAssignment ==
    /\ running # <<>>
    /\ running' = Tail(running)
    /\ UNCHANGED <<outer, inner, used, elapsed, history, dev>>

CheckReturn ==
    /\ running # <<>>
    /\ outer' = [outer EXCEPT !.state = Head(running)]
    /\ running' = Tail(running)
    /\ UNCHANGED <<inner, used, elapsed, history, dev>>

-----------------------------------------------------------------------------
(* The methods the sketch calls.                                           *)

Calls(method) ==
    method \in IF running = <<>> THEN LoopCalls ELSE CallbackCalls

Connect ==
    /\ Calls("connect")
    /\ outer' = connect(outer)
    /\ inner' = IF Allocated THEN connect(inner) ELSE inner
    /\ IF Allocated /\ inner' # inner
       THEN asked' = "connect" /\ want' = "up"
       ELSE UNCHANGED <<asked, want>>
    /\ UNCHANGED <<used, elapsed, running, told, dev>>

\* Mutant: the inner handler does not hear of disconnect().
Disconnect_NotForwarded ==
    /\ Calls("disconnect")
    /\ outer' = disconnect(outer)
    /\ IF Allocated
       THEN asked' = "disconnect" /\ want' = "down"
       ELSE UNCHANGED <<asked, want>>
    /\ UNCHANGED <<inner, used, elapsed, running, told, dev>>

Disconnect ==
    /\ Calls("disconnect")
    /\ outer' = disconnect(outer)
    /\ inner' = IF Allocated THEN disconnect(inner) ELSE inner
    /\ IF Allocated
       THEN asked' = "disconnect" /\ want' = "down"
       ELSE UNCHANGED <<asked, want>>
    /\ UNCHANGED <<used, elapsed, running, told, dev>>

SetKeepAlive(keep_alive) ==
    /\ Calls("setKeepAlive")
    /\ outer' = setKeepAlive(outer, keep_alive)
    /\ inner' = IF Allocated THEN setKeepAlive(inner, keep_alive) ELSE inner
    /\ want' = IF keep_alive THEN "up" ELSE want
    /\ UNCHANGED <<used, elapsed, running, told, asked, dev>>

\* Not virtual: the inner handler does not hear of it.
EnableCheckInternetAvailability(enable) ==
    /\ Calls("enableCheckInternetAvailability")
    /\ outer' = enableCheckInternetAvailability(outer, enable)
    /\ UNCHANGED <<inner, used, elapsed, running, history, dev>>

UpdateTimeoutInterval(state, interval) ==
    /\ Calls("updateTimeoutInterval")
    /\ outer' = updateTimeoutInterval(outer, state, interval)
    /\ UNCHANGED <<inner, used, elapsed, running, history, dev>>

UpdateTimeoutTable(table) ==
    /\ Calls("updateTimeoutTable")
    /\ outer' = updateTimeoutTable(outer, table)
    /\ UNCHANGED <<inner, used, elapsed, running, history, dev>>

AddCallback(event, registered) ==
    /\ Calls("addCallback")
    /\ outer' = addCallback(outer, event, registered)
    /\ UNCHANGED <<inner, used, elapsed, running, history, dev>>

-----------------------------------------------------------------------------
(* updateSetting()                                                         *)

\* The default constructor of each supported adapter; Ethernet's default arguments
\* make it a DHCP handler, whose settings updateSetting() replaces at once.
instantiate_handler(adapter) == Constructed(adapter, TRUE, FALSE, NoSetting)

\* What updateSetting() passes on to the inner handler before the settings.
Forwarded(h) ==
    enableCheckInternetAvailability(setKeepAlive(h, outer.keep_alive),
                                    outer.check_internet)

\* From now on dev is the driver of another adapter, under any network: as it was
\* at power on, or as an earlier handler of that adapter left it when it was
\* deleted.  instantiate_handler() leaves CatM1's _reset uninitialised.
SwitchesDriver(adapter) ==
    /\ dev' \in {d \in Device :
                    /\ d.link => d.started /\ d.coverage /\ ~d.fault
                    /\ adapter \notin used =>
                          ~d.started /\ d.cfg = NoSetting /\ d.mask = NoSetting
                    /\ d.mask # NoSetting => adapter = "LORA"
                    /\ d.fault => adapter \in FaultyAdapters
                    /\ d.reset => adapter = "CATM1"}
    /\ used' = used \cup {adapter}

\* Mutant: updateSetting() does not look at the inner handler's state.
Refuses_Never == FALSE

Refuses == Allocated /\ inner.state # "INIT"

\* The inner handler stays: it is in INIT and of the settings' type.
UpdatesInner(type, s) ==
    /\ Allocated /\ outer.interface = type
    /\ inner' = updateSetting(Forwarded(inner), type, s)
    /\ UNCHANGED <<outer, used, dev>>

\* There was none, or one of another type, which is deleted.
AllocatesInner(type, s) ==
    /\ ~(Allocated /\ outer.interface = type)
    /\ type \in Supported
    /\ outer' = [outer EXCEPT !.interface = type]
    /\ inner' = updateSetting(Forwarded(instantiate_handler(type)), type, s)
    /\ SwitchesDriver(type)

\* The board does not have the adapter: the old handler is gone all the same.
LosesInner(type) ==
    /\ Allocated /\ outer.interface # type
    /\ type \notin Supported
    /\ outer' = [outer EXCEPT !.interface = None]
    /\ inner' = nullptr
    /\ UNCHANGED <<used, dev>>

UpdateSetting(type, s) ==
    /\ Calls("updateSetting")
    /\ ~Refuses
    /\ UpdatesInner(type, s) \/ AllocatesInner(type, s) \/ LosesInner(type)
    /\ UNCHANGED <<elapsed, running, history>>

\* The value updateSetting() returns.
ReturnsTrue(type) == ~Refuses /\ type \in Supported

-----------------------------------------------------------------------------
(* The environment.  Without an inner handler no driver is in use.         *)

Tick ==
    /\ elapsed < MaxElapsed
    /\ elapsed' = elapsed + 1
    /\ UNCHANGED <<outer, inner, used, running, history, dev>>

Associates      == Allocated /\ Associate      /\ UNCHANGED program
LosesNetwork    == Allocated /\ LoseNetwork    /\ UNCHANGED program
FindsNetwork    == Allocated /\ FindNetwork    /\ UNCHANGED program
TogglesInternet == Allocated /\ ToggleInternet /\ UNCHANGED program

Fails ==
    /\ inner.interface \in FaultyAdapters
    /\ HardwareFails
    /\ UNCHANGED program

-----------------------------------------------------------------------------

Application ==
    \/ Connect
    \/ Disconnect
    \/ \E b \in BOOLEAN : SetKeepAlive(b)
    \/ \E b \in BOOLEAN : EnableCheckInternetAvailability(b)
    \/ \E type \in Requested, s \in Settings : UpdateSetting(type, s)
    \/ \E st \in RetimedStates, t \in TimeoutChoices :
          UpdateTimeoutInterval(st, t)
    \/ \E table \in TimeoutTables : UpdateTimeoutTable(table)
    \/ \E e \in NetworkConnectionEvent, b \in BOOLEAN : AddCallback(e, b)

Network == LosesNetwork \/ FindsNetwork \/ TogglesInternet \/ Fails

Next == Check \/ CheckReturn \/ Application \/ Tick \/ Associates \/ Network

Spec == Init /\ [][Next]_vars

-----------------------------------------------------------------------------
(* Properties.                                                             *)

\* The sketch provided settings after a disconnect() that found no handler: the
\* next tick brings the two states together.
Awaiting == inner.state = "INIT" /\ outer.state = "DISCONNECTING"

\* Two objects keep one state: between two calls they agree, or the outer waits for
\* the first tick of a new handler; and no handler keeps a connection alive that the
\* outer was told to let go.  Holds when no callback calls the handler.
InSync ==
    Allocated =>
        /\ outer.interface = inner.interface
        /\ inner.state = outer.state \/ running = <<inner.state>> \/ Awaiting
        /\ inner.keep_alive => outer.keep_alive

\* disconnect() takes the inner handler down and it stays down, also when a
\* callback called it: the inner's state is out of reach of the second assignment
\* in check(), and updateSetting() is refused until connect().
DisconnectHonoured ==
    want = "down" =>
        /\ Allocated
        /\ inner.state \in {"DISCONNECTING", "DISCONNECTED", "CLOSED"}
        /\ ~inner.keep_alive

\* The inner handler with the outer's callbacks and timeouts is a ConnectionHandler.
Wrapped == [inner EXCEPT !.callbacks = outer.callbacks,
                         !.timeoutTable = outer.timeoutTable]

Concrete ==
    INSTANCE ConnectionHandler WITH Adapters <- Supported, self <- Wrapped

Reconfigures == \E type \in Requested, s \in Settings : UpdateSetting(type, s)

\* The first tick after a disconnect() that found no handler and an updateSetting():
\* it is INIT's, but check() waited the interval of the outer's DISCONNECTING.
MistimedTick ==
    /\ Awaiting
    /\ elapsed > outer.timeoutTable["DISCONNECTING"]
    /\ Concrete!Advance
    /\ elapsed' = 0
    /\ UNCHANGED want

\* Between two calls of updateSetting() the wrapper behaves as the handler it
\* wraps: every step of it is a step of ConnectionHandler, or invisible there, but
\* for the interval of one tick.  Holds when no callback calls the handler.
WrapsHandler ==
    [][Allocated /\ ~Reconfigures
          => Concrete!Next \/ MistimedTick \/ UNCHANGED Concrete!vars]_vars

\* A sketch that has registered the three callbacks and never calls the handler from
\* them can tell the state of the handler it has now from the last event and its own
\* calls since, although updateSetting() replaces handlers (and their state) without
\* an event, and check() compares with the outer's state (check() and updateSetting()).
EventsExplainState == Allocated => Concrete!EventsExplainState

\* What the sketch has: without a handler, a connection that waits to begin.
Connection ==
    IF Allocated THEN inner ELSE [state |-> "INIT", keep_alive |-> outer.keep_alive]

Lifecycle ==
    INSTANCE ConnectionLifecycle WITH
        state <- Connection.state, keep_alive <- Connection.keep_alive

\* Over its whole life, with handlers that updateSetting() allocates, replaces and
\* deletes, the generic handler is one connection as ConnectionLifecycle describes it.
\* Holds when the three callbacks are registered and call nothing.
ImplementsLifecycle == Lifecycle!Spec

-----------------------------------------------------------------------------
(* What the documentation says.                                            *)

\* "otherwise nothing is performed" (ConnectionHandlerInterface.h:85-91): a call of
\* updateSetting() that returns false leaves the configuration as it was.
FailedUpdateChangesNothing ==
    [][\A type \in Requested, s \in Settings :
          UpdateSetting(type, s) /\ ~ReturnsTrue(type) => UNCHANGED <<outer, inner>>]_vars

\* CheckInternetAvailabilityDemo.ino:29-30: the Internet is checked before the
\* Connected state is reported, from when the sketch enabled the check.
ChecksInternetOnceEnabled ==
    [][/\ outer.state # "CONNECTED" /\ outer'.state = "CONNECTED"
       /\ outer.check_internet
       /\ outer.interface = "WIFI"
       => inner.check_internet]_vars

=============================================================================
