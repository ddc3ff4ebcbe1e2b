-------------------------- MODULE ConnectionHandler --------------------------
(***************************************************************************)
(* A sketch that owns one concrete connection handler: loop() calls        *)
(* check() and, now and then, other methods of the handler; check() runs   *)
(* at most one hook and may call back into the sketch, whose callback may  *)
(* call methods of the same handler, check() among them, before the check()*)
(* that called it goes on.  The program has one thread; the network below  *)
(* it changes at any time.                                                 *)
(*                                                                         *)
(* Calls that change nothing are not steps of the model: a check() before  *)
(* its interval has passed, connect() in INIT or CONNECTING, a rejected    *)
(* updateSetting().                                                        *)
(***************************************************************************)
EXTENDS ConnectionHandlerInterface, Sequences

CONSTANTS
    Adapters,       \* the interfaces to start with
    FaultyAdapters, \* those of them whose hardware may fail
    TimeoutChoices, \* the intervals updateTimeoutInterval() may be given
    RetimedStates,  \* and the states it may be given them for
    TimeoutTables,  \* the tables updateTimeoutTable() may be given
    MaxElapsed,     \* the clock stops here: bound on the time since a tick
    LoopCalls,      \* the methods that loop() calls besides check()
    CallbackCalls,  \* the methods that the callbacks call
    SetUpCallbacks, \* the events setup() registers callbacks for
    MaxNesting      \* bound on the callbacks that run inside each other

Methods ==
    {"check", "connect", "disconnect", "setKeepAlive",
     "enableCheckInternetAvailability", "updateSetting",
     "updateTimeoutInterval", "updateTimeoutTable", "addCallback"}

ASSUME AdaptersAssumption ==
    Adapters \subseteq NetworkAdapter /\ FaultyAdapters \subseteq Adapters

ASSUME TimeAssumption ==
    /\ MaxElapsed \in Nat
    /\ TimeoutChoices \subseteq 0 .. (MaxElapsed - 1)
    /\ TimeoutTables \cup {DefaultTimeoutTable}
          \subseteq [NetworkConnectionState -> 0 .. (MaxElapsed - 1)]

ASSUME CallsAssumption ==
    /\ RetimedStates \subseteq NetworkConnectionState
    /\ LoopCalls \subseteq Methods /\ CallbackCalls \subseteq Methods
    /\ SetUpCallbacks \subseteq NetworkConnectionEvent
    /\ MaxNesting \in Nat

ASSUME SettingsAssumption ==
    NoSetting \notin Settings /\ EspCore \in BOOLEAN /\ CanPing \in BOOLEAN

VARIABLES
    self,    \* the handler object
    elapsed, \* millis() - _lastConnectionTickTime, saturating at MaxElapsed
    running, \* the next_net_connection_state of each check() that waits for its
             \* callback, the innermost first
    told,    \* history: the last event a callback was called for
    asked,   \* history: the last effective connect() or disconnect() since then
    want     \* history: "down" from a disconnect() until the sketch asks for a
             \* connection again

history == <<told, asked, want>>
program == <<self, elapsed, running, history>>
vars == <<program, dev>>

TypeOK ==
    /\ self \in Handler
    /\ self.interface \in Adapters
    /\ elapsed \in 0 .. MaxElapsed
    /\ running \in Seq(NetworkConnectionEvent)
    /\ told \in NetworkConnectionEvent \cup {None}
    /\ asked \in {None, "connect", "disconnect"}
    /\ want \in {"up", "down"}
    /\ dev \in Device

\* A constructor has run and setup() has registered its callbacks.  The default
\* constructor of CatM1 leaves _reset uninitialised.
Init ==
    /\ \E h \in ConstructedObjects :
          /\ h.interface \in Adapters
          /\ self = [h EXCEPT !.callbacks = SetUpCallbacks]
    /\ PoweredOn
    /\ dev.reset => self = [CatM1_ConstructedDefault
                              EXCEPT !.callbacks = SetUpCallbacks]
    /\ self.interface \notin FaultyAdapters => ~dev.fault
    /\ elapsed = 0
    /\ running = <<>>
    /\ told = None
    /\ asked = None
    /\ want = "up"

-----------------------------------------------------------------------------
(* check()                                                                 *)

\* The time since the last tick exceeds the interval of the current state.
Due == elapsed > self.timeoutTable[self.state]

\* loop() calls check(); a callback may.
MayCheck ==
    \/ running = <<>>
    \/ "check" \in CallbackCalls /\ Len(running) < MaxNesting

\* One hook runs, its result is assigned (in updateConnectionState), and a change
\* of state may call back.
Advance ==
    \E next \in NetworkConnectionState :
       /\ updateConnectionState(self, next)
       /\ self' = [self EXCEPT !.state = next]
       /\ IF callsBack(self, next)
          THEN running' = <<next>> \o running /\ told' = next /\ asked' = None
          ELSE UNCHANGED <<running, told, asked>>

Check ==
    /\ MayCheck
    /\ Due
    /\ Advance
    /\ elapsed' = 0
    /\ UNCHANGED want

\* The innermost callback returns and the check() that called it assigns its local
\* next state once more.
CheckReturn ==
    /\ running # <<>>
    /\ self' = [self EXCEPT !.state = Head(running)]
    /\ running' = Tail(running)
    /\ UNCHANGED <<elapsed, history, dev>>

-----------------------------------------------------------------------------
(* The methods the sketch calls, from loop() or from a callback.           *)

Calls(method) ==
    method \in IF running = <<>> THEN LoopCalls ELSE CallbackCalls

Connect ==
    /\ Calls("connect")
    /\ self.state \notin {"INIT", "CONNECTING"}
    /\ self' = connect(self)
    /\ asked' = "connect"
    /\ want' = "up"
    /\ UNCHANGED <<elapsed, running, told, dev>>

Disconnect ==
    /\ Calls("disconnect")
    /\ self' = disconnect(self)
    /\ asked' = "disconnect"
    /\ want' = "down"
    /\ UNCHANGED <<elapsed, running, told, dev>>

SetKeepAlive(keep_alive) ==
    /\ Calls("setKeepAlive")
    /\ self' = setKeepAlive(self, keep_alive)
    /\ want' = IF keep_alive THEN "up" ELSE want
    /\ UNCHANGED <<elapsed, running, told, asked, dev>>

EnableCheckInternetAvailability(enable) ==
    /\ Calls("enableCheckInternetAvailability")
    /\ self' = enableCheckInternetAvailability(self, enable)
    /\ UNCHANGED <<elapsed, running, history, dev>>

UpdateSetting(s) ==
    /\ Calls("updateSetting")
    /\ acceptsSetting(self, self.interface)
    /\ self' = updateSetting(self, self.interface, s)
    /\ UNCHANGED <<elapsed, running, history, dev>>

UpdateTimeoutInterval(state, interval) ==
    /\ Calls("updateTimeoutInterval")
    /\ self' = updateTimeoutInterval(self, state, interval)
    /\ UNCHANGED <<elapsed, running, history, dev>>

UpdateTimeoutTable(table) ==
    /\ Calls("updateTimeoutTable")
    /\ self' = updateTimeoutTable(self, table)
    /\ UNCHANGED <<elapsed, running, history, dev>>

AddCallback(event, registered) ==
    /\ Calls("addCallback")
    /\ self' = addCallback(self, event, registered)
    /\ UNCHANGED <<elapsed, running, history, dev>>

-----------------------------------------------------------------------------
(* The environment: the clock, the hardware and the network.               *)

Tick ==
    /\ elapsed < MaxElapsed
    /\ elapsed' = elapsed + 1
    /\ UNCHANGED <<self, running, history, dev>>

Associates      == Associate      /\ UNCHANGED program
LosesNetwork    == LoseNetwork    /\ UNCHANGED program
FindsNetwork    == FindNetwork    /\ UNCHANGED program
TogglesInternet == ToggleInternet /\ UNCHANGED program

Fails ==
    /\ self.interface \in FaultyAdapters
    /\ HardwareFails
    /\ UNCHANGED program

-----------------------------------------------------------------------------

Application ==
    \/ Connect
    \/ Disconnect
    \/ \E b \in BOOLEAN : SetKeepAlive(b)
    \/ \E b \in BOOLEAN : EnableCheckInternetAvailability(b)
    \/ \E s \in Settings : UpdateSetting(s)
    \/ \E st \in RetimedStates, t \in TimeoutChoices :
          UpdateTimeoutInterval(st, t)
    \/ \E table \in TimeoutTables : UpdateTimeoutTable(table)
    \/ \E e \in NetworkConnectionEvent, b \in BOOLEAN : AddCallback(e, b)

Network == LosesNetwork \/ FindsNetwork \/ TogglesInternet \/ Fails

Next == Check \/ CheckReturn \/ Application \/ Tick \/ Associates \/ Network

Spec == Init /\ [][Next]_vars

\* loop() keeps calling check(), callbacks return, time passes, and a driver that
\* the network admits does associate.
Fairness ==
    /\ WF_vars(Check)
    /\ WF_vars(CheckReturn)
    /\ WF_vars(Tick)
    /\ WF_vars(Associates)

FairSpec == Spec /\ Fairness

-----------------------------------------------------------------------------
(* Safety.                                                                 *)

\* A sketch that has registered the three callbacks and never calls the handler
\* from them can tell the state of the connection from the last event and its own
\* calls since: check() (ConnectionHandlerInterface.cpp:36-66) delivers every
\* change a sketch has to know of, once, and delivers no other.
EventsExplainState ==
    running = <<>> =>
        /\ asked = "connect" => self.state \in {"INIT", "CONNECTING"}
        /\ asked = "disconnect" => self.state = "DISCONNECTING"
        /\ asked = None =>
              CASE told = "CONNECTED" -> self.state = "CONNECTED"
                [] told = "ERROR" -> self.state = "ERROR"
                [] told = "DISCONNECTED" ->
                      self.state \in {"DISCONNECTED", "INIT", "CONNECTING", "CLOSED"}
                [] told = None -> self.state \in {"INIT", "CONNECTING"}

\* After disconnect() from loop() the handler goes down and stays down, whatever
\* the network does, until connect() or setKeepAlive(true): no tick that was due
\* earlier, and no hook, takes it back up.
DisconnectHonoured ==
    want = "down" =>
        /\ self.state \in {"DISCONNECTING", "DISCONNECTED", "CLOSED"}
        /\ ~self.keep_alive

\* Where the disconnecting hook reaches the driver (all but LoRa and Cellular), a
\* handler that was taken down reports DISCONNECTED or CLOSED only with the driver
\* stopped: no association in progress can come up behind its back.
DisconnectReleasesLink ==
    /\ want = "down"
    /\ self.interface \notin {"LORA", "CELL"}
    /\ self.state \in {"DISCONNECTED", "CLOSED"}
    => ~dev.started /\ ~dev.link

\* A handler that is connecting or connected uses the settings it holds: because
\* updateSetting() is refused outside INIT, and INIT always begins anew, no accepted
\* setting is left unused.  WiFi skips begin() on an association it already has:
\* see WiFiSettingsInForce.
SettingsInForce ==
    /\ self.interface # "WIFI"
    /\ self.state \in {"CONNECTING", "CONNECTED"}
    => dev.cfg = self.settings

\* What the comment on updateSetting() (ConnectionHandlerInterface.h:85-91) says of
\* every interface, for WiFi: an update that returned true took effect once the
\* handler connects.
WiFiSettingsInForce ==
    self.interface = "WIFI" /\ self.state = "CONNECTED" => dev.cfg = self.settings

-----------------------------------------------------------------------------
(* Action properties.                                                      *)

Enters(state) == self.state # state /\ self'.state = state

ChecksInternet(interface) ==
    Enters("CONNECTED") /\ self.interface = interface /\ self.check_internet
        => dev.link /\ dev.internet

\* With the check enabled, a handler that pings does not go to CONNECTED while the
\* Internet is out of reach (update_handleConnecting of each adapter), whenever
\* before that tick the check was enabled.  NB and LoRa have no check, Cellular's
\* does not ask the Internet.
InternetCheckedBeforeConnected ==
    [][\A i \in {"WIFI", "ETHERNET", "GSM", "CATM1"} : ChecksInternet(i)]_vars

\* CheckInternetAvailabilityDemo.ino:29-30 says it of every IP based connectivity
\* and builds for NB too.
NBChecksInternet == [][ChecksInternet("NB")]_vars

\* Once the sketch has called disconnect(), from loop() or from a callback, the
\* handler is never again in one of the two states whose hooks begin, attach or join,
\* and a tick stops the driver or leaves it alone: a call from a callback may lose
\* its effect on the state (line 61 overwrites it), never its effect on _keep_alive.
NeverReopens ==
    [][/\ want' = "down" => self'.state \notin {"INIT", "CONNECTING"}
       /\ want = "down" /\ Check => UNCHANGED dev \/ Stopped]_vars

-----------------------------------------------------------------------------
(* The abstract specification.                                             *)

Lifecycle ==
    INSTANCE ConnectionLifecycle WITH
        state <- self.state, keep_alive <- self.keep_alive

\* Every adapter, under any network and any calls from loop(), is the connection
\* that ConnectionLifecycle describes: the hooks of no adapter skip a state, leave
\* ERROR or CLOSED by themselves or change keep_alive, and check() tells every
\* event once (updateConnectionState and updateCallback over the seven adapters).
\* Holds when the three callbacks are registered and call nothing.
ImplementsLifecycle == Lifecycle!Spec

-----------------------------------------------------------------------------
(* Liveness, under FairSpec.                                               *)

\* From some time on the sketch makes no call but check() and the network rests.
Quiet == <>[][Check \/ CheckReturn \/ Tick \/ Associates]_vars

Reachable ==
    dev.coverage /\ dev.internet /\ self.settings # NoSetting

Recovers ==
    Quiet /\ <>[](Reachable /\ self.keep_alive /\ want = "up")
          /\ <>[](self.state # "CLOSED")
        => <>[](self.state = "CONNECTED")

\* The adapters that treat a network they do not find as an ERROR.
GiveUp == {"NB", "GSM", "CELL"}

\* "Automatic reconnection in case of connection-loss" (README.md:8): a handler with
\* keep-alive that was not closed ends up connected once the network is there to
\* stay, whatever happened before.
Reconnects == self.interface \notin GiveUp => Recovers

\* The same promise, which the README makes for these adapters too: a connection
\* that was there once comes back.
ModemsReconnect ==
    self.interface \in GiveUp /\ <>(self.state = "CONNECTED" /\ dev.link) => Recovers

\* Every disconnect() is carried out, or revoked by the sketch.
DisconnectCompletes ==
    want = "down" ~> (self.state \in {"DISCONNECTED", "CLOSED"} \/ want = "up")

\* A handler does not go on reporting CONNECTED on a network that is gone: the report
\* is withdrawn, and not repeated.  A GSM handler without the Internet check may
\* repeat it (GSMConnectionHandler.cpp:103,115), and withdraws it again.
LossDetected ==
    <>[](~dev.coverage) =>
        /\ []<>(self.state # "CONNECTED")
        /\ <>[](self.interface # "GSM" \/ self.check_internet)
              => <>[](self.state # "CONNECTED")

=============================================================================
