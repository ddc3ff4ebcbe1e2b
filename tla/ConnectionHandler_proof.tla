----------------------- MODULE ConnectionHandler_proof -----------------------
(***************************************************************************)
(* Theorems about ConnectionHandler, for every set of adapters, settings,  *)
(* intervals and calls.                                                    *)
(***************************************************************************)
EXTENDS ConnectionHandler, ConnectionHandlerInterface_proof

-----------------------------------------------------------------------------
(* Type correctness.                                                       *)

\* The steps that leave the program alone.
EnvironmentStep == Associates \/ Network

\* What the network and the hardware do by themselves leaves a driver state.
LEMMA EnvironmentTypes ==
    ASSUME TypeOK, EnvironmentStep
    PROVE  /\ UNCHANGED program
           /\ dev' \in Device
           /\ dev'.started <=> dev.started
           /\ dev'.cfg = dev.cfg
           /\ dev'.link => dev.started \/ dev.link
BY DEF TypeOK, EnvironmentStep, Network, Associates, LosesNetwork, FindsNetwork,
       TogglesInternet, Fails, Associate, LoseNetwork, FindNetwork,
       ToggleInternet, HardwareFails, Device

\* The tables a sketch may provide hold an interval for every state.
LEMMA TablesHoldIntervals ==
    \A table \in TimeoutTables \cup {DefaultTimeoutTable} :
       table \in [NetworkConnectionState -> Nat]
BY TimeAssumption DEF TimeAssumption

\* Every constructor followed by setup() leaves a well-typed object in INIT, and no
\* driver is running yet.
LEMMA InitialState ==
    ASSUME Init
    PROVE  /\ self \in Handler
           /\ self.interface \in Adapters
           /\ self.state = "INIT"
           /\ self.callbacks = SetUpCallbacks
           /\ self.timeoutTable = DefaultTimeoutTable
<1>1. PICK h \in ConstructedObjects :
        h.interface \in Adapters /\ self = [h EXCEPT !.callbacks = SetUpCallbacks]
  BY DEF Init
<1>2. PICK i \in NetworkAdapter, k \in BOOLEAN, c \in BOOLEAN,
           s \in Settings \cup {NoSetting} : h = Constructed(i, k, c, s)
  BY ConstructedShape
<1>3. "INIT" \in NetworkConnectionState
  BY DEF NetworkConnectionState
<1>4. QED
  BY <1>1, <1>2, <1>3, TablesHoldIntervals, CallsAssumption
     DEF Constructed, Handler, CallsAssumption

\* The types are kept by every step (ConnectionHandlerInterface.cpp, all methods).
LEMMA TypeInductive ==
    ASSUME TypeOK, [Next]_vars
    PROVE  TypeOK'
<1> USE AdaptersAssumption, TimeAssumption, CallsAssumption, SettingsAssumption
<1> USE DEF TypeOK
<1>1. CASE Check
  <2>1. PICK next \in NetworkConnectionState :
          /\ updateConnectionState(self, next)
          /\ self' = [self EXCEPT !.state = next]
          /\ IF callsBack(self, next)
             THEN running' = <<next>> \o running /\ told' = next /\ asked' = None
             ELSE UNCHANGED <<running, told, asked>>
    BY <1>1 DEF Check, Advance
  <2>2. self' \in Handler /\ self'.interface = self.interface
    BY <2>1 DEF Handler
  <2>3. dev' \in Device
    BY <2>1, Transition
  <2>4. /\ running' \in Seq(NetworkConnectionEvent)
        /\ told' \in NetworkConnectionEvent \cup {None}
        /\ asked' \in {None, "connect", "disconnect"}
    <3>1. callsBack(self, next) => next \in NetworkConnectionEvent
      BY DEF callsBack, Handler
    <3>2. callsBack(self, next)
            => <<next>> \o running \in Seq(NetworkConnectionEvent)
      BY <3>1, Push
    <3>3. QED
      BY <2>1, <3>1, <3>2
  <2>5. QED
    BY <1>1, <2>2, <2>3, <2>4 DEF Check
<1>2. CASE CheckReturn
  <2>1. Head(running) \in NetworkConnectionState
    BY <1>2, Pop DEF CheckReturn, NetworkConnectionState, NetworkConnectionEvent
  <2>2. running' \in Seq(NetworkConnectionEvent)
    BY <1>2, Pop DEF CheckReturn
  <2>3. QED
    BY <1>2, <2>1, <2>2 DEF CheckReturn, history, Handler
<1>3. CASE Connect
  BY <1>3 DEF Connect, connect, Handler, NetworkConnectionState
<1>4. CASE Disconnect
  BY <1>4 DEF Disconnect, disconnect, Handler, NetworkConnectionState
<1>5. CASE \E b \in BOOLEAN : SetKeepAlive(b)
  BY <1>5 DEF SetKeepAlive, setKeepAlive, Handler
<1>6. CASE \E b \in BOOLEAN : EnableCheckInternetAvailability(b)
  BY <1>6 DEF EnableCheckInternetAvailability, enableCheckInternetAvailability,
              Handler, history
<1>7. CASE \E s \in Settings : UpdateSetting(s)
  BY <1>7 DEF UpdateSetting, updateSetting, acceptsSetting, Handler, history
<1>8. CASE \E st \in RetimedStates, t \in TimeoutChoices :
              UpdateTimeoutInterval(st, t)
  <2>1. PICK st \in RetimedStates, t \in TimeoutChoices :
          UpdateTimeoutInterval(st, t)
    BY <1>8
  <2>2. t \in Nat
    OBVIOUS
  <2>3. self' \in Handler /\ self'.interface = self.interface
    BY <2>1, <2>2 DEF UpdateTimeoutInterval, updateTimeoutInterval, Handler
  <2>4. QED
    BY <2>1, <2>3 DEF UpdateTimeoutInterval, history
<1>9. CASE \E e \in NetworkConnectionEvent, b \in BOOLEAN : AddCallback(e, b)
  <2>1. PICK e \in NetworkConnectionEvent, b \in BOOLEAN : AddCallback(e, b)
    BY <1>9
  <2>2. self' \in Handler /\ self'.interface = self.interface
    BY <2>1 DEF AddCallback, addCallback, Handler
  <2>3. QED
    BY <2>1, <2>2 DEF AddCallback, history
<1>10. CASE \E table \in TimeoutTables : UpdateTimeoutTable(table)
  <2>1. PICK table \in TimeoutTables : UpdateTimeoutTable(table)
    BY <1>10
  <2>2. table \in [NetworkConnectionState -> Nat]
    BY TablesHoldIntervals
  <2>3. QED
    BY <2>1, <2>2 DEF UpdateTimeoutTable, updateTimeoutTable, Handler, history
<1>11. CASE Tick
  BY <1>11 DEF Tick, history
<1>12. CASE EnvironmentStep
  BY <1>12, EnvironmentTypes DEF program, history
<1>13. CASE UNCHANGED vars
  BY <1>13 DEF vars, program, history
<1>14. QED
  BY <1>1, <1>2, <1>3, <1>4, <1>5, <1>6, <1>7, <1>8, <1>9, <1>11, <1>12,
     <1>13, <1>10 DEF Next, Application, EnvironmentStep

\* A constructed handler and a driver after power on have their types.
LEMMA TypeInitially == ASSUME Init PROVE TypeOK
<1>1. self \in Handler /\ self.interface \in Adapters
  BY InitialState
<1>2. dev \in Device
  BY DEF Init, PoweredOn
<1>3. QED
  BY <1>1, <1>2, TimeAssumption DEF Init, TypeOK, TimeAssumption

\* The types hold from the constructors on, in every state of the program.
THEOREM TypeCorrect == Spec => []TypeOK
<1>1. Init => TypeOK
  BY TypeInitially
<1>2. TypeOK /\ [Next]_vars => TypeOK'
  BY TypeInductive
<1>3. QED
  BY <1>1, <1>2, PTL DEF Spec

-----------------------------------------------------------------------------
(* What one step does to the parts of the state the invariants speak of.   *)

\* A due check(): the hook's result is the new state, and a callback runs with it
\* exactly when the state changed and the callback is there.
LEMMA CheckStep ==
    ASSUME TypeOK, Check
    PROVE  \E next \in Successors(self.state) :
              /\ updateConnectionState(self, next)
              /\ self' = [self EXCEPT !.state = next]
              /\ self'.state = next
              /\ self'.keep_alive = self.keep_alive
              /\ self'.interface = self.interface
              /\ self'.settings = self.settings
              /\ self'.callbacks = self.callbacks
              /\ MayCheck
              /\ callsBack(self, next)
                    => running' = <<next>> \o running /\ told' = next /\ asked' = None
              /\ ~callsBack(self, next) => UNCHANGED <<running, told, asked>>
              /\ want' = want
<1>1. PICK next \in NetworkConnectionState :
        /\ updateConnectionState(self, next)
        /\ self' = [self EXCEPT !.state = next]
        /\ IF callsBack(self, next)
           THEN running' = <<next>> \o running /\ told' = next /\ asked' = None
           ELSE UNCHANGED <<running, told, asked>>
  BY DEF Check, Advance
<1>2. next \in Successors(self.state)
  BY <1>1, Transition DEF TypeOK
<1>3. /\ self'.state = next
      /\ self'.keep_alive = self.keep_alive
      /\ self'.interface = self.interface
      /\ self'.settings = self.settings
      /\ self'.callbacks = self.callbacks
  BY <1>1 DEF TypeOK, Handler
<1>4. MayCheck /\ want' = want
  BY DEF Check
<1>5. QED
  BY <1>1, <1>2, <1>3, <1>4

\* The calls that write neither the state nor what the histories record.
Adjust ==
    \/ \E b \in BOOLEAN : EnableCheckInternetAvailability(b)
    \/ \E st \in RetimedStates, t \in TimeoutChoices :
          UpdateTimeoutInterval(st, t)
    \/ \E table \in TimeoutTables : UpdateTimeoutTable(table)
    \/ \E e \in NetworkConnectionEvent, b \in BOOLEAN : AddCallback(e, b)

\* The setters (ConnectionHandlerInterface.h:76-112, .cpp:123-131) change members
\* other than the state and the interface, and do not touch the driver.
LEMMA AdjustStep ==
    ASSUME TypeOK, Adjust
    PROVE  /\ UNCHANGED <<running, told, asked, want, dev>>
           /\ self'.state = self.state
           /\ self'.keep_alive = self.keep_alive
           /\ self'.interface = self.interface
           /\ self'.settings = self.settings
<1> USE DEF TypeOK, Handler, history
<1>1. CASE \E b \in BOOLEAN : EnableCheckInternetAvailability(b)
  BY <1>1 DEF EnableCheckInternetAvailability, enableCheckInternetAvailability
<1>2. CASE \E st \in RetimedStates, t \in TimeoutChoices :
              UpdateTimeoutInterval(st, t)
  BY <1>2 DEF UpdateTimeoutInterval, updateTimeoutInterval
<1>3. CASE \E e \in NetworkConnectionEvent, b \in BOOLEAN : AddCallback(e, b)
  BY <1>3 DEF AddCallback, addCallback
<1>4. CASE \E table \in TimeoutTables : UpdateTimeoutTable(table)
  BY <1>4 DEF UpdateTimeoutTable, updateTimeoutTable
<1>5. QED
  BY <1>1, <1>2, <1>3, <1>4 DEF Adjust

\* Every step, sorted for the invariance proofs below.
LEMMA StepCases ==
    ASSUME [Next]_vars
    PROVE  \/ Check
           \/ CheckReturn
           \/ Connect
           \/ Disconnect
           \/ \E b \in BOOLEAN : SetKeepAlive(b)
           \/ \E s \in Settings : UpdateSetting(s)
           \/ Adjust
           \/ EnvironmentStep
           \/ UNCHANGED <<self, running, told, asked, want, dev>>
BY DEF Next, Application, Adjust, EnvironmentStep, Tick, vars, program, history

-----------------------------------------------------------------------------
(* A handler taken down does not start its driver again.                   *)

\* disconnect() writes _keep_alive and the state.  From a callback only the first
\* survives, and the state that line 61 restores is one a callback is called for.
DownInv ==
    want = "down" =>
        ~self.keep_alive /\ self.state \notin {"INIT", "CONNECTING"}

\* After disconnect() neither a tick, nor the second assignment of check(), nor a
\* setter leads back to INIT or CONNECTING: DISCONNECTED with keep_alive off closes.
LEMMA DownInvInductive ==
    ASSUME TypeOK, DownInv, [Next]_vars
    PROVE  DownInv'
<1> USE DEF DownInv
<1>1. CASE Check
  BY <1>1, CheckStep, DisconnectedHook
     DEF TypeOK, Handler, Successors, updateConnectionState
<1>2. CASE CheckReturn
  BY <1>2 DEF CheckReturn, TypeOK, Handler, NetworkConnectionEvent, history
<1>3. CASE Connect
  BY <1>3 DEF Connect
<1>4. CASE Disconnect
  BY <1>4 DEF Disconnect, disconnect, TypeOK, Handler
<1>5. CASE \E b \in BOOLEAN : SetKeepAlive(b)
  BY <1>5 DEF SetKeepAlive, setKeepAlive, TypeOK, Handler
<1>6. CASE \E s \in Settings : UpdateSetting(s)
  BY <1>6 DEF UpdateSetting, updateSetting, TypeOK, Handler, history
<1>7. CASE Adjust
  BY <1>7, AdjustStep
<1>8. CASE EnvironmentStep
  BY <1>8, EnvironmentTypes DEF program, history
<1>9. CASE UNCHANGED <<self, running, told, asked, want, dev>>
  BY <1>9
<1>10. QED
  BY <1>1, <1>2, <1>3, <1>4, <1>5, <1>6, <1>7, <1>8, <1>9, StepCases

\* DownInv in every reachable state, whatever the callbacks call.
LEMMA DownInvHolds == Spec => []DownInv
<1>1. Init => DownInv
  BY DEF Init, DownInv
<1>2. TypeOK /\ DownInv /\ [Next]_vars => DownInv'
  BY DownInvInductive
<1>3. QED
  BY <1>1, <1>2, TypeCorrect, PTL DEF Spec

\* In the states that a handler taken down may be in, a tick stops the driver or leaves
\* it alone.
LEMMA DownTick ==
    ASSUME TypeOK, DownInv, want = "down", Check
    PROVE  UNCHANGED dev \/ Stopped
<1>1. PICK next : updateConnectionState(self, next)
  BY DEF Check, Advance
<1>2. self \in Handler /\ dev \in Device
  BY DEF TypeOK
<1>3. self.state \notin {"INIT", "CONNECTING"}
  BY DEF DownInv
<1>4. QED
  BY <1>1, <1>2, <1>3, ConnectedHook, DisconnectingHook, DisconnectedHook
     DEF updateConnectionState

\* NeverReopens, for every adapter and whatever the callbacks call: disconnect() is
\* final until the sketch asks for a connection again.  No state whose hook begins,
\* attaches or joins is entered, and no tick does more to the driver than stop it
\* (the hooks and ConnectionHandlerInterface.cpp:36-66).
THEOREM DisconnectIsFinal == Spec => NeverReopens
<1>1. TypeOK /\ DownInv /\ DownInv'
        => [/\ want' = "down" => self'.state \notin {"INIT", "CONNECTING"}
            /\ want = "down" /\ Check => UNCHANGED dev \/ Stopped]_vars
  <2> SUFFICES ASSUME TypeOK, DownInv, DownInv'
               PROVE  /\ want' = "down" => self'.state \notin {"INIT", "CONNECTING"}
                      /\ want = "down" /\ Check => UNCHANGED dev \/ Stopped
    OBVIOUS
  <2>1. want' = "down" => self'.state \notin {"INIT", "CONNECTING"}
    BY DEF DownInv
  <2>2. want = "down" /\ Check => UNCHANGED dev \/ Stopped
    BY DownTick
  <2>3. QED
    BY <2>1, <2>2
<1>2. QED
  BY <1>1, TypeCorrect, DownInvHolds, PTL DEF NeverReopens

-----------------------------------------------------------------------------
(* Callbacks that only look: what the sketch knows and what it asked for.  *)

\* While such a callback runs, the state is the one it was called for.
RunningInv ==
    \/ running = <<>>
    \/ running = <<self.state>> /\ told = self.state /\ asked = None

\* Where no callback calls the handler, nothing happens to it between the two
\* assignments of check() (ConnectionHandlerInterface.cpp:48-61).
LEMMA RunningInvInductive ==
    ASSUME CallbackCalls = {}, TypeOK, RunningInv, [Next]_vars
    PROVE  RunningInv'
<1> USE OneCallback DEF RunningInv
<1>1. CASE Check
  <2>1. PICK next \in Successors(self.state) :
          /\ self'.state = next
          /\ MayCheck
          /\ callsBack(self, next)
                => running' = <<next>> \o running /\ told' = next /\ asked' = None
          /\ ~callsBack(self, next) => UNCHANGED <<running, told, asked>>
    BY <1>1, CheckStep
  <2>2. running = <<>>
    BY <2>1 DEF MayCheck
  <2>3. QED
    BY <2>1, <2>2
<1>2. CASE CheckReturn
  BY <1>2 DEF CheckReturn
<1>3. CASE Connect \/ Disconnect
  BY <1>3 DEF Connect, Disconnect, Calls
<1>4. CASE \E b \in BOOLEAN : SetKeepAlive(b)
  BY <1>4 DEF SetKeepAlive, Calls
<1>5. CASE \E s \in Settings : UpdateSetting(s)
  BY <1>5 DEF UpdateSetting, Calls, history
<1>6. CASE Adjust
  BY <1>6, AdjustStep
<1>7. CASE EnvironmentStep
  BY <1>7, EnvironmentTypes DEF program, history
<1>8. CASE UNCHANGED <<self, running, told, asked, want, dev>>
  BY <1>8
<1>9. QED
  BY <1>1, <1>2, <1>3, <1>4, <1>5, <1>6, <1>7, <1>8, StepCases

\* The second assignment of check() assigns what is there, unless a callback called
\* the handler: the comment of ConnectionHandlerInterface.cpp:56-60, made precise.
THEOREM RunningInvHolds ==
    ASSUME CallbackCalls = {}
    PROVE  Spec => []RunningInv
<1>1. Init => RunningInv
  BY DEF Init, RunningInv
<1>2. TypeOK /\ RunningInv /\ [Next]_vars => RunningInv'
  BY RunningInvInductive
<1>3. QED
  BY <1>1, <1>2, TypeCorrect, PTL DEF Spec

-----------------------------------------------------------------------------
(* disconnect() called from loop().                                        *)

\* DisconnectHonoured is inductive on the states in which RunningInv holds.
LEMMA HonouredInductive ==
    ASSUME CallbackCalls = {}, TypeOK, RunningInv, DisconnectHonoured,
           [Next]_vars
    PROVE  DisconnectHonoured'
<1> USE DEF DisconnectHonoured
<1>1. CASE Check
  BY <1>1, CheckStep, DisconnectedHook
     DEF TypeOK, Handler, Successors, updateConnectionState
<1>2. CASE CheckReturn
  BY <1>2 DEF CheckReturn, RunningInv, TypeOK, Handler, history
<1>3. CASE Connect
  BY <1>3 DEF Connect
<1>4. CASE Disconnect
  BY <1>4 DEF Disconnect, disconnect, TypeOK, Handler
<1>5. CASE \E b \in BOOLEAN : SetKeepAlive(b)
  BY <1>5 DEF SetKeepAlive, setKeepAlive, TypeOK, Handler
<1>6. CASE \E s \in Settings : UpdateSetting(s)
  BY <1>6 DEF UpdateSetting, updateSetting, TypeOK, Handler, history
<1>7. CASE Adjust
  BY <1>7, AdjustStep
<1>8. CASE EnvironmentStep
  BY <1>8, EnvironmentTypes DEF program, history
<1>9. CASE UNCHANGED <<self, running, told, asked, want, dev>>
  BY <1>9
<1>10. QED
  BY <1>1, <1>2, <1>3, <1>4, <1>5, <1>6, <1>7, <1>8, <1>9, StepCases

\* disconnect() holds against everything the network and the timing can do, for any
\* adapter, as long as no callback calls the handler.
THEOREM DisconnectIsHonoured ==
    ASSUME CallbackCalls = {}
    PROVE  Spec => []DisconnectHonoured
<1>1. Init => DisconnectHonoured
  BY DEF Init, DisconnectHonoured
<1>2. TypeOK /\ RunningInv /\ DisconnectHonoured /\ [Next]_vars
        => DisconnectHonoured'
  BY HonouredInductive
<1>3. QED
  BY <1>1, <1>2, TypeCorrect, RunningInvHolds, PTL DEF Spec

\* A handler taken down enters DISCONNECTED through DISCONNECTING only, whose hook
\* stops the driver; from there no step starts it.
LEMMA ReleasesInductive ==
    ASSUME CallbackCalls = {}, TypeOK, RunningInv, DisconnectHonoured,
           DisconnectReleasesLink, [Next]_vars
    PROVE  DisconnectReleasesLink'
<1> USE DEF DisconnectReleasesLink
<1>1. CASE Check
  <2>1. PICK next \in Successors(self.state) :
          /\ updateConnectionState(self, next)
          /\ self'.state = next
          /\ self'.interface = self.interface
          /\ want' = want
    BY <1>1, CheckStep
  <2>2. self \in Handler /\ dev \in Device
    BY DEF TypeOK
  <2>3. SUFFICES ASSUME want = "down",
                        self.interface \notin {"LORA", "CELL"}
                 PROVE  ~dev'.started /\ ~dev'.link
    BY <2>1
  <2>4. self.state \in {"DISCONNECTING", "DISCONNECTED", "CLOSED"}
    BY <2>3 DEF DisconnectHonoured
  <2>5. CASE self.state = "DISCONNECTING"
    BY <2>1, <2>2, <2>3, <2>5, DisconnectingHook DEF updateConnectionState
  <2>6. CASE self.state = "DISCONNECTED"
    BY <2>1, <2>2, <2>3, <2>6, DisconnectedHook DEF updateConnectionState, Device
  <2>7. CASE self.state = "CLOSED"
    BY <2>1, <2>3, <2>7 DEF updateConnectionState
  <2>8. QED
    BY <2>4, <2>5, <2>6, <2>7
<1>2. CASE CheckReturn
  BY <1>2 DEF CheckReturn, RunningInv, TypeOK, Handler, history
<1>3. CASE Connect
  BY <1>3 DEF Connect
<1>4. CASE Disconnect
  BY <1>4 DEF Disconnect, disconnect, TypeOK, Handler
<1>5. CASE \E b \in BOOLEAN : SetKeepAlive(b)
  BY <1>5 DEF SetKeepAlive, setKeepAlive, TypeOK, Handler
<1>6. CASE \E s \in Settings : UpdateSetting(s)
  BY <1>6 DEF UpdateSetting, updateSetting, TypeOK, Handler, history
<1>7. CASE Adjust
  BY <1>7, AdjustStep
<1>8. CASE EnvironmentStep
  BY <1>8, EnvironmentTypes DEF program, history, TypeOK, Device
<1>9. CASE UNCHANGED <<self, running, told, asked, want, dev>>
  BY <1>9
<1>10. QED
  BY <1>1, <1>2, <1>3, <1>4, <1>5, <1>6, <1>7, <1>8, <1>9, StepCases

\* Once a handler that was taken down reports DISCONNECTED or CLOSED its driver is
\* stopped, so that no association in progress can come up any more.
THEOREM DisconnectReleases ==
    ASSUME CallbackCalls = {}
    PROVE  Spec => []DisconnectReleasesLink
<1>1. Init => DisconnectReleasesLink
  BY DEF Init, DisconnectReleasesLink
<1>2. /\ TypeOK /\ RunningInv /\ DisconnectHonoured /\ DisconnectReleasesLink
      /\ [Next]_vars
      => DisconnectReleasesLink'
  BY ReleasesInductive
<1>3. QED
  BY <1>1, <1>2, TypeCorrect, RunningInvHolds, DisconnectIsHonoured, PTL DEF Spec

-----------------------------------------------------------------------------
(* The events.                                                             *)

\* The sketch registered the three callbacks in setup() and keeps them.
Listening ==
    /\ CallbackCalls = {}
    /\ SetUpCallbacks = NetworkConnectionEvent
    /\ "addCallback" \notin LoopCalls

\* EventsExplainState without its guard: it holds while a callback runs, too.
EventsInv ==
    /\ self.callbacks = NetworkConnectionEvent
    /\ asked = "connect" => self.state \in {"INIT", "CONNECTING"}
    /\ asked = "disconnect" => self.state = "DISCONNECTING"
    /\ asked = None /\ told = "CONNECTED" => self.state = "CONNECTED"
    /\ asked = None /\ told = "ERROR" => self.state = "ERROR"
    /\ asked = None /\ told = "DISCONNECTED" =>
          self.state \in {"DISCONNECTED", "INIT", "CONNECTING", "CLOSED"}
    /\ asked = None /\ told = None => self.state \in {"INIT", "CONNECTING"}

\* The history of events and calls determines the state up to the silent changes.
LEMMA EventsInductive ==
    ASSUME Listening, TypeOK, RunningInv, EventsInv, [Next]_vars
    PROVE  EventsInv'
<1> USE DEF EventsInv
<1>1. CASE Check
  <2>1. PICK next \in Successors(self.state) :
          /\ self'.state = next
          /\ self'.callbacks = self.callbacks
          /\ callsBack(self, next) => told' = next /\ asked' = None
          /\ ~callsBack(self, next) => UNCHANGED <<told, asked>>
    BY <1>1, CheckStep
  <2>2. CASE next = self.state
    BY <2>1, <2>2 DEF callsBack
  <2>3. CASE next # self.state /\ next \in NetworkConnectionEvent
    BY <2>1, <2>3 DEF callsBack, NetworkConnectionEvent, None
  <2>4. CASE next # self.state /\ next \notin NetworkConnectionEvent
    <3>1. UNCHANGED <<told, asked>>
      BY <2>1, <2>4 DEF callsBack
    <3>2. \/ self.state \in {"INIT", "CONNECTING"} /\ next \in {"INIT", "CONNECTING"}
          \/ self.state = "DISCONNECTED" /\ next \in {"INIT", "CLOSED"}
      BY <2>1, <2>4 DEF Successors, NetworkConnectionEvent, TypeOK, Handler,
                        NetworkConnectionState
    <3>3. QED
      BY <2>1, <3>1, <3>2 DEF TypeOK, NetworkConnectionEvent, None
  <2>5. QED
    BY <2>2, <2>3, <2>4
<1>2. CASE CheckReturn
  BY <1>2 DEF CheckReturn, RunningInv, TypeOK, Handler, history
<1>3. CASE Connect
  BY <1>3 DEF Connect, connect, TypeOK, Handler, None
<1>4. CASE Disconnect
  BY <1>4 DEF Disconnect, disconnect, TypeOK, Handler, None
<1>5. CASE \E b \in BOOLEAN : SetKeepAlive(b)
  BY <1>5 DEF SetKeepAlive, setKeepAlive, TypeOK, Handler
<1>6. CASE \E s \in Settings : UpdateSetting(s)
  BY <1>6 DEF UpdateSetting, updateSetting, TypeOK, Handler, history
<1>7. CASE Adjust
  <2>1. self'.callbacks = self.callbacks
    BY <1>7 DEF Adjust, EnableCheckInternetAvailability,
                enableCheckInternetAvailability, UpdateTimeoutInterval,
                updateTimeoutInterval, UpdateTimeoutTable, updateTimeoutTable,
                AddCallback, Calls, Listening, TypeOK,
                Handler
  <2>2. QED
    BY <1>7, <2>1, AdjustStep
<1>8. CASE EnvironmentStep
  BY <1>8, EnvironmentTypes DEF program, history
<1>9. CASE UNCHANGED <<self, running, told, asked, want, dev>>
  BY <1>9
<1>10. QED
  BY <1>1, <1>2, <1>3, <1>4, <1>5, <1>6, <1>7, <1>8, <1>9, StepCases

\* EventsInv in every reachable state.
LEMMA EventsInvHolds ==
    ASSUME Listening
    PROVE  Spec => []EventsInv
<1>1. Init => EventsInv
  <2> SUFFICES ASSUME Init PROVE EventsInv
    OBVIOUS
  <2>1. QED
    BY InitialState DEF Init, EventsInv, Listening, None, NetworkConnectionEvent
<1>2. TypeOK /\ RunningInv /\ EventsInv /\ [Next]_vars => EventsInv'
  BY EventsInductive
<1>3. CallbackCalls = {}
  BY DEF Listening
<1>4. QED
  BY <1>1, <1>2, <1>3, TypeCorrect, RunningInvHolds, PTL DEF Spec

\* The events and the sketch's own calls tell the state of the connection, for
\* every adapter.
THEOREM EventsTellState ==
    ASSUME Listening
    PROVE  Spec => []EventsExplainState
<1>1. TypeOK /\ EventsInv => EventsExplainState
  BY DEF TypeOK, EventsInv, EventsExplainState, NetworkConnectionEvent, None
<1>2. QED
  BY <1>1, TypeCorrect, EventsInvHolds, PTL

-----------------------------------------------------------------------------
(* The abstract specification.                                             *)

\* Every step is one of the lifecycle's or invisible there.
LEMMA LifecycleStep ==
    ASSUME Listening, TypeOK, RunningInv, EventsInv, [Next]_vars
    PROVE  [Lifecycle!Next]_(Lifecycle!vars)
<1> USE DEF Lifecycle!Next, Lifecycle!vars
<1>1. CASE Check
  <2>1. PICK next \in Successors(self.state) :
          /\ updateConnectionState(self, next)
          /\ self'.state = next
          /\ self'.keep_alive = self.keep_alive
          /\ callsBack(self, next) => told' = next
          /\ ~callsBack(self, next) => UNCHANGED told
    BY <1>1, CheckStep
  <2>2. CASE next = self.state
    BY <2>1, <2>2 DEF callsBack
  <2>3. CASE next # self.state
    <3>1. Lifecycle!MovesTo(next)
      BY <2>1, <2>3 DEF Lifecycle!MovesTo, EventsInv, callsBack,
         NetworkConnectionEvent, Lifecycle!NetworkConnectionEvent
    <3>2. self.state \in NetworkConnectionState
      BY DEF TypeOK, Handler
    <3>3. CASE self.state = "INIT"
      BY <2>1, <2>3, <3>1, <3>3 DEF Successors, Lifecycle!Attempt
    <3>4. CASE self.state = "CONNECTING"
      BY <2>1, <2>3, <3>1, <3>4 DEF Successors, Lifecycle!Confirm
    <3>5. CASE self.state = "CONNECTED"
      BY <2>1, <2>3, <3>1, <3>5 DEF Successors, Lifecycle!Lose
    <3>6. CASE self.state = "DISCONNECTING"
      BY <2>1, <2>3, <3>1, <3>6 DEF Successors, Lifecycle!Release
    <3>7. CASE self.state = "DISCONNECTED"
      <4>1. next = IF self.keep_alive THEN "INIT" ELSE "CLOSED"
        BY <2>1, <3>7, DisconnectedHook DEF updateConnectionState, TypeOK
      <4>2. QED
        BY <3>1, <3>7, <4>1 DEF Lifecycle!Settle
    <3>8. QED
      BY <2>1, <2>3, <3>2, <3>3, <3>4, <3>5, <3>6, <3>7
         DEF Successors, NetworkConnectionState
  <2>4. QED
    BY <2>2, <2>3
<1>2. CASE CheckReturn
  BY <1>2, OneCallback DEF CheckReturn, RunningInv, TypeOK, Handler, history
<1>3. CASE Connect
  BY <1>3 DEF Connect, connect, TypeOK, Handler, Lifecycle!Connect
<1>4. CASE Disconnect
  BY <1>4 DEF Disconnect, disconnect, TypeOK, Handler, Lifecycle!Disconnect
<1>5. CASE \E b \in BOOLEAN : SetKeepAlive(b)
  BY <1>5 DEF SetKeepAlive, setKeepAlive, TypeOK, Handler, Lifecycle!SetKeepAlive
<1>6. CASE \E s \in Settings : UpdateSetting(s)
  BY <1>6 DEF UpdateSetting, updateSetting, TypeOK, Handler, history
<1>7. CASE Adjust
  BY <1>7, AdjustStep
<1>8. CASE EnvironmentStep
  BY <1>8, EnvironmentTypes DEF program, history
<1>9. CASE UNCHANGED <<self, running, told, asked, want, dev>>
  BY <1>9
<1>10. QED
  BY <1>1, <1>2, <1>3, <1>4, <1>5, <1>6, <1>7, <1>8, <1>9, StepCases

\* ConnectionHandler implements ConnectionLifecycle, for every adapter.
THEOREM LifecycleImplemented ==
    ASSUME Listening
    PROVE  Spec => ImplementsLifecycle
<1>1. Init => Lifecycle!Init
  <2> SUFFICES ASSUME Init PROVE Lifecycle!Init
    OBVIOUS
  <2>1. QED
    BY InitialState DEF Init, Lifecycle!Init, Handler, None, Lifecycle!None
<1>2. TypeOK /\ RunningInv /\ EventsInv /\ [Next]_vars
        => [Lifecycle!Next]_(Lifecycle!vars)
  BY LifecycleStep
<1>3. CallbackCalls = {}
  BY DEF Listening
<1>4. QED
  BY <1>1, <1>2, <1>3, TypeCorrect, RunningInvHolds, EventsInvHolds, PTL
     DEF Spec, ImplementsLifecycle, Lifecycle!Spec

-----------------------------------------------------------------------------
(* Settings.                                                               *)

\* SettingsInForce, and the settings a running callback's check() will return to.
SettingsInv ==
    /\ self.interface # "WIFI"
    /\ \/ self.state \in {"CONNECTING", "CONNECTED"}
       \/ \E i \in DOMAIN running : running[i] = "CONNECTED"
    => dev.cfg = self.settings

\* The settings cannot change while they are in force: updateSetting() asks for INIT
\* (ConnectionHandlerInterface.h:92-99), and CONNECTING is entered from INIT only.
LEMMA SettingsInductive ==
    ASSUME "updateSetting" \notin CallbackCalls, TypeOK, SettingsInv, [Next]_vars
    PROVE  SettingsInv'
<1> USE DEF SettingsInv
<1>1. CASE Check
  <2>1. PICK next \in Successors(self.state) :
          /\ updateConnectionState(self, next)
          /\ self'.state = next
          /\ self'.interface = self.interface
          /\ self'.settings = self.settings
          /\ callsBack(self, next) => running' = <<next>> \o running
          /\ ~callsBack(self, next) => running' = running
    BY <1>1, CheckStep
  <2>2. self \in Handler /\ dev \in Device /\ running \in Seq(NetworkConnectionEvent)
    BY DEF TypeOK
  <2>3. (\E i \in DOMAIN running' : running'[i] = "CONNECTED")
          => next = "CONNECTED" \/ \E i \in DOMAIN running : running[i] = "CONNECTED"
    <3>1. callsBack(self, next) => next \in NetworkConnectionEvent
      BY <2>2 DEF callsBack, Handler
    <3>2. callsBack(self, next) =>
            \A i \in DOMAIN (<<next>> \o running) :
               \/ (<<next>> \o running)[i] = next
               \/ \E j \in DOMAIN running : (<<next>> \o running)[i] = running[j]
      BY <2>2, <3>1, Push
    <3>3. QED
      BY <2>1, <3>2
  <2>4. dev.cfg = self.settings => dev'.cfg = self.settings
    BY <2>1, <2>2, KeepsSettings
  <2>5. SUFFICES ASSUME self.interface # "WIFI",
                        next \in {"CONNECTING", "CONNECTED"}
                 PROVE  dev'.cfg = self.settings
    BY <2>1, <2>3, <2>4
  <2>6. CASE self.state = "INIT"
    BY <2>1, <2>2, <2>5, <2>6, InitHook DEF updateConnectionState
  <2>7. CASE self.state = "CONNECTING"
    BY <2>1, <2>2, <2>5, <2>7, ConnectingHook DEF updateConnectionState
  <2>8. CASE self.state = "CONNECTED"
    BY <2>1, <2>2, <2>5, <2>8, ConnectedHook DEF updateConnectionState
  <2>9. CASE self.state \notin {"INIT", "CONNECTING", "CONNECTED"}
    BY <2>1, <2>5, <2>9 DEF Successors
  <2>10. QED
    BY <2>6, <2>7, <2>8, <2>9
<1>2. CASE CheckReturn
  <2>1. running \in Seq(NetworkConnectionEvent) /\ running # <<>>
    BY <1>2 DEF CheckReturn, TypeOK
  <2>2. self'.state = Head(running)
    BY <1>2 DEF CheckReturn, TypeOK, Handler
  <2>3. /\ self'.state \in {"CONNECTING", "CONNECTED"}
              => \E i \in DOMAIN running : running[i] = "CONNECTED"
        /\ (\E i \in DOMAIN running' : running'[i] = "CONNECTED")
              => \E i \in DOMAIN running : running[i] = "CONNECTED"
    <3>1. self'.state \in NetworkConnectionEvent /\ self'.state = running[1]
          /\ 1 \in DOMAIN running
      BY <2>1, <2>2, Pop
    <3>2. \A i \in DOMAIN Tail(running) :
             \E j \in DOMAIN running : Tail(running)[i] = running[j]
      BY <2>1, Pop
    <3>3. QED
      BY <1>2, <3>1, <3>2 DEF CheckReturn, NetworkConnectionEvent
  <2>4. QED
    BY <1>2, <2>3 DEF CheckReturn, TypeOK, Handler
<1>3. CASE Connect
  BY <1>3 DEF Connect, connect, TypeOK, Handler
<1>4. CASE Disconnect
  BY <1>4 DEF Disconnect, disconnect, TypeOK, Handler
<1>5. CASE \E b \in BOOLEAN : SetKeepAlive(b)
  BY <1>5 DEF SetKeepAlive, setKeepAlive, TypeOK, Handler
<1>6. CASE \E s \in Settings : UpdateSetting(s)
  BY <1>6 DEF UpdateSetting, updateSetting, acceptsSetting, Calls, TypeOK, Handler,
              None
<1>7. CASE Adjust
  BY <1>7, AdjustStep
<1>8. CASE EnvironmentStep
  BY <1>8, EnvironmentTypes DEF program
<1>9. CASE UNCHANGED <<self, running, told, asked, want, dev>>
  BY <1>9
<1>10. QED
  BY <1>1, <1>2, <1>3, <1>4, <1>5, <1>6, <1>7, <1>8, <1>9, StepCases

\* Every adapter but WiFi connects with the settings it holds, as long as no
\* callback replaces them.
THEOREM SettingsAreInForce ==
    ASSUME "updateSetting" \notin CallbackCalls
    PROVE  Spec => []SettingsInForce
<1>1. Init => SettingsInv
  <2> SUFFICES ASSUME Init PROVE SettingsInv
    OBVIOUS
  <2>1. QED
    BY InitialState DEF Init, SettingsInv, None
<1>2. TypeOK /\ SettingsInv /\ [Next]_vars => SettingsInv'
  BY SettingsInductive
<1>3. SettingsInv => SettingsInForce
  BY DEF SettingsInv, SettingsInForce
<1>4. QED
  BY <1>1, <1>2, <1>3, TypeCorrect, PTL DEF Spec

-----------------------------------------------------------------------------
(* The Internet check.                                                     *)

\* A tick that enters CONNECTED is one of the connecting hook, which pinged.
LEMMA CheckedStep ==
    ASSUME CallbackCalls = {}, CanPing, ~EspCore, TypeOK, RunningInv, [Next]_vars,
           NEW i \in {"WIFI", "ETHERNET", "GSM", "CATM1"}
    PROVE  ChecksInternet(i)
<1> SUFFICES ASSUME Enters("CONNECTED"), self.interface = i, self.check_internet
             PROVE  dev.link /\ dev.internet
  BY DEF ChecksInternet
<1> USE DEF Enters
<1>1. CASE Check
  <2>1. PICK next \in Successors(self.state) :
          updateConnectionState(self, next) /\ self'.state = next
    BY <1>1, CheckStep
  <2>2. self \in Handler /\ dev \in Device /\ next = "CONNECTED"
    BY <2>1 DEF TypeOK
  <2>3. self.state = "CONNECTING"
    BY <2>1, <2>2 DEF Successors, TypeOK, Handler
  <2>4. QED
    BY <2>1, <2>2, <2>3, ConnectingHook DEF updateConnectionState
<1>2. CASE CheckReturn
  BY <1>2 DEF CheckReturn, RunningInv, TypeOK, Handler
<1>3. CASE Connect
  BY <1>3 DEF Connect, connect, TypeOK, Handler
<1>4. CASE Disconnect
  BY <1>4 DEF Disconnect, disconnect, TypeOK, Handler
<1>5. CASE \E b \in BOOLEAN : SetKeepAlive(b)
  BY <1>5 DEF SetKeepAlive, setKeepAlive, TypeOK, Handler
<1>6. CASE \E s \in Settings : UpdateSetting(s)
  BY <1>6 DEF UpdateSetting, updateSetting, TypeOK, Handler
<1>7. CASE Adjust
  BY <1>7, AdjustStep
<1>8. CASE EnvironmentStep
  BY <1>8, EnvironmentTypes DEF program
<1>9. CASE UNCHANGED <<self, running, told, asked, want, dev>>
  BY <1>9
<1>10. QED
  BY <1>1, <1>2, <1>3, <1>4, <1>5, <1>6, <1>7, <1>8, <1>9, StepCases

\* Where the build can ping, an adapter that pings enters CONNECTED with the check
\* on only when the Internet answers.
THEOREM InternetIsChecked ==
    ASSUME CallbackCalls = {}, CanPing, ~EspCore
    PROVE  Spec => InternetCheckedBeforeConnected
<1>1. TypeOK /\ RunningInv /\ [Next]_vars
        => [\A i \in {"WIFI", "ETHERNET", "GSM", "CATM1"} : ChecksInternet(i)]_vars
  BY CheckedStep
<1>2. QED
  BY <1>1, TypeCorrect, RunningInvHolds, PTL
     DEF Spec, InternetCheckedBeforeConnected

=============================================================================
