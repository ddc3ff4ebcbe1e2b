-------------------- MODULE GenericConnectionHandler_proof --------------------
(***************************************************************************)
(* Theorems about GenericConnectionHandler, for every board, every choice  *)
(* of settings, intervals and calls.                                       *)
(***************************************************************************)
EXTENDS GenericConnectionHandler, ConnectionHandlerInterface_proof

-----------------------------------------------------------------------------
(* Type correctness.                                                       *)

\* The steps that leave the program alone.
EnvironmentStep == Associates \/ Network

\* What the network and the hardware do by themselves leaves a driver state.
LEMMA EnvironmentTypes ==
    ASSUME dev \in Device, EnvironmentStep
    PROVE  UNCHANGED program /\ dev' \in Device
<1>1. /\ UNCHANGED program
      /\ \/ Associate
         \/ LoseNetwork
         \/ FindNetwork
         \/ ToggleInternet
         \/ HardwareFails
  BY DEF EnvironmentStep, Network, Associates, LosesNetwork, FindsNetwork,
         TogglesInternet, Fails
<1>2. dev' \in Device
  BY <1>1 DEF Associate, LoseNetwork, FindNetwork, ToggleInternet, HardwareFails,
              Device
<1>3. QED
  BY <1>1, <1>2

\* The intervals that a sketch may give, one by one or in a table.
LEMMA Intervals ==
    /\ \A t \in TimeoutChoices : t \in Nat
    /\ \A table \in TimeoutTables \cup {DefaultTimeoutTable} :
          table \in [NetworkConnectionState -> Nat]
<1>1. \A t \in TimeoutChoices : t \in Nat
  BY GenericAssumption DEF GenericAssumption
<1>2. \A table \in TimeoutTables \cup {DefaultTimeoutTable} :
         table \in [NetworkConnectionState -> 0 .. (MaxElapsed - 1)]
  BY GenericAssumption DEF GenericAssumption
<1>3. QED
  BY <1>1, <1>2

\* A null pointer is no handler.
LEMMA NullIsNoHandler == nullptr \notin Handler
BY DEF nullptr, Handler, NetworkAdapter, None

\* The handler updateSetting() constructs, and what it passes on to it.
LEMMA Instantiated ==
    ASSUME TypeOK, NEW type \in Supported
    PROVE  /\ instantiate_handler(type) \in Handler
           /\ instantiate_handler(type).interface = type
           /\ instantiate_handler(type).state = "INIT"
<1>1. type \in NetworkAdapter
  BY GenericAssumption DEF GenericAssumption
<1>2. "INIT" \in NetworkConnectionState
  BY DEF NetworkConnectionState
<1>3. QED
  BY <1>1, <1>2, Intervals DEF instantiate_handler, Constructed, Handler

\* What updateSetting() leaves in the inner handler h, old or new: its state and its
\* interface, with the keep-alive flag of the outer.
LEMMA Configured ==
    ASSUME TypeOK, NEW h \in Handler, NEW type, NEW s \in Settings
    PROVE  LET configured == updateSetting(Forwarded(h), type, s)
           IN  /\ configured \in Handler
               /\ configured.interface = h.interface
               /\ configured.state = h.state
               /\ configured.keep_alive = outer.keep_alive
<1>1. outer.keep_alive \in BOOLEAN /\ outer.check_internet \in BOOLEAN
  BY DEF TypeOK, OuterObject
<1>2. /\ setKeepAlive(h, outer.keep_alive) \in Handler
      /\ setKeepAlive(h, outer.keep_alive).interface = h.interface
      /\ setKeepAlive(h, outer.keep_alive).state = h.state
      /\ setKeepAlive(h, outer.keep_alive).keep_alive = outer.keep_alive
  BY <1>1 DEF setKeepAlive, Handler
<1>3. /\ Forwarded(h) \in Handler
      /\ Forwarded(h).interface = h.interface
      /\ Forwarded(h).state = h.state
      /\ Forwarded(h).keep_alive = outer.keep_alive
  BY <1>1, <1>2 DEF Forwarded, enableCheckInternetAvailability, Handler
<1>4. QED
  BY <1>3, SettingMethod

\* updateSetting(): it found the inner handler in INIT or found none, and leaves one
\* in INIT that has the outer's interface and keep-alive flag, or none.
LEMMA UpdateSettingStep ==
    ASSUME TypeOK, NEW type \in Requested, NEW s \in Settings,
           UpdateSetting(type, s)
    PROVE  /\ Allocated => inner.state = "INIT"
           /\ outer' \in OuterObject
           /\ outer'.state = outer.state
           /\ outer'.keep_alive = outer.keep_alive
           /\ UNCHANGED <<elapsed, running, told, asked, want>>
           /\ used' \subseteq Supported
           /\ dev' \in Device
           /\ \/ ~Allocated'
              \/ /\ inner' \in Handler
                 /\ inner'.interface \in Supported
                 /\ (Allocated => inner.interface = outer.interface)
                       => inner'.interface = outer'.interface
                 /\ inner'.state = "INIT"
                 /\ inner'.keep_alive = outer.keep_alive
<1> USE DEF TypeOK
<1>1. Allocated => inner.state = "INIT"
  BY DEF UpdateSetting, Refuses
<1>2. UNCHANGED <<elapsed, running, told, asked, want>>
  BY DEF UpdateSetting, history
<1>3. CASE UpdatesInner(type, s)
  <2>1. inner \in Handler /\ inner' = updateSetting(Forwarded(inner), type, s)
    BY <1>3 DEF UpdatesInner
  <2>2. /\ inner' \in Handler
        /\ inner'.interface = inner.interface
        /\ inner'.state = inner.state
        /\ inner'.keep_alive = outer.keep_alive
    BY <2>1, Configured
  <2>3. QED
    BY <1>1, <1>2, <1>3, <2>2 DEF UpdatesInner
<1>4. CASE AllocatesInner(type, s)
  <2>1. type \in Supported /\ type \in NetworkAdapter
    BY <1>4, GenericAssumption DEF AllocatesInner, GenericAssumption
  <2>2. inner' = updateSetting(Forwarded(instantiate_handler(type)), type, s)
    BY <1>4 DEF AllocatesInner
  <2>3. /\ inner' \in Handler
        /\ inner'.interface = type
        /\ inner'.state = "INIT"
        /\ inner'.keep_alive = outer.keep_alive
    BY <2>1, <2>2, Instantiated, Configured
  <2>4. /\ outer' \in OuterObject
        /\ outer'.interface = type
        /\ outer'.state = outer.state
        /\ outer'.keep_alive = outer.keep_alive
    BY <1>4, <2>1 DEF AllocatesInner, OuterObject
  <2>5. used' \subseteq Supported /\ dev' \in Device
    BY <1>4, <2>1 DEF AllocatesInner, SwitchesDriver
  <2>6. QED
    BY <1>1, <1>2, <2>1, <2>3, <2>4, <2>5
<1>5. CASE LosesInner(type)
  <2>1. /\ outer' \in OuterObject
        /\ outer'.state = outer.state
        /\ outer'.keep_alive = outer.keep_alive
    BY <1>5 DEF LosesInner, OuterObject
  <2>2. ~Allocated' /\ UNCHANGED <<used, dev>>
    BY <1>5 DEF LosesInner, Allocated
  <2>3. QED
    BY <1>1, <1>2, <2>1, <2>2
<1>6. QED
  BY <1>3, <1>4, <1>5 DEF UpdateSetting

\* check(): one hook of the inner handler ran, if there is one; the outer assigns the
\* result now or when the callback it called returns.
LEMMA CheckStep ==
    ASSUME TypeOK, Check
    PROVE  \E next \in NetworkConnectionState :
              /\ MayCheck
              /\ Allocated =>
                    /\ updateConnectionState(inner, next)
                    /\ next \in Successors(inner.state)
                    /\ inner' = [inner EXCEPT !.state = next]
                    /\ inner' \in Handler
                    /\ inner'.state = next
                    /\ inner'.interface = inner.interface
                    /\ inner'.keep_alive = inner.keep_alive
              /\ ~Allocated => next = "INIT" /\ inner' = inner
              /\ callsBack(outer, next) =>
                    /\ next \in NetworkConnectionEvent
                    /\ running' = <<next>> \o running
                    /\ told' = next /\ asked' = None
                    /\ outer' = outer
              /\ ~callsBack(outer, next) =>
                    /\ UNCHANGED <<running, told, asked>>
                    /\ outer' = [outer EXCEPT !.state = next]
                    /\ outer'.state = next
              /\ outer' \in OuterObject
              /\ outer'.interface = outer.interface
              /\ outer'.keep_alive = outer.keep_alive
              /\ dev' \in Device
<1> USE DEF TypeOK
<1>1. PICK next \in NetworkConnectionState :
        /\ genericUpdateConnectionState(next)
        /\ IF callsBack(outer, next)
           THEN /\ running' = <<next>> \o running /\ told' = next /\ asked' = None
                /\ UNCHANGED outer
           ELSE /\ outer' = [outer EXCEPT !.state = next]
                /\ UNCHANGED <<running, told, asked>>
  BY DEF Check
<1>2. ASSUME Allocated
      PROVE  /\ updateConnectionState(inner, next)
             /\ next \in Successors(inner.state)
             /\ inner' = [inner EXCEPT !.state = next]
             /\ inner' \in Handler
             /\ inner'.state = next
             /\ inner'.interface = inner.interface
             /\ inner'.keep_alive = inner.keep_alive
             /\ dev' \in Device
  <2>1. updateConnectionState(inner, next) /\ inner' = [inner EXCEPT !.state = next]
    BY <1>1, <1>2 DEF genericUpdateConnectionState
  <2>2. inner \in Handler
    BY <1>2
  <2>3. next \in Successors(inner.state) /\ dev' \in Device
    BY <2>1, <2>2, Transition
  <2>4. QED
    BY <2>1, <2>2, <2>3 DEF Handler
<1>3. ASSUME ~Allocated
      PROVE  next = "INIT" /\ inner' = inner /\ dev' \in Device
  BY <1>1, <1>3 DEF genericUpdateConnectionState
<1>4. callsBack(outer, next) => next \in NetworkConnectionEvent
  BY DEF callsBack, OuterObject
<1>5. /\ outer' \in OuterObject
      /\ outer'.interface = outer.interface
      /\ outer'.keep_alive = outer.keep_alive
      /\ ~callsBack(outer, next) => outer'.state = next
  <2>1. CASE outer' = outer /\ callsBack(outer, next)
    BY <2>1
  <2>2. CASE outer' = [outer EXCEPT !.state = next]
    BY <2>2 DEF OuterObject
  <2>3. QED
    BY <1>1, <2>1, <2>2
<1>6. MayCheck
  BY DEF Check
<1>7. QED
  BY <1>1, <1>2, <1>3, <1>4, <1>5, <1>6

\* The calls that write neither the states nor what the histories record, and that
\* the inner handler does not hear of.
Adjust ==
    \/ \E b \in BOOLEAN : EnableCheckInternetAvailability(b)
    \/ \E st \in RetimedStates, t \in TimeoutChoices :
          UpdateTimeoutInterval(st, t)
    \/ \E table \in TimeoutTables : UpdateTimeoutTable(table)
    \/ \E e \in NetworkConnectionEvent, b \in BOOLEAN : AddCallback(e, b)

\* The setters that are not virtual change other members of the outer.
LEMMA AdjustStep ==
    ASSUME TypeOK, Adjust
    PROVE  /\ UNCHANGED <<inner, used, elapsed, running, told, asked, want, dev>>
           /\ outer' \in OuterObject
           /\ outer'.interface = outer.interface
           /\ outer'.state = outer.state
           /\ outer'.keep_alive = outer.keep_alive
<1> USE DEF history
<1>0. outer \in OuterObject
  BY DEF TypeOK
<1>1. ASSUME NEW b \in BOOLEAN, EnableCheckInternetAvailability(b)
      PROVE  /\ UNCHANGED <<inner, used, elapsed, running, told, asked, want, dev>>
             /\ outer' \in OuterObject
             /\ outer'.interface = outer.interface
             /\ outer'.state = outer.state
             /\ outer'.keep_alive = outer.keep_alive
  BY <1>0, <1>1 DEF EnableCheckInternetAvailability,
     enableCheckInternetAvailability, OuterObject
<1>2. ASSUME NEW st \in RetimedStates, NEW t \in TimeoutChoices,
             UpdateTimeoutInterval(st, t)
      PROVE  /\ UNCHANGED <<inner, used, elapsed, running, told, asked, want, dev>>
             /\ outer' \in OuterObject
             /\ outer'.interface = outer.interface
             /\ outer'.state = outer.state
             /\ outer'.keep_alive = outer.keep_alive
  <2>1. t \in Nat
    BY Intervals
  <2>2. QED
    BY <1>0, <1>2, <2>1 DEF UpdateTimeoutInterval, updateTimeoutInterval, OuterObject
<1>3. ASSUME NEW table \in TimeoutTables, UpdateTimeoutTable(table)
      PROVE  /\ UNCHANGED <<inner, used, elapsed, running, told, asked, want, dev>>
             /\ outer' \in OuterObject
             /\ outer'.interface = outer.interface
             /\ outer'.state = outer.state
             /\ outer'.keep_alive = outer.keep_alive
  <2>1. table \in [NetworkConnectionState -> Nat]
    BY Intervals
  <2>2. QED
    BY <1>0, <1>3, <2>1 DEF UpdateTimeoutTable, updateTimeoutTable, OuterObject
<1>4. ASSUME NEW e \in NetworkConnectionEvent, NEW b \in BOOLEAN, AddCallback(e, b)
      PROVE  /\ UNCHANGED <<inner, used, elapsed, running, told, asked, want, dev>>
             /\ outer' \in OuterObject
             /\ outer'.interface = outer.interface
             /\ outer'.state = outer.state
             /\ outer'.keep_alive = outer.keep_alive
  BY <1>0, <1>4 DEF AddCallback, addCallback, OuterObject
<1>5. QED
  BY <1>1, <1>2, <1>3, <1>4 DEF Adjust

\* Every step, sorted for the invariance proofs below.
LEMMA StepCases ==
    ASSUME [Next]_vars
    PROVE  \/ Check
           \/ CheckReturn
           \/ Connect
           \/ Disconnect
           \/ \E b \in BOOLEAN : SetKeepAlive(b)
           \/ \E type \in Requested, s \in Settings : UpdateSetting(type, s)
           \/ Adjust
           \/ Tick
           \/ EnvironmentStep
           \/ UNCHANGED vars
BY DEF Next, Application, Adjust, EnvironmentStep

\* The methods that are forwarded, on the outer itself.
LEMMA OuterMethods ==
    ASSUME NEW h \in OuterObject, NEW b \in BOOLEAN
    PROVE  /\ connect(h) \in OuterObject
           /\ connect(h).interface = h.interface
           /\ h.state \in {"INIT", "CONNECTING"} => connect(h) = h
           /\ h.state \notin {"INIT", "CONNECTING"} =>
                 connect(h).state = "INIT" /\ connect(h).keep_alive
           /\ disconnect(h) \in OuterObject
           /\ disconnect(h).interface = h.interface
           /\ disconnect(h).state = "DISCONNECTING"
           /\ setKeepAlive(h, b) \in OuterObject
           /\ setKeepAlive(h, b).interface = h.interface
           /\ setKeepAlive(h, b).state = h.state
           /\ setKeepAlive(h, b).keep_alive = b
BY DEF connect, disconnect, setKeepAlive, OuterObject, NetworkConnectionState

\* The types are kept by every step (GenericConnectionHandler.cpp, all methods), also
\* when a callback calls the handler.
LEMMA TypeInductive ==
    ASSUME TypeOK, [Next]_vars
    PROVE  TypeOK'
<1> USE DEF TypeOK
<1>1. CASE Check
  <2>1. PICK next \in NetworkConnectionState :
          /\ Allocated => inner' \in Handler /\ inner'.interface = inner.interface
          /\ ~Allocated => inner' = inner
          /\ callsBack(outer, next) =>
                /\ next \in NetworkConnectionEvent
                /\ running' = <<next>> \o running
                /\ told' = next /\ asked' = None
          /\ ~callsBack(outer, next) => UNCHANGED <<running, told, asked>>
          /\ outer' \in OuterObject
          /\ dev' \in Device
    BY <1>1, CheckStep
  <2>2. callsBack(outer, next) => running' \in Seq(NetworkConnectionEvent)
    BY <2>1, Push
  <2>3. Allocated' => inner' \in Handler /\ inner'.interface \in Supported
    BY <2>1 DEF Allocated
  <2>4. /\ running' \in Seq(NetworkConnectionEvent)
        /\ told' \in NetworkConnectionEvent \cup {None}
        /\ asked' \in {None, "connect", "disconnect"}
    BY <2>1, <2>2
  <2>5. elapsed' \in 0 .. MaxElapsed /\ UNCHANGED <<used, want>>
    BY <1>1, GenericAssumption DEF Check, GenericAssumption
  <2>6. QED
    BY <2>1, <2>3, <2>4, <2>5
<1>2. CASE CheckReturn
  <2>1. Head(running) \in NetworkConnectionState
    BY <1>2, Pop DEF CheckReturn, NetworkConnectionState, NetworkConnectionEvent
  <2>2. running' \in Seq(NetworkConnectionEvent)
    BY <1>2, Pop DEF CheckReturn
  <2>3. outer' \in OuterObject
    BY <1>2, <2>1 DEF CheckReturn, OuterObject
  <2>4. QED
    BY <1>2, <2>2, <2>3 DEF CheckReturn, history, Allocated
<1>3. CASE Connect
  <2>1. outer' \in OuterObject
    BY <1>3, OuterMethods DEF Connect
  <2>2. Allocated' => inner' \in Handler /\ inner'.interface \in Supported
    BY <1>3, ConnectMethod DEF Connect, Allocated
  <2>3. QED
    BY <1>3, <2>1, <2>2 DEF Connect
<1>4. CASE Disconnect
  <2>1. outer' \in OuterObject
    BY <1>4, OuterMethods DEF Disconnect
  <2>2. Allocated' => inner' \in Handler /\ inner'.interface \in Supported
    BY <1>4, DisconnectMethod DEF Disconnect, Allocated
  <2>3. QED
    BY <1>4, <2>1, <2>2 DEF Disconnect
<1>5. CASE \E b \in BOOLEAN : SetKeepAlive(b)
  <2>1. PICK b \in BOOLEAN : SetKeepAlive(b)
    BY <1>5
  <2>2. outer' \in OuterObject
    BY <2>1, OuterMethods DEF SetKeepAlive
  <2>3. Allocated' => inner' \in Handler /\ inner'.interface \in Supported
    BY <2>1, FlagMethods DEF SetKeepAlive, Allocated
  <2>4. QED
    BY <2>1, <2>2, <2>3 DEF SetKeepAlive
<1>6. CASE \E type \in Requested, s \in Settings : UpdateSetting(type, s)
  <2>1. PICK type \in Requested, s \in Settings : UpdateSetting(type, s)
    BY <1>6
  <2>2. QED
    BY <2>1, UpdateSettingStep
<1>7. CASE Adjust
  BY <1>7, AdjustStep DEF Allocated
<1>8. CASE Tick
  BY <1>8, GenericAssumption DEF Tick, history, Allocated, GenericAssumption
<1>9. CASE EnvironmentStep
  BY <1>9, EnvironmentTypes DEF program, history, Allocated
<1>10. CASE UNCHANGED vars
  BY <1>10 DEF vars, program, history, Allocated
<1>11. QED
  BY <1>1, <1>2, <1>3, <1>4, <1>5, <1>6, <1>7, <1>8, <1>9, <1>10, StepCases

\* The types hold from the constructor on, whatever the sketch and its callbacks call.
THEOREM GenericTypeCorrect == Spec => []TypeOK
<1>1. Init => TypeOK
  <2> SUFFICES ASSUME Init PROVE TypeOK
    OBVIOUS
  <2>1. outer \in OuterObject
    <3>1. PICK k \in BOOLEAN :
            outer = [GenericConstructed(k) EXCEPT !.callbacks = SetUpCallbacks]
      BY DEF Init
    <3>2. "INIT" \in NetworkConnectionState
      BY DEF NetworkConnectionState
    <3>3. SetUpCallbacks \in SUBSET NetworkConnectionEvent
      BY GenericAssumption DEF GenericAssumption
    <3>4. QED
      BY <3>1, <3>2, <3>3, Intervals
         DEF GenericConstructed, Constructed, OuterObject
  <2>2. ~Allocated /\ dev \in Device
    BY DEF Init, Allocated, PoweredOn
  <2>3. QED
    BY <2>1, <2>2, GenericAssumption DEF Init, TypeOK, GenericAssumption
<1>2. TypeOK /\ [Next]_vars => TypeOK'
  BY TypeInductive
<1>3. QED
  BY <1>1, <1>2, PTL DEF Spec

-----------------------------------------------------------------------------
(* disconnect(), also from a callback.                                     *)

\* DisconnectHonoured is inductive: check() assigns the outer's state only, and where
\* the inner handler is down updateSetting() is refused and connect() has an effect.
LEMMA HonouredInductive ==
    ASSUME TypeOK, DisconnectHonoured, [Next]_vars
    PROVE  DisconnectHonoured'
<1> SUFFICES ASSUME want' = "down"
             PROVE  /\ Allocated'
                    /\ inner'.state \in {"DISCONNECTING", "DISCONNECTED", "CLOSED"}
                    /\ ~inner'.keep_alive
  BY DEF DisconnectHonoured
<1>0. want = "down" =>
        /\ Allocated /\ inner \in Handler
        /\ inner.state \in {"DISCONNECTING", "DISCONNECTED", "CLOSED"}
        /\ ~inner.keep_alive
  BY DEF DisconnectHonoured, TypeOK
<1>1. CASE Check
  <2>1. want = "down"
    BY <1>1 DEF Check
  <2>2. PICK next \in NetworkConnectionState :
          Allocated =>
             /\ updateConnectionState(inner, next)
             /\ next \in Successors(inner.state)
             /\ inner' \in Handler
             /\ inner'.state = next
             /\ inner'.keep_alive = inner.keep_alive
    BY <1>1, CheckStep
  <2>3. next \in {"DISCONNECTED", "CLOSED"}
    BY <1>0, <2>1, <2>2, DisconnectedHook
       DEF Successors, updateConnectionState, TypeOK
  <2>4. QED
    BY <1>0, <2>1, <2>2, <2>3, NullIsNoHandler DEF Allocated
<1>2. CASE CheckReturn
  BY <1>0, <1>2 DEF CheckReturn, history, Allocated
<1>3. CASE Connect
  <2>1. Allocated /\ inner' = inner
    BY <1>0, <1>3 DEF Connect
  <2>2. want = "down" /\ inner' = connect(inner)
    BY <1>3, <2>1 DEF Connect
  <2>3. QED
    BY <1>0, <2>1, <2>2, ConnectMethod
<1>4. CASE Disconnect
  <2>1. Allocated /\ inner' = disconnect(inner)
    BY <1>0, <1>4 DEF Disconnect
  <2>2. inner \in Handler
    BY <2>1 DEF TypeOK
  <2>3. QED
    BY <2>1, <2>2, DisconnectMethod, NullIsNoHandler DEF Allocated
<1>5. CASE \E b \in BOOLEAN : SetKeepAlive(b)
  <2>1. PICK b \in BOOLEAN : SetKeepAlive(b)
    BY <1>5
  <2>2. want = "down" /\ b = FALSE
    BY <2>1 DEF SetKeepAlive
  <2>3. Allocated /\ inner \in Handler /\ inner' = setKeepAlive(inner, FALSE)
    BY <1>0, <2>1, <2>2 DEF SetKeepAlive
  <2>4. inner' \in Handler /\ inner'.state = inner.state /\ ~inner'.keep_alive
    BY <2>3, FlagMethods
  <2>5. QED
    BY <1>0, <2>2, <2>4, NullIsNoHandler DEF Allocated
<1>6. CASE \E type \in Requested, s \in Settings : UpdateSetting(type, s)
  BY <1>0, <1>6, UpdateSettingStep
<1>7. CASE Adjust
  BY <1>0, <1>7, AdjustStep DEF Allocated
<1>8. CASE Tick
  BY <1>0, <1>8 DEF Tick, history, Allocated
<1>9. CASE EnvironmentStep
  BY <1>0, <1>9, EnvironmentTypes DEF program, history, Allocated, TypeOK
<1>10. CASE UNCHANGED vars
  BY <1>0, <1>10 DEF vars, program, history, Allocated
<1>11. QED
  BY <1>1, <1>2, <1>3, <1>4, <1>5, <1>6, <1>7, <1>8, <1>9, <1>10, StepCases

\* disconnect() holds whatever the callbacks call, where that of a concrete handler
\* does not: the second assignment of check() does not reach the inner handler.
THEOREM GenericDisconnectIsHonoured == Spec => []DisconnectHonoured
<1>1. Init => DisconnectHonoured
  BY DEF Init, DisconnectHonoured
<1>2. TypeOK /\ DisconnectHonoured /\ [Next]_vars => DisconnectHonoured'
  BY HonouredInductive
<1>3. QED
  BY <1>1, <1>2, GenericTypeCorrect, PTL DEF Spec

-----------------------------------------------------------------------------
(* The two objects.                                                        *)

\* InSync as it holds at every step: a callback runs exactly while the outer waits
\* to be assigned the inner's state, and without an inner handler check() and the
\* methods leave the outer in INIT or DISCONNECTING.
SyncInv ==
    /\ Allocated =>
          /\ outer.interface = inner.interface
          /\ \/ running = <<>> /\ (inner.state = outer.state \/ Awaiting)
             \/ running = <<inner.state>>
          /\ inner.keep_alive => outer.keep_alive
    /\ ~Allocated => running = <<>> /\ outer.state \in {"INIT", "DISCONNECTING"}

\* While a callback runs nothing but the clock and the network moves; between two
\* calls the forwarded methods find both objects in the same state.
LEMMA SyncInductive ==
    ASSUME CallbackCalls = {}, TypeOK, SyncInv, [Next]_vars
    PROVE  SyncInv'
<1>0. /\ outer \in OuterObject
      /\ Allocated => inner \in Handler
  BY DEF TypeOK
<1>1. CASE Check
  <2>1. PICK next \in NetworkConnectionState :
          /\ MayCheck
          /\ Allocated =>
                /\ inner' \in Handler
                /\ inner'.state = next
                /\ inner'.interface = inner.interface
                /\ inner'.keep_alive = inner.keep_alive
          /\ ~Allocated => next = "INIT" /\ inner' = inner
          /\ callsBack(outer, next) =>
                /\ next \in NetworkConnectionEvent
                /\ running' = <<next>> \o running
          /\ ~callsBack(outer, next) =>
                UNCHANGED running /\ outer'.state = next
          /\ outer'.interface = outer.interface
          /\ outer'.keep_alive = outer.keep_alive
    BY <1>1, CheckStep
  <2>2. running = <<>>
    BY <2>1 DEF MayCheck
  <2>3. CASE Allocated
    <3>1. Allocated'
      BY <2>1, <2>3, NullIsNoHandler DEF Allocated
    <3>2. \/ running' = <<>> /\ inner'.state = outer'.state
          \/ running' = <<inner'.state>>
      BY <2>1, <2>2, <2>3, OneCallback
    <3>3. QED
      BY <2>1, <2>3, <3>1, <3>2 DEF SyncInv
  <2>4. CASE ~Allocated
    <3>1. ~callsBack(outer, next)
      BY <2>1, <2>4 DEF NetworkConnectionEvent
    <3>2. QED
      BY <2>1, <2>2, <2>4, <3>1 DEF SyncInv, Allocated
  <2>5. QED
    BY <2>3, <2>4
<1>2. CASE CheckReturn
  <2>1. Allocated /\ running = <<inner.state>>
    BY <1>2 DEF CheckReturn, SyncInv
  <2>2. outer' = [outer EXCEPT !.state = inner.state] /\ running' = <<>>
    BY <1>2, <2>1, OneCallback DEF CheckReturn
  <2>3. outer'.state = inner.state /\ outer'.interface = outer.interface
    BY <1>0, <2>2 DEF OuterObject
  <2>4. outer'.keep_alive = outer.keep_alive
    BY <1>0, <2>2 DEF OuterObject
  <2>5. QED
    BY <1>2, <2>1, <2>2, <2>3, <2>4 DEF SyncInv, CheckReturn, Allocated
<1>3. CASE Connect
  <2>1. running = <<>> /\ running' = <<>> /\ outer' = connect(outer)
    BY <1>3 DEF Connect, Calls
  <2>2. CASE Allocated
    <3>1. inner' = connect(inner)
      BY <1>3, <2>2 DEF Connect
    <3>2. inner.state = outer.state \/ Awaiting
      BY <2>1, <2>2, OneCallback DEF SyncInv
    <3>3. inner'.interface = inner.interface /\ outer'.interface = outer.interface
      BY <1>0, <2>1, <2>2, <3>1, ConnectMethod, OuterMethods
    <3>4. inner'.state = outer'.state /\ (inner'.keep_alive => outer'.keep_alive)
      <4>1. CASE inner.state \in {"INIT", "CONNECTING"}
        <5>1. inner' = inner
          BY <1>0, <2>2, <3>1, <4>1, ConnectMethod
        <5>2. CASE outer.state \in {"INIT", "CONNECTING"}
          <6>1. outer' = outer /\ inner.state = outer.state
            BY <1>0, <2>1, <3>2, <5>2, OuterMethods DEF Awaiting
          <6>2. QED
            BY <2>2, <5>1, <6>1 DEF SyncInv
        <5>3. CASE outer.state \notin {"INIT", "CONNECTING"}
          <6>1. outer'.state = "INIT" /\ outer'.keep_alive
            BY <1>0, <2>1, <5>3, OuterMethods
          <6>2. inner.state = "INIT"
            BY <3>2, <4>1, <5>3 DEF Awaiting
          <6>3. QED
            BY <5>1, <6>1, <6>2
        <5>4. QED
          BY <5>2, <5>3
      <4>2. CASE inner.state \notin {"INIT", "CONNECTING"}
        <5>1. outer.state \notin {"INIT", "CONNECTING"}
          BY <3>2, <4>2 DEF Awaiting
        <5>2. outer'.state = "INIT" /\ outer'.keep_alive
          BY <1>0, <2>1, <5>1, OuterMethods
        <5>3. inner'.state = "INIT"
          BY <1>0, <2>2, <3>1, <4>2, ConnectMethod
        <5>4. QED
          BY <5>2, <5>3
      <4>3. QED
        BY <4>1, <4>2
    <3>5. Allocated'
      BY <1>0, <2>2, <3>1, ConnectMethod, NullIsNoHandler DEF Allocated
    <3>6. QED
      BY <2>1, <2>2, <3>3, <3>4, <3>5 DEF SyncInv
  <2>3. CASE ~Allocated
    <3>1. outer'.state \in {"INIT", "DISCONNECTING"}
      BY <1>0, <2>1, <2>3, OuterMethods DEF SyncInv
    <3>2. QED
      BY <1>3, <2>1, <2>3, <3>1 DEF Connect, SyncInv, Allocated
  <2>4. QED
    BY <2>2, <2>3
<1>4. CASE Disconnect
  <2>1. running = <<>> /\ running' = <<>> /\ outer' = disconnect(outer)
    BY <1>4 DEF Disconnect, Calls
  <2>2. outer'.state = "DISCONNECTING" /\ outer'.interface = outer.interface
    BY <1>0, <2>1, OuterMethods
  <2>3. CASE Allocated
    <3>1. inner' = disconnect(inner)
      BY <1>4, <2>3 DEF Disconnect
    <3>2. /\ inner' \in Handler
          /\ inner'.state = "DISCONNECTING"
          /\ inner'.interface = inner.interface
          /\ ~inner'.keep_alive
      BY <1>0, <2>3, <3>1, DisconnectMethod
    <3>3. QED
      BY <2>1, <2>2, <2>3, <3>2, NullIsNoHandler DEF SyncInv, Allocated
  <2>4. CASE ~Allocated
    BY <1>4, <2>1, <2>2, <2>4 DEF Disconnect, SyncInv, Allocated
  <2>5. QED
    BY <2>3, <2>4
<1>5. CASE \E b \in BOOLEAN : SetKeepAlive(b)
  <2>1. PICK b \in BOOLEAN : SetKeepAlive(b)
    BY <1>5
  <2>2. running = <<>> /\ running' = <<>> /\ outer' = setKeepAlive(outer, b)
    BY <2>1 DEF SetKeepAlive, Calls
  <2>3. /\ outer'.state = outer.state
        /\ outer'.interface = outer.interface
        /\ outer'.keep_alive = b
    BY <1>0, <2>2, OuterMethods
  <2>4. CASE Allocated
    <3>1. inner' = setKeepAlive(inner, b)
      BY <2>1, <2>4 DEF SetKeepAlive
    <3>2. /\ inner' \in Handler
          /\ inner'.state = inner.state
          /\ inner'.interface = inner.interface
          /\ inner'.keep_alive = b
      BY <1>0, <2>4, <3>1, FlagMethods
    <3>3. inner.state = outer.state \/ Awaiting
      BY <2>2, <2>4, OneCallback DEF SyncInv
    <3>4. QED
      BY <2>2, <2>3, <2>4, <3>2, <3>3, NullIsNoHandler
         DEF SyncInv, Allocated, Awaiting
  <2>5. CASE ~Allocated
    BY <2>1, <2>2, <2>3, <2>5 DEF SetKeepAlive, SyncInv, Allocated
  <2>6. QED
    BY <2>4, <2>5
<1>6. CASE \E type \in Requested, s \in Settings : UpdateSetting(type, s)
  <2>1. PICK type \in Requested, s \in Settings : UpdateSetting(type, s)
    BY <1>6
  <2>2. running = <<>> /\ running' = <<>>
    BY <2>1, UpdateSettingStep DEF UpdateSetting, Calls
  <2>3. /\ Allocated => inner.state = "INIT"
        /\ outer'.state = outer.state
        /\ outer'.keep_alive = outer.keep_alive
        /\ \/ ~Allocated'
           \/ /\ (Allocated => inner.interface = outer.interface)
                    => inner'.interface = outer'.interface
              /\ inner'.state = "INIT"
              /\ inner'.keep_alive = outer.keep_alive
    BY <2>1, UpdateSettingStep
  <2>4. outer'.state \in {"INIT", "DISCONNECTING"}
    BY <2>2, <2>3, OneCallback DEF SyncInv, Awaiting
  <2>5. QED
    BY <2>2, <2>3, <2>4 DEF SyncInv, Awaiting
<1>7. CASE Adjust
  BY <1>7, AdjustStep DEF SyncInv, Awaiting, Allocated
<1>8. CASE Tick
  BY <1>8 DEF Tick, history, SyncInv, Awaiting, Allocated
<1>9. CASE EnvironmentStep
  BY <1>9, EnvironmentTypes DEF program, SyncInv, Awaiting, Allocated, TypeOK
<1>10. CASE UNCHANGED vars
  BY <1>10 DEF vars, program, SyncInv, Awaiting, Allocated
<1>11. QED
  BY <1>1, <1>2, <1>3, <1>4, <1>5, <1>6, <1>7, <1>8, <1>9, <1>10, StepCases

\* SyncInv in every reachable state.
LEMMA SyncInvHolds ==
    ASSUME CallbackCalls = {}
    PROVE  Spec => []SyncInv
<1>1. Init => SyncInv
  BY DEF Init, SyncInv, Allocated, GenericConstructed, Constructed
<1>2. TypeOK /\ SyncInv /\ [Next]_vars => SyncInv'
  BY SyncInductive
<1>3. QED
  BY <1>1, <1>2, GenericTypeCorrect, PTL DEF Spec

\* The states and interfaces of the two objects agree between two calls, whatever
\* handlers updateSetting() creates and deletes.
THEOREM ObjectsInSync ==
    ASSUME CallbackCalls = {}
    PROVE  Spec => []InSync
<1>1. SyncInv => InSync
  BY DEF SyncInv, InSync
<1>2. QED
  BY <1>1, SyncInvHolds, PTL

-----------------------------------------------------------------------------
(* The wrapper as a ConnectionHandler.                                     *)

\* The hooks see the interface, the flags and the settings of an object and nothing
\* else of it.
LEMMA SameHooks ==
    ASSUME NEW h, NEW g, NEW next,
           g.interface = h.interface, g.keep_alive = h.keep_alive,
           g.check_internet = h.check_internet, g.settings = h.settings,
           g.state = h.state, updateConnectionState(h, next)
    PROVE  Concrete!updateConnectionState(g, next)
<1> USE DEF Began, Stopped, LoseNetwork, Admits, PingOk, Concrete!Began,
            Concrete!Stopped, Concrete!LoseNetwork, Concrete!Admits, Concrete!PingOk
<1>1. ASSUME update_handleInit(h, next)
      PROVE  Concrete!update_handleInit(g, next)
  BY <1>1 DEF update_handleInit, Concrete!update_handleInit,
     WiFi_update_handleInit, Concrete!WiFi_update_handleInit,
     Ethernet_update_handleInit, Concrete!Ethernet_update_handleInit,
     LoRa_update_handleInit, Concrete!LoRa_update_handleInit,
     GSM_update_handleInit, Concrete!GSM_update_handleInit,
     NB_update_handleInit, Concrete!NB_update_handleInit,
     CatM1_update_handleInit, Concrete!CatM1_update_handleInit,
     Cellular_update_handleInit, Concrete!Cellular_update_handleInit
<1>2. ASSUME update_handleConnecting(h, next)
      PROVE  Concrete!update_handleConnecting(g, next)
  BY <1>2 DEF update_handleConnecting, Concrete!update_handleConnecting,
     WiFi_update_handleConnecting, Concrete!WiFi_update_handleConnecting,
     Ethernet_update_handleConnecting, Concrete!Ethernet_update_handleConnecting,
     LoRa_update_handleConnecting, Concrete!LoRa_update_handleConnecting,
     GSM_update_handleConnecting, Concrete!GSM_update_handleConnecting,
     NB_update_handleConnecting, Concrete!NB_update_handleConnecting,
     CatM1_update_handleConnecting, Concrete!CatM1_update_handleConnecting,
     Cellular_update_handleConnecting, Concrete!Cellular_update_handleConnecting
<1>3. ASSUME update_handleConnected(h, next)
      PROVE  Concrete!update_handleConnected(g, next)
  BY <1>3 DEF update_handleConnected, Concrete!update_handleConnected,
     WiFi_update_handleConnected, Concrete!WiFi_update_handleConnected,
     Ethernet_update_handleConnected, Concrete!Ethernet_update_handleConnected,
     LoRa_update_handleConnected, Concrete!LoRa_update_handleConnected,
     GSM_update_handleConnected, Concrete!GSM_update_handleConnected,
     NB_update_handleConnected, Concrete!NB_update_handleConnected,
     CatM1_update_handleConnected, Concrete!CatM1_update_handleConnected,
     Cellular_update_handleConnected, Concrete!Cellular_update_handleConnected
<1>4. ASSUME update_handleDisconnecting(h, next)
      PROVE  Concrete!update_handleDisconnecting(g, next)
  BY <1>4 DEF update_handleDisconnecting, Concrete!update_handleDisconnecting,
     WiFi_update_handleDisconnecting, Concrete!WiFi_update_handleDisconnecting,
     Ethernet_update_handleDisconnecting, Concrete!Ethernet_update_handleDisconnecting,
     LoRa_update_handleDisconnecting, Concrete!LoRa_update_handleDisconnecting,
     GSM_update_handleDisconnecting, Concrete!GSM_update_handleDisconnecting,
     NB_update_handleDisconnecting, Concrete!NB_update_handleDisconnecting,
     CatM1_update_handleDisconnecting, Concrete!CatM1_update_handleDisconnecting,
     Cellular_update_handleDisconnecting, Concrete!Cellular_update_handleDisconnecting
<1>5. ASSUME update_handleDisconnected(h, next)
      PROVE  Concrete!update_handleDisconnected(g, next)
  BY <1>5 DEF update_handleDisconnected, Concrete!update_handleDisconnected,
     WiFi_update_handleDisconnected, Concrete!WiFi_update_handleDisconnected,
     Ethernet_update_handleDisconnected, Concrete!Ethernet_update_handleDisconnected,
     LoRa_update_handleDisconnected, Concrete!LoRa_update_handleDisconnected,
     GSM_update_handleDisconnected, Concrete!GSM_update_handleDisconnected,
     NB_update_handleDisconnected, Concrete!NB_update_handleDisconnected,
     CatM1_update_handleDisconnected, Concrete!CatM1_update_handleDisconnected,
     Cellular_update_handleDisconnected, Concrete!Cellular_update_handleDisconnected
<1>6. QED
  BY <1>1, <1>2, <1>3, <1>4, <1>5
     DEF updateConnectionState, Concrete!updateConnectionState

\* The inner handler i with the timeouts and callbacks of the outer o.
Wrap(i, o) == [i EXCEPT !.callbacks = o.callbacks, !.timeoutTable = o.timeoutTable]

\* Wrapped is one now, and one after a step.
LEMMA WrappedIsWrap ==
    Wrapped = Wrap(inner, outer) /\ Wrapped' = Wrap(inner', outer')
BY DEF Wrapped, Wrap

\* The members of a wrapped handler.
LEMMA WrapMembers ==
    ASSUME NEW i \in Handler, NEW o \in OuterObject
    PROVE  /\ Wrap(i, o).interface = i.interface
           /\ Wrap(i, o).state = i.state
           /\ Wrap(i, o).keep_alive = i.keep_alive
           /\ Wrap(i, o).check_internet = i.check_internet
           /\ Wrap(i, o).settings = i.settings
           /\ Wrap(i, o).timeoutTable = o.timeoutTable
           /\ Wrap(i, o).callbacks = o.callbacks
BY DEF Wrap, Handler, OuterObject

\* A method that the inner handler hears of changes the wrapped handler alike, and
\* of the outer only members that do not show.
LEMMA InnerMethods ==
    ASSUME NEW i \in Handler, NEW o \in OuterObject
    PROVE  /\ \A n \in NetworkConnectionState :
                /\ Wrap([i EXCEPT !.state = n], o) = [Wrap(i, o) EXCEPT !.state = n]
                /\ Wrap([i EXCEPT !.state = n], [o EXCEPT !.state = n])
                      = [Wrap(i, o) EXCEPT !.state = n]
                /\ Wrap(i, [o EXCEPT !.state = n]) = Wrap(i, o)
           /\ Wrap(connect(i), connect(o)) = connect(Wrap(i, o))
           /\ Wrap(disconnect(i), disconnect(o)) = disconnect(Wrap(i, o))
           /\ \A b \in BOOLEAN : Wrap(setKeepAlive(i, b), setKeepAlive(o, b))
                                   = setKeepAlive(Wrap(i, o), b)
<1> USE DEF Wrap, Handler, OuterObject
<1>1. ASSUME NEW n \in NetworkConnectionState
      PROVE  /\ Wrap([i EXCEPT !.state = n], o) = [Wrap(i, o) EXCEPT !.state = n]
             /\ Wrap([i EXCEPT !.state = n], [o EXCEPT !.state = n])
                   = [Wrap(i, o) EXCEPT !.state = n]
             /\ Wrap(i, [o EXCEPT !.state = n]) = Wrap(i, o)
  OBVIOUS
<1>2. Wrap(connect(i), connect(o)) = connect(Wrap(i, o))
  BY DEF connect
<1>3. Wrap(disconnect(i), disconnect(o)) = disconnect(Wrap(i, o))
  BY DEF disconnect
<1>4. ASSUME NEW b \in BOOLEAN
      PROVE  Wrap(setKeepAlive(i, b), setKeepAlive(o, b))
                = setKeepAlive(Wrap(i, o), b)
  BY DEF setKeepAlive
<1>5. QED
  BY <1>1, <1>2, <1>3, <1>4

\* The methods that only the outer has are methods of the wrapped handler, but for
\* enableCheckInternetAvailability(), which it does not see.
LEMMA OuterOnlyMethods ==
    ASSUME NEW i \in Handler, NEW o \in OuterObject
    PROVE  /\ \A st \in NetworkConnectionState, t \in Nat :
                Wrap(i, updateTimeoutInterval(o, st, t))
                   = updateTimeoutInterval(Wrap(i, o), st, t)
           /\ \A table \in [NetworkConnectionState -> Nat] :
                Wrap(i, updateTimeoutTable(o, table))
                   = updateTimeoutTable(Wrap(i, o), table)
           /\ \A e \in NetworkConnectionEvent, b \in BOOLEAN :
                Wrap(i, addCallback(o, e, b)) = addCallback(Wrap(i, o), e, b)
           /\ \A b \in BOOLEAN :
                Wrap(i, enableCheckInternetAvailability(o, b)) = Wrap(i, o)
<1> USE DEF Wrap, Handler, OuterObject
<1>1. ASSUME NEW st \in NetworkConnectionState, NEW t \in Nat
      PROVE  Wrap(i, updateTimeoutInterval(o, st, t))
                = updateTimeoutInterval(Wrap(i, o), st, t)
  BY DEF updateTimeoutInterval
<1>2. ASSUME NEW table \in [NetworkConnectionState -> Nat]
      PROVE  Wrap(i, updateTimeoutTable(o, table))
                = updateTimeoutTable(Wrap(i, o), table)
  BY DEF updateTimeoutTable
<1>3. ASSUME NEW e \in NetworkConnectionEvent, NEW b \in BOOLEAN
      PROVE  Wrap(i, addCallback(o, e, b)) = addCallback(Wrap(i, o), e, b)
  BY DEF addCallback
<1>4. ASSUME NEW b \in BOOLEAN
      PROVE  Wrap(i, enableCheckInternetAvailability(o, b)) = Wrap(i, o)
  BY DEF enableCheckInternetAvailability
<1>5. QED
  BY <1>1, <1>2, <1>3, <1>4

\* check() of the wrapper is check() of the wrapped handler, at its interval unless
\* the outer still waits for the first tick of a new handler.
LEMMA CheckWraps ==
    ASSUME CallbackCalls = {}, TypeOK, SyncInv, Allocated, Check
    PROVE  Concrete!Next \/ MistimedTick
<1>1. PICK next \in NetworkConnectionState :
        /\ MayCheck
        /\ updateConnectionState(inner, next)
        /\ next \in Successors(inner.state)
        /\ inner' = [inner EXCEPT !.state = next]
        /\ callsBack(outer, next) =>
              /\ running' = <<next>> \o running
              /\ told' = next /\ asked' = None
              /\ outer' = outer
        /\ ~callsBack(outer, next) =>
              /\ UNCHANGED <<running, told, asked>>
              /\ outer' = [outer EXCEPT !.state = next]
  BY CheckStep
<1>2. running = <<>>
  BY <1>1 DEF MayCheck
<1>3. inner.state = outer.state \/ Awaiting
  BY <1>2, OneCallback DEF SyncInv
<1>4. inner \in Handler /\ outer \in OuterObject
  BY DEF TypeOK
<1>5. /\ Wrapped.interface = inner.interface
      /\ Wrapped.state = inner.state
      /\ Wrapped.keep_alive = inner.keep_alive
      /\ Wrapped.check_internet = inner.check_internet
      /\ Wrapped.settings = inner.settings
      /\ Wrapped.timeoutTable = outer.timeoutTable
      /\ Wrapped.callbacks = outer.callbacks
  BY <1>4, WrappedIsWrap, WrapMembers
<1>6. Concrete!updateConnectionState(Wrapped, next)
  BY <1>1, <1>5, SameHooks
<1>7. Wrapped' = [Wrapped EXCEPT !.state = next]
  <2>1. /\ Wrap([inner EXCEPT !.state = next], outer)
              = [Wrap(inner, outer) EXCEPT !.state = next]
        /\ Wrap([inner EXCEPT !.state = next], [outer EXCEPT !.state = next])
              = [Wrap(inner, outer) EXCEPT !.state = next]
    BY <1>4, InnerMethods
  <2>2. inner' = [inner EXCEPT !.state = next]
    BY <1>1
  <2>3. CASE outer' = outer
    BY <2>1, <2>2, <2>3, WrappedIsWrap
  <2>4. CASE outer' = [outer EXCEPT !.state = next]
    BY <2>1, <2>2, <2>4, WrappedIsWrap
  <2>5. QED
    BY <1>1, <2>3, <2>4
<1>8. Concrete!callsBack(Wrapped, next) <=> callsBack(outer, next)
  <2>1. CASE inner.state = outer.state
    BY <1>5, <2>1 DEF callsBack, Concrete!callsBack
  <2>2. CASE Awaiting
    <3>1. next \in {"INIT", "CONNECTING", "DISCONNECTED", "ERROR"}
      BY <1>1, <2>2 DEF Awaiting, Successors
    <3>2. "INIT" \notin outer.callbacks
      BY <1>4 DEF OuterObject, NetworkConnectionEvent
    <3>3. QED
      BY <1>5, <2>2, <3>1, <3>2 DEF Awaiting, callsBack, Concrete!callsBack
  <2>3. QED
    BY <1>3, <2>1, <2>2
<1>9. Concrete!Advance
  BY <1>1, <1>6, <1>7, <1>8
     DEF Concrete!Advance, Concrete!NetworkConnectionState, NetworkConnectionState,
         Concrete!None, None
<1>10. elapsed > outer.timeoutTable[outer.state] /\ elapsed' = 0 /\ want' = want
  BY DEF Check
<1>11. CASE Awaiting
  BY <1>9, <1>10, <1>11 DEF MistimedTick, Awaiting
<1>12. CASE inner.state = outer.state
  <2>1. Concrete!Due
    BY <1>5, <1>10, <1>12 DEF Concrete!Due
  <2>2. QED
    BY <1>2, <1>9, <1>10, <2>1 DEF Concrete!Next, Concrete!Check, Concrete!MayCheck
<1>13. QED
  BY <1>3, <1>11, <1>12

\* The forwarded methods are methods of the wrapped handler; connect() in INIT and
\* CONNECTING is not seen there.
LEMMA ForwardedWrap ==
    ASSUME CallbackCalls = {}, TypeOK, Allocated,
           Connect \/ Disconnect \/ \E b \in BOOLEAN : SetKeepAlive(b)
    PROVE  Concrete!Next \/ UNCHANGED Concrete!vars
<1>1. inner \in Handler /\ outer \in OuterObject
  BY DEF TypeOK
<1>2. Wrapped.state = inner.state
  BY <1>1, WrappedIsWrap, WrapMembers
<1>3. CASE Connect
  <2>1. Wrapped' = connect(Wrapped)
    BY <1>1, <1>3, WrappedIsWrap, InnerMethods DEF Connect
  <2>2. running = <<>> /\ "connect" \in LoopCalls
    BY <1>3 DEF Connect, Calls
  <2>3. inner' = connect(inner) /\ UNCHANGED <<elapsed, running, told, dev>>
    BY <1>3 DEF Connect
  <2>4. CASE inner.state \in {"INIT", "CONNECTING"}
    <3>1. inner' = inner
      BY <1>1, <2>3, <2>4, ConnectMethod
    <3>2. UNCHANGED <<asked, want>>
      BY <1>3, <3>1 DEF Connect
    <3>3. Wrapped' = Wrapped
      BY <1>2, <2>1, <2>4 DEF connect
    <3>4. QED
      BY <2>3, <3>2, <3>3 DEF Concrete!vars, Concrete!program, Concrete!history
  <2>5. CASE inner.state \notin {"INIT", "CONNECTING"}
    <3>1. inner' # inner
      BY <1>1, <2>3, <2>5, ConnectMethod
    <3>2. asked' = "connect" /\ want' = "up"
      BY <1>3, <3>1 DEF Connect
    <3>3. Concrete!connect(Wrapped) = connect(Wrapped)
      BY DEF Concrete!connect, connect
    <3>4. Concrete!Connect
      BY <1>2, <2>1, <2>2, <2>3, <2>5, <3>2, <3>3
         DEF Concrete!Connect, Concrete!Calls
    <3>5. QED
      BY <3>4 DEF Concrete!Next, Concrete!Application
  <2>6. QED
    BY <2>4, <2>5
<1>4. CASE Disconnect
  <2>1. Wrapped' = Concrete!disconnect(Wrapped)
    BY <1>1, <1>4, WrappedIsWrap, InnerMethods
       DEF Disconnect, Concrete!disconnect, disconnect
  <2>2. Concrete!Disconnect
    BY <1>4, <2>1 DEF Disconnect, Calls, Concrete!Disconnect, Concrete!Calls
  <2>3. QED
    BY <2>2 DEF Concrete!Next, Concrete!Application
<1>5. CASE \E b \in BOOLEAN : SetKeepAlive(b)
  <2>1. PICK b \in BOOLEAN : SetKeepAlive(b)
    BY <1>5
  <2>2. Wrapped' = Concrete!setKeepAlive(Wrapped, b)
    BY <1>1, <2>1, WrappedIsWrap, InnerMethods
       DEF SetKeepAlive, Concrete!setKeepAlive, setKeepAlive
  <2>3. Concrete!SetKeepAlive(b)
    BY <2>1, <2>2 DEF SetKeepAlive, Calls, Concrete!SetKeepAlive, Concrete!Calls
  <2>4. QED
    BY <2>3 DEF Concrete!Next, Concrete!Application
<1>6. QED
  BY <1>3, <1>4, <1>5

\* The setters of the outer are setters of the wrapped handler, or not seen there.
LEMMA AdjustWraps ==
    ASSUME TypeOK, Allocated, Adjust
    PROVE  Concrete!Next \/ UNCHANGED Concrete!vars
<1>1. inner \in Handler /\ outer \in OuterObject
  BY DEF TypeOK
<1> USE DEF Concrete!history, history, Calls, Concrete!Calls
<1>2. ASSUME NEW b \in BOOLEAN, EnableCheckInternetAvailability(b)
      PROVE  UNCHANGED Concrete!vars
  <2>1. Wrapped' = Wrapped
    BY <1>1, <1>2, WrappedIsWrap, OuterOnlyMethods
       DEF EnableCheckInternetAvailability
  <2>2. QED
    BY <1>2, <2>1 DEF EnableCheckInternetAvailability, Concrete!vars,
                      Concrete!program
<1>3. ASSUME NEW st \in RetimedStates, NEW t \in TimeoutChoices,
             UpdateTimeoutInterval(st, t)
      PROVE  Concrete!UpdateTimeoutInterval(st, t)
  <2>1. st \in NetworkConnectionState /\ t \in Nat
    BY Intervals, GenericAssumption DEF GenericAssumption
  <2>2. Wrapped' = updateTimeoutInterval(Wrapped, st, t)
    BY <1>1, <1>3, <2>1, WrappedIsWrap, OuterOnlyMethods DEF UpdateTimeoutInterval
  <2>3. QED
    BY <1>3, <2>2 DEF UpdateTimeoutInterval, Concrete!UpdateTimeoutInterval,
                      updateTimeoutInterval, Concrete!updateTimeoutInterval
<1>4. ASSUME NEW table \in TimeoutTables, UpdateTimeoutTable(table)
      PROVE  Concrete!UpdateTimeoutTable(table)
  <2>1. table \in [NetworkConnectionState -> Nat]
    BY Intervals
  <2>2. Wrapped' = updateTimeoutTable(Wrapped, table)
    BY <1>1, <1>4, <2>1, WrappedIsWrap, OuterOnlyMethods DEF UpdateTimeoutTable
  <2>3. QED
    BY <1>4, <2>2 DEF UpdateTimeoutTable, Concrete!UpdateTimeoutTable,
                      updateTimeoutTable, Concrete!updateTimeoutTable
<1>5. ASSUME NEW e \in NetworkConnectionEvent, NEW b \in BOOLEAN, AddCallback(e, b)
      PROVE  Concrete!AddCallback(e, b)
  <2>1. Wrapped' = addCallback(Wrapped, e, b)
    BY <1>1, <1>5, WrappedIsWrap, OuterOnlyMethods DEF AddCallback
  <2>2. QED
    BY <1>5, <2>1 DEF AddCallback, Concrete!AddCallback,
                      addCallback, Concrete!addCallback
<1>6. CASE \E b \in BOOLEAN : EnableCheckInternetAvailability(b)
  BY <1>2, <1>6
<1>7. CASE \E st \in RetimedStates, t \in TimeoutChoices :
              UpdateTimeoutInterval(st, t)
  BY <1>3, <1>7 DEF Concrete!Next, Concrete!Application
<1>8. CASE \E table \in TimeoutTables : UpdateTimeoutTable(table)
  BY <1>4, <1>8 DEF Concrete!Next, Concrete!Application
<1>9. CASE \E e \in NetworkConnectionEvent, b \in BOOLEAN : AddCallback(e, b)
  BY <1>5, <1>9 DEF Concrete!Next, Concrete!Application,
     Concrete!NetworkConnectionEvent, NetworkConnectionEvent
<1>10. QED
  BY <1>6, <1>7, <1>8, <1>9 DEF Adjust

\* What the hardware and the network do under the wrapper they do under the handler.
LEMMA EnvironmentWraps ==
    ASSUME TypeOK, Allocated, EnvironmentStep
    PROVE  Concrete!Next
<1>1. UNCHANGED program
  BY EnvironmentTypes DEF TypeOK
<1>2. UNCHANGED Concrete!program
  BY <1>1 DEF program, history, Wrapped, Concrete!program, Concrete!history
<1>3. CASE Associates
  BY <1>2, <1>3 DEF Associates, Associate, Admits, Concrete!Next,
     Concrete!Associates, Concrete!Associate, Concrete!Admits
<1>4. CASE LosesNetwork
  BY <1>2, <1>4 DEF LosesNetwork, LoseNetwork, Concrete!Next, Concrete!Network,
     Concrete!LosesNetwork, Concrete!LoseNetwork
<1>5. CASE FindsNetwork
  BY <1>2, <1>5 DEF FindsNetwork, FindNetwork, Concrete!Next, Concrete!Network,
     Concrete!FindsNetwork, Concrete!FindNetwork
<1>6. CASE TogglesInternet
  BY <1>2, <1>6 DEF TogglesInternet, ToggleInternet, Concrete!Next,
     Concrete!Network, Concrete!TogglesInternet, Concrete!ToggleInternet
<1>7. CASE Fails
  <2>1. Wrapped.interface = inner.interface
    BY WrappedIsWrap, WrapMembers DEF TypeOK
  <2>2. QED
    BY <1>2, <1>7, <2>1 DEF Fails, HardwareFails, Concrete!Next, Concrete!Network,
       Concrete!Fails, Concrete!HardwareFails
<1>8. QED
  BY <1>3, <1>4, <1>5, <1>6, <1>7 DEF EnvironmentStep, Network

\* Every step of the wrapper between two calls of updateSetting().
LEMMA StepWraps ==
    ASSUME CallbackCalls = {}, TypeOK, SyncInv, [Next]_vars, Allocated, ~Reconfigures
    PROVE  Concrete!Next \/ MistimedTick \/ UNCHANGED Concrete!vars
<1>1. CASE Check
  BY <1>1, CheckWraps
<1>2. CASE CheckReturn
  <2>1. inner \in Handler /\ outer \in OuterObject
    BY DEF TypeOK
  <2>2. running = <<inner.state>> /\ Head(running) = inner.state
    BY <1>2, OneCallback DEF CheckReturn, SyncInv
  <2>3. inner' = inner /\ outer' = [outer EXCEPT !.state = inner.state]
    BY <1>2, <2>2 DEF CheckReturn
  <2>4. inner.state \in NetworkConnectionState
    BY <2>1 DEF Handler
  <2>5. Wrap(inner, [outer EXCEPT !.state = inner.state]) = Wrap(inner, outer)
    BY <2>1, <2>4, InnerMethods
  <2>6. Wrapped' = Wrapped
    BY <2>3, <2>5, WrappedIsWrap
  <2>7. Wrapped \in Handler /\ Wrapped.state = inner.state
    BY <2>1, WrappedIsWrap, WrapMembers DEF Wrap, Handler, OuterObject
  <2>8. [Wrapped EXCEPT !.state = Head(running)] = Wrapped
    BY <2>2, <2>7 DEF Handler
  <2>9. Concrete!CheckReturn
    BY <1>2, <2>6, <2>8 DEF CheckReturn, history, Concrete!CheckReturn,
                            Concrete!history
  <2>10. QED
    BY <2>9 DEF Concrete!Next
<1>3. CASE Connect \/ Disconnect \/ \E b \in BOOLEAN : SetKeepAlive(b)
  BY <1>3, ForwardedWrap
<1>4. CASE \E type \in Requested, s \in Settings : UpdateSetting(type, s)
  BY <1>4 DEF Reconfigures
<1>5. CASE Adjust
  BY <1>5, AdjustWraps
<1>6. CASE Tick
  BY <1>6 DEF Tick, history, Wrapped, Concrete!Next, Concrete!Tick, Concrete!history
<1>7. CASE EnvironmentStep
  BY <1>7, EnvironmentWraps
<1>8. CASE UNCHANGED vars
  BY <1>8 DEF vars, program, history, Wrapped, Concrete!vars, Concrete!program,
     Concrete!history
<1>9. QED
  BY <1>1, <1>2, <1>3, <1>4, <1>5, <1>6, <1>7, <1>8, StepCases

\* Between two calls of updateSetting() a GenericConnectionHandler is the concrete
\* handler it wraps, for any adapter, network, timing and calls from loop().
THEOREM WrapperRefines ==
    ASSUME CallbackCalls = {}
    PROVE  Spec => WrapsHandler
<1>1. TypeOK /\ SyncInv /\ [Next]_vars
        => [Allocated /\ ~Reconfigures
               => Concrete!Next \/ MistimedTick \/ UNCHANGED Concrete!vars]_vars
  BY StepWraps
<1>2. QED
  BY <1>1, GenericTypeCorrect, SyncInvHolds, PTL DEF Spec, WrapsHandler

-----------------------------------------------------------------------------
(* What the sketch is told, over all the handlers it has.                  *)

\* The callbacks are there from setup() on, and only look.
Listening ==
    /\ CallbackCalls = {}
    /\ SetUpCallbacks = NetworkConnectionEvent
    /\ "addCallback" \notin LoopCalls

\* The connection is the inner handler's, or one that waits in INIT.
LEMMA ConnectionMembers ==
    ASSUME TypeOK
    PROVE  /\ Allocated =>
                 Connection.state = inner.state /\ Connection.keep_alive = inner.keep_alive
           /\ ~Allocated =>
                 Connection.state = "INIT" /\ Connection.keep_alive = outer.keep_alive
           /\ Connection.state \in NetworkConnectionState
           /\ Connection.keep_alive \in BOOLEAN
BY DEF TypeOK, Connection, Handler, OuterObject, NetworkConnectionState

\* No call but addCallback() changes the callbacks.
LEMMA CallbacksKept ==
    ASSUME Listening, TypeOK, [Next]_vars
    PROVE  outer'.callbacks = outer.callbacks
<1>0. outer \in OuterObject
  BY DEF TypeOK
<1>1. CASE Check
  BY <1>0, <1>1 DEF Check, OuterObject
<1>2. CASE CheckReturn
  BY <1>0, <1>2 DEF CheckReturn, OuterObject
<1>3. CASE Connect \/ Disconnect \/ \E b \in BOOLEAN : SetKeepAlive(b)
  BY <1>0, <1>3 DEF Connect, Disconnect, SetKeepAlive, connect, disconnect,
     setKeepAlive, OuterObject
<1>4. CASE \E type \in Requested, s \in Settings : UpdateSetting(type, s)
  BY <1>0, <1>4 DEF UpdateSetting, UpdatesInner, AllocatesInner, LosesInner, OuterObject
<1>5. CASE Adjust
  <2>1. ~(\E e \in NetworkConnectionEvent, b \in BOOLEAN : AddCallback(e, b))
    BY DEF AddCallback, Calls, Listening
  <2>2. QED
    BY <1>0, <1>5, <2>1 DEF Adjust, EnableCheckInternetAvailability,
       enableCheckInternetAvailability, UpdateTimeoutInterval, updateTimeoutInterval,
       UpdateTimeoutTable, updateTimeoutTable, OuterObject
<1>6. CASE Tick \/ UNCHANGED vars
  BY <1>6 DEF Tick, vars, program
<1>7. CASE EnvironmentStep
  BY <1>7, EnvironmentTypes DEF program, TypeOK
<1>8. QED
  BY <1>1, <1>2, <1>3, <1>4, <1>5, <1>6, <1>7, StepCases

\* EventsExplainState at every step, with a handler and without.
EventsInv ==
    /\ outer.callbacks = NetworkConnectionEvent
    /\ asked = "connect" => Connection.state \in {"INIT", "CONNECTING"}
    /\ asked = "disconnect" => Connection.state = "DISCONNECTING"
    /\ asked = None /\ told = "CONNECTED" => Connection.state = "CONNECTED"
    /\ asked = None /\ told = "ERROR" => Connection.state = "ERROR"
    /\ asked = None /\ told = "DISCONNECTED" =>
          Connection.state \in {"DISCONNECTED", "INIT", "CONNECTING", "CLOSED"}
    /\ asked = None /\ told = None => Connection.state \in {"INIT", "CONNECTING"}

\* A tick that changes the connection's state tells it if it is an event.  check()
\* compares with the outer's state, which differs from the inner's only before the
\* first tick of a new handler, and that leads to no DISCONNECTING.
LEMMA CheckTells ==
    ASSUME Listening, TypeOK, SyncInv, EventsInv, Check
    PROVE  /\ Connection'.keep_alive = Connection.keep_alive
           /\ \/ UNCHANGED <<told, asked>> /\ Connection'.state = Connection.state
              \/ /\ Allocated /\ updateConnectionState(inner, Connection'.state)
                 /\ Connection'.state # Connection.state
                 /\ Connection'.state \in Successors(Connection.state)
                 /\ IF Connection'.state \in NetworkConnectionEvent
                    THEN told' = Connection'.state /\ asked' = None
                    ELSE UNCHANGED <<told, asked>>
<1>0. TypeOK'
  BY TypeInductive DEF Next
<1>1. PICK next \in NetworkConnectionState :
        /\ MayCheck
        /\ Allocated =>
              /\ updateConnectionState(inner, next)
              /\ next \in Successors(inner.state)
              /\ inner' \in Handler
              /\ inner'.state = next
              /\ inner'.keep_alive = inner.keep_alive
        /\ ~Allocated => next = "INIT" /\ inner' = inner
        /\ callsBack(outer, next) =>
              next \in NetworkConnectionEvent /\ told' = next /\ asked' = None
        /\ ~callsBack(outer, next) => UNCHANGED <<told, asked>>
        /\ outer'.keep_alive = outer.keep_alive
  BY CheckStep
<1>2. callsBack(outer, next) <=> next # outer.state /\ next \in NetworkConnectionEvent
  BY DEF callsBack, EventsInv
<1>3. CASE ~Allocated
  <2>1. ~Allocated' /\ UNCHANGED <<told, asked>>
    BY <1>1, <1>2, <1>3 DEF Allocated, NetworkConnectionEvent
  <2>2. /\ Connection.state = "INIT" /\ Connection.keep_alive = outer.keep_alive
        /\ Connection'.state = "INIT" /\ Connection'.keep_alive = outer'.keep_alive
    BY <1>3, <2>1 DEF Connection
  <2>3. QED
    BY <1>1, <2>1, <2>2
<1>4. CASE Allocated
  <2>1. Allocated'
    BY <1>1, <1>4, NullIsNoHandler DEF Allocated
  <2>2. /\ Connection.state = inner.state /\ Connection.keep_alive = inner.keep_alive
        /\ Connection'.state = next /\ Connection'.keep_alive = inner.keep_alive
    BY <1>1, <1>4, <2>1 DEF Connection
  <2>3. running = <<>>
    BY <1>1 DEF MayCheck, Listening
  <2>4. inner.state = outer.state \/ Awaiting
    BY <1>4, <2>3, OneCallback DEF SyncInv
  <2>5. CASE next = inner.state
    <3>1. next # outer.state => next \notin NetworkConnectionEvent
      BY <2>4, <2>5 DEF Awaiting, NetworkConnectionEvent
    <3>2. QED
      BY <1>1, <1>2, <2>2, <2>5, <3>1
  <2>6. CASE next # inner.state
    <3>1. next # outer.state
      BY <1>1, <1>4, <2>4, <2>6 DEF Awaiting, Successors
    <3>2. QED
      BY <1>1, <1>2, <1>4, <2>2, <2>6, <3>1
  <2>7. QED
    BY <2>5, <2>6
<1>5. QED
  BY <1>3, <1>4

\* updateSetting() replaces a connection that waits in INIT by another one.
LEMMA UpdateKeepsState ==
    ASSUME TypeOK, NEW type \in Requested, NEW s \in Settings, UpdateSetting(type, s)
    PROVE  /\ Connection.state = "INIT" /\ Connection'.state = "INIT"
           /\ Connection'.keep_alive \in BOOLEAN
           /\ UNCHANGED <<told, asked>>
<1>1. /\ Allocated => inner.state = "INIT"
      /\ outer'.keep_alive = outer.keep_alive
      /\ UNCHANGED <<told, asked>>
      /\ \/ ~Allocated'
         \/ inner'.state = "INIT" /\ inner'.keep_alive = outer.keep_alive
  BY UpdateSettingStep
<1>2. outer.keep_alive \in BOOLEAN
  BY DEF TypeOK, OuterObject
<1>3. QED
  BY <1>1, <1>2 DEF Connection

\* The forwarded methods, with a handler or without.
LEMMA ForwardedCalls ==
    ASSUME Listening, TypeOK
    PROVE  /\ Connect =>
                 /\ UNCHANGED told
                 /\ \/ /\ Connection.state \notin {"INIT", "CONNECTING"}
                       /\ Connection'.state = "INIT" /\ Connection'.keep_alive
                       /\ asked' = "connect"
                    \/ /\ Connection'.state = Connection.state
                       /\ Connection'.keep_alive \in BOOLEAN
                       /\ asked' = asked
           /\ Disconnect =>
                 /\ UNCHANGED told
                 /\ \/ /\ Connection'.state = "DISCONNECTING" /\ ~Connection'.keep_alive
                       /\ asked' = "disconnect"
                    \/ /\ Connection'.state = Connection.state
                       /\ Connection'.keep_alive \in BOOLEAN
                       /\ asked' = asked
           /\ \A b \in BOOLEAN : SetKeepAlive(b) =>
                 /\ UNCHANGED <<told, asked>>
                 /\ Connection'.state = Connection.state
                 /\ Connection'.keep_alive = b
<1>0. outer \in OuterObject /\ (Allocated => inner \in Handler)
  BY DEF TypeOK
<1>1. ASSUME Connect
      PROVE  /\ UNCHANGED told
             /\ \/ /\ Connection.state \notin {"INIT", "CONNECTING"}
                   /\ Connection'.state = "INIT" /\ Connection'.keep_alive
                   /\ asked' = "connect"
                \/ /\ Connection'.state = Connection.state
                   /\ Connection'.keep_alive \in BOOLEAN
                   /\ asked' = asked
  <2>1. UNCHANGED told /\ outer' = connect(outer)
    BY <1>1 DEF Connect
  <2>2. CASE Allocated
    <3>1. inner' = connect(inner)
      BY <1>1, <2>2 DEF Connect
    <3>2. Allocated'
      BY <1>0, <2>2, <3>1, ConnectMethod, NullIsNoHandler DEF Allocated
    <3>3. CASE inner.state \in {"INIT", "CONNECTING"}
      <4>1. inner' = inner
        BY <1>0, <2>2, <3>1, <3>3, ConnectMethod
      <4>2. asked' = asked
        BY <1>1, <4>1 DEF Connect
      <4>3. QED
        BY <1>0, <2>1, <2>2, <3>2, <4>1, <4>2 DEF Connection, Handler
    <3>4. CASE inner.state \notin {"INIT", "CONNECTING"}
      <4>1. connect(inner).state = "INIT" /\ connect(inner).keep_alive
        BY <1>0, <2>2, <3>4, ConnectMethod
      <4>2. inner' # inner
        BY <3>1, <3>4, <4>1
      <4>3. asked' = "connect"
        BY <1>1, <2>2, <4>2 DEF Connect
      <4>4. QED
        BY <2>1, <2>2, <3>1, <3>2, <3>4, <4>1, <4>3 DEF Connection
    <3>5. QED
      BY <3>3, <3>4
  <2>3. CASE ~Allocated
    <3>1. ~Allocated' /\ asked' = asked
      BY <1>1, <2>3 DEF Connect, Allocated
    <3>2. outer'.keep_alive \in BOOLEAN
      BY <1>0, <2>1, OuterMethods DEF OuterObject
    <3>3. QED
      BY <2>1, <2>3, <3>1, <3>2 DEF Connection
  <2>4. QED
    BY <2>2, <2>3
<1>2. ASSUME Disconnect
      PROVE  /\ UNCHANGED told
             /\ \/ /\ Connection'.state = "DISCONNECTING" /\ ~Connection'.keep_alive
                   /\ asked' = "disconnect"
                \/ /\ Connection'.state = Connection.state
                   /\ Connection'.keep_alive \in BOOLEAN
                   /\ asked' = asked
  <2>1. UNCHANGED told /\ outer' = disconnect(outer)
    BY <1>2 DEF Disconnect
  <2>2. CASE Allocated
    <3>1. inner' = disconnect(inner) /\ asked' = "disconnect"
      BY <1>2, <2>2 DEF Disconnect
    <3>2. Allocated'
      BY <1>0, <2>2, <3>1, DisconnectMethod, NullIsNoHandler DEF Allocated
    <3>3. QED
      BY <1>0, <2>1, <2>2, <3>1, <3>2, DisconnectMethod DEF Connection
  <2>3. CASE ~Allocated
    <3>1. ~Allocated' /\ asked' = asked
      BY <1>2, <2>3 DEF Disconnect, Allocated
    <3>2. outer'.keep_alive \in BOOLEAN
      BY <1>0, <2>1, OuterMethods DEF OuterObject
    <3>3. QED
      BY <2>1, <2>3, <3>1, <3>2 DEF Connection
  <2>4. QED
    BY <2>2, <2>3
<1>3. ASSUME NEW b \in BOOLEAN, SetKeepAlive(b)
      PROVE  /\ UNCHANGED <<told, asked>>
             /\ Connection'.state = Connection.state
             /\ Connection'.keep_alive = b
  <2>1. UNCHANGED <<told, asked>> /\ outer' = setKeepAlive(outer, b)
    BY <1>3 DEF SetKeepAlive
  <2>2. CASE Allocated
    <3>1. inner' = setKeepAlive(inner, b)
      BY <1>3, <2>2 DEF SetKeepAlive
    <3>2. Allocated'
      BY <1>0, <2>2, <3>1, FlagMethods, NullIsNoHandler DEF Allocated
    <3>3. QED
      BY <1>0, <2>1, <2>2, <3>1, <3>2, FlagMethods DEF Connection
  <2>3. CASE ~Allocated
    <3>1. ~Allocated'
      BY <1>3, <2>3 DEF SetKeepAlive, Allocated
    <3>2. QED
      BY <1>0, <2>1, <2>3, <3>1, OuterMethods DEF Connection
  <2>4. QED
    BY <2>2, <2>3
<1>4. QED
  BY <1>1, <1>2, <1>3

\* All other steps leave the connection and what is known of it alone.
LEMMA ConnectionUntouched ==
    ASSUME Listening, TypeOK, SyncInv,
           CheckReturn \/ Adjust \/ Tick \/ EnvironmentStep \/ UNCHANGED vars
    PROVE  UNCHANGED <<told, asked>> /\ Connection'.state = Connection.state
           /\ Connection'.keep_alive = Connection.keep_alive
<1>1. UNCHANGED <<inner, told, asked>> /\ outer'.keep_alive = outer.keep_alive
  <2>1. CASE CheckReturn
    BY <2>1 DEF CheckReturn, history, TypeOK, OuterObject
  <2>2. CASE Adjust
    BY <2>2, AdjustStep
  <2>3. CASE Tick \/ UNCHANGED vars
    BY <2>3 DEF Tick, vars, program, history
  <2>4. CASE EnvironmentStep
    BY <2>4, EnvironmentTypes DEF program, history, TypeOK
  <2>5. QED
    BY <2>1, <2>2, <2>3, <2>4
<1>2. QED
  BY <1>1 DEF Connection, Allocated

\* The history of events and calls determines the connection's state up to the silent
\* changes, whichever handler is in charge.
LEMMA EventsInductive ==
    ASSUME Listening, TypeOK, SyncInv, EventsInv, [Next]_vars
    PROVE  EventsInv'
<1>0. outer'.callbacks = NetworkConnectionEvent
  BY CallbacksKept DEF EventsInv
<1>1. ASSUME UNCHANGED <<told, asked>>, Connection'.state = Connection.state
      PROVE  EventsInv'
  BY <1>0, <1>1 DEF EventsInv
<1>2. CASE Check
  <2>1. CASE UNCHANGED <<told, asked>> /\ Connection'.state = Connection.state
    BY <1>1, <2>1
  <2>2. CASE /\ Connection'.state # Connection.state
             /\ Connection'.state \in Successors(Connection.state)
             /\ IF Connection'.state \in NetworkConnectionEvent
                THEN told' = Connection'.state /\ asked' = None
                ELSE UNCHANGED <<told, asked>>
    <3>1. CASE Connection'.state \in NetworkConnectionEvent
      BY <1>0, <2>2, <3>1 DEF EventsInv, NetworkConnectionEvent, None
    <3>2. CASE Connection'.state \notin NetworkConnectionEvent
      <4>1. UNCHANGED <<told, asked>>
        BY <2>2, <3>2
      <4>2. \/ /\ Connection.state \in {"INIT", "CONNECTING"}
               /\ Connection'.state \in {"INIT", "CONNECTING"}
            \/ /\ Connection.state = "DISCONNECTED"
               /\ Connection'.state \in {"INIT", "CLOSED"}
        BY <2>2, <3>2 DEF Successors, NetworkConnectionEvent
      <4>3. QED
        BY <1>0, <4>1, <4>2 DEF EventsInv
    <3>3. QED
      BY <3>1, <3>2
  <2>3. QED
    BY <1>2, <2>1, <2>2, CheckTells
<1>3. CASE Connect
  BY <1>0, <1>3, ForwardedCalls DEF EventsInv, None
<1>4. CASE Disconnect
  BY <1>0, <1>4, ForwardedCalls DEF EventsInv, None
<1>5. CASE \E b \in BOOLEAN : SetKeepAlive(b)
  BY <1>1, <1>5, ForwardedCalls
<1>6. CASE \E type \in Requested, s \in Settings : UpdateSetting(type, s)
  BY <1>1, <1>6, UpdateKeepsState
<1>7. CASE CheckReturn \/ Adjust \/ Tick \/ EnvironmentStep \/ UNCHANGED vars
  BY <1>1, <1>7, ConnectionUntouched
<1>8. QED
  BY <1>2, <1>3, <1>4, <1>5, <1>6, <1>7, StepCases

\* EventsInv in every reachable state.
LEMMA EventsInvHolds ==
    ASSUME Listening
    PROVE  Spec => []EventsInv
<1>1. Init => EventsInv
  <2> SUFFICES ASSUME Init PROVE EventsInv
    OBVIOUS
  <2>1. PICK k \in BOOLEAN :
          outer = [GenericConstructed(k) EXCEPT !.callbacks = SetUpCallbacks]
    BY DEF Init
  <2>2. outer.callbacks = NetworkConnectionEvent
    BY <2>1 DEF GenericConstructed, Constructed, Listening
  <2>3. Connection.state = "INIT" /\ told = None /\ asked = None
    BY DEF Init, Connection, Allocated
  <2>4. QED
    BY <2>2, <2>3 DEF EventsInv, NetworkConnectionEvent, None
<1>2. TypeOK /\ SyncInv /\ EventsInv /\ [Next]_vars => EventsInv'
  BY EventsInductive
<1>3. CallbackCalls = {}
  BY DEF Listening
<1>4. QED
  BY <1>1, <1>2, <1>3, GenericTypeCorrect, SyncInvHolds, PTL DEF Spec

\* The events and the sketch's own calls tell the state of whatever handler it has:
\* updateSetting() replaces no connection that the sketch was told of.
THEOREM GenericEventsTellState ==
    ASSUME Listening
    PROVE  Spec => []EventsExplainState
<1>1. TypeOK /\ EventsInv => EventsExplainState
  <2> SUFFICES ASSUME TypeOK, EventsInv, Allocated
               PROVE  Concrete!EventsExplainState
    BY DEF EventsExplainState
  <2>1. Wrapped.state = Connection.state
    BY WrapMembers, WrappedIsWrap DEF TypeOK, Connection
  <2>2. QED
    BY <2>1 DEF TypeOK, EventsInv, Concrete!EventsExplainState,
       NetworkConnectionEvent, None, Concrete!None
<1>2. QED
  BY <1>1, GenericTypeCorrect, EventsInvHolds, PTL

-----------------------------------------------------------------------------
(* The abstract specification.                                             *)

\* Every step is one of the lifecycle's or invisible there; updateSetting() shows at
\* most as a setKeepAlive().
LEMMA LifecycleStep ==
    ASSUME Listening, TypeOK, SyncInv, EventsInv, [Next]_vars
    PROVE  [Lifecycle!Next]_(Lifecycle!vars)
<1> USE DEF Lifecycle!Next, Lifecycle!vars
<1>0. Connection.state \in NetworkConnectionState
  BY ConnectionMembers
<1>1. CASE Check
  <2> DEFINE next == Connection'.state
  <2>1. Connection'.keep_alive = Connection.keep_alive
    BY <1>1, CheckTells
  <2>2. CASE UNCHANGED told /\ next = Connection.state
    BY <2>1, <2>2
  <2>3. CASE /\ Allocated /\ updateConnectionState(inner, next)
             /\ next # Connection.state
             /\ next \in Successors(Connection.state)
             /\ told' = IF next \in NetworkConnectionEvent THEN next ELSE told
    <3>1. Lifecycle!MovesTo(next)
      BY <2>1, <2>3 DEF Lifecycle!MovesTo, NetworkConnectionEvent,
         Lifecycle!NetworkConnectionEvent
    <3>2. CASE Connection.state = "INIT"
      BY <2>3, <3>1, <3>2 DEF Successors, Lifecycle!Attempt
    <3>3. CASE Connection.state = "CONNECTING"
      BY <2>3, <3>1, <3>3 DEF Successors, Lifecycle!Confirm
    <3>4. CASE Connection.state = "CONNECTED"
      BY <2>3, <3>1, <3>4 DEF Successors, Lifecycle!Lose
    <3>5. CASE Connection.state = "DISCONNECTING"
      BY <2>3, <3>1, <3>5 DEF Successors, Lifecycle!Release
    <3>6. CASE Connection.state = "DISCONNECTED"
      <4>1. inner \in Handler /\ dev \in Device /\ inner.state = "DISCONNECTED"
        BY <2>3, <3>6, ConnectionMembers DEF TypeOK
      <4>2. update_handleDisconnected(inner, next)
        BY <2>3, <4>1 DEF updateConnectionState
      <4>3. next = IF Connection.keep_alive THEN "INIT" ELSE "CLOSED"
        BY <2>3, <4>1, <4>2, DisconnectedHook, ConnectionMembers
      <4>4. QED
        BY <3>1, <3>6, <4>3 DEF Lifecycle!Settle
    <3>7. QED
      BY <1>0, <2>3, <3>2, <3>3, <3>4, <3>5, <3>6
         DEF Successors, NetworkConnectionState
  <2>4. QED
    BY <1>1, <2>2, <2>3, CheckTells
<1>2. CASE Connect
  BY <1>2, ForwardedCalls, ConnectionMembers, TypeInductive
     DEF Lifecycle!Connect, Lifecycle!SetKeepAlive
<1>3. CASE Disconnect
  BY <1>3, ForwardedCalls DEF Lifecycle!Disconnect, Lifecycle!SetKeepAlive
<1>4. CASE \E b \in BOOLEAN : SetKeepAlive(b)
  BY <1>4, ForwardedCalls DEF Lifecycle!SetKeepAlive
<1>5. CASE \E type \in Requested, s \in Settings : UpdateSetting(type, s)
  BY <1>5, UpdateKeepsState DEF Lifecycle!SetKeepAlive
<1>6. CASE CheckReturn \/ Adjust \/ Tick \/ EnvironmentStep \/ UNCHANGED vars
  BY <1>6, ConnectionUntouched
<1>7. QED
  BY <1>1, <1>2, <1>3, <1>4, <1>5, <1>6, StepCases

\* The generic handler implements ConnectionLifecycle over its whole life, for every
\* board and every sequence of settings.
THEOREM GenericLifecycleImplemented ==
    ASSUME Listening
    PROVE  Spec => ImplementsLifecycle
<1>1. Init => Lifecycle!Init
  <2> SUFFICES ASSUME Init PROVE Lifecycle!Init
    OBVIOUS
  <2>1. PICK k \in BOOLEAN :
          outer = [GenericConstructed(k) EXCEPT !.callbacks = SetUpCallbacks]
    BY DEF Init
  <2>2. outer.keep_alive \in BOOLEAN
    BY <2>1 DEF GenericConstructed, Constructed
  <2>3. Connection.state = "INIT" /\ Connection.keep_alive = outer.keep_alive
    BY DEF Init, Connection, Allocated
  <2>4. QED
    BY <2>2, <2>3 DEF Init, Lifecycle!Init, None, Lifecycle!None
<1>2. TypeOK /\ SyncInv /\ EventsInv /\ [Next]_vars
        => [Lifecycle!Next]_(Lifecycle!vars)
  BY LifecycleStep
<1>3. CallbackCalls = {}
  BY DEF Listening
<1>4. QED
  BY <1>1, <1>2, <1>3, GenericTypeCorrect, SyncInvHolds, EventsInvHolds, PTL
     DEF Spec, ImplementsLifecycle, Lifecycle!Spec

=============================================================================
