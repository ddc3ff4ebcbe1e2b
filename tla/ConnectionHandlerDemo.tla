------------------------ MODULE ConnectionHandlerDemo ------------------------
(***************************************************************************)
(* The example sketches that own a concrete handler, with the clock of the *)
(* board: setup() makes its calls in order, loop() toggles the connection  *)
(* every CONN_TOGGLE_MS and then calls check().  Both clocks are compared  *)
(* the way the code does, in unsigned arithmetic; ConnectionHandler, whose *)
(* elapsed time is exact, is the specification the sketches implement.     *)
(***************************************************************************)
EXTENDS ConnectionHandler, NetworkSettings, Integers

CONSTANTS
    Sketches,        \* which of the sketches
    CONN_TOGGLE_MS,
    SketchTable,     \* the intervals ConnectionHandlerTimeoutTable sets
    MillisModulus,   \* millis() wraps here: 2^32 on the boards
    IntModulus,      \* and unsigned int here: 2^32, or 2^16 on an AVR
    LongestLoop,     \* bound on the time from the end of a check() to the next,
                     \* and before the first one
    HookTime,        \* bound on the time the hook of each state takes
    LongestHook,     \* and on all of them: the modem of GSM blocks in INIT for a
                     \* minute, as long as a period of the toggle
    Garbage          \* the lengths a copy from NULL may leave

TogglingSketches == {"ConnectionHandlerDemo", "CheckInternetAvailabilityDemo"}

ASSUME SketchAssumption ==
    /\ Sketches \subseteq TogglingSketches \cup {"ConnectionHandlerTimeoutTable"}
    /\ SketchTable \in [NetworkConnectionState -> TimeoutChoices]
    /\ {MillisModulus, IntModulus} \subseteq Nat \ {0}
    /\ {CONN_TOGGLE_MS, LongestLoop, LongestHook} \subseteq Nat
    /\ HookTime \in [NetworkConnectionState -> 0 .. LongestHook]
    /\ CONN_TOGGLE_MS + 2 * LongestLoop + LongestHook < MillisModulus
    /\ MaxElapsed + LongestLoop < MillisModulus /\ MaxElapsed <= IntModulus
    /\ {"connect", "disconnect", "enableCheckInternetAvailability",
        "updateTimeoutInterval", "addCallback"} \subseteq LoopCalls
    /\ RetimedStates = NetworkConnectionState
    /\ SetUpCallbacks = {}

\* A period of the toggle covers the intervals of a shutdown, the hook that shuts the
\* driver down and the two times that a check() may be late: of 60000 ms, 1100 are the
\* intervals (ConnectionHandlerDefinitions.h:226-227, ConnectionHandlerDemo.ino:35).
\* The hooks that begin, attach and join may take longer than the period.  Only
\* ToggleFindsClosed needs this.
ASSUME ToggleAssumption ==
    DefaultTimeoutTable["DISCONNECTING"] + HookTime["DISCONNECTING"]
      + DefaultTimeoutTable["DISCONNECTED"] + 2 * LongestLoop <= CONN_TOGGLE_MS

VARIABLES
    sketch,
    calls,            \* the calls setup() has still to make
    pc,               \* the part of loop() that is next
    now,              \* millis()
    _lastConnectionTickTime,
    lastConnToggleMs, attemptConnect,
    waited,           \* the time since the last check() returned
    hook              \* the time that the hook it runs may still take

clocks == <<now, waited, hook>>
loopVars == <<pc, lastConnToggleMs, attemptConnect>>
demoVars == <<vars, sketch, calls, loopVars, clocks, _lastConnectionTickTime>>

\* a - b for two values of millis()
Since(b) == (now - b) % MillisModulus

-----------------------------------------------------------------------------
(* The sketch's global object, and setup().                                *)

\* The texts of arduino_secrets.h, as long as they may be.  The NB sketch gives its
\* PIN only, the LoRa sketch no channel mask, for which the default argument is NULL.
Secrets(type) ==
    CASE type = "NB" -> [settingsDefault(type).text EXCEPT !.pin = Longest(type).pin]
      [] type = "LORA" -> [Longest(type) EXCEPT !.channelMask = NULL]
      [] OTHER -> Longest(type)

conMan(type, garbage) ==
    LET s == Stored(type, Secrets(type), garbage)
    IN  CASE type = "WIFI" -> WiFi_Constructed(TRUE, s)
          [] type = "ETHERNET" -> Ethernet_Constructed(TRUE, s)
          [] type = "GSM" -> GSM_Constructed(TRUE, s)
          [] type = "NB" -> NB_Constructed(TRUE, s)
          [] type = "LORA" -> LoRa_Constructed(s)
          [] type = "CATM1" -> CatM1_Constructed(TRUE, s)
          [] type = "CELL" -> Cellular_Constructed(TRUE, s)

addCallbacks ==
    [i \in 1 .. 3 |->
        [method |-> "addCallback",
         event |-> <<"CONNECTED", "DISCONNECTED", "ERROR">>[i]]]

updateTimeoutIntervals ==
    [i \in 1 .. 7 |->
        [method |-> "updateTimeoutInterval",
         state |-> <<"INIT", "CONNECTING", "CONNECTED", "DISCONNECTING",
                     "DISCONNECTED", "CLOSED", "ERROR">>[i]]]

CheckInternetAvailabilityDemo_setup ==
    <<[method |-> "enableCheckInternetAvailability"]>> \o addCallbacks

ConnectionHandlerTimeoutTable_setup == addCallbacks \o updateTimeoutIntervals

setup ==
    [ConnectionHandlerDemo         |-> addCallbacks,
     CheckInternetAvailabilityDemo |-> CheckInternetAvailabilityDemo_setup,
     ConnectionHandlerTimeoutTable |-> ConnectionHandlerTimeoutTable_setup]

DemoInit ==
    /\ Init
    /\ \E g \in Garbage : self = conMan(self.interface, g)
    /\ sketch \in Sketches
    /\ calls = setup[sketch]
    /\ pc = "loop"
    /\ now = 0 /\ waited = 0 /\ hook = 0
    /\ _lastConnectionTickTime = 0
    /\ lastConnToggleMs = 0
    /\ attemptConnect = FALSE

SetUp ==
    /\ calls # <<>>
    /\ LET call == Head(calls)
       IN  \/ /\ call.method = "addCallback"
              /\ AddCallback(call.event, TRUE)
           \/ /\ call.method = "enableCheckInternetAvailability"
              /\ EnableCheckInternetAvailability(TRUE)
           \/ /\ call.method = "updateTimeoutInterval"
              /\ UpdateTimeoutInterval(call.state, SketchTable[call.state])
    /\ calls' = Tail(calls)
    /\ UNCHANGED <<sketch, loopVars, clocks, _lastConnectionTickTime>>

-----------------------------------------------------------------------------
(* loop()                                                                  *)

InLoop(part) == calls = <<>> /\ running = <<>> /\ pc = part

ToggleDue == sketch \in TogglingSketches /\ Since(lastConnToggleMs) > CONN_TOGGLE_MS

\* Mutant: the time of the toggle is not noted.
Toggle_Forgets ==
    /\ InLoop("loop") /\ ToggleDue
    /\ IF attemptConnect THEN Connect ELSE Disconnect
    /\ attemptConnect' = ~attemptConnect
    /\ pc' = "check"
    /\ hook' = 0
    /\ UNCHANGED <<sketch, calls, now, waited, _lastConnectionTickTime, lastConnToggleMs>>

\* The hook, if the last check() ran one, has returned: loop() begins anew.  connect()
\* does nothing in INIT and CONNECTING; the toggle turns all the same.
Toggle ==
    /\ InLoop("loop") /\ ToggleDue
    /\ IF ~attemptConnect THEN Disconnect
       ELSE IF self.state \in {"INIT", "CONNECTING"} THEN UNCHANGED vars
       ELSE Connect
    /\ attemptConnect' = ~attemptConnect
    /\ lastConnToggleMs' = now
    /\ pc' = "check"
    /\ hook' = 0
    /\ UNCHANGED <<sketch, calls, now, waited, _lastConnectionTickTime>>

NoToggle ==
    /\ InLoop("loop") /\ ~ToggleDue
    /\ pc' = "check"
    /\ hook' = 0
    /\ UNCHANGED <<vars, sketch, calls, now, waited, lastConnToggleMs, attemptConnect,
                   _lastConnectionTickTime>>

\* Mutants: the tick comes when the interval is complete; the sum of two times is
\* compared, which the clock's wrap makes wrong.
TickDue_AtInterval ==
    Since(_lastConnectionTickTime) >= self.timeoutTable[self.state]

TickDue_Sum ==
    now > _lastConnectionTickTime + self.timeoutTable[self.state]

\* The interval goes through an unsigned int.
TickDue ==
    Since(_lastConnectionTickTime) > self.timeoutTable[self.state] % IntModulus

LoopCheck ==
    /\ InLoop("check")
    /\ IF TickDue
       THEN /\ Advance
            /\ elapsed' = 0 /\ _lastConnectionTickTime' = now
            /\ hook' = HookTime[self.state]
            /\ UNCHANGED want
       ELSE hook' = 0 /\ UNCHANGED <<vars, _lastConnectionTickTime>>
    /\ pc' = "loop"
    /\ waited' = 0
    /\ UNCHANGED <<sketch, calls, now, lastConnToggleMs, attemptConnect>>

\* The callbacks print a line and return.
LoopCheckReturn ==
    /\ CheckReturn
    /\ UNCHANGED <<sketch, calls, loopVars, clocks, _lastConnectionTickTime>>

-----------------------------------------------------------------------------
(* The environment: time passes, in a hook as long as that may take, and   *)
(* at most LongestLoop from there to the next check.                       *)

\* Time passes in the hook, while it may take longer, or after it.
Passes ==
    \/ /\ hook > 0
       /\ hook' = hook - 1 /\ waited' = waited
    \/ /\ waited < LongestLoop
       /\ hook' = 0 /\ waited' = waited + 1

\* Mutant: a clock that does not wrap.
Millis_NoWrap ==
    /\ Passes
    /\ now' = now + 1
    /\ elapsed' = IF elapsed < MaxElapsed THEN elapsed + 1 ELSE elapsed
    /\ UNCHANGED <<self, running, history, dev, sketch, calls, loopVars,
                   _lastConnectionTickTime>>

Millis ==
    /\ Passes
    /\ now' = (now + 1) % MillisModulus
    /\ elapsed' = IF elapsed < MaxElapsed THEN elapsed + 1 ELSE elapsed
    /\ UNCHANGED <<self, running, history, dev, sketch, calls, loopVars,
                   _lastConnectionTickTime>>

Surroundings ==
    /\ Associates \/ Network
    /\ UNCHANGED <<sketch, calls, loopVars, clocks, _lastConnectionTickTime>>

DemoNext ==
    SetUp \/ Toggle \/ NoToggle \/ LoopCheck \/ LoopCheckReturn \/ Millis \/ Surroundings

DemoSpec == DemoInit /\ [][DemoNext]_demoVars

-----------------------------------------------------------------------------
(* Properties.                                                             *)

DemoTypeOK ==
    /\ TypeOK
    /\ sketch \in Sketches
    /\ pc \in {"loop", "check"}
    /\ {now, _lastConnectionTickTime, lastConnToggleMs} \subseteq 0 .. (MillisModulus - 1)
    /\ attemptConnect \in BOOLEAN
    /\ waited \in 0 .. LongestLoop /\ hook \in 0 .. LongestHook

\* The sketches behave as ConnectionHandler says: the wrapping clock and the width
\* of the interval (ConnectionHandlerInterface.cpp:38-42) never make a tick come
\* before the interval of its state is over, for intervals that fit.
ImplementsConnectionHandler == Spec

\* Nor does it make one come late or lose it: a loop() that is back within
\* LongestLoop gives the handler its tick within that time of the end of some state's
\* interval, or of the last hook if that took longer.
NoTickLost ==
    \/ elapsed <= LongestHook + LongestLoop
    \/ \E st \in NetworkConnectionState : elapsed <= self.timeoutTable[st] + LongestLoop

\* The toggle comes when the last one has been carried out: at connect() the handler
\* has gone through DISCONNECTING and DISCONNECTED to CLOSED and told the sketch, and
\* all adapters but LoRa and Cellular have released the driver (loop() of the two
\* demos against the timeout table and the time that the hooks block).
ToggleFindsClosed ==
    InLoop("loop") /\ ToggleDue /\ attemptConnect => self.state = "CLOSED"

\* The credentials that the driver is begun with are those of arduino_secrets.h, not
\* cut off by a buffer (settings.h:18-30 and the constructors).
CredentialsArrive ==
    self.interface # "LORA" /\ dev.started =>
        dev.cfg = [type |-> self.interface, text |-> Secrets(self.interface)]

\* "Set channelmask based on configuration" (LoRaConnectionHandler.cpp:122): a sketch
\* that configures none has none sent.
MaskOnlyIfConfigured ==
    self.interface = "LORA" /\ Secrets("LORA").channelMask = NULL =>
        dev.mask = NoSetting \/ dev.mask.text.channelMask = 0

=============================================================================
