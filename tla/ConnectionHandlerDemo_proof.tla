--------------------- MODULE ConnectionHandlerDemo_proof ---------------------
(***************************************************************************)
(* Theorems about ConnectionHandlerDemo, for every width of the clock and  *)
(* of the intervals that leaves room for them.                             *)
(***************************************************************************)
EXTENDS ConnectionHandlerDemo, ConnectionHandler_proof

\* The calls of setup(): those of the two demos, and those of the third sketch.
DemoCalls ==
    [method : {"addCallback"}, event : NetworkConnectionEvent]
      \cup [method : {"enableCheckInternetAvailability"}]

SetUpCalls ==
    DemoCalls
      \cup [method : {"updateTimeoutInterval"}, state : NetworkConnectionState]

\* The time that check() measures: since the last tick, on the wrapping clock.
Measured == Since(_lastConnectionTickTime)

\* The object's part: setup() runs before the first check(), and the table holds
\* intervals that fit.
ObjectInv ==
    /\ calls \in Seq(SetUpCalls)
    /\ calls # <<>> => running = <<>>
    /\ self.timeoutTable \in [NetworkConnectionState -> 0 .. (MaxElapsed - 1)]

\* The clock's part: what check() measures is the time since the last tick, as far
\* as ConnectionHandler counts it, and does not come near the wrap.
ClockInv ==
    /\ now \in 0 .. (MillisModulus - 1)
    /\ _lastConnectionTickTime \in 0 .. (MillisModulus - 1)
    /\ waited \in 0 .. LongestLoop /\ hook \in 0 .. LongestHook
    /\ elapsed = IF Measured < MaxElapsed THEN Measured ELSE MaxElapsed
    /\ calls # <<>> => Measured <= waited /\ hook = 0
    /\ \/ Measured + hook <= LongestHook + waited
       \/ \E st \in NetworkConnectionState :
             Measured + hook <= self.timeoutTable[st] + waited

DemoInv == TypeOK /\ ObjectInv /\ ClockInv

-----------------------------------------------------------------------------
(* The arithmetic of the clock.                                            *)

\* One more unit of time is one more unit of the difference, unless that wraps.
LEMMA Ticking ==
    ASSUME NEW W \in Nat \ {0}, NEW t \in 0 .. (W - 1), NEW last \in 0 .. (W - 1),
           ((t - last) % W) + 1 < W
    PROVE  /\ (t + 1) % W \in 0 .. (W - 1)
           /\ (((t + 1) % W) - last) % W = ((t - last) % W) + 1
<1>1. \A a \in 0 .. (W - 1) : a % W = a
  BY Z3
<1>2. \A a \in (-W) .. (-1) : a % W = a + W
  BY Z3
<1>3. W % W = 0
  BY Z3
<1>4. CASE t + 1 < W /\ last <= t
  <2>1. (t + 1) % W = t + 1 /\ t - last \in 0 .. (W - 1) /\ (t + 1) - last \in 0 .. (W - 1)
    BY <1>1, <1>4
  <2>2. QED
    BY <1>1, <2>1
<1>5. CASE t + 1 < W /\ t < last
  <2>1. (t + 1) % W = t + 1 /\ t - last \in (-W) .. (-1)
    BY <1>1, <1>5
  <2>2. (t - last) % W = t - last + W
    BY <1>2, <2>1
  <2>3. (t + 1) - last \in (-W) .. (-1)
    BY <2>2, <1>5
  <2>4. ((t + 1) - last) % W = (t + 1) - last + W
    BY <1>2, <2>3
  <2>5. QED
    BY <2>1, <2>2, <2>4, <1>5
<1>6. CASE t + 1 = W
  <2>1. (t + 1) % W = 0 /\ t - last \in 0 .. (W - 1)
    BY <1>3, <1>6
  <2>2. (t - last) % W = t - last
    BY <1>1, <2>1
  <2>3. last # 0 /\ 0 - last \in (-W) .. (-1)
    BY <2>2, <1>6
  <2>4. (0 - last) % W = 0 - last + W
    BY <1>2, <2>3
  <2>5. QED
    BY <2>1, <2>2, <2>4, <1>6
<1>7. QED
  BY <1>4, <1>5, <1>6

\* A difference of two times is a time, and zero at the tick itself.
LEMMA Differences ==
    ASSUME NEW W \in Nat \ {0}, NEW t \in 0 .. (W - 1), NEW last \in 0 .. (W - 1)
    PROVE  (t - last) % W \in 0 .. (W - 1) /\ (t - t) % W = 0
<1>1. 0 % W = 0
  BY Z3
<1>2. \A a \in Int : a % W \in 0 .. (W - 1)
  BY Z3
<1>3. t - last \in Int /\ t - t = 0
  OBVIOUS
<1>4. QED
  BY <1>1, <1>2, <1>3

\* An interval that fits comes through the unsigned int unchanged.
LEMMA IntervalFits ==
    ASSUME NEW W \in Nat \ {0}, NEW t \in 0 .. (W - 1)
    PROVE  t % W = t
BY Z3

-----------------------------------------------------------------------------
(* The invariant.                                                          *)

\* The calls of setup() are calls of the handler with arguments it takes; the demos
\* leave the intervals as they are.
LEMMA SetUpShape ==
    ASSUME NEW s \in Sketches
    PROVE  /\ setup[s] \in Seq(SetUpCalls)
           /\ s \in TogglingSketches => setup[s] \in Seq(DemoCalls)
<1> DEFINE enables == <<[method |-> "enableCheckInternetAvailability"]>>
<1>1. /\ \A i \in 1 .. 3 : addCallbacks[i] \in DemoCalls
      /\ \A i \in 1 .. 7 : updateTimeoutIntervals[i] \in SetUpCalls
  BY DEF addCallbacks, updateTimeoutIntervals, SetUpCalls, DemoCalls,
         NetworkConnectionEvent, NetworkConnectionState
<1>2. DemoCalls \subseteq SetUpCalls
  BY DEF SetUpCalls
<1>3. /\ addCallbacks \in Seq(DemoCalls) /\ addCallbacks \in Seq(SetUpCalls)
      /\ updateTimeoutIntervals \in Seq(SetUpCalls)
  <2>1. /\ addCallbacks \in [1 .. 3 -> DemoCalls]
        /\ addCallbacks \in [1 .. 3 -> SetUpCalls]
        /\ updateTimeoutIntervals \in [1 .. 7 -> SetUpCalls]
    BY <1>1, <1>2 DEF addCallbacks, updateTimeoutIntervals
  <2>2. ASSUME NEW S, NEW n \in Nat, NEW f \in [1 .. n -> S]
        PROVE  f \in Seq(S)
    BY SeqDef
  <2>3. 3 \in Nat /\ 7 \in Nat
    OBVIOUS
  <2>4. QED
    BY <2>1, <2>2, <2>3
<1>4. enables \in Seq(DemoCalls)
  BY DEF DemoCalls
<1>5. enables \in Seq(SetUpCalls)
  BY DEF SetUpCalls, DemoCalls
<1> HIDE DEF enables
<1>6. /\ enables \o addCallbacks \in Seq(DemoCalls)
      /\ enables \o addCallbacks \in Seq(SetUpCalls)
      /\ addCallbacks \o updateTimeoutIntervals \in Seq(SetUpCalls)
  BY <1>3, <1>4, <1>5, ConcatProperties
<1>7. CASE s \in TogglingSketches
  <2>1. setup[s] \in {addCallbacks, enables \o addCallbacks}
    BY <1>7 DEF setup, TogglingSketches, CheckInternetAvailabilityDemo_setup, enables
  <2>2. QED
    BY <1>3, <1>6, <2>1
<1>8. CASE s \notin TogglingSketches
  <2>1. s = "ConnectionHandlerTimeoutTable"
    BY <1>8, SketchAssumption DEF SketchAssumption
  <2>2. setup[s] = addCallbacks \o updateTimeoutIntervals
    BY <2>1 DEF setup, ConnectionHandlerTimeoutTable_setup
  <2>3. QED
    BY <1>6, <1>8, <2>2
<1>9. QED
  BY <1>7, <1>8

\* The sketch's global object, before setup().
LEMMA DemoInvInitially == DemoInit => DemoInv
<1> SUFFICES ASSUME DemoInit PROVE DemoInv
  OBVIOUS
<1>1. Init
  BY DEF DemoInit
<1>2. TypeOK
  BY <1>1, TypeInitially
<1>3. self.timeoutTable = DefaultTimeoutTable
  BY <1>1, InitialState
<1>4. DefaultTimeoutTable \in [NetworkConnectionState -> 0 .. (MaxElapsed - 1)]
  BY TimeAssumption DEF TimeAssumption
<1>5. ObjectInv
  BY <1>1, <1>3, <1>4, SetUpShape DEF DemoInit, Init, ObjectInv
<1>6. now = 0 /\ _lastConnectionTickTime = 0 /\ waited = 0 /\ hook = 0 /\ elapsed = 0
  BY <1>1 DEF DemoInit, Init
<1>7. MillisModulus \in Nat \ {0} /\ {LongestLoop, LongestHook, MaxElapsed} \subseteq Nat
  BY SketchAssumption, TimeAssumption DEF SketchAssumption, TimeAssumption
<1>8. Measured = 0
  BY <1>6, <1>7, Differences DEF Measured, Since
<1>9. ClockInv
  BY <1>6, <1>7, <1>8 DEF ClockInv
<1>10. QED
  BY <1>2, <1>5, <1>9 DEF DemoInv

-----------------------------------------------------------------------------
(* Every step of a sketch is one of ConnectionHandler, or invisible there. *)

\* A tick comes only when ConnectionHandler's own clock says that it is due.
LEMMA DueWhenMeasured ==
    ASSUME DemoInv, TickDue
    PROVE  Due
<1> DEFINE interval == self.timeoutTable[self.state]
<1>1. interval \in 0 .. (MaxElapsed - 1)
  BY DEF DemoInv, ObjectInv, TypeOK, Handler
<1>2. IntModulus \in Nat \ {0} /\ MaxElapsed <= IntModulus /\ MaxElapsed \in Nat
  BY SketchAssumption, TimeAssumption DEF SketchAssumption, TimeAssumption
<1>3. interval % IntModulus = interval
  BY <1>1, <1>2, IntervalFits
<1>4. Measured > interval
  BY <1>3 DEF TickDue, Measured
<1>5. elapsed = IF Measured < MaxElapsed THEN Measured ELSE MaxElapsed
  BY DEF DemoInv, ClockInv
<1>6. QED
  BY <1>1, <1>2, <1>4, <1>5 DEF Due

\* A check() that does not tick finds the interval of the state not over.
LEMMA NotDueNow ==
    ASSUME DemoInv, ~TickDue
    PROVE  Measured <= self.timeoutTable[self.state]
<1> DEFINE interval == self.timeoutTable[self.state]
<1>1. interval \in 0 .. (MaxElapsed - 1) /\ self.state \in NetworkConnectionState
  BY DEF DemoInv, ObjectInv, TypeOK, Handler
<1>2. IntModulus \in Nat \ {0} /\ MaxElapsed <= IntModulus /\ MaxElapsed \in Nat
  BY SketchAssumption, TimeAssumption DEF SketchAssumption, TimeAssumption
<1>3. interval % IntModulus = interval
  BY <1>1, <1>2, IntervalFits
<1>4. MillisModulus \in Nat \ {0}
  BY SketchAssumption DEF SketchAssumption
<1>5. Measured \in Nat
  BY <1>4, Differences DEF DemoInv, ClockInv, Measured, Since
<1>6. QED
  BY <1>1, <1>3, <1>5 DEF TickDue, Measured

\* setup() calls setters only, with arguments they take.
LEMMA SetUpAdjusts ==
    ASSUME DemoInv, SetUp
    PROVE  Adjust
<1>1. Head(calls) \in SetUpCalls
  BY Pop DEF SetUp, DemoInv, ObjectInv
<1>2. CASE \E e \in NetworkConnectionEvent : AddCallback(e, TRUE)
  BY <1>2 DEF Adjust
<1>3. CASE EnableCheckInternetAvailability(TRUE)
  BY <1>3 DEF Adjust
<1>4. CASE \E st \in NetworkConnectionState : UpdateTimeoutInterval(st, SketchTable[st])
  <2>1. PICK st \in NetworkConnectionState : UpdateTimeoutInterval(st, SketchTable[st])
    BY <1>4
  <2>2. st \in RetimedStates /\ SketchTable[st] \in TimeoutChoices
    BY SketchAssumption DEF SketchAssumption
  <2>3. QED
    BY <2>1, <2>2 DEF Adjust
<1>5. QED
  BY <1>1, <1>2, <1>3, <1>4 DEF SetUp, SetUpCalls, DemoCalls

\* setup() makes calls that ConnectionHandler lets a sketch make, and loop() toggles
\* and checks as it lets one.
LEMMA StepRefines ==
    ASSUME DemoInv, [DemoNext]_demoVars
    PROVE  [Next]_vars
<1>1. CASE SetUp
  <2>1. Adjust
    BY <1>1, SetUpAdjusts
  <2>2. QED
    BY <2>1 DEF Adjust, Next, Application
<1>2. CASE Toggle
  BY <1>2 DEF Toggle, Next, Application
<1>3. CASE NoToggle
  BY <1>3 DEF NoToggle
<1>4. CASE LoopCheck
  <2>1. CASE TickDue
    <3>1. Due
      BY <2>1, DueWhenMeasured
    <3>2. MayCheck
      BY <1>4 DEF LoopCheck, InLoop, MayCheck
    <3>3. Check
      BY <1>4, <2>1, <3>1, <3>2 DEF LoopCheck, Check
    <3>4. QED
      BY <3>3 DEF Next
  <2>2. CASE ~TickDue
    BY <1>4, <2>2 DEF LoopCheck
  <2>3. QED
    BY <2>1, <2>2
<1>5. CASE LoopCheckReturn
  BY <1>5 DEF LoopCheckReturn, Next
<1>6. CASE Millis
  BY <1>6 DEF Millis, Tick, Next, vars, program, history
<1>7. CASE Surroundings
  BY <1>7 DEF Surroundings, Next
<1>8. CASE UNCHANGED demoVars
  BY <1>8 DEF demoVars
<1>9. QED
  BY <1>1, <1>2, <1>3, <1>4, <1>5, <1>6, <1>7, <1>8 DEF DemoNext

\* The first check() comes after the last call of setup(), which alone writes the table.
LEMMA ObjectInvInductive ==
    ASSUME DemoInv, [DemoNext]_demoVars
    PROVE  ObjectInv'
<1> USE DEF DemoInv, ObjectInv, TypeOK
<1>1. CASE SetUp
  <2>1. Head(calls) \in SetUpCalls /\ calls' \in Seq(SetUpCalls)
    BY <1>1, Pop DEF SetUp
  <2>2. running' = <<>>
    BY <1>1 DEF SetUp, AddCallback, EnableCheckInternetAvailability,
                UpdateTimeoutInterval
  <2>3. self'.timeoutTable = self.timeoutTable
        \/ \E st \in NetworkConnectionState :
              self'.timeoutTable = [self.timeoutTable EXCEPT ![st] = SketchTable[st]]
    BY <1>1, <2>1 DEF SetUp, AddCallback, addCallback, EnableCheckInternetAvailability,
       enableCheckInternetAvailability, UpdateTimeoutInterval, updateTimeoutInterval,
       SetUpCalls, DemoCalls, Handler
  <2>4. \A st \in NetworkConnectionState : SketchTable[st] \in 0 .. (MaxElapsed - 1)
    BY SketchAssumption, TimeAssumption DEF SketchAssumption, TimeAssumption
  <2>5. self'.timeoutTable \in [NetworkConnectionState -> 0 .. (MaxElapsed - 1)]
    BY <2>3, <2>4
  <2>6. QED
    BY <2>1, <2>2, <2>5
<1>2. CASE Toggle
  BY <1>2 DEF Toggle, InLoop, Connect, Disconnect, connect, disconnect, Handler,
     vars, program
<1>3. CASE LoopCheck
  BY <1>3 DEF LoopCheck, InLoop, Advance, Handler, vars, program
<1>4. CASE LoopCheckReturn
  BY <1>4 DEF LoopCheckReturn, CheckReturn, Handler
<1>5. CASE NoToggle \/ Surroundings \/ UNCHANGED demoVars
  BY <1>5, EnvironmentTypes DEF NoToggle, Surroundings, EnvironmentStep, demoVars,
     vars, program
<1>6. CASE Millis
  BY <1>6 DEF Millis
<1>7. QED
  BY <1>1, <1>2, <1>3, <1>4, <1>5, <1>6 DEF DemoNext

\* What is left of a sum of two times after one more unit of it is spent.
LEMMA Budget ==
    ASSUME NEW m \in Int, NEW h \in Int, NEW w \in Int, NEW b \in Int, m + h <= b + w,
           NEW h1 \in Int, NEW w1 \in Int, w <= w1, h1 <= h,
           h1 + 1 <= h \/ w1 = w + 1,
           NEW m1, m1 = m + 1
    PROVE  m1 + h1 <= b + w1
OBVIOUS

\* Nothing of no time can be spent.
LEMMA NothingLeft ==
    ASSUME NEW h \in Int, NEW h1 \in Int, h = 0, 0 <= h1, h1 <= h
    PROVE  h1 = 0 /\ ~(h1 + 1 <= h)
OBVIOUS

\* A tick leaves the time that its hook may take.
LEMMA NewBudget ==
    ASSUME NEW h \in Int, NEW m, NEW w, NEW b \in Int, h <= b, m = 0, w = 0
    PROVE  m + h <= b + w
OBVIOUS

\* A hook takes no longer than LongestHook.
LEMMA HookAllowance ==
    ASSUME TypeOK
    PROVE  HookTime[self.state] \in 0 .. LongestHook
BY SketchAssumption DEF SketchAssumption, TypeOK, Handler

\* One unit of time is spent in the hook or after it.
LEMMA PassesOne ==
    ASSUME ClockInv, Passes
    PROVE  /\ waited' \in 0 .. LongestLoop /\ hook' \in 0 .. LongestHook
           /\ waited <= waited' /\ hook' <= hook
           /\ hook > 0 \/ waited < LongestLoop
           /\ hook' + 1 <= hook \/ waited' = waited + 1
<1>1. LongestLoop \in Nat /\ LongestHook \in Nat
  BY SketchAssumption DEF SketchAssumption
<1>2. waited \in 0 .. LongestLoop /\ hook \in 0 .. LongestHook
  BY DEF ClockInv
<1>3. CASE hook > 0 /\ hook' = hook - 1 /\ waited' = waited
  BY <1>1, <1>2, <1>3
<1>4. CASE waited < LongestLoop /\ hook' = 0 /\ waited' = waited + 1
  BY <1>1, <1>2, <1>4
<1>5. QED
  BY <1>3, <1>4 DEF Passes

\* A tick of the clock lengthens what check() measures by one: it does not wrap.
LEMMA MillisStep ==
    ASSUME DemoInv, Millis
    PROVE  now' \in 0 .. (MillisModulus - 1) /\ Measured' = Measured + 1
<1> DEFINE W == MillisModulus
<1>1. /\ W \in Nat \ {0} /\ LongestLoop \in Nat /\ MaxElapsed \in Nat
      /\ LongestHook \in Nat /\ CONN_TOGGLE_MS \in Nat
      /\ MaxElapsed + LongestLoop < W
      /\ CONN_TOGGLE_MS + 2 * LongestLoop + LongestHook < W
  BY SketchAssumption, TimeAssumption DEF SketchAssumption, TimeAssumption
<1>2. Measured \in 0 .. (W - 1)
  BY <1>1, Differences DEF DemoInv, ClockInv, Measured, Since
<1>3. /\ waited \in 0 .. LongestLoop /\ hook \in 0 .. LongestHook
      /\ hook > 0 \/ waited < LongestLoop
  BY PassesOne DEF Millis, DemoInv, ClockInv
<1>4. \A st \in NetworkConnectionState : self.timeoutTable[st] \in 0 .. (MaxElapsed - 1)
  BY DEF DemoInv, ObjectInv
<1>5. Measured + 1 < W
  <2>1. CASE Measured + hook <= LongestHook + waited
    BY <1>1, <1>2, <1>3, <2>1
  <2>2. ASSUME NEW st \in NetworkConnectionState,
               Measured + hook <= self.timeoutTable[st] + waited
        PROVE  Measured + 1 < W
    <3>1. self.timeoutTable[st] \in 0 .. (MaxElapsed - 1)
      BY <1>4
    <3>2. QED
      BY <1>1, <1>2, <1>3, <2>2, <3>1
  <2>3. QED
    BY <2>1, <2>2 DEF DemoInv, ClockInv
<1>6. now' = (now + 1) % W /\ _lastConnectionTickTime' = _lastConnectionTickTime
  BY DEF Millis
<1>7. QED
  BY <1>1, <1>5, <1>6, Ticking DEF DemoInv, ClockInv, Measured, Since

\* Time passes only while a loop() is not yet back, so the clock never laps the last tick.
LEMMA ClockInvInductive ==
    ASSUME DemoInv, [DemoNext]_demoVars, ObjectInv'
    PROVE  ClockInv'
<1> DEFINE W == MillisModulus
<1>1. /\ W \in Nat \ {0} /\ LongestLoop \in Nat /\ MaxElapsed \in Nat
      /\ LongestHook \in Nat /\ CONN_TOGGLE_MS \in Nat
      /\ MaxElapsed + LongestLoop < W
      /\ CONN_TOGGLE_MS + 2 * LongestLoop + LongestHook < W
  BY SketchAssumption, TimeAssumption DEF SketchAssumption, TimeAssumption
<1>2. Measured \in 0 .. (W - 1)
  BY <1>1, Differences DEF DemoInv, ClockInv, Measured, Since
<1>3. \A st \in NetworkConnectionState :
         /\ self.timeoutTable[st] \in 0 .. (MaxElapsed - 1)
         /\ self'.timeoutTable[st] \in 0 .. (MaxElapsed - 1)
  BY DEF DemoInv, ObjectInv
<1>4. waited \in 0 .. LongestLoop /\ hook \in 0 .. LongestHook
  BY DEF DemoInv, ClockInv
<1>5. ASSUME UNCHANGED <<now, waited, _lastConnectionTickTime, elapsed, calls>>,
             hook' = hook \/ hook' = 0,
             self'.timeoutTable = self.timeoutTable
      PROVE  ClockInv'
  <2>1. Measured' = Measured /\ hook' \in 0 .. LongestHook /\ hook' <= hook
    BY <1>1, <1>4, <1>5 DEF Measured, Since
  <2>2. CASE Measured + hook <= LongestHook + waited
    <3>1. Measured' + hook' <= LongestHook + waited'
      BY <1>1, <1>2, <1>4, <1>5, <2>1, <2>2
    <3>2. QED
      BY <1>5, <2>1, <3>1 DEF DemoInv, ClockInv
  <2>3. ASSUME NEW st \in NetworkConnectionState,
               Measured + hook <= self.timeoutTable[st] + waited
        PROVE  ClockInv'
    <3>1. self.timeoutTable[st] \in 0 .. (MaxElapsed - 1)
      BY <1>3
    <3>2. Measured' + hook' <= self'.timeoutTable[st] + waited'
      BY <1>1, <1>2, <1>4, <1>5, <2>1, <2>3, <3>1
    <3>3. QED
      BY <1>5, <2>1, <3>2 DEF DemoInv, ClockInv
  <2>4. QED
    BY <2>2, <2>3 DEF DemoInv, ClockInv
<1>6. CASE SetUp
  <2>1. UNCHANGED <<clocks, _lastConnectionTickTime, elapsed>>
    BY <1>6 DEF SetUp, AddCallback, EnableCheckInternetAvailability,
                UpdateTimeoutInterval
  <2>2. Measured' = Measured /\ now' = now /\ waited' = waited /\ hook' = hook
    BY <2>1 DEF Measured, Since, clocks
  <2>3. Measured <= waited /\ hook = 0
    BY <1>6 DEF SetUp, DemoInv, ClockInv
  <2>4. Measured' + hook' <= LongestHook + waited'
    BY <1>1, <1>2, <1>4, <2>2, <2>3
  <2>5. QED
    BY <2>1, <2>2, <2>3, <2>4 DEF DemoInv, ClockInv
<1>7. CASE Toggle
  BY <1>5, <1>7 DEF Toggle, Connect, Disconnect, connect, disconnect, vars, program,
     DemoInv, TypeOK, Handler
<1>8. CASE LoopCheck
  <2>1. waited' = 0 /\ now' = now /\ calls' = calls /\ calls = <<>>
    BY <1>8 DEF LoopCheck, InLoop
  <2>2. self'.timeoutTable = self.timeoutTable
    BY <1>8 DEF LoopCheck, Advance, vars, program, DemoInv, TypeOK, Handler
  <2>3. CASE TickDue
    <3>1. elapsed' = 0 /\ _lastConnectionTickTime' = now /\ hook' = HookTime[self.state]
      BY <1>8, <2>3 DEF LoopCheck
    <3>2. Measured' = 0 /\ hook' \in 0 .. LongestHook
      BY <1>1, <2>1, <3>1, Differences, HookAllowance DEF Measured, Since, DemoInv, ClockInv
    <3>3. Measured' + hook' <= LongestHook + waited'
      <4>1. hook' \in Int /\ hook' <= LongestHook /\ LongestHook \in Int
        BY <1>1, <3>2
      <4>2. QED
        BY <2>1, <3>2, <4>1, NewBudget
    <3>4. QED
      BY <1>1, <2>1, <3>1, <3>2, <3>3 DEF DemoInv, ClockInv
  <2>4. CASE ~TickDue
    <3>1. UNCHANGED <<elapsed, _lastConnectionTickTime>> /\ hook' = 0
      BY <1>8, <2>4 DEF LoopCheck, vars, program
    <3>2. Measured' = Measured
      BY <2>1, <3>1 DEF Measured, Since
    <3>3. PICK st \in NetworkConnectionState : Measured <= self.timeoutTable[st]
      BY <2>4, NotDueNow DEF DemoInv, TypeOK, Handler
    <3>4. Measured' + hook' <= self'.timeoutTable[st] + waited'
      BY <1>2, <1>3, <2>1, <2>2, <3>1, <3>2, <3>3
    <3>5. QED
      BY <1>1, <2>1, <3>1, <3>2, <3>4 DEF DemoInv, ClockInv
  <2>5. QED
    BY <2>3, <2>4
<1>9. CASE Millis
  <2>1. /\ now' = (now + 1) % W
        /\ UNCHANGED <<self, calls, _lastConnectionTickTime>>
        /\ elapsed' = IF elapsed < MaxElapsed THEN elapsed + 1 ELSE elapsed
    BY <1>9 DEF Millis
  <2>2. /\ waited' \in 0 .. LongestLoop /\ hook' \in 0 .. LongestHook
        /\ waited <= waited' /\ hook' <= hook
        /\ hook' + 1 <= hook \/ waited' = waited + 1
    BY <1>9, PassesOne DEF Millis, DemoInv
  <2>3. now' \in 0 .. (W - 1) /\ Measured' = Measured + 1
    BY <1>9, MillisStep
  <2>4. elapsed' = IF Measured' < MaxElapsed THEN Measured' ELSE MaxElapsed
    BY <1>1, <1>2, <2>1, <2>3 DEF DemoInv, ClockInv
  <2>5. _lastConnectionTickTime' \in 0 .. (W - 1)
    <3>1. _lastConnectionTickTime' = _lastConnectionTickTime
      BY <2>1
    <3>2. _lastConnectionTickTime \in 0 .. (W - 1)
      BY DEF DemoInv, ClockInv
    <3>3. QED
      BY <3>1, <3>2
  <2>6. Measured' = Measured + 1
    BY <2>3
  <2>7. /\ Measured \in Int /\ hook \in Int /\ waited \in Int /\ LongestHook \in Int
        /\ hook' \in Int /\ waited' \in Int /\ 0 <= hook'
    BY <1>1, <1>2, <1>4, <2>2
  <2>8. /\ waited <= waited' /\ hook' <= hook
        /\ hook' + 1 <= hook \/ waited' = waited + 1
    BY <2>2
  <2>9. calls' # <<>> => Measured' <= waited' /\ hook' = 0
    <3> SUFFICES ASSUME calls' # <<>> PROVE Measured' <= waited' /\ hook' = 0
      OBVIOUS
    <3>1. Measured <= waited /\ hook = 0
      BY <2>1 DEF DemoInv, ClockInv
    <3>2. hook' = 0 /\ ~(hook' + 1 <= hook)
      BY <2>7, <2>8, <3>1, NothingLeft
    <3>3. waited' = waited + 1
      BY <2>8, <3>2
    <3>4. Measured' <= waited'
      BY <2>6, <2>7, <3>1, <3>3
    <3>5. QED
      BY <3>2, <3>4
  <2>10. CASE Measured + hook <= LongestHook + waited
    <3>1. Measured' + hook' <= LongestHook + waited'
      BY <2>6, <2>7, <2>8, <2>10, Budget
    <3>2. QED
      BY <2>2, <2>3, <2>4, <2>9, <2>5, <3>1 DEF ClockInv
  <2>11. ASSUME NEW st \in NetworkConnectionState,
               Measured + hook <= self.timeoutTable[st] + waited
        PROVE  ClockInv'
    <3>1. self.timeoutTable[st] \in Int /\ self'.timeoutTable[st] = self.timeoutTable[st]
      BY <1>1, <1>3, <2>1
    <3>2. Measured' + hook' <= self.timeoutTable[st] + waited'
      BY <2>6, <2>7, <2>8, <2>11, <3>1, Budget
    <3>3. Measured' + hook' <= self'.timeoutTable[st] + waited'
      BY <3>1, <3>2
    <3>4. QED
      BY <2>2, <2>3, <2>4, <2>9, <2>5, <3>3 DEF ClockInv
  <2>12. QED
    BY <2>10, <2>11 DEF DemoInv, ClockInv
<1>10. CASE LoopCheckReturn
  BY <1>5, <1>10 DEF LoopCheckReturn, CheckReturn, clocks, DemoInv, TypeOK, Handler
<1>11. CASE NoToggle \/ Surroundings \/ UNCHANGED demoVars
  BY <1>5, <1>11, EnvironmentTypes DEF NoToggle, Surroundings, EnvironmentStep, demoVars,
     vars, program, clocks, DemoInv
<1>12. QED
  BY <1>6, <1>7, <1>8, <1>9, <1>10, <1>11 DEF DemoNext

\* The invariant holds while the sketch runs.
LEMMA DemoInvHolds == DemoSpec => []DemoInv
<1>1. DemoInv /\ [DemoNext]_demoVars => DemoInv'
  BY StepRefines, TypeInductive, ObjectInvInductive, ClockInvInductive DEF DemoInv
<1>2. QED
  BY <1>1, DemoInvInitially, PTL DEF DemoSpec

-----------------------------------------------------------------------------
(* What the sketches may rely on.                                          *)

\* The sketches, with a millis() that wraps and intervals that go through an unsigned
\* int (ConnectionHandlerInterface.cpp:38-42), behave as ConnectionHandler, which has
\* neither: what is proved of ConnectionHandler holds of them.
THEOREM SketchesRefine == DemoSpec => ImplementsConnectionHandler
<1>1. DemoInit => Init
  BY DEF DemoInit
<1>2. DemoInv /\ [DemoNext]_demoVars => [Next]_vars
  BY StepRefines
<1>3. QED
  BY <1>1, <1>2, DemoInvHolds, PTL DEF DemoSpec, Spec, ImplementsConnectionHandler

\* The sketch's own variables, and the clock's, keep their types (the three sketches).
THEOREM SketchTypesCorrect == DemoSpec => []DemoTypeOK
<1> DEFINE SketchTypes ==
      /\ sketch \in Sketches /\ pc \in {"loop", "check"}
      /\ lastConnToggleMs \in 0 .. (MillisModulus - 1)
      /\ attemptConnect \in BOOLEAN
<1>1. DemoInit => SketchTypes
  <2>1. MillisModulus \in Nat \ {0}
    BY SketchAssumption DEF SketchAssumption
  <2>2. DemoInit => lastConnToggleMs \in 0 .. (MillisModulus - 1)
    BY <2>1 DEF DemoInit
  <2>3. QED
    BY <2>2 DEF DemoInit
<1>2. DemoInv /\ SketchTypes /\ [DemoNext]_demoVars => SketchTypes'
  BY DEF DemoInv, ClockInv, DemoNext, demoVars, loopVars, SetUp, Toggle, NoToggle,
     LoopCheck, LoopCheckReturn, Millis, Surroundings
<1>3. DemoInv /\ SketchTypes => DemoTypeOK
  BY DEF DemoInv, ClockInv, DemoTypeOK
<1> HIDE DEF SketchTypes
<1>4. QED
  BY <1>1, <1>2, <1>3, DemoInvHolds, PTL DEF DemoSpec

\* A loop() that is back within LongestLoop never leaves the handler without a tick for
\* longer than that and the interval of some state, or the longest hook
\* (ConnectionHandlerInterface.cpp:38-42).
THEOREM TicksKept == DemoSpec => []NoTickLost
<1>1. DemoInv => NoTickLost
  <2> SUFFICES ASSUME DemoInv PROVE NoTickLost
    OBVIOUS
  <2>1. MillisModulus \in Nat \ {0} /\ {LongestLoop, LongestHook, MaxElapsed} \subseteq Nat
    BY SketchAssumption, TimeAssumption DEF SketchAssumption, TimeAssumption
  <2>2. /\ Measured \in Nat /\ elapsed <= Measured /\ elapsed \in Nat
        /\ waited \in 0 .. LongestLoop /\ hook \in 0 .. LongestHook
    BY <2>1, Differences DEF DemoInv, ClockInv, TypeOK, Measured, Since
  <2>3. CASE Measured + hook <= LongestHook + waited
    BY <2>1, <2>2, <2>3 DEF NoTickLost
  <2>4. ASSUME NEW st \in NetworkConnectionState,
               Measured + hook <= self.timeoutTable[st] + waited
        PROVE  elapsed <= self.timeoutTable[st] + LongestLoop
    <3>1. self.timeoutTable[st] \in 0 .. (MaxElapsed - 1)
      BY DEF DemoInv, ObjectInv
    <3>2. QED
      BY <2>1, <2>2, <2>4, <3>1
  <2>5. QED
    BY <2>3, <2>4 DEF NoTickLost, DemoInv, ClockInv
<1>2. QED
  BY <1>1, DemoInvHolds, PTL

\* Where the demos call disconnect() and connect(), disconnect() is final for the driver
\* until the next connect(): the callbacks of the sketches call nothing, and the
\* theorem about ConnectionHandler carries over.
THEOREM SketchesDisconnect == DemoSpec => NeverReopens
BY SketchesRefine, DisconnectIsFinal DEF ImplementsConnectionHandler

-----------------------------------------------------------------------------
(* The credentials.                                                        *)

\* A text that fits its buffer is copied as it is.
LEMMA Copied ==
    ASSUME NEW size \in Nat, NEW text \in Nat, text < size, NEW g
    PROVE  strncpy(text, size, g) = text
BY NULLAssumption DEF strncpy, NULLAssumption

\* Texts that are no longer than the comments on the buffers allow (settings.h:18-30)
\* fit: a constructor stores them as they are.
LEMMA TextsFit ==
    ASSUME NEW type \in NetworkAdapter, NEW g, NEW texts,
           texts = [b \in DOMAIN Longest(type) |-> texts[b]],
           \A b \in DOMAIN Longest(type) : texts[b] \in 0 .. Longest(type)[b]
    PROVE  Stored(type, texts, g) = [type |-> type, text |-> texts]
<1>1. ASSUME NEW b \in DOMAIN Longest(type)
      PROVE  /\ Longest(type)[b] \in Nat /\ Buffers(type)[b] \in Nat
             /\ Longest(type)[b] < Buffers(type)[b]
  <2>1. CASE type = "WIFI"
    BY <2>1 DEF Longest, Buffers, Cellular
  <2>2. CASE type \in Cellular
    BY <2>2 DEF Longest, Buffers, Cellular
  <2>3. CASE type = "LORA"
    BY <2>3 DEF Longest, Buffers, Cellular
  <2>4. CASE type = "ETHERNET"
    BY <2>4 DEF Longest, Buffers, Cellular
  <2>5. QED
    BY <2>1, <2>2, <2>3, <2>4 DEF NetworkAdapter, Cellular
<1>2. ASSUME NEW b \in DOMAIN Longest(type)
      PROVE  strncpy(texts[b], Buffers(type)[b], g) = texts[b]
  <2>1. /\ texts[b] \in Nat /\ Buffers(type)[b] \in Nat
        /\ texts[b] < Buffers(type)[b]
    BY <1>1
  <2>2. QED
    BY <2>1, Copied
<1>3. DOMAIN texts = DOMAIN Longest(type)
  OBVIOUS
<1>4. [b \in DOMAIN texts |-> strncpy(texts[b], Buffers(type)[b], g)] = texts
  BY <1>2, <1>3
<1>5. QED
  BY <1>4 DEF Stored

\* So do the texts of the sketches, which are the longest ones or empty.  Only LoRa's
\* have a member that is no text.
LEMMA SecretsFit ==
    ASSUME NEW type \in NetworkAdapter \ {"LORA"}, NEW g
    PROVE  Stored(type, Secrets(type), g) = [type |-> type, text |-> Secrets(type)]
<1>1. CASE type = "NB"
  <2>1. Secrets(type) = [pin |-> 8, apn |-> 0, login |-> 0, pass |-> 0]
    BY <1>1 DEF Secrets, settingsDefault, Longest, Buffers, Cellular
  <2>2. Longest(type) = [pin |-> 8, apn |-> 100, login |-> 64, pass |-> 64]
    BY <1>1 DEF Longest, Cellular
  <2>3. QED
    BY <2>1, <2>2, TextsFit
<1>2. CASE type # "NB"
  <2>1. Secrets(type) = Longest(type)
    BY <1>2 DEF Secrets
  <2>2. \A b \in DOMAIN Longest(type) : Longest(type)[b] \in Nat
    BY DEF Longest, Cellular, NetworkAdapter
  <2>3. Longest(type) = [b \in DOMAIN Longest(type) |-> Longest(type)[b]]
    BY DEF Longest, Cellular, NetworkAdapter
  <2>4. QED
    BY <2>1, <2>2, <2>3, TextsFit
<1>3. QED
  BY <1>1, <1>2

\* The handler keeps the settings of its constructor, and a driver that runs, or that
\* CONNECTING is about to use, was begun with them.  WiFi begins in INIT only.
CredentialsInv ==
    /\ \E g \in Garbage :
          self.settings = Stored(self.interface, Secrets(self.interface), g)
    /\ dev.started => dev.cfg = self.settings
    /\ self.interface # "WIFI" /\ self.state = "CONNECTING"
          => dev.cfg = self.settings

\* The object that the sketch constructs holds the settings it stored.
LEMMA CredentialsInitially == DemoInit => CredentialsInv
<1> SUFFICES ASSUME DemoInit PROVE CredentialsInv
  OBVIOUS
<1>1. PICK g \in Garbage : self = conMan(self.interface, g)
  BY DEF DemoInit
<1>2. self \in Handler /\ self.state = "INIT"
  BY InitialState DEF DemoInit
<1>3. self.interface \in NetworkAdapter
  BY <1>2 DEF Handler
<1>4. self.settings = Stored(self.interface, Secrets(self.interface), g)
  <2> DEFINE i == self.interface
             s == Stored(i, Secrets(i), g)
  <2> HIDE DEF s
  <2>1. \E t \in NetworkAdapter, k \in BOOLEAN, c \in BOOLEAN :
           conMan(i, g) = Constructed(t, k, c, s)
    BY <1>3 DEF conMan, s, NetworkAdapter, WiFi_Constructed, Ethernet_Constructed,
       GSM_Constructed, NB_Constructed, LoRa_Constructed, CatM1_Constructed,
       Cellular_Constructed
  <2>2. QED
    BY <1>1, <2>1 DEF Constructed, s
<1>5. ~dev.started
  BY DEF DemoInit, Init, PoweredOn
<1>6. QED
  BY <1>2, <1>4, <1>5 DEF CredentialsInv

\* No call of the sketches changes the settings, and no hook begins with others.
LEMMA CredentialsInductive ==
    ASSUME DemoInv, CredentialsInv, [DemoNext]_demoVars
    PROVE  CredentialsInv'
<1>0. TypeOK /\ self \in Handler /\ dev \in Device
  BY DEF DemoInv, TypeOK
<1>1. ASSUME self'.settings = self.settings, self'.interface = self.interface,
             self'.state # "CONNECTING" \/ self'.state = self.state,
             dev'.started => dev.started, dev'.cfg = dev.cfg
      PROVE  CredentialsInv'
  BY <1>1 DEF CredentialsInv
<1>2. CASE SetUp
  <2>1. Adjust
    BY <1>2, SetUpAdjusts
  <2>2. QED
    BY <1>0, <1>1, <2>1, AdjustStep
<1>3. CASE Toggle
  <2>1. UNCHANGED dev
    BY <1>3 DEF Toggle, Connect, Disconnect, vars
  <2>2. /\ self'.settings = self.settings /\ self'.interface = self.interface
        /\ self'.state # "CONNECTING" \/ self'.state = self.state
    BY <1>0, <1>3 DEF Toggle, Connect, Disconnect, connect, disconnect, vars, program,
       Handler
  <2>3. QED
    BY <1>1, <2>1, <2>2
<1>4. CASE LoopCheck /\ TickDue
  <2>1. PICK next \in NetworkConnectionState :
          updateConnectionState(self, next) /\ self' = [self EXCEPT !.state = next]
    BY <1>4 DEF LoopCheck, Advance
  <2>2. /\ self'.settings = self.settings /\ self'.interface = self.interface
        /\ self'.state = next
    BY <1>0, <2>1 DEF Handler
  <2>3. dev'.started => dev'.cfg = self.settings
    <3>1. CASE dev.cfg = self.settings
      BY <1>0, <2>1, <3>1, KeepsSettings
    <3>2. CASE dev.cfg # self.settings
      BY <1>0, <2>1, <3>2, KeepsSettings DEF CredentialsInv
    <3>3. QED
      BY <3>1, <3>2
  <2>4. self.interface # "WIFI" /\ next = "CONNECTING" => dev'.cfg = self.settings
    <3>1. ASSUME self.interface # "WIFI", next = "CONNECTING"
          PROVE  dev'.cfg = self.settings
      <4>1. self.state \in {"INIT", "CONNECTING"}
        BY <1>0, <2>1, <3>1, Transition DEF Successors, Handler, NetworkConnectionState
      <4>2. CASE self.state = "INIT"
        BY <1>0, <2>1, <3>1, <4>2, InitHook DEF updateConnectionState
      <4>3. CASE self.state = "CONNECTING"
        BY <1>0, <2>1, <3>1, <4>3, KeepsSettings DEF CredentialsInv
      <4>4. QED
        BY <4>1, <4>2, <4>3
    <3>2. QED
      BY <3>1
  <2>5. QED
    BY <2>2, <2>3, <2>4 DEF CredentialsInv
<1>5. CASE LoopCheckReturn
  <2>1. running # <<>> /\ self' = [self EXCEPT !.state = Head(running)] /\ dev' = dev
    BY <1>5 DEF LoopCheckReturn, CheckReturn
  <2>2. Head(running) \in NetworkConnectionEvent
    BY <1>0, <2>1, Pop DEF TypeOK
  <2>3. /\ self'.settings = self.settings /\ self'.interface = self.interface
        /\ self'.state # "CONNECTING"
    BY <1>0, <2>1, <2>2 DEF Handler, NetworkConnectionEvent
  <2>4. QED
    BY <1>1, <2>1, <2>3
<1>6. CASE Surroundings
  <2>1. EnvironmentStep
    BY <1>6 DEF Surroundings, EnvironmentStep
  <2>2. /\ UNCHANGED program
        /\ dev'.started => dev.started
        /\ dev'.cfg = dev.cfg
    BY <1>0, <2>1, EnvironmentTypes
  <2>3. QED
    BY <1>1, <2>2 DEF program
<1>7. CASE NoToggle \/ Millis \/ (LoopCheck /\ ~TickDue) \/ UNCHANGED demoVars
  <2>1. self' = self
    BY <1>7 DEF NoToggle, Millis, LoopCheck, demoVars, vars, program
  <2>2. dev' = dev
    BY <1>7 DEF NoToggle, Millis, LoopCheck, demoVars, vars
  <2>3. QED
    BY <2>1, <2>2 DEF CredentialsInv
<1>8. QED
  BY <1>2, <1>3, <1>4, <1>5, <1>6, <1>7 DEF DemoNext

\* Whatever the network does, a driver never runs on credentials other than those of
\* arduino_secrets.h, entire, be they as long as the settings' comments allow
\* (settings.h:18-30).
THEOREM CredentialsReachDriver == DemoSpec => []CredentialsArrive
<1>1. CredentialsInv /\ DemoInv => CredentialsArrive
  BY SecretsFit DEF CredentialsInv, CredentialsArrive, DemoInv, TypeOK, Handler
<1>2. QED
  BY <1>1, CredentialsInitially, CredentialsInductive, DemoInvHolds, PTL
     DEF DemoSpec

-----------------------------------------------------------------------------
(* The toggle.                                                             *)

\* The time since the last toggle, on the wrapping clock.
SinceToggle == Since(lastConnToggleMs)

\* A callback of a sketch calls nothing: while it runs the state is its own.
CallbackInv == running = <<>> \/ running = <<self.state>>

\* The demos leave the intervals as they are.
TableInv ==
    calls \in Seq(DemoCalls) /\ self.timeoutTable = DefaultTimeoutTable

\* A toggle that is due waits for the end of one loop(), and of its hook, at most.
ToggleClockInv ==
    SinceToggle + hook <=
        CONN_TOGGLE_MS + waited + (IF pc = "check" THEN 0 ELSE LongestLoop + LongestHook)

\* After disconnect() the handler is on its way to CLOSED, no later than the intervals,
\* the hook of DISCONNECTING and the loops allow.
Closing ==
    /\ ~self.keep_alive
    /\ \/ /\ self.state = "DISCONNECTING"
          /\ SinceToggle <= Measured
          /\ SinceToggle + hook <= DefaultTimeoutTable["DISCONNECTING"] + waited
       \/ /\ self.state = "DISCONNECTED"
          /\ SinceToggle <= DefaultTimeoutTable["DISCONNECTING"] + LongestLoop + Measured
          /\ Measured + hook <= HookTime["DISCONNECTING"]
                                   + DefaultTimeoutTable["DISCONNECTED"] + waited
       \/ self.state = "CLOSED"

ToggleInv ==
    sketch \in TogglingSketches =>
        TableInv /\ ToggleClockInv /\ (attemptConnect => Closing)

\* The quantities compared, as the types and the assumptions have them.
LEMMA ToggleTypes ==
    ASSUME DemoInv, DemoTypeOK
    PROVE  /\ MillisModulus \in Nat \ {0} /\ LongestLoop \in Nat /\ CONN_TOGGLE_MS \in Nat
           /\ LongestHook \in Nat
           /\ CONN_TOGGLE_MS + 2 * LongestLoop + LongestHook < MillisModulus
           /\ HookTime["DISCONNECTING"] \in 0 .. LongestHook
           /\ DefaultTimeoutTable["DISCONNECTING"] \in Nat
           /\ DefaultTimeoutTable["DISCONNECTED"] \in Nat
           /\ now \in 0 .. (MillisModulus - 1)
           /\ lastConnToggleMs \in 0 .. (MillisModulus - 1)
           /\ waited \in 0 .. LongestLoop /\ hook \in 0 .. LongestHook
           /\ Measured \in Nat /\ SinceToggle \in Nat
<1>1. /\ MillisModulus \in Nat \ {0} /\ LongestLoop \in Nat /\ CONN_TOGGLE_MS \in Nat
      /\ LongestHook \in Nat
      /\ CONN_TOGGLE_MS + 2 * LongestLoop + LongestHook < MillisModulus
      /\ HookTime["DISCONNECTING"] \in 0 .. LongestHook
  BY SketchAssumption DEF SketchAssumption, NetworkConnectionState
<1>2. /\ DefaultTimeoutTable["DISCONNECTING"] \in Nat
      /\ DefaultTimeoutTable["DISCONNECTED"] \in Nat
  BY TimeAssumption DEF TimeAssumption, NetworkConnectionState
<1>3. /\ {now, _lastConnectionTickTime, lastConnToggleMs} \subseteq 0 .. (MillisModulus - 1)
      /\ waited \in 0 .. LongestLoop /\ hook \in 0 .. LongestHook
  BY DEF DemoTypeOK
<1>4. Measured \in Nat /\ SinceToggle \in Nat
  BY <1>1, <1>3, Differences DEF Measured, SinceToggle, Since
<1>5. QED
  BY <1>1, <1>2, <1>3, <1>4

\* The sketch's object, in INIT, with no toggle behind it.
LEMMA ToggleInitially == DemoInit => CallbackInv /\ ToggleInv
<1> SUFFICES ASSUME DemoInit PROVE CallbackInv /\ ToggleInv
  OBVIOUS
<1>1. Init
  BY DEF DemoInit
<1>2. CallbackInv
  BY <1>1 DEF Init, CallbackInv
<1>3. self.timeoutTable = DefaultTimeoutTable
  BY <1>1, InitialState
<1>4. sketch \in TogglingSketches => TableInv
  BY <1>3, SetUpShape DEF DemoInit, TableInv
<1>5. /\ MillisModulus \in Nat \ {0}
      /\ {LongestLoop, LongestHook, CONN_TOGGLE_MS} \subseteq Nat
  BY SketchAssumption DEF SketchAssumption
<1>6. SinceToggle = 0
  BY <1>5, Differences DEF DemoInit, SinceToggle, Since
<1>7. ToggleClockInv
  BY <1>5, <1>6 DEF DemoInit, ToggleClockInv
<1>8. QED
  BY <1>2, <1>4, <1>7 DEF ToggleInv, DemoInit

\* Nothing that a sketch calls from loop() is called while a callback runs.
LEMMA CallbackInductive ==
    ASSUME DemoInv, CallbackInv, [DemoNext]_demoVars
    PROVE  CallbackInv'
<1>0. TypeOK /\ self \in Handler
  BY DEF DemoInv, TypeOK
<1>1. CASE SetUp
  BY <1>1 DEF SetUp, AddCallback, EnableCheckInternetAvailability,
     UpdateTimeoutInterval, DemoInv, ObjectInv, CallbackInv
<1>2. CASE Toggle
  BY <1>2 DEF Toggle, InLoop, Connect, Disconnect, vars, program, CallbackInv
<1>3. CASE LoopCheck
  <2>1. running = <<>>
    BY <1>3 DEF LoopCheck, InLoop
  <2>2. CASE TickDue
    <3>1. PICK next \in NetworkConnectionState :
            /\ self' = [self EXCEPT !.state = next]
            /\ IF callsBack(self, next) THEN running' = <<next>> \o running
               ELSE running' = running
      BY <1>3, <2>2 DEF LoopCheck, Advance
    <3>2. self'.state = next
      BY <1>0, <3>1 DEF Handler
    <3>3. QED
      BY <2>1, <3>1, <3>2, OneCallback DEF CallbackInv
  <2>3. CASE ~TickDue
    BY <1>3, <2>1, <2>3 DEF LoopCheck, vars, program, CallbackInv
  <2>4. QED
    BY <2>2, <2>3
<1>4. CASE LoopCheckReturn
  <2>1. running # <<>> /\ running' = Tail(running)
    BY <1>4 DEF LoopCheckReturn, CheckReturn
  <2>2. running = <<self.state>>
    BY <2>1 DEF CallbackInv
  <2>3. QED
    BY <2>1, <2>2, OneCallback DEF CallbackInv
<1>5. CASE NoToggle \/ Millis \/ Surroundings \/ UNCHANGED demoVars
  <2>1. self' = self /\ running' = running
    BY <1>0, <1>5, EnvironmentTypes DEF NoToggle, Millis, Surroundings, EnvironmentStep,
       demoVars, vars, program
  <2>2. QED
    BY <2>1 DEF CallbackInv
<1>6. QED
  BY <1>1, <1>2, <1>3, <1>4, <1>5 DEF DemoNext

\* The calls of the demos' setup() do not write the table, nor does loop().
LEMMA TableInductive ==
    ASSUME DemoInv, TableInv, [DemoNext]_demoVars
    PROVE  TableInv'
<1>0. TypeOK /\ self \in Handler
  BY DEF DemoInv, TypeOK
<1>1. CASE SetUp
  <2>1. Head(calls) \in DemoCalls /\ calls' \in Seq(DemoCalls)
    BY <1>1, Pop DEF SetUp, TableInv
  <2>2. \/ \E e \in NetworkConnectionEvent : AddCallback(e, TRUE)
        \/ EnableCheckInternetAvailability(TRUE)
    BY <1>1, <2>1 DEF SetUp, DemoCalls
  <2>3. self'.timeoutTable = self.timeoutTable
    BY <1>0, <2>2 DEF AddCallback, addCallback, EnableCheckInternetAvailability,
       enableCheckInternetAvailability, Handler
  <2>4. QED
    BY <2>1, <2>3 DEF TableInv
<1>2. CASE Toggle
  BY <1>0, <1>2 DEF Toggle, Connect, Disconnect, connect, disconnect, vars, program,
     Handler, TableInv
<1>3. CASE LoopCheck
  BY <1>0, <1>3 DEF LoopCheck, Advance, vars, program, Handler, TableInv
<1>4. CASE LoopCheckReturn
  BY <1>0, <1>4 DEF LoopCheckReturn, CheckReturn, Handler, TableInv
<1>5. CASE NoToggle \/ Millis \/ Surroundings \/ UNCHANGED demoVars
  <2>1. self' = self /\ calls' = calls
    BY <1>0, <1>5, EnvironmentTypes DEF NoToggle, Millis, Surroundings, EnvironmentStep,
       demoVars, vars, program
  <2>2. QED
    BY <2>1 DEF TableInv
<1>6. QED
  BY <1>1, <1>2, <1>3, <1>4, <1>5 DEF DemoNext

\* A tick of the clock lengthens the time since the toggle by one: it does not wrap.
LEMMA MillisStepToggle ==
    ASSUME DemoInv, DemoTypeOK, ToggleClockInv, Millis
    PROVE  SinceToggle' = SinceToggle + 1
<1>1. now' = (now + 1) % MillisModulus /\ lastConnToggleMs' = lastConnToggleMs
  BY DEF Millis, loopVars
<1>2. hook > 0 \/ waited < LongestLoop
  BY PassesOne DEF Millis, DemoInv
<1>3. SinceToggle + 1 < MillisModulus
  BY <1>2, ToggleTypes DEF ToggleClockInv
<1>4. QED
  BY <1>1, <1>3, ToggleTypes, Ticking DEF SinceToggle, Since

\* loop() looks at the toggle before every check(), and the next one comes within
\* LongestLoop of the end of the last one's hook.
LEMMA ToggleClockInductive ==
    ASSUME DemoInv, DemoTypeOK, ToggleClockInv, sketch \in TogglingSketches,
           [DemoNext]_demoVars
    PROVE  ToggleClockInv'
<1>1. CASE UNCHANGED <<clocks, loopVars>>
  BY <1>1 DEF clocks, loopVars, ToggleClockInv, SinceToggle, Since
<1>2. CASE SetUp \/ LoopCheckReturn \/ Surroundings \/ UNCHANGED demoVars
  BY <1>1, <1>2 DEF SetUp, LoopCheckReturn, Surroundings, demoVars
<1>3. CASE Toggle
  <2>1. /\ now' = now /\ lastConnToggleMs' = now /\ waited' = waited /\ pc' = "check"
        /\ hook' = 0
    BY <1>3 DEF Toggle
  <2>2. SinceToggle' = 0
    BY <2>1, ToggleTypes, Differences DEF SinceToggle, Since
  <2>3. QED
    BY <2>1, <2>2, ToggleTypes DEF ToggleClockInv
<1>4. CASE NoToggle
  <2>1. SinceToggle <= CONN_TOGGLE_MS
    BY <1>4, ToggleTypes DEF NoToggle, ToggleDue, SinceToggle
  <2>2. SinceToggle' = SinceToggle /\ waited' = waited /\ pc' = "check" /\ hook' = 0
    BY <1>4 DEF NoToggle, SinceToggle, Since
  <2>3. QED
    BY <2>1, <2>2, ToggleTypes DEF ToggleClockInv
<1>5. CASE LoopCheck
  <2>1. SinceToggle <= CONN_TOGGLE_MS + waited
    BY <1>5, ToggleTypes DEF LoopCheck, InLoop, ToggleClockInv
  <2>2. SinceToggle' = SinceToggle /\ waited' = 0 /\ pc' = "loop"
    BY <1>5 DEF LoopCheck, SinceToggle, Since
  <2>3. hook' \in 0 .. LongestHook
    BY <1>5, ToggleTypes, HookAllowance DEF LoopCheck, DemoInv
  <2>4. QED
    BY <2>1, <2>2, <2>3, ToggleTypes DEF ToggleClockInv
<1>6. CASE Millis
  <2>1. SinceToggle' = SinceToggle + 1 /\ pc' = pc
    BY <1>6, MillisStepToggle DEF Millis, loopVars
  <2>2. /\ waited' \in 0 .. LongestLoop /\ hook' \in 0 .. LongestHook
        /\ waited <= waited' /\ hook' <= hook
        /\ hook' + 1 <= hook \/ waited' = waited + 1
    BY <1>6, PassesOne DEF Millis, DemoInv
  <2>3. QED
    BY <2>1, <2>2, ToggleTypes DEF ToggleClockInv
<1>7. QED
  BY <1>2, <1>3, <1>4, <1>5, <1>6 DEF DemoNext

\* From disconnect() the ticks lead to DISCONNECTED and CLOSED, each of them when its
\* interval is over and a loop() has come round.
LEMMA ClosingInductive ==
    ASSUME DemoInv, DemoTypeOK, CallbackInv, TableInv, ToggleClockInv,
           sketch \in TogglingSketches, attemptConnect => Closing,
           [DemoNext]_demoVars, attemptConnect'
    PROVE  Closing'
<1>0. TypeOK /\ self \in Handler /\ dev \in Device
  BY DEF DemoInv, TypeOK
<1>1. ASSUME UNCHANGED <<now, waited, lastConnToggleMs, _lastConnectionTickTime>>,
             hook' = hook \/ hook' = 0,
             attemptConnect, self'.state = self.state,
             self'.keep_alive = self.keep_alive
      PROVE  Closing'
  <2>1. Measured' = Measured /\ SinceToggle' = SinceToggle
    BY <1>1 DEF Measured, SinceToggle, Since
  <2>2. QED
    BY <1>1, <2>1, ToggleTypes DEF Closing
<1>2. CASE SetUp
  <2>1. self'.state = self.state /\ self'.keep_alive = self.keep_alive
    BY <1>0, <1>2, SetUpAdjusts, AdjustStep
  <2>2. QED
    BY <1>1, <1>2, <2>1 DEF SetUp, loopVars, clocks
<1>3. CASE Toggle
  <2>1. /\ Disconnect
        /\ now' = now /\ lastConnToggleMs' = now /\ waited' = waited /\ hook' = 0
        /\ _lastConnectionTickTime' = _lastConnectionTickTime
    BY <1>3 DEF Toggle
  <2>2. SinceToggle' = 0 /\ Measured' = Measured
    BY <2>1, ToggleTypes, Differences DEF SinceToggle, Measured, Since
  <2>3. self'.state = "DISCONNECTING" /\ ~self'.keep_alive
    BY <1>0, <2>1, DisconnectMethod DEF Disconnect
  <2>4. QED
    BY <2>1, <2>2, <2>3, ToggleTypes DEF Closing
<1>4. CASE LoopCheck /\ TickDue
  <2>1. /\ attemptConnect
        /\ now' = now /\ waited' = 0 /\ _lastConnectionTickTime' = now
        /\ lastConnToggleMs' = lastConnToggleMs
        /\ hook' = HookTime[self.state]
    BY <1>4 DEF LoopCheck
  <2>2. Measured' = 0 /\ SinceToggle' = SinceToggle
    BY <2>1, ToggleTypes, Differences DEF SinceToggle, Measured, Since
  <2>3. PICK next \in NetworkConnectionState :
          updateConnectionState(self, next) /\ self' = [self EXCEPT !.state = next]
    BY <1>4 DEF LoopCheck, Advance
  <2>4. self'.state = next /\ self'.keep_alive = self.keep_alive
    BY <1>0, <2>3 DEF Handler
  <2>5. CASE self.state = "DISCONNECTING"
    <3>1. next = "DISCONNECTED"
      BY <1>0, <2>3, <2>5, DisconnectingHook DEF updateConnectionState
    <3>2. QED
      BY <2>1, <2>2, <2>4, <2>5, <3>1, ToggleTypes DEF Closing
  <2>6. CASE self.state = "DISCONNECTED"
    <3>1. next = "CLOSED"
      BY <1>0, <2>1, <2>3, <2>6, DisconnectedHook DEF updateConnectionState, Closing
    <3>2. QED
      BY <2>1, <2>4, <3>1 DEF Closing
  <2>7. CASE self.state = "CLOSED"
    BY <2>1, <2>3, <2>4, <2>7 DEF updateConnectionState, Closing
  <2>8. QED
    BY <2>1, <2>5, <2>6, <2>7 DEF Closing
<1>5. CASE LoopCheck /\ ~TickDue
  <2>1. /\ attemptConnect /\ self' = self
        /\ now' = now /\ waited' = 0 /\ hook' = 0
        /\ UNCHANGED <<lastConnToggleMs, _lastConnectionTickTime>>
    BY <1>5 DEF LoopCheck, vars, program
  <2>2. Measured' = Measured /\ SinceToggle' = SinceToggle
    BY <2>1 DEF SinceToggle, Measured, Since
  <2>3. Measured <= DefaultTimeoutTable[self.state]
    BY <1>5, NotDueNow DEF TableInv
  <2>4. QED
    BY <2>1, <2>2, <2>3, ToggleTypes DEF Closing
<1>6. CASE LoopCheckReturn
  <2>1. running # <<>> /\ self' = [self EXCEPT !.state = Head(running)]
    BY <1>6 DEF LoopCheckReturn, CheckReturn
  <2>2. self'.state = self.state /\ self'.keep_alive = self.keep_alive
    BY <1>0, <2>1, OneCallback DEF CallbackInv, Handler
  <2>3. QED
    BY <1>1, <1>6, <2>2 DEF LoopCheckReturn, loopVars, clocks
<1>7. CASE Millis
  <2>1. Measured' = Measured + 1 /\ SinceToggle' = SinceToggle + 1
    BY <1>7, MillisStep, MillisStepToggle
  <2>2. attemptConnect /\ self' = self
    BY <1>7 DEF Millis, loopVars
  <2>3. /\ waited' \in 0 .. LongestLoop /\ hook' \in 0 .. LongestHook
        /\ waited <= waited' /\ hook' <= hook
        /\ hook' + 1 <= hook \/ waited' = waited + 1
    BY <1>7, PassesOne DEF Millis, DemoInv
  <2>4. QED
    BY <2>1, <2>2, <2>3, ToggleTypes DEF Closing
<1>8. CASE NoToggle \/ Surroundings \/ UNCHANGED demoVars
  <2>1. /\ self' = self
        /\ UNCHANGED <<now, waited, lastConnToggleMs, _lastConnectionTickTime, attemptConnect>>
        /\ hook' = hook \/ hook' = 0
    BY <1>0, <1>8, EnvironmentTypes DEF NoToggle, Surroundings, EnvironmentStep,
       demoVars, vars, program, loopVars, clocks
  <2>2. QED
    BY <1>1, <2>1
<1>9. QED
  BY <1>2, <1>3, <1>4, <1>5, <1>6, <1>7, <1>8 DEF DemoNext

\* When connect() of the toggle comes, there has been time for both ticks.
LEMMA ClosedByThen ==
    ASSUME DemoInv, DemoTypeOK, ToggleInv
    PROVE  ToggleFindsClosed
<1> SUFFICES ASSUME ToggleDue, attemptConnect PROVE self.state = "CLOSED"
  BY DEF ToggleFindsClosed
<1>1. SinceToggle > CONN_TOGGLE_MS /\ Closing
  BY DEF ToggleDue, SinceToggle, ToggleInv
<1>2. self.state # "DISCONNECTING"
  BY <1>1, ToggleTypes, ToggleAssumption DEF Closing, ToggleAssumption
<1>3. self.state # "DISCONNECTED"
  BY <1>1, ToggleTypes, ToggleAssumption DEF Closing, ToggleAssumption
<1>4. QED
  BY <1>1, <1>2, <1>3 DEF Closing

\* The two demos call connect() on a handler that has closed: a toggle's period covers
\* the shutdown, on a clock that wraps and with every check() as late as it may be
\* (loop() of the demos, ConnectionHandlerInterface.cpp:36-66).  The hooks that begin,
\* attach and join may block for any time; the one that shuts down is in the sum.
THEOREM ToggleComesAfterClosing == DemoSpec => []ToggleFindsClosed
<1>1. DemoInv /\ CallbackInv /\ [DemoNext]_demoVars => CallbackInv'
  BY CallbackInductive
<1>2. DemoInv /\ DemoTypeOK /\ CallbackInv /\ ToggleInv /\ [DemoNext]_demoVars
        => ToggleInv'
  <2> SUFFICES ASSUME DemoInv, DemoTypeOK, CallbackInv, ToggleInv, [DemoNext]_demoVars,
                      sketch' \in TogglingSketches
               PROVE  TableInv' /\ ToggleClockInv' /\ (attemptConnect' => Closing')
    BY DEF ToggleInv
  <2>1. sketch \in TogglingSketches
    BY DEF DemoNext, SetUp, Toggle, NoToggle, LoopCheck, LoopCheckReturn, Millis,
       Surroundings, demoVars
  <2>2. TableInv /\ ToggleClockInv /\ (attemptConnect => Closing)
    BY <2>1 DEF ToggleInv
  <2>3. QED
    BY <2>1, <2>2, TableInductive, ToggleClockInductive, ClosingInductive
<1>3. DemoInv /\ DemoTypeOK /\ ToggleInv => ToggleFindsClosed
  BY ClosedByThen
<1>4. QED
  BY <1>1, <1>2, <1>3, ToggleInitially, DemoInvHolds, SketchTypesCorrect, PTL
     DEF DemoSpec

=============================================================================
