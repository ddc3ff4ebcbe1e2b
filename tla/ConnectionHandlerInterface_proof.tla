------------------- MODULE ConnectionHandlerInterface_proof -------------------
(***************************************************************************)
(* What the proofs about a handler need of the classes below it, for every *)
(* adapter: what the hooks may do, the shape of a constructed object, and  *)
(* the stack of the callbacks that run.                                    *)
(***************************************************************************)
EXTENDS ConnectionHandlerInterface, SequenceTheorems, TLAPS

-----------------------------------------------------------------------------
(* What the hooks may do, over all adapters: one lemma per hook, each of   *)
(* which splits on the adapter.                                            *)

\* The states a tick may lead to from each state.
Successors(st) ==
    CASE st = "INIT" -> {"INIT", "CONNECTING", "DISCONNECTED", "ERROR"}
      [] st = "CONNECTING" ->
            {"INIT", "CONNECTING", "CONNECTED", "DISCONNECTED", "ERROR"}
      [] st = "CONNECTED" -> {"CONNECTED", "DISCONNECTED"}
      [] st = "DISCONNECTING" -> {"DISCONNECTED"}
      [] st = "DISCONNECTED" -> {"INIT", "CLOSED"}
      [] OTHER -> {st}

\* INIT: only WiFi goes on to CONNECTING without beginning with the settings it has.
LEMMA InitHook ==
    ASSUME NEW h \in Handler, NEW next, dev \in Device,
           update_handleInit(h, next)
    PROVE  /\ next \in {"INIT", "CONNECTING", "DISCONNECTED", "ERROR"}
           /\ dev' \in Device
           /\ dev'.cfg \in {dev.cfg, h.settings}
           /\ h.interface # "WIFI" /\ next = "CONNECTING"
                => dev'.cfg = h.settings
           /\ dev'.started /\ ~dev.started => dev'.cfg = h.settings
<1> USE DEF Device, Handler, Began, Stopped, LoseNetwork, Admits, PingOk
<1>1. CASE h.interface = "WIFI" /\ WiFi_update_handleInit(h, next)
  BY <1>1 DEF WiFi_update_handleInit
<1>2. CASE h.interface = "ETHERNET" /\ Ethernet_update_handleInit(h, next)
  BY <1>2 DEF Ethernet_update_handleInit
<1>3. CASE h.interface = "LORA" /\ LoRa_update_handleInit(h, next)
  BY <1>3 DEF LoRa_update_handleInit
<1>4. CASE h.interface = "GSM" /\ GSM_update_handleInit(h, next)
  BY <1>4 DEF GSM_update_handleInit
<1>5. CASE h.interface = "NB" /\ NB_update_handleInit(h, next)
  BY <1>5 DEF NB_update_handleInit
<1>6. CASE h.interface = "CATM1" /\ CatM1_update_handleInit(h, next)
  BY <1>6 DEF CatM1_update_handleInit
<1>7. CASE h.interface = "CELL" /\ Cellular_update_handleInit(h, next)
  BY <1>7 DEF Cellular_update_handleInit
<1>8. QED
  BY <1>1, <1>2, <1>3, <1>4, <1>5, <1>6, <1>7 DEF update_handleInit

\* CONNECTING: a ping that is made is made before CONNECTED; the settings that are in
\* force stay in force.
LEMMA ConnectingHook ==
    ASSUME NEW h \in Handler, NEW next, dev \in Device,
           update_handleConnecting(h, next)
    PROVE  /\ next \in {"INIT", "CONNECTING", "CONNECTED", "DISCONNECTED", "ERROR"}
           /\ dev' \in Device
           /\ dev.cfg = h.settings => dev'.cfg = h.settings
           /\ dev'.started /\ ~dev.started /\ h.interface = "WIFI"
                => dev'.cfg = h.settings
           /\ /\ CanPing /\ ~EspCore /\ h.check_internet
              /\ h.interface \in {"WIFI", "ETHERNET", "GSM", "CATM1"}
              /\ next = "CONNECTED"
              => dev.link /\ dev.internet
<1> USE DEF Device, Handler, Began, Stopped, LoseNetwork, Admits, PingOk
<1>1. CASE h.interface = "WIFI" /\ WiFi_update_handleConnecting(h, next)
  BY <1>1 DEF WiFi_update_handleConnecting
<1>2. CASE h.interface = "ETHERNET" /\ Ethernet_update_handleConnecting(h, next)
  BY <1>2 DEF Ethernet_update_handleConnecting
<1>3. CASE h.interface = "LORA" /\ LoRa_update_handleConnecting(h, next)
  BY <1>3 DEF LoRa_update_handleConnecting
<1>4. CASE h.interface = "GSM" /\ GSM_update_handleConnecting(h, next)
  BY <1>4 DEF GSM_update_handleConnecting
<1>5. CASE h.interface = "NB" /\ NB_update_handleConnecting(h, next)
  BY <1>5 DEF NB_update_handleConnecting
<1>6. CASE h.interface = "CATM1" /\ CatM1_update_handleConnecting(h, next)
  BY <1>6 DEF CatM1_update_handleConnecting
<1>7. CASE h.interface = "CELL" /\ Cellular_update_handleConnecting(h, next)
  BY <1>7 DEF Cellular_update_handleConnecting
<1>8. QED
  BY <1>1, <1>2, <1>3, <1>4, <1>5, <1>6, <1>7 DEF update_handleConnecting

\* CONNECTED: the hook looks and touches nothing.
LEMMA ConnectedHook ==
    ASSUME NEW h \in Handler, NEW next, dev \in Device,
           update_handleConnected(h, next)
    PROVE  next \in {"CONNECTED", "DISCONNECTED"} /\ dev' = dev
<1> USE DEF Device, Handler, Began, Stopped, LoseNetwork, Admits, PingOk
<1>1. CASE h.interface = "WIFI" /\ WiFi_update_handleConnected(h, next)
  BY <1>1 DEF WiFi_update_handleConnected
<1>2. CASE h.interface = "ETHERNET" /\ Ethernet_update_handleConnected(h, next)
  BY <1>2 DEF Ethernet_update_handleConnected
<1>3. CASE h.interface = "LORA" /\ LoRa_update_handleConnected(h, next)
  BY <1>3 DEF LoRa_update_handleConnected
<1>4. CASE h.interface = "GSM" /\ GSM_update_handleConnected(h, next)
  BY <1>4 DEF GSM_update_handleConnected
<1>5. CASE h.interface = "NB" /\ NB_update_handleConnected(h, next)
  BY <1>5 DEF NB_update_handleConnected
<1>6. CASE h.interface = "CATM1" /\ CatM1_update_handleConnected(h, next)
  BY <1>6 DEF CatM1_update_handleConnected
<1>7. CASE h.interface = "CELL" /\ Cellular_update_handleConnected(h, next)
  BY <1>7 DEF Cellular_update_handleConnected
<1>8. QED
  BY <1>1, <1>2, <1>3, <1>4, <1>5, <1>6, <1>7 DEF update_handleConnected

\* DISCONNECTING: all but LoRa and Cellular stop the driver; those leave it alone.
LEMMA DisconnectingHook ==
    ASSUME NEW h \in Handler, NEW next, dev \in Device,
           update_handleDisconnecting(h, next)
    PROVE  /\ next = "DISCONNECTED"
           /\ dev' \in Device
           /\ UNCHANGED dev \/ Stopped
           /\ dev'.started => dev.started
           /\ dev'.cfg = dev.cfg
           /\ h.interface \notin {"LORA", "CELL"} => ~dev'.started /\ ~dev'.link
<1> USE DEF Device, Handler, Began, Stopped, LoseNetwork, Admits, PingOk
<1>1. CASE h.interface = "WIFI" /\ WiFi_update_handleDisconnecting(h, next)
  BY <1>1 DEF WiFi_update_handleDisconnecting
<1>2. CASE h.interface = "ETHERNET" /\ Ethernet_update_handleDisconnecting(h, next)
  BY <1>2 DEF Ethernet_update_handleDisconnecting
<1>3. CASE h.interface = "LORA" /\ LoRa_update_handleDisconnecting(h, next)
  BY <1>3 DEF LoRa_update_handleDisconnecting
<1>4. CASE h.interface = "GSM" /\ GSM_update_handleDisconnecting(h, next)
  BY <1>4 DEF GSM_update_handleDisconnecting
<1>5. CASE h.interface = "NB" /\ NB_update_handleDisconnecting(h, next)
  BY <1>5 DEF NB_update_handleDisconnecting
<1>6. CASE h.interface = "CATM1" /\ CatM1_update_handleDisconnecting(h, next)
  BY <1>6 DEF CatM1_update_handleDisconnecting
<1>7. CASE h.interface = "CELL" /\ Cellular_update_handleDisconnecting(h, next)
  BY <1>7 DEF Cellular_update_handleDisconnecting
<1>8. QED
  BY <1>1, <1>2, <1>3, <1>4, <1>5, <1>6, <1>7 DEF update_handleDisconnecting

\* DISCONNECTED: keep_alive alone decides; the driver is stopped or left alone.
LEMMA DisconnectedHook ==
    ASSUME NEW h \in Handler, NEW next, dev \in Device,
           update_handleDisconnected(h, next)
    PROVE  /\ next = IF h.keep_alive THEN "INIT" ELSE "CLOSED"
           /\ dev' \in Device
           /\ UNCHANGED dev \/ Stopped
           /\ dev'.started => dev.started
           /\ dev'.link => dev.link
           /\ dev'.cfg = dev.cfg
<1> USE DEF Device, Handler, Began, Stopped, LoseNetwork, Admits, PingOk
<1>1. CASE h.interface = "WIFI" /\ WiFi_update_handleDisconnected(h, next)
  BY <1>1 DEF WiFi_update_handleDisconnected
<1>2. CASE h.interface = "ETHERNET" /\ Ethernet_update_handleDisconnected(h, next)
  BY <1>2 DEF Ethernet_update_handleDisconnected
<1>3. CASE h.interface = "LORA" /\ LoRa_update_handleDisconnected(h, next)
  BY <1>3 DEF LoRa_update_handleDisconnected
<1>4. CASE h.interface = "GSM" /\ GSM_update_handleDisconnected(h, next)
  BY <1>4 DEF GSM_update_handleDisconnected
<1>5. CASE h.interface = "NB" /\ NB_update_handleDisconnected(h, next)
  BY <1>5 DEF NB_update_handleDisconnected
<1>6. CASE h.interface = "CATM1" /\ CatM1_update_handleDisconnected(h, next)
  BY <1>6 DEF CatM1_update_handleDisconnected
<1>7. CASE h.interface = "CELL" /\ Cellular_update_handleDisconnected(h, next)
  BY <1>7 DEF Cellular_update_handleDisconnected
<1>8. QED
  BY <1>1, <1>2, <1>3, <1>4, <1>5, <1>6, <1>7 DEF update_handleDisconnected

\* The state machine of the library, whatever the adapter.
LEMMA Transition ==
    ASSUME NEW h \in Handler, NEW next, dev \in Device,
           updateConnectionState(h, next)
    PROVE  next \in Successors(h.state) /\ dev' \in Device
<1>1. CASE h.state = "INIT" /\ update_handleInit(h, next)
  BY <1>1, InitHook DEF Successors
<1>2. CASE h.state = "CONNECTING" /\ update_handleConnecting(h, next)
  BY <1>2, ConnectingHook DEF Successors
<1>3. CASE h.state = "CONNECTED" /\ update_handleConnected(h, next)
  BY <1>3, ConnectedHook DEF Successors
<1>4. CASE h.state = "DISCONNECTING" /\ update_handleDisconnecting(h, next)
  BY <1>4, DisconnectingHook DEF Successors
<1>5. CASE h.state = "DISCONNECTED" /\ update_handleDisconnected(h, next)
  BY <1>5, DisconnectedHook DEF Successors
<1>6. CASE h.state \in {"ERROR", "CLOSED"} /\ next = h.state /\ UNCHANGED dev
  BY <1>6 DEF Successors
<1>7. QED
  BY <1>1, <1>2, <1>3, <1>4, <1>5, <1>6 DEF updateConnectionState

\* No hook gives the driver settings other than those the handler holds; a driver
\* that a hook starts has them, unless it is one that CONNECTING finds stopped.
LEMMA KeepsSettings ==
    ASSUME NEW h \in Handler, NEW next, dev \in Device,
           updateConnectionState(h, next)
    PROVE  /\ dev.cfg = h.settings => dev'.cfg = h.settings
           /\ /\ dev'.started /\ ~dev.started
              /\ h.state = "CONNECTING" => h.interface = "WIFI"
              => dev'.cfg = h.settings
BY InitHook, ConnectingHook, ConnectedHook, DisconnectingHook, DisconnectedHook
   DEF updateConnectionState

\* updateConnectionState() returns a state of the enum (ConnectionHandlerInterface.cpp
\* :68-89), so the member it is assigned to keeps its type.
LEMMA SuccessorsAreStates ==
    \A st \in NetworkConnectionState : Successors(st) \subseteq NetworkConnectionState
BY DEF Successors, NetworkConnectionState

-----------------------------------------------------------------------------
(* The stack of callbacks that run.                                        *)

\* Pushing an event, and what the stack of one event looks like.
LEMMA Push ==
    ASSUME NEW S, NEW s \in Seq(S), NEW e \in S
    PROVE  /\ <<e>> \o s \in Seq(S)
           /\ \A i \in DOMAIN (<<e>> \o s) :
                 (<<e>> \o s)[i] = e \/ \E j \in DOMAIN s : (<<e>> \o s)[i] = s[j]
<1>1. <<e>> \in Seq(S) /\ Len(<<e>>) = 1
  OBVIOUS
<1>2. <<e>> \o s \in Seq(S)
  BY <1>1, ConcatProperties
<1>3. Len(<<e>> \o s) = 1 + Len(s)
  BY <1>1, ConcatProperties
<1>4. ASSUME NEW i \in DOMAIN (<<e>> \o s)
      PROVE  (<<e>> \o s)[i] = e \/ \E j \in DOMAIN s : (<<e>> \o s)[i] = s[j]
  <2>1. i \in 1 .. (1 + Len(s))
    BY <1>2, <1>3, LenProperties
  <2>2. CASE i = 1
    BY <1>1, <2>2, ConcatProperties
  <2>3. CASE i # 1
    <3>1. i - 1 \in DOMAIN s
      BY <2>1, <2>3, LenProperties
    <3>2. (<<e>> \o s)[i] = s[i - 1]
      BY <1>1, <2>1, <2>3, ConcatProperties
    <3>3. QED
      BY <3>1, <3>2
  <2>4. QED
    BY <2>2, <2>3
<1>5. QED
  BY <1>2, <1>4

\* Popping one.
LEMMA Pop ==
    ASSUME NEW S, NEW s \in Seq(S), s # <<>>
    PROVE  /\ Head(s) \in S /\ 1 \in DOMAIN s /\ Head(s) = s[1]
           /\ Tail(s) \in Seq(S)
           /\ \A i \in DOMAIN Tail(s) : \E j \in DOMAIN s : Tail(s)[i] = s[j]
<1>1. Len(s) \in Nat \ {0} /\ DOMAIN s = 1 .. Len(s)
  BY EmptySeq, LenProperties
<1>2. Head(s) \in S /\ 1 \in DOMAIN s /\ Head(s) = s[1]
  BY <1>1, HeadTailProperties, ElementOfSeq
<1>3. Tail(s) \in Seq(S) /\ Len(Tail(s)) = Len(s) - 1
  BY HeadTailProperties
<1>4. ASSUME NEW i \in DOMAIN Tail(s)
      PROVE  \E j \in DOMAIN s : Tail(s)[i] = s[j]
  <2>1. i \in 1 .. (Len(s) - 1)
    BY <1>3, LenProperties
  <2>2. Tail(s)[i] = s[i + 1] /\ i + 1 \in DOMAIN s
    BY <1>1, <2>1, HeadTailProperties
  <2>3. QED
    BY <2>2
<1>5. QED
  BY <1>2, <1>3, <1>4

\* One callback runs.
LEMMA OneCallback ==
    ASSUME NEW e
    PROVE  /\ <<e>> # <<>>
           /\ <<e>> \o <<>> = <<e>>
           /\ Head(<<e>>) = e
           /\ Tail(<<e>>) = <<>>
<1>1. <<e>> \in Seq({e}) /\ Len(<<e>>) = 1
  OBVIOUS
<1>2. <<e>> # <<>> /\ <<e>> \o <<>> = <<e>>
  BY <1>1, ConcatEmptySeq, EmptySeq
<1>3. Head(<<e>>) = e
  BY <1>1, <1>2, HeadTailProperties
<1>4. Tail(<<e>>) \in Seq({e}) /\ Len(Tail(<<e>>)) = 0
  BY <1>1, <1>2, HeadTailProperties
<1>5. QED
  BY <1>2, <1>3, <1>4, EmptySeq

-----------------------------------------------------------------------------
(* The constructors.                                                       *)

\* Whichever constructor ran, the object is one of the base class's in INIT.
LEMMA ConstructedShape ==
    ASSUME NEW h \in ConstructedObjects
    PROVE  \E i \in NetworkAdapter, k \in BOOLEAN, c \in BOOLEAN,
              s \in Settings \cup {NoSetting} : h = Constructed(i, k, c, s)
<1> USE DEF NetworkAdapter
<1>1. CASE h \in DefaultObjects
  BY <1>1 DEF DefaultObjects, WiFi_ConstructedDefault, GSM_ConstructedDefault,
     NB_ConstructedDefault, CatM1_ConstructedDefault, Cellular_ConstructedDefault
<1>2. CASE \E k \in BOOLEAN, s \in Settings : h = WiFi_Constructed(k, s)
  BY <1>2 DEF WiFi_Constructed
<1>3. CASE \E k \in BOOLEAN, s \in Settings : h = Ethernet_Constructed(k, s)
  BY <1>3 DEF Ethernet_Constructed
<1>4. CASE \E s \in Settings : h = LoRa_Constructed(s)
  BY <1>4 DEF LoRa_Constructed
<1>5. CASE \E k \in BOOLEAN, s \in Settings : h = GSM_Constructed(k, s)
  BY <1>5 DEF GSM_Constructed
<1>6. CASE \E k \in BOOLEAN, s \in Settings : h = NB_Constructed(k, s)
  BY <1>6 DEF NB_Constructed
<1>7. CASE \E k \in BOOLEAN, s \in Settings : h = CatM1_Constructed(k, s)
  BY <1>7 DEF CatM1_Constructed
<1>8. CASE \E k \in BOOLEAN, s \in Settings : h = Cellular_Constructed(k, s)
  BY <1>8 DEF Cellular_Constructed
<1>9. QED
  BY <1>1, <1>2, <1>3, <1>4, <1>5, <1>6, <1>7, <1>8 DEF ConstructedObjects

-----------------------------------------------------------------------------
(* The methods.                                                            *)

\* connect(): nothing in INIT and CONNECTING, a new beginning in the other states.
LEMMA ConnectMethod ==
    ASSUME NEW h \in Handler
    PROVE  /\ connect(h) \in Handler
           /\ connect(h).interface = h.interface
           /\ h.state \in {"INIT", "CONNECTING"} => connect(h) = h
           /\ h.state \notin {"INIT", "CONNECTING"} =>
                 connect(h).state = "INIT" /\ connect(h).keep_alive
BY DEF connect, Handler, NetworkConnectionState

\* disconnect(): the same result in every state.
LEMMA DisconnectMethod ==
    ASSUME NEW h \in Handler
    PROVE  /\ disconnect(h) \in Handler
           /\ disconnect(h).interface = h.interface
           /\ disconnect(h).state = "DISCONNECTING"
           /\ ~disconnect(h).keep_alive
BY DEF disconnect, Handler, NetworkConnectionState

\* The setters of one flag leave the rest alone.
LEMMA FlagMethods ==
    ASSUME NEW h \in Handler, NEW b \in BOOLEAN
    PROVE  /\ setKeepAlive(h, b) \in Handler
           /\ setKeepAlive(h, b).interface = h.interface
           /\ setKeepAlive(h, b).state = h.state
           /\ setKeepAlive(h, b).keep_alive = b
           /\ enableCheckInternetAvailability(h, b) \in Handler
           /\ enableCheckInternetAvailability(h, b).interface = h.interface
           /\ enableCheckInternetAvailability(h, b).state = h.state
           /\ enableCheckInternetAvailability(h, b).keep_alive = h.keep_alive
BY DEF setKeepAlive, enableCheckInternetAvailability, Handler

\* updateSetting(): accepted or not, only the settings change.
LEMMA SettingMethod ==
    ASSUME NEW h \in Handler, NEW type, NEW s \in Settings
    PROVE  /\ updateSetting(h, type, s) \in Handler
           /\ updateSetting(h, type, s).interface = h.interface
           /\ updateSetting(h, type, s).state = h.state
           /\ updateSetting(h, type, s).keep_alive = h.keep_alive
BY DEF updateSetting, acceptsSetting, Handler

=============================================================================
