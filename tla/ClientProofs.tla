---------------------------- MODULE ClientProofs ----------------------------
(***************************************************************************)
(* Proofs about Client.tla, for any forwards, handlers, modes and number   *)
(* of clients: the type invariant, what a stopped client leaves listening, *)
(* what holds when WaitClient returns, where Stop panics, when the proxy   *)
(* mode is one in the system, the client and its file, and that nobody     *)
(* waits for a client that will not close.                                 *)
(***************************************************************************)
EXTENDS Client, TLAPS

\* The core.Client is the first field that Start sets; before it is set, and
\* until Start has ended, a client has no forward.
Fresh ==
  /\ pc # "off" \/ wait # "none" => made \in Client
  /\ \A c \in Client : has[c] = {} \/ "client" \in has[c]
  /\ \A c \in Client : c > made => has[c] = {}
  /\ \A c \in Client : has[c] = {} \/ (c = made /\ pc \in StartPC) =>
       forwardAll[c] = {} /\ \A f \in Forward : fwd[c][f] = "none"

\* A client with any field set, or with a handler, has its configuration.
Configured ==
  /\ pc \in StartPC => conf[made] \in Mode
  /\ \A c \in Client : has[c] # {} => conf[c] \in Mode
  /\ \A h \in Handler : req[h].at # "idle" =>
       /\ req[h].client \in Client /\ req[h].mode \in Mode
       /\ conf[req[h].client] \in Mode

\* The listener of a forward is about to be registered, or is.
ForwardKnown ==
  \A c \in Client, f \in Forward :
    bound[f] = c => fwd[c][f] = "listening" \/ f \in forwardAll[c]

\* From where to where Start and Stop have a port.
HeldFrom(p) ==
  CASE p = "proxy" -> {"auto", "manager", "mode", "on", "save", "unmanage",
                       "unserve", "panic"}
    [] p = "auto" -> {"manager", "mode", "on", "save", "unmanage", "unserve",
                      "unauto", "panic"}
    [] OTHER -> {"mode", "on", "save", "unmanage"}

Held ==
  \A p \in Ports : bound[p] # Free => bound[p] = made /\ pc \in HeldFrom(p)

\* What Start has done so far, and what a Stop finds.
Begun ==
  /\ pc = "rules" => has[made] = {"client"}
  /\ pc \in {"server", "auto", "manager"} => has[made] = {"client", "servers"}
  /\ bound["manager"] # Free => "listener" \in has[made]
  /\ pc \in {"auto", "manager", "mode", "on"} => bound["proxy"] = made
  /\ pc \in {"mode", "on"} => "servers" \in has[made]
  /\ pc \in {"mode", "on"} /\ "manager" \in has[made] =>
       "listener" \in has[made]
  /\ made \in Client /\ has[made] = {} => \A p \in Ports : bound[p] = Free

\* Only the deferred Stop finds a Manager without a Listener.
Stopping ==
  /\ pc \in StartPC \cup {"on"} => deferred
  /\ pc \in {"save", "unmanage"} /\ "manager" \in has[made] =>
       IF deferred
       THEN bound["proxy"] = made /\ has[made] = {"client", "servers", "manager"}
       ELSE "listener" \in has[made]
  /\ pc \in {"unserve", "unauto", "unforward"} /\ deferred =>
       "manager" \notin has[made]
  /\ pc = "failed" => "manager" \notin has[made]
  /\ pc = "unmanage" /\ "servers" \in has[made] => saved
  /\ pc = "save" /\ deferred => has[made] # {}
  /\ PanicCauses

\* WaitClient goes on as Stop closes the servers, never before.
Waiting ==
  wait # "none" =>
    /\ pc \in {"on", "off"} \cup StopPC
    /\ pc # "on" => ~deferred
    /\ "servers" \in has[made]
    /\ pc \notin {"on", "save"} => saved
    /\ pc \in {"on", "save", "unmanage", "unserve"} => bound["proxy"] = made
    /\ wait # "proxy" => bound["proxy"] # made
    /\ wait = "returned" => bound["auto"] # made

IInv ==
  TypeOK /\ Fresh /\ Configured /\ ForwardKnown /\ Held /\ Begun /\ Stopping
  /\ Waiting

-----------------------------------------------------------------------------

\* The four proxies' and manager's ports are no port of a forward.
LEMMA PortTypes ==
  /\ Ports \subseteq Port /\ Forward \subseteq Port
  /\ \A f \in Forward : f \notin Ports
  /\ {"proxy", "auto", "manager"} \subseteq Ports
  /\ \A c \in Client : c # Free /\ c \in 0 .. MaxStart /\ c \in Int
BY ClientAssumption DEF Port, Ports, Client, Free

\* A listen gives its port to the client, or changes nothing.
LEMMA ListenEffect ==
  ASSUME LifeType, NEW p \in Port, NEW c \in Client,
         Listen(p, c) \/ NoListen
  PROVE  /\ bound' \in [Port -> 0 .. MaxStart]
         /\ \A q \in Port : q # p => bound'[q] = bound[q]
         /\ Listen(p, c) => bound'[p] = c
<1>1. c \in 0 .. MaxStart BY PortTypes
<1> QED BY <1>1 DEF LifeType, Listen, NoListen

\* A close frees the ports of the client that is stopped, among those named.
LEMMA ShutEffect ==
  ASSUME LifeType, NEW ps, Shut(ps)
  PROVE  /\ bound' \in [Port -> 0 .. MaxStart]
         /\ \A q \in Port : bound'[q] \in {bound[q], Free}
         /\ \A q \in Port : q \notin ps => bound'[q] = bound[q]
         /\ \A q \in ps \cap Port : bound[q] = made => bound'[q] = Free
<1>1. Free \in 0 .. MaxStart BY ClientAssumption DEF Free
<1> QED BY <1>1 DEF LifeType, Shut

\* A step that leaves the forwards alone, and their ports or frees some.
LEMMA SameForwards ==
  ASSUME ForwardKnown, UNCHANGED forwards,
         \A f \in Forward : bound'[f] \in {bound[f], Free}
  PROVE  ForwardKnown'
BY PortTypes DEF ForwardKnown, forwards

\* StartClient reads the configuration (cs_client.go:351-390, 544-547).
LEMMA StartIInv ==
  ASSUME IInv, StartClient
  PROVE  IInv'
<1> USE DEF IInv, TypeOK, StartClient, life, forwards, modes
<1>a. made + 1 \in Client /\ made' = made + 1
  BY ClientAssumption DEF LifeType, Client
<1>b. \A c \in Client : c > made + 1 => c > made
  BY DEF LifeType, Client
<1>c. \A p \in Ports : bound[p] = Free BY DEF Held, HeldFrom
<1>d. has[made + 1] = {} /\ made + 1 > made
  BY <1>a DEF Fresh, LifeType
<1>e. /\ \/ pc' = "failed" /\ conf' = conf /\ has' = has
         \/ /\ file \in Mode /\ pc' = "rules"
            /\ conf' = [conf EXCEPT ![made + 1] = file]
            /\ has' = [has EXCEPT ![made + 1] = {"client"}]
      /\ \A c \in Client : c # made + 1 => has'[c] = has[c]
      /\ has'[made + 1] = IF pc' = "rules" THEN {"client"} ELSE {}
  <2>1. file # "torn" => file \in Mode BY DEF ModeType
  <2> QED BY <1>a, <1>d, <2>1 DEF LifeType
<1>1. TypeOK'
  <2>1. LifeType'
    <3>1. has' \in [Client -> SUBSET {"client", "servers", "manager", "listener"}]
      BY <1>e DEF LifeType
    <3> QED BY <1>a, <1>d, <3>1, PortTypes DEF LifeType, StartPC, StopPC
  <2>2. ForwardType' BY DEF ForwardType
  <2>3. ModeType' BY DEF ModeType, Idle
  <2> QED BY <2>1, <2>2, <2>3
<1>2. Fresh'
  <2>1. \A c \in Client : c > made' => c # made + 1 /\ c > made
    BY <1>a, <1>b, <1>d DEF Client
  <2>2. \A c \in Client : c > made' => has'[c] = {} BY <1>e, <2>1 DEF Fresh
  <2>3. \A c \in Client : has'[c] = {} \/ "client" \in has'[c]
    BY <1>e DEF Fresh
  <2>4. \A c \in Client : has'[c] = {} \/ c = made' => has[c] = {}
    BY <1>a, <1>d, <1>e
  <2>5. \A c \in Client : has'[c] = {} \/ (c = made' /\ pc' \in StartPC) =>
          forwardAll'[c] = {} /\ \A f \in Forward : fwd'[c][f] = "none"
    BY <2>4 DEF Fresh
  <2> QED BY <1>a, <2>2, <2>3, <2>5 DEF Fresh
<1>3. Configured'
  <2>1. \A c \in Client : conf[c] \in Mode => conf'[c] \in Mode
    BY DEF ModeType
  <2>2. pc' = "rules" => conf'[made'] \in Mode
    BY <1>a, <1>e DEF ModeType
  <2>3. pc' \in StartPC => pc' = "rules" BY <1>e DEF StartPC
  <2>4. \A c \in Client : has'[c] # {} => conf'[c] \in Mode
    BY <1>a, <1>e, <2>1, <2>2 DEF Configured
  <2> QED BY <2>1, <2>2, <2>3, <2>4 DEF Configured
<1>4. ForwardKnown' BY SameForwards
<1>5. Held'
  BY <1>c DEF Held
<1>6. Begun'
  BY <1>a, <1>c, <1>e, PortTypes DEF Begun
<1>7. Waiting'
  BY DEF Waiting
<1>8. Stopping'
  BY <1>a, <1>e DEF Stopping, PanicCauses, StartPC
<1> QED BY <1>1, <1>2, <1>3, <1>4, <1>5, <1>6, <1>7, <1>8

\* The rules and the servers (cs_client.go:396-417).
LEMMA RulesIInv ==
  ASSUME IInv, Rules
  PROVE  IInv'
<1> USE DEF IInv, TypeOK, Rules, Gets, life, forwards, modes
<1>a. made \in Client BY DEF Fresh
<1>1. TypeOK'
  <2>1. LifeType' BY DEF LifeType, StartPC, StopPC
  <2>2. ForwardType' BY DEF ForwardType
  <2>3. ModeType' BY DEF ModeType, Idle
  <2> QED BY <2>1, <2>2, <2>3
<1>2. Fresh'
  BY <1>a DEF Fresh, Begun, LifeType, StartPC, StopPC
<1>3. Configured'
  BY DEF Configured, LifeType, StopPC
<1>4. ForwardKnown' BY SameForwards
<1>5. Held'
  BY DEF Held, HeldFrom
<1>6. Begun'
  BY <1>a DEF Begun, LifeType
<1>7. Waiting'
  BY DEF Waiting, StopPC
<1>8. Stopping'
  BY <1>a DEF Stopping, PanicCauses, Begun, LifeType, StartPC
<1> QED BY <1>1, <1>2, <1>3, <1>4, <1>5, <1>6, <1>7, <1>8

\* The proxy server (cs_client.go:418-422).
LEMMA ListenProxyIInv ==
  ASSUME IInv, ListenProxy
  PROVE  IInv'
<1> USE DEF IInv, TypeOK, ListenProxy, NoListen, life, forwards, modes
<1>a. made \in Client BY DEF Fresh
<1>b. /\ bound' \in [Port -> 0 .. MaxStart]
      /\ \A q \in Port : q # "proxy" => bound'[q] = bound[q]
      /\ Listen("proxy", made) => bound'["proxy"] = made
  BY <1>a, PortTypes, ListenEffect
<1>1. TypeOK'
  <2>1. LifeType' BY <1>b DEF LifeType, StartPC, StopPC
  <2>2. ForwardType' BY DEF ForwardType
  <2>3. ModeType' BY DEF ModeType, Idle
  <2> QED BY <2>1, <2>2, <2>3
<1>2. Fresh'
  BY DEF Fresh, LifeType, StopPC
<1>3. Configured'
  BY DEF Configured, LifeType, StopPC
<1>4. ForwardKnown' BY <1>b, PortTypes, SameForwards
<1>5. Held'
  BY <1>b, PortTypes DEF Held, HeldFrom
<1>6. Begun'
  BY <1>b, PortTypes DEF Begun
<1>7. Waiting'
  BY DEF Waiting, StopPC
<1>8. Stopping'
  BY DEF Stopping, PanicCauses, Begun, StartPC
<1> QED BY <1>1, <1>2, <1>3, <1>4, <1>5, <1>6, <1>7, <1>8

\* The auto proxy server (cs_client.go:424-429).
LEMMA ListenAutoIInv ==
  ASSUME IInv, ListenAuto
  PROVE  IInv'
<1> USE DEF IInv, TypeOK, ListenAuto, NoListen, life, forwards, modes
<1>a. made \in Client BY DEF Fresh
<1>b. /\ bound' \in [Port -> 0 .. MaxStart]
      /\ \A q \in Port : q # "auto" => bound'[q] = bound[q]
      /\ Listen("auto", made) => bound'["auto"] = made
  BY <1>a, PortTypes, ListenEffect
<1>1. TypeOK'
  <2>1. LifeType' BY <1>b DEF LifeType, StartPC, StopPC
  <2>2. ForwardType' BY DEF ForwardType
  <2>3. ModeType' BY DEF ModeType, Idle
  <2> QED BY <2>1, <2>2, <2>3
<1>2. Fresh'
  BY DEF Fresh, LifeType, StopPC
<1>3. Configured'
  BY DEF Configured, LifeType, StopPC
<1>4. ForwardKnown' BY <1>b, PortTypes, SameForwards
<1>5. Held'
  BY <1>b, PortTypes DEF Held, HeldFrom
<1>6. Begun'
  BY <1>b, PortTypes DEF Begun
<1>7. Waiting'
  BY DEF Waiting, StopPC
<1>8. Stopping'
  BY DEF Stopping, PanicCauses, Begun, StartPC
<1> QED BY <1>1, <1>2, <1>3, <1>4, <1>5, <1>6, <1>7, <1>8

\* The manager (cs_client.go:432-458).
LEMMA ListenManagerIInv ==
  ASSUME IInv, ListenManager
  PROVE  IInv'
<1> USE DEF IInv, TypeOK, ListenManager, NoListen, Gets, life, forwards, modes
<1>a. made \in Client BY DEF Fresh
<1>b. /\ bound' \in [Port -> 0 .. MaxStart]
      /\ \A q \in Port : q # "manager" => bound'[q] = bound[q]
      /\ Listen("manager", made) => bound'["manager"] = made
  BY <1>a, PortTypes, ListenEffect
<1>1. TypeOK'
  <2>1. LifeType' BY <1>b DEF LifeType, StartPC, StopPC
  <2>2. ForwardType' BY DEF ForwardType
  <2>3. ModeType' BY DEF ModeType, Idle
  <2> QED BY <2>1, <2>2, <2>3
<1>2. Fresh'
  BY <1>a DEF Fresh, Begun, LifeType, StartPC, StopPC
<1>3. Configured'
  BY DEF Configured, LifeType, StopPC
<1>4. ForwardKnown' BY <1>b, PortTypes, SameForwards
<1>5. Held'
  BY <1>b, PortTypes DEF Held, HeldFrom
<1>6. Begun'
  <2>1. bound'["proxy"] = made BY <1>b, PortTypes DEF Begun
  <2>2. /\ has[made] = {"client", "servers"} /\ bound["manager"] = Free
        /\ "client" \in has'[made] /\ "servers" \in has'[made]
    BY <1>a DEF Begun, LifeType
  <2>3. CASE Listen("manager", made) /\ Gets({"manager", "listener"})
    <3>1. "listener" \in has'[made] BY <1>a, <2>3 DEF LifeType
    <3> QED BY <2>1, <2>2, <3>1 DEF Begun
  <2>4. CASE bound' = bound /\ pc' = "save" BY <2>1, <2>2, <2>4 DEF Begun
  <2>5. CASE bound' = bound /\ pc' = "mode" /\ Gets({})
    <3>1. has'[made] = has[made] BY <1>a, <2>5 DEF LifeType
    <3> QED BY <2>1, <2>2, <2>5, <3>1 DEF Begun
  <2> QED BY <2>3, <2>4, <2>5
<1>7. Waiting'
  BY DEF Waiting, StopPC
<1>8. Stopping'
  BY <1>a, <1>b, PortTypes
  DEF Stopping, PanicCauses, Begun, LifeType, StartPC
<1> QED BY <1>1, <1>2, <1>3, <1>4, <1>5, <1>6, <1>7, <1>8

\* The end of Start (cs_client.go:460-463).
LEMMA SetModeIInv ==
  ASSUME IInv, SetMode
  PROVE  IInv'
<1> USE DEF IInv, TypeOK, SetMode, life, forwards, modes
<1>a. made \in Client BY DEF Fresh
<1>1. TypeOK'
  <2>1. LifeType' BY DEF LifeType
  <2>2. ForwardType' BY <1>a DEF ForwardType
  <2>3. ModeType'
    <3>1. conf[made] \in Mode BY DEF Configured, StartPC
    <3>2. unsettled' \in BOOLEAN BY DEF ModeType
    <3> QED BY <3>1, <3>2 DEF ModeType
  <2> QED BY <2>1, <2>2, <2>3
<1>2. Fresh'
  BY <1>a, PortTypes DEF Fresh, Begun, StartPC
<1>3. Configured'
  BY DEF Configured, LifeType, StopPC
<1>4. ForwardKnown'
  BY DEF ForwardKnown, Fresh, StartPC
<1>5. Held'
  BY DEF Held, HeldFrom
<1>6. Begun'
  BY DEF Begun
<1>7. Waiting'
  BY DEF Waiting, Begun
<1>8. Stopping'
  BY DEF Stopping, PanicCauses, StartPC
<1> QED BY <1>1, <1>2, <1>3, <1>4, <1>5, <1>6, <1>7, <1>8

\* A forward listens (cs_client.go:292-303).
LEMMA ForwardListenIInv ==
  ASSUME IInv, NEW c \in Client, NEW f \in Forward, ForwardListen(c, f)
  PROVE  IInv'
<1> USE DEF IInv, TypeOK, ForwardListen, GoForward, NoListen, life, forwards, modes
<1>b. /\ bound' \in [Port -> 0 .. MaxStart]
      /\ \A q \in Port : q # f => bound'[q] = bound[q]
      /\ Listen(f, c) => bound'[f] = c
  BY PortTypes, ListenEffect
<1>1. TypeOK'
  <2>1. LifeType' BY <1>b DEF LifeType
  <2>2. ForwardType' BY PortTypes DEF ForwardType
  <2>3. ModeType' BY DEF ModeType, Idle
  <2> QED BY <2>1, <2>2, <2>3
<1>2. Fresh'
  BY DEF Fresh, ForwardType
<1>3. Configured'
  BY DEF Configured
<1>4. ForwardKnown' BY <1>b, PortTypes DEF ForwardKnown, ForwardType
<1>5. Held'
  BY <1>b, PortTypes DEF Held
<1>6. Begun'
  BY <1>b, PortTypes DEF Begun
<1>7. Waiting'
  BY <1>b, PortTypes DEF Waiting
<1>8. Stopping'
  BY <1>b, PortTypes DEF Stopping, PanicCauses, Fresh
<1> QED BY <1>1, <1>2, <1>3, <1>4, <1>5, <1>6, <1>7, <1>8

\* A forward registers and ends (cs_client.go:304-322).
LEMMA ForwardIInv ==
  ASSUME IInv, NEW c \in Client, NEW f \in Forward,
         ForwardRegister(c, f) \/ ForwardEnds(c, f)
  PROVE  IInv'
<1> USE DEF IInv, TypeOK, ForwardRegister, ForwardEnds, GoForward, life, forwards, modes
<1>1. TypeOK'
  <2>1. LifeType' BY DEF LifeType
  <2>2. ForwardType'
    <3>1. fwd' \in [Client -> [Forward -> {"none", "begun", "listening",
                                           "serving", "done"}]]
      BY DEF ForwardType
    <3>2. forwardAll' \in [Client -> SUBSET Forward] BY DEF ForwardType
    <3> HIDE DEF IInv, TypeOK, ForwardRegister, ForwardEnds, GoForward, life,
             forwards, modes
    <3> QED BY <3>1, <3>2 DEF ForwardType
  <2>3. ModeType' BY DEF ModeType, Idle
  <2> QED BY <2>1, <2>2, <2>3
<1>2. Fresh'
  <2>1. ~(c > made \/ (c = made /\ pc \in StartPC)) BY DEF Fresh
  <2>2. \A d \in Client : d # c => fwd'[d] = fwd[d] /\ forwardAll'[d] = forwardAll[d]
    BY DEF ForwardType
  <2> QED BY <2>2 DEF Fresh
<1>3. Configured'
  BY DEF Configured
<1>4. ForwardKnown' BY DEF ForwardKnown, ForwardType
<1>5. Held'
  BY DEF Held
<1>6. Begun'
  BY DEF Begun
<1>7. Waiting'
  BY DEF Waiting
<1>8. Stopping'
  BY DEF Stopping, PanicCauses
<1> QED BY <1>1, <1>2, <1>3, <1>4, <1>5, <1>6, <1>7, <1>8

\* Stop begins (cs_client.go:478-483).
LEMMA SaveIInv ==
  ASSUME IInv, StopClient \/ Save
  PROVE  IInv'
<1> USE DEF IInv, TypeOK, StopClient, Save, life, forwards, modes
<1>a. made \in Client BY DEF Fresh
<1>1. TypeOK'
  <2>1. LifeType'
    <3>1. CASE Save BY <3>1 DEF LifeType, StopPC
    <3>2. CASE StopClient BY <3>2 DEF LifeType, StopPC
    <3> QED BY <3>1, <3>2
  <2>2. ForwardType' BY <1>a, PortTypes DEF ForwardType
  <2>3. ModeType' BY <1>a, PortTypes DEF ModeType, Configured, Idle
  <2> QED BY <2>1, <2>2, <2>3
<1>2. Fresh'
  <2>1. pc' \notin StartPC BY DEF StartPC
  <2> QED BY <1>a, <2>1 DEF Fresh
<1>3. Configured'
  BY <1>a, PortTypes
  DEF Configured, StartPC, LifeType, ForwardType, ModeType, Fresh, StopPC, Idle
<1>4. ForwardKnown' BY <1>a, PortTypes, SameForwards
<1>5. Held'
  BY <1>a, PortTypes
  DEF Held, HeldFrom, Ports, LifeType, Begun, Waiting, StartPC, StopPC, Fresh
<1>6. Begun'
  BY <1>a, PortTypes
  DEF Begun, LifeType, Fresh, Held, HeldFrom, StartPC, StopPC, Ports
<1>7. Waiting'
  BY <1>a, PortTypes
  DEF Waiting, StopPC, LifeType, Fresh, Begun, Held, HeldFrom, StartPC, Ports
<1>8. Stopping'
  <2>1. CASE StopClient
    <3>1. pc' = "save" /\ ~deferred' BY <2>1
    <3>2. "manager" \in has[made] => "listener" \in has[made]
      BY <2>1 DEF Stopping, Begun
    <3> QED BY <2>1, <3>1, <3>2 DEF Stopping, PanicCauses, StartPC
  <2>2. CASE Save /\ "client" \in has[made]
    BY <2>2 DEF Stopping, PanicCauses, StartPC
  <2>3. CASE Save /\ "client" \notin has[made]
    <3>1. has[made] = {} /\ pc' = "panic" BY <1>a, <2>3 DEF Fresh
    <3>2. wait = "none" BY <3>1 DEF Waiting
    <3>3. \A p \in Ports : bound[p] # made
      BY <1>a, <3>1, PortTypes DEF Begun
    <3>4. \A f \in Forward : bound[f] # made
      BY <1>a, <3>1 DEF Fresh, ForwardKnown
    <3>5. ~deferred
      BY <2>3, <3>1 DEF Stopping
    <3> QED BY <2>3, <3>1, <3>2, <3>3, <3>4, <3>5
            DEF Stopping, PanicCauses, StartPC, Port
  <2> QED BY <2>1, <2>2, <2>3
<1> QED BY <1>1, <1>2, <1>3, <1>4, <1>5, <1>6, <1>7, <1>8

\* Stop and the manager (cs_client.go:484-486).
LEMMA UnmanageIInv ==
  ASSUME IInv, Unmanage
  PROVE  IInv'
<1> USE DEF IInv, TypeOK, Unmanage, life, forwards, modes
<1>a. made \in Client BY DEF Fresh
<1>b. /\ bound' \in [Port -> 0 .. MaxStart]
      /\ \A q \in Port : bound'[q] \in {bound[q], Free}
      /\ \A q \in Port : q # "manager" => bound'[q] = bound[q]
      /\ pc' # "panic" => (bound["manager"] = made => bound'["manager"] = Free)
  BY PortTypes, ShutEffect DEF LifeType
<1>1. TypeOK'
  <2>1. LifeType' BY <1>b DEF LifeType, StopPC
  <2>2. ForwardType' BY DEF ForwardType
  <2>3. ModeType' BY DEF ModeType, Idle
  <2> QED BY <2>1, <2>2, <2>3
<1>2. Fresh'
  BY DEF Fresh, StartPC
<1>3. Configured'
  BY DEF Configured, StartPC
<1>4. ForwardKnown' BY <1>b, PortTypes, SameForwards
<1>5. Held'
  BY <1>b, PortTypes DEF Held, HeldFrom, Ports, Begun
<1>6. Begun'
  BY <1>b, PortTypes DEF Begun
<1>7. Waiting'
  BY <1>a, <1>b, PortTypes DEF Waiting, Stopping, StopPC
<1>8. Stopping'
  BY <1>b, PortTypes
  DEF Stopping, PanicCauses, Begun, Waiting, StartPC
<1> QED BY <1>1, <1>2, <1>3, <1>4, <1>5, <1>6, <1>7, <1>8

\* Stop and the proxy server (cs_client.go:487-489).
LEMMA UnserveIInv ==
  ASSUME IInv, Unserve
  PROVE  IInv'
<1> USE DEF IInv, TypeOK, Unserve, life, forwards, modes
<1>a. made \in Client BY DEF Fresh
<1>b. /\ bound' \in [Port -> 0 .. MaxStart]
      /\ \A q \in Port : bound'[q] \in {bound[q], Free}
      /\ \A q \in Port : q \notin {"proxy"} => bound'[q] = bound[q]
      /\ \A q \in {"proxy"} \cap Port : bound[q] = made => bound'[q] = Free
  BY ShutEffect
<1>1. TypeOK'
  <2>1. LifeType' BY <1>b DEF LifeType, StopPC
  <2>2. ForwardType' BY DEF ForwardType
  <2>3. ModeType' BY DEF ModeType, Idle
  <2> QED BY <2>1, <2>2, <2>3
<1>2. Fresh'
  BY DEF Fresh, StartPC
<1>3. Configured'
  BY DEF Configured, StartPC
<1>4. ForwardKnown' BY <1>b, PortTypes, SameForwards
<1>5. Held'
  BY <1>b, PortTypes DEF Held, HeldFrom
<1>6. Begun'
  BY <1>b, PortTypes DEF Begun
<1>7. Waiting'
  BY <1>b, PortTypes DEF Waiting, StopPC
<1>8. Stopping'
  BY DEF Stopping, PanicCauses, StartPC
<1> QED BY <1>1, <1>2, <1>3, <1>4, <1>5, <1>6, <1>7, <1>8

\* Stop and the auto proxy server (cs_client.go:490-492).
LEMMA UnautoIInv ==
  ASSUME IInv, Unauto
  PROVE  IInv'
<1> USE DEF IInv, TypeOK, Unauto, life, forwards, modes
<1>a. made \in Client BY DEF Fresh
<1>b. /\ bound' \in [Port -> 0 .. MaxStart]
      /\ \A q \in Port : bound'[q] \in {bound[q], Free}
      /\ \A q \in Port : q \notin {"auto"} => bound'[q] = bound[q]
      /\ \A q \in {"auto"} \cap Port : bound[q] = made => bound'[q] = Free
  BY ShutEffect
<1>1. TypeOK'
  <2>1. LifeType' BY <1>b DEF LifeType, StopPC
  <2>2. ForwardType' BY DEF ForwardType
  <2>3. ModeType' BY DEF ModeType, Idle
  <2> QED BY <2>1, <2>2, <2>3
<1>2. Fresh'
  BY DEF Fresh, StartPC
<1>3. Configured'
  BY DEF Configured, StartPC
<1>4. ForwardKnown' BY <1>b, PortTypes, SameForwards
<1>5. Held'
  BY <1>b, PortTypes DEF Held, HeldFrom
<1>6. Begun'
  BY <1>b, PortTypes DEF Begun
<1>7. Waiting'
  BY <1>a, <1>b, PortTypes DEF Waiting, StopPC
<1>8. Stopping'
  BY DEF Stopping, PanicCauses, StartPC
<1> QED BY <1>1, <1>2, <1>3, <1>4, <1>5, <1>6, <1>7, <1>8

\* Stop and the forwards (cs_client.go:493-498).
LEMMA UnforwardIInv ==
  ASSUME IInv, Unforward
  PROVE  IInv'
<1> USE DEF IInv, TypeOK, Unforward, Stopped, life, forwards, modes
<1>a. made \in Client BY DEF Fresh
<1>b. /\ bound' \in [Port -> 0 .. MaxStart]
      /\ \A q \in Port : bound'[q] \in {bound[q], Free}
      /\ \A q \in Port : q \notin forwardAll[made] => bound'[q] = bound[q]
      /\ \A q \in forwardAll[made] \cap Port : bound[q] = made => bound'[q] = Free
  BY ShutEffect
<1>c. \A p \in Ports : bound'[p] = bound[p] 
  BY <1>a, <1>b, PortTypes DEF ForwardType
<1>1. TypeOK'
  <2>1. LifeType' BY <1>b DEF LifeType
  <2>2. ForwardType' BY <1>a DEF ForwardType
  <2>3. ModeType' BY DEF ModeType, Idle
  <2> QED BY <2>1, <2>2, <2>3
<1>2. Fresh'
  BY DEF Fresh, StartPC
<1>3. Configured'
  BY DEF Configured, StartPC
<1>4. ForwardKnown' BY <1>b, PortTypes DEF ForwardKnown
<1>5. Held'
  BY <1>c DEF Held, HeldFrom
<1>6. Begun'
  BY <1>c, PortTypes DEF Begun
<1>7. Waiting'
  BY <1>c, PortTypes DEF Waiting
<1>8. Stopping'
  BY DEF Stopping, PanicCauses, StartPC, Stopped
<1> QED BY <1>1, <1>2, <1>3, <1>4, <1>5, <1>6, <1>7, <1>8

\* WaitClient (cs_client.go:468-475).
LEMMA WaitIInv ==
  ASSUME IInv, WaitClient
  PROVE  IInv'
<1> USE DEF IInv, TypeOK, WaitClient, life, forwards, modes
<1>a. made \in Client /\ wait \in {"proxy", "auto"}
  BY DEF Fresh, LifeType, Ports
<1>1. TypeOK'
  <2>1. LifeType' BY DEF LifeType
  <2>2. ForwardType' BY DEF ForwardType
  <2>3. ModeType' BY DEF ModeType, Idle
  <2> QED BY <2>1, <2>2, <2>3
<1>2. Fresh'
  BY <1>a DEF Fresh
<1>3. Configured'
  BY DEF Configured
<1>4. ForwardKnown' BY SameForwards
<1>5. Held'
  BY DEF Held
<1>6. Begun'
  BY DEF Begun
<1>7. Waiting'
  BY <1>a DEF Waiting
<1>8. Stopping'
  BY <1>a DEF Stopping, PanicCauses, Waiting, StopPC
<1> QED BY <1>1, <1>2, <1>3, <1>4, <1>5, <1>6, <1>7, <1>8

\* The end of the process (coversocks/cs_main.go:53-60).
LEMMA ExitIInv ==
  ASSUME IInv, Exit
  PROVE  IInv'
<1> USE DEF IInv, TypeOK, Exit, life, forwards, modes
<1>1. TypeOK'
  <2>1. LifeType'
    <3>1. Free \in 0 .. MaxStart BY ClientAssumption DEF Free
    <3>2. bound' \in [Port -> 0 .. MaxStart] BY <3>1
    <3> QED BY <3>2 DEF LifeType
  <2>2. ForwardType' BY DEF ForwardType
  <2>3. ModeType'
    <3>1. Idle \in [at : {"idle", "native", "conf", "open", "write"},
                    client : 0 .. MaxStart, mode : Mode \cup {"none"}]
      BY ClientAssumption DEF Idle
    <3> QED BY <3>1 DEF ModeType
  <2> QED BY <2>1, <2>2, <2>3
<1>2. Fresh'
  BY DEF Fresh
<1>3. Configured'
  BY DEF Configured, StartPC, Idle
<1>4. ForwardKnown' BY PortTypes DEF ForwardKnown
<1>5. Held'
  BY PortTypes DEF Held
<1>6. Begun'
  BY PortTypes DEF Begun
<1>7. Waiting'
  BY DEF Waiting
<1>8. Stopping'
  BY DEF Stopping, PanicCauses, StartPC
<1> QED BY <1>1, <1>2, <1>3, <1>4, <1>5, <1>6, <1>7, <1>8

\* A step of a handler leaves the client and its forwards alone.
LEMMA SameLife ==
  ASSUME IInv, UNCHANGED <<life, forwards>>, ModeType', Configured'
  PROVE  IInv'
<1> USE DEF life, forwards
<1>1. LifeType' /\ ForwardType' BY DEF IInv, TypeOK, LifeType, ForwardType
<1>2. Fresh' BY DEF IInv, Fresh
<1>3. ForwardKnown' BY DEF IInv, ForwardKnown
<1>4. Held' BY DEF IInv, Held
<1>5. Begun' /\ Stopping' BY DEF IInv, Begun, Stopping, PanicCauses
<1>6. Waiting' BY DEF IInv, Waiting
<1> QED BY <1>1, <1>2, <1>3, <1>4, <1>5, <1>6 DEF IInv, TypeOK

\* A request to the manager (cs_client.go:262-264).
LEMMA RequestIInv ==
  ASSUME IInv, NEW h \in Handler, Request(h)
  PROVE  IInv'
<1> USE DEF IInv, TypeOK, Request
<1>1. PICK c \in Client, m \in Mode :
        /\ "listener" \in has[c]
        /\ req' = [req EXCEPT ![h] = [at |-> "native", client |-> c, mode |-> m]]
  OBVIOUS
<1>2. unsettled' \in BOOLEAN BY DEF ModeType
<1>3. ModeType' BY PortTypes DEF ModeType
<1>4. Configured'
  <2>1. conf[c] \in Mode BY <1>1 DEF Configured
  <2> QED BY DEF Configured, life
<1> QED BY <1>3, <1>4, SameLife

\* The steps of a handler (cs_client.go:264-278).
LEMMA HandlerIInv ==
  ASSUME IInv, NEW h \in Handler, HandlerSteps(h)
  PROVE  IInv'
<1> USE DEF IInv, TypeOK, life, Goes, Ends
<1>1. /\ req[h].client \in Client /\ req[h].mode \in Mode
      /\ conf[req[h].client] \in Mode
  BY DEF HandlerSteps, Native, SetConf, Open, Write, Configured
<1>2. Idle \in [at : {"idle", "native", "conf", "open", "write"},
                client : 0 .. MaxStart, mode : Mode \cup {"none"}]
  BY ClientAssumption DEF Idle
<1>3. Idle.at = "idle" BY DEF Idle
<1>4. CASE Native(h)
  <2>1. unsettled' \in BOOLEAN /\ sys' \in Mode
    BY <1>1, <1>4 DEF Native, ModeType
  <2>2. req' \in [Handler ->
            [at : {"idle", "native", "conf", "open", "write"},
             client : 0 .. MaxStart, mode : Mode \cup {"none"}]]
    BY <1>2, <1>4 DEF Native, ModeType
  <2>3. ModeType' BY <1>4, <2>1, <2>2 DEF Native, ModeType
  <2>4. Configured' BY <1>3, <1>4 DEF Native, Configured, ModeType
  <2> QED BY <1>4, <2>3, <2>4, SameLife DEF Native
<1>5. CASE SetConf(h)
  <2>1. ModeType' BY <1>1, <1>5 DEF SetConf, ModeType
  <2>2. Configured' BY <1>5 DEF SetConf, Configured, ModeType
  <2> QED BY <1>5, <2>1, <2>2, SameLife DEF SetConf
<1>6. CASE Open(h)
  <2>1. unsettled' \in BOOLEAN /\ file' \in Mode \cup {"torn"}
    BY <1>6 DEF Open, ModeType
  <2>2. req' \in [Handler ->
            [at : {"idle", "native", "conf", "open", "write"},
             client : 0 .. MaxStart, mode : Mode \cup {"none"}]]
    BY <1>2, <1>6 DEF Open, ModeType
  <2>3. ModeType' BY <1>6, <2>1, <2>2 DEF Open, ModeType
  <2>4. Configured' BY <1>3, <1>6 DEF Open, Configured, ModeType
  <2> QED BY <1>6, <2>3, <2>4, SameLife DEF Open
<1>7. CASE Write(h)
  <2>1. ModeType' BY <1>1, <1>2, <1>7 DEF Write, Over, ModeType
  <2>2. Configured' BY <1>3, <1>7 DEF Write, Configured, ModeType
  <2> QED BY <1>7, <2>1, <2>2, SameLife DEF Write
<1> QED BY <1>4, <1>5, <1>6, <1>7 DEF HandlerSteps

\* Init (cs_client.go:541).
LEMMA InitIInv == Init => IInv
<1> SUFFICES ASSUME Init PROVE IInv OBVIOUS
<1>1. Free \in 0 .. MaxStart /\ 0 \in 0 .. MaxStart
  BY ClientAssumption DEF Free
<1>2. Idle \in [at : {"idle", "native", "conf", "open", "write"},
                client : 0 .. MaxStart, mode : Mode \cup {"none"}]
  BY ClientAssumption DEF Idle
<1>3. LifeType BY <1>1 DEF Init, LifeType
<1>4. ForwardType BY DEF Init, ForwardType
<1>5. ModeType BY <1>2 DEF Init, ModeType
<1>6. Fresh BY DEF Init, Fresh
<1>7. Configured BY DEF Init, Configured, StartPC, Idle
<1>8. ForwardKnown BY PortTypes DEF Init, ForwardKnown
<1>9. Held /\ Begun /\ Stopping /\ Waiting
  BY PortTypes
  DEF Init, Held, Begun, Stopping, PanicCauses, Waiting, StartPC, Client
<1> QED BY <1>3, <1>4, <1>5, <1>6, <1>7, <1>8, <1>9 DEF IInv, TypeOK

\* Every step of the client, its forwards and its handlers.
LEMMA NextIInv == IInv /\ [Next]_vars => IInv'
<1> SUFFICES ASSUME IInv, [Next]_vars PROVE IInv' OBVIOUS
<1>1. CASE StartClient \/ StartSteps
  BY <1>1, StartIInv, RulesIInv, ListenProxyIInv, ListenAutoIInv,
     ListenManagerIInv, SetModeIInv DEF StartSteps
<1>2. CASE StopClient \/ StopSteps
  BY <1>2, SaveIInv, UnmanageIInv, UnserveIInv, UnautoIInv, UnforwardIInv
  DEF StopSteps
<1>3. CASE WaitClient \/ Exit BY <1>3, WaitIInv, ExitIInv
<1>4. CASE \E c \in Client, f \in Forward : ForwardSteps(c, f)
  BY <1>4, ForwardListenIInv, ForwardIInv DEF ForwardSteps
<1>5. CASE \E h \in Handler : Request(h) \/ HandlerSteps(h)
  BY <1>5, RequestIInv, HandlerIInv
<1>6. CASE UNCHANGED vars
  <2>1. UNCHANGED <<life, forwards>> BY <1>6 DEF vars
  <2>2. ModeType' BY <1>6 DEF IInv, TypeOK, ModeType, vars, modes
  <2>3. Configured' BY <1>6 DEF IInv, Configured, vars, life, modes
  <2> QED BY <2>1, <2>2, <2>3, SameLife
<1> QED BY <1>1, <1>2, <1>3, <1>4, <1>5, <1>6 DEF Next

\* The invariant holds in every behaviour of the client.
LEMMA SpecIInv == Spec => []IInv
BY InitIInv, NextIInv, PTL DEF Spec

\* The fields of the clients, of their forwards and handlers keep their types
\* (cs_client.go:120-145).
THEOREM TypeCorrect == Spec => []TypeOK
BY SpecIInv, PTL DEF IInv

\* What listens for a client after its Stop, or after a Start that failed, is
\* a forward that was too late for Stop (cs_client.go:299-306, 493-498).
THEOREM LateForwardsOnly == Spec => []OnlyLateForwards
<1>1. IInv => OnlyLateForwards
  <2> SUFFICES ASSUME IInv, NEW c \in Client, NEW p \in Port,
                      IsStopped(c), bound[p] = c
               PROVE  p \in Forward /\ (\/ fwd[c][p] = "listening"
                                        \/ p \in forwardAll[c])
    BY DEF OnlyLateForwards
  <2>1. made \in Int /\ made = made BY DEF IInv, TypeOK, LifeType
  <2>2. p \notin Ports
    BY PortTypes DEF IInv, Held, HeldFrom, IsStopped
  <2>3. p \in Forward BY <2>2 DEF Port
  <2> QED BY <2>3 DEF IInv, ForwardKnown
<1> QED BY <1>1, SpecIInv, PTL

\* When WaitClient returns, and main ends the process, the cache is saved and
\* the servers are closed (cs_client.go:467-492).
THEOREM SavedWhenWaited == Spec => []WaitedSaved
<1>1. IInv => WaitedSaved
  <2> SUFFICES ASSUME IInv, wait = "returned"
               PROVE  saved /\ \A p \in Ports : bound[p] # made
    BY DEF WaitedSaved
  <2>1. /\ made \in Client
        /\ bound["proxy"] # made /\ bound["auto"] # made
        /\ pc \in {"on", "off"} \cup StopPC
        /\ pc \notin {"on", "save", "unmanage", "unserve"}
        /\ pc \notin {"on", "save"} => saved
    BY DEF IInv, Waiting, Fresh
  <2>2. bound["manager"] # made
    BY <2>1, PortTypes DEF IInv, Held, HeldFrom, StopPC
  <2> QED BY <2>1, <2>2 DEF Ports
<1> QED BY <1>1, SpecIInv, PTL

\* Stop panics without a core.Client, when it is called after a Start that
\* failed early, and with a Manager that could not listen, when Start calls it
\* (cs_client.go:386-390, 446-450, 483-485); WaitClient never waits then.
THEOREM TwoPanics == Spec => []PanicCauses
<1>1. IInv => PanicCauses BY DEF IInv, Stopping
<1> QED BY <1>1, SpecIInv, PTL

\* While WaitClient waits, Stop does not panic on its way, and when it has
\* ended the server that WaitClient waits for no longer listens.
WaiterFreed ==
  wait \in Ports =>
    /\ pc \in {"on", "off"} \cup StopPC
    /\ pc = "off" => bound[wait] # made

\* WaitClient never waits for a server that nobody will close any more: what
\* WaitReturns of Client.tla comes down to once its fairness is left aside
\* (cs_client.go:467-500).
THEOREM NoLostWait == Spec => []WaiterFreed
<1>1. IInv => WaiterFreed
  <2> SUFFICES ASSUME IInv, wait \in Ports
               PROVE  /\ pc \in {"on", "off"} \cup StopPC
                      /\ pc = "off" => bound[wait] # made
    BY DEF WaiterFreed
  <2>1. wait # "none" BY DEF Ports
  <2>2. made \in Client /\ pc \in {"on", "off"} \cup StopPC
    BY <2>1 DEF IInv, Waiting, Fresh
  <2>3. made # Free BY <2>2 DEF Client, Free
  <2>4. bound[wait] # Free => pc \in HeldFrom(wait) BY DEF IInv, Held
  <2>5. pc = "off" => pc \notin HeldFrom(wait) BY DEF HeldFrom
  <2> QED BY <2>2, <2>3, <2>4, <2>5
<1> QED BY <1>1, SpecIInv, PTL

-----------------------------------------------------------------------------
(***************************************************************************)
(* The mode of the system, of the client and of the file.                  *)
(***************************************************************************)

\* Where the one handler h of a settled client has brought the new mode.
Changing(h) ==
  /\ req[h].client = made
  /\ CASE req[h].at = "native" -> sys = file /\ conf[made] = file
       [] req[h].at = "conf"   -> sys = req[h].mode /\ conf[made] = file
       [] req[h].at = "open"   -> /\ sys = req[h].mode /\ conf[made] = sys
                                  /\ file # "torn"
       [] req[h].at = "write"  -> /\ sys = req[h].mode /\ conf[made] = sys
                                  /\ file = "torn"
       [] OTHER -> FALSE

Quiescent == \A h \in Handler : req[h] = Idle
OneChanging ==
  \E h \in Handler :
    Changing(h) /\ \A i \in Handler \ {h} : req[i] = Idle

\* A client that is being started has the mode it has read; one that runs has
\* one mode everywhere, or one handler that is changing it.
Settled ==
  ~unsettled =>
    /\ pc \in StartPC => Quiescent /\ conf[made] = file
    /\ pc = "on" => \/ Quiescent /\ sys = file /\ conf[made] = file
                   \/ OneChanging

\* What a client that starts or runs has read is a mode.
LEMMA HasMode ==
  ASSUME IInv, pc \in StartPC \cup {"on"}
  PROVE  made \in Client /\ conf[made] \in Mode /\ conf[made] # "torn"
<1>1. made \in Client /\ conf[made] \in Mode
  BY DEF IInv, Fresh, Configured, Begun, StartPC
<1> QED BY <1>1, ClientAssumption

\* A step that leaves the modes alone, but for the end of SetMode, keeps them.
LEMMA SameSettled ==
  ASSUME Settled, UNCHANGED <<made, modes>>,
         pc' \in StartPC => pc \in StartPC,
         pc' = "on" => pc = "on"
  PROVE  Settled'
BY DEF Settled, Quiescent, OneChanging, Changing, modes

\* A request to the manager (cs_client.go:262-264).
LEMMA RequestSettled ==
  ASSUME IInv, Settled, NEW h \in Handler, Request(h)
  PROVE  Settled'
<1> SUFFICES ASSUME ~unsettled' PROVE Settled' BY DEF Settled
<1>1. PICK c \in Client, m \in Mode :
        /\ req' = [req EXCEPT ![h] = [at |-> "native", client |-> c, mode |-> m]]
        /\ unsettled' = (\/ unsettled \/ c # made \/ pc # "on"
                         \/ \E i \in Handler : req[i] # Idle)
  BY DEF Request
<1>2. UNCHANGED <<pc, made, sys, conf, file>> BY DEF Request, life
<1>3. ~unsettled /\ c = made /\ pc = "on" /\ Quiescent
  BY <1>1 DEF Quiescent
<1>4. sys = file /\ conf[made] = file
  <2>1. ~OneChanging BY <1>3 DEF Quiescent, OneChanging, Changing, Idle
  <2> QED BY <1>3, <2>1 DEF Settled
<1>5. /\ req'[h] = [at |-> "native", client |-> made, mode |-> m]
      /\ \A i \in Handler \ {h} : req'[i] = Idle
  BY <1>1, <1>3 DEF IInv, TypeOK, ModeType, Quiescent
<1>6. Changing(h)' BY <1>2, <1>4, <1>5 DEF Changing
<1>7. OneChanging' BY <1>5, <1>6 DEF OneChanging
<1>8. pc' \notin StartPC BY <1>2, <1>3 DEF StartPC
<1> QED BY <1>7, <1>8 DEF Settled

\* The steps of a handler (cs_client.go:264-278).
LEMMA HandlerSettled ==
  ASSUME IInv, Settled, NEW h \in Handler, HandlerSteps(h)
  PROVE  Settled'
<1> SUFFICES ASSUME ~unsettled' PROVE Settled' BY DEF Settled
<1>1. UNCHANGED <<pc, made>> /\ ~unsettled
  BY DEF HandlerSteps, Native, SetConf, Open, Write, life
<1>2. req[h] # Idle BY DEF HandlerSteps, Native, SetConf, Open, Write, Idle
<1>3. CASE pc = "on"
  <2>1. Changing(h) /\ \A i \in Handler \ {h} : req[i] = Idle
    BY <1>1, <1>2, <1>3 DEF Settled, Quiescent, OneChanging
  <2>2. made \in Client /\ conf[made] \in Mode /\ conf[made] # "torn"
    BY <1>3, HasMode
  <2>3. /\ conf \in [Client -> Mode \cup {"none"}]
        /\ req \in [Handler ->
             [at : {"idle", "native", "conf", "open", "write"},
              client : 0 .. MaxStart, mode : Mode \cup {"none"}]]
    BY DEF IInv, TypeOK, ModeType
  <2>4. \A i \in Handler \ {h} : req'[i] = Idle
    BY <2>1, <2>3
    DEF HandlerSteps, Native, SetConf, Open, Write, Goes, Ends
  <2>5. CASE Native(h)
    <3>1. /\ req'[h] = [req[h] EXCEPT !.at = "conf"] /\ sys' = req[h].mode
          /\ conf' = conf /\ file' = file
      BY <1>1, <2>3, <2>5 DEF Native, Goes
    <3>2. Changing(h)'
      BY <1>1, <2>1, <2>3, <2>5, <3>1 DEF Changing, Native
    <3> QED BY <1>1, <1>3, <2>4, <3>2 DEF Settled, OneChanging, StartPC
  <2>6. CASE SetConf(h)
    <3>1. /\ req'[h] = [req[h] EXCEPT !.at = "open"] /\ sys' = sys
          /\ conf'[made] = req[h].mode /\ file' = file
      BY <2>1, <2>2, <2>3, <2>6 DEF SetConf, Goes, Changing
    <3>2. Changing(h)'
      BY <1>1, <2>1, <2>2, <2>3, <2>6, <3>1 DEF Changing, SetConf
    <3> QED BY <1>1, <1>3, <2>4, <3>2 DEF Settled, OneChanging, StartPC
  <2>7. CASE Open(h)
    <3>1. /\ req'[h] = [req[h] EXCEPT !.at = "write", !.mode = conf[made]]
          /\ sys' = sys /\ conf' = conf /\ file' = "torn"
      BY <1>1, <2>1, <2>3, <2>7 DEF Open, Changing
    <3>2. Changing(h)'
      BY <1>1, <2>1, <2>3, <2>7, <3>1 DEF Changing, Open
    <3> QED BY <1>1, <1>3, <2>4, <3>2 DEF Settled, OneChanging, StartPC
  <2>8. CASE Write(h)
    <3>1. /\ req'[h] = Idle /\ sys' = sys /\ conf' = conf
          /\ file' = Over(file, req[h].mode)
      BY <1>1, <2>3, <2>8 DEF Write, Ends
    <3>2. sys = req[h].mode /\ conf[made] = sys /\ file = "torn"
      BY <2>1, <2>8 DEF Write, Changing
    <3>3. file' = req[h].mode BY <3>1, <3>2, ClientAssumption DEF Over
    <3>4. Quiescent' BY <2>4, <3>1 DEF Quiescent
    <3> QED BY <1>1, <1>3, <3>1, <3>2, <3>3, <3>4 DEF Settled, StartPC
  <2> QED BY <2>5, <2>6, <2>7, <2>8 DEF HandlerSteps
<1>4. CASE pc # "on"
  <2>1. pc \notin StartPC BY <1>1, <1>2 DEF Settled, Quiescent
  <2> QED BY <1>1, <1>4, <2>1 DEF Settled
<1> QED BY <1>3, <1>4

\* Start (cs_client.go:351-465), the other steps change no mode.
LEMMA NextSettled == IInv /\ Settled /\ [Next]_vars => Settled'
<1> SUFFICES ASSUME IInv, Settled, [Next]_vars PROVE Settled' OBVIOUS
<1>1. CASE StartClient
  <2>1. pc' \in {"failed", "rules"} BY <1>1 DEF StartClient
  <2>2. pc' \in StartPC => conf'[made'] = file'
    <3>1. made' = made + 1 /\ made < MaxStart /\ file' = file
      BY <1>1 DEF StartClient
    <3>2. made' \in Client
      BY <3>1, ClientAssumption DEF Client, IInv, TypeOK, LifeType
    <3>3. pc' = "rules" => conf' = [conf EXCEPT ![made'] = file]
      BY <1>1 DEF StartClient
    <3> QED BY <2>1, <3>1, <3>2, <3>3 DEF StartPC, IInv, TypeOK, ModeType
  <2>3. ~unsettled' => Quiescent' BY <1>1 DEF StartClient, Quiescent
  <2> QED BY <2>1, <2>2, <2>3 DEF Settled
<1>2. CASE SetMode
  <2>1. /\ pc = "mode" /\ pc' = "on" /\ UNCHANGED <<made, conf, file, req>>
        /\ ~unsettled' => sys' = conf[made] /\ ~unsettled
    BY <1>2 DEF SetMode
  <2> QED BY <2>1 DEF Settled, Quiescent, StartPC
<1>3. CASE Rules \/ ListenProxy \/ ListenAuto \/ ListenManager
  <2>1. /\ UNCHANGED <<made, modes>> /\ pc \in StartPC /\ pc' # "on"
    BY <1>3 DEF Rules, ListenProxy, ListenAuto, ListenManager, StartPC
  <2> QED BY <2>1, SameSettled
<1>4. CASE StopClient \/ StopSteps
  <2>1. UNCHANGED <<made, modes>> /\ pc' \notin StartPC \cup {"on"}
    BY <1>4 DEF StopClient, StopSteps, Save, Unmanage, Unserve, Unauto,
                Unforward, Stopped, StartPC
  <2> QED BY <2>1 DEF Settled
<1>5. CASE WaitClient BY <1>5, SameSettled DEF WaitClient
<1>6. CASE Exit BY <1>6 DEF Exit, Settled
<1>7. CASE \E c \in Client, f \in Forward : ForwardSteps(c, f)
  BY <1>7, SameSettled
  DEF ForwardSteps, ForwardListen, ForwardRegister, ForwardEnds, life
<1>8. CASE \E h \in Handler : Request(h) \/ HandlerSteps(h)
  BY <1>8, RequestSettled, HandlerSettled
<1>9. CASE UNCHANGED vars BY <1>9, SameSettled DEF vars, life
<1> QED
  BY <1>1, <1>2, <1>3, <1>4, <1>5, <1>6, <1>7, <1>8, <1>9 DEF Next, StartSteps

\* The system, a running client and its file have one mode, and the file is
\* whole, unless requests to change it overlapped, came too early or too late,
\* or failed at a step (cs_client.go:262-279).
THEOREM OneMode == Spec => []ModesAgree
<1>1. Init => Settled BY DEF Init, Settled
<1>2. IInv /\ Settled => ModesAgree
  <2> SUFFICES ASSUME IInv, Settled, pc = "on", ~unsettled PROVE ModesAgree
    BY DEF ModesAgree
  <2>1. conf[made] # "torn" BY HasMode
  <2>2. CASE Quiescent
    <3>1. ~OneChanging BY <2>2 DEF Quiescent, OneChanging, Changing, Idle
    <3> QED BY <2>2, <3>1 DEF Settled, Quiescent, ModesAgree
  <2>3. CASE ~Quiescent
    <3>1. PICK h \in Handler : Changing(h) BY <2>3 DEF Settled, OneChanging
    <3>2. file = "torn" => req[h].at = "write" BY <2>1, <3>1 DEF Changing
    <3> QED BY <2>3, <3>2 DEF Quiescent, ModesAgree
  <2> QED BY <2>2, <2>3
<1> QED BY <1>1, <1>2, NextSettled, SpecIInv, PTL DEF Spec

=============================================================================
