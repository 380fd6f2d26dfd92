------------------------------- MODULE Client -------------------------------
(***************************************************************************)
(* The client's front end, cs_client.go: Start opens the two proxies, the  *)
(* manager's http server and the forwards one after the other, a Start     *)
(* that fails calls Stop on what there is, each forward is a goroutine of  *)
(* its own, and the manager's handlers change the proxy mode of the        *)
(* system, of the client and of its configuration file.                    *)
(*                                                                         *)
(* A client is the number of the StartClient that made it.  Main starts    *)
(* one per process; tests start and stop several.  The caller of           *)
(* StartClient and StopClient is one, and StopClient waits for Start.      *)
(***************************************************************************)
EXTENDS Integers, FiniteSets

CONSTANTS
  Forward,  \* the forwards of the configuration, each with a port of its own
  Handler,  \* goroutines that serve changeProxyMode
  Mode,     \* the modes that are asked for
  Short,    \* those whose name is shorter than the others'
  MaxStart  \* bound: calls of StartClient

Ports == {"proxy", "auto", "manager"}

ASSUME ClientAssumption ==
  /\ MaxStart \in Nat
  /\ Forward \cap Ports = {}
  /\ Mode # {} /\ Mode \cap {"none", "torn"} = {}

Client == 1 .. MaxStart
Port == Ports \cup Forward
Free == 0

VARIABLES
  bound,      \* whose listener each port has
  made,       \* the last client made, clientInstance
  pc,         \* where Start or Stop of that client is; "failed": Start has
              \* returned an error, and clientInstance is still set
  deferred,   \* a Stop that begins now, or runs, is the deferred call of Start
  has,        \* which fields of each client are not nil
  saved,      \* a Stop of that client has called SaveCache
  wait,       \* WaitClient: "none", the server it waits for, or "returned"
  fwd,        \* where each startForward is
  forwardAll, \* Client.ForwardAll
  sys,        \* the proxy mode of the system
  conf,       \* Client.Conf.Mode, or "none" before Start has read it
  file,       \* the mode in the configuration file, or "torn"
  req,        \* where each handler is, with its client and its mode
  unsettled   \* history: since the last Start handlers have overlapped,
              \* or a step of one has failed

life == <<bound, made, pc, deferred, has, saved, wait>>
forwards == <<fwd, forwardAll>>
modes == <<sys, conf, file, req, unsettled>>
vars == <<life, forwards, modes>>

StartPC == {"rules", "server", "auto", "manager", "mode"}
StopPC == {"save", "unmanage", "unserve", "unauto", "unforward"}
Idle == [at |-> "idle", client |-> 0, mode |-> "none"]

LifeType ==
  /\ bound \in [Port -> 0 .. MaxStart]
  /\ made \in 0 .. MaxStart
  /\ pc \in StartPC \cup StopPC \cup {"off", "on", "failed", "panic"}
  /\ deferred \in BOOLEAN
  /\ has \in [Client -> SUBSET {"client", "servers", "manager", "listener"}]
  /\ saved \in BOOLEAN
  /\ wait \in {"none", "proxy", "auto", "returned"}

ForwardType ==
  /\ fwd \in [Client -> [Forward -> {"none", "begun", "listening", "serving",
                                     "done"}]]
  /\ forwardAll \in [Client -> SUBSET Forward]

ModeType ==
  /\ sys \in Mode
  /\ conf \in [Client -> Mode \cup {"none"}]
  /\ file \in Mode \cup {"torn"}
  /\ req \in [Handler -> [at : {"idle", "native", "conf", "open", "write"},
                          client : 0 .. MaxStart, mode : Mode \cup {"none"}]]
  /\ unsettled \in BOOLEAN

TypeOK == LifeType /\ ForwardType /\ ModeType

Init ==
  /\ bound = [p \in Port |-> Free]
  /\ made = 0
  /\ pc = "off"
  /\ deferred = FALSE
  /\ has = [c \in Client |-> {}]
  /\ saved = FALSE
  /\ wait = "none"
  /\ fwd = [c \in Client |-> [f \in Forward |-> "none"]]
  /\ forwardAll = [c \in Client |-> {}]
  /\ file \in Mode
  /\ sys \in Mode
  /\ conf = [c \in Client |-> "none"]
  /\ req = [h \in Handler |-> Idle]
  /\ unsettled = TRUE

-----------------------------------------------------------------------------
(***************************************************************************)
(* Start.  A step that fails leads to Stop, by the deferred call, but for  *)
(* the reading of the configuration and Boostrap, which come before it:    *)
(* then the client has no core.Client.                                     *)
(***************************************************************************)

StartClient ==
  /\ pc \in {"off", "failed"} /\ made < MaxStart
  /\ wait \in {"none", "returned"}
  /\ made' = made + 1
  /\ \/ pc' = "failed" /\ conf' = conf /\ has' = has
     \/ /\ file # "torn"
        /\ pc' = "rules"
        /\ conf' = [conf EXCEPT ![made'] = file]
        /\ has' = [has EXCEPT ![made'] = {"client"}]
  /\ deferred' = TRUE
  /\ saved' = FALSE
  /\ wait' = "none"
  /\ unsettled' = (\E h \in Handler : req[h] # Idle)
  /\ UNCHANGED <<bound, forwards, sys, file, req>>

Gets(fields) == has' = [has EXCEPT ![made] = @ \cup fields]

\* Fault of Rules: the http server is made with the other two.
RulesMakeManager ==
  /\ pc = "rules"
  /\ pc' = "server" /\ Gets({"servers", "manager"})
  /\ UNCHANGED <<bound, made, deferred, saved, wait, forwards, modes>>

\* gfwlist.txt, the skipped hosts, then the servers and the cache.
Rules ==
  /\ pc = "rules"
  /\ \/ pc' = "save" /\ has' = has
     \/ pc' = "server" /\ Gets({"servers"})
  /\ UNCHANGED <<bound, made, deferred, saved, wait, forwards, modes>>

\* A listen on a port that is bound fails; any other may: another program has
\* the port, the address is no address.  The auto proxy and the manager listen
\* only if the configuration has their address.
Listen(p, c) == bound[p] = Free /\ bound' = [bound EXCEPT ![p] = c]
NoListen == bound' = bound

ListenProxy ==
  /\ pc = "server"
  /\ \/ Listen("proxy", made) /\ pc' = "auto"
     \/ NoListen /\ pc' = "save"
  /\ UNCHANGED <<made, deferred, has, saved, wait, forwards, modes>>

ListenAuto ==
  /\ pc = "auto"
  /\ \/ Listen("auto", made) /\ pc' = "manager"
     \/ NoListen /\ pc' \in {"save", "manager"}
  /\ UNCHANGED <<made, deferred, has, saved, wait, forwards, modes>>

\* The field Manager is set before the listen, the field Listener after it.
ListenManager ==
  /\ pc = "manager"
  /\ \/ Listen("manager", made) /\ pc' = "mode" /\ Gets({"manager", "listener"})
     \/ NoListen /\ pc' = "save" /\ Gets({"manager"})
     \/ NoListen /\ pc' = "mode" /\ Gets({})
  /\ UNCHANGED <<made, deferred, saved, wait, forwards, modes>>

\* ChangeProxyMode, whose failure is ignored: without a Manager it fails.  Then
\* a goroutine per forward, and main calls WaitClient.
SetMode ==
  /\ pc = "mode"
  /\ pc' = "on"
  /\ wait' = "proxy"
  /\ \/ /\ "manager" \in has[made]
        /\ sys' = conf[made] /\ unsettled' = unsettled
     \/ sys' = sys /\ unsettled' = TRUE
  /\ fwd' = [fwd EXCEPT ![made] = [f \in Forward |-> "begun"]]
  /\ UNCHANGED <<bound, made, deferred, has, saved, forwardAll, conf, file, req>>

-----------------------------------------------------------------------------
(***************************************************************************)
(* startForward of client c for port f.                                    *)
(***************************************************************************)

GoForward(c, f, to) == fwd' = [fwd EXCEPT ![c][f] = to]

ForwardListen(c, f) ==
  /\ fwd[c][f] = "begun"
  /\ \/ Listen(f, c) /\ GoForward(c, f, "listening")
     \/ NoListen /\ GoForward(c, f, "done")
  /\ UNCHANGED <<made, pc, deferred, has, saved, wait, forwardAll, modes>>

ForwardRegister(c, f) ==
  /\ fwd[c][f] = "listening"
  /\ forwardAll' = [forwardAll EXCEPT ![c] = @ \cup {f}]
  /\ GoForward(c, f, "serving")
  /\ UNCHANGED <<life, modes>>

\* Accept returns an error once Stop has closed the listener, and the deferred
\* function runs.
ForwardEnds(c, f) ==
  /\ fwd[c][f] = "serving"
  /\ bound[f] # c
  /\ forwardAll' = [forwardAll EXCEPT ![c] = @ \ {f}]
  /\ GoForward(c, f, "done")
  /\ UNCHANGED <<life, modes>>

-----------------------------------------------------------------------------
(***************************************************************************)
(* Stop, and the end of the process.                                       *)
(***************************************************************************)

\* It may come after a Start that failed, which has left clientInstance set.
StopClient ==
  /\ pc \in {"on", "failed"}
  /\ pc' = "save"
  /\ deferred' = FALSE
  /\ UNCHANGED <<bound, made, has, saved, wait, forwards, modes>>

\* SaveCache, then Close of the core.Client, which Pool models: it returns, but
\* panics on a nil pointer.
Save ==
  /\ pc = "save"
  /\ saved' = IF "servers" \in has[made] THEN TRUE ELSE saved
  /\ pc' = IF "client" \in has[made] THEN "unmanage" ELSE "panic"
  /\ UNCHANGED <<bound, made, deferred, has, wait, forwards, modes>>

Shut(ps) ==
  bound' = [p \in Port |-> IF p \in ps /\ bound[p] = made THEN Free ELSE bound[p]]

\* With a Manager and no Listener the method of a nil interface is called.
Unmanage ==
  /\ pc = "unmanage"
  /\ IF "manager" \in has[made] /\ "listener" \notin has[made]
     THEN pc' = "panic" /\ bound' = bound
     ELSE pc' = "unserve" /\ Shut({"manager"})
  /\ UNCHANGED <<made, deferred, has, saved, wait, forwards, modes>>

Unserve ==
  /\ pc = "unserve"
  /\ Shut({"proxy"})
  /\ pc' = "unauto"
  /\ UNCHANGED <<made, deferred, has, saved, wait, forwards, modes>>

\* Fault of Unauto: the proxy server is closed once more.
UnautoOther ==
  /\ pc = "unauto"
  /\ Shut({"proxy"})
  /\ pc' = "unforward"
  /\ UNCHANGED <<made, deferred, has, saved, wait, forwards, modes>>

Unauto ==
  /\ pc = "unauto"
  /\ Shut({"auto"})
  /\ pc' = "unforward"
  /\ UNCHANGED <<made, deferred, has, saved, wait, forwards, modes>>

\* StopClient clears clientInstance, the deferred call does not.
Stopped == pc' = IF deferred THEN "failed" ELSE "off"

\* Fault of Unforward: the listeners are forgotten, not closed.
UnforwardForgets ==
  /\ pc = "unforward"
  /\ forwardAll' = [forwardAll EXCEPT ![made] = {}]
  /\ Stopped
  /\ UNCHANGED <<bound, made, deferred, has, saved, wait, fwd, modes>>

\* The forwards that have registered, under the lock.
Unforward ==
  /\ pc = "unforward"
  /\ Shut(forwardAll[made])
  /\ forwardAll' = [forwardAll EXCEPT ![made] = {}]
  /\ Stopped
  /\ UNCHANGED <<made, deferred, has, saved, wait, fwd, modes>>

StopSteps ==
  Save \/ Unmanage \/ Unserve \/ Unauto \/ Unforward

\* Fault of WaitClient: the auto proxy server is not waited for.
WaitClientOne ==
  /\ wait = "proxy" /\ bound["proxy"] # made
  /\ wait' = "returned"
  /\ UNCHANGED <<bound, made, pc, deferred, has, saved, forwards, modes>>

\* WaitClient: the proxy server, then the auto proxy server.
WaitClient ==
  /\ wait \in Ports
  /\ bound[wait] # made
  /\ wait' = IF wait = "proxy" THEN "auto" ELSE "returned"
  /\ UNCHANGED <<bound, made, pc, deferred, has, saved, forwards, modes>>

\* Main ends after a Start that failed and after WaitClient, and a panic or
\* a signal ends it at any time: its listeners and goroutines are gone.
Exit ==
  /\ made > 0
  /\ bound' = [p \in Port |-> Free]
  /\ pc' = "off"
  /\ deferred' = FALSE
  /\ has' = [c \in Client |-> {}]
  /\ wait' = "none"
  /\ fwd' = [c \in Client |-> [f \in Forward |-> "none"]]
  /\ forwardAll' = [c \in Client |-> {}]
  /\ conf' = [c \in Client |-> "none"]
  /\ req' = [h \in Handler |-> Idle]
  /\ saved' = FALSE
  /\ unsettled' = TRUE
  /\ UNCHANGED <<made, sys, file>>

-----------------------------------------------------------------------------
(***************************************************************************)
(* ChangeProxyModeH, on a connection to the manager of a client: one that  *)
(* was made before Stop is served after it, too.  There is no lock.        *)
(***************************************************************************)

Ends(h) == req' = [req EXCEPT ![h] = Idle]
Goes(h, to) == req' = [req EXCEPT ![h].at = to]

Request(h) ==
  /\ req[h] = Idle
  /\ \E c \in Client, m \in Mode :
       /\ "listener" \in has[c]
       /\ req' = [req EXCEPT ![h] = [at |-> "native", client |-> c, mode |-> m]]
       /\ unsettled' = (\/ unsettled \/ c # made \/ pc # "on"
                        \/ \E i \in Handler : req[i] # Idle)
  /\ UNCHANGED <<life, forwards, sys, conf, file>>

\* changeProxyModeNative runs a command of the system.
Native(h) ==
  /\ req[h].at = "native"
  /\ \/ sys' = req[h].mode /\ Goes(h, "conf") /\ unsettled' = unsettled
     \/ sys' = sys /\ Ends(h) /\ unsettled' = TRUE
  /\ UNCHANGED <<life, forwards, conf, file>>

\* Fault of SetConf: the mode goes to a copy.
SetConfCopy(h) ==
  /\ req[h].at = "conf"
  /\ Goes(h, "open")
  /\ UNCHANGED <<life, forwards, sys, conf, file, unsettled>>

SetConf(h) ==
  /\ req[h].at = "conf"
  /\ conf' = [conf EXCEPT ![req[h].client] = req[h].mode]
  /\ Goes(h, "open")
  /\ UNCHANGED <<life, forwards, sys, file, unsettled>>

\* WriteJSON: the configuration is turned into text, then the file opened,
\* which truncates it, or fails.
Open(h) ==
  /\ req[h].at = "open"
  /\ \/ /\ req' = [req EXCEPT ![h].at = "write", ![h].mode = conf[req[h].client]]
        /\ file' = "torn" /\ unsettled' = unsettled
     \/ Ends(h) /\ file' = file /\ unsettled' = TRUE
  /\ UNCHANGED <<life, forwards, sys, conf>>

\* The text over what the file has: the end of a longer one stays.
Over(old, new) ==
  IF old \in Mode \ Short /\ new \in Short THEN "torn" ELSE new

Write(h) ==
  /\ req[h].at = "write"
  /\ Ends(h)
  /\ \/ file' = Over(file, req[h].mode) /\ unsettled' = unsettled
     \/ file' = file /\ unsettled' = TRUE
  /\ UNCHANGED <<life, forwards, sys, conf>>

-----------------------------------------------------------------------------

StartSteps == Rules \/ ListenProxy \/ ListenAuto \/ ListenManager \/ SetMode
ForwardSteps(c, f) ==
  ForwardListen(c, f) \/ ForwardRegister(c, f) \/ ForwardEnds(c, f)
HandlerSteps(h) == Native(h) \/ SetConf(h) \/ Open(h) \/ Write(h)

Next ==
  \/ StartClient \/ StartSteps \/ StopClient \/ StopSteps \/ WaitClient \/ Exit
  \/ \E c \in Client, f \in Forward : ForwardSteps(c, f)
  \/ \E h \in Handler : Request(h) \/ HandlerSteps(h)

Spec == Init /\ [][Next]_vars

\* Goroutines run; who calls StartClient and StopClient is open.
FairSpec ==
  /\ Spec
  /\ WF_vars(StartSteps \/ StopSteps)
  /\ WF_vars(WaitClient)

-----------------------------------------------------------------------------
(***************************************************************************)
(* Properties.                                                             *)
(***************************************************************************)

IsStopped(c) == c < made \/ (c = made /\ pc \in {"off", "failed"})

\* "Stop will stop running client" (cs_client.go:477), and so does a Start
\* that has failed, as far as it is so: what still listens then is a forward
\* that registered, or is about to, after Stop had gone through ForwardAll
\* (493-498); and nobody will close it.
OnlyLateForwards ==
  \A c \in Client, p \in Port : IsStopped(c) /\ bound[p] = c =>
    p \in Forward /\ (fwd[c][p] = "listening" \/ p \in forwardAll[c])

\* Main ends when WaitClient returns (coversocks/cs_main.go:59), Stop running
\* or not: by then Stop has called SaveCache, whose error it ignores (481), and
\* closed the manager's listener.
WaitedSaved ==
  wait = "returned" => saved /\ \A p \in Ports : bound[p] # made

\* Stop panics in two cases only, and nobody waits for the client then: it is
\* called for a client that Start has given no core.Client, and which listens
\* nowhere (cs_client.go:386-390, 483), or Start calls it because the manager
\* could not listen, with the proxy open and the cache saved (446-450, 484).
PanicCauses ==
  pc = "panic" =>
    /\ wait = "none"
    /\ IF deferred
       THEN /\ has[made] = {"client", "servers", "manager"}
            /\ saved /\ bound["proxy"] = made
       ELSE has[made] = {} /\ \A p \in Port : bound[p] # made

\* The system, the client and its file have one mode, and the file is whole,
\* unless changeProxyMode requests overlapped, reached a client before the end
\* of Start or after Stop, or failed at a step (cs_client.go:262-279).
ModesAgree ==
  pc = "on" /\ ~unsettled => IF \A h \in Handler : req[h] = Idle
                THEN sys = file /\ conf[made] = file
                ELSE file = "torn" => \E h \in Handler : req[h].at = "write"

\* Liveness: when StopClient is called WaitClient returns, or the process ends.
WaitReturns == pc = "save" /\ wait \in Ports ~> wait \notin Ports
=============================================================================
