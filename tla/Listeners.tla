----------------------------- MODULE Listeners ------------------------------
(***************************************************************************)
(* The front end of the server, cs_server.go: one runServer goroutine per  *)
(* listen address, the map servers that Stop and ProcRestart look them up  *)
(* in, and the wait group that WaitServer, and with it main, waits for.    *)
(*                                                                         *)
(* A runner is a call of runServer, in order of its go statement; it has   *)
(* one http.Server.  A restart closes the http.Server of an old runner and *)
(* starts a new runner for the same address 100 ms later: a pause, not a   *)
(* wait for the old one to end.                                            *)
(***************************************************************************)
EXTENDS Integers, FiniteSets

CONSTANTS
  Addrs,  \* the number of addresses to listen on
  MaxRun  \* bound: calls of runServer

ASSUME ListenersAssumption ==
  /\ Addrs \in Nat \ {0}
  /\ MaxRun \in Nat
  /\ Addrs <= MaxRun

Addr == 1 .. Addrs
Runner == 1 .. MaxRun

VARIABLES
  servers,   \* Server.servers: the runner listed for each address, or 0
  made,      \* runners so far
  addr,      \* the address of each runner
  run,       \* where each runner is
  shut,      \* http.Server.Close has been called on it
  lost,      \* history: addresses whose runner failed to listen or to accept
  waiter,    \* the counter of Server.waiter
  restart,   \* ProcRestart: "idle", "picked" or "sleeping"
  old,       \* the runner it restarts, or 0
  stop,      \* Stop: "no", or "clean" or "dirty" once it has been called
  wait       \* Wait: "waiting" or "returned"

vars == <<servers, made, addr, run, shut, lost, waiter, restart, old, stop,
          wait>>

RunPC == {"none", "begun", "listed", "bound", "serving", "ended", "unlisted",
          "done"}

TypeOK ==
  /\ servers \in [Addr -> 0 .. MaxRun]
  /\ made \in Addrs .. MaxRun
  /\ addr \in [Runner -> Addr]
  /\ run \in [Runner -> RunPC]
  /\ shut \in [Runner -> BOOLEAN]
  /\ lost \in SUBSET Addr
  /\ waiter \in 0 .. MaxRun
  /\ restart \in {"idle", "picked", "sleeping"}
  /\ old \in 0 .. MaxRun
  /\ old = 0 <=> restart = "idle"
  /\ stop \in {"no", "clean", "dirty"}
  /\ wait \in {"waiting", "returned"}

\* Start has returned: a runner for every address.
Init ==
  /\ servers = [a \in Addr |-> 0]
  /\ made = Addrs
  /\ addr = [i \in Runner |-> IF i \in Addr THEN i ELSE 1]
  /\ run = [i \in Runner |-> IF i \in Addr THEN "begun" ELSE "none"]
  /\ shut = [i \in Runner |-> FALSE]
  /\ lost = {}
  /\ waiter = Addrs
  /\ restart = "idle"
  /\ old = 0
  /\ stop = "no"
  /\ wait = "waiting"

\* The runners that serve an address, and those that hold its port: Close
\* closes the socket of a runner that serves, not of one that is still between
\* net.Listen and Serve.
Bound(a) == {i \in Runner : addr[i] = a /\ run[i] = "serving" /\ ~shut[i]}
Holders(a) == Bound(a) \cup {i \in Runner : addr[i] = a /\ run[i] = "bound"}

-----------------------------------------------------------------------------
(***************************************************************************)
(* runServer.                                                              *)
(***************************************************************************)

Goto(i, to) == run' = [run EXCEPT ![i] = to]

Register(i) ==
  /\ run[i] = "begun"
  /\ servers' = [servers EXCEPT ![addr[i]] = i]
  /\ Goto(i, "listed")
  /\ UNCHANGED <<made, addr, shut, lost, waiter, restart, old, stop, wait>>

\* net.Listen ...
Listen(i) ==
  /\ run[i] = "listed"
  /\ Holders(addr[i]) = {}
  /\ Goto(i, "bound")
  /\ UNCHANGED <<servers, made, addr, shut, lost, waiter, restart, old, stop,
                 wait>>

\* ... fails while another runner holds the port, and may always fail for a
\* reason outside the program.  Nobody tries again: unless the runner was to
\* end, or another that is not closed is why it failed, its address is lost.
ListenFails(i) ==
  /\ run[i] = "listed"
  /\ lost' = IF shut[i] \/ \E j \in Holders(addr[i]) : ~shut[j]
             THEN lost ELSE lost \cup {addr[i]}
  /\ Goto(i, "ended")
  /\ UNCHANGED <<servers, made, addr, shut, waiter, restart, old, stop, wait>>

\* Serve returns at once on an http.Server that is closed ...
Serve(i) ==
  /\ run[i] = "bound"
  /\ Goto(i, IF shut[i] THEN "ended" ELSE "serving")
  /\ UNCHANGED <<servers, made, addr, shut, lost, waiter, restart, old, stop,
                 wait>>

\* ... and returns when it is closed, or by itself when Accept fails.
ServeEnds(i) ==
  /\ run[i] = "serving"
  /\ shut[i]
  /\ Goto(i, "ended")
  /\ UNCHANGED <<servers, made, addr, shut, lost, waiter, restart, old, stop,
                 wait>>

AcceptFails(i) ==
  /\ run[i] = "serving"
  /\ ~shut[i]
  /\ lost' = lost \cup {addr[i]}
  /\ Goto(i, "ended")
  /\ UNCHANGED <<servers, made, addr, shut, waiter, restart, old, stop, wait>>

\* Fault of Unlist: all entries are deleted.
UnlistAll(i) ==
  /\ run[i] = "ended"
  /\ servers' = [a \in Addr |-> 0]
  /\ Goto(i, "unlisted")
  /\ UNCHANGED <<made, addr, shut, lost, waiter, restart, old, stop, wait>>

\* The entry of its address is deleted, whichever runner it lists by now.
Unlist(i) ==
  /\ run[i] = "ended"
  /\ servers' = [servers EXCEPT ![addr[i]] = 0]
  /\ Goto(i, "unlisted")
  /\ UNCHANGED <<made, addr, shut, lost, waiter, restart, old, stop, wait>>

Done(i) ==
  /\ run[i] = "unlisted"
  /\ waiter' = waiter - 1
  /\ Goto(i, "done")
  /\ UNCHANGED <<servers, made, addr, shut, lost, restart, old, stop, wait>>

-----------------------------------------------------------------------------
(***************************************************************************)
(* ProcRestart.                                                            *)
(***************************************************************************)

\* Any listed runner that has run for longer than HTTPSGen.
Pick ==
  /\ restart = "idle"
  /\ made < MaxRun
  /\ \E a \in Addr : servers[a] # 0 /\ old' = servers[a]
  /\ restart' = "picked"
  /\ UNCHANGED <<servers, made, addr, run, shut, lost, waiter, stop, wait>>

\* A certificate has been generated meanwhile.
CloseOld ==
  /\ restart = "picked"
  /\ shut' = [shut EXCEPT ![old] = TRUE]
  /\ restart' = "sleeping"
  /\ UNCHANGED <<servers, made, addr, run, lost, waiter, old, stop, wait>>

\* It serves with the certificate, TLS also where the old one was plain http.
NewRunner(a) ==
  /\ made' = made + 1
  /\ addr' = [addr EXCEPT ![made + 1] = a]
  /\ run' = [run EXCEPT ![made + 1] = "begun"]
  /\ restart' = "idle"
  /\ old' = 0

\* Faults of RunNew: the wait group does not count the new runner, and the
\* new runner starts before the old one is closed.
RunNewUncounted ==
  /\ restart = "sleeping"
  /\ NewRunner(addr[old])
  /\ UNCHANGED <<servers, shut, lost, waiter, stop, wait>>

RunNewFirst ==
  /\ restart = "picked"
  /\ made < MaxRun
  /\ waiter' = waiter + 1
  /\ made' = made + 1
  /\ addr' = [addr EXCEPT ![made + 1] = addr[old]]
  /\ run' = [run EXCEPT ![made + 1] = "begun"]
  /\ UNCHANGED <<servers, shut, lost, restart, old, stop, wait>>

RunNew ==
  /\ restart = "sleeping"
  /\ waiter' = waiter + 1
  /\ NewRunner(addr[old])
  /\ UNCHANGED <<servers, shut, lost, stop, wait>>

-----------------------------------------------------------------------------
(***************************************************************************)
(* Stop and Wait.                                                          *)
(***************************************************************************)

Live(i) == run[i] \notin {"none", "done"}
Ending(i) == run[i] \in {"ended", "unlisted"}

\* Every runner can be found in servers, and no restart is under way.
Settled ==
  /\ restart = "idle"
  /\ \A i \in Runner : Live(i) => servers[addr[i]] = i \/ Ending(i) \/ shut[i]

\* Fault of Stop: the runners are forgotten, not closed.
StopForgets ==
  /\ stop = "no"
  /\ stop' = IF Settled THEN "clean" ELSE "dirty"
  /\ servers' = [a \in Addr |-> 0]
  /\ UNCHANGED <<made, addr, run, shut, lost, waiter, restart, old, wait>>

\* stop records whether Stop found every runner.
Stop ==
  /\ stop = "no"
  /\ stop' = IF Settled THEN "clean" ELSE "dirty"
  /\ shut' = [i \in Runner |-> shut[i] \/ \E a \in Addr : servers[a] = i]
  /\ servers' = [a \in Addr |-> 0]
  /\ UNCHANGED <<made, addr, run, lost, waiter, restart, old, wait>>

WaitReturns ==
  /\ wait = "waiting"
  /\ waiter = 0
  /\ wait' = "returned"
  /\ UNCHANGED <<servers, made, addr, run, shut, lost, waiter, restart, old,
                 stop>>

-----------------------------------------------------------------------------

RunServer(i) ==
  \/ Register(i) \/ Listen(i) \/ ListenFails(i) \/ Serve(i) \/ ServeEnds(i)
  \/ Unlist(i) \/ Done(i)

ProcRestart == Pick \/ CloseOld \/ RunNew

Next ==
  \/ \E i \in Runner : RunServer(i) \/ AcceptFails(i)
  \/ ProcRestart
  \/ Stop
  \/ WaitReturns

Spec == Init /\ [][Next]_vars

\* The goroutines run; who calls ProcRestart and Stop, and when, is open, and
\* so is whether an Accept ever fails.
FairSpec ==
  /\ Spec
  /\ \A i \in Runner : WF_vars(RunServer(i))
  /\ WF_vars(CloseOld \/ RunNew)
  /\ WF_vars(WaitReturns)

-----------------------------------------------------------------------------
(***************************************************************************)
(* Properties.                                                             *)
(***************************************************************************)

\* A runner that serves and that Stop will not find (cs_server.go:248) was
\* restarted, its entry gone with that of another runner of its address (168),
\* or it registered after Stop had been called.
UnlistedByRestart ==
  \A i \in Runner : run[i] = "serving" /\ ~shut[i] /\ servers[addr[i]] # i =>
    \/ stop # "no"
    \/ \E j \in Runner \ {i} : /\ addr[j] = addr[i]
                              /\ run[j] \notin {"none", "begun"}

\* "Wait will wait all runner is stopped" (cs_server.go:239), as far as it is
\* so: when Wait returns every runner is done, but a restart may be between
\* closing the old runner and starting the new one.
WaitsForAll ==
  [][wait' # wait => \A i \in Runner : ~Live(i)]_vars

\* Liveness: as long as nobody calls Stop, every address is served again after
\* every restart, unless the listening or an Accept of its last runner failed,
\* after which nobody serves it any more: there is no retry in the code
\* (cs_server.go:158-172).  A restart alone loses an address only when it
\* closes a runner that has not come from net.Listen to Serve yet.
Served == \A a \in Addr : []<>(Bound(a) # {} \/ stop # "no" \/ a \in lost)

\* Liveness: a Stop that finds every runner ends the server: Wait returns.
StopEnds == stop = "clean" ~> wait = "returned"
=============================================================================
