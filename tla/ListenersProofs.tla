-------------------------- MODULE ListenersProofs ---------------------------
(***************************************************************************)
(* Proofs about Listeners.tla, for any number of addresses and of          *)
(* restarts: the type invariant, what a runner that Stop cannot find has   *)
(* met, that Wait returns when every runner is done, that an address is    *)
(* left without a runner only when one failed to listen or to accept,      *)
(* and that a Stop that finds every runner closes them all.                *)
(***************************************************************************)
EXTENDS Listeners, FiniteSetTheorems, TLAPS

LiveRunners == {i \in Runner : Live(i)}

\* Runners are made in order, and a restart has a next one to make.
InOrder ==
  /\ \A i \in Runner : run[i] = "none" <=> i > made
  /\ restart # "idle" => made < MaxRun

\* The wait group counts the live runners.
Counted == waiter = Cardinality(LiveRunners)

Registered(i) == run[i] \notin {"none", "begun"}

Reached == {"listed", "bound", "serving"}

\* UnlistedByRestart, from the registration of a runner on: the listener may
\* already be displaced when it begins to serve.
Displaced ==
  \A i \in Runner :
    run[i] \in Reached /\ servers[addr[i]] # i =>
      \/ stop # "no"
      \/ \E j \in Runner \ {i} : addr[j] = addr[i] /\ Registered(j)

IInv == TypeOK /\ InOrder /\ Counted /\ Displaced

\* Any set of runners is finite, with at most MaxRun members.
LEMMA RunnersBound ==
  ASSUME NEW S \in SUBSET Runner
  PROVE  IsFiniteSet(S) /\ Cardinality(S) \in 0 .. MaxRun
<1> USE ListenersAssumption
<1>1. IsFiniteSet(Runner) /\ Cardinality(Runner) = MaxRun
  <2>1. 1 \in Int /\ MaxRun \in Int OBVIOUS
  <2>2. /\ IsFiniteSet(1 .. MaxRun)
        /\ Cardinality(1 .. MaxRun) = IF 1 > MaxRun THEN 0
                                      ELSE MaxRun - 1 + 1
    BY <2>1, FS_Interval
  <2> QED BY <2>2 DEF Runner
<1>2. IsFiniteSet(S) /\ Cardinality(S) <= MaxRun BY <1>1, FS_Subset
<1>3. Cardinality(S) \in Nat BY <1>2, FS_CardinalityType
<1> QED BY <1>2, <1>3

\* Start has begun one runner for each address (cs_server.go:206-237).
LEMMA InitIInv == Init => IInv
<1> SUFFICES ASSUME Init PROVE IInv OBVIOUS
<1> USE ListenersAssumption DEF Init
<1>1. TypeOK BY DEF TypeOK, Addr, Runner, RunPC
<1>2. InOrder BY DEF InOrder, Addr, Runner
<1>3. Counted
  <2>1. LiveRunners = 1 .. Addrs
    BY DEF LiveRunners, Live, Addr, Runner
  <2>2. 1 \in Int /\ Addrs \in Int OBVIOUS
  <2>3. Cardinality(1 .. Addrs) = IF 1 > Addrs THEN 0 ELSE Addrs - 1 + 1
    BY <2>2, FS_Interval
  <2> QED BY <2>1, <2>3 DEF Counted
<1>4. Displaced BY DEF Displaced, Reached
<1> QED BY <1>1, <1>2, <1>3, <1>4 DEF IInv

\* A step that leaves the same runners alive keeps their count.
LEMMA SameLive ==
  ASSUME Counted, waiter' = waiter,
         \A i \in Runner : Live(i)' <=> Live(i)
  PROVE  Counted'
<1>1. LiveRunners' = LiveRunners BY DEF LiveRunners
<1> QED BY <1>1 DEF Counted

\* A runner registers, listens and serves, or fails to (cs_server.go:149-166).
LEMMA RunIInv ==
  ASSUME IInv, NEW i \in Runner,
         \/ Register(i) \/ Listen(i) \/ ListenFails(i)
         \/ Serve(i) \/ ServeEnds(i) \/ AcceptFails(i)
  PROVE  IInv'
<1> USE ListenersAssumption
    DEF IInv, Register, Listen, ListenFails, Serve, ServeEnds, AcceptFails,
        Goto, Reached
<1>1. TypeOK'
  <2>1. servers' \in [Addr -> 0 .. MaxRun]
    <3>1. i \in 0 .. MaxRun BY DEF Runner
    <3>2. servers \in [Addr -> 0 .. MaxRun] BY DEF TypeOK
    <3>3. CASE Register(i)
      <4>1. servers' = [servers EXCEPT ![addr[i]] = i] BY <3>3
      <4> QED BY <3>1, <3>2, <4>1
    <3>4. CASE ~Register(i)
      <4>1. servers' = servers BY <3>4
      <4> QED BY <3>2, <4>1
    <3> QED BY <3>3, <3>4
  <2>2. run' \in [Runner -> RunPC] BY DEF TypeOK, RunPC
  <2>3. lost' \in SUBSET Addr BY DEF TypeOK
  <2> QED BY <2>1, <2>2, <2>3 DEF TypeOK
<1>2. InOrder' BY DEF InOrder, TypeOK, RunPC
<1>3. Counted'
  <2>1. \A j \in Runner : Live(j)' <=> Live(j) BY DEF Live, TypeOK
  <2> QED BY <2>1, SameLive
<1>4. Displaced'
  <2>1. \A j \in Runner : Registered(j) => Registered(j)'
    BY DEF Registered, TypeOK
  <2> SUFFICES ASSUME NEW k \in Runner,
                      run'[k] \in Reached,
                      servers'[addr'[k]] # k, stop' = "no"
               PROVE  \E j \in Runner \ {k} :
                        addr'[j] = addr'[k] /\ Registered(j)'
    BY DEF Displaced
  <2>2. CASE servers[addr[k]] # k /\ run[k] \in Reached
    BY <2>1, <2>2 DEF Displaced
  <2>3. CASE servers[addr[k]] # k /\ run[k] \notin Reached
    <3>1. Register(i) /\ k = i BY <2>3 DEF TypeOK
    <3>2. servers'[addr'[k]] = k BY <3>1 DEF TypeOK
    <3> QED BY <3>2
  <2>4. CASE servers[addr[k]] = k
    <3>1. Register(i) /\ k # i /\ addr[i] = addr[k] BY <2>4 DEF TypeOK
    <3>2. Registered(i)' BY <3>1 DEF Registered, TypeOK
    <3> QED BY <3>1, <3>2
  <2> QED BY <2>2, <2>3, <2>4
<1> QED BY <1>1, <1>2, <1>3, <1>4

\* A runner leaves the map, and then the wait group (cs_server.go:167-171).
LEMMA UnlistIInv ==
  ASSUME IInv, NEW i \in Runner, Unlist(i)
  PROVE  IInv'
<1> USE ListenersAssumption DEF IInv, Unlist, Goto, Reached
<1>1. TypeOK'
  <2>1. servers' \in [Addr -> 0 .. MaxRun] BY DEF TypeOK, Runner
  <2>2. run' \in [Runner -> RunPC] BY DEF TypeOK, RunPC
  <2> QED BY <2>1, <2>2 DEF TypeOK
<1>2. InOrder' BY DEF InOrder, TypeOK, RunPC
<1>3. Counted'
  <2>1. \A j \in Runner : Live(j)' <=> Live(j) BY DEF Live, TypeOK
  <2> QED BY <2>1, SameLive
<1>4. Displaced'
  <2>1. \A j \in Runner : Registered(j) => Registered(j)'
    BY DEF Registered, TypeOK
  <2> SUFFICES ASSUME NEW k \in Runner,
                      run'[k] \in Reached,
                      servers'[addr'[k]] # k, stop' = "no"
               PROVE  \E j \in Runner \ {k} :
                        addr'[j] = addr'[k] /\ Registered(j)'
    BY DEF Displaced
  <2>2. k # i /\ run[k] \in Reached BY DEF TypeOK
  <2>3. CASE servers[addr[k]] # k BY <2>1, <2>2, <2>3 DEF Displaced
  <2>4. CASE servers[addr[k]] = k
    <3>1. addr[i] = addr[k] BY <2>4 DEF TypeOK
    <3>2. Registered(i)' BY DEF Registered, TypeOK
    <3> QED BY <2>2, <3>1, <3>2
  <2> QED BY <2>3, <2>4
<1> QED BY <1>1, <1>2, <1>3, <1>4

LEMMA DoneIInv ==
  ASSUME IInv, NEW i \in Runner, Done(i)
  PROVE  IInv'
<1> USE ListenersAssumption DEF IInv, Done, Goto, Reached
<1>1. run' \in [Runner -> RunPC] BY DEF TypeOK, RunPC
<1>2. Counted' /\ waiter' \in 0 .. MaxRun
  <2>1. LiveRunners' = LiveRunners \ {i} /\ i \in LiveRunners
    BY DEF LiveRunners, Live, TypeOK
  <2>2. /\ LiveRunners \in SUBSET Runner
        /\ LiveRunners' \in SUBSET Runner
    BY DEF LiveRunners
  <2>3. IsFiniteSet(LiveRunners) BY <2>2, RunnersBound
  <2>4. Cardinality(LiveRunners') = Cardinality(LiveRunners) - 1
    BY <2>1, <2>3, FS_RemoveElement
  <2>5. Cardinality(LiveRunners') \in 0 .. MaxRun BY <2>2, RunnersBound
  <2> QED BY <2>4, <2>5 DEF Counted
<1>3. TypeOK' BY <1>1, <1>2 DEF TypeOK
<1>4. InOrder' BY DEF InOrder, TypeOK, RunPC
<1>5. Displaced' BY DEF Displaced, Registered, TypeOK
<1> QED BY <1>2, <1>3, <1>4, <1>5

\* A restart picks a listed runner and closes it (cs_server.go:174-198).
LEMMA CloseOldIInv ==
  ASSUME IInv, Pick \/ CloseOld
  PROVE  IInv'
<1> USE ListenersAssumption DEF IInv, Pick, CloseOld
<1>1. TypeOK' BY DEF TypeOK
<1>2. InOrder' BY DEF InOrder, TypeOK
<1>3. Counted'
  <2>1. \A j \in Runner : Live(j)' <=> Live(j) BY DEF Live
  <2> QED BY <2>1, SameLive
<1>4. Displaced' BY DEF Displaced, Registered, Reached
<1> QED BY <1>1, <1>2, <1>3, <1>4

\* It begins and counts a new one for the same address (cs_server.go:199-200).
LEMMA RunNewIInv ==
  ASSUME IInv, RunNew
  PROVE  IInv'
<1> USE ListenersAssumption DEF IInv, RunNew, NewRunner, Reached
<1> DEFINE new == made + 1
<1>1. /\ made \in Addrs .. MaxRun /\ made < MaxRun
      /\ new \in Runner /\ run[new] = "none" /\ old \in Runner
  <2>1. made \in Addrs .. MaxRun /\ made < MaxRun BY DEF TypeOK, InOrder
  <2>2. new \in Runner BY <2>1 DEF Runner
  <2>3. run[new] = "none" BY <2>1, <2>2 DEF InOrder
  <2>4. old \in Runner BY DEF TypeOK, Runner
  <2> QED BY <2>1, <2>2, <2>3, <2>4
<1>2. /\ run' = [run EXCEPT ![new] = "begun"]
      /\ addr' = [addr EXCEPT ![new] = addr[old]]
      /\ made' = new
  OBVIOUS
<1>3. /\ run' \in [Runner -> RunPC]
      /\ addr' \in [Runner -> Addr]
      /\ made' \in Addrs .. MaxRun
  BY <1>1, <1>2 DEF TypeOK, RunPC
<1>4. Counted' /\ waiter' \in 0 .. MaxRun
  <2>1. LiveRunners' = LiveRunners \cup {new} /\ new \notin LiveRunners
    BY <1>1, <1>2 DEF LiveRunners, Live, TypeOK
  <2>2. /\ LiveRunners \in SUBSET Runner
        /\ LiveRunners' \in SUBSET Runner
    BY DEF LiveRunners
  <2>3. IsFiniteSet(LiveRunners) BY <2>2, RunnersBound
  <2>4. Cardinality(LiveRunners') = Cardinality(LiveRunners) + 1
    BY <2>1, <2>3, FS_AddElement
  <2>5. Cardinality(LiveRunners') \in 0 .. MaxRun BY <2>2, RunnersBound
  <2> QED BY <2>4, <2>5 DEF Counted
<1>5. TypeOK' BY <1>3, <1>4 DEF TypeOK
<1>6. InOrder' BY <1>1, <1>2 DEF InOrder, TypeOK, Runner
<1>7. Displaced'
  <2>1. \A j \in Runner : j # new => addr'[j] = addr[j] /\ run'[j] = run[j]
    BY <1>1, <1>2 DEF TypeOK
  <2>2. run'[new] = "begun" BY <1>1, <1>2 DEF TypeOK
  <2> SUFFICES ASSUME NEW k \in Runner,
                      run'[k] \in Reached,
                      servers'[addr'[k]] # k, stop' = "no"
               PROVE  \E j \in Runner \ {k} :
                        addr'[j] = addr'[k] /\ Registered(j)'
    BY DEF Displaced
  <2>3. k # new BY <2>2
  <2>4. PICK j \in Runner \ {k} : addr[j] = addr[k] /\ Registered(j)
    BY <2>1, <2>3 DEF Displaced
  <2>5. j # new BY <1>1, <2>4 DEF Registered
  <2> QED BY <2>1, <2>3, <2>4, <2>5 DEF Registered
<1> QED BY <1>4, <1>5, <1>6, <1>7

\* Stop closes what it finds, and Wait returns (cs_server.go:239-253).
LEMMA StopIInv ==
  ASSUME IInv, Stop \/ WaitReturns
  PROVE  IInv'
<1> USE ListenersAssumption DEF IInv, Stop, WaitReturns
<1>1. TypeOK'
  <2>1. CASE Stop
    <3>1. /\ servers' = [b \in Addr |-> 0]
          /\ shut' = [i \in Runner |-> shut'[i]]
          /\ \A i \in Runner : shut'[i] \in BOOLEAN
      BY <2>1 DEF TypeOK
    <3>2. servers' \in [Addr -> 0 .. MaxRun] BY <3>1
    <3>3. shut' \in [Runner -> BOOLEAN] BY <3>1, Zenon
    <3>4. stop' \in {"no", "clean", "dirty"} BY <2>1
    <3> QED BY <2>1, <3>2, <3>3, <3>4 DEF TypeOK
  <2>2. CASE WaitReturns BY <2>2 DEF TypeOK
  <2> QED BY <2>1, <2>2
<1>2. InOrder' BY DEF InOrder
<1>3. Counted'
  <2>1. \A j \in Runner : Live(j)' <=> Live(j) BY DEF Live
  <2> QED BY <2>1, SameLive
<1>4. Displaced' BY DEF Displaced, Registered, Reached
<1> QED BY <1>1, <1>2, <1>3, <1>4

\* Every step keeps the invariant.
LEMMA NextIInv == IInv /\ [Next]_vars => IInv'
<1> SUFFICES ASSUME IInv, [Next]_vars PROVE IInv' OBVIOUS
<1>1. ASSUME NEW i \in Runner, RunServer(i) \/ AcceptFails(i)
      PROVE  IInv'
  BY <1>1, RunIInv, UnlistIInv, DoneIInv DEF RunServer
<1>2. CASE ProcRestart BY <1>2, CloseOldIInv, RunNewIInv DEF ProcRestart
<1>3. CASE Stop \/ WaitReturns BY <1>3, StopIInv
<1>4. CASE UNCHANGED vars
  BY <1>4 DEF vars, IInv, TypeOK, InOrder, Counted, LiveRunners, Live,
     Displaced, Registered, Reached
<1> QED BY <1>1, <1>2, <1>3, <1>4 DEF Next

\* The invariant holds in every behaviour of the server's listeners.
LEMMA SpecIInv == Spec => []IInv
BY InitIInv, NextIInv, PTL DEF Spec

\* The fields of Server and its goroutines keep their types: among them, the
\* wait group's counter never goes below zero, where Go panics.
THEOREM TypeCorrect == Spec => []TypeOK
BY SpecIInv, PTL DEF IInv

\* A runner that serves and is not in the map servers, where Stop would find
\* it (cs_server.go:248), shares its address with another that has registered.
THEOREM UnlistedOnlyByRestart == Spec => []UnlistedByRestart
<1>1. IInv => UnlistedByRestart
  BY DEF IInv, Displaced, Registered, Reached, UnlistedByRestart
<1> QED BY <1>1, SpecIInv, PTL

\* Wait returns only when every runner that was begun is done
\* (cs_server.go:239): the wait group counts them one by one.
THEOREM WaitForRunners == Spec => WaitsForAll
<1>1. IInv /\ [Next]_vars => [wait' # wait => \A i \in Runner : ~Live(i)]_vars
  <2> SUFFICES ASSUME IInv, [Next]_vars, wait' # wait
               PROVE  \A i \in Runner : ~Live(i)
    OBVIOUS
  <2>1. WaitReturns
    BY DEF Next, RunServer, ProcRestart, Register, Listen, ListenFails, Serve,
       ServeEnds, AcceptFails, Unlist, Done, Pick, CloseOld, RunNew, Stop, vars
  <2>2. Cardinality(LiveRunners) = 0
    BY <2>1 DEF IInv, Counted, WaitReturns
  <2>3. LiveRunners \in SUBSET Runner BY DEF LiveRunners
  <2>4. LiveRunners = {} BY <2>2, <2>3, RunnersBound, FS_EmptySet
  <2> QED BY <2>4 DEF LiveRunners
<1> QED BY <1>1, SpecIInv, PTL DEF Spec, WaitsForAll

-----------------------------------------------------------------------------
(***************************************************************************)
(* What Served and StopEnds of Listeners.tla come down to once their       *)
(* fairness is left aside: an address that is not served has somebody      *)
(* about to serve it, unless its listening failed, and a Stop that finds   *)
(* every runner has closed all.                                            *)
(***************************************************************************)

\* What servers or ProcRestart can name has registered, so nobody closes a
\* runner before that.
Fresh ==
  /\ \A a \in Addr : servers[a] # 0 => Registered(servers[a])
  /\ old # 0 => Registered(old)
  /\ \A i \in Runner : ~Registered(i) => ~shut[i]

\* A runner that nobody has closed serves an address or is on its way to, or
\* ProcRestart is about to begin one.
Offered(a) ==
  \/ \E i \in Runner : /\ addr[i] = a /\ ~shut[i]
                       /\ run[i] = "begun" \/ run[i] \in Reached
  \/ restart = "sleeping" /\ addr[old] = a

\* As long as nobody calls Stop, only a failure to listen or to accept leaves
\* an address behind.
AllOffered == stop = "no" => \A a \in Addr : a \in lost \/ Offered(a)

\* Stop, when it has found every runner: what still runs is closed or at its
\* end, and no runner is or will be begun.
AllClosed ==
  stop = "clean" =>
    /\ restart = "idle"
    /\ \A a \in Addr : servers[a] = 0
    /\ \A i \in Runner : Live(i) => Ending(i) \/ shut[i]

LEMMA RunFresh ==
  ASSUME IInv, Fresh, NEW i \in Runner, RunServer(i) \/ AcceptFails(i)
  PROVE  Fresh'
<1> USE DEF IInv, Fresh, Goto
<1>1. CASE Register(i)
  <2>1. \A j \in 0 .. MaxRun : Registered(j)' <=> j = i \/ Registered(j)
    BY <1>1 DEF Register, Registered, TypeOK, Runner
  <2>2. \A a \in Addr : servers'[a] = servers[a] \/ servers'[a] = i
    BY <1>1 DEF Register, TypeOK
  <2>3. i \in 0 .. MaxRun /\ \A a \in Addr : servers[a] \in 0 .. MaxRun
    BY ListenersAssumption DEF Runner, TypeOK
  <2>4. old' = old /\ shut' = shut /\ old \in 0 .. MaxRun
    BY <1>1 DEF Register, TypeOK
  <2>5. \A j \in Runner : j \in 0 .. MaxRun
    BY ListenersAssumption DEF Runner
  <2> QED BY <2>1, <2>2, <2>3, <2>4, <2>5
<1>2. CASE \/ Listen(i) \/ ListenFails(i) \/ Serve(i)
           \/ ServeEnds(i) \/ AcceptFails(i) \/ Unlist(i) \/ Done(i)
  <2> USE DEF Listen, ListenFails, Serve, ServeEnds, AcceptFails, Unlist, Done
  <2>1. \A j : j \in Runner => (Registered(j)' <=> Registered(j))
    BY <1>2 DEF Registered, TypeOK
  <2>2. \A a \in Addr : servers'[a] = servers[a] \/ servers'[a] = 0
    BY <1>2 DEF TypeOK
  <2>3. old' = old /\ shut' = shut BY <1>2
  <2>4. /\ \A a \in Addr : servers[a] # 0 => servers[a] \in Runner
        /\ old # 0 => old \in Runner
    BY ListenersAssumption DEF TypeOK, Runner
  <2> QED BY <2>1, <2>2, <2>3, <2>4
<1> QED BY <1>1, <1>2 DEF RunServer

LEMMA NextFresh ==
  ASSUME IInv, Fresh, [Next]_vars
  PROVE  Fresh'
<1> USE ListenersAssumption DEF IInv, Fresh
<1>1. ASSUME NEW i \in Runner, RunServer(i) \/ AcceptFails(i)
      PROVE  Fresh'
  BY <1>1, RunFresh
<1>2. CASE Pick BY <1>2 DEF Pick, Registered
<1>3. CASE CloseOld BY <1>3 DEF CloseOld, Registered, TypeOK
<1>4. CASE RunNew
  <2>1. made \in Addrs .. MaxRun /\ made < MaxRun
    BY <1>4 DEF RunNew, TypeOK, InOrder
  <2>2. made + 1 \in Runner BY <2>1 DEF Runner
  <2>3. run[made + 1] = "none" BY <2>1, <2>2 DEF InOrder
  <2>4. \A i \in Runner : Registered(i)' <=> Registered(i)
    BY <1>4, <2>2, <2>3 DEF RunNew, NewRunner, Registered, TypeOK
  <2>5. servers' = servers /\ shut' = shut /\ old' = 0
    BY <1>4 DEF RunNew, NewRunner
  <2>6. \A a \in Addr : servers[a] # 0 => servers[a] \in Runner
    BY DEF TypeOK, Runner
  <2> QED BY <2>4, <2>5, <2>6
<1>5. CASE Stop
  <2>1. \A a \in Addr : servers'[a] = 0 BY <1>5 DEF Stop
  <2>2. run' = run /\ old' = old BY <1>5 DEF Stop
  <2>3. ASSUME NEW i \in Runner, ~Registered(i) PROVE ~shut'[i]
    <3>1. ~shut[i] BY <2>3
    <3>2. \A a \in Addr : servers[a] # i BY <2>3 DEF Runner
    <3> QED BY <1>5, <3>1, <3>2 DEF Stop
  <2> QED BY <2>1, <2>2, <2>3 DEF Registered
<1>6. CASE WaitReturns \/ UNCHANGED vars
  BY <1>6 DEF WaitReturns, vars, Registered
<1> QED BY <1>1, <1>2, <1>3, <1>4, <1>5, <1>6 DEF Next, ProcRestart

\* A runner that stays behind where it was to serve was closed, found the port
\* with a runner that nobody has closed, or failed.
LEMMA RunOffered ==
  ASSUME IInv, NEW i \in Runner, RunServer(i) \/ AcceptFails(i),
         NEW a \in Addr, a \in lost \/ Offered(a)
  PROVE  a \in lost' \/ Offered(a)'
<1> USE DEF IInv, Offered, Goto, TypeOK, Register, Listen, ListenFails, Serve,
        ServeEnds, AcceptFails, Unlist, Done
<1>1. /\ addr' = addr /\ shut' = shut /\ restart' = restart /\ old' = old
      /\ lost \in SUBSET lost'
      /\ \A j \in Runner \ {i} : run'[j] = run[j]
  BY DEF RunServer
<1>2. CASE a \in lost BY <1>1, <1>2
<1>3. CASE restart = "sleeping" /\ addr[old] = a BY <1>1, <1>3
<1>4. ASSUME NEW j \in Runner, addr[j] = a, ~shut[j],
             run[j] = "begun" \/ run[j] \in Reached
      PROVE  a \in lost' \/ Offered(a)'
  <2>1. CASE j # i BY <1>1, <1>4, <2>1
  <2>2. CASE j = i /\ (Register(i) \/ Listen(i) \/ Serve(i))
    <3>1. run'[j] \in Reached BY <1>4, <2>2 DEF Reached
    <3> QED BY <1>1, <1>4, <3>1
  <2>3. CASE j = i /\ ListenFails(i)
    <3>1. CASE \E k \in Holders(a) : ~shut[k]
      <4>1. PICK k \in Runner : /\ addr[k] = a /\ ~shut[k]
                                /\ run[k] \in {"bound", "serving"}
        BY <3>1 DEF Holders, Bound
      <4>2. k # i BY <2>3, <4>1
      <4> QED BY <1>1, <4>1, <4>2 DEF Reached
    <3>2. CASE ~\E k \in Holders(a) : ~shut[k]
      <4>1. lost' = lost \cup {a} BY <1>4, <2>3, <3>2
      <4> QED BY <4>1
    <3> QED BY <3>1, <3>2
  <2>4. CASE j = i /\ AcceptFails(i) BY <1>4, <2>4
  <2>5. ~(j = i /\ (ServeEnds(i) \/ Unlist(i) \/ Done(i)))
    BY <1>4 DEF Reached
  <2> QED BY <2>1, <2>2, <2>3, <2>4, <2>5 DEF RunServer
<1> QED BY <1>2, <1>3, <1>4

LEMMA NextOffered ==
  ASSUME IInv, Fresh, AllOffered, [Next]_vars
  PROVE  AllOffered'
<1> USE ListenersAssumption DEF IInv
<1> SUFFICES ASSUME stop' = "no", NEW a \in Addr
             PROVE  a \in lost' \/ Offered(a)'
  BY DEF AllOffered
<1>0. stop = "no"
  BY DEF Next, RunServer, Register, Listen, ListenFails, Serve, ServeEnds,
     AcceptFails, Unlist, Done, ProcRestart, Pick, CloseOld, RunNew, Stop,
     WaitReturns, vars
<1>1. a \in lost \/ Offered(a) BY <1>0 DEF AllOffered
<1>2. ASSUME NEW i \in Runner, RunServer(i) \/ AcceptFails(i)
      PROVE  a \in lost' \/ Offered(a)'
  BY <1>1, <1>2, RunOffered
<1>3. CASE Pick BY <1>1, <1>3 DEF Pick, Offered
<1>4. CASE CloseOld
  <2>1. /\ restart' = "sleeping" /\ old' = old /\ addr' = addr /\ run' = run
        /\ lost' = lost
        /\ \A j \in Runner \ {old} : shut'[j] = shut[j]
    BY <1>4 DEF CloseOld, TypeOK
  <2>2. CASE addr[old] = a BY <2>1, <2>2 DEF Offered
  <2>3. CASE addr[old] # a /\ a \notin lost
    <3>1. PICK j \in Runner : /\ addr[j] = a /\ ~shut[j]
                              /\ run[j] = "begun" \/ run[j] \in Reached
      BY <1>1, <1>4, <2>3 DEF Offered, CloseOld
    <3>2. j # old BY <2>3, <3>1
    <3> QED BY <2>1, <3>1, <3>2 DEF Offered
  <2> QED BY <2>1, <2>2, <2>3
<1>5. CASE RunNew
  <2>1. made \in Addrs .. MaxRun /\ made < MaxRun
    BY <1>5 DEF RunNew, TypeOK, InOrder
  <2> DEFINE new == made + 1
  <2>2. new \in Runner /\ run[new] = "none"
    <3>1. new \in Runner BY <2>1 DEF Runner
    <3>2. new > made BY <2>1
    <3> QED BY <3>1, <3>2 DEF InOrder
  <2>3. ~shut[new] BY <2>2 DEF Fresh, Registered
  <2>4. /\ shut' = shut /\ lost' = lost
        /\ addr'[new] = addr[old] /\ run'[new] = "begun"
        /\ \A j \in Runner \ {new} : addr'[j] = addr[j] /\ run'[j] = run[j]
    BY <1>5, <2>2 DEF RunNew, NewRunner, TypeOK
  <2> HIDE DEF new
  <2>5. CASE addr[old] = a BY <2>2, <2>3, <2>4, <2>5 DEF Offered
  <2>6. CASE addr[old] # a /\ a \notin lost
    <3>1. PICK j \in Runner : /\ addr[j] = a /\ ~shut[j]
                              /\ run[j] = "begun" \/ run[j] \in Reached
      BY <1>1, <2>6 DEF Offered
    <3>2. j # new BY <2>2, <3>1 DEF Reached
    <3> QED BY <2>4, <3>1, <3>2 DEF Offered
  <2> QED BY <2>4, <2>5, <2>6
<1>6. CASE WaitReturns \/ UNCHANGED vars
  BY <1>1, <1>6 DEF WaitReturns, vars, Offered
<1>7. ~Stop BY DEF Stop
<1> QED BY <1>2, <1>3, <1>4, <1>5, <1>6, <1>7 DEF Next, ProcRestart

\* As long as nobody calls Stop every address has a runner that serves it or is
\* on its way to, or a restart about to begin one, unless a failure to listen
\* or to accept has lost it.  A restart by itself loses one only where the
\* runner it closes has listened and does not serve yet, and keeps the port
\* until the new one has failed to listen (cs_server.go:43-57, 149-203).
THEOREM OnlyFailuresLoseAddresses == Spec => []AllOffered
<1>1. Init => Fresh /\ AllOffered
  <2>1. Init => \A a \in Addr : a \in Runner
    BY ListenersAssumption DEF Addr, Runner
  <2> QED
    BY ListenersAssumption, <2>1
    DEF Init, Fresh, AllOffered, Offered, Registered, Addr, Runner
<1>2. IInv /\ Fresh /\ AllOffered /\ [Next]_vars => Fresh' /\ AllOffered'
  BY NextFresh, NextOffered
<1> QED BY <1>1, <1>2, SpecIInv, PTL DEF Spec

LEMMA NextClosed ==
  ASSUME IInv, Fresh, AllClosed, [Next]_vars
  PROVE  AllClosed'
<1> USE ListenersAssumption DEF IInv, AllClosed
<1>1. CASE Stop
  <2>1. /\ restart' = restart /\ \A a \in Addr : servers'[a] = 0
        /\ stop' = "clean" => Settled
    BY <1>1 DEF Stop
  <2>2. ASSUME NEW i \in Runner, Settled, Live(i)'
        PROVE  Ending(i)' \/ shut'[i]
    <3>1. run' = run /\ Live(i) BY <1>1, <2>2 DEF Stop, Live
    <3>2. servers[addr[i]] = i \/ Ending(i) \/ shut[i]
      BY <2>2, <3>1 DEF Settled
    <3>3. addr[i] \in Addr BY DEF TypeOK
    <3> QED BY <1>1, <3>1, <3>2, <3>3 DEF Stop, Ending
  <2> QED BY <2>1, <2>2 DEF Settled
<1>2. CASE stop = "clean" /\ ~Stop
  <2>0. stop' = "clean" => stop = "clean" BY <1>2
  <2>1. ASSUME NEW i \in Runner, RunServer(i) \/ AcceptFails(i)
        PROVE  AllClosed'
    <3>1. ~Register(i) BY <1>2 DEF Register, Live, Ending, Fresh, Registered
    <3>2. /\ shut' = shut /\ restart' = restart
          /\ \A a \in Addr : servers'[a] = 0
          /\ \A j \in Runner \ {i} : run'[j] = run[j]
          /\ run[i] \notin {"none", "done"}
          /\ run'[i] \in {"bound", "ended", "unlisted", "done"}
          /\ run'[i] = "bound" => run[i] = "listed"
      <4>1. run[i] = "bound" => shut[i]
        BY <1>2 DEF Live, Ending
      <4> QED
        BY <1>2, <2>1, <3>1, <4>1
        DEF RunServer, Listen, ListenFails, Serve, ServeEnds, AcceptFails,
            Unlist, Done, Goto, TypeOK
    <3>3. ASSUME NEW j \in Runner, Live(j)' PROVE Ending(j)' \/ shut'[j]
      <4>1. CASE j # i BY <1>2, <3>2, <3>3, <4>1 DEF Live, Ending
      <4>2. CASE j = i BY <1>2, <3>2, <3>3, <4>2 DEF Live, Ending
      <4> QED BY <4>1, <4>2
    <3> QED BY <1>2, <3>2, <3>3
  <2>2. ~ProcRestart BY <1>2 DEF ProcRestart, Pick, CloseOld, RunNew
  <2>3. CASE WaitReturns \/ UNCHANGED vars
    BY <1>2, <2>3 DEF WaitReturns, vars, Live, Ending
  <2> QED BY <1>2, <2>1, <2>2, <2>3 DEF Next
<1>3. CASE stop # "clean" /\ ~Stop
  <2>1. stop' = stop
    BY <1>3 DEF Next, RunServer, Register, Listen, ListenFails, Serve,
       ServeEnds, AcceptFails, Unlist, Done, ProcRestart, Pick, CloseOld,
       RunNew, WaitReturns, vars
  <2> QED BY <1>3, <2>1
<1> QED BY <1>1, <1>2, <1>3

\* A Stop that finds every runner has closed all there will ever be, and with
\* the wait group's count nothing is left for Wait to wait for but their ends
\* (cs_server.go:240-253).
THEOREM StopReachesAll == Spec => []AllClosed
<1>1. Init => Fresh /\ AllClosed
  BY ListenersAssumption
  DEF Init, Fresh, AllClosed, Registered, Addr, Runner
<1>2. IInv /\ Fresh /\ AllClosed /\ [Next]_vars => Fresh' /\ AllClosed'
  BY NextFresh, NextClosed
<1> QED BY <1>1, <1>2, SpecIInv, PTL DEF Spec
=============================================================================
