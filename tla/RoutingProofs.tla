--------------------------- MODULE RoutingProofs ----------------------------
(***************************************************************************)
(* Proofs about Routing.tla and Websocket.tla, for any requests, hosts and *)
(* lines: which way a host goes, what the cache and its file hold, what a  *)
(* websocket dial leaves, and that a dial or a handshake under way always  *)
(* has something that ends it.                                             *)
(***************************************************************************)
EXTENDS Routing, TLAPS

ReqSet ==
  [at : {"idle", "lookup", "direct", "proxy", "dialing", "answer", "learn",
         "done", "failed"},
   host : Host \cup {<<>>}, via : {"proxy", "auto"}, missed : BOOLEAN]

ClientType ==
  /\ life \in {"off", "on", "save", "write", "stopped"}
  /\ starts \in 0 .. MaxStart
  /\ cache \in SUBSET Host /\ file \in SUBSET Host
  /\ earned \in SUBSET Host /\ kept \in SUBSET Host
  /\ whole \in BOOLEAN

\* Where each request may be, by its host and its server.
WayOf(q) ==
  /\ IF q.at = "idle" THEN q.host = <<>> ELSE q.host \in Host
  /\ q.via = "auto" /\ q.at \in {"lookup", "direct"} => ~Find(q.host)
  /\ q.via = "proxy" /\ q.host \in Skipped /\ q.at # "idle" =>
       q.at \in {"direct", "done", "failed"}
  /\ q.at = "lookup" => q.via = "auto"
  /\ q.at = "learn" => q.host \in earned

Requests ==
  req \in [Request -> ReqSet] /\ \A r \in Request : WayOf(req[r])

\* The file has what was kept, unless it is torn.
Keeping == SavedKept /\ (~whole => kept = {})

\* The raw connection and the handshake of a dial, by where it is.
DialInv(d, secure) ==
  /\ d.at \in {"tls", "wait", "http", "ok"} => d.raw = "open"
  /\ d.at = "failed" => d.raw # "open"
  /\ d.at \in {"none", "connect"} => d.raw = "none"
  /\ d.at \in {"none", "connect", "tls"} => d.shake = "none"
  /\ d.at \in {"http", "ok"} /\ secure => d.shake = "ok"
  /\ \A i \in 1 .. Len(d.errs) : d.errs[i] = "ok" => d.shake = "ok"

Dials == \A r \in Request : DialInv(dial[r], r \in Secure)

IInv ==
  DialType /\ Dials /\ ClientType /\ Requests /\ EarnedOnly /\ Keeping

-----------------------------------------------------------------------------

\* Find sees every line that Listed means (gfw.go:57-95).
LEMMA ListedFound ==
  ASSUME NEW host \in Host, Listed(host)
  PROVE  Find(host)
<1>1. PICK l \in Line :
        /\ l.kind = "rule"
        /\ l.labels = host \/ Len(l.labels) \in 2 .. Len(host) - 1
        /\ l.labels = SubSeq(host, Len(host) - Len(l.labels) + 1, Len(host))
  BY DEF Listed
<1>2. /\ l.labels \in Seq(STRING) /\ l.labels # <<>>
      /\ host \in Seq(STRING) /\ host # <<>>
  BY RoutingAssumption
<1>3. Len(l.labels) \in Nat \ {0} /\ Len(host) \in Nat \ {0} BY <1>2
<1> DEFINE k == Len(host) - Len(l.labels) + 1
<1>4. k \in 1 .. Len(host) /\ (k < Len(host) \/ Len(host) = 1)
  <2>1. ASSUME NEW m \in Nat \ {0}, NEW n \in Nat \ {0},
               m = n \/ m \in 2 .. n - 1
        PROVE  n - m + 1 \in 1 .. n /\ (n - m + 1 < n \/ n = 1)
    BY <2>1
  <2>2. Len(l.labels) = Len(host) \/ Len(l.labels) \in 2 .. Len(host) - 1
    BY <1>1
  <2> QED BY <1>3, <2>1, <2>2
<1>5. Check(l.labels)
  <2>1. l \in Rules BY <1>1 DEF Rules
  <2> DEFINE n == Len(l.labels) - Len(l.labels)
  <2>2. n >= 0 /\ n + 1 = 1 /\ \A i \in 2 .. Len(l.labels) : n + i = i BY <1>3
  <2>3. Ends(l.labels[n + 1], l.labels[1]) BY <2>2 DEF Ends
  <2>4. \A i \in 2 .. Len(l.labels) : l.labels[n + i] = l.labels[i] BY <2>2
  <2> HIDE DEF n
  <2>5. /\ l.kind = "rule" /\ n >= 0
        /\ Ends(l.labels[n + 1], l.labels[1])
        /\ \A i \in 2 .. Len(l.labels) : l.labels[n + i] = l.labels[i]
    BY <1>1, <2>2, <2>3, <2>4
  <2> QED BY <2>1, <2>5 DEF Check, n
<1>6. l.labels = SubSeq(host, k, Len(host)) BY <1>1
<1> HIDE DEF k
<1> QED BY <1>4, <1>5, <1>6 DEF Find

\* Init (dialer.go:587-596).
LEMMA InitIInv == Init => IInv
<1> SUFFICES ASSUME Init PROVE IInv OBVIOUS
<1> USE DEF Init
<1>1. DialType BY DEF DialType, NoDial
<1>2. NoReq \in ReqSet /\ WayOf(NoReq) BY DEF ReqSet, WayOf, NoReq
<1>3. ClientType BY RoutingAssumption DEF ClientType
<1>4. Requests BY <1>2 DEF Requests
<1>5. EarnedOnly /\ Keeping BY DEF EarnedOnly, Keeping, SavedKept
<1>6. Dials
  <2>1. NoDial.errs = <<>> /\ Len(NoDial.errs) = 0 /\ 1 .. 0 = {} BY DEF NoDial
  <2>2. \A r \in Request : DialInv(NoDial, r \in Secure)
    BY <2>1 DEF DialInv, NoDial
  <2>3. \A r \in Request : dial[r] = NoDial BY DEF Init
  <2> QED BY <2>2, <2>3, Zenon DEF Dials
<1> QED BY <1>1, <1>3, <1>4, <1>5, <1>6 DEF IInv

-----------------------------------------------------------------------------

\* What a send on errChannel leaves in it (dialer.go:295-302).
LEMMA AppendErrs ==
  ASSUME NEW s \in Seq({"ok", "bad", "timeout"}),
         NEW e \in {"ok", "bad", "timeout"}
  PROVE  /\ Append(s, e) \in Seq({"ok", "bad", "timeout"})
         /\ \A i \in 1 .. Len(Append(s, e)) :
              \/ i \in 1 .. Len(s) /\ Append(s, e)[i] = s[i]
              \/ Append(s, e)[i] = e
  OBVIOUS

\* A step of a websocket dial (dialer.go:293-322).
LEMMA DialIInv ==
  ASSUME DialType, Dials, NEW r \in Request,
         DialSteps(r) \/ Dial(r)
  PROVE  DialType' /\ Dials'
<1> DEFINE d == dial[r]
           D == [at : {"none", "connect", "tls", "wait", "http", "ok", "failed"},
                 raw : {"none", "open", "closed"},
                 shake : {"none", "running", "ok", "bad"},
                 timer : {"off", "set", "fired"},
                 errs : Seq({"ok", "bad", "timeout"})]
<1>1. d \in D /\ DialInv(d, r \in Secure) /\ dial \in [Request -> D]
  BY DEF DialType, Dials
<1>2. SUFFICES ASSUME NEW e \in D, dial' = [dial EXCEPT ![r] = e],
                      DialInv(e, r \in Secure)
               PROVE  DialType' /\ Dials'
  <2>1. CASE Dial(r)
    <3>1. dial' = [dial EXCEPT ![r] = [d EXCEPT !.at = "connect"]]
      BY <2>1 DEF Dial, Set
    <3>2. DialInv([d EXCEPT !.at = "connect"], r \in Secure)
      BY <1>1, <2>1 DEF Dial, DialInv, NoDial
    <3> QED BY <1>1, <1>2, <3>1, <3>2
  <2>2. CASE Connect(r)
    <3>1. CASE dial' = [dial EXCEPT ![r] = [d EXCEPT !.at = "failed"]]
      <4>1. DialInv([d EXCEPT !.at = "failed"], r \in Secure)
        BY <1>1, <2>2 DEF Connect, DialInv
      <4> QED BY <1>1, <1>2, <3>1, <4>1
    <3>2. CASE r \in Secure /\ dial' =
                 [dial EXCEPT ![r] = [d EXCEPT !.at = "tls", !.raw = "open"]]
      <4>1. DialInv([d EXCEPT !.at = "tls", !.raw = "open"], r \in Secure)
        BY <1>1, <2>2 DEF Connect, DialInv
      <4> QED BY <1>1, <1>2, <3>2, <4>1
    <3>3. CASE r \notin Secure /\ dial' =
                 [dial EXCEPT ![r] = [d EXCEPT !.at = "http", !.raw = "open"]]
      <4>1. DialInv([d EXCEPT !.at = "http", !.raw = "open"], r \in Secure)
        BY <1>1, <2>2, <3>3 DEF Connect, DialInv
      <4> QED BY <1>1, <1>2, <3>3, <4>1
    <3> QED BY <2>2, <3>1, <3>2, <3>3 DEF Connect, Set, SetRaw
  <2>3. CASE TlsHandshake(r)
    <3> DEFINE e == [d EXCEPT !.at = "wait", !.shake = "running",
                              !.timer = "set"]
    <3>1. dial' = [dial EXCEPT ![r] = e] BY <2>3 DEF TlsHandshake
    <3>2. DialInv(e, r \in Secure) BY <1>1, <2>3 DEF TlsHandshake, DialInv
    <3>3. e \in D BY <1>1
    <3> QED BY <1>2, <3>1, <3>2, <3>3
  <2>4. CASE TimerFires(r)
    <3> DEFINE e == [d EXCEPT !.timer = "fired", !.errs = Append(@, "timeout")]
    <3>1. dial' = [dial EXCEPT ![r] = e] BY <2>4 DEF TimerFires
    <3>2. e \in D BY <1>1, AppendErrs
    <3>3. DialInv(e, r \in Secure) BY <1>1, AppendErrs DEF DialInv
    <3> QED BY <1>2, <3>1, <3>2, <3>3
  <2>5. CASE HandshakeOk(r)
    <3> DEFINE e == [d EXCEPT !.shake = "ok", !.errs = Append(@, "ok")]
    <3>1. dial' = [dial EXCEPT ![r] = e] BY <2>5 DEF HandshakeOk, Shakes
    <3>2. e \in D BY <1>1, AppendErrs
    <3>3. DialInv(e, r \in Secure)
      BY <1>1, <2>5, AppendErrs DEF DialInv, HandshakeOk, Shakes
    <3> QED BY <1>2, <3>1, <3>2, <3>3
  <2>6. CASE HandshakeFails(r)
    <3> DEFINE e == [d EXCEPT !.shake = "bad", !.errs = Append(@, "bad")]
    <3>1. /\ dial' = [dial EXCEPT ![r] = e] /\ d.shake = "running"
      BY <2>6 DEF HandshakeFails, Shakes
    <3>2. e \in D BY <1>1, AppendErrs
    <3>3. DialInv(e, r \in Secure) BY <1>1, <3>1, AppendErrs DEF DialInv
    <3> QED BY <1>2, <3>1, <3>2, <3>3
  <2>7. CASE Receive(r)
    <3> DEFINE ok == Head(d.errs) = "ok"
               e == [d EXCEPT !.errs = Tail(@),
                              !.at = IF ok THEN "http" ELSE "failed",
                              !.raw = IF ok THEN @ ELSE "closed"]
    <3>1. /\ dial' = [dial EXCEPT ![r] = e] /\ d.at = "wait" /\ d.errs # <<>>
      BY <2>7 DEF Receive
    <3>2. e \in D
      <4>1. Tail(d.errs) \in Seq({"ok", "bad", "timeout"}) BY <1>1, <3>1
      <4> QED BY <1>1, <4>1
    <3>3. d.errs[1] = Head(d.errs) /\ 1 \in 1 .. Len(d.errs) BY <1>1, <3>1
    <3>4. ok => d.shake = "ok" BY <1>1, <3>3 DEF DialInv
    <3>5. \A i \in 1 .. Len(Tail(d.errs)) :
            Tail(d.errs)[i] = d.errs[i + 1] /\ i + 1 \in 1 .. Len(d.errs)
      BY <1>1, <3>1
    <3>6. DialInv(e, r \in Secure)
      BY <1>1, <3>1, <3>4, <3>5 DEF DialInv
    <3> QED BY <1>2, <3>1, <3>2, <3>6
  <2>8. CASE NewClient(r)
    <3>1. CASE dial' = [dial EXCEPT ![r] = [d EXCEPT !.at = "ok"]]
      <4>1. DialInv([d EXCEPT !.at = "ok"], r \in Secure)
        BY <1>1, <2>8 DEF NewClient, DialInv
      <4> QED BY <1>1, <1>2, <3>1, <4>1
    <3>2. CASE dial' =
                 [dial EXCEPT ![r] = [d EXCEPT !.at = "failed", !.raw = "closed"]]
      <4>1. DialInv([d EXCEPT !.at = "failed", !.raw = "closed"], r \in Secure)
        BY <1>1, <2>8 DEF NewClient, DialInv
      <4> QED BY <1>1, <1>2, <3>2, <4>1
    <3> QED BY <2>8, <3>1, <3>2 DEF NewClient, Set, SetRaw
  <2> QED BY <2>1, <2>2, <2>3, <2>4, <2>5, <2>6, <2>7, <2>8 DEF DialSteps
<1>3. DialType' BY <1>1, <1>2 DEF DialType
<1>4. Dials' BY <1>1, <1>2 DEF Dials
<1> QED BY <1>3, <1>4

-----------------------------------------------------------------------------

\* A step that moves one request (dialer.go:556-646, 678-693).
LEMMA OneRequest ==
  ASSUME Requests, NEW r \in Request, NEW q \in ReqSet,
         req' = [req EXCEPT ![r] = q], WayOf(q)', earned \subseteq earned'
  PROVE  Requests'
<1>1. req' \in [Request -> ReqSet] BY DEF Requests
<1>2. ASSUME NEW s \in Request PROVE WayOf(req[s])'
  <2>1. CASE s = r
    <3>1. req'[s] = q BY <2>1 DEF Requests
    <3> QED BY <3>1 DEF WayOf
  <2>2. CASE s # r
    <3>1. req'[s] = req[s] /\ WayOf(req[s]) BY <2>2 DEF Requests
    <3> QED BY <3>1 DEF WayOf
  <2> QED BY <2>1, <2>2
<1> QED BY <1>1, <1>2 DEF Requests

\* A request that goes on, to where WayOf lets it.
LEMMA Goes ==
  ASSUME Requests, NEW r \in Request, req[r].at # "idle",
         NEW at \in {"proxy", "direct", "dialing", "answer", "learn", "done",
                     "failed"},
         Goto(r, at), earned \subseteq earned',
         at = "direct" => req[r].at = "lookup" /\ req[r].via = "auto",
         at \in {"proxy", "dialing", "answer", "learn"} =>
           req[r].via = "auto" \/ req[r].at \in {"proxy", "dialing", "answer"},
         at = "learn" => req[r].host \in earned'
  PROVE  Requests'
<1>1. req[r] \in ReqSet /\ WayOf(req[r]) BY DEF Requests
<1>2. PICK q : q = [req[r] EXCEPT !.at = at] OBVIOUS
<1>3. q \in ReqSet BY <1>1, <1>2 DEF ReqSet
<1>4. req' = [req EXCEPT ![r] = q] BY <1>2 DEF Goto
<1>5. q.at = at /\ q.host = req[r].host /\ q.via = req[r].via
  BY <1>1, <1>2 DEF ReqSet
<1>6. WayOf(q)' BY <1>1, <1>5 DEF WayOf
<1> QED BY <1>3, <1>4, <1>6, OneRequest

\* A new request: SkipDialer, PACDialer (dialer.go:556-566, 678-693).
LEMMA AskIInv ==
  ASSUME IInv, NEW r \in Request, Ask(r)
  PROVE  Requests'
<1>1. PICK via \in {"proxy", "auto"}, host \in Host :
        req' = [req EXCEPT ![r] = [at |-> First(via, host), host |-> host,
                                   via |-> via, missed |-> FALSE]]
  BY DEF Ask
<1> DEFINE q == [at |-> First(via, host), host |-> host, via |-> via,
                 missed |-> FALSE]
<1>2. q \in ReqSet BY DEF ReqSet, First
<1>3. WayOf(q)' BY DEF WayOf, First
<1>4. earned' = earned BY DEF Ask, history
<1> HIDE DEF q
<1> QED BY <1>1, <1>2, <1>3, <1>4, OneRequest DEF IInv, q

-----------------------------------------------------------------------------

\* Every step keeps the requests.
LEMMA RequestsKept ==
  ASSUME IInv, Next
  PROVE  Requests'
<1>1. CASE StartClient \/ StopClient \/ OpenCache \/ WriteCache
  <2>1. req' = req /\ earned' = earned
    BY <1>1 DEF StartClient, StopClient, OpenCache, WriteCache, history
  <2> QED BY <2>1 DEF IInv, Requests, WayOf
<1>2. CASE Exit
  <2>1. NoReq \in ReqSet /\ WayOf(NoReq)' BY DEF ReqSet, WayOf, NoReq
  <2> QED BY <1>2, <2>1 DEF Exit, Requests
<1>3. ASSUME NEW r \in Request, WebsocketSteps(r) PROVE Requests'
  <2>1. req' = req /\ earned' = earned BY <1>3 DEF WebsocketSteps, history
  <2> QED BY <2>1 DEF IInv, Requests, WayOf
<1>4. ASSUME NEW r \in Request, Ask(r) PROVE Requests'
  BY <1>4, AskIInv
<1>5. ASSUME NEW r \in Request, RequestSteps(r) PROVE Requests'
  <2>1. CASE Lookup(r)
    <3>1. PICK at \in {"proxy", "direct"} : Goto(r, at) BY <2>1 DEF Lookup
    <3>2. req[r].via = "auto"
      BY <2>1 DEF Lookup, IInv, Requests, WayOf, ReqSet
    <3> QED BY <2>1, <3>1, <3>2, Goes DEF Lookup, IInv, history
  <2>2. CASE Direct(r)
    <3>1. req[r].at = "direct" /\ earned' = earned
      BY <2>2 DEF Direct, history
    <3>2. ASSUME NEW at \in {"done", "failed"}, Goto(r, at) PROVE Requests'
      BY <3>1, <3>2, Goes DEF IInv
    <3>3. CASE /\ req[r].via = "auto"
               /\ req' = [req EXCEPT ![r].at = "proxy", ![r].missed = TRUE]
      <4>1. req[r] \in ReqSet /\ WayOf(req[r]) BY DEF IInv, Requests
      <4>2. PICK q : q = [req[r] EXCEPT !.at = "proxy", !.missed = TRUE]
        OBVIOUS
      <4>3. q \in ReqSet BY <4>1, <4>2 DEF ReqSet
      <4>4. q.at = "proxy" /\ q.host = req[r].host /\ q.via = "auto"
        BY <3>3, <4>1, <4>2 DEF ReqSet
      <4>5. WayOf(q)' BY <3>1, <4>1, <4>4 DEF WayOf
      <4>6. req' = [req EXCEPT ![r] = q] BY <3>3, <4>2
      <4> QED BY <3>1, <4>3, <4>5, <4>6, OneRequest DEF IInv
    <3> QED BY <2>2, <3>2, <3>3 DEF Direct
  <2>3. CASE Proxy(r)
    BY <2>3, Goes DEF Proxy, IInv, history
  <2>4. CASE Dialed(r)
    BY <2>4, Goes DEF Dialed, IInv, history
  <2>5. CASE Answer(r)
    BY <2>5, Goes DEF Answer, IInv
  <2>6. CASE Learn(r)
    BY <2>6, Goes DEF Learn, IInv, history
  <2> QED BY <1>5, <2>1, <2>2, <2>3, <2>4, <2>5, <2>6 DEF RequestSteps
<1> QED BY <1>1, <1>2, <1>3, <1>4, <1>5 DEF Next

\* Every step keeps the dials.
LEMMA DialsKept ==
  ASSUME IInv, Next
  PROVE  DialType' /\ Dials'
<1>1. CASE dial' = dial BY <1>1 DEF IInv, DialType, Dials
<1>2. ASSUME NEW r \in Request, DialSteps(r) \/ Dial(r)
      PROVE  DialType' /\ Dials'
  BY <1>2, DialIInv DEF IInv
<1>3. CASE dial' = [r \in Request |-> NoDial]
  <2>1. NoDial.errs = <<>> /\ Len(NoDial.errs) = 0 /\ 1 .. 0 = {} BY DEF NoDial
  <2>2. \A r \in Request : DialInv(NoDial, r \in Secure)
    BY <2>1 DEF DialInv, NoDial
  <2> QED BY <1>3, <2>2 DEF Dials, DialType, NoDial
<1> QED
  BY <1>1, <1>2, <1>3 DEF Next, StartClient, StopClient, OpenCache, WriteCache,
     Exit, Ask, RequestSteps, WebsocketSteps, Lookup, Direct, Proxy, Dialed,
     Answer, Learn

\* Every step keeps what the cache and its file hold (dialer.go:587-646).
LEMMA CacheKept ==
  ASSUME IInv, Next
  PROVE  ClientType' /\ EarnedOnly' /\ Keeping'
<1> USE DEF IInv, ClientType, EarnedOnly, Keeping, SavedKept
<1>1. CASE StartClient
  BY <1>1, RoutingAssumption DEF StartClient, disk, history
<1>2. CASE StopClient BY <1>2 DEF StopClient, disk, history
<1>3. CASE OpenCache BY <1>3 DEF OpenCache
<1>4. CASE WriteCache BY <1>4 DEF WriteCache
<1>5. CASE Exit BY <1>5 DEF Exit, disk, history
<1>6. ASSUME NEW r \in Request, Answer(r)
      PROVE  ClientType' /\ EarnedOnly' /\ Keeping'
  <2>1. req[r].host \in Host
    BY <1>6 DEF Answer, Requests, WayOf
  <2> QED BY <1>6, <2>1 DEF Answer, client, disk
<1>7. ASSUME NEW r \in Request, Learn(r)
      PROVE  ClientType' /\ EarnedOnly' /\ Keeping'
  <2>1. req[r].host \in Host /\ req[r].host \in earned
    BY <1>7 DEF Learn, Requests, WayOf
  <2> QED BY <1>7, <2>1 DEF Learn, disk, history
<1>8. CASE UNCHANGED <<client, disk, history>>
  BY <1>8 DEF client, disk, history
<1> QED
  BY <1>1, <1>2, <1>3, <1>4, <1>5, <1>6, <1>7, <1>8
     DEF Next, Ask, RequestSteps, WebsocketSteps, Lookup, Direct, Proxy, Dialed

LEMMA NextIInv == IInv /\ [Next]_vars => IInv'
<1> SUFFICES ASSUME IInv, [Next]_vars PROVE IInv' OBVIOUS
<1>1. CASE Next BY <1>1, RequestsKept, DialsKept, CacheKept DEF IInv
<1>2. CASE UNCHANGED vars
  BY <1>2 DEF vars, client, disk, history, IInv, DialType, Dials, ClientType,
              Requests, WayOf, EarnedOnly, Keeping, SavedKept
<1> QED BY <1>1, <1>2

LEMMA SpecIInv == Spec => []IInv
BY InitIInv, NextIInv, PTL DEF Spec

-----------------------------------------------------------------------------

\* The type invariant.
THEOREM TypeCorrect == Spec => []TypeOK
<1>1. IInv => TypeOK BY DEF IInv, TypeOK, ClientType, Requests, ReqSet
<1> QED BY <1>1, SpecIInv, PTL

\* A host of gfwlist.txt, or below one, is never dialed directly, nor a
\* skipped one through a server (gfw.go:57-95, dialer.go:561, 684-692).
THEOREM WaysKept == Spec => []WayKept
<1>1. IInv => WayKept
  <2> SUFFICES ASSUME IInv, NEW r \in Request
               PROVE  /\ /\ req[r].via = "auto"
                         /\ req[r].at \in {"lookup", "direct"}
                         => ~Listed(req[r].host)
                      /\ req[r].via = "proxy" /\ req[r].host \in Skipped =>
                           req[r].at \in {"direct", "done", "failed"}
    BY DEF WayKept
  <2>1. WayOf(req[r]) BY DEF IInv, Requests
  <2>2. <<>> \notin Skipped BY RoutingAssumption
  <2> QED BY <2>1, <2>2, ListedFound DEF WayOf
<1> QED BY <1>1, SpecIInv, PTL

\* The cache and its file send to a server only the hosts that a failed direct
\* dial and an answer of a server have earned it (dialer.go:632-646).
THEOREM CacheEarned == Spec => []EarnedOnly
<1>1. IInv => EarnedOnly BY DEF IInv
<1> QED BY <1>1, SpecIInv, PTL

\* What a Stop has saved is in the cache of every later client, until the
\* file is opened again (dialer.go:599-614).
THEOREM SaveKept == Spec => []SavedKept
<1>1. IInv => SavedKept BY DEF IInv, Keeping
<1> QED BY <1>1, SpecIInv, PTL

\* A dial that failed left no connection open, and one that succeeded has its
\* handshake done (dialer.go:293-322).
THEOREM DialsSettled == Spec => []DialSettled
<1>1. IInv => DialSettled BY DEF IInv, Dials, DialInv, DialSettled
<1> QED BY <1>1, SpecIInv, PTL

-----------------------------------------------------------------------------
(***************************************************************************)
(* What RequestEnds and HandshakeEnds come down to once their fairness is  *)
(* left aside: neither sender on errChannel blocks, the dial that receives *)
(* has a message or the timer to come, and a handshake that its dial has   *)
(* given up has its connection closed under it.                            *)
(***************************************************************************)

\* The messages that have been sent on the errChannel of a dial.
Sent(d) ==
  (IF d.timer = "fired" THEN 1 ELSE 0)
    + (IF d.shake \in {"ok", "bad"} THEN 1 ELSE 0)

\* What a dial has sent and received, by where it is.
Sending(d) ==
  /\ d.at \in {"none", "connect", "tls"} =>
       d.errs = <<>> /\ d.timer = "off" /\ d.shake = "none"
  /\ Len(d.errs) <= Sent(d)
  /\ d.at = "wait" => d.timer # "off" /\ Len(d.errs) = Sent(d)
  /\ d.shake = "running" =>
       d.at = "wait" \/ (d.at = "failed" /\ d.raw = "closed")

\* A request has a dial from its decision for a server on.
Dialing ==
  \A r \in Request :
    /\ req[r].at \in {"idle", "lookup", "direct", "proxy"} => dial[r] = NoDial
    /\ req[r].at = "dialing" => dial[r].at # "none"

\* No dial is stuck, but for a server that is silent in the websocket's
\* handshake: errChannel has room for both its senders, a dial that waits has
\* a message or a timer to come, a handshake that its dial has given up meets
\* a closed connection, and a request that waits for its dial has one.
DialGoesOn ==
  \A r \in Request :
    /\ dial[r].timer = "set" \/ dial[r].shake = "running" => Room(r)
    /\ dial[r].at = "wait" => dial[r].errs # <<>> \/ dial[r].timer = "set"
    /\ dial[r].shake = "running" => dial[r].at = "wait" \/ dial[r].raw = "closed"
    /\ req[r].at = "dialing" => dial[r].at # "none"

\* A step of a dial keeps its account of messages.
LEMMA StepSending ==
  ASSUME DialType, Dials, NEW r \in Request, Sending(dial[r]), DialSteps(r)
  PROVE  Sending(dial'[r]) /\ dial'[r].at # "none" /\ dial[r].at # "none"
<1> DEFINE d == dial[r]
           Msg == {"ok", "bad", "timeout"}
<1>1. /\ DialInv(d, r \in Secure) /\ d.errs \in Seq(Msg)
      /\ d.shake \in {"none", "running", "ok", "bad"}
      /\ d.timer \in {"off", "set", "fired"}
      /\ dial \in [Request -> [at : {"none", "connect", "tls", "wait", "http",
                                     "ok", "failed"},
                               raw : {"none", "open", "closed"},
                               shake : {"none", "running", "ok", "bad"},
                               timer : {"off", "set", "fired"},
                               errs : Seq(Msg)]]
  BY DEF DialType, Dials
<1>2. Len(d.errs) \in Nat BY <1>1
<1>3. /\ Len(<<>>) = 0
      /\ \A m \in Msg : Len(Append(d.errs, m)) = Len(d.errs) + 1
      /\ d.errs # <<>> => Len(Tail(d.errs)) = Len(d.errs) - 1
  BY <1>1
<1>4. CASE Connect(r)
  <2>1. /\ dial'[r].at \in {"tls", "http", "failed"}
        /\ dial'[r].errs = d.errs /\ dial'[r].timer = d.timer
        /\ dial'[r].shake = d.shake
    BY <1>1, <1>4 DEF Connect, Set, SetRaw
  <2>2. d.errs = <<>> /\ d.timer = "off" /\ d.shake = "none"
    BY <1>4 DEF Connect, Sending
  <2> QED BY <1>3, <1>4, <2>1, <2>2 DEF Sending, Sent, Connect
<1>5. CASE TlsHandshake(r)
  <2>1. /\ dial'[r].at = "wait" /\ dial'[r].errs = d.errs
        /\ dial'[r].timer = "set" /\ dial'[r].shake = "running"
    BY <1>1, <1>5 DEF TlsHandshake
  <2>2. d.errs = <<>> BY <1>5 DEF TlsHandshake, Sending
  <2>3. Sent(dial'[r]) = 0 BY <2>1 DEF Sent
  <2>4. Len(dial'[r].errs) = 0 BY <1>3, <2>1, <2>2
  <2>5. d.at = "tls" BY <1>5 DEF TlsHandshake
  <2> QED BY <2>1, <2>3, <2>4, <2>5 DEF Sending
<1>6. CASE TimerFires(r)
  <2>1. /\ dial'[r].at = d.at /\ dial'[r].raw = d.raw
        /\ dial'[r].errs = Append(d.errs, "timeout")
        /\ dial'[r].timer = "fired" /\ dial'[r].shake = d.shake
        /\ d.timer = "set"
    BY <1>1, <1>6 DEF TimerFires
  <2>2. Len(dial'[r].errs) = Len(d.errs) + 1 BY <1>3, <2>1
  <2>3. Sent(dial'[r]) = Sent(d) + 1 /\ Sent(d) \in Nat BY <2>1 DEF Sent
  <2>4. d.at \notin {"none", "connect", "tls"} BY <2>1 DEF Sending
  <2> QED BY <1>2, <2>1, <2>2, <2>3, <2>4 DEF Sending
<1>7. CASE HandshakeOk(r) \/ HandshakeFails(r)
  <2>1. PICK err \in {"ok", "bad"} :
          /\ d.shake = "running"
          /\ dial' = [dial EXCEPT ![r].shake = err,
                                  ![r].errs = Append(@, err)]
    BY <1>7 DEF HandshakeOk, HandshakeFails, Shakes
  <2>2. /\ dial'[r].at = d.at /\ dial'[r].raw = d.raw
        /\ dial'[r].errs = Append(d.errs, err)
        /\ dial'[r].timer = d.timer /\ dial'[r].shake = err
    BY <1>1, <2>1
  <2>3. Len(dial'[r].errs) = Len(d.errs) + 1 BY <1>3, <2>2
  <2>4. Sent(dial'[r]) = Sent(d) + 1 /\ Sent(d) \in Nat
    <3>1. PICK n \in {0, 1} : n = IF d.timer = "fired" THEN 1 ELSE 0
      OBVIOUS
    <3>2. Sent(d) = n + 0 BY <2>1, <3>1 DEF Sent
    <3>3. dial'[r].shake \in {"ok", "bad"} BY <2>2
    <3>4. Sent(dial'[r]) = n + 1 BY <2>2, <3>1, <3>3 DEF Sent
    <3> QED BY <3>2, <3>4
  <2>5. d.at \notin {"none", "connect", "tls"} BY <2>1 DEF Sending
  <2> QED BY <1>2, <2>1, <2>2, <2>3, <2>4, <2>5 DEF Sending
<1>8. CASE Receive(r)
  <2>1. d.errs # <<>> /\ d.at = "wait" BY <1>8 DEF Receive
  <2>2. /\ dial'[r].errs = Tail(d.errs)
        /\ dial'[r].timer = d.timer /\ dial'[r].shake = d.shake
        /\ Head(d.errs) = "ok" => dial'[r].at = "http"
        /\ Head(d.errs) # "ok" =>
             dial'[r].at = "failed" /\ dial'[r].raw = "closed"
    BY <1>1, <1>8 DEF Receive
  <2>3. Len(dial'[r].errs) = Len(d.errs) - 1 BY <1>3, <2>1, <2>2
  <2>4. Sent(dial'[r]) = Sent(d) /\ Sent(d) \in Nat BY <2>2 DEF Sent
  <2>5. Head(d.errs) = "ok" => d.shake = "ok"
    <3>1. d.errs[1] = Head(d.errs) /\ 1 \in 1 .. Len(d.errs) BY <1>1, <2>1
    <3> QED BY <1>1, <3>1 DEF DialInv
  <2>6. Len(d.errs) <= Sent(d) BY DEF Sending
  <2>7. Len(dial'[r].errs) <= Sent(dial'[r]) BY <1>2, <2>3, <2>4, <2>6
  <2> QED BY <2>1, <2>2, <2>5, <2>7 DEF Sending
<1>9. CASE NewClient(r)
  <2>1. /\ dial'[r].at \in {"ok", "failed"} /\ dial'[r].errs = d.errs
        /\ dial'[r].timer = d.timer /\ dial'[r].shake = d.shake
        /\ d.at = "http"
    BY <1>1, <1>9 DEF NewClient, Set, SetRaw
  <2>2. d.shake # "running" BY <2>1 DEF Sending
  <2>3. Sent(dial'[r]) = Sent(d) BY <2>1 DEF Sent
  <2> QED BY <2>1, <2>2, <2>3 DEF Sending
<1> QED BY <1>4, <1>5, <1>6, <1>7, <1>8, <1>9 DEF DialSteps

AllSending == \A r \in Request : Sending(dial[r])

LEMMA NoDialSending == Sending(NoDial)
BY DEF NoDial, Sending, Sent

\* A step of a request that leaves the dials alone.
LEMMA MovesOnly ==
  ASSUME IInv, AllSending, Dialing, NEW r \in Request, dial' = dial,
         \A s \in Request \ {r} : req'[s] = req[s],
         req'[r].at # "dialing",
         req'[r].at \in {"idle", "lookup", "direct", "proxy"} =>
           req[r].at \in {"idle", "lookup", "direct", "proxy"}
  PROVE  AllSending' /\ Dialing'
BY DEF AllSending, Dialing

LEMMA RequestSending ==
  ASSUME IInv, AllSending, Dialing, NEW r \in Request, RequestSteps(r)
  PROVE  AllSending' /\ Dialing'
<1>1. req \in [Request -> ReqSet] BY DEF IInv, Requests
<1>2. \A at : Goto(r, at) => /\ req'[r].at = at
                             /\ \A s \in Request \ {r} : req'[s] = req[s]
  BY <1>1 DEF Goto, ReqSet
<1>3. CASE Lookup(r)
  <2>1. /\ req'[r].at \in {"proxy", "direct"} /\ req[r].at = "lookup"
        /\ \A s \in Request \ {r} : req'[s] = req[s]
    BY <1>2, <1>3 DEF Lookup
  <2>2. dial' = dial BY <1>3 DEF Lookup
  <2> QED BY <2>1, <2>2, MovesOnly
<1>4. CASE Direct(r)
  <2>1. req[r].at = "direct" /\ dial' = dial BY <1>4 DEF Direct
  <2>2. /\ req'[r].at \in {"done", "failed", "proxy"}
        /\ \A s \in Request \ {r} : req'[s] = req[s]
    BY <1>1, <1>2, <1>4 DEF Direct, ReqSet
  <2> QED BY <2>1, <2>2, MovesOnly
<1>5. CASE Proxy(r) /\ Goto(r, "answer") /\ dial' = dial
  <2>1. /\ req'[r].at = "answer"
        /\ \A s \in Request \ {r} : req'[s] = req[s]
    BY <1>2, <1>5
  <2> QED BY <1>5, <2>1, MovesOnly
<1>6. CASE Proxy(r) /\ Goto(r, "dialing") /\ Dial(r)
  <2>1. /\ req'[r].at = "dialing"
        /\ \A s \in Request \ {r} : req'[s] = req[s]
    BY <1>2, <1>6
  <2>2. /\ dial'[r] = [NoDial EXCEPT !.at = "connect"]
        /\ \A s \in Request \ {r} : dial'[s] = dial[s]
    BY <1>6 DEF Dial, Set, IInv, DialType
  <2>3. Sending(dial'[r]) /\ dial'[r].at # "none"
    BY <2>2 DEF NoDial, Sending, Sent
  <2> QED BY <2>1, <2>2, <2>3 DEF AllSending, Dialing
<1>7. CASE Dialed(r) \/ Answer(r) \/ Learn(r)
  <2>1. /\ req'[r].at \in {"answer", "failed", "learn", "done"}
        /\ \A s \in Request \ {r} : req'[s] = req[s]
    BY <1>2, <1>7 DEF Dialed, Answer, Learn
  <2>2. dial' = dial BY <1>7 DEF Dialed, Answer, Learn
  <2> QED BY <2>1, <2>2, MovesOnly
<1> QED BY <1>3, <1>4, <1>5, <1>6, <1>7 DEF RequestSteps, Proxy

\* Every step keeps the accounts, and that every request has its dial.
LEMMA NextSending ==
  ASSUME IInv, AllSending, Dialing, [Next]_vars
  PROVE  AllSending' /\ Dialing'
<1>1. CASE \/ StartClient \/ StopClient \/ OpenCache \/ WriteCache
           \/ UNCHANGED vars
  <2>1. req' = req /\ dial' = dial
    BY <1>1 DEF StartClient, StopClient, OpenCache, WriteCache, vars
  <2> QED BY <2>1 DEF AllSending, Dialing
<1>2. CASE Exit
  <2>1. \A r \in Request : dial'[r] = NoDial /\ req'[r] = NoReq
    BY <1>2 DEF Exit
  <2>2. NoReq.at = "idle" BY DEF NoReq
  <2> QED BY <2>1, <2>2, NoDialSending DEF AllSending, Dialing
<1>3. ASSUME NEW r \in Request, WebsocketSteps(r)
      PROVE  AllSending' /\ Dialing'
  <2>1. req' = req /\ DialSteps(r) BY <1>3 DEF WebsocketSteps
  <2>2. \A s \in Request \ {r} : dial'[s] = dial[s]
    BY <2>1 DEF DialSteps, Connect, TlsHandshake, TimerFires, HandshakeOk,
       HandshakeFails, Shakes, Receive, NewClient, Set, SetRaw, IInv, DialType
  <2>3. Sending(dial'[r]) /\ dial'[r].at # "none" /\ dial[r].at # "none"
    BY <2>1, StepSending DEF IInv, AllSending
  <2>4. dial[r] # NoDial BY <2>3 DEF NoDial
  <2> QED BY <2>1, <2>2, <2>3, <2>4 DEF AllSending, Dialing
<1>4. ASSUME NEW r \in Request, Ask(r)
      PROVE  AllSending' /\ Dialing'
  <2>1. req[r].at = "idle" /\ dial' = dial BY <1>4 DEF Ask, NoReq
  <2>2. /\ req'[r].at \in {"lookup", "direct", "proxy"}
        /\ \A s \in Request \ {r} : req'[s] = req[s]
    BY <1>4 DEF Ask, First, IInv, Requests
  <2> QED BY <2>1, <2>2, MovesOnly
<1> QED BY <1>1, <1>2, <1>3, <1>4, RequestSending DEF Next

\* A dial of a server ends in the end but for a silent server in the
\* websocket's handshake, and so does each goroutine it has begun
\* (dialer.go:288-322).
THEOREM DialsGoOn == Spec => []DialGoesOn
<1>1. Init => AllSending /\ Dialing
  <2> SUFFICES ASSUME Init PROVE AllSending /\ Dialing OBVIOUS
  <2>1. \A r \in Request : dial[r] = NoDial /\ req[r].at = "idle"
    BY DEF Init, NoReq
  <2> QED BY <2>1, NoDialSending DEF AllSending, Dialing
<1>2. IInv /\ AllSending /\ Dialing /\ [Next]_vars => AllSending' /\ Dialing'
  BY NextSending
<1>3. IInv /\ AllSending /\ Dialing => DialGoesOn
  <2> SUFFICES ASSUME IInv, AllSending, Dialing, NEW r \in Request
               PROVE  /\ dial[r].timer = "set" \/ dial[r].shake = "running"
                           => Room(r)
                      /\ dial[r].at = "wait" =>
                           dial[r].errs # <<>> \/ dial[r].timer = "set"
                      /\ dial[r].shake = "running" =>
                           dial[r].at = "wait" \/ dial[r].raw = "closed"
                      /\ req[r].at = "dialing" => dial[r].at # "none"
    BY DEF DialGoesOn
  <2>1. /\ Sending(dial[r]) /\ Len(dial[r].errs) \in Nat /\ Len(<<>>) = 0
        /\ dial[r].timer \in {"off", "set", "fired"}
        /\ dial[r].shake \in {"none", "running", "ok", "bad"}
    BY DEF AllSending, IInv, DialType
  <2>2. Sent(dial[r]) \in Nat BY DEF Sent
  <2>3. ASSUME dial[r].timer = "set" \/ dial[r].shake = "running"
        PROVE  Room(r)
    <3>1. Sent(dial[r]) <= 1 BY <2>3 DEF Sent
    <3> QED BY <2>1, <2>2, <3>1 DEF Sending, Room
  <2>4. ASSUME dial[r].at = "wait", dial[r].errs = <<>>
        PROVE  dial[r].timer = "set"
    <3>1. Sent(dial[r]) = 0 /\ dial[r].timer # "off"
      BY <2>1, <2>4 DEF Sending
    <3> QED BY <2>1, <3>1 DEF Sent
  <2> QED BY <2>1, <2>3, <2>4 DEF Sending, Dialing
<1> QED BY <1>1, <1>2, <1>3, SpecIInv, PTL DEF Spec
=============================================================================
