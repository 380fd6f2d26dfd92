------------------------------ MODULE Routing ------------------------------
(***************************************************************************)
(* Where the client sends a request: GFW, SkipDialer, PACDialer and        *)
(* AutoPACDialer with its cache (core/gfw.go, core/dialer.go), wired as    *)
(* Start does in cs_client.go.  Requests to the proxy server are skipped   *)
(* or go to a server; those to the auto proxy server go to a server when   *)
(* gfwlist.txt or the cache says so or when the direct dial fails.         *)
(*                                                                         *)
(* A host is the sequence of its labels.                                   *)
(***************************************************************************)
EXTENDS Websocket

CONSTANTS
  Host,      \* the hosts asked for
  Line,      \* the lines of gfwlist.txt, with a kind and labels
  EndsWith,  \* pairs of different labels: the first ends with the second
  Skipped,   \* the hosts that proxy_skip matches
  MaxStart   \* bound: starts of the client

ASSUME RoutingAssumption ==
  /\ Host \cup Skipped \subseteq Seq(STRING) \ {<<>>}
  /\ \A l \in Line : /\ l.kind \in {"rule", "exception", "comment"}
                     /\ l.labels \in Seq(STRING) \ {<<>>}
  /\ MaxStart \in Nat

VARIABLES
  life,    \* of the client: "off", "on", "save", "write", "stopped"
  starts,
  cache,   \* AutoPACDialer.cache
  file,    \* the hosts in pac.cache
  whole,   \* pac.cache is not torn
  req,     \* where each request is, its host, its server, and whether its
           \* direct dial has failed
  earned,  \* history: hosts with a failed direct dial and an answer by a server
  kept     \* history: what a Stop has saved, since the file was last opened

client == <<life, starts, cache>>
disk == <<file, whole>>
history == <<earned, kept>>
vars == <<client, disk, req, dial, history>>

NoReq == [at |-> "idle", host |-> <<>>, via |-> "proxy", missed |-> FALSE]

TypeOK ==
  /\ DialType
  /\ life \in {"off", "on", "save", "write", "stopped"}
  /\ starts \in 0 .. MaxStart
  /\ {cache, file, earned, kept} \subseteq SUBSET Host
  /\ whole \in BOOLEAN
  /\ req \in [Request ->
       [at : {"idle", "lookup", "direct", "proxy", "dialing", "answer", "learn",
              "done", "failed"},
        host : Host \cup {<<>>}, via : {"proxy", "auto"}, missed : BOOLEAN]]

Init ==
  /\ life = "off" /\ starts = 0
  /\ cache = {} /\ file = {} /\ whole = TRUE
  /\ req = [r \in Request |-> NoReq]
  /\ dial = [r \in Request |-> NoDial]
  /\ earned = {} /\ kept = {}

-----------------------------------------------------------------------------
(***************************************************************************)
(* GFW.                                                                    *)
(***************************************************************************)

\* ReadGfwlist, ReadUserRules: the lines that are no comments.
Rules == {l \in Line : l.kind # "comment"}

Ends(label, end) == label = end \/ <<label, end>> \in EndsWith

\* The expression of check: a line without "@" whose text ends with parts.
Check(parts) ==
  \E l \in Rules :
    LET n == Len(l.labels) - Len(parts)
    IN  /\ l.kind = "rule" /\ n >= 0
        /\ Ends(l.labels[n + 1], parts[1])
        /\ \A i \in 2 .. Len(parts) : l.labels[n + i] = parts[i]

\* Fault of Find: the domain is looked up, its parents are not.
FindWhole(domain) == Check(domain)

\* IsProxy: the domain and its parents, without the last label alone.
Find(domain) ==
  \E i \in 1 .. Len(domain) :
    /\ i < Len(domain) \/ Len(domain) = 1
    /\ Check(SubSeq(domain, i, Len(domain)))

-----------------------------------------------------------------------------
(***************************************************************************)
(* The client's life, as far as the cache goes.                            *)
(***************************************************************************)

\* Fault of StartClient: the cache file is not read.
StartClientEmpty ==
  /\ life = "off" /\ starts < MaxStart
  /\ life' = "on" /\ starts' = starts + 1
  /\ cache' = {}
  /\ UNCHANGED <<disk, req, dial, history>>

\* LoadCache: a file that is no json leaves the cache as it is, empty.
StartClient ==
  /\ life = "off" /\ starts < MaxStart
  /\ life' = "on" /\ starts' = starts + 1
  /\ cache' = IF whole THEN file ELSE {}
  /\ UNCHANGED <<disk, req, dial, history>>

StopClient ==
  /\ life = "on"
  /\ life' = "save"
  /\ UNCHANGED <<starts, cache, disk, req, dial, history>>

\* SaveCache, with the lock for readers until the end of the write.  Opening
\* the file truncates it, or fails.
OpenCache ==
  /\ life = "save"
  /\ \/ life' = "write" /\ whole' = FALSE /\ kept' = {}
     \/ life' = "stopped" /\ whole' = whole /\ kept' = kept
  /\ UNCHANGED <<starts, cache, file, req, dial, earned>>

WriteCache ==
  /\ life = "write"
  /\ life' = "stopped"
  /\ \/ file' = cache /\ whole' = TRUE /\ kept' = cache
     \/ UNCHANGED <<file, whole, kept>>
  /\ UNCHANGED <<starts, cache, req, dial, earned>>

\* The process ends: after WaitClient, or killed at any time.
Exit ==
  /\ life # "off"
  /\ life' = "off"
  /\ cache' = {}
  /\ req' = [r \in Request |-> NoReq]
  /\ dial' = [r \in Request |-> NoDial]
  /\ UNCHANGED <<starts, disk, history>>

-----------------------------------------------------------------------------
(***************************************************************************)
(* A request.                                                              *)
(***************************************************************************)

Goto(r, at) == req' = [req EXCEPT ![r].at = at]

\* Where a request begins: SkipDialer on one server, PACDialer on the other.
First(via, host) ==
  IF via = "proxy"
  THEN IF host \in Skipped THEN "direct" ELSE "proxy"
  ELSE IF Find(host) THEN "proxy" ELSE "lookup"

Ask(r) ==
  /\ life = "on"
  /\ req[r] = NoReq
  /\ \E via \in {"proxy", "auto"}, host \in Host :
       req' = [req EXCEPT ![r] = [at |-> First(via, host), host |-> host,
                                  via |-> via, missed |-> FALSE]]
  /\ UNCHANGED <<client, disk, dial, history>>

\* AutoPACDialer reads the cache, under the lock, then dials without it.
Lookup(r) ==
  /\ req[r].at = "lookup"
  /\ Goto(r, IF req[r].host \in cache THEN "proxy" ELSE "direct")
  /\ UNCHANGED <<client, disk, dial, history>>

\* NetDialer, whose dial ends.  AutoPACDialer goes on to a server.
Direct(r) ==
  /\ req[r].at = "direct"
  /\ \/ Goto(r, "done")
     \/ req[r].via = "proxy" /\ Goto(r, "failed")
     \/ /\ req[r].via = "auto"
        /\ req' = [req EXCEPT ![r].at = "proxy", ![r].missed = TRUE]
  /\ UNCHANGED <<client, disk, dial, history>>

\* core.Client.DialPiper: an idle channel or a new one, whose connection is
\* dialed.  Pool has the rest of it.
Proxy(r) ==
  /\ req[r].at = "proxy"
  /\ \/ Goto(r, "answer") /\ dial' = dial
     \/ Goto(r, "dialing") /\ Dial(r)
  /\ UNCHANGED <<client, disk, history>>

Dialed(r) ==
  /\ req[r].at = "dialing"
  /\ \/ dial[r].at = "ok" /\ Goto(r, "answer")
     \/ dial[r].at = "failed" /\ Goto(r, "failed")
  /\ UNCHANGED <<client, disk, dial, history>>

\* Fault of Answer: the host is learned whatever the server answers.
AnswerLearns(r) ==
  /\ req[r].at = "answer"
  /\ Goto(r, IF req[r].missed THEN "learn" ELSE "done")
  /\ UNCHANGED <<client, disk, dial, history>>

\* The server's answer: a session, or an error.
Answer(r) ==
  /\ req[r].at = "answer"
  /\ \/ Goto(r, "failed") /\ earned' = earned
     \/ /\ Goto(r, IF req[r].missed THEN "learn" ELSE "done")
        /\ earned' = IF req[r].missed THEN earned \cup {req[r].host} ELSE earned
  /\ UNCHANGED <<client, disk, dial, kept>>

\* SaveCache may hold the lock.
Learn(r) ==
  /\ req[r].at = "learn" /\ life # "write"
  /\ cache' = cache \cup {req[r].host}
  /\ Goto(r, "done")
  /\ UNCHANGED <<life, starts, disk, dial, history>>

RequestSteps(r) ==
  \/ Lookup(r) \/ Direct(r) \/ Proxy(r) \/ Dialed(r) \/ Answer(r) \/ Learn(r)

WebsocketSteps(r) == DialSteps(r) /\ UNCHANGED <<client, disk, req, history>>

Next ==
  \/ StartClient \/ StopClient \/ OpenCache \/ WriteCache \/ Exit
  \/ \E r \in Request : Ask(r) \/ RequestSteps(r) \/ WebsocketSteps(r)

Spec == Init /\ [][Next]_vars

\* Goroutines run, timers fire, dials of a TCP connection end, and a handshake
\* on a closed connection ends with an error.  A server may stay silent in a
\* handshake of either kind.
FairSpec ==
  /\ Spec
  /\ WF_vars(OpenCache \/ WriteCache)
  /\ \A r \in Request :
       /\ WF_vars(RequestSteps(r))
       /\ WF_vars((Connect(r) \/ TlsHandshake(r)) /\ WebsocketSteps(r))
       /\ WF_vars(TimerFires(r) /\ WebsocketSteps(r))
       /\ WF_vars(Receive(r) /\ WebsocketSteps(r))
       /\ WF_vars(dial[r].raw = "closed" /\ HandshakeFails(r) /\ WebsocketSteps(r))

-----------------------------------------------------------------------------
(***************************************************************************)
(* Properties.                                                             *)
(***************************************************************************)

\* The list's own meaning: a rule for a domain is one for all below it.
Listed(host) ==
  \E l \in Line :
    /\ l.kind = "rule"
    /\ l.labels = host \/ Len(l.labels) \in 2 .. Len(host) - 1
    /\ l.labels = SubSeq(host, Len(host) - Len(l.labels) + 1, Len(host))

\* A host of gfwlist.txt, or below one, is never dialed directly by the auto
\* proxy server, nor a skipped one through a server by the other, even when
\* the way it has fails (gfw.go:57-95, dialer.go:561, 684-692).
WayKept ==
  \A r \in Request :
    /\ req[r].via = "auto" /\ req[r].at \in {"lookup", "direct"} =>
         ~Listed(req[r].host)
    /\ req[r].via = "proxy" /\ req[r].host \in Skipped =>
         req[r].at \in {"direct", "done", "failed"}

\* The cache and its file send no host to a server but those that could not be
\* dialed directly while a server reached them, across stops, crashes and
\* requests of one host at a time (dialer.go:632-646).
EarnedOnly == cache \cup file \subseteq earned

\* What Stop has saved is in the cache of every later client, until the file
\* is opened again (dialer.go:599-614).
SavedKept == kept \subseteq file /\ (life = "on" => kept \subseteq cache)

\* Liveness: a request ends, or its dial is in the websocket handshake with a
\* server that is silent (dialer.go:316), and may stay there.
RequestEnds ==
  \A r \in Request :
    req[r].at # "idle" ~> \/ req[r].at \in {"idle", "done", "failed"}
                          \/ dial[r].at = "http"
=============================================================================
