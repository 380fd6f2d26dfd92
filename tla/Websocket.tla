----------------------------- MODULE Websocket -----------------------------
(***************************************************************************)
(* WebsocketDialer, core/dialer.go: the connection to a server, the TLS    *)
(* handshake of a goroutine that races a timer for the channel errChannel, *)
(* and the websocket handshake, which has no timeout.                      *)
(*                                                                         *)
(* A timer is never stopped, but its channel is that of one dial: each     *)
(* request has one dial here, and all that the dial leaves behind.         *)
(***************************************************************************)
EXTENDS Naturals, Sequences

CONSTANTS Request, Secure  \* the requests, and those that meet a wss server

VARIABLE dial  \* of each request: where its dial is, the raw connection, the
               \* handshake goroutine, the timer, and errChannel

NoDial == [at |-> "none", raw |-> "none", shake |-> "none", timer |-> "off",
           errs |-> <<>>]

DialType ==
  dial \in [Request ->
    [at : {"none", "connect", "tls", "wait", "http", "ok", "failed"},
     raw : {"none", "open", "closed"}, shake : {"none", "running", "ok", "bad"},
     timer : {"off", "set", "fired"}, errs : Seq({"ok", "bad", "timeout"})]]

Set(r, at) == dial' = [dial EXCEPT ![r].at = at]
SetRaw(r, at, raw) == dial' = [dial EXCEPT ![r].at = at, ![r].raw = raw]

Dial(r) == dial[r] = NoDial /\ Set(r, "connect")

Connect(r) ==
  /\ dial[r].at = "connect"
  /\ \/ SetRaw(r, IF r \in Secure THEN "tls" ELSE "http", "open")
     \/ Set(r, "failed")

\* Fault of TlsHandshake: there is no timer.
TlsHandshakeUntimed(r) ==
  /\ dial[r].at = "tls"
  /\ dial' = [dial EXCEPT ![r].at = "wait", ![r].shake = "running"]

TlsHandshake(r) ==
  /\ dial[r].at = "tls"
  /\ dial' = [dial EXCEPT ![r].at = "wait", ![r].shake = "running",
                          ![r].timer = "set"]

\* Both senders find room in errChannel, which holds two.
Room(r) == Len(dial[r].errs) < 2

TimerFires(r) ==
  /\ dial[r].timer = "set" /\ Room(r)
  /\ dial' = [dial EXCEPT ![r].timer = "fired",
                          ![r].errs = Append(@, "timeout")]

Shakes(r, err) ==
  /\ dial[r].shake = "running" /\ Room(r)
  /\ dial' = [dial EXCEPT ![r].shake = err, ![r].errs = Append(@, err)]

HandshakeOk(r) == dial[r].raw = "open" /\ Shakes(r, "ok")
HandshakeFails(r) == Shakes(r, "bad")

\* Fault of Receive: the connection is left to the handshake.
ReceiveLeaves(r) ==
  /\ dial[r].at = "wait" /\ dial[r].errs # <<>>
  /\ Set(r, IF Head(dial[r].errs) = "ok" THEN "http" ELSE "failed")

\* Fault of Receive: err is that of the handshake only.
ReceiveIgnores(r) ==
  /\ dial[r].at = "wait" /\ dial[r].errs # <<>>
  /\ IF Head(dial[r].errs) = "bad"
     THEN SetRaw(r, "failed", "closed") ELSE Set(r, "http")

\* The first of the two decides, and on an error dial closes the connection
\* that the goroutine may still use.
Receive(r) ==
  /\ dial[r].at = "wait" /\ dial[r].errs # <<>>
  /\ dial' = [dial EXCEPT ![r].errs = Tail(@),
                ![r].at = IF Head(dial[r].errs) = "ok" THEN "http" ELSE "failed",
                ![r].raw = IF Head(dial[r].errs) = "ok" THEN @ ELSE "closed"]

\* websocket.NewClient.  A server that stays silent keeps it for ever.
NewClient(r) ==
  /\ dial[r].at = "http"
  /\ Set(r, "ok") \/ SetRaw(r, "failed", "closed")

DialSteps(r) ==
  \/ Connect(r) \/ TlsHandshake(r) \/ TimerFires(r) \/ HandshakeOk(r)
  \/ HandshakeFails(r) \/ Receive(r) \/ NewClient(r)

-----------------------------------------------------------------------------

\* A dial that failed left no connection open, and a connection that was
\* dialed has its handshake done: never one that timed out while the handshake
\* went on (dialer.go:293-322).
DialSettled ==
  \A r \in Request :
    /\ dial[r].at = "failed" => dial[r].raw # "open"
    /\ dial[r].at \in {"http", "ok"} =>
         dial[r].raw = "open" /\ (r \in Secure => dial[r].shake = "ok")

\* Liveness: a handshake ends, also one that its dial did not wait for, with a
\* server that stays silent (dialer.go:299-302).
HandshakeEnds ==
  \A r \in Request : dial[r].shake = "running" ~> dial[r].shake # "running"
=============================================================================
