------------------------------ MODULE Channel ------------------------------
(***************************************************************************)
(* One coversocks channel, core/cs.go: the raw link of one websocket, the  *)
(* ChannelConn at each of its two ends, the server's ProcConn loop and the *)
(* client's side of it (DialBack, DialConn, the piper and its Close), over *)
(* the sequence of proxy sessions that reuse the channel.                  *)
(*                                                                         *)
(* A session is one proxied connection: the client writes a dial frame,    *)
(* the server dials the target and writes a back frame, both ends copy     *)
(* data frames, and a close frame in each direction gives the channel back *)
(* to the client's idle pool.  Frames carry no session number: the field   *)
(* sess of a frame is a history value the code cannot see, it says which   *)
(* session the frame was written for.                                      *)
(***************************************************************************)
EXTENDS Naturals, Sequences

CONSTANTS
  MaxSession,  \* bound: dials the client makes on the channel
  MaxData,     \* bound: data frames per session and direction, of which
  MaxStream,   \* bound: those of a copy, that are no datagrams
  MaxAdmin,    \* bound: closes from outside the session (eviction, shutdown)
  Udpgw        \* the sessions whose target is tcp://udpgw, served by a UDPGW

ASSUME ChannelAssumption ==
  /\ MaxSession \in Nat \ {0}
  /\ MaxData \in Nat
  /\ MaxStream \in 0 .. MaxData
  /\ MaxAdmin \in Nat
  /\ Udpgw \subseteq 1 .. MaxSession

Session == 1 .. MaxSession
Ends == {"client", "server"}
Peer(e) == IF e = "client" THEN "server" ELSE "client"

\* "ok" and "refused" are the two answers a back frame (CmdConnBack) carries.
Commands == {"dial", "ok", "refused", "data", "close"}
Frame == [cmd : Commands, sess : 0 .. MaxSession, n : 0 .. MaxData]
DialFrame(s) == [cmd |-> "dial", sess |-> s, n |-> 0]
BackFrame(s, answer) == [cmd |-> answer, sess |-> s, n |-> 0]
DataFrame(s, k) == [cmd |-> "data", sess |-> s, n |-> k]
CloseFrame == [cmd |-> "close", sess |-> 0, n |-> 0]

VARIABLES
  wire,    \* wire[e]: the frames on their way to end e
  raw,     \* raw[e]: whether end e has closed its raw connection
  cut,     \* the raw link is lost
  err,     \* err[e]: ChannelConn.Error # nil
  using,   \* using[e]: ChannelConn.Using as the session number, 0 for ""
  pc,      \* where the goroutine that owns the channel is, at each end
  sess,    \* the last session the client dialed
  serving, \* the last session the server read a dial for (targetURI)
  dir,     \* dir[e]: the two copies of the piper, in = channel to local
  local,   \* local[e]: the user's connection (client), the target's (server)
  pooled,  \* pushConn has put the channel in the idle pool at least once
  evicted, \* pushConn of another channel has closed this one as the oldest
  listed,  \* Client.Close has listed this channel and not yet closed it
  admin,   \* closes from outside so far
  late,    \* datagrams read and not yet written, each by its session and number
  accepted,\* history: sessions the server has accepted
  sent,    \* history: data frames written by end e for session s, or, of a
           \* gateway's, datagrams read
  got      \* history: what end e handed to the local side of session s

outer == <<pooled, evicted, listed, admin>>
history == <<accepted, sent, got>>
vars == <<wire, raw, cut, err, using, pc, sess, serving, dir, local, pooled,
          evicted, listed, admin, late, accepted, sent, got>>

ClientPC == {"idle", "dialing", "dropping", "piping", "gone"}
ServerPC == {"reading", "dialing", "piping", "stopped"}

\* The type invariant: values the fields of the two ChannelConn may take.
TypeOK ==
  /\ wire \in [Ends -> Seq(Frame)]
  /\ raw \in [Ends -> {"open", "closed"}]
  /\ cut \in BOOLEAN
  /\ err \in [Ends -> BOOLEAN]
  /\ using \in [Ends -> 0 .. MaxSession]
  /\ pc \in [Ends -> ClientPC \cup ServerPC]
  /\ pc["client"] \in ClientPC
  /\ pc["server"] \in ServerPC
  /\ sess \in 0 .. MaxSession
  /\ serving \in 0 .. MaxSession
  /\ dir \in [Ends -> [in : {"run", "done"}, out : {"run", "done"}]]
  /\ local \in [Ends -> {"open", "eof", "closed"}]
  /\ pooled \in BOOLEAN
  /\ evicted \in BOOLEAN
  /\ listed \in BOOLEAN
  /\ admin \in 0 .. MaxAdmin
  /\ late \in SUBSET (Session \X (1 .. MaxData))
  /\ accepted \in SUBSET Session
  /\ sent \in [Ends -> [Session -> 0 .. MaxData]]
  /\ got \in [Ends -> [Session -> Seq(Session \X (0 .. MaxData))]]

Init ==
  /\ wire = [e \in Ends |-> <<>>]
  /\ raw = [e \in Ends |-> "open"]
  /\ cut = FALSE
  /\ err = [e \in Ends |-> FALSE]
  /\ using = [e \in Ends |-> 0]
  /\ pc = [e \in Ends |-> IF e = "client" THEN "idle" ELSE "reading"]
  /\ sess = 0
  /\ serving = 0
  /\ dir = [e \in Ends |-> [in |-> "done", out |-> "done"]]
  /\ local = [e \in Ends |-> "closed"]
  /\ pooled = FALSE
  /\ evicted = FALSE
  /\ listed = FALSE
  /\ admin = 0
  /\ late = {}
  /\ accepted = {}
  /\ sent = [e \in Ends |-> [s \in Session |-> 0]]
  /\ got = [e \in Ends |-> [s \in Session |-> <<>>]]

-----------------------------------------------------------------------------
(***************************************************************************)
(* The raw link and the frame reader and writer (external), and the        *)
(* ChannelConn methods built on them.                                      *)
(***************************************************************************)

Linked == ~cut /\ \A e \in Ends : raw[e] = "open"

\* A raw read fails when this end is closed, or after the last frame of a
\* link that is lost or that the peer has closed.
ReadError(e) == raw[e] = "closed" \/ (wire[e] = <<>> /\ ~Linked)

Incoming(e) == raw[e] = "open" /\ wire[e] # <<>>
Taken(e) == [wire EXCEPT ![e] = Tail(@)]

\* WriteFrame and WriteCommand: a write on a dead link fails and records the
\* error, or is lost in a buffer.
WriteFrame(e, f) ==
  \/ /\ raw[e] = "open"
     /\ wire' = [wire EXCEPT ![Peer(e)] = IF Linked THEN Append(@, f) ELSE @]
     /\ UNCHANGED err
  \/ /\ ~Linked
     /\ err' = [err EXCEPT ![e] = TRUE]
     /\ UNCHANGED wire

\* ChannelConn.Close: without an error it only writes a close frame, the raw
\* connection is closed when there is an error or when that write fails.
Close(e) ==
  /\ \/ err[e] /\ UNCHANGED <<wire, err>>
     \/ ~err[e] /\ WriteFrame(e, CloseFrame)
  /\ raw' = [raw EXCEPT ![e] = IF err'[e] THEN "closed" ELSE @]

\* An error is recorded and Close called on it.
Break(e) ==
  /\ err' = [err EXCEPT ![e] = TRUE]
  /\ raw' = [raw EXCEPT ![e] = "closed"]

Goto(e, to) == pc' = [pc EXCEPT ![e] = to]

-----------------------------------------------------------------------------
(***************************************************************************)
(* The client end: DialBack, DialConn, DialPiper and piperConn.Close.      *)
(***************************************************************************)

\* DialBack writes the dial command; a failed write closes the channel.
ClientDial ==
  /\ pc["client"] = "idle"
  /\ sess < MaxSession
  /\ sess' = sess + 1
  /\ WriteFrame("client", DialFrame(sess + 1))
  /\ raw' = [raw EXCEPT !["client"] = IF err'["client"] THEN "closed" ELSE @]
  /\ Goto("client", IF err'["client"] THEN "gone" ELSE "dialing")
  /\ UNCHANGED <<cut, using, serving, dir, local, outer, late, history>>

StartPipe(e, s) ==
  /\ using' = [using EXCEPT ![e] = s]
  /\ dir' = [dir EXCEPT ![e] = [in |-> "run", out |-> "run"]]
  /\ local' = [local EXCEPT ![e] = "open"]

\* Fault of ClientBack: a frame that is no answer is taken for a refusal.
ClientBackAnyFrame ==
  /\ pc["client"] = "dialing"
  /\ Incoming("client")
  /\ Head(wire["client"]).cmd # "data"
  /\ wire' = Taken("client")
  /\ IF Head(wire["client"]).cmd = "ok"
     THEN /\ Goto("client", "piping")
          /\ StartPipe("client", sess)
          /\ UNCHANGED pooled
     ELSE /\ Goto("client", "idle")
          /\ pooled' = TRUE
          /\ UNCHANGED <<using, dir, local>>
  /\ UNCHANGED <<raw, cut, err, sess, serving, evicted, listed, admin,
                 late, history>>

\* The first frame read is taken for the answer, whatever it answers: "ok"
\* starts the session, any other back text is a refusal.
ClientBack ==
  /\ pc["client"] = "dialing"
  /\ Incoming("client")
  /\ wire' = Taken("client")
  /\ \/ /\ Head(wire["client"]).cmd = "ok"
        /\ Goto("client", "piping")
        /\ StartPipe("client", sess)
        /\ UNCHANGED pooled
     \/ /\ Head(wire["client"]).cmd \in {"dial", "refused"}
        /\ Goto("client", "idle")
        /\ pooled' = TRUE
        /\ UNCHANGED <<using, dir, local>>
  /\ UNCHANGED <<raw, cut, err, sess, serving, evicted, listed, admin,
                 late, history>>

\* ReadFrame fails: a data frame outside a session or a dead link is an
\* error of the channel, a close frame is not.
ClientBackFails ==
  /\ pc["client"] = "dialing"
  /\ \/ /\ ReadError("client")
        /\ Break("client")
        /\ Goto("client", "gone")
        /\ UNCHANGED wire
     \/ /\ Incoming("client")
        /\ Head(wire["client"]).cmd = "data"
        /\ wire' = Taken("client")
        /\ Break("client")
        /\ Goto("client", "gone")
     \/ /\ Incoming("client")
        /\ Head(wire["client"]).cmd = "close"
        /\ wire' = Taken("client")
        /\ Goto("client", "dropping")
        /\ UNCHANGED <<raw, err>>
  /\ UNCHANGED <<cut, using, sess, serving, dir, local, outer, late, history>>

\* Fault of ClientDrop: the channel is tried again instead of being dropped.
ClientDropRetries ==
  /\ pc["client"] = "dropping"
  /\ Goto("client", "idle")
  /\ UNCHANGED <<wire, raw, cut, err, using, sess, serving, dir, local, outer,
                 late, history>>

\* DialBack closes the channel it failed on and tries another one.
ClientDrop ==
  /\ pc["client"] = "dropping"
  /\ Close("client")
  /\ Goto("client", "gone")
  /\ UNCHANGED <<cut, using, sess, serving, dir, local, outer, late, history>>

PipeDone(e) == pc[e] = "piping" /\ dir[e] = [in |-> "done", out |-> "done"]

\* piperConn.Close after the copy has returned.
ClientPipeEnd ==
  /\ PipeDone("client")
  /\ IF err["client"]
     THEN /\ Goto("client", "gone")
          /\ Close("client")
          /\ UNCHANGED <<using, pooled>>
     ELSE /\ Goto("client", "idle")
          /\ using' = [using EXCEPT !["client"] = 0]
          /\ pooled' = TRUE
          /\ UNCHANGED <<wire, raw, err>>
  /\ UNCHANGED <<cut, sess, serving, dir, local, evicted, listed, admin,
                 late, history>>

-----------------------------------------------------------------------------
(***************************************************************************)
(* The server end: the loop of Server.ProcConn.                            *)
(***************************************************************************)

ServerReadDial ==
  /\ pc["server"] = "reading"
  /\ Incoming("server")
  /\ Head(wire["server"]).cmd = "dial"
  /\ wire' = Taken("server")
  /\ serving' = Head(wire["server"]).sess
  /\ Goto("server", "dialing")
  /\ UNCHANGED <<raw, cut, err, using, sess, dir, local, outer, late, history>>

\* Fault of ServerStop: a close frame outside a session is skipped.
ServerStopNotOnClose ==
  /\ pc["server"] = "reading"
  /\ \/ /\ ReadError("server")
        /\ Break("server")
        /\ Goto("server", "stopped")
        /\ UNCHANGED wire
     \/ /\ Incoming("server")
        /\ Head(wire["server"]).cmd = "close"
        /\ wire' = Taken("server")
        /\ UNCHANGED <<raw, err, pc>>
  /\ UNCHANGED <<cut, using, sess, serving, dir, local, outer, late, history>>

\* Fault of ServerStop: the loop does not end when the link is dead.
ServerStopOnFrame ==
  /\ pc["server"] = "reading"
  /\ Incoming("server")
  /\ Head(wire["server"]).cmd # "dial"
  /\ wire' = Taken("server")
  /\ Break("server")
  /\ Goto("server", "stopped")
  /\ UNCHANGED <<cut, using, sess, serving, dir, local, outer, late, history>>

\* Any read that fails, a close frame included, and any other command ends
\* the loop with conn.Error set, and so closes the raw connection.
ServerStop ==
  /\ pc["server"] = "reading"
  /\ \/ ReadError("server") /\ UNCHANGED wire
     \/ /\ Incoming("server")
        /\ Head(wire["server"]).cmd # "dial"
        /\ wire' = Taken("server")
  /\ Break("server")
  /\ Goto("server", "stopped")
  /\ UNCHANGED <<cut, using, sess, serving, dir, local, outer, late, history>>

\* Faults of ServerRefuse: the wrong answer, and no answer at all.
ServerRefuseOk ==
  /\ pc["server"] = "dialing"
  /\ WriteFrame("server", BackFrame(serving, "ok"))
  /\ Goto("server", "reading")
  /\ UNCHANGED <<raw, cut, using, sess, serving, dir, local, outer, late,
                 history>>

ServerRefuseSilently ==
  /\ pc["server"] = "dialing"
  /\ Goto("server", "reading")
  /\ UNCHANGED <<wire, raw, cut, err, using, sess, serving, dir, local, outer,
                 late, history>>

ServerRefuse ==
  /\ pc["server"] = "dialing"
  /\ WriteFrame("server", BackFrame(serving, "refused"))
  /\ Goto("server", "reading")
  /\ UNCHANGED <<raw, cut, using, sess, serving, dir, local, outer, late,
                 history>>

ServerAccept ==
  /\ pc["server"] = "dialing"
  /\ WriteFrame("server", BackFrame(serving, "ok"))
  /\ Goto("server", "piping")
  /\ StartPipe("server", serving)
  /\ accepted' = accepted \cup {serving}
  /\ UNCHANGED <<raw, cut, sess, serving, outer, late, sent, got>>

ServerPipeEnd ==
  /\ PipeDone("server")
  /\ using' = [using EXCEPT !["server"] = 0]
  /\ IF err["server"]
     THEN Goto("server", "stopped") /\ Close("server")
     ELSE Goto("server", "reading") /\ UNCHANGED <<wire, raw, err>>
  /\ UNCHANGED <<cut, sess, serving, dir, local, outer, late, history>>

-----------------------------------------------------------------------------
(***************************************************************************)
(* The copy piper (external): two copies that run until their source ends  *)
(* or their destination refuses, each closing its destination.  A UDPGW is *)
(* the piper of a udpgw session: its in copy is the loop of PipeConn, its  *)
(* out copy the procRead goroutines, one for each of its sockets, which    *)
(* PipeConn does not wait for.                                             *)
(***************************************************************************)

Copying(e, d) == pc[e] = "piping" /\ dir[e][d] = "run"
ByUdpgw(e) == e = "server" /\ serving \in Udpgw

EndCopyIn(e) ==
  /\ dir' = [dir EXCEPT ![e].in = "done"]
  /\ local' = [local EXCEPT ![e] = "closed"]

\* A data frame goes to the local side, or finds it closed.
PipeData(e) ==
  /\ Copying(e, "in")
  /\ Incoming(e)
  /\ LET f == Head(wire[e]) IN
     /\ f.cmd = "data"
     /\ IF local[e] = "closed"
        THEN EndCopyIn(e) /\ UNCHANGED got
        ELSE /\ got' = [got EXCEPT ![e][using[e]] = Append(@, <<f.sess, f.n>>)]
             /\ UNCHANGED <<dir, local>>
  /\ wire' = Taken(e)
  /\ UNCHANGED <<raw, cut, err, using, pc, sess, serving, outer, late,
                 accepted, sent>>

\* ReadFrame ends the copy: a close frame leaves Error alone, a dial or back
\* frame inside a session and a dead link set it.
PipeStop(e) ==
  /\ Copying(e, "in")
  /\ \/ /\ ReadError(e)
        /\ err' = [err EXCEPT ![e] = TRUE]
        /\ UNCHANGED wire
     \/ /\ Incoming(e)
        /\ Head(wire[e]).cmd # "data"
        /\ err' = [err EXCEPT ![e] = @ \/ Head(wire[e]).cmd # "close"]
        /\ wire' = Taken(e)
  /\ EndCopyIn(e)
  /\ UNCHANGED <<raw, cut, using, pc, sess, serving, outer, late, history>>

\* Local data is written to the channel; a write error ends the copy, whose
\* destination is then closed.
PipeSend(e) ==
  /\ Copying(e, "out")
  /\ ~ByUdpgw(e)
  /\ local[e] = "open"
  /\ sent[e][using[e]] < MaxStream
  /\ sent' = [sent EXCEPT ![e][using[e]] = @ + 1]
  /\ WriteFrame(e, DataFrame(using[e], sent[e][using[e]] + 1))
  /\ raw' = [raw EXCEPT ![e] = IF err'[e] THEN "closed" ELSE @]
  /\ dir' = [dir EXCEPT ![e].out = IF err'[e] THEN "done" ELSE @]
  /\ UNCHANGED <<cut, using, pc, sess, serving, local, outer, late,
                 accepted, got>>

\* Fault of PipeClose: the peer is not told.
PipeCloseSilently(e) ==
  /\ Copying(e, "out")
  /\ local[e] # "open"
  /\ dir' = [dir EXCEPT ![e].out = "done"]
  /\ UNCHANGED <<wire, raw, cut, err, using, pc, sess, serving, local, outer,
                 late, history>>

\* The local side has ended: the copy ends and closes the channel end.
PipeClose(e) ==
  /\ Copying(e, "out")
  /\ local[e] # "open"
  /\ Close(e)
  /\ dir' = [dir EXCEPT ![e].out = "done"]
  /\ UNCHANGED <<cut, using, pc, sess, serving, local, outer, late, history>>

\* The user or the target ends its stream, or is gone for writes too.
LocalEnds(e) ==
  /\ pc[e] = "piping"
  /\ ~ByUdpgw(e)
  /\ \/ local[e] = "open" /\ local' = [local EXCEPT ![e] = "eof"]
     \/ local[e] # "closed" /\ local' = [local EXCEPT ![e] = "closed"]
  /\ UNCHANGED <<wire, raw, cut, err, using, pc, sess, serving, dir, outer,
                 late, history>>

\* procRead: a datagram is read as long as its socket is open.  The gateway of
\* s opens its sockets on the frames it is handed.  cloaseAllConn closes those
\* that are listed as the session ends; one that an older procRead of its id
\* has unlisted (150) is read on, after the session and in later ones.
UdpgwRead(s) ==
  /\ s \in Udpgw \cap accepted
  /\ got["server"][s] # <<>>
  /\ sent["server"][s] < MaxData
  /\ sent' = [sent EXCEPT !["server"][s] = @ + 1]
  /\ late' = late \cup {<<s, sent["server"][s] + 1>>}
  /\ UNCHANGED <<wire, raw, cut, err, using, pc, sess, serving, dir, local,
                 outer, accepted, got>>

\* Fault of UdpgwWrite: a datagram is kept and written once more.
UdpgwWriteTwice(m) ==
  /\ m \in late
  /\ late' \in {late, late \ {m}}
  /\ WriteFrame("server", DataFrame(m[1], m[2]))
  /\ UNCHANGED <<raw, cut, using, pc, sess, serving, dir, local, outer,
                 history>>

\* Each procRead writes the one it has read to the channel later, whatever the
\* channel does by then and in whatever turn.
UdpgwWrite(m) ==
  /\ m \in late
  /\ late' = late \ {m}
  /\ WriteFrame("server", DataFrame(m[1], m[2]))
  /\ UNCHANGED <<raw, cut, using, pc, sess, serving, dir, local, outer,
                 history>>

-----------------------------------------------------------------------------
(***************************************************************************)
(* What closes a channel from outside its session, and the raw link.       *)
(***************************************************************************)

\* timeoutConn: an idle channel is closed and leaves the pool.
Expire ==
  /\ pc["client"] = "idle"
  /\ pooled
  /\ Close("client")
  /\ Goto("client", "gone")
  /\ UNCHANGED <<cut, using, sess, serving, dir, local, outer, late, history>>

Admin == admin < MaxAdmin /\ admin' = admin + 1

\* pushConn of another channel into a full pool: the oldest idle channel is
\* closed, and stays in the pool.
Evict ==
  /\ Admin
  /\ pc["client"] = "idle"
  /\ pooled
  /\ Close("client")
  /\ evicted' = TRUE
  /\ UNCHANGED <<cut, using, pc, sess, serving, dir, local, pooled, listed,
                 late, history>>

\* Client.Close lists the channels of conns, those never pushed to the pool,
\* under the lock ...
ClientList ==
  /\ Admin
  /\ ~pooled
  /\ listed' = TRUE
  /\ UNCHANGED <<wire, raw, cut, err, using, pc, sess, serving, dir, local,
                 pooled, evicted, late, history>>

\* ... and closes them after it has released the lock.
ClientShut ==
  /\ listed
  /\ listed' = FALSE
  /\ Close("client")
  /\ UNCHANGED <<cut, using, pc, sess, serving, dir, local, pooled, evicted,
                 admin, late, history>>

\* Server.Close: every channel whose ProcConn has not returned.
ServerShut ==
  /\ Admin
  /\ pc["server"] # "stopped"
  /\ Close("server")
  /\ UNCHANGED <<cut, using, pc, sess, serving, dir, local, pooled, evicted,
                 listed, late, history>>

\* The link is lost, with any of the last frames of each direction.
Cut ==
  /\ ~cut
  /\ cut' = TRUE
  /\ \E i \in 0 .. Len(wire["client"]), j \in 0 .. Len(wire["server"]) :
       wire' = [e \in Ends |->
                  SubSeq(wire[e], 1, IF e = "client" THEN i ELSE j)]
  /\ UNCHANGED <<raw, err, using, pc, sess, serving, dir, local, outer, late,
                 history>>

\* The listener's timer: nothing has come from the client for Timeout.
IdleTimeout ==
  /\ ~cut
  /\ wire["server"] = <<>>
  /\ raw["server"] = "open"
  /\ cut' = TRUE
  /\ UNCHANGED <<wire, raw, err, using, pc, sess, serving, dir, local, outer,
                 late, history>>

-----------------------------------------------------------------------------

ClientNext ==
  \/ ClientDial \/ ClientBack \/ ClientBackFails \/ ClientDrop
  \/ ClientPipeEnd

ServerNext ==
  \/ ServerReadDial \/ ServerStop \/ ServerRefuse \/ ServerAccept
  \/ ServerPipeEnd

PipeNext(e) ==
  PipeData(e) \/ PipeStop(e) \/ PipeSend(e) \/ PipeClose(e) \/ LocalEnds(e)

Outside ==
  \/ Expire \/ Evict \/ ClientList \/ ClientShut \/ ServerShut
  \/ Cut \/ IdleTimeout

Next ==
  \/ ClientNext
  \/ ServerNext
  \/ \E e \in Ends : PipeNext(e)
  \/ \E s \in Session : UdpgwRead(s)
  \/ \E m \in late : UdpgwWrite(m)
  \/ Outside

Spec == Init /\ [][Next]_vars

\* The goroutines run: each step a goroutine of the program can take without
\* the user, the target or the timers is taken.  A dial to the target answers
\* or fails within NetDialer's five seconds.
Running ==
  /\ WF_vars(ClientBack \/ ClientBackFails \/ ClientDrop \/ ClientPipeEnd)
  /\ WF_vars(ServerNext)
  /\ \A e \in Ends : /\ WF_vars(PipeData(e) \/ PipeStop(e))
                     /\ WF_vars(PipeClose(e))

FairSpec == Spec /\ Running

\* In addition the listener's idle timer fires.
TimedSpec == FairSpec /\ WF_vars(IdleTimeout)

-----------------------------------------------------------------------------
(***************************************************************************)
(* Properties.                                                             *)
(***************************************************************************)

\* What an end hands to the local side of session s is what the other end
\* wrote for s, in order, none of it twice.
Exact(e, s) ==
  /\ Len(got[e][s]) <= sent[Peer(e)][s]
  /\ \A i \in 1 .. Len(got[e][s]) : got[e][s][i] = <<s, i>>

\* Isolation (the reuse of one channel for many targets, Client.pushConn and
\* Client.pullConn): so it is in every session, at both ends.
Isolation == \A e \in Ends, s \in Session : Exact(e, s)

\* No datagram of a udpgw session can be on the wire of end e in session s.
Sealed(e, s) == e = "server" \/ Udpgw \cap (1 .. s) = {}

\* Both ends that copy do so for one session: the answer a DialBack takes for
\* its own is never the answer to another dial.
SameSession ==
  pc["client"] = "piping" /\ pc["server"] = "piping" =>
    using["client"] = using["server"]

\* A channel in the client's idle pool is between sessions: no dial and no
\* answer of an earlier session is in flight, and the server is not dialing.
QuietPool ==
  pc["client"] = "idle" =>
    /\ pc["server"] # "dialing"
    /\ \A e \in Ends : \A i \in 1 .. Len(wire[e]) :
         wire[e][i].cmd \in {"data", "close"}

\* With a udpgw session on the channel Isolation fails (LateDatagram.cfg): the
\* procRead goroutines outlive the session (udpgw.go:143-183).  The sessions no
\* datagram can stray into are isolated still; what the client gets in another
\* one was written for it or for a udpgw session up to it, and no message is
\* handed over twice, in one session or in two.
StrayOnlyUdpgw ==
  /\ \A e \in Ends, s \in Session : Sealed(e, s) => Exact(e, s)
  /\ \A s \in Session : \A i \in 1 .. Len(got["client"][s]) :
       LET m == got["client"][s][i] IN
       /\ m[1] \in {s} \cup (Udpgw \cap 1 .. s)
       /\ m[2] \in 1 .. sent["server"][m[1]]
  /\ \A s, t \in Session :
       \A i \in 1 .. Len(got["client"][s]), j \in 1 .. Len(got["client"][t]) :
         got["client"][s][i] = got["client"][t][j] => s = t /\ i = j

\* A channel closed as the oldest by pushConn stays in the pool (cs.go:429-445)
\* and may be pulled again; it never carries another session.
EvictedNeverServes == evicted => pc["client"] # "piping"

\* The channel as the abstract tunnel: every step of the code is a step of
\* Tunnel, or changes none of what it promises.
ClientPhase(s) ==
  CASE s > sess -> "new"
    [] s = sess /\ pc["client"] \in {"dialing", "dropping"} -> "dialing"
    [] s = sess /\ pc["client"] = "piping" -> "open"
    [] OTHER -> "over"

ServerPhase(s) ==
  CASE s = serving /\ pc["server"] = "dialing" -> "dialing"
    [] s = serving /\ pc["server"] = "piping" -> "open"
    [] \/ s < serving
       \/ s = serving /\ pc["server"] \in {"reading", "stopped"} ->
         IF s \in accepted THEN "over" ELSE "refused"
    [] OTHER -> "new"

TunnelOf == INSTANCE Tunnel WITH
  Datagram <- Udpgw,
  phase <- [e \in Ends |-> [s \in Session |->
              IF e = "client" THEN ClientPhase(s) ELSE ServerPhase(s)]]

ImplementsTunnel == TunnelOf!Spec

\* Liveness (FairSpec): a dial is answered or fails, although DialBack reads
\* without a timeout (cs.go:57): the server always answers or closes.
DialAnswered == pc["client"] = "dialing" ~> pc["client"] # "dialing"

\* Liveness (FairSpec): a user that ends its stream gets its session ended at
\* the client, whatever the target does.
SessionEnds ==
  pc["client"] = "piping" /\ local["client"] # "open" ~>
    pc["client"] \in {"idle", "gone"}

\* Liveness (TimedSpec): the server's goroutine of a channel the client has
\* dropped ends.  It needs the idle timer: the client may drop a channel with
\* nothing but a close frame that the server takes for the end of a session.
ServerReleased == pc["client"] = "gone" ~> pc["server"] = "stopped"
=============================================================================
