--------------------------- MODULE ChannelProofs ----------------------------
(***************************************************************************)
(* Proofs about Channel.tla, for any number of sessions and of frames, any *)
(* closes from outside and any udpgw sessions: the type invariant, that a  *)
(* channel in the idle pool is between sessions, that two ends that copy   *)
(* do so for one session, that an evicted channel carries no further       *)
(* session, that a session whose data no datagram can overtake gets the    *)
(* bytes of its own peer only and in order, that no message is handed over *)
(* twice and only datagrams cross sessions, that a channel is a sequence   *)
(* of the connections of Tunnel.tla, and that no end is left waiting for   *)
(* something that nobody will do.                                          *)
(***************************************************************************)
EXTENDS Channel, TLAPS

-----------------------------------------------------------------------------
(***************************************************************************)
(* The inductive invariant.                                                *)
(***************************************************************************)

\* The frames that an end may find on its wire: only the client dials, only
\* the server answers, and data belongs to a session.
Frames(e) ==
  {f \in Frame :
     /\ f.cmd \in IF e = "server" THEN {"dial", "data", "close"}
                  ELSE {"ok", "refused", "data", "close"}
     /\ f.cmd \in {"dial", "data"} => f.sess \in Session}

Wires == \A e \in Ends : wire[e] \in Seq(Frames(e))

\* Who dials or copies does so for a session.
Named ==
  /\ pc["client"] = "dialing" => sess \in Session
  /\ pc["server"] = "dialing" => serving \in Session
  /\ pc["client"] = "piping" => using["client"] = sess /\ sess \in Session
  /\ pc["server"] = "piping" => using["server"] = serving /\ serving \in Session

\* Where the dials and the answers in flight are.
Dials == {i \in 1 .. Len(wire["server"]) : wire["server"][i].cmd = "dial"}
Answers ==
  {i \in 1 .. Len(wire["client"]) : wire["client"][i].cmd \in {"ok", "refused"}}

\* A dial is one thing: a frame to the server, the server's dial of the
\* target, or an answer, and there is no other while the client waits for it.
OneDial ==
  pc["client"] = "dialing" =>
    /\ \A i, j \in Dials : i = j
    /\ \A i, j \in Answers : i = j
    /\ \A i \in Dials : wire["server"][i].sess = sess
    /\ Dials # {} => Answers = {} /\ pc["server"] # "dialing"
    /\ pc["server"] = "dialing" => Answers = {} /\ serving = sess
    /\ Answers # {} => serving = sess

\* A client that does not wait for an answer, and has not given up, has none
\* to come.
NoDial ==
  pc["client"] \in {"idle", "piping"} =>
    Dials = {} /\ Answers = {} /\ pc["server"] # "dialing"

\* The session the client has open is the last one the server served.
Served == pc["client"] = "piping" => serving = sess

Order == OneDial /\ NoDial /\ Served
IInv == TypeOK /\ Wires /\ Named /\ Order

-----------------------------------------------------------------------------
(***************************************************************************)
(* The raw link: what a read and a write do to the frames in flight.       *)
(***************************************************************************)

LEMMA Peers == \A e \in Ends : Peer(e) \in Ends /\ Peer(e) # e
BY DEF Ends, Peer

\* The frames of an end are frames, and a close frame may go to either.
LEMMA FramesType ==
  \A e \in Ends : Frames(e) \subseteq Frame /\ CloseFrame \in Frames(e)
BY ChannelAssumption DEF Frames, Frame, CloseFrame, Commands

\* The types of the wires follow from the frames on them.
LEMMA WiresType ==
  ASSUME NEW w \in [Ends -> Seq(Frame)], NEW v,
         v = [e \in Ends |-> v[e]],
         \A e \in Ends : v[e] \in Seq(Frames(e))
  PROVE  v \in [Ends -> Seq(Frame)]
<1>1. \A e \in Ends : v[e] \in Seq(Frame)
  <2> SUFFICES ASSUME NEW e \in Ends PROVE v[e] \in Seq(Frame) OBVIOUS
  <2>1. Frames(e) \subseteq Frame BY FramesType
  <2> QED BY <2>1
<1> QED BY <1>1

\* A read takes the first frame (ChannelConn.ReadFrame, cs.go:53-78).
LEMMA TakenKeeps ==
  ASSUME TypeOK, Wires, NEW e \in Ends, Incoming(e), wire' = Taken(e)
  PROVE  /\ wire' \in [Ends -> Seq(Frame)] /\ Wires'
         /\ Head(wire[e]) \in Frames(e)
         /\ wire'[e] = Tail(wire[e]) /\ wire[e] # <<>>
         /\ wire'[Peer(e)] = wire[Peer(e)]
<1>1. wire \in [Ends -> Seq(Frame)] BY DEF TypeOK
<1>2. wire[e] \in Seq(Frames(e)) /\ wire[e] # <<>> BY DEF Wires, Incoming
<1>3. Head(wire[e]) \in Frames(e) /\ Tail(wire[e]) \in Seq(Frames(e))
  BY <1>2
<1>4. /\ wire'[e] = Tail(wire[e])
      /\ \A d \in Ends \ {e} : wire'[d] = wire[d]
      /\ wire' = [d \in Ends |-> wire'[d]]
  BY <1>1 DEF Taken
<1>5. \A d \in Ends : wire'[d] \in Seq(Frames(d)) BY <1>3, <1>4 DEF Wires
<1>6. wire' \in [Ends -> Seq(Frame)] BY <1>1, <1>4, <1>5, WiresType
<1>7. wire'[Peer(e)] = wire[Peer(e)] BY <1>4, Peers
<1> QED BY <1>2, <1>3, <1>4, <1>5, <1>6, <1>7 DEF Wires

\* A write adds a frame, or is lost (cs.go:80-100).
LEMMA WriteKeeps ==
  ASSUME TypeOK, Wires, NEW e \in Ends, NEW f \in Frames(Peer(e)),
         WriteFrame(e, f)
  PROVE  /\ wire' \in [Ends -> Seq(Frame)] /\ Wires'
         /\ err' \in [Ends -> BOOLEAN]
         /\ wire'[e] = wire[e]
         /\ \/ wire'[Peer(e)] = wire[Peer(e)]
            \/ wire'[Peer(e)] = Append(wire[Peer(e)], f)
<1>1. wire \in [Ends -> Seq(Frame)] /\ err \in [Ends -> BOOLEAN]
  BY DEF TypeOK
<1>2. err' \in [Ends -> BOOLEAN] BY <1>1 DEF WriteFrame
<1>3. Peer(e) \in Ends /\ Peer(e) # e BY Peers
<1>4. wire[Peer(e)] \in Seq(Frames(Peer(e))) BY <1>3 DEF Wires
<1>5. Append(wire[Peer(e)], f) \in Seq(Frames(Peer(e))) BY <1>4
<1>6. CASE wire' = wire
  BY <1>1, <1>2, <1>6 DEF Wires
<1>7. CASE wire' = [wire EXCEPT ![Peer(e)] = Append(@, f)]
  <2>1. /\ wire'[Peer(e)] = Append(wire[Peer(e)], f)
        /\ \A d \in Ends \ {Peer(e)} : wire'[d] = wire[d]
        /\ wire' = [d \in Ends |-> wire'[d]]
    BY <1>1, <1>3, <1>7
  <2>2. \A d \in Ends : wire'[d] \in Seq(Frames(d))
    BY <1>5, <2>1 DEF Wires
  <2>3. wire' \in [Ends -> Seq(Frame)] BY <1>1, <2>1, <2>2, WiresType
  <2> QED BY <1>2, <1>3, <2>1, <2>2, <2>3 DEF Wires
<1>8. wire' = wire \/ wire' = [wire EXCEPT ![Peer(e)] = Append(@, f)]
  <2>1. [wire EXCEPT ![Peer(e)] = @] = wire BY <1>1, <1>3
  <2> QED BY <2>1 DEF WriteFrame
<1> QED BY <1>6, <1>7, <1>8

\* ChannelConn.Close (cs.go:122-130).
LEMMA CloseKeeps ==
  ASSUME TypeOK, Wires, NEW e \in Ends, Close(e)
  PROVE  /\ wire' \in [Ends -> Seq(Frame)] /\ Wires'
         /\ err' \in [Ends -> BOOLEAN]
         /\ raw' \in [Ends -> {"open", "closed"}]
         /\ wire'[e] = wire[e]
         /\ \/ wire'[Peer(e)] = wire[Peer(e)]
            \/ wire'[Peer(e)] = Append(wire[Peer(e)], CloseFrame)
<1>1. raw' \in [Ends -> {"open", "closed"}] BY DEF TypeOK, Close
<1>2. CASE err[e] /\ UNCHANGED <<wire, err>>
  BY <1>1, <1>2 DEF TypeOK, Wires
<1>3. CASE WriteFrame(e, CloseFrame)
  <2>1. CloseFrame \in Frames(Peer(e)) BY Peers, FramesType
  <2> QED BY <1>1, <1>3, <2>1, WriteKeeps
<1> QED BY <1>2, <1>3 DEF Close

\* What a step may do to the frames on their way to e, if it writes no dial
\* and no answer.
Calm(e) ==
  \/ wire'[e] = wire[e]
  \/ wire[e] # <<>> /\ wire'[e] = Tail(wire[e])
  \/ \E f \in Frame : f.cmd \in {"data", "close"}
                     /\ wire'[e] = Append(wire[e], f)
  \/ \E n \in 0 .. Len(wire[e]) : wire'[e] = SubSeq(wire[e], 1, n)

\* Every other frame then was there before, one place further on at most.
LEMMA CalmFrames ==
  ASSUME TypeOK, NEW e \in Ends, Calm(e)
  PROVE  \E k \in {0, 1} : \A i \in 1 .. Len(wire'[e]) :
           \/ wire'[e][i].cmd \in {"data", "close"}
           \/ i + k \in 1 .. Len(wire[e]) /\ wire'[e][i] = wire[e][i + k]
<1>1. wire[e] \in Seq(Frame) BY DEF TypeOK
<1> DEFINE s == wire[e]
           t == wire'[e]
           From(k) == \A i \in 1 .. Len(t) :
                        \/ t[i].cmd \in {"data", "close"}
                        \/ i + k \in 1 .. Len(s) /\ t[i] = s[i + k]
<1>2. s \in Seq(Frame) BY <1>1
<1>3. SUFFICES From(0) \/ From(1) OBVIOUS
<1>4. CASE t = s
  <2>1. From(0) BY <1>2, <1>4
  <2> QED BY <2>1
<1>5. CASE s # <<>> /\ t = Tail(s)
  <2>1. From(1) BY <1>2, <1>5
  <2> QED BY <2>1
<1>6. ASSUME NEW f \in Frame, f.cmd \in {"data", "close"}, t = Append(s, f)
      PROVE  From(0)
  BY <1>2, <1>6
<1>7. ASSUME NEW n \in 0 .. Len(s), t = SubSeq(s, 1, n)
      PROVE  From(0)
  <2>1. Len(t) = n /\ \A i \in 1 .. n : t[i] = s[i] BY <1>2, <1>7
  <2> QED BY <1>2, <2>1
<1> QED BY <1>4, <1>5, <1>6, <1>7 DEF Calm

\* A calm step leaves the dials and the answers that it does not take where
\* they are.
LEMMA CalmDials ==
  ASSUME TypeOK, Calm("server")
  PROVE  \E k \in {0, 1} : \A i \in Dials' :
           i \in Nat /\ i + k \in Dials
           /\ wire'["server"][i] = wire["server"][i + k]
<1>1. PICK k \in {0, 1} : \A i \in 1 .. Len(wire'["server"]) :
        \/ wire'["server"][i].cmd \in {"data", "close"}
        \/ i + k \in 1 .. Len(wire["server"])
           /\ wire'["server"][i] = wire["server"][i + k]
  BY CalmFrames DEF Ends
<1>2. \A i \in Dials' : i \in 1 .. Len(wire'["server"])
                         /\ wire'["server"][i].cmd = "dial"
  BY DEF Dials
<1>3. ASSUME NEW i \in Dials'
      PROVE  i \in Nat /\ i + k \in 1 .. Len(wire["server"])
             /\ wire'["server"][i] = wire["server"][i + k]
  <2>1. i \in 1 .. Len(wire'["server"]) /\ wire'["server"][i].cmd = "dial" BY <1>2
  <2>2. wire'["server"][i].cmd \notin {"data", "close"} BY <2>1
  <2> QED BY <1>1, <2>1, <2>2
<1>4. ASSUME NEW i \in Dials' PROVE i + k \in Dials
  <2>1. wire'["server"][i].cmd = "dial" BY <1>2
  <2> QED BY <1>3, <2>1 DEF Dials
<1> QED BY <1>3, <1>4

LEMMA CalmAnswers ==
  ASSUME TypeOK, Calm("client")
  PROVE  \E k \in {0, 1} : \A i \in Answers' : i \in Nat /\ i + k \in Answers
<1>1. PICK k \in {0, 1} : \A i \in 1 .. Len(wire'["client"]) :
        \/ wire'["client"][i].cmd \in {"data", "close"}
        \/ i + k \in 1 .. Len(wire["client"])
           /\ wire'["client"][i] = wire["client"][i + k]
  BY CalmFrames DEF Ends
<1>2. \A i \in Answers' : i \in 1 .. Len(wire'["client"])
                           /\ wire'["client"][i].cmd \in {"ok", "refused"}
  BY DEF Answers
<1>3. ASSUME NEW i \in Answers'
      PROVE  i \in Nat /\ i + k \in 1 .. Len(wire["client"])
             /\ wire'["client"][i] = wire["client"][i + k]
  <2>1. /\ i \in 1 .. Len(wire'["client"])
        /\ wire'["client"][i].cmd \in {"ok", "refused"}
    BY <1>2
  <2>2. wire'["client"][i].cmd \notin {"data", "close"} BY <2>1
  <2> QED BY <1>1, <2>1, <2>2
<1>4. ASSUME NEW i \in Answers' PROVE i + k \in Answers
  <2>1. wire'["client"][i].cmd \in {"ok", "refused"} BY <1>2
  <2> QED BY <1>3, <2>1 DEF Answers
<1> QED BY <1>3, <1>4

\* A step that is calm on both wires, and neither begins nor ends a dial,
\* keeps the order.
LEMMA CalmOrder ==
  ASSUME TypeOK, Order, Calm("server"), Calm("client"),
         serving' = serving, sess' = sess,
         \/ pc'["client"] \in {"dropping", "gone"}
         \/ pc'["client"] = pc["client"]
         \/ pc["client"] = "piping" /\ pc'["client"] = "idle",
         pc'["server"] = "dialing" => pc["server"] = "dialing"
  PROVE  Order'
<1>1. PICK k \in {0, 1} : \A i \in Dials' :
           i \in Nat /\ i + k \in Dials
           /\ wire'["server"][i] = wire["server"][i + k]
  BY CalmDials
<1>2. PICK l \in {0, 1} : \A i \in Answers' : i \in Nat /\ i + l \in Answers
  BY CalmAnswers
<1>3. /\ Dials' # {} => Dials # {}
      /\ Answers' # {} => Answers # {}
  BY <1>1, <1>2
<1>4. OneDial'
  <2> SUFFICES ASSUME pc'["client"] = "dialing"
               PROVE  /\ \A i, j \in Dials' : i = j
                      /\ \A i, j \in Answers' : i = j
                      /\ \A i \in Dials' : wire'["server"][i].sess = sess'
                      /\ Dials' # {} => Answers' = {} /\ pc'["server"] # "dialing"
                      /\ pc'["server"] = "dialing" =>
                           Answers' = {} /\ serving' = sess'
                      /\ Answers' # {} => serving' = sess'
    BY DEF OneDial
  <2>1. pc["client"] = "dialing" OBVIOUS
  <2>2. \A i, j \in Dials' : i = j BY <1>1, <2>1 DEF Order, OneDial
  <2>3. \A i, j \in Answers' : i = j BY <1>2, <2>1 DEF Order, OneDial
  <2>4. \A i \in Dials' : wire'["server"][i].sess = sess'
    BY <1>1, <2>1 DEF Order, OneDial
  <2> QED BY <1>3, <2>1, <2>2, <2>3, <2>4 DEF Order, OneDial
<1>5. NoDial' BY <1>3 DEF Order, NoDial
<1>6. Served' BY DEF Order, Served
<1> QED BY <1>4, <1>5, <1>6 DEF Order

\* Reads, closes and writes of data are calm.
LEMMA TakenCalm ==
  ASSUME TypeOK, Wires, NEW e \in Ends, Incoming(e), wire' = Taken(e)
  PROVE  Calm("server") /\ Calm("client")
<1>1. wire'[e] = Tail(wire[e]) /\ wire[e] # <<>>
      /\ wire'[Peer(e)] = wire[Peer(e)]
  BY TakenKeeps
<1>2. Calm(e) /\ Calm(Peer(e)) BY <1>1 DEF Calm
<1> QED BY <1>2 DEF Ends, Peer

LEMMA WriteCalm ==
  ASSUME TypeOK, Wires, NEW e \in Ends, NEW f \in Frames(Peer(e)),
         f.cmd \in {"data", "close"}, WriteFrame(e, f)
  PROVE  Calm("server") /\ Calm("client")
<1>1. /\ wire'[e] = wire[e]
      /\ \/ wire'[Peer(e)] = wire[Peer(e)]
         \/ wire'[Peer(e)] = Append(wire[Peer(e)], f)
  BY WriteKeeps
<1>2. f \in Frame BY Peers, FramesType
<1>3. Calm(e) /\ Calm(Peer(e)) BY <1>1, <1>2 DEF Calm
<1> QED BY <1>3 DEF Ends, Peer

LEMMA CloseCalm ==
  ASSUME TypeOK, Wires, NEW e \in Ends, Close(e)
  PROVE  Calm("server") /\ Calm("client")
<1>1. /\ wire'[e] = wire[e]
      /\ \/ wire'[Peer(e)] = wire[Peer(e)]
         \/ wire'[Peer(e)] = Append(wire[Peer(e)], CloseFrame)
  BY CloseKeeps
<1>2. CloseFrame \in Frame /\ CloseFrame.cmd = "close"
  BY FramesType DEF CloseFrame, Ends
<1>3. Calm(e) /\ Calm(Peer(e)) BY <1>1, <1>2 DEF Calm
<1> QED BY <1>3 DEF Ends, Peer

LEMMA SameCalm ==
  ASSUME wire' = wire
  PROVE  Calm("server") /\ Calm("client")
BY DEF Calm

-----------------------------------------------------------------------------
(***************************************************************************)
(* The client's steps.                                                     *)
(***************************************************************************)

\* A goroutine moves within its own steps.
LEMMA GotoType ==
  ASSUME TypeOK, NEW e \in Ends, NEW to, Goto(e, to),
         to \in IF e = "client" THEN ClientPC ELSE ServerPC
  PROVE  /\ pc' \in [Ends -> ClientPC \cup ServerPC]
         /\ pc'["client"] \in ClientPC /\ pc'["server"] \in ServerPC
         /\ pc'[e] = to /\ pc'[Peer(e)] = pc[Peer(e)]
BY DEF TypeOK, Goto, Ends, Peer

\* A session begins at one end.
LEMMA PipeType ==
  ASSUME TypeOK, NEW e \in Ends, NEW s \in Session, StartPipe(e, s)
  PROVE  /\ using' \in [Ends -> 0 .. MaxSession]
         /\ using'[e] = s /\ using'[Peer(e)] = using[Peer(e)]
         /\ dir' \in [Ends -> [in : {"run", "done"}, out : {"run", "done"}]]
         /\ local' \in [Ends -> {"open", "eof", "closed"}]
<1> USE ChannelAssumption
<1>1. using' \in [Ends -> 0 .. MaxSession] /\ using'[e] = s
      /\ using'[Peer(e)] = using[Peer(e)]
  <2>1. using \in [Ends -> 0 .. MaxSession] BY DEF TypeOK
  <2>2. using' = [using EXCEPT ![e] = s] BY DEF StartPipe
  <2>3. s \in 0 .. MaxSession BY DEF Session
  <2>4. Peer(e) \in Ends /\ Peer(e) # e BY Peers
  <2> QED BY <2>1, <2>2, <2>3, <2>4
<1>2. dir' \in [Ends -> [in : {"run", "done"}, out : {"run", "done"}]]
  <2>1. [in |-> "run", out |-> "run"] \in
          [in : {"run", "done"}, out : {"run", "done"}]
    OBVIOUS
  <2> QED BY <2>1 DEF TypeOK, StartPipe
<1>3. local' \in [Ends -> {"open", "eof", "closed"}]
  BY DEF TypeOK, StartPipe
<1> QED BY <1>1, <1>2, <1>3

\* Client.DialBack writes the dial (cs.go:472-477).
LEMMA ClientDialIInv ==
  ASSUME IInv, ClientDial
  PROVE  IInv'
<1> USE DEF IInv
<1>1. DialFrame(sess + 1) \in Frames("server") /\ sess' \in Session
  BY ChannelAssumption
     DEF ClientDial, DialFrame, Frames, Frame, Commands, Session, TypeOK
<1>2. /\ wire' \in [Ends -> Seq(Frame)] /\ Wires'
      /\ err' \in [Ends -> BOOLEAN]
      /\ wire'["client"] = wire["client"]
      /\ \/ wire'["server"] = wire["server"]
         \/ wire'["server"] = Append(wire["server"], DialFrame(sess + 1))
  <2>1. "client" \in Ends /\ Peer("client") = "server" BY DEF Ends, Peer
  <2> QED BY <1>1, <2>1, WriteKeeps DEF ClientDial
<1>3. pc' \in [Ends -> ClientPC \cup ServerPC]
      /\ pc'["client"] \in {"gone", "dialing"} /\ pc'["server"] = pc["server"]
  BY DEF ClientDial, Goto, TypeOK, Ends, ClientPC, ServerPC
<1>4. raw' \in [Ends -> {"open", "closed"}]
  BY DEF ClientDial, TypeOK
<1>5. UNCHANGED <<cut, using, serving, dir, local, pooled, evicted, listed,
                  admin, late, accepted, sent, got>>
  BY DEF ClientDial, outer, history
<1>6. TypeOK'
  <2>1. sess' \in 0 .. MaxSession BY <1>1 DEF Session
  <2> QED BY <1>2, <1>3, <1>4, <1>5, <2>1 DEF TypeOK, ClientPC
<1>7. Named' BY <1>1, <1>3, <1>5 DEF Named
<1>8. Order'
  <2>1. Dials = {} /\ Answers = {} /\ pc["server"] # "dialing"
    BY DEF Order, NoDial, ClientDial
  <2>2. Answers' = {} BY <1>2, <2>1 DEF Answers
  <2>3. \A i \in Dials' : /\ i = Len(wire["server"]) + 1
                          /\ wire'["server"][i].sess = sess'
    <3>1. wire["server"] \in Seq(Frame) BY DEF TypeOK, Ends
    <3>2. DialFrame(sess + 1).sess = sess' BY DEF DialFrame, ClientDial
    <3>3. CASE wire'["server"] = wire["server"] BY <2>1, <3>3 DEF Dials
    <3>4. CASE wire'["server"] = Append(wire["server"], DialFrame(sess + 1))
      BY <2>1, <3>1, <3>2, <3>4 DEF Dials
    <3> QED BY <1>2, <3>3, <3>4
  <2> QED BY <1>3, <2>1, <2>2, <2>3 DEF Order, OneDial, NoDial, Served
<1> QED BY <1>2, <1>6, <1>7, <1>8

\* The frame it reads is the answer to its own dial (cs.go:478-514).
LEMMA ClientBackIInv ==
  ASSUME IInv, ClientBack
  PROVE  IInv'
<1> USE DEF IInv
<1>1. "client" \in Ends /\ Peer("client") = "server" BY DEF Ends, Peer
<1>2. /\ wire' \in [Ends -> Seq(Frame)] /\ Wires'
      /\ Head(wire["client"]) \in Frames("client")
      /\ wire'["client"] = Tail(wire["client"]) /\ wire["client"] # <<>>
      /\ wire'["server"] = wire["server"]
  BY <1>1, TakenKeeps DEF ClientBack
<1>3. /\ pc["client"] = "dialing" /\ sess \in Session
      /\ UNCHANGED <<raw, cut, err, sess, serving, evicted, listed, admin,
                     late, accepted, sent, got>>
  BY DEF ClientBack, Named, history
<1>4. wire["client"] \in Seq(Frame) BY <1>1 DEF TypeOK
<1>5. 1 \in Answers
  <2>1. Head(wire["client"]).cmd \in {"ok", "refused"}
    BY <1>2 DEF ClientBack, Frames
  <2> QED BY <1>2, <1>4, <2>1 DEF Answers
<1>6. /\ Dials = {} /\ pc["server"] # "dialing" /\ serving = sess
      /\ \A i \in Answers : i = 1
  BY <1>3, <1>5 DEF Order, OneDial
<1>7. Dials' = {} /\ Answers' = {}
  <2>1. Dials' = {} BY <1>2, <1>6 DEF Dials
  <2>2. \A i \in Answers' : i \in Nat \ {0} /\ i + 1 \in Answers
    BY <1>2, <1>4 DEF Answers
  <2>3. Answers' = {} BY <1>6, <2>2
  <2> QED BY <2>1, <2>3
<1>8. CASE Goto("client", "piping") /\ StartPipe("client", sess)
           /\ UNCHANGED pooled
  <2>1. /\ pc' \in [Ends -> ClientPC \cup ServerPC]
        /\ pc'["client"] = "piping" /\ pc'["server"] = pc["server"]
        /\ pc'["client"] \in ClientPC /\ pc'["server"] \in ServerPC
    BY <1>1, <1>8, GotoType DEF ClientPC
  <2>2. /\ using' \in [Ends -> 0 .. MaxSession]
        /\ using'["client"] = sess /\ using'["server"] = using["server"]
        /\ dir' \in [Ends -> [in : {"run", "done"}, out : {"run", "done"}]]
        /\ local' \in [Ends -> {"open", "eof", "closed"}]
    BY <1>1, <1>3, <1>8, PipeType
  <2>3. TypeOK' BY <1>2, <1>3, <1>8, <2>1, <2>2 DEF TypeOK
  <2>4. Named' BY <1>3, <2>1, <2>2 DEF Named
  <2>5. Order' BY <1>3, <1>6, <1>7, <2>1 DEF Order, OneDial, NoDial, Served
  <2> QED BY <1>2, <2>3, <2>4, <2>5
<1>9. CASE Goto("client", "idle") /\ pooled' = TRUE
           /\ UNCHANGED <<using, dir, local>>
  <2>1. /\ pc' \in [Ends -> ClientPC \cup ServerPC]
        /\ pc'["client"] = "idle" /\ pc'["server"] = pc["server"]
        /\ pc'["client"] \in ClientPC /\ pc'["server"] \in ServerPC
    BY <1>1, <1>9, GotoType DEF ClientPC
  <2>2. TypeOK' BY <1>2, <1>3, <1>9, <2>1 DEF TypeOK
  <2>3. Named' BY <1>3, <1>9, <2>1 DEF Named
  <2>4. Order' BY <1>3, <1>6, <1>7, <2>1 DEF Order, OneDial, NoDial, Served
  <2> QED BY <1>2, <2>2, <2>3, <2>4
<1> QED BY <1>8, <1>9 DEF ClientBack

\* The rest of the client's goroutine begins no dial and takes no answer
\* (cs.go:479-483, 532-542).
LEMMA ClientFailsIInv ==
  ASSUME IInv, ClientBackFails
  PROVE  IInv'
<1> USE DEF IInv
<1>1. "client" \in Ends /\ Peer("client") = "server" BY DEF Ends, Peer
<1>2. /\ UNCHANGED <<cut, using, sess, serving, dir, local, pooled, evicted,
                     listed, admin, late, accepted, sent, got>>
      /\ pc["client"] = "dialing"
  BY DEF ClientBackFails, outer, history
<1>3. /\ err' \in [Ends -> BOOLEAN] /\ raw' \in [Ends -> {"open", "closed"}]
  BY DEF ClientBackFails, Break, TypeOK
<1>4. /\ wire' \in [Ends -> Seq(Frame)] /\ Wires'
      /\ Calm("server") /\ Calm("client")
  <2>1. CASE wire' = wire BY <2>1, SameCalm DEF TypeOK, Wires
  <2>2. CASE Incoming("client") /\ wire' = Taken("client")
    BY <1>1, <2>2, TakenKeeps, TakenCalm
  <2> QED BY <2>1, <2>2 DEF ClientBackFails
<1>5. /\ pc' \in [Ends -> ClientPC \cup ServerPC]
      /\ pc'["client"] \in {"dropping", "gone"} /\ pc'["server"] = pc["server"]
      /\ pc'["client"] \in ClientPC /\ pc'["server"] \in ServerPC
  <2>1. Goto("client", "gone") \/ Goto("client", "dropping")
    BY DEF ClientBackFails
  <2> QED BY <1>1, <2>1, GotoType DEF ClientPC
<1>6. TypeOK' BY <1>2, <1>3, <1>4, <1>5 DEF TypeOK
<1>7. Named' BY <1>2, <1>5 DEF Named
<1>8. Order' BY <1>2, <1>4, <1>5, CalmOrder
<1> QED BY <1>4, <1>6, <1>7, <1>8

LEMMA ClientEndsIInv ==
  ASSUME IInv, ClientDrop \/ ClientPipeEnd
  PROVE  IInv'
<1> USE DEF IInv
<1>1. "client" \in Ends /\ Peer("client") = "server" BY DEF Ends, Peer
<1>2. UNCHANGED <<cut, sess, serving, dir, local, evicted, listed, admin, late,
                  accepted, sent, got>>
  BY DEF ClientDrop, ClientPipeEnd, outer, history
<1>3. /\ wire' \in [Ends -> Seq(Frame)] /\ Wires'
      /\ err' \in [Ends -> BOOLEAN] /\ raw' \in [Ends -> {"open", "closed"}]
      /\ Calm("server") /\ Calm("client")
  <2>1. CASE Close("client") BY <1>1, <2>1, CloseKeeps, CloseCalm
  <2>2. CASE UNCHANGED <<wire, raw, err>>
    BY <2>2, SameCalm DEF TypeOK, Wires
  <2> QED BY <2>1, <2>2 DEF ClientDrop, ClientPipeEnd
<1>4. /\ pc' \in [Ends -> ClientPC \cup ServerPC]
      /\ pc'["client"] \in {"gone", "idle"} /\ pc'["server"] = pc["server"]
      /\ pc'["client"] \in ClientPC /\ pc'["server"] \in ServerPC
      /\ pc'["client"] = "idle" => pc["client"] = "piping"
  <2>1. CASE Goto("client", "gone") BY <1>1, <2>1, GotoType DEF ClientPC
  <2>2. CASE Goto("client", "idle") /\ PipeDone("client")
    BY <1>1, <2>2, GotoType DEF ClientPC, PipeDone
  <2> QED BY <2>1, <2>2 DEF ClientDrop, ClientPipeEnd
<1>5. /\ using' \in [Ends -> 0 .. MaxSession] /\ pooled' \in BOOLEAN
      /\ using'["server"] = using["server"]
  <2>1. using \in [Ends -> 0 .. MaxSession] /\ pooled \in BOOLEAN BY DEF TypeOK
  <2>2. CASE UNCHANGED <<using, pooled>> BY <2>1, <2>2
  <2>3. CASE using' = [using EXCEPT !["client"] = 0] /\ pooled' = TRUE
    <3>1. 0 \in 0 .. MaxSession BY ChannelAssumption
    <3> QED BY <1>1, <2>1, <2>3, <3>1
  <2> QED BY <2>2, <2>3 DEF ClientDrop, ClientPipeEnd, outer
<1>6. TypeOK' BY <1>2, <1>3, <1>4, <1>5 DEF TypeOK
<1>7. Named' BY <1>2, <1>4, <1>5 DEF Named
<1>8. Order' BY <1>2, <1>3, <1>4, CalmOrder
<1> QED BY <1>3, <1>6, <1>7, <1>8

-----------------------------------------------------------------------------
(***************************************************************************)
(* The server's steps.                                                     *)
(***************************************************************************)

\* Server.ProcConn reads the one dial there is (cs.go:227-240).
LEMMA ServerReadDialIInv ==
  ASSUME IInv, ServerReadDial
  PROVE  IInv'
<1> USE DEF IInv
<1>1. "server" \in Ends /\ Peer("server") = "client" BY DEF Ends, Peer
<1>2. /\ wire' \in [Ends -> Seq(Frame)] /\ Wires'
      /\ Head(wire["server"]) \in Frames("server")
      /\ wire'["server"] = Tail(wire["server"]) /\ wire["server"] # <<>>
      /\ wire'["client"] = wire["client"]
  BY <1>1, TakenKeeps DEF ServerReadDial
<1>3. /\ UNCHANGED <<raw, cut, err, using, sess, dir, local, pooled, evicted,
                     listed, admin, late, accepted, sent, got>>
      /\ serving' = Head(wire["server"]).sess
      /\ Head(wire["server"]).cmd = "dial"
  BY DEF ServerReadDial, outer, history
<1>4. serving' \in Session BY <1>2, <1>3 DEF Frames
<1>5. /\ pc' \in [Ends -> ClientPC \cup ServerPC]
      /\ pc'["server"] = "dialing" /\ pc'["client"] = pc["client"]
      /\ pc'["client"] \in ClientPC /\ pc'["server"] \in ServerPC
  BY <1>1, GotoType DEF ServerReadDial, ServerPC
<1>6. TypeOK'
  <2>1. serving' \in 0 .. MaxSession BY <1>4 DEF Session
  <2> QED BY <1>2, <1>3, <1>5, <2>1 DEF TypeOK
<1>7. Named' BY <1>3, <1>4, <1>5 DEF Named
<1>8. Order'
  <2>1. wire["server"] \in Seq(Frame) BY <1>1 DEF TypeOK
  <2>2. 1 \in Dials /\ wire["server"][1].sess = serving'
    BY <1>2, <1>3, <2>1 DEF Dials
  <2>3. pc["client"] \notin {"idle", "piping"} BY <2>2 DEF Order, NoDial
  <2>4. ASSUME pc["client"] = "dialing"
        PROVE  Dials' = {} /\ Answers' = {} /\ serving' = sess
    <3>1. /\ \A i \in Dials : i = 1
          /\ Answers = {} /\ serving' = sess
      BY <2>2, <2>4 DEF Order, OneDial
    <3>2. \A i \in Dials' : i \in Nat \ {0} /\ i + 1 \in Dials
      BY <1>2, <2>1 DEF Dials
    <3>3. Dials' = {} BY <3>1, <3>2
    <3>4. Answers' = {} BY <1>2, <3>1 DEF Answers
    <3> QED BY <3>1, <3>3, <3>4
  <2> QED BY <1>3, <1>5, <2>3, <2>4 DEF Order, OneDial, NoDial, Served
<1> QED BY <1>2, <1>6, <1>7, <1>8

\* It answers that dial, and begins to serve if the target was dialed
\* (cs.go:240-249).
LEMMA AnswerOrder ==
  ASSUME IInv, NEW answer \in {"ok", "refused"}, pc["server"] = "dialing",
         WriteFrame("server", BackFrame(serving, answer)),
         sess' = sess, serving' = serving,
         pc'["client"] = pc["client"], pc'["server"] # "dialing"
  PROVE  /\ wire' \in [Ends -> Seq(Frame)] /\ Wires'
         /\ err' \in [Ends -> BOOLEAN]
         /\ Order'
<1> USE DEF IInv
<1>1. /\ "server" \in Ends /\ Peer("server") = "client" /\ "client" \in Ends
      /\ serving \in Session
  BY DEF Ends, Peer, Named
<1>2. BackFrame(serving, answer) \in Frames("client")
  BY <1>1, ChannelAssumption DEF BackFrame, Frames, Frame, Commands, Session
<1>3. /\ wire' \in [Ends -> Seq(Frame)] /\ Wires'
      /\ err' \in [Ends -> BOOLEAN]
      /\ wire'["server"] = wire["server"]
      /\ \/ wire'["client"] = wire["client"]
         \/ wire'["client"] = Append(wire["client"], BackFrame(serving, answer))
  BY <1>1, <1>2, WriteKeeps
<1>4. pc["client"] \notin {"idle", "piping"} BY DEF Order, NoDial
<1>5. ASSUME pc["client"] = "dialing"
      PROVE  /\ Dials' = {} /\ serving = sess
             /\ \A i \in Answers' : i = Len(wire["client"]) + 1
  <2>1. Dials = {} /\ Answers = {} /\ serving = sess
    BY <1>5 DEF Order, OneDial
  <2>2. Dials' = {} BY <1>3, <2>1 DEF Dials
  <2>3. wire["client"] \in Seq(Frame) BY <1>1 DEF TypeOK
  <2>4. CASE wire'["client"] = wire["client"] BY <2>1, <2>2, <2>4 DEF Answers
  <2>5. CASE wire'["client"]
               = Append(wire["client"], BackFrame(serving, answer))
    BY <2>1, <2>2, <2>3, <2>5 DEF Answers
  <2> QED BY <1>3, <2>4, <2>5
<1>6. Order' BY <1>4, <1>5 DEF Order, OneDial, NoDial, Served
<1> QED BY <1>3, <1>6

LEMMA ServerAnswerIInv ==
  ASSUME IInv, ServerRefuse \/ ServerAccept
  PROVE  IInv'
<1> USE DEF IInv
<1>1. /\ "server" \in Ends /\ Peer("server") = "client"
      /\ serving \in Session /\ pc["server"] = "dialing"
  BY DEF Ends, Peer, Named, ServerRefuse, ServerAccept
<1>2. UNCHANGED <<raw, cut, sess, serving, pooled, evicted, listed, admin, late,
                  sent, got>>
  BY DEF ServerRefuse, ServerAccept, outer, history
<1>3. CASE ServerRefuse
  <2>1. /\ pc' \in [Ends -> ClientPC \cup ServerPC]
        /\ pc'["server"] = "reading" /\ pc'["client"] = pc["client"]
        /\ pc'["client"] \in ClientPC /\ pc'["server"] \in ServerPC
    BY <1>1, <1>3, GotoType DEF ServerRefuse, ServerPC
  <2>2. /\ wire' \in [Ends -> Seq(Frame)] /\ Wires'
        /\ err' \in [Ends -> BOOLEAN] /\ Order'
    BY <1>1, <1>2, <1>3, <2>1, AnswerOrder DEF ServerRefuse
  <2>3. UNCHANGED <<using, dir, local, accepted>>
    BY <1>3 DEF ServerRefuse, history
  <2>4. TypeOK' BY <1>2, <2>1, <2>2, <2>3 DEF TypeOK
  <2>5. Named' BY <1>2, <2>1, <2>3 DEF Named
  <2> QED BY <2>2, <2>4, <2>5
<1>4. CASE ServerAccept
  <2>1. /\ pc' \in [Ends -> ClientPC \cup ServerPC]
        /\ pc'["server"] = "piping" /\ pc'["client"] = pc["client"]
        /\ pc'["client"] \in ClientPC /\ pc'["server"] \in ServerPC
    BY <1>1, <1>4, GotoType DEF ServerAccept, ServerPC
  <2>2. /\ wire' \in [Ends -> Seq(Frame)] /\ Wires'
        /\ err' \in [Ends -> BOOLEAN] /\ Order'
    BY <1>1, <1>2, <1>4, <2>1, AnswerOrder DEF ServerAccept
  <2>3. /\ using' \in [Ends -> 0 .. MaxSession]
        /\ using'["server"] = serving /\ using'["client"] = using["client"]
        /\ dir' \in [Ends -> [in : {"run", "done"}, out : {"run", "done"}]]
        /\ local' \in [Ends -> {"open", "eof", "closed"}]
    BY <1>1, <1>4, PipeType DEF ServerAccept
  <2>4. accepted' \in SUBSET Session
    BY <1>1, <1>4 DEF ServerAccept, TypeOK
  <2>5. TypeOK' BY <1>2, <2>1, <2>2, <2>3, <2>4 DEF TypeOK
  <2>6. Named' BY <1>1, <1>2, <2>1, <2>3 DEF Named
  <2> QED BY <2>2, <2>5, <2>6
<1> QED BY <1>3, <1>4

\* It leaves its loop, or waits for the next dial (cs.go:228-258).
LEMMA ServerEndsIInv ==
  ASSUME IInv, ServerStop \/ ServerPipeEnd
  PROVE  IInv'
<1> USE DEF IInv
<1>1. "server" \in Ends /\ Peer("server") = "client" BY DEF Ends, Peer
<1>2. UNCHANGED <<cut, sess, serving, dir, local, pooled, evicted, listed, admin,
                  late, accepted, sent, got>>
  BY DEF ServerStop, ServerPipeEnd, outer, history
<1>3. /\ wire' \in [Ends -> Seq(Frame)] /\ Wires'
      /\ err' \in [Ends -> BOOLEAN] /\ raw' \in [Ends -> {"open", "closed"}]
      /\ Calm("server") /\ Calm("client")
  <2>1. CASE Close("server") BY <1>1, <2>1, CloseKeeps, CloseCalm
  <2>2. CASE UNCHANGED <<wire, raw, err>>
    BY <2>2, SameCalm DEF TypeOK, Wires
  <2>3. CASE UNCHANGED wire /\ Break("server")
    BY <2>3, SameCalm DEF TypeOK, Wires, Break
  <2>4. CASE Incoming("server") /\ wire' = Taken("server") /\ Break("server")
    <3>1. /\ err' \in [Ends -> BOOLEAN]
          /\ raw' \in [Ends -> {"open", "closed"}]
      BY <2>4 DEF TypeOK, Break
    <3> QED BY <1>1, <2>4, <3>1, TakenKeeps, TakenCalm
  <2> QED BY <2>1, <2>2, <2>3, <2>4 DEF ServerStop, ServerPipeEnd
<1>4. /\ pc' \in [Ends -> ClientPC \cup ServerPC]
      /\ pc'["server"] \in {"stopped", "reading"}
      /\ pc'["client"] = pc["client"]
      /\ pc'["client"] \in ClientPC /\ pc'["server"] \in ServerPC
  <2>1. Goto("server", "stopped") \/ Goto("server", "reading")
    BY DEF ServerStop, ServerPipeEnd
  <2> QED BY <1>1, <2>1, GotoType DEF ServerPC
<1>5. using' \in [Ends -> 0 .. MaxSession] /\ using'["client"] = using["client"]
  <2>1. using \in [Ends -> 0 .. MaxSession] BY DEF TypeOK
  <2>2. CASE UNCHANGED using BY <2>1, <2>2
  <2>3. CASE using' = [using EXCEPT !["server"] = 0]
    <3>1. 0 \in 0 .. MaxSession BY ChannelAssumption
    <3> QED BY <1>1, <2>1, <2>3, <3>1
  <2> QED BY <2>2, <2>3 DEF ServerStop, ServerPipeEnd
<1>6. TypeOK' BY <1>2, <1>3, <1>4, <1>5 DEF TypeOK
<1>7. Named' BY <1>2, <1>4, <1>5 DEF Named
<1>8. Order' BY <1>2, <1>3, <1>4, CalmOrder
<1> QED BY <1>3, <1>6, <1>7, <1>8

-----------------------------------------------------------------------------
(***************************************************************************)
(* The copies, the UDPGW, and what happens outside the session.            *)
(***************************************************************************)

\* A step that moves neither goroutine, and is calm, keeps the invariant.
LEMMA StayIInv ==
  ASSUME IInv, UNCHANGED <<pc, using, sess, serving>>, TypeOK', Wires',
         Calm("server"), Calm("client")
  PROVE  IInv'
<1>1. Named' BY DEF IInv, Named
<1>2. Order' BY CalmOrder DEF IInv
<1> QED BY <1>1, <1>2 DEF IInv

\* An end that copies does so for a session.
LEMMA UsingType ==
  ASSUME Named, NEW e \in Ends, pc[e] = "piping"
  PROVE  using[e] \in Session
BY DEF Named, Ends

\* One of the two copies of an end is done.
LEMMA DirType ==
  ASSUME TypeOK, NEW e \in Ends
  PROVE  /\ [dir EXCEPT ![e].in = "done"] \in
              [Ends -> [in : {"run", "done"}, out : {"run", "done"}]]
         /\ [dir EXCEPT ![e].out = "done"] \in
              [Ends -> [in : {"run", "done"}, out : {"run", "done"}]]
<1>1. dir \in [Ends -> [in : {"run", "done"}, out : {"run", "done"}]]
  BY DEF TypeOK
<1>2. dir[e] \in [in : {"run", "done"}, out : {"run", "done"}] BY <1>1
<1>3. /\ [dir[e] EXCEPT !.in = "done"] \in
           [in : {"run", "done"}, out : {"run", "done"}]
      /\ [dir[e] EXCEPT !.out = "done"] \in
           [in : {"run", "done"}, out : {"run", "done"}]
  BY <1>2
<1> QED BY <1>1, <1>3

\* What a copy hands to its local side is a list of data frames.
LEMMA GotType ==
  ASSUME TypeOK, NEW e \in Ends, NEW s \in Session, NEW f \in Frames(e),
         f.cmd = "data"
  PROVE  [got EXCEPT ![e][s] = Append(@, <<f.sess, f.n>>)] \in
           [Ends -> [Session -> Seq(Session \X (0 .. MaxData))]]
<1> DEFINE List == Seq(Session \X (0 .. MaxData))
<1>1. got \in [Ends -> [Session -> List]] BY DEF TypeOK
<1>2. f.sess \in Session /\ f.n \in 0 .. MaxData BY DEF Frames, Frame
<1>3. got[e] \in [Session -> List] /\ got[e][s] \in List BY <1>1
<1>4. Append(got[e][s], <<f.sess, f.n>>) \in List BY <1>2, <1>3
<1> HIDE DEF List
<1>5. [got[e] EXCEPT ![s] = Append(@, <<f.sess, f.n>>)] \in [Session -> List]
  BY <1>3, <1>4
<1>6. [got EXCEPT ![e][s] = Append(@, <<f.sess, f.n>>)] \in
        [Ends -> [Session -> List]]
  BY <1>1, <1>5
<1> QED BY <1>6 DEF List

\* The frames of a copy are within the bound of all.
LEMMA StreamBound ==
  ASSUME TypeOK, NEW e \in Ends, NEW s \in Session, sent[e][s] < MaxStream
  PROVE  sent[e][s] < MaxData
<1>1. sent[e][s] \in 0 .. MaxData BY DEF TypeOK
<1> QED BY <1>1, ChannelAssumption

\* One more data frame of a session has been written.
LEMMA SentType ==
  ASSUME TypeOK, NEW e \in Ends, NEW s \in Session, sent[e][s] < MaxData
  PROVE  /\ [sent EXCEPT ![e][s] = @ + 1] \in
              [Ends -> [Session -> 0 .. MaxData]]
         /\ sent[e][s] + 1 \in 0 .. MaxData
<1>1. sent \in [Ends -> [Session -> 0 .. MaxData]] BY DEF TypeOK
<1>2. sent[e] \in [Session -> 0 .. MaxData] /\ sent[e][s] \in 0 .. MaxData
  BY <1>1
<1>3. sent[e][s] + 1 \in 0 .. MaxData BY <1>2, ChannelAssumption
<1>4. [sent[e] EXCEPT ![s] = @ + 1] \in [Session -> 0 .. MaxData]
  BY <1>2, <1>3
<1>5. [sent EXCEPT ![e][s] = @ + 1] \in [Ends -> [Session -> 0 .. MaxData]]
  BY <1>1, <1>4
<1> QED BY <1>3, <1>5

\* The copy to the local side (frame.WriteTo, cs.go:102-105).
LEMMA PipeInIInv ==
  ASSUME IInv, NEW e \in Ends, PipeData(e) \/ PipeStop(e)
  PROVE  IInv'
<1> USE DEF IInv
<1>1. UNCHANGED <<raw, cut, using, pc, sess, serving, pooled, evicted, listed,
                  admin, late, accepted, sent>>
  BY DEF PipeData, PipeStop, outer, history
<1>2. /\ wire' \in [Ends -> Seq(Frame)] /\ Wires'
      /\ Calm("server") /\ Calm("client")
  <2>1. CASE UNCHANGED wire BY <2>1, SameCalm DEF TypeOK, Wires
  <2>2. CASE Incoming(e) /\ wire' = Taken(e)
    BY <2>2, TakenKeeps, TakenCalm
  <2> QED BY <2>1, <2>2 DEF PipeData, PipeStop
<1>3. err' \in [Ends -> BOOLEAN]
  <2>1. err \in [Ends -> BOOLEAN] BY DEF TypeOK
  <2> QED BY <2>1 DEF PipeData, PipeStop
<1>4. /\ dir' \in [Ends -> [in : {"run", "done"}, out : {"run", "done"}]]
      /\ local' \in [Ends -> {"open", "eof", "closed"}]
  <2>1. CASE EndCopyIn(e) BY <2>1, DirType DEF TypeOK, EndCopyIn
  <2>2. CASE UNCHANGED <<dir, local>> BY <2>2 DEF TypeOK
  <2> QED BY <2>1, <2>2 DEF PipeData, PipeStop
<1>5. got' \in [Ends -> [Session -> Seq(Session \X (0 .. MaxData))]]
  <2>1. CASE UNCHANGED got BY <2>1 DEF TypeOK
  <2>2. CASE PipeData(e) /\ ~UNCHANGED got
    <3>1. using[e] \in Session BY <2>2, UsingType DEF PipeData, Copying
    <3>2. Head(wire[e]) \in Frames(e) /\ Head(wire[e]).cmd = "data"
      BY <2>2, TakenKeeps DEF PipeData
    <3>3. got' = [got EXCEPT ![e][using[e]] =
                    Append(@, <<Head(wire[e]).sess, Head(wire[e]).n>>)]
      BY <2>2 DEF PipeData
    <3> QED BY <3>1, <3>2, <3>3, GotType
  <2> QED BY <2>1, <2>2 DEF PipeStop, history
<1>6. TypeOK' BY <1>1, <1>2, <1>3, <1>4, <1>5 DEF TypeOK
<1> QED BY <1>1, <1>2, <1>6, StayIInv

\* The copy to the channel (frame.ReadFrom, cs.go:107-110).
LEMMA PipeOutIInv ==
  ASSUME IInv, NEW e \in Ends, PipeSend(e) \/ PipeClose(e) \/ LocalEnds(e)
  PROVE  IInv'
<1> USE DEF IInv
<1>1. UNCHANGED <<cut, using, pc, sess, serving, pooled, evicted, listed, admin,
                  late, accepted, got>>
  BY DEF PipeSend, PipeClose, LocalEnds, outer, history
<1>2. dir' \in [Ends -> [in : {"run", "done"}, out : {"run", "done"}]]
  <2>1. \/ UNCHANGED dir
        \/ dir' = [dir EXCEPT ![e].out = "done"]
        \/ dir' = [dir EXCEPT ![e].out = @]
    BY DEF PipeSend, PipeClose, LocalEnds
  <2>2. dir \in [Ends -> [in : {"run", "done"}, out : {"run", "done"}]]
    BY DEF TypeOK
  <2>3. [dir EXCEPT ![e].out = @] = dir BY <2>2
  <2> QED BY <2>1, <2>2, <2>3, DirType
<1>3. local' \in [Ends -> {"open", "eof", "closed"}]
  BY DEF TypeOK, PipeSend, PipeClose, LocalEnds
<1>4. CASE PipeSend(e)
  <2>1. using[e] \in Session BY <1>4, UsingType DEF PipeSend, Copying
  <2>2. /\ [sent EXCEPT ![e][using[e]] = @ + 1] \in
              [Ends -> [Session -> 0 .. MaxData]]
        /\ sent[e][using[e]] + 1 \in 0 .. MaxData
    BY <1>4, <2>1, StreamBound, SentType DEF PipeSend
  <2> DEFINE f == DataFrame(using[e], sent[e][using[e]] + 1)
  <2>3. f \in Frames(Peer(e)) /\ f.cmd = "data"
    BY <2>1, <2>2 DEF DataFrame, Frames, Frame, Commands, Session
  <2>4. WriteFrame(e, f) BY <1>4 DEF PipeSend
  <2> HIDE DEF f
  <2>5. /\ wire' \in [Ends -> Seq(Frame)] /\ Wires'
        /\ err' \in [Ends -> BOOLEAN]
        /\ Calm("server") /\ Calm("client")
    BY <2>3, <2>4, WriteKeeps, WriteCalm
  <2>6. raw' \in [Ends -> {"open", "closed"}] BY <1>4 DEF TypeOK, PipeSend
  <2>7. sent' \in [Ends -> [Session -> 0 .. MaxData]]
    BY <1>4, <2>2 DEF PipeSend
  <2>8. TypeOK' BY <1>1, <1>2, <1>3, <2>5, <2>6, <2>7 DEF TypeOK
  <2> QED BY <1>1, <2>5, <2>8, StayIInv
<1>5. CASE PipeClose(e) \/ LocalEnds(e)
  <2>1. UNCHANGED sent BY <1>5 DEF PipeClose, LocalEnds, history
  <2>2. /\ wire' \in [Ends -> Seq(Frame)] /\ Wires'
        /\ err' \in [Ends -> BOOLEAN] /\ raw' \in [Ends -> {"open", "closed"}]
        /\ Calm("server") /\ Calm("client")
    <3>1. CASE Close(e) BY <3>1, CloseKeeps, CloseCalm
    <3>2. CASE UNCHANGED <<wire, raw, err>>
      BY <3>2, SameCalm DEF TypeOK, Wires
    <3> QED BY <1>5, <3>1, <3>2 DEF PipeClose, LocalEnds
  <2>3. TypeOK' BY <1>1, <1>2, <1>3, <2>1, <2>2 DEF TypeOK
  <2> QED BY <1>1, <2>2, <2>3, StayIInv
<1> QED BY <1>4, <1>5

\* A datagram that waits makes a data frame of its session.
LEMMA LateFrame ==
  ASSUME TypeOK, NEW m \in late, NEW f, f = DataFrame(m[1], m[2])
  PROVE  /\ f \in Frame /\ f \in Frames("client") /\ f.cmd = "data"
         /\ f.sess = m[1] /\ f.n = m[2]
         /\ m[1] \in Session /\ m[2] \in 1 .. MaxData /\ m = <<m[1], m[2]>>
<1>1. m[1] \in Session /\ m[2] \in 1 .. MaxData /\ m = <<m[1], m[2]>>
  BY DEF TypeOK
<1>2. m[2] \in 0 .. MaxData BY <1>1, ChannelAssumption
<1> QED BY <1>1, <1>2 DEF DataFrame, Frames, Frame, Commands, Session

\* procRead reads and writes whenever it likes (udpgw.go:170-182): data only,
\* and so no dial and no answer.
LEMMA UdpgwIInv ==
  ASSUME IInv, (\E s \in Session : UdpgwRead(s)) \/ \E m \in late : UdpgwWrite(m)
  PROVE  IInv'
<1> USE DEF IInv
<1>1. /\ "server" \in Ends /\ Peer("server") = "client"
      /\ UNCHANGED <<raw, cut, using, pc, sess, serving, dir, local, pooled,
                     evicted, listed, admin, accepted, got>>
  BY DEF Ends, Peer, UdpgwRead, UdpgwWrite, outer, history
<1>2. ASSUME NEW s \in Session, UdpgwRead(s) PROVE IInv'
  <2>1. sent["server"][s] \in 0 .. MaxData BY <1>1 DEF TypeOK
  <2>2. UNCHANGED <<wire, err>> BY <1>2 DEF UdpgwRead
  <2>3. sent' \in [Ends -> [Session -> 0 .. MaxData]]
    BY <1>1, <1>2, SentType DEF UdpgwRead
  <2>4. late' \in SUBSET (Session \X (1 .. MaxData))
    <3>1. sent["server"][s] + 1 \in 1 .. MaxData
      BY <1>2, <2>1, ChannelAssumption DEF UdpgwRead
    <3>2. <<s, sent["server"][s] + 1>> \in Session \X (1 .. MaxData)
      BY <3>1
    <3>3. late' = late \cup {<<s, sent["server"][s] + 1>>}
      BY <1>2 DEF UdpgwRead
    <3> QED BY <3>2, <3>3 DEF TypeOK
  <2>5. TypeOK' BY <1>1, <2>2, <2>3, <2>4 DEF TypeOK
  <2>6. Wires' BY <2>2 DEF Wires
  <2> QED BY <1>1, <2>2, <2>5, <2>6, SameCalm, StayIInv
<1>3. ASSUME NEW m \in late, UdpgwWrite(m) PROVE IInv'
  <2> DEFINE f == DataFrame(m[1], m[2])
  <2>1. f \in Frames("client") /\ f.cmd = "data" BY LateFrame
  <2>2. WriteFrame("server", f) BY <1>3 DEF UdpgwWrite
  <2> HIDE DEF f
  <2>3. /\ wire' \in [Ends -> Seq(Frame)] /\ Wires'
        /\ err' \in [Ends -> BOOLEAN]
        /\ Calm("server") /\ Calm("client")
    BY <1>1, <2>1, <2>2, WriteKeeps, WriteCalm
  <2>4. UNCHANGED sent /\ late' \in SUBSET (Session \X (1 .. MaxData))
    BY <1>3 DEF UdpgwWrite, history, TypeOK
  <2>5. TypeOK' BY <1>1, <2>3, <2>4 DEF TypeOK
  <2> QED BY <1>1, <2>3, <2>5, StayIInv
<1> QED BY <1>2, <1>3

\* The pool closes an idle channel that is too old (cs.go:362-377).
LEMMA ExpireIInv ==
  ASSUME IInv, Expire
  PROVE  IInv'
<1> USE DEF IInv
<1>1. "client" \in Ends /\ Peer("client") = "server" BY DEF Ends, Peer
<1>2. UNCHANGED <<cut, using, sess, serving, dir, local, pooled, evicted, listed,
                  admin, late, accepted, sent, got>>
  BY DEF Expire, outer, history
<1>3. /\ wire' \in [Ends -> Seq(Frame)] /\ Wires'
      /\ err' \in [Ends -> BOOLEAN] /\ raw' \in [Ends -> {"open", "closed"}]
      /\ Calm("server") /\ Calm("client")
  BY <1>1, CloseKeeps, CloseCalm DEF Expire
<1>4. /\ pc' \in [Ends -> ClientPC \cup ServerPC]
      /\ pc'["client"] = "gone" /\ pc'["server"] = pc["server"]
      /\ pc'["client"] \in ClientPC /\ pc'["server"] \in ServerPC
  BY <1>1, GotoType DEF Expire, ClientPC
<1>5. TypeOK' BY <1>2, <1>3, <1>4 DEF TypeOK
<1>6. Named' BY <1>2, <1>4 DEF Named
<1>7. Order' BY <1>2, <1>3, <1>4, CalmOrder
<1> QED BY <1>3, <1>5, <1>6, <1>7

\* Closes from outside write no more than a close frame (cs.go:263-271,
\* 321-334, 429-443).
LEMMA AdminIInv ==
  ASSUME IInv, Evict \/ ClientList \/ ClientShut \/ ServerShut
  PROVE  IInv'
<1> USE DEF IInv
<1>1. UNCHANGED <<cut, using, pc, sess, serving, dir, local, pooled, late,
                  accepted, sent, got>>
  BY DEF Evict, ClientList, ClientShut, ServerShut, history
<1>2. /\ wire' \in [Ends -> Seq(Frame)] /\ Wires'
      /\ err' \in [Ends -> BOOLEAN] /\ raw' \in [Ends -> {"open", "closed"}]
      /\ Calm("server") /\ Calm("client")
  <2>1. ASSUME NEW e \in Ends, Close(e)
        PROVE  /\ wire' \in [Ends -> Seq(Frame)] /\ Wires'
               /\ err' \in [Ends -> BOOLEAN]
               /\ raw' \in [Ends -> {"open", "closed"}]
               /\ Calm("server") /\ Calm("client")
    BY <2>1, CloseKeeps, CloseCalm
  <2>2. CASE UNCHANGED <<wire, raw, err>>
    BY <2>2, SameCalm DEF TypeOK, Wires
  <2> QED BY <2>1, <2>2 DEF Evict, ClientList, ClientShut, ServerShut, Ends
<1>3. evicted' \in BOOLEAN /\ listed' \in BOOLEAN /\ admin' \in 0 .. MaxAdmin
  <2>1. /\ evicted \in BOOLEAN /\ listed \in BOOLEAN /\ admin \in 0 .. MaxAdmin
    BY DEF TypeOK
  <2>2. Admin \/ UNCHANGED admin
    BY DEF Evict, ClientList, ClientShut, ServerShut
  <2>3. admin' \in 0 .. MaxAdmin BY <2>1, <2>2, ChannelAssumption DEF Admin
  <2> QED BY <2>1, <2>3 DEF Evict, ClientList, ClientShut, ServerShut
<1>4. TypeOK' BY <1>1, <1>2, <1>3 DEF TypeOK
<1> QED BY <1>1, <1>2, <1>4, StayIInv

\* The link is lost with the last frames of each direction.
LEMMA CutIInv ==
  ASSUME IInv, Cut \/ IdleTimeout
  PROVE  IInv'
<1> USE DEF IInv
<1>1. /\ UNCHANGED <<raw, err, using, pc, sess, serving, dir, local, pooled,
                     evicted, listed, admin, late, accepted, sent, got>>
      /\ cut' \in BOOLEAN
  BY DEF Cut, IdleTimeout, outer, history
<1>2. \/ wire' = wire
      \/ \E i \in 0 .. Len(wire["client"]), j \in 0 .. Len(wire["server"]) :
           wire' = [e \in Ends |->
                      SubSeq(wire[e], 1, IF e = "client" THEN i ELSE j)]
  BY DEF Cut, IdleTimeout
<1>3. /\ wire' \in [Ends -> Seq(Frame)] /\ Wires'
      /\ Calm("server") /\ Calm("client")
  <2>1. CASE wire' = wire BY <2>1, SameCalm DEF TypeOK, Wires
  <2>2. ASSUME NEW i \in 0 .. Len(wire["client"]),
               NEW j \in 0 .. Len(wire["server"]),
               wire' = [e \in Ends |->
                          SubSeq(wire[e], 1, IF e = "client" THEN i ELSE j)]
        PROVE  /\ wire' \in [Ends -> Seq(Frame)] /\ Wires'
               /\ Calm("server") /\ Calm("client")
    <3>1. /\ wire'["client"] = SubSeq(wire["client"], 1, i)
          /\ wire'["server"] = SubSeq(wire["server"], 1, j)
          /\ wire' = [e \in Ends |-> wire'[e]]
      BY <2>2 DEF Ends
    <3>2. \A e \in Ends : wire[e] \in Seq(Frames(e)) BY DEF Wires
    <3>3. /\ wire'["client"] \in Seq(Frames("client"))
          /\ wire'["server"] \in Seq(Frames("server"))
      BY <3>1, <3>2 DEF Ends
    <3>4. \A e \in Ends : wire'[e] \in Seq(Frames(e)) BY <3>3 DEF Ends
    <3>5. wire \in [Ends -> Seq(Frame)] BY DEF TypeOK
    <3>6. wire' \in [Ends -> Seq(Frame)] BY <3>1, <3>4, <3>5, WiresType
    <3> QED BY <3>1, <3>4, <3>6 DEF Wires, Calm
  <2> QED BY <1>2, <2>1, <2>2
<1>4. TypeOK' BY <1>1, <1>3 DEF TypeOK
<1> QED BY <1>1, <1>3, <1>4, StayIInv

-----------------------------------------------------------------------------
(***************************************************************************)
(* The theorems.                                                           *)
(***************************************************************************)

\* A new channel has no frame in flight (cs.go:32-47, 215-225).
LEMMA InitIInv == Init => IInv
<1> SUFFICES ASSUME Init PROVE IInv OBVIOUS
<1> USE ChannelAssumption DEF Init
<1>1. TypeOK
  <2>1. <<>> \in Seq(Frame) /\ <<>> \in Seq(Session \X (0 .. MaxData)) OBVIOUS
  <2>2. wire \in [Ends -> Seq(Frame)] BY <2>1
  <2>3. got \in [Ends -> [Session -> Seq(Session \X (0 .. MaxData))]] BY <2>1
  <2>4. /\ pc \in [Ends -> ClientPC \cup ServerPC]
        /\ pc["client"] \in ClientPC /\ pc["server"] \in ServerPC
    BY DEF Ends, ClientPC, ServerPC
  <2>5. dir \in [Ends -> [in : {"run", "done"}, out : {"run", "done"}]] OBVIOUS
  <2>6. sent \in [Ends -> [Session -> 0 .. MaxData]] OBVIOUS
  <2>7. /\ raw \in [Ends -> {"open", "closed"}]
        /\ err \in [Ends -> BOOLEAN] /\ using \in [Ends -> 0 .. MaxSession]
        /\ local \in [Ends -> {"open", "eof", "closed"}]
    OBVIOUS
  <2>8. /\ cut \in BOOLEAN /\ pooled \in BOOLEAN /\ evicted \in BOOLEAN
        /\ listed \in BOOLEAN
    OBVIOUS
  <2>9. /\ sess \in 0 .. MaxSession /\ serving \in 0 .. MaxSession
        /\ admin \in 0 .. MaxAdmin
    OBVIOUS
  <2>10. /\ late \in SUBSET (Session \X (1 .. MaxData))
         /\ accepted \in SUBSET Session
    OBVIOUS
  <2> HIDE DEF Init
  <2> QED BY <2>2, <2>3, <2>4, <2>5, <2>6, <2>7, <2>8, <2>9, <2>10 DEF TypeOK
<1>2. Wires BY DEF Wires
<1>3. Named BY DEF Named, Ends
<1>4. Order
  <2>1. Dials = {} /\ Answers = {} BY DEF Dials, Answers, Ends
  <2> QED BY <2>1 DEF Order, OneDial, NoDial, Served, Ends
<1> QED BY <1>1, <1>2, <1>3, <1>4 DEF IInv

\* Every step keeps the invariant.
LEMMA NextIInv == IInv /\ [Next]_vars => IInv'
<1> SUFFICES ASSUME IInv, [Next]_vars PROVE IInv' OBVIOUS
<1>1. CASE ClientNext
  BY <1>1, ClientDialIInv, ClientBackIInv, ClientFailsIInv, ClientEndsIInv
     DEF ClientNext
<1>2. CASE ServerNext
  BY <1>2, ServerReadDialIInv, ServerAnswerIInv, ServerEndsIInv DEF ServerNext
<1>3. ASSUME NEW e \in Ends, PipeNext(e) PROVE IInv'
  BY <1>3, PipeInIInv, PipeOutIInv DEF PipeNext
<1>4. CASE (\E s \in Session : UdpgwRead(s)) \/ \E m \in late : UdpgwWrite(m)
  BY <1>4, UdpgwIInv
<1>5. CASE Outside BY <1>5, ExpireIInv, AdminIInv, CutIInv DEF Outside
<1>6. CASE UNCHANGED vars
  <2>1. UNCHANGED <<wire, raw, cut, err, using, pc, sess, serving, dir, local,
                    pooled, evicted, listed, admin, late, accepted, sent, got>>
    BY <1>6 DEF vars
  <2>2. TypeOK' /\ Wires' BY <2>1 DEF IInv, TypeOK, Wires
  <2> QED BY <2>1, <2>2, SameCalm, StayIInv
<1> QED BY <1>1, <1>2, <1>3, <1>4, <1>5, <1>6 DEF Next

\* The invariant holds in every behaviour of a channel.
LEMMA SpecIInv == Spec => []IInv
BY InitIInv, NextIInv, PTL DEF Spec

\* The fields of the two ChannelConn and of the goroutines that own them
\* keep their types.
THEOREM TypeCorrect == Spec => []TypeOK
BY SpecIInv, PTL DEF IInv

\* A channel in the client's idle pool has no dial and no answer in flight,
\* and its server is not dialing (Client.pushConn, cs.go:421-447): the next
\* session cannot be given the answer of an earlier one.
THEOREM PoolIsQuiet == Spec => []QuietPool
<1>1. IInv => QuietPool
  <2> SUFFICES ASSUME IInv, pc["client"] = "idle"
               PROVE  /\ pc["server"] # "dialing"
                      /\ \A e \in Ends : \A i \in 1 .. Len(wire[e]) :
                           wire[e][i].cmd \in {"data", "close"}
    BY DEF QuietPool
  <2>1. Dials = {} /\ Answers = {} /\ pc["server"] # "dialing"
    BY DEF IInv, Order, NoDial
  <2>2. \A e \in Ends : \A i \in 1 .. Len(wire[e]) : wire[e][i] \in Frames(e)
    BY DEF IInv, Wires
  <2>3. ASSUME NEW e \in Ends, NEW i \in 1 .. Len(wire[e])
        PROVE  wire[e][i].cmd \in {"data", "close"}
    <3>1. wire[e][i] \in Frames(e) BY <2>2
    <3>2. CASE e = "server" BY <2>1, <3>1, <3>2 DEF Dials, Frames
    <3>3. CASE e = "client" BY <2>1, <3>1, <3>3 DEF Answers, Frames
    <3> QED BY <3>2, <3>3 DEF Ends
  <2> QED BY <2>1, <2>3
<1> QED BY <1>1, SpecIInv, PTL

\* When both ends copy they copy for one session (cs.go:238-249, 493-517):
\* the server's target is the one the client dialed.
THEOREM BothEndsOneSession == Spec => []SameSession
<1>1. IInv => SameSession BY DEF IInv, Named, Order, Served, SameSession
<1> QED BY <1>1, SpecIInv, PTL

-----------------------------------------------------------------------------
(***************************************************************************)
(* Isolation.  But for the gateways' datagrams an end writes data only     *)
(* while its session is open, so what an end reads in a session that no    *)
(* datagram can stray into (Sealed) is the run of data frames at the head  *)
(* of its wire, numbered from the next it expects.                         *)
(***************************************************************************)

AllData(w, b, n) == \A j \in b + 1 .. n : w[j].cmd = "data"
NoData(w, b) == \A j \in b + 1 .. Len(w) : w[j].cmd # "data"

\* The data frames of w behind place b, up to the first other frame, are the
\* next of session s for an end that has got g of them ...
Numbered(w, b, s, g) ==
  \A i \in b + 1 .. Len(w) : AllData(w, b, i) => w[i] = DataFrame(s, g + i - b)

\* ... and are all that the peer has sent, when they are the end of w.
Full(w, b, g, n) == AllData(w, b, Len(w)) => g + Len(w) = b + n

Stream(e, b, s) ==
  /\ Numbered(wire[e], b, s, Len(got[e][s]))
  /\ Linked => Full(wire[e], b, Len(got[e][s]), sent[Peer(e)][s])

\* An end that copies has its stream at the head of the wire; a client that
\* waits for an answer has it behind the answer.
Streams ==
  /\ \A e \in Ends :
       Copying(e, "in") /\ Sealed(e, using[e]) => Stream(e, 0, using[e])
  /\ pc["client"] = "dialing" /\ Sealed("client", sess) =>
       \A i \in Answers :
         wire["client"][i].cmd = "ok" => Stream("client", i, sess)

\* The server serves the sessions in the order of the dials, and a dial is
\* the last that the client has written but for close frames.
InTurn ==
  /\ serving <= sess
  /\ pc["client"] = "idle" => serving = sess
  /\ \A i, j \in Dials : i = j
  /\ \A i \in Dials :
       /\ wire["server"][i].sess = sess
       /\ sess = serving + 1
       /\ NoData(wire["server"], i)
  /\ pc["server"] = "dialing" => NoData(wire["server"], 0) /\ serving = sess

\* Nothing was sent or got yet in a session to come.
Waiting(s) == s > sess \/ (s = sess /\ pc["client"] = "dialing")
Dialed(s) ==
  s = sess /\ (Dials # {} \/ (pc["server"] = "dialing" /\ s = serving))
Unserved(s) == s > serving \/ (s = serving /\ pc["server"] = "dialing")
Unused ==
  \A s \in Session :
    /\ Waiting(s) => sent["client"][s] = 0 /\ got["client"][s] = <<>>
    /\ Dialed(s) => sent["client"][s] = 0
    /\ Unserved(s) => sent["server"][s] = 0

\* A data frame in flight has been sent.
Carried ==
  \A e \in Ends : \A i \in 1 .. Len(wire[e]) :
    wire[e][i].cmd = "data" => wire[e][i].n <= sent[Peer(e)][wire[e][i].sess]

\* A datagram that is not written yet has been read, for a udpgw session that
\* the server has heard of.
Stray ==
  \A m \in late :
    m[1] \in Udpgw /\ m[1] <= serving /\ m[2] <= sent["server"][m[1]]

\* A session is accepted only after its dial was read.
Heard ==
  /\ \A s \in accepted : s <= serving
  /\ pc["server"] = "dialing" => serving \notin accepted

Isolated == \A e \in Ends, s \in Session : Sealed(e, s) => Exact(e, s)

Private == Stray /\ Streams /\ InTurn /\ Unused /\ Carried /\ Isolated

\* What a step that writes no dial, acceptance or data does to the wire of e.
Still(e) ==
  \/ wire'[e] = wire[e]
  \/ \E f \in Frame : /\ f.cmd \in {"refused", "close"}
                      /\ wire'[e] = Append(wire[e], f)
  \/ \E n \in 0 .. Len(wire[e]) : wire'[e] = SubSeq(wire[e], 1, n) /\ ~Linked'

Read(e) ==
  /\ wire[e] # <<>>
  /\ wire'[e] = Tail(wire[e])
  /\ ~Copying(e, "in")'
  /\ e = "client" => pc'["client"] # "dialing"

\* A step that begins nothing, sends nothing and hands nothing over.
Quiet ==
  /\ UNCHANGED <<got, sent, sess, serving, late, accepted>>
  /\ Linked' => Linked
  /\ \A e \in Ends : /\ Still(e) \/ Read(e)
                     /\ Copying(e, "in")' =>
                          Copying(e, "in") /\ using'[e] = using[e]
  /\ pc'["client"] = "dialing" => pc["client"] = "dialing"
  /\ pc'["client"] = "idle" => pc["client"] \in {"idle", "piping"}
  /\ \A at \in {"dialing", "piping"} : pc'["server"] = at => pc["server"] = at

\* Its frames were there before, one place further on at most.
LEMMA QuietFrames ==
  ASSUME TypeOK, NEW e \in Ends, Still(e) \/ Read(e)
  PROVE  \E k \in {0, 1} : \A i \in 1 .. Len(wire'[e]) :
           \/ wire'[e][i].cmd \in {"refused", "close"}
           \/ i + k \in 1 .. Len(wire[e]) /\ wire'[e][i] = wire[e][i + k]
<1>1. wire[e] \in Seq(Frame) BY DEF TypeOK
<1> DEFINE s == wire[e]
           t == wire'[e]
           From(k) == \A i \in 1 .. Len(t) :
                        \/ t[i].cmd \in {"refused", "close"}
                        \/ i + k \in 1 .. Len(s) /\ t[i] = s[i + k]
<1>2. s \in Seq(Frame) BY <1>1
<1>3. SUFFICES From(0) \/ From(1) OBVIOUS
<1>4. CASE t = s
  <2>1. From(0) BY <1>2, <1>4
  <2> QED BY <2>1
<1>5. CASE s # <<>> /\ t = Tail(s)
  <2>1. From(1) BY <1>2, <1>5
  <2> QED BY <2>1
<1>6. ASSUME NEW f \in Frame, f.cmd \in {"refused", "close"}, t = Append(s, f)
      PROVE  From(0)
  BY <1>2, <1>6
<1>7. ASSUME NEW n \in 0 .. Len(s), t = SubSeq(s, 1, n)
      PROVE  From(0)
  <2>1. Len(t) = n /\ \A i \in 1 .. n : t[i] = s[i] BY <1>2, <1>7
  <2> QED BY <1>2, <2>1
<1> QED BY <1>4, <1>5, <1>6, <1>7 DEF Still, Read

\* What AllData sees.
LEMMA SameData ==
  ASSUME NEW v, NEW w, NEW b \in Nat, NEW n \in Nat,
         \A i \in 1 .. n : w[i] = v[i]
  PROVE  AllData(w, b, n) <=> AllData(v, b, n)
<1>1. \A j \in b + 1 .. n : w[j] = v[j] OBVIOUS
<1> QED BY <1>1 DEF AllData

LEMMA Counts ==
  ASSUME TypeOK, NEW e \in Ends, NEW s \in Session
  PROVE  /\ got[e][s] \in Seq(Session \X (0 .. MaxData))
         /\ Len(got[e][s]) \in Nat
         /\ sent[e][s] \in 0 .. MaxData /\ sent[e][s] \in Nat
         /\ sent[Peer(e)][s] \in 0 .. MaxData /\ sent[Peer(e)][s] \in Nat
<1>1. got[e][s] \in Seq(Session \X (0 .. MaxData)) BY DEF TypeOK
<1>2. Len(got[e][s]) \in Nat BY <1>1
<1>3. sent[e][s] \in 0 .. MaxData /\ sent[Peer(e)][s] \in 0 .. MaxData
  BY Peers DEF TypeOK
<1> QED BY <1>1, <1>2, <1>3

\* What is read and written of a wire.
LEMMA TailFrames ==
  ASSUME NEW v \in Seq(Frame), v # <<>>
  PROVE  /\ Len(v) \in Nat \ {0} /\ Len(Tail(v)) = Len(v) - 1
         /\ Head(v) = v[1]
         /\ \A i \in 1 .. Len(Tail(v)) :
              i + 1 \in 1 .. Len(v) /\ Tail(v)[i] = v[i + 1]
OBVIOUS

LEMMA AppendFrames ==
  ASSUME NEW v \in Seq(Frame), NEW f \in Frame
  PROVE  /\ Len(v) \in Nat /\ Len(Append(v, f)) = Len(v) + 1
         /\ Append(v, f)[Len(v) + 1] = f
         /\ \A i \in 1 .. Len(v) : Append(v, f)[i] = v[i]
OBVIOUS

\* A stream is kept by a frame behind it that is no data ...
LEMMA AppendRun ==
  ASSUME NEW v \in Seq(Frame), NEW f \in Frame, f.cmd # "data",
         NEW b \in 0 .. Len(v), NEW s, NEW g, NEW n, Numbered(v, b, s, g)
  PROVE  Numbered(Append(v, f), b, s, g) /\ Full(Append(v, f), b, g, n)
<1> DEFINE w == Append(v, f)
<1>1. Len(w) = Len(v) + 1 /\ w[Len(v) + 1] = f
      /\ \A i \in 1 .. Len(v) : w[i] = v[i]
  BY AppendFrames
<1>2. Len(v) \in Nat /\ b <= Len(v) OBVIOUS
<1> HIDE DEF w
<1>3. ~AllData(w, b, Len(w)) BY <1>1, <1>2 DEF AllData
<1>4. ASSUME NEW i \in b + 1 .. Len(v)
      PROVE  AllData(w, b, i) <=> AllData(v, b, i)
  <2>1. i \in Nat /\ b \in Nat /\ \A j \in 1 .. i : w[j] = v[j]
    BY <1>1, <1>2
  <2> QED BY <2>1, SameData
<1>5. Numbered(w, b, s, g) /\ Full(w, b, g, n)
  BY <1>1, <1>2, <1>3, <1>4 DEF Numbered, Full
<1> QED BY <1>5 DEF w

LEMMA OtherStream ==
  ASSUME TypeOK, NEW e \in Ends, NEW f \in Frame, f.cmd # "data",
         wire'[e] = wire[e] \/ wire'[e] = Append(wire[e], f),
         got'[e] = got[e], sent'[Peer(e)] = sent[Peer(e)],
         Linked' => Linked,
         NEW b \in 0 .. Len(wire[e]), NEW s, Stream(e, b, s)
  PROVE  Stream(e, b, s)'
<1>1. CASE wire'[e] = wire[e] BY <1>1 DEF Stream
<1>2. CASE wire'[e] = Append(wire[e], f)
  <2>1. wire[e] \in Seq(Frame) BY DEF TypeOK
  <2> QED BY <1>2, <2>1, AppendRun DEF Stream
<1> QED BY <1>1, <1>2

\* ... and by what is still.
LEMMA StillStream ==
  ASSUME TypeOK, NEW e \in Ends, Still(e), Linked' => Linked,
         UNCHANGED <<got, sent>>, NEW b \in 0 .. Len(wire[e]),
         b <= Len(wire'[e]), NEW s \in Session, Stream(e, b, s)
  PROVE  Stream(e, b, s)'
<1> DEFINE v == wire[e]
           w == wire'[e]
           g == Len(got[e][s])
           n == sent[Peer(e)][s]
<1>1. v \in Seq(Frame) BY DEF TypeOK
<1>2. g \in Nat /\ n \in Nat BY Counts
<1>3. Numbered(v, b, s, g) /\ (Linked => Full(v, b, g, n)) BY DEF Stream
<1>4. SUFFICES Numbered(w, b, s, g) /\ (Linked' => Full(w, b, g, n))
  BY DEF Stream
<1> HIDE DEF g, n
<1>5. CASE w = v BY <1>3, <1>5
<1>6. ASSUME NEW f \in Frame, f.cmd \in {"refused", "close"}, w = Append(v, f)
      PROVE  Numbered(w, b, s, g) /\ Full(w, b, g, n)
  BY <1>1, <1>3, <1>6, AppendRun
<1>7. ASSUME NEW m \in 0 .. Len(v), w = SubSeq(v, 1, m)
      PROVE  Numbered(w, b, s, g)
  <2>1. Len(w) = m /\ \A i \in 1 .. m : w[i] = v[i] BY <1>1, <1>7
  <2>2. Len(v) \in Nat BY <1>1
  <2>3. ASSUME NEW i \in b + 1 .. m
        PROVE  AllData(w, b, i) <=> AllData(v, b, i)
    <3>1. i \in Nat /\ b \in Nat /\ \A j \in 1 .. i : w[j] = v[j]
      BY <2>1, <2>2
    <3> QED BY <3>1, SameData
  <2> QED BY <1>3, <2>1, <2>2, <2>3 DEF Numbered
<1> QED BY <1>5, <1>6, <1>7, <1>3 DEF Still

\* An end that copies or waits does so for a session.
LEMMA Sessions ==
  ASSUME IInv
  PROVE  /\ \A e \in Ends : pc[e] = "piping" => using[e] \in Session
         /\ pc["client"] = "dialing" => sess \in Session
         /\ pc["server"] = "dialing" => serving \in Session
BY DEF IInv, Named, Ends

LEMMA QuietStreams ==
  ASSUME IInv, Streams, Quiet
  PROVE  Streams'
<1>1. ASSUME NEW e \in Ends, Copying(e, "in")', Sealed(e, using'[e])
      PROVE  Stream(e, 0, using[e])'
  <2>1. /\ Copying(e, "in") /\ using'[e] = using[e]
        /\ Still(e)
        /\ Linked' => Linked
        /\ UNCHANGED <<got, sent>>
    BY <1>1 DEF Quiet, Read
  <2>2. using[e] \in Session BY <2>1, Sessions DEF Copying
  <2>3. Stream(e, 0, using[e]) BY <1>1, <2>1 DEF Streams
  <2>4. 0 \in 0 .. Len(wire[e]) /\ 0 <= Len(wire'[e])
    <3>1. wire[e] \in Seq(Frame) BY DEF IInv, TypeOK
    <3>2. Len(wire[e]) \in Nat BY <3>1
    <3>3. Len(wire'[e]) \in Nat BY <2>1, <3>1 DEF Still
    <3> QED BY <3>2, <3>3
  <2>5. ASSUME NEW s \in Session, s = using[e]
        PROVE  Stream(e, 0, s)'
    <3>1. Stream(e, 0, s) BY <2>3, <2>5 DEF Stream
    <3> QED BY <2>1, <2>4, <3>1, StillStream DEF IInv
  <2> QED BY <2>1, <2>2, <2>5 DEF Stream
<1>2. ASSUME pc'["client"] = "dialing", Sealed("client", sess'),
             NEW i \in Answers', wire'["client"][i].cmd = "ok"
      PROVE  Stream("client", i, sess)'
  <2>1. /\ pc["client"] = "dialing"
        /\ Linked' => Linked
        /\ UNCHANGED <<got, sent, sess>>
    BY <1>2 DEF Quiet
  <2>2. Still("client") BY <1>2 DEF Quiet, Read, Ends
  <2>3. wire["client"] \in Seq(Frame) BY DEF IInv, TypeOK, Ends
  <2>4. i \in 1 .. Len(wire'["client"]) BY DEF Answers
  <2>5. i \in 1 .. Len(wire["client"]) /\ wire["client"][i].cmd = "ok"
    <3>1. CASE wire'["client"] = wire["client"] BY <1>2, <2>4, <3>1
    <3>2. ASSUME NEW f \in Frame, f.cmd \in {"refused", "close"},
                 wire'["client"] = Append(wire["client"], f)
          PROVE  i \in 1 .. Len(wire["client"])
                 /\ wire["client"][i].cmd = "ok"
      <4>1. CASE i = Len(wire["client"]) + 1
        <5>1. wire'["client"][i] = f BY <2>3, <3>2, <4>1
        <5> QED BY <1>2, <3>2, <5>1
      <4>2. CASE i # Len(wire["client"]) + 1
        BY <1>2, <2>3, <2>4, <3>2, <4>2
      <4> QED BY <4>1, <4>2
    <3>3. ASSUME NEW n \in 0 .. Len(wire["client"]),
                 wire'["client"] = SubSeq(wire["client"], 1, n)
          PROVE  i \in 1 .. Len(wire["client"])
                 /\ wire["client"][i].cmd = "ok"
      BY <1>2, <2>3, <2>4, <3>3
    <3> QED BY <2>2, <3>1, <3>2, <3>3 DEF Still
  <2>6. i \in Answers BY <2>5 DEF Answers
  <2>7. Stream("client", i, sess) BY <1>2, <2>1, <2>5, <2>6 DEF Streams, Stream
  <2>8. i \in 0 .. Len(wire["client"]) /\ i <= Len(wire'["client"])
    BY <2>4, <2>5
  <2>9. sess \in Session /\ "client" \in Ends BY <2>1, Sessions DEF Ends
  <2>10. ASSUME NEW s \in Session, s = sess
         PROVE  Stream("client", i, s)'
    <3>1. Stream("client", i, s) BY <2>7, <2>10 DEF Stream
    <3> QED BY <2>1, <2>2, <2>8, <2>9, <3>1, StillStream DEF IInv
  <2> QED BY <2>1, <2>9, <2>10 DEF Stream
<1> QED BY <1>1, <1>2 DEF Streams, Sealed

\* NoData is kept by a step whose frames were there before.
LEMMA QuietNoData ==
  ASSUME NEW v, NEW w, NEW k \in {0, 1}, NEW b \in Nat, NEW c \in Nat,
         b <= c + k, Len(w) \in Nat, NoData(v, b),
         \A i \in 1 .. Len(w) :
           \/ w[i].cmd \in {"refused", "close"}
           \/ i + k \in 1 .. Len(v) /\ w[i] = v[i + k]
  PROVE  NoData(w, c)
<1> SUFFICES ASSUME NEW j \in c + 1 .. Len(w) PROVE w[j].cmd # "data"
  BY DEF NoData
<1>1. j \in 1 .. Len(w) OBVIOUS
<1>2. CASE w[j].cmd \in {"refused", "close"} BY <1>2
<1>3. CASE j + k \in 1 .. Len(v) /\ w[j] = v[j + k]
  <2>1. j + k \in b + 1 .. Len(v) BY <1>3
  <2> QED BY <1>3, <2>1 DEF NoData
<1> QED BY <1>1, <1>2, <1>3

LEMMA QuietInTurn ==
  ASSUME IInv, InTurn, Unused, Carried, Quiet
  PROVE  InTurn' /\ Unused' /\ Carried'
<1>1. UNCHANGED <<got, sent, sess, serving>> BY DEF Quiet
<1>2. \A e \in Ends : wire[e] \in Seq(Frame) BY DEF IInv, TypeOK
<1>3. \A e \in Ends : Len(wire'[e]) \in Nat
  BY <1>2 DEF Quiet, Still, Read
<1>4. PICK k \in {0, 1} : \A i \in 1 .. Len(wire'["server"]) :
           \/ wire'["server"][i].cmd \in {"refused", "close"}
           \/ i + k \in 1 .. Len(wire["server"])
              /\ wire'["server"][i] = wire["server"][i + k]
  BY QuietFrames DEF IInv, Quiet, Ends
<1>5. ASSUME NEW i \in Dials'
      PROVE  /\ i \in Nat /\ i + k \in Dials
             /\ wire'["server"][i] = wire["server"][i + k]
  <2>1. i \in 1 .. Len(wire'["server"]) /\ wire'["server"][i].cmd = "dial"
    BY DEF Dials
  <2>2. i + k \in 1 .. Len(wire["server"])
        /\ wire'["server"][i] = wire["server"][i + k]
    BY <1>4, <2>1
  <2> QED BY <2>1, <2>2 DEF Dials
<1>6. InTurn'
  <2>1. serving' <= sess' BY <1>1 DEF InTurn
  <2>2. pc'["client"] = "idle" => serving' = sess'
    BY <1>1 DEF Quiet, InTurn, IInv, Order, Served
  <2>3. \A i, j \in Dials' : i = j BY <1>5 DEF InTurn
  <2>4. ASSUME NEW i \in Dials'
        PROVE  /\ wire'["server"][i].sess = sess'
               /\ sess' = serving' + 1
               /\ NoData(wire'["server"], i)
    <3>1. /\ wire["server"][i + k].sess = sess
          /\ sess = serving + 1
          /\ NoData(wire["server"], i + k)
      BY <1>5 DEF InTurn
    <3>2. /\ i \in Nat /\ i + k \in Nat /\ i + k <= i + k
          /\ Len(wire'["server"]) \in Nat
      BY <1>3, <1>5 DEF Ends
    <3>3. NoData(wire'["server"], i) BY <1>4, <3>1, <3>2, QuietNoData
    <3> QED BY <1>1, <1>5, <3>1, <3>3
  <2>5. ASSUME pc'["server"] = "dialing"
        PROVE  NoData(wire'["server"], 0) /\ serving' = sess'
    <3>1. NoData(wire["server"], 0) /\ serving = sess
      BY <2>5 DEF Quiet, InTurn
    <3>2. Len(wire'["server"]) \in Nat /\ 0 \in Nat /\ 0 <= 0 + k
      BY <1>3 DEF Ends
    <3>3. NoData(wire'["server"], 0) BY <1>4, <3>1, <3>2, QuietNoData
    <3> QED BY <1>1, <3>1, <3>3
  <2> QED BY <2>1, <2>2, <2>3, <2>4, <2>5 DEF InTurn
<1>7. Unused'
  <2>1. Dials' # {} => Dials # {} BY <1>5
  <2>2. \A s \in Session : /\ Waiting(s)' => Waiting(s)
                           /\ Dialed(s)' => Dialed(s)
                           /\ Unserved(s)' => Unserved(s)
    BY <1>1, <2>1 DEF Quiet, Waiting, Dialed, Unserved
  <2> QED BY <1>1, <2>2 DEF Unused
<1>8. Carried'
  <2> SUFFICES ASSUME NEW e \in Ends, NEW i \in 1 .. Len(wire'[e]),
                      wire'[e][i].cmd = "data"
               PROVE  wire'[e][i].n <= sent'[Peer(e)][wire'[e][i].sess]
    BY DEF Carried
  <2>1. PICK l \in {0, 1} : \A j \in 1 .. Len(wire'[e]) :
           \/ wire'[e][j].cmd \in {"refused", "close"}
           \/ j + l \in 1 .. Len(wire[e]) /\ wire'[e][j] = wire[e][j + l]
    BY QuietFrames DEF IInv, Quiet
  <2>2. i + l \in 1 .. Len(wire[e]) /\ wire'[e][i] = wire[e][i + l] BY <2>1
  <2> QED BY <1>1, <2>2 DEF Carried
<1> QED BY <1>6, <1>7, <1>8

LEMMA QuietPrivate ==
  ASSUME IInv, Private, Quiet
  PROVE  Private'
<1>1. Stray' BY DEF Private, Quiet, Stray
<1>2. Streams' BY QuietStreams DEF Private
<1>3. InTurn' /\ Unused' /\ Carried' BY QuietInTurn DEF Private
<1>4. Isolated' BY DEF Private, Quiet, Isolated, Exact, Sealed
<1> QED BY <1>1, <1>2, <1>3, <1>4 DEF Private

\* The link does not come back.
LEMMA LinkLost ==
  ASSUME \A e \in Ends : raw'[e] = "open" => raw[e] = "open", cut => cut'
  PROVE  Linked' => Linked
BY DEF Linked

\* What the methods of ChannelConn do to the wires is quiet.
LEMMA TakenQuiet ==
  ASSUME TypeOK, Wires, NEW e \in Ends, Incoming(e), wire' = Taken(e)
  PROVE  /\ wire[e] # <<>> /\ wire'[e] = Tail(wire[e])
         /\ \A d \in Ends \ {e} : Still(d)
<1>1. /\ wire[e] # <<>> /\ wire'[e] = Tail(wire[e])
      /\ wire'[Peer(e)] = wire[Peer(e)]
  BY TakenKeeps
<1> QED BY <1>1 DEF Ends, Peer, Still

LEMMA WriteQuiet ==
  ASSUME TypeOK, Wires, NEW e \in Ends, NEW f \in Frames(Peer(e)),
         f.cmd \in {"refused", "close"}, WriteFrame(e, f)
  PROVE  \A d \in Ends : Still(d)
<1>1. /\ wire'[e] = wire[e]
      /\ \/ wire'[Peer(e)] = wire[Peer(e)]
         \/ wire'[Peer(e)] = Append(wire[Peer(e)], f)
  BY WriteKeeps
<1>2. f \in Frame BY Peers, FramesType
<1>3. Still(e) BY <1>1 DEF Still
<1>4. Still(Peer(e)) BY <1>1, <1>2 DEF Still
<1> QED BY <1>3, <1>4 DEF Ends, Peer

LEMMA CloseQuiet ==
  ASSUME TypeOK, Wires, NEW e \in Ends, Close(e)
  PROVE  /\ \A d \in Ends : Still(d)
         /\ \A d \in Ends : raw'[d] = "open" => raw[d] = "open"
<1>1. \A d \in Ends : Still(d)
  <2>1. CASE wire' = wire BY <2>1 DEF Still
  <2>2. CASE WriteFrame(e, CloseFrame)
    <3>1. CloseFrame \in Frames(Peer(e)) /\ CloseFrame.cmd = "close"
      BY Peers, FramesType DEF CloseFrame
    <3> QED BY <2>2, <3>1, WriteQuiet
  <2> QED BY <2>1, <2>2 DEF Close
<1>2. \A d \in Ends : raw'[d] = "open" => raw[d] = "open"
  BY DEF Close, TypeOK
<1> QED BY <1>1, <1>2

LEMMA BreakQuiet ==
  ASSUME TypeOK, NEW e \in Ends, Break(e)
  PROVE  \A d \in Ends : raw'[d] = "open" => raw[d] = "open"
BY DEF Break, TypeOK

LEMMA SameQuiet ==
  ASSUME UNCHANGED <<wire, raw>>
  PROVE  /\ \A d \in Ends : Still(d)
         /\ \A d \in Ends : raw'[d] = "open" => raw[d] = "open"
BY DEF Still

\* The quiet steps of the client ...
LEMMA ClientQuiet ==
  ASSUME IInv, ClientBackFails \/ ClientDrop \/ ClientPipeEnd
  PROVE  Quiet
<1> USE DEF IInv
<1>1. /\ UNCHANGED <<got, sent, sess, serving, late, accepted, dir, cut>>
      /\ "client" \in Ends
  BY DEF ClientBackFails, ClientDrop, ClientPipeEnd, outer, history, Ends
<1>2. /\ pc'["server"] = pc["server"]
      /\ pc'["client"] \in {"gone", "dropping", "idle"}
      /\ pc'["client"] = "idle" => pc["client"] = "piping"
  BY DEF ClientBackFails, ClientDrop, ClientPipeEnd, Goto, PipeDone, TypeOK,
         Ends
<1>3. using'["server"] = using["server"]
  BY DEF ClientBackFails, ClientDrop, ClientPipeEnd, TypeOK, Ends
<1>4. /\ \A d \in Ends : raw'[d] = "open" => raw[d] = "open"
      /\ Still("server")
      /\ \/ Still("client")
         \/ wire["client"] # <<>> /\ wire'["client"] = Tail(wire["client"])
  <2>1. CASE ClientBackFails
    <3>1. \A d \in Ends : raw'[d] = "open" => raw[d] = "open"
      BY <1>1, <2>1, BreakQuiet DEF ClientBackFails
    <3>2. CASE wire' = wire BY <3>1, <3>2 DEF Still
    <3>3. CASE Incoming("client") /\ wire' = Taken("client")
      BY <1>1, <3>1, <3>3, TakenQuiet DEF Ends
    <3> QED BY <2>1, <3>2, <3>3 DEF ClientBackFails
  <2>2. CASE Close("client") BY <1>1, <2>2, CloseQuiet DEF Ends
  <2>3. CASE UNCHANGED <<wire, raw>> BY <2>3, SameQuiet DEF Ends
  <2> QED BY <2>1, <2>2, <2>3 DEF ClientDrop, ClientPipeEnd
<1>5. Linked' => Linked BY <1>1, <1>4, LinkLost
<1>6. Still("client") \/ Read("client") BY <1>2, <1>4 DEF Read, Copying
<1> QED BY <1>1, <1>2, <1>3, <1>4, <1>5, <1>6 DEF Quiet, Copying, Ends

\* ... of the server ...
LEMMA ServerQuiet ==
  ASSUME IInv, ServerStop \/ ServerRefuse \/ ServerPipeEnd
  PROVE  Quiet
<1> USE DEF IInv
<1>1. /\ UNCHANGED <<got, sent, sess, serving, late, accepted, dir, cut>>
      /\ "server" \in Ends /\ Peer("server") = "client"
  BY DEF ServerStop, ServerRefuse, ServerPipeEnd, outer, history, Ends, Peer
<1>2. /\ pc'["client"] = pc["client"]
      /\ pc'["server"] \in {"reading", "stopped"}
  BY DEF ServerStop, ServerRefuse, ServerPipeEnd, Goto, TypeOK, Ends
<1>3. using'["client"] = using["client"]
  BY DEF ServerStop, ServerRefuse, ServerPipeEnd, TypeOK, Ends
<1>4. /\ \A d \in Ends : raw'[d] = "open" => raw[d] = "open"
      /\ Still("client")
      /\ \/ Still("server")
         \/ wire["server"] # <<>> /\ wire'["server"] = Tail(wire["server"])
  <2>1. CASE ServerStop
    <3>1. \A d \in Ends : raw'[d] = "open" => raw[d] = "open"
      BY <1>1, <2>1, BreakQuiet DEF ServerStop
    <3>2. CASE wire' = wire BY <3>1, <3>2 DEF Still
    <3>3. CASE Incoming("server") /\ wire' = Taken("server")
      BY <1>1, <3>1, <3>3, TakenQuiet DEF Ends
    <3> QED BY <2>1, <3>2, <3>3 DEF ServerStop
  <2>2. CASE ServerRefuse
    <3>1. BackFrame(serving, "refused") \in Frames("client")
          /\ BackFrame(serving, "refused").cmd = "refused"
      BY ChannelAssumption
      DEF TypeOK, BackFrame, Frames, Frame, Commands
    <3>2. \A d \in Ends : Still(d)
      BY <1>1, <2>2, <3>1, WriteQuiet DEF ServerRefuse
    <3> QED BY <1>1, <2>2, <3>2 DEF ServerRefuse, Ends
  <2>3. CASE Close("server") BY <1>1, <2>3, CloseQuiet DEF Ends
  <2>4. CASE UNCHANGED <<wire, raw>> BY <2>4, SameQuiet DEF Ends
  <2> QED BY <2>1, <2>2, <2>3, <2>4 DEF ServerPipeEnd
<1>5. Linked' => Linked BY <1>1, <1>4, LinkLost
<1>6. Still("server") \/ Read("server") BY <1>2, <1>4 DEF Read, Copying
<1> QED BY <1>1, <1>2, <1>3, <1>4, <1>5, <1>6 DEF Quiet, Copying, Ends

\* ... of the copies ...
LEMMA PipeQuiet ==
  ASSUME IInv, NEW e \in Ends, PipeStop(e) \/ PipeClose(e) \/ LocalEnds(e)
  PROVE  Quiet
<1> USE DEF IInv
<1>1. UNCHANGED <<got, sent, sess, serving, late, accepted, pc, using, cut>>
  BY DEF PipeStop, PipeClose, LocalEnds, outer, history
<1>2. \A d \in Ends : Copying(d, "in")' => Copying(d, "in")
  <2>1. \/ dir' = dir
        \/ dir' = [dir EXCEPT ![e].in = "done"]
        \/ dir' = [dir EXCEPT ![e].out = "done"]
    BY DEF PipeStop, PipeClose, LocalEnds, EndCopyIn
  <2>2. ASSUME NEW d \in Ends, dir'[d]["in"] = "run" PROVE dir[d]["in"] = "run"
    <3>1. dir \in [Ends -> [in : {"run", "done"}, out : {"run", "done"}]]
      BY DEF TypeOK
    <3>2. dir[d] \in [in : {"run", "done"}, out : {"run", "done"}] BY <3>1
    <3>3. dir'[d] = dir[d] \/ dir'[d] = [dir[d] EXCEPT !.in = "done"]
          \/ dir'[d] = [dir[d] EXCEPT !.out = "done"]
      BY <2>1, <3>1
    <3> QED BY <2>2, <3>2, <3>3
  <2> QED BY <1>1, <2>2 DEF Copying
<1>3. /\ \A d \in Ends : raw'[d] = "open" => raw[d] = "open"
      /\ \A d \in Ends : Still(d) \/ Read(d)
  <2>1. CASE PipeStop(e)
    <3>1. \A d \in Ends : raw'[d] = "open" => raw[d] = "open"
      BY <2>1 DEF PipeStop
    <3>2. CASE wire' = wire BY <3>1, <3>2 DEF Still
    <3>3. CASE Incoming(e) /\ wire' = Taken(e)
      <4>1. /\ wire[e] # <<>> /\ wire'[e] = Tail(wire[e])
            /\ \A d \in Ends \ {e} : Still(d)
        BY <3>3, TakenQuiet
      <4>2. pc'[e] = "piping" /\ ~Copying(e, "in")'
        BY <1>1, <2>1 DEF PipeStop, Copying, EndCopyIn, TypeOK
      <4>3. Read(e) BY <4>1, <4>2 DEF Read
      <4> QED BY <3>1, <4>1, <4>3
    <3> QED BY <2>1, <3>2, <3>3 DEF PipeStop
  <2>2. CASE PipeClose(e) BY <2>2, CloseQuiet DEF PipeClose
  <2>3. CASE LocalEnds(e) BY <2>3, SameQuiet DEF LocalEnds
  <2> QED BY <2>1, <2>2, <2>3
<1>4. Linked' => Linked BY <1>1, <1>3, LinkLost
<1> QED BY <1>1, <1>2, <1>3, <1>4 DEF Quiet

\* ... and from outside.
LEMMA OutsideQuiet ==
  ASSUME IInv, Outside
  PROVE  Quiet
<1> USE DEF IInv
<1>1. /\ UNCHANGED <<got, sent, sess, serving, late, accepted, using, dir>>
      /\ "client" \in Ends /\ "server" \in Ends
  BY DEF Outside, Expire, Evict, ClientList, ClientShut, ServerShut, Cut,
         IdleTimeout, outer, history, Ends
<1>2. /\ pc'["server"] = pc["server"]
      /\ pc'["client"] \in {pc["client"], "gone"}
  BY DEF Outside, Expire, Evict, ClientList, ClientShut, ServerShut, Cut,
         IdleTimeout, Goto, TypeOK, Ends
<1>3. /\ \A d \in Ends : raw'[d] = "open" => raw[d] = "open"
      /\ \A d \in Ends : Still(d)
      /\ cut => cut'
  <2>1. CASE Expire BY <1>1, <2>1, CloseQuiet DEF Expire
  <2>2. CASE Evict BY <1>1, <2>2, CloseQuiet DEF Evict
  <2>3. CASE ClientList BY <2>3, SameQuiet DEF ClientList
  <2>4. CASE ClientShut BY <1>1, <2>4, CloseQuiet DEF ClientShut
  <2>5. CASE ServerShut BY <1>1, <2>5, CloseQuiet DEF ServerShut
  <2>6. CASE IdleTimeout BY <2>6, SameQuiet DEF IdleTimeout
  <2>7. CASE Cut
    <3>1. cut' /\ raw' = raw BY <2>7 DEF Cut
    <3>2. ~Linked' BY <3>1 DEF Linked
    <3>3. \A e \in Ends : wire[e] \in Seq(Frame) BY DEF TypeOK
    <3>4. \A e \in Ends : \E n \in 0 .. Len(wire[e]) :
            wire'[e] = SubSeq(wire[e], 1, n)
      BY <2>7, <3>3 DEF Cut, Ends
    <3> QED BY <3>1, <3>2, <3>4 DEF Still
  <2> QED BY <2>1, <2>2, <2>3, <2>4, <2>5, <2>6, <2>7 DEF Outside
<1>4. Linked' => Linked BY <1>3, LinkLost
<1>5. \A e \in Ends : Copying(e, "in")' => Copying(e, "in")
  BY <1>1, <1>2 DEF Copying, Ends
<1> QED BY <1>1, <1>2, <1>3, <1>4, <1>5 DEF Quiet

-----------------------------------------------------------------------------
(***************************************************************************)
(* The steps that begin a session, send or hand over.                      *)
(***************************************************************************)

\* DialBack (cs.go:470-478): the server has served the session before.
LEMMA ClientDialPrivate ==
  ASSUME IInv, Private, ClientDial
  PROVE  Private'
<1> USE DEF IInv
<1>1. /\ UNCHANGED <<got, sent, serving, late, using, dir, cut>>
      /\ sess' = sess + 1 /\ sess < MaxSession /\ pc["client"] = "idle"
      /\ "client" \in Ends /\ "server" \in Ends
      /\ Peer("client") = "server" /\ Peer("server") = "client"
  BY DEF ClientDial, outer, history, Ends, Peer
<1>2. /\ pc'["server"] = pc["server"]
      /\ pc'["client"] \in {"gone", "dialing"}
  BY <1>1 DEF ClientDial, Goto, TypeOK
<1>3. Dials = {} /\ Answers = {} /\ pc["server"] # "dialing" /\ serving = sess
  BY <1>1 DEF Order, NoDial, Private, InTurn
<1> DEFINE f == DialFrame(sess')
<1>4. /\ f \in Frame /\ f \in Frames("server") /\ f.cmd = "dial"
      /\ f.sess = sess'
  <2>1. sess' \in Session /\ sess' \in 0 .. MaxSession /\ 0 \in 0 .. MaxData
    BY <1>1, ChannelAssumption DEF TypeOK, Session
  <2>2. f = [cmd |-> "dial", sess |-> sess', n |-> 0] BY DEF DialFrame
  <2>3. f \in Frame BY <2>1, <2>2 DEF Frame, Commands
  <2> QED BY <2>1, <2>2, <2>3 DEF Frames
<1>5. /\ wire'["client"] = wire["client"]
      /\ \/ wire'["server"] = wire["server"]
         \/ wire'["server"] = Append(wire["server"], f)
  BY <1>1, <1>4, WriteKeeps DEF ClientDial
<1>6. Linked' => Linked
  <2>1. \A d \in Ends : raw'[d] = "open" => raw[d] = "open"
    BY DEF ClientDial, TypeOK
  <2> QED BY <1>1, <2>1, LinkLost
<1>7. sess \in Nat /\ wire["server"] \in Seq(Frame) BY <1>1 DEF TypeOK
<1> HIDE DEF f
<1>8. Dials' \subseteq {Len(wire["server"]) + 1}
      /\ \A i \in Dials' : wire'["server"][i] = f
                           /\ Len(wire'["server"]) = i
  <2> SUFFICES ASSUME NEW i \in Dials'
               PROVE  /\ i = Len(wire["server"]) + 1
                      /\ wire'["server"][i] = f
                      /\ Len(wire'["server"]) = i
    OBVIOUS
  <2>1. i \in 1 .. Len(wire'["server"]) /\ wire'["server"][i].cmd = "dial"
    BY DEF Dials
  <2>2. i \notin 1 .. Len(wire["server"]) \/ wire["server"][i].cmd # "dial"
    BY <1>3 DEF Dials
  <2>3. wire'["server"] = Append(wire["server"], f) BY <1>5, <2>1, <2>2
  <2>4. i \notin 1 .. Len(wire["server"])
    BY <1>7, <1>4, <2>1, <2>2, <2>3, AppendFrames
  <2> QED BY <1>4, <1>7, <2>1, <2>3, <2>4, AppendFrames
<1>9. Streams'
  <2>1. Answers' = {} BY <1>3, <1>5 DEF Answers
  <2>2. ASSUME Copying("server", "in")' PROVE Stream("server", 0, using["server"])'
    <3>1. Stream("server", 0, using["server"])
      BY <1>1, <1>2, <2>2 DEF Copying, Private, Streams, Sealed
    <3>2. ASSUME NEW s, s = using["server"] PROVE Stream("server", 0, s)'
      <4>1. Stream("server", 0, s) BY <3>1, <3>2 DEF Stream
      <4>2. 0 \in 0 .. Len(wire["server"]) BY <1>7
      <4> QED BY <1>1, <1>4, <1>5, <1>6, <4>1, <4>2, OtherStream
    <3> QED BY <1>1, <3>2 DEF Stream
  <2>3. ~Copying("client", "in")' BY <1>2 DEF Copying
  <2> QED BY <2>1, <2>2, <2>3 DEF Streams, Ends
<1>10. InTurn'
  BY <1>1, <1>2, <1>3, <1>4, <1>7, <1>8 DEF InTurn, NoData
<1>11. Unused'
  <2>1. ASSUME NEW s \in Session
        PROVE  /\ Waiting(s)' => Waiting(s)
               /\ Dialed(s)' => Waiting(s)
               /\ Unserved(s)' => Unserved(s)
    BY <1>1, <1>2, <1>3, <1>7 DEF Waiting, Dialed, Unserved, Session
  <2> QED BY <1>1, <2>1 DEF Private, Unused
<1>12. Carried'
  <2>1. ASSUME NEW i \in 1 .. Len(wire'["server"]),
               wire'["server"][i].cmd = "data"
        PROVE  i \in 1 .. Len(wire["server"])
               /\ wire'["server"][i] = wire["server"][i]
    <3>1. CASE wire'["server"] = wire["server"] BY <2>1, <3>1
    <3>2. CASE wire'["server"] = Append(wire["server"], f)
      <4>1. i \in 1 .. Len(wire["server"]) + 1
        BY <1>4, <1>7, <2>1, <3>2, AppendFrames
      <4>2. i # Len(wire["server"]) + 1
        BY <1>4, <1>7, <2>1, <3>2, AppendFrames
      <4>3. i \in 1 .. Len(wire["server"]) BY <1>7, <4>1, <4>2
      <4> QED BY <1>4, <1>7, <3>2, <4>3, AppendFrames
    <3> QED BY <1>5, <3>1, <3>2
  <2>2. ASSUME NEW e \in Ends, NEW i \in 1 .. Len(wire'[e]),
               wire'[e][i].cmd = "data"
        PROVE  wire'[e][i].n <= sent[Peer(e)][wire'[e][i].sess]
    <3>1. i \in 1 .. Len(wire[e]) /\ wire'[e][i] = wire[e][i]
      BY <1>5, <2>1, <2>2 DEF Ends
    <3> QED BY <2>2, <3>1 DEF Private, Carried
  <2> QED BY <1>1, <2>2 DEF Carried
<1>13. Isolated' /\ Stray' BY <1>1 DEF Private, Isolated, Exact, Sealed, Stray
<1> QED BY <1>9, <1>10, <1>11, <1>12, <1>13 DEF Private

\* A read takes a frame that has been sent.
LEMMA TakenCarried ==
  ASSUME IInv, Carried, NEW e \in Ends, Incoming(e), wire' = Taken(e),
         sent' = sent
  PROVE  Carried'
<1>1. /\ wire[e] \in Seq(Frame) /\ wire[e] # <<>>
      /\ wire'[e] = Tail(wire[e])
      /\ \A d \in Ends \ {e} : wire'[d] = wire[d]
  BY TakenKeeps DEF IInv, TypeOK, Ends, Peer
<1>2. ASSUME NEW d \in Ends, NEW i \in 1 .. Len(wire'[d]),
             wire'[d][i].cmd = "data"
      PROVE  wire'[d][i].n <= sent[Peer(d)][wire'[d][i].sess]
  <2>1. CASE d = e
    <3>1. i + 1 \in 1 .. Len(wire[e]) /\ wire'[e][i] = wire[e][i + 1]
      BY <1>1, <2>1, TailFrames
    <3> QED BY <1>2, <2>1, <3>1 DEF Carried
  <2>2. CASE d # e BY <1>1, <1>2, <2>2 DEF Carried
  <2> QED BY <2>1, <2>2
<1> QED BY <1>2 DEF Carried

\* The stream behind an answer that is taken, or behind the data handed over.
LEMMA TailRun ==
  ASSUME NEW v \in Seq(Frame), v # <<>>, NEW s, NEW g \in Nat, NEW n \in Nat
  PROVE  /\ Numbered(v, 1, s, g) => Numbered(Tail(v), 0, s, g)
         /\ Full(v, 1, g, n) => Full(Tail(v), 0, g, n)
         /\ v[1].cmd = "data" /\ Numbered(v, 0, s, g) =>
              v[1] = DataFrame(s, g + 1) /\ Numbered(Tail(v), 0, s, g + 1)
         /\ v[1].cmd = "data" /\ Full(v, 0, g, n) => Full(Tail(v), 0, g + 1, n)
<1> DEFINE w == Tail(v)
<1>1. /\ Len(v) \in Nat \ {0} /\ Len(w) = Len(v) - 1
      /\ \A i \in 1 .. Len(w) : i + 1 \in 1 .. Len(v) /\ w[i] = v[i + 1]
  BY TailFrames
<1> HIDE DEF w
<1>2. ASSUME NEW i \in 0 .. Len(w), AllData(w, 0, i)
      PROVE  /\ AllData(v, 1, i + 1)
             /\ v[1].cmd = "data" => AllData(v, 0, i + 1)
  <2>1. ASSUME NEW j \in 2 .. i + 1 PROVE v[j].cmd = "data"
    <3>1. j - 1 \in 1 .. i /\ j - 1 \in 1 .. Len(w) /\ (j - 1) + 1 = j
      BY <1>1
    <3>2. w[j - 1].cmd = "data" BY <1>2, <3>1 DEF AllData
    <3> QED BY <1>1, <3>1, <3>2
  <2> QED BY <1>1, <2>1 DEF AllData
<1>3. Numbered(v, 1, s, g) => Numbered(w, 0, s, g)
  <2> SUFFICES ASSUME Numbered(v, 1, s, g), NEW i \in 1 .. Len(w),
                      AllData(w, 0, i)
               PROVE  w[i] = DataFrame(s, g + i)
    BY DEF Numbered
  <2>1. i + 1 \in 2 .. Len(v) /\ AllData(v, 1, i + 1) BY <1>1, <1>2
  <2>2. v[i + 1] = DataFrame(s, g + (i + 1) - 1) BY <2>1 DEF Numbered
  <2>3. g + (i + 1) - 1 = g + i OBVIOUS
  <2> QED BY <1>1, <2>2, <2>3
<1>4. Full(v, 1, g, n) => Full(w, 0, g, n)
  <2>1. Len(w) \in 0 .. Len(w) /\ Len(w) + 1 = Len(v) BY <1>1
  <2> QED BY <1>1, <1>2, <2>1 DEF Full
<1>5. ASSUME v[1].cmd = "data", Numbered(v, 0, s, g)
      PROVE  v[1] = DataFrame(s, g + 1) /\ Numbered(w, 0, s, g + 1)
  <2>1. v[1] = DataFrame(s, g + 1)
    <3>1. AllData(v, 0, 1) /\ 1 \in 0 + 1 .. Len(v) BY <1>1, <1>5 DEF AllData
    <3>2. v[1] = DataFrame(s, g + 1 - 0) BY <1>5, <3>1 DEF Numbered
    <3>3. g + 1 - 0 = g + 1 OBVIOUS
    <3> QED BY <3>2, <3>3
  <2>2. ASSUME NEW i \in 1 .. Len(w), AllData(w, 0, i)
        PROVE  w[i] = DataFrame(s, g + 1 + i - 0)
    <3>1. i + 1 \in 0 + 1 .. Len(v) /\ AllData(v, 0, i + 1)
      BY <1>1, <1>2, <1>5, <2>2
    <3>2. v[i + 1] = DataFrame(s, g + (i + 1) - 0) BY <1>5, <3>1 DEF Numbered
    <3>3. g + (i + 1) - 0 = g + 1 + i - 0 OBVIOUS
    <3> QED BY <1>1, <3>2, <3>3
  <2>3. 0 + 1 = 1 OBVIOUS
  <2> QED BY <2>1, <2>2, <2>3 DEF Numbered
<1>6. ASSUME v[1].cmd = "data", Full(v, 0, g, n)
      PROVE  Full(w, 0, g + 1, n)
  <2> SUFFICES ASSUME AllData(w, 0, Len(w))
               PROVE  (g + 1) + Len(w) = 0 + n
    BY DEF Full
  <2>1. Len(w) \in 0 .. Len(w) /\ Len(w) + 1 = Len(v) BY <1>1
  <2>2. AllData(v, 0, Len(v)) BY <1>2, <1>6, <2>1
  <2>3. g + Len(v) = 0 + n BY <1>6, <2>2 DEF Full
  <2>4. Len(v) \in Nat /\ Len(w) \in Nat BY <1>1
  <2>5. (g + 1) + Len(w) = g + (Len(w) + 1) BY <2>4
  <2> QED BY <2>1, <2>3, <2>5
<1> QED BY <1>3, <1>4, <1>5, <1>6 DEF w

\* The client takes the answer (cs.go:479-517): what follows it is the stream
\* of the session.
LEMMA ClientBackPrivate ==
  ASSUME IInv, Private, ClientBack
  PROVE  Private'
<1> USE DEF IInv
<1> DEFINE v == wire["client"]
<1>1. /\ UNCHANGED <<got, sent, sess, serving, late, raw, cut>>
      /\ pc["client"] = "dialing"
      /\ Incoming("client") /\ wire' = Taken("client")
      /\ "client" \in Ends /\ "server" \in Ends
      /\ Peer("client") = "server" /\ Peer("server") = "client"
  BY DEF ClientBack, history, Ends, Peer
<1>2. /\ v \in Seq(Frame) /\ v # <<>> /\ wire'["client"] = Tail(v)
      /\ Head(v) \in Frames("client")
      /\ wire'["server"] = wire["server"]
  BY <1>1, TakenKeeps DEF TypeOK
<1>3. /\ Len(v) \in Nat \ {0} /\ Head(v) = v[1] BY <1>2, TailFrames
<1>4. v[1].cmd \in {"ok", "refused"} BY <1>2, <1>3 DEF ClientBack, Frames
<1>5. 1 \in Answers BY <1>3, <1>4 DEF Answers
<1>6. Dials = {} /\ pc["server"] # "dialing" /\ serving = sess
  BY <1>1, <1>5 DEF Order, OneDial
<1>7. /\ pc'["server"] = pc["server"]
      /\ pc'["client"] \in {"piping", "idle"}
      /\ pc'["client"] = "piping" =>
           /\ v[1].cmd = "ok" /\ using'["client"] = sess
      /\ using'["server"] = using["server"] /\ dir'["server"] = dir["server"]
  BY <1>1, <1>3 DEF ClientBack, Goto, StartPipe, TypeOK
<1>8. Linked' => Linked BY <1>1 DEF Linked
<1>9. Streams'
  <2>1. ASSUME pc'["client"] = "piping", Sealed("client", using'["client"])
        PROVE  Stream("client", 0, using["client"])'
    <3>1. Stream("client", 1, sess)
      BY <1>1, <1>5, <1>7, <2>1 DEF Private, Streams, Stream
    <3>2. sess \in Session BY <1>1, Sessions
    <3>3. Len(got["client"][sess]) \in Nat /\ sent["server"][sess] \in Nat
      BY <1>1, <3>2, Counts
    <3>4. Numbered(wire'["client"], 0, sess, Len(got["client"][sess]))
      BY <1>2, <3>1, <3>3, TailRun DEF Stream
    <3>5. Linked' => Full(wire'["client"], 0, Len(got["client"][sess]),
                          sent["server"][sess])
      BY <1>1, <1>2, <1>8, <3>1, <3>3, TailRun DEF Stream
    <3> QED BY <1>1, <1>7, <2>1, <3>4, <3>5 DEF Stream
  <2>2. ASSUME Copying("server", "in")'
        PROVE  Stream("server", 0, using["server"])'
    BY <1>1, <1>2, <1>7, <1>8, <2>2 DEF Copying, Private, Streams, Stream, Sealed
  <2>3. pc'["client"] # "dialing" BY <1>7
  <2> QED BY <2>1, <2>2, <2>3 DEF Streams, Ends, Copying, Sealed
<1>10. Dials' = {} BY <1>2, <1>6 DEF Dials
<1>11. InTurn' BY <1>1, <1>6, <1>7, <1>10 DEF Private, InTurn
<1>12. Unused'
  <2>1. \A s \in Session : /\ Waiting(s)' => Waiting(s)
                           /\ ~Dialed(s)'
                           /\ Unserved(s)' => Unserved(s)
    BY <1>1, <1>6, <1>7, <1>10 DEF Waiting, Dialed, Unserved
  <2> QED BY <1>1, <2>1 DEF Private, Unused
<1>13. Carried' BY <1>1, TakenCarried DEF Private
<1>14. Isolated' /\ Stray' BY <1>1 DEF Private, Isolated, Exact, Sealed, Stray
<1> QED BY <1>9, <1>11, <1>12, <1>13, <1>14 DEF Private

\* ProcConn reads the dial (cs.go:227-240): it is for the next session, and
\* nothing but close frames follows it.
LEMMA ServerReadDialPrivate ==
  ASSUME IInv, Private, ServerReadDial
  PROVE  Private'
<1> USE DEF IInv
<1> DEFINE v == wire["server"]
<1>1. /\ UNCHANGED <<got, sent, sess, late, raw, cut, using, dir>>
      /\ Incoming("server") /\ wire' = Taken("server")
      /\ "client" \in Ends /\ "server" \in Ends
  BY DEF ServerReadDial, outer, history, Ends
<1>2. /\ v \in Seq(Frame) /\ v # <<>> /\ wire'["server"] = Tail(v)
      /\ wire'["client"] = wire["client"]
  BY <1>1, TakenKeeps DEF TypeOK, Peer
<1>3. /\ Len(v) \in Nat \ {0} /\ Head(v) = v[1]
      /\ Len(Tail(v)) = Len(v) - 1
      /\ \A i \in 1 .. Len(Tail(v)) :
           i + 1 \in 1 .. Len(v) /\ Tail(v)[i] = v[i + 1]
  BY <1>2, TailFrames
<1>4. 1 \in Dials BY <1>3 DEF ServerReadDial, Dials
<1>5. /\ serving' = sess /\ sess = serving + 1 /\ \A i \in Dials : i = 1
      /\ NoData(v, 1)
  BY <1>3, <1>4 DEF Private, InTurn, ServerReadDial
<1>6. /\ pc["client"] \notin {"idle", "piping"}
      /\ pc["client"] = "dialing" => Answers = {}
      /\ pc'["client"] = pc["client"] /\ pc'["server"] = "dialing"
  BY <1>4 DEF Order, OneDial, NoDial, ServerReadDial, Goto, TypeOK, Ends
<1>7. Dials' = {}
  <2>1. \A i \in Dials' : i + 1 \in Dials /\ i \in Nat \ {0}
    BY <1>2, <1>3 DEF Dials
  <2> QED BY <1>5, <2>1
<1>8. Streams' BY <1>2, <1>6 DEF Streams, Copying, Answers, Ends
<1>9. NoData(wire'["server"], 0)
  BY <1>2, <1>3, <1>5 DEF NoData
<1>10. InTurn'
  <2>1. sess \in Nat /\ sess <= sess BY DEF TypeOK
  <2>2. serving' <= sess' /\ serving' = sess' BY <1>1, <1>5, <2>1
  <2> QED BY <1>7, <1>9, <2>2 DEF InTurn
<1>11. Unused'
  <2>1. sess \in Nat /\ serving \in Nat BY DEF TypeOK
  <2>2. \A s \in Session : /\ Waiting(s)' => Waiting(s)
                           /\ Dialed(s)' => Dialed(s)
                           /\ Unserved(s)' => Unserved(s)
    BY <1>1, <1>4, <1>5, <1>6, <1>7, <2>1
    DEF Waiting, Dialed, Unserved, Session
  <2> QED BY <1>1, <2>2 DEF Private, Unused
<1>12. Carried' BY <1>1, TakenCarried DEF Private
<1>13. Isolated' BY <1>1 DEF Private, Isolated, Exact, Sealed
<1>14. Stray'
  <2>1. serving \in Nat /\ \A m \in late : m[1] \in Nat
    BY DEF TypeOK, Session
  <2> QED BY <1>1, <1>5, <2>1 DEF Private, Stray
<1> QED BY <1>8, <1>10, <1>11, <1>12, <1>13, <1>14 DEF Private

\* The server accepts (cs.go:238-249): it begins its stream with no data in
\* flight, and the client's behind the answer.
LEMMA ServerAcceptPrivate ==
  ASSUME IInv, Private, ServerAccept
  PROVE  Private'
<1> USE DEF IInv
<1> DEFINE f == BackFrame(serving, "ok")
           v == wire["client"]
           w == wire["server"]
<1>1. /\ UNCHANGED <<got, sent, sess, serving, late, raw, cut>>
      /\ pc["server"] = "dialing"
      /\ "client" \in Ends /\ "server" \in Ends
      /\ Peer("client") = "server" /\ Peer("server") = "client"
  BY DEF ServerAccept, outer, Ends, Peer
<1>2. /\ f \in Frame /\ f \in Frames("client") /\ f.cmd = "ok"
  BY ChannelAssumption DEF TypeOK, BackFrame, Frames, Frame, Commands
<1>3. /\ wire'["server"] = w
      /\ wire'["client"] = v \/ wire'["client"] = Append(v, f)
  BY <1>1, <1>2, WriteKeeps DEF ServerAccept
<1>4. /\ v \in Seq(Frame) /\ w \in Seq(Frame)
      /\ Len(v) \in Nat /\ Len(w) \in Nat
  <2>1. v \in Seq(Frame) /\ w \in Seq(Frame) BY <1>1 DEF TypeOK
  <2> QED BY <2>1
<1> HIDE DEF f
<1>5. /\ pc'["client"] = pc["client"] /\ pc'["server"] = "piping"
      /\ using'["server"] = serving
      /\ using'["client"] = using["client"] /\ dir'["client"] = dir["client"]
  BY <1>1 DEF ServerAccept, Goto, StartPipe, TypeOK
<1>6. /\ pc["client"] \notin {"idle", "piping"}
      /\ pc["client"] = "dialing" => Answers = {}
      /\ serving = sess /\ NoData(w, 0) /\ serving \in Session
  BY <1>1, Sessions DEF Order, OneDial, NoDial, Private, InTurn
<1>7. sent["client"][sess] = 0 /\ sent["server"][sess] = 0
  BY <1>1, <1>6 DEF Private, Unused, Dialed, Unserved
<1>8. Len(got["server"][sess]) = 0
  <2>1. Len(got["server"][sess]) <= 0
    BY <1>1, <1>6, <1>7 DEF Private, Isolated, Exact, Sealed
  <2> QED BY <1>1, <1>6, <2>1, Counts
<1>9. pc["client"] = "dialing" => Len(got["client"][sess]) = 0
  <2>1. pc["client"] = "dialing" => got["client"][sess] = <<>>
    BY <1>6 DEF Private, Unused, Waiting
  <2> QED BY <2>1
<1>10. Streams'
  <2>1. Stream("server", 0, sess)'
    <3>1. Numbered(w, 0, sess, 0) BY <1>4, <1>6 DEF Numbered, AllData, NoData
    <3>2. Full(w, 0, 0, 0) BY <1>4, <1>6 DEF Full, AllData, NoData
    <3> QED BY <1>1, <1>3, <1>7, <1>8, <3>1, <3>2 DEF Stream
  <2>2. ASSUME pc'["client"] = "dialing", NEW i \in Answers'
        PROVE  Stream("client", i, sess)'
    <3>1. i \in 1 .. Len(wire'["client"])
          /\ wire'["client"][i].cmd \in {"ok", "refused"}
      BY DEF Answers
    <3>2. i \notin 1 .. Len(v) \/ v[i].cmd \notin {"ok", "refused"}
      BY <1>5, <1>6, <2>2 DEF Answers
    <3>3. wire'["client"] = Append(v, f) BY <1>3, <3>1, <3>2
    <3>4. i = Len(v) + 1 /\ Len(wire'["client"]) = i
      BY <1>2, <1>4, <3>1, <3>2, <3>3, AppendFrames
    <3>5. Numbered(wire'["client"], i, sess, 0) BY <1>4, <3>4 DEF Numbered
    <3>6. Full(wire'["client"], i, 0, 0) BY <1>4, <3>4 DEF Full
    <3>7. Len(got["client"][sess]) = 0 BY <1>5, <1>9, <2>2
    <3> QED BY <1>1, <1>7, <3>5, <3>6, <3>7 DEF Stream
  <2>3. ~Copying("client", "in")' BY <1>5, <1>6 DEF Copying
  <2>4. Stream("server", 0, using["server"])'
    BY <1>1, <1>5, <1>6, <2>1 DEF Stream
  <2> QED BY <2>2, <2>3, <2>4 DEF Streams, Ends
<1>11. Dials' = Dials BY <1>3 DEF Dials
<1>12. InTurn' BY <1>1, <1>3, <1>5, <1>6, <1>11 DEF Private, InTurn
<1>13. Unused'
  <2>1. \A s \in Session : /\ Waiting(s)' => Waiting(s)
                           /\ Dialed(s)' => Dialed(s)
                           /\ Unserved(s)' => Unserved(s)
    BY <1>1, <1>5, <1>6, <1>11 DEF Waiting, Dialed, Unserved
  <2> QED BY <1>1, <2>1 DEF Private, Unused
<1>14. Carried'
  <2>1. ASSUME NEW e \in Ends, NEW i \in 1 .. Len(wire'[e]),
               wire'[e][i].cmd = "data"
        PROVE  i \in 1 .. Len(wire[e]) /\ wire'[e][i] = wire[e][i]
    <3>1. CASE wire'[e] = wire[e] BY <3>1
    <3>2. CASE wire'[e] = Append(wire[e], f) /\ e = "client"
      <4>1. i # Len(v) + 1 BY <1>2, <1>4, <2>1, <3>2, AppendFrames
      <4>2. Len(Append(v, f)) = Len(v) + 1 BY <1>2, <1>4, AppendFrames
      <4>3. i \in 1 .. Len(v) BY <1>4, <3>2, <4>1, <4>2
      <4> QED BY <1>2, <1>4, <3>2, <4>3, AppendFrames
    <3> QED BY <1>3, <3>1, <3>2 DEF Ends
  <2> QED BY <1>1, <2>1 DEF Private, Carried
<1>15. Isolated' /\ Stray' BY <1>1 DEF Private, Isolated, Exact, Sealed, Stray
<1> QED BY <1>10, <1>12, <1>13, <1>14, <1>15 DEF Private

\* A frame is handed to the local side (ChannelConn.Read, cs.go:102-120), or
\* finds it closed.
LEMMA PipeDataPrivate ==
  ASSUME IInv, Private, NEW e \in Ends, PipeData(e)
  PROVE  Private'
<1> USE DEF IInv
<1> DEFINE v == wire[e]
           f == Head(v)
<1>1. /\ UNCHANGED <<raw, cut, err, using, pc, sess, serving, late, sent>>
      /\ Copying(e, "in") /\ pc[e] = "piping"
      /\ Incoming(e) /\ wire' = Taken(e) /\ f.cmd = "data"
  BY DEF PipeData, Copying
<1>2. /\ v \in Seq(Frame) /\ v # <<>> /\ wire'[e] = Tail(v)
      /\ \A d \in Ends \ {e} : wire'[d] = wire[d]
  BY <1>1, TakenKeeps DEF TypeOK, Ends, Peer
<1>3. /\ Len(v) \in Nat \ {0} /\ f = v[1]
      /\ Len(Tail(v)) = Len(v) - 1
      /\ \A i \in 1 .. Len(Tail(v)) :
           i + 1 \in 1 .. Len(v) /\ Tail(v)[i] = v[i + 1]
  BY <1>2, TailFrames
<1> HIDE DEF v, f
<1>4. Linked' = Linked BY <1>1 DEF Linked
<1>5. PICK s \in Session : s = using[e] BY <1>1, Sessions
<1> DEFINE g == Len(got[e][s])
           n == sent[Peer(e)][s]
<1>6. g \in Nat /\ n \in Nat BY Counts
<1>7. Sealed(e, s) => Numbered(v, 0, s, g) /\ (Linked => Full(v, 0, g, n))
  BY <1>1, <1>5 DEF Private, Streams, Stream, v
<1> DEFINE m == <<f.sess, f.n>>
<1> HIDE DEF g, n, m
<1>8. Sealed(e, s) => f = DataFrame(s, g + 1)
  BY <1>1, <1>2, <1>3, <1>6, <1>7, TailRun
<1>9. Sealed(e, s) => f.sess = s /\ f.n = g + 1 /\ m = <<s, g + 1>>
  BY <1>8 DEF DataFrame, m
<1>10. \/ /\ got' = got
          /\ ~Copying(e, "in")'
          /\ \A d \in Ends \ {e} : dir'[d] = dir[d]
       \/ /\ got' = [got EXCEPT ![e][s] = Append(@, m)]
          /\ dir' = dir
  <2>1. CASE EndCopyIn(e) /\ got' = got
    BY <2>1 DEF EndCopyIn, Copying, TypeOK
  <2>2. CASE got' = [got EXCEPT ![e][using[e]] = Append(@, <<f.sess, f.n>>)]
             /\ dir' = dir
    BY <1>5, <2>2 DEF m
  <2> QED BY <2>1, <2>2 DEF PipeData, v, f
<1>11. /\ \A d \in Ends : \A t \in Session :
            d # e \/ t # s => got'[d][t] = got[d][t]
       /\ \/ got'[e][s] = got[e][s]
          \/ got'[e][s] = Append(got[e][s], m)
       /\ Copying(e, "in")' => got'[e][s] = Append(got[e][s], m)
  <2>1. got \in [Ends -> [Session -> Seq(Session \X (0 .. MaxData))]]
    BY DEF TypeOK
  <2>2. CASE got' = got /\ ~Copying(e, "in")' BY <2>2
  <2>3. CASE got' = [got EXCEPT ![e][s] = Append(@, m)]
    BY <2>1, <2>3
  <2> QED BY <1>10, <2>2, <2>3
<1>12. Streams'
  <2>1. ASSUME NEW d \in Ends, d # e, NEW b, NEW t \in Session,
               Stream(d, b, t)
        PROVE  Stream(d, b, t)'
    BY <1>1, <1>2, <1>4, <1>11, <2>1 DEF Stream
  <2>2. ASSUME Copying(e, "in")', Sealed(e, s) PROVE Stream(e, 0, s)'
    <3>1. got'[e][s] = Append(got[e][s], m) BY <1>11, <2>2
    <3>2. Len(got'[e][s]) = g + 1
      <4>1. got[e][s] \in Seq(Session \X (0 .. MaxData)) BY Counts
      <4> QED BY <3>1, <4>1 DEF g
    <3>3. Numbered(Tail(v), 0, s, g + 1) /\ (Linked => Full(Tail(v), 0, g + 1, n))
      BY <1>1, <1>2, <1>3, <1>6, <1>7, <2>2, TailRun
    <3> QED BY <1>1, <1>2, <1>4, <3>2, <3>3 DEF Stream, n
  <2>3. ASSUME NEW d \in Ends, Copying(d, "in")', Sealed(d, using'[d])
        PROVE  Stream(d, 0, using[d])'
    <3>1. CASE d = e BY <1>1, <1>5, <2>2, <2>3, <3>1 DEF Stream
    <3>2. CASE d # e
      <4>1. Copying(d, "in") BY <1>1, <1>10, <2>3, <3>2 DEF Copying
      <4>2. using[d] \in Session BY <4>1, Sessions DEF Copying
      <4>3. Stream(d, 0, using[d]) BY <1>1, <2>3, <4>1 DEF Private, Streams
      <4> QED BY <1>1, <1>2, <1>4, <1>11, <3>2, <4>2, <4>3 DEF Stream
    <3> QED BY <3>1, <3>2
  <2>4. ASSUME pc'["client"] = "dialing", Sealed("client", sess'),
               NEW i \in Answers', wire'["client"][i].cmd = "ok"
        PROVE  Stream("client", i, sess)'
    <3>1. pc["client"] = "dialing" /\ e # "client" /\ "client" \in Ends
      BY <1>1, <2>4 DEF Ends
    <3>2. wire'["client"] = wire["client"] BY <1>2, <3>1
    <3>3. i \in Answers /\ wire["client"][i].cmd = "ok"
      BY <2>4, <3>2 DEF Answers
    <3>4. Stream("client", i, sess)
      BY <1>1, <2>4, <3>1, <3>3 DEF Private, Streams, Stream
    <3>5. sess \in Session BY <3>1, Sessions
    <3> QED BY <1>1, <1>2, <1>4, <1>11, <3>1, <3>4, <3>5 DEF Stream
  <2> QED BY <2>3, <2>4 DEF Streams, Sealed
<1>13. ASSUME NEW i \in Dials'
       PROVE  \E k \in {0, 1} :
                /\ i + k \in Dials
                /\ wire'["server"][i] = wire["server"][i + k]
                /\ NoData(wire["server"], i + k) => NoData(wire'["server"], i)
                /\ i \in Nat
                /\ k = 1 <=> e = "server"
  <2>1. i \in 1 .. Len(wire'["server"]) /\ wire'["server"][i].cmd = "dial"
    BY DEF Dials
  <2>2. CASE e = "server"
    <3>1. i + 1 \in 1 .. Len(v) /\ wire'["server"][i] = v[i + 1]
      BY <1>2, <1>3, <2>1, <2>2
    <3>2. i + 1 \in Dials BY <2>1, <2>2, <3>1 DEF Dials, v
    <3>3. ASSUME NoData(v, i + 1), NEW j \in i + 1 .. Len(Tail(v))
          PROVE  Tail(v)[j].cmd # "data"
      <4>1. j \in 1 .. Len(Tail(v)) /\ j + 1 \in (i + 1) + 1 .. Len(v)
        BY <1>3, <2>1, <3>1
      <4>2. v[j + 1].cmd # "data" BY <3>3, <4>1 DEF NoData
      <4> QED BY <1>3, <4>1, <4>2
    <3>4. NoData(v, i + 1) => NoData(wire'["server"], i)
      BY <1>2, <2>2, <3>3 DEF NoData
    <3> QED BY <2>1, <2>2, <3>1, <3>2, <3>4 DEF v
  <2>3. CASE e # "server"
    <3>1. wire'["server"] = wire["server"] BY <1>2, <2>3 DEF Ends
    <3>2. i + 0 = i BY <2>1
    <3>3. i \in Dials BY <2>1, <3>1 DEF Dials
    <3> QED BY <2>1, <2>3, <3>1, <3>2, <3>3
  <2> QED BY <2>2, <2>3
<1>14. InTurn'
  <2>1. \A i, j \in Dials' : i = j
    <3> SUFFICES ASSUME NEW i \in Dials', NEW j \in Dials' PROVE i = j
      OBVIOUS
    <3>1. PICK k \in {0, 1} : /\ i + k \in Dials /\ i \in Nat
                              /\ k = 1 <=> e = "server"
      BY <1>13
    <3>2. PICK l \in {0, 1} : /\ j + l \in Dials /\ j \in Nat
                              /\ l = 1 <=> e = "server"
      BY <1>13
    <3>3. \A x, y \in Dials : x = y BY DEF Private, InTurn
    <3>4. i + k = j + l BY <3>1, <3>2, <3>3
    <3>5. k = l BY <3>1, <3>2
    <3> QED BY <3>1, <3>2, <3>4, <3>5
  <2>2. ASSUME NEW i \in Dials'
        PROVE  /\ wire'["server"][i].sess = sess
               /\ sess = serving + 1
               /\ NoData(wire'["server"], i)
    BY <1>13 DEF Private, InTurn
  <2>3. ASSUME pc["server"] = "dialing"
        PROVE  NoData(wire'["server"], 0) /\ serving = sess
    <3>1. wire'["server"] = wire["server"] BY <1>1, <1>2, <2>3 DEF Ends
    <3> QED BY <2>3, <3>1 DEF Private, InTurn
  <2> QED BY <1>1, <2>1, <2>2, <2>3 DEF Private, InTurn
<1>15. Unused'
  <2>1. Dials' # {} => Dials # {} BY <1>13
  <2>2. \A t \in Session : /\ Waiting(t)' => Waiting(t)
                           /\ Dialed(t)' => Dialed(t)
                           /\ Unserved(t)' => Unserved(t)
    BY <1>1, <2>1 DEF Waiting, Dialed, Unserved
  <2>3. e = "client" => ~Waiting(s)
    <3>1. e = "client" => s = sess /\ pc["client"] = "piping"
      BY <1>1, <1>5 DEF Named
    <3> QED BY <3>1 DEF Waiting, TypeOK
  <2>4. \A t \in Session : Waiting(t) => got'["client"][t] = got["client"][t]
    BY <1>11, <2>3 DEF Ends
  <2> QED BY <1>1, <2>2, <2>4 DEF Private, Unused
<1>16. Carried' BY <1>1, TakenCarried DEF Private
<1>17. Isolated'
  <2>1. Sealed(e, s) => g + 1 <= n
    <3>1. 1 \in 1 .. Len(wire[e]) /\ wire[e][1] = f BY <1>3 DEF v
    <3>2. f.n <= sent[Peer(e)][f.sess] BY <1>1, <3>1 DEF Private, Carried
    <3> QED BY <1>9, <3>2 DEF n
  <2>2. ASSUME NEW d \in Ends, NEW t \in Session, Sealed(d, t)
        PROVE  /\ Len(got'[d][t]) <= sent[Peer(d)][t]
               /\ \A i \in 1 .. Len(got'[d][t]) : got'[d][t][i] = <<t, i>>
    <3>1. CASE got'[d][t] = got[d][t]
      BY <2>2, <3>1 DEF Private, Isolated, Exact
    <3>2. CASE d = e /\ t = s /\ got'[e][s] = Append(got[e][s], m)
      <4>1. got[e][s] \in Seq(Session \X (0 .. MaxData)) BY Counts
      <4>2. /\ Len(got'[e][s]) = g + 1 /\ got'[e][s][g + 1] = <<s, g + 1>>
            /\ \A i \in 1 .. g : got'[e][s][i] = got[e][s][i]
        BY <1>9, <2>2, <3>2, <4>1 DEF g
      <4>3. \A i \in 1 .. g : got[e][s][i] = <<s, i>>
        BY <2>2, <3>2 DEF Private, Isolated, Exact, g
      <4>4. \A i \in 1 .. g + 1 : i \in 1 .. g \/ i = g + 1 BY <1>6
      <4> QED BY <2>1, <2>2, <3>2, <4>2, <4>3, <4>4 DEF n
    <3> QED BY <1>11, <3>1, <3>2
  <2> QED BY <1>1, <2>2 DEF Isolated, Exact, Sealed
<1>18. Stray' BY <1>1 DEF Private, Stray
<1> QED BY <1>12, <1>14, <1>15, <1>16, <1>17, <1>18 DEF Private

\* The next data frame of a stream is written behind it.
LEMMA DataRun ==
  ASSUME NEW v \in Seq(Frame), NEW b \in 0 .. Len(v), NEW s \in Session,
         NEW g \in Nat, NEW n \in Nat, DataFrame(s, n + 1) \in Frame,
         Numbered(v, b, s, g), Full(v, b, g, n)
  PROVE  LET w == Append(v, DataFrame(s, n + 1)) IN
         Numbered(w, b, s, g) /\ Full(w, b, g, n + 1)
<1> DEFINE w == Append(v, DataFrame(s, n + 1))
<1>1. /\ Len(w) = Len(v) + 1 /\ w[Len(v) + 1] = DataFrame(s, n + 1)
      /\ \A i \in 1 .. Len(v) : w[i] = v[i]
      /\ Len(v) \in Nat
  BY AppendFrames
<1> HIDE DEF w
<1>2. ASSUME NEW i \in b .. Len(v)
      PROVE  AllData(w, b, i) <=> AllData(v, b, i)
  <2>1. i \in Nat /\ b \in Nat /\ \A j \in 1 .. i : w[j] = v[j]
    BY <1>1
  <2> QED BY <2>1, SameData
<1>3. AllData(w, b, Len(w)) => g + Len(v) = b + n
  <2> SUFFICES ASSUME AllData(w, b, Len(w)) PROVE g + Len(v) = b + n OBVIOUS
  <2>1. AllData(w, b, Len(v)) BY <1>1 DEF AllData
  <2>2. AllData(v, b, Len(v)) BY <1>1, <1>2, <2>1
  <2> QED BY <2>2 DEF Full
<1>4. Numbered(w, b, s, g)
  <2> SUFFICES ASSUME NEW i \in b + 1 .. Len(w), AllData(w, b, i)
               PROVE  w[i] = DataFrame(s, g + i - b)
    BY DEF Numbered
  <2>1. CASE i = Len(v) + 1
    <3>1. g + Len(v) = b + n BY <1>1, <1>3, <2>1
    <3>2. g + i - b = n + 1 BY <1>1, <2>1, <3>1
    <3> QED BY <1>1, <2>1, <3>2
  <2>2. CASE i # Len(v) + 1
    <3>1. i \in b + 1 .. Len(v) /\ i \in b .. Len(v) BY <1>1, <2>2
    <3>2. AllData(v, b, i) BY <1>2, <3>1
    <3>3. v[i] = DataFrame(s, g + i - b) BY <3>1, <3>2 DEF Numbered
    <3>4. i \in 1 .. Len(v) BY <3>1
    <3> QED BY <1>1, <3>3, <3>4
  <2> QED BY <2>1, <2>2
<1>5. Full(w, b, g, n + 1)
  <2> SUFFICES ASSUME AllData(w, b, Len(w)) PROVE g + Len(w) = b + (n + 1)
    BY DEF Full
  <2>1. g + Len(v) = b + n BY <1>3
  <2> QED BY <1>1, <2>1
<1> QED BY <1>4, <1>5 DEF w

\* Local data is written to the channel (cs.go:80-100).
LEMMA PipeSendPrivate ==
  ASSUME IInv, Private, NEW e \in Ends, PipeSend(e)
  PROVE  Private'
<1> USE DEF IInv
<1> DEFINE d == Peer(e)
<1>1. /\ UNCHANGED <<cut, using, pc, sess, serving, late, got>>
      /\ pc[e] = "piping"
      /\ d \in Ends /\ d # e /\ Peer(d) = e
      /\ \A c \in Ends : c = d \/ c = e
  BY DEF PipeSend, Copying, Ends, Peer
<1>2. PICK s \in Session : s = using[e] BY <1>1, Sessions
<1> DEFINE n == sent[e][s]
           f == DataFrame(s, n + 1)
           v == wire[d]
<1>3. n \in Nat /\ n < MaxData /\ n + 1 \in 0 .. MaxData
  BY <1>2, Counts, ChannelAssumption DEF PipeSend
<1>4. /\ \A c \in Ends, t \in Session :
           c # e \/ t # s => sent'[c][t] = sent[c][t]
      /\ sent'[e][s] = n + 1
  BY <1>2 DEF PipeSend, TypeOK
<1>5. /\ f \in Frame /\ f \in Frames(d) /\ f.cmd = "data"
      /\ f.sess = s /\ f.n = n + 1
  BY <1>1, <1>3 DEF DataFrame, Frame, Frames, Commands, Session
<1>6. v \in Seq(Frame) /\ Len(v) \in Nat
  <2>1. v \in Seq(Frame) BY <1>1 DEF TypeOK
  <2> QED BY <2>1
<1>7. WriteFrame(e, f) BY <1>2 DEF PipeSend
<1> HIDE DEF d, n, f, v
<1>8. wire'[e] = wire[e]
      /\ (v' = v \/ v' = Append(v, f))
  BY <1>5, <1>7, WriteKeeps DEF d, v
<1>9. Linked' => Linked
  <2>1. \A c \in Ends : raw'[c] = "open" => raw[c] = "open"
    BY DEF PipeSend, TypeOK
  <2> QED BY <1>1, <2>1, LinkLost
<1>10. \/ v' = v /\ ~Linked'
       \/ v' = Append(v, f) /\ Linked
  <2>1. CASE Linked
    <3>1. wire' = [wire EXCEPT ![d] = Append(@, f)]
      BY <1>7, <2>1 DEF WriteFrame, d
    <3> QED BY <1>1, <2>1, <3>1 DEF TypeOK, v
  <2>2. CASE ~Linked
    <3>1. v' = v
      <4>1. wire' = wire \/ wire' = [wire EXCEPT ![d] = @]
        BY <1>7, <2>2 DEF WriteFrame, d
      <4> QED BY <1>1, <4>1 DEF TypeOK, v
    <3> QED BY <1>9, <2>2, <3>1
  <2> QED BY <2>1, <2>2
\* The stream at the other end, if it is one of this session.
<1>11. ASSUME NEW b \in 0 .. Len(v), Stream(d, b, s)
       PROVE  Stream(d, b, s)'
  <2> DEFINE g == Len(got[d][s])
  <2>1. g \in Nat BY <1>1, Counts
  <2>2. Numbered(v, b, s, g) /\ (Linked => Full(v, b, g, n))
    BY <1>1, <1>11 DEF Stream, v, n
  <2>3. CASE v' = v /\ ~Linked'
    BY <1>1, <2>2, <2>3 DEF Stream, v
  <2>4. CASE v' = Append(v, f) /\ Linked
    <3> HIDE DEF g
    <3>1. Numbered(v', b, s, g) /\ Full(v', b, g, n + 1)
      BY <1>3, <1>5, <1>6, <2>1, <2>2, <2>4, DataRun DEF f
    <3> QED BY <1>1, <1>4, <3>1 DEF Stream, v, g
  <2> QED BY <1>10, <2>3, <2>4
<1>12. ASSUME NEW c \in Ends, Copying(c, "in")', Sealed(c, using'[c])
       PROVE  Stream(c, 0, using[c])'
  <2>1. Copying(c, "in")
    BY <1>1, <1>12 DEF PipeSend, Copying, TypeOK
  <2>2. Stream(c, 0, using[c]) BY <1>1, <1>12, <2>1 DEF Private, Streams
  <2>3. CASE c = e
    <3>1. /\ got'[e] = got[e] /\ wire'[e] = wire[e]
          /\ sent'[d][s] = sent[d][s]
      BY <1>1, <1>4, <1>8
    <3> QED BY <1>1, <1>2, <1>9, <2>2, <2>3, <3>1 DEF Stream, d
  <2>4. CASE c = d
    <3>1. using[d] = s
      BY <1>1, <1>2, <2>1, <2>4 DEF Copying, Named, Order, Served, Ends
    <3>2. Stream(d, 0, s) BY <2>2, <2>4, <3>1 DEF Stream
    <3>3. Stream(d, 0, s)' BY <1>6, <1>11, <3>2
    <3> QED BY <1>1, <2>4, <3>1, <3>3 DEF Stream
  <2> QED BY <1>1, <2>3, <2>4
<1>13. /\ Answers' = Answers /\ Dials' = Dials
       /\ \A i \in Answers : wire'["client"][i] = wire["client"][i]
       /\ \A i \in Dials : wire'["server"][i] = wire["server"][i]
  <2>1. ASSUME NEW c \in Ends
        PROVE  /\ \A i \in 1 .. Len(wire[c]) :
                    i \in 1 .. Len(wire'[c]) /\ wire'[c][i] = wire[c][i]
               /\ \A j \in 1 .. Len(wire'[c]) :
                    j \in 1 .. Len(wire[c]) \/ wire'[c][j].cmd = "data"
    <3>1. CASE wire'[c] = wire[c] BY <3>1
    <3>2. CASE c = d /\ v' = Append(v, f)
      <4>1. /\ Len(v') = Len(v) + 1 /\ v'[Len(v) + 1] = f
            /\ \A i \in 1 .. Len(v) : v'[i] = v[i]
        BY <1>5, <1>6, <3>2, AppendFrames
      <4> QED BY <1>1, <1>5, <1>6, <3>2, <4>1 DEF v, d
    <3> QED BY <1>1, <1>8, <3>1, <3>2 DEF v, d
  <2>2. \A i : i \in Answers' <=> i \in Answers
    BY <2>1 DEF Answers, Ends
  <2>3. \A i : i \in Dials' <=> i \in Dials BY <2>1 DEF Dials, Ends
  <2> QED BY <2>1, <2>2, <2>3 DEF Answers, Dials, Ends
<1>14. ASSUME pc'["client"] = "dialing", Sealed("client", sess'),
              NEW i \in Answers', wire'["client"][i].cmd = "ok"
       PROVE  Stream("client", i, sess)'
  <2>1. /\ e = "server" /\ d = "client" /\ pc["client"] = "dialing"
        /\ i \in Answers /\ wire["client"][i].cmd = "ok"
    BY <1>1, <1>13, <1>14 DEF Ends
  <2>2. s = sess
    BY <1>1, <1>2, <2>1 DEF Named, Order, OneDial
  <2>3. Stream("client", i, s)
    BY <1>1, <1>14, <2>1, <2>2 DEF Private, Streams, Stream
  <2>4. i \in 0 .. Len(v) BY <2>1 DEF Answers, v
  <2>5. Stream(d, i, s)' BY <1>11, <2>1, <2>3, <2>4
  <2> QED BY <1>1, <2>1, <2>2, <2>5 DEF Stream
<1>15. Streams' BY <1>12, <1>14 DEF Streams, Sealed
<1>16. e = "client" => Dials = {} /\ pc["server"] # "dialing"
  BY <1>1 DEF Order, NoDial
<1>17. InTurn'
  <2>1. ASSUME e = "server" PROVE wire'["server"] = wire["server"]
    BY <1>8, <2>1
  <2>2. e = "client" \/ e = "server" BY DEF Ends
  <2> QED BY <1>1, <1>13, <1>16, <2>1, <2>2 DEF Private, InTurn
<1>18. Unused'
  <2>1. \A t \in Session : /\ Waiting(t)' = Waiting(t)
                           /\ Dialed(t)' = Dialed(t)
                           /\ Unserved(t)' = Unserved(t)
    BY <1>1, <1>13 DEF Waiting, Dialed, Unserved
  <2>2. e = "client" => s = sess /\ ~Waiting(s) /\ ~Dialed(s)
    BY <1>1, <1>2, <1>16 DEF Waiting, Dialed, Named, TypeOK
  <2>3. e = "server" => ~Unserved(s)
    BY <1>1, <1>2 DEF Unserved, Named, TypeOK
  <2>4. \A t \in Session :
          /\ Waiting(t) \/ Dialed(t) => sent'["client"][t] = sent["client"][t]
          /\ Unserved(t) => sent'["server"][t] = sent["server"][t]
    BY <1>4, <2>2, <2>3 DEF Ends
  <2> QED BY <1>1, <2>1, <2>4 DEF Private, Unused
<1>19. \A c \in Ends, t \in Session : sent[c][t] <= sent'[c][t]
  <2> SUFFICES ASSUME NEW c \in Ends, NEW t \in Session
               PROVE  sent[c][t] <= sent'[c][t]
    OBVIOUS
  <2>1. sent[c][t] \in Nat BY Counts
  <2> QED BY <1>4, <2>1 DEF n
<1>20. Carried'
  <2> SUFFICES ASSUME NEW c \in Ends, NEW i \in 1 .. Len(wire'[c]),
                      wire'[c][i].cmd = "data"
               PROVE  wire'[c][i].n <= sent'[Peer(c)][wire'[c][i].sess]
    BY DEF Carried
  <2>1. ASSUME i \in 1 .. Len(wire[c]), wire'[c][i] = wire[c][i]
        PROVE  wire'[c][i].n <= sent'[Peer(c)][wire'[c][i].sess]
    <3>1. wire[c][i] \in Frames(c)
      <4>1. wire[c] \in Seq(Frames(c)) BY DEF Wires
      <4> QED BY <2>1, <4>1
    <3>2. wire[c][i].sess \in Session /\ wire[c][i].n \in Nat
      BY <2>1, <3>1 DEF Frames, Frame
    <3>3. wire[c][i].n <= sent[Peer(c)][wire[c][i].sess]
      BY <2>1 DEF Private, Carried
    <3>4. /\ sent[Peer(c)][wire[c][i].sess] \in Nat
          /\ sent[Peer(c)][wire[c][i].sess]
               <= sent'[Peer(c)][wire[c][i].sess]
      BY <1>19, <3>2, Counts, Peers
    <3>5. sent'[Peer(c)][wire[c][i].sess] \in Nat
      BY <1>3, <1>4, <3>2, <3>4, Peers
    <3> QED BY <2>1, <3>2, <3>3, <3>4, <3>5
  <2>2. CASE wire'[c] = wire[c] BY <2>1, <2>2
  <2>3. CASE c = d /\ v' = Append(v, f)
    <3>1. /\ Len(v') = Len(v) + 1 /\ v'[Len(v) + 1] = f
          /\ \A j \in 1 .. Len(v) : v'[j] = v[j]
      BY <1>5, <1>6, <2>3, AppendFrames
    <3>2. CASE i = Len(v) + 1
      <4>1. wire'[c][i] = f BY <1>1, <2>3, <3>1, <3>2 DEF v, d
      <4> QED BY <1>1, <1>3, <1>4, <1>5, <2>3, <4>1
    <3>3. CASE i # Len(v) + 1
      <4>1. i \in 1 .. Len(v) /\ v'[i] = v[i]
        BY <1>1, <1>6, <2>3, <3>1, <3>3 DEF v, d
      <4> QED BY <1>1, <2>1, <2>3, <4>1 DEF v, d
    <3> QED BY <3>2, <3>3
  <2> QED BY <1>1, <1>8, <2>2, <2>3 DEF v, d
<1>21. Isolated'
  <2>1. ASSUME NEW c \in Ends, NEW t \in Session, Sealed(c, t)
        PROVE  Len(got[c][t]) <= sent'[Peer(c)][t]
    <3>1. Len(got[c][t]) <= sent[Peer(c)][t]
      BY <2>1 DEF Private, Isolated, Exact
    <3>2. Len(got[c][t]) \in Nat /\ sent[Peer(c)][t] \in Nat BY Counts
    <3>3. sent[Peer(c)][t] <= sent'[Peer(c)][t] BY <1>19, Peers
    <3>4. sent'[Peer(c)][t] \in Nat BY <1>3, <1>4, <3>2, Peers
    <3> QED BY <3>1, <3>2, <3>3, <3>4
  <2> QED BY <1>1, <2>1 DEF Private, Isolated, Exact, Sealed
<1>22. Stray'
  <2> SUFFICES ASSUME NEW m \in late
               PROVE  m[2] <= sent'["server"][m[1]]
    BY <1>1 DEF Private, Stray
  <2>1. m[1] \in Session /\ m[2] \in Nat BY LateFrame
  <2>2. /\ sent["server"][m[1]] \in Nat /\ m[2] <= sent["server"][m[1]]
        /\ sent["server"][m[1]] <= sent'["server"][m[1]]
    BY <1>19, <2>1, Counts DEF Private, Stray, Ends
  <2>3. sent'["server"][m[1]] \in Nat BY <1>3, <1>4, <2>1, <2>2 DEF Ends
  <2> QED BY <2>1, <2>2, <2>3
<1> QED BY <1>15, <1>17, <1>18, <1>20, <1>21, <1>22 DEF Private

\* A datagram that waits was read in a session of the gateways up to the
\* client's, so no stream of the client is sealed.
LEMMA Unsealed ==
  ASSUME IInv, Stray, InTurn, NEW s \in Session, s \in Udpgw, s <= serving
  PROVE  /\ pc["client"] \in {"dialing", "idle", "gone", "dropping"} =>
              ~Sealed("client", sess)
         /\ pc["client"] = "piping" => ~Sealed("client", using["client"])
<1>1. s \in Nat /\ 1 <= s /\ serving \in Nat /\ sess \in Nat
  BY DEF IInv, TypeOK, Session
<1>2. s \in 1 .. sess BY <1>1 DEF InTurn
<1>3. ~Sealed("client", sess) BY <1>2 DEF Sealed
<1>4. pc["client"] = "piping" => using["client"] = sess BY DEF IInv, Named
<1> QED BY <1>3, <1>4

\* A gateway reads a datagram (udpgw.go:172-177), in its session or later.
LEMMA UdpgwReadPrivate ==
  ASSUME IInv, Private, Heard, NEW s \in Session, UdpgwRead(s)
  PROVE  Private'
<1> USE DEF IInv
<1>1. /\ UNCHANGED <<wire, raw, cut, using, pc, sess, serving, dir, got>>
      /\ late' = late \cup {<<s, sent["server"][s] + 1>>}
      /\ s \in Udpgw /\ s \in accepted
      /\ "client" \in Ends /\ "server" \in Ends
      /\ Peer("client") = "server" /\ Peer("server") = "client"
  BY DEF UdpgwRead, outer, Ends, Peer
<1>4. s \in Udpgw /\ s <= serving /\ ~(pc["server"] = "dialing" /\ s = serving)
  BY <1>1 DEF Heard
<1>5. /\ sent' = [sent EXCEPT !["server"][s] = @ + 1]
      /\ sent["server"][s] \in Nat
  BY <1>1, Counts DEF UdpgwRead
<1>6. /\ \A c \in Ends, t \in Session :
           c # "server" \/ t # s => sent'[c][t] = sent[c][t]
      /\ sent'["server"][s] = sent["server"][s] + 1
  BY <1>1, <1>5 DEF TypeOK
<1>7. \A c \in Ends, t \in Session :
        sent[c][t] \in Nat /\ sent'[c][t] \in Nat /\ sent[c][t] <= sent'[c][t]
  <2> SUFFICES ASSUME NEW c \in Ends, NEW t \in Session
               PROVE  /\ sent[c][t] \in Nat /\ sent'[c][t] \in Nat
                      /\ sent[c][t] <= sent'[c][t]
    OBVIOUS
  <2>1. sent[c][t] \in Nat BY Counts
  <2> QED BY <1>5, <1>6, <2>1
<1>8. /\ Dials' = Dials /\ Answers' = Answers /\ Linked' = Linked
  BY <1>1 DEF Dials, Answers, Linked
<1>9. Streams'
  <2>1. ASSUME NEW e \in Ends, Copying(e, "in"), Sealed(e, using[e])
        PROVE  Stream(e, 0, using[e])'
    <3>1. e = "server"
      BY <1>4, <2>1, Unsealed DEF Private, Copying, Ends
    <3>2. using[e] \in Session /\ sent'["client"][using[e]] =
                                     sent["client"][using[e]]
      BY <1>1, <1>6, <2>1, <3>1 DEF Named, Copying
    <3>3. Stream(e, 0, using[e]) BY <2>1 DEF Private, Streams
    <3> QED BY <1>1, <1>8, <3>1, <3>2, <3>3 DEF Stream
  <2>2. ~(pc["client"] = "dialing" /\ Sealed("client", sess))
    BY <1>4, Unsealed DEF Private
  <2> QED BY <1>1, <2>1, <2>2 DEF Streams, Copying, Sealed
<1>10. InTurn' BY <1>1, <1>8 DEF Private, InTurn, NoData
<1>11. Unused'
  <2>1. ~Unserved(s) BY <1>4 DEF Unserved, TypeOK, Session
  <2>2. \A t \in Session : /\ Waiting(t)' = Waiting(t)
                           /\ Dialed(t)' = Dialed(t)
                           /\ Unserved(t)' = Unserved(t)
    BY <1>1, <1>8 DEF Waiting, Dialed, Unserved
  <2>3. \A t \in Session : sent'["client"][t] = sent["client"][t]
    BY <1>1, <1>6
  <2>4. \A t \in Session : Unserved(t) => sent'["server"][t] = sent["server"][t]
    BY <1>1, <1>6, <2>1
  <2> QED BY <1>1, <2>2, <2>3, <2>4 DEF Private, Unused
<1>12. Carried'
  <2> SUFFICES ASSUME NEW e \in Ends, NEW i \in 1 .. Len(wire[e]),
                      wire[e][i].cmd = "data"
               PROVE  wire[e][i].n <= sent'[Peer(e)][wire[e][i].sess]
    BY <1>1 DEF Carried
  <2>1. wire[e][i] \in Frames(e)
    <3>1. wire[e] \in Seq(Frames(e)) BY DEF Wires
    <3> QED BY <3>1
  <2>2. wire[e][i].sess \in Session /\ wire[e][i].n \in Nat
    BY <2>1 DEF Frames, Frame
  <2>3. wire[e][i].n <= sent[Peer(e)][wire[e][i].sess]
    BY DEF Private, Carried
  <2> QED BY <1>7, <2>2, <2>3, Peers
<1>13. Isolated'
  <2> SUFFICES ASSUME NEW e \in Ends, NEW t \in Session, Sealed(e, t)
               PROVE  /\ Len(got[e][t]) <= sent'[Peer(e)][t]
                      /\ \A i \in 1 .. Len(got[e][t]) : got[e][t][i] = <<t, i>>
    BY <1>1 DEF Isolated, Exact, Sealed
  <2>1. /\ Len(got[e][t]) <= sent[Peer(e)][t]
        /\ \A i \in 1 .. Len(got[e][t]) : got[e][t][i] = <<t, i>>
    BY DEF Private, Isolated, Exact
  <2>2. Len(got[e][t]) \in Nat BY Counts
  <2> QED BY <1>7, <2>1, <2>2, Peers
<1>14. Stray'
  <2> SUFFICES ASSUME NEW m \in late'
               PROVE  /\ m[1] \in Udpgw /\ m[1] <= serving
                      /\ m[2] <= sent'["server"][m[1]]
    BY <1>1 DEF Stray
  <2>1. CASE m = <<s, sent["server"][s] + 1>>
    BY <1>1, <1>4, <1>5, <1>6, <2>1
  <2>2. CASE m \in late
    <3>1. m[1] \in Session /\ m[2] \in Nat BY <2>2, LateFrame
    <3> QED BY <1>1, <1>7, <2>2, <3>1 DEF Private, Stray
  <2> QED BY <1>1, <2>1, <2>2
<1> QED BY <1>9, <1>10, <1>11, <1>12, <1>13, <1>14 DEF Private

\* ... and writes it to the channel, whoever copies by then
\* (udpgw.go:160-183).
LEMMA UdpgwWritePrivate ==
  ASSUME IInv, Private, NEW m \in late, UdpgwWrite(m)
  PROVE  Private'
<1> USE DEF IInv
<1> DEFINE f == DataFrame(m[1], m[2])
           v == wire["client"]
<1>1. /\ UNCHANGED <<raw, cut, using, pc, sess, serving, dir, sent, got>>
      /\ late' = late \ {m} /\ m[1] \in Udpgw /\ m[1] <= serving
      /\ m[2] <= sent["server"][m[1]]
      /\ "client" \in Ends /\ "server" \in Ends
      /\ Peer("client") = "server" /\ Peer("server") = "client"
  BY DEF UdpgwWrite, outer, history, Ends, Peer, Private, Stray
<1>3. /\ f \in Frame /\ f \in Frames("client") /\ f.cmd = "data"
      /\ f.sess = m[1] /\ f.n = m[2] /\ m[1] \in Session
  BY LateFrame
<1>2. PICK s \in Session : s = m[1] BY <1>3
<1>4. WriteFrame("server", f) BY DEF UdpgwWrite
<1>5. v \in Seq(Frame) /\ Len(v) \in Nat
  <2>1. v \in Seq(Frame) BY <1>1 DEF TypeOK
  <2> QED BY <2>1
<1> HIDE DEF f
<1>6. /\ wire'["server"] = wire["server"]
      /\ wire'["client"] = v \/ wire'["client"] = Append(v, f)
  BY <1>1, <1>3, <1>4, WriteKeeps
<1>7. Linked' = Linked /\ Dials' = Dials BY <1>1, <1>6 DEF Linked, Dials
<1>8. Streams'
  <2>1. ASSUME NEW e \in Ends, Copying(e, "in"), Sealed(e, using[e])
        PROVE  Stream(e, 0, using[e])'
    <3>1. e = "server"
      BY <1>1, <1>2, <2>1, Unsealed DEF Private, Copying, Ends
    <3>2. Stream(e, 0, using[e]) BY <2>1 DEF Private, Streams
    <3> QED BY <1>1, <1>6, <1>7, <3>1, <3>2 DEF Stream
  <2>2. ~(pc["client"] = "dialing" /\ Sealed("client", sess))
    BY <1>1, <1>2, Unsealed DEF Private
  <2> QED BY <1>1, <2>1, <2>2 DEF Streams, Copying, Sealed
<1>9. InTurn' BY <1>1, <1>6, <1>7 DEF Private, InTurn, NoData
<1>10. Unused'
  BY <1>1, <1>7 DEF Private, Unused, Waiting, Dialed, Unserved
<1>11. Carried'
  <2> SUFFICES ASSUME NEW e \in Ends, NEW i \in 1 .. Len(wire'[e]),
                      wire'[e][i].cmd = "data"
               PROVE  wire'[e][i].n <= sent[Peer(e)][wire'[e][i].sess]
    BY <1>1 DEF Carried
  <2>1. CASE wire'[e] = wire[e] BY <2>1 DEF Private, Carried
  <2>2. CASE e = "client" /\ wire'[e] = Append(v, f)
    <3>1. CASE i = Len(v) + 1
      <4>1. wire'[e][i] = f BY <1>3, <1>5, <2>2, <3>1, AppendFrames
      <4> QED BY <1>1, <1>3, <2>2, <4>1
    <3>2. CASE i # Len(v) + 1
      <4>1. i \in 1 .. Len(v) /\ wire'[e][i] = wire[e][i]
        BY <1>3, <1>5, <2>2, <3>2, AppendFrames
      <4>2. wire[e][i].cmd = "data" /\ i \in 1 .. Len(wire[e])
        BY <2>2, <4>1
      <4>3. wire[e][i].n <= sent[Peer(e)][wire[e][i].sess]
        BY <4>2 DEF Private, Carried
      <4> QED BY <4>1, <4>3
    <3> QED BY <3>1, <3>2
  <2> QED BY <1>6, <2>1, <2>2 DEF Ends
<1>12. Isolated' /\ Stray' BY <1>1 DEF Private, Isolated, Exact, Sealed, Stray
<1> QED BY <1>8, <1>9, <1>10, <1>11, <1>12 DEF Private

LEMMA InitPrivate == Init => Private /\ Heard
<1> SUFFICES ASSUME Init PROVE Private /\ Heard OBVIOUS
<1>1. /\ wire = [e \in Ends |-> <<>>] /\ late = {} /\ sess = 0 /\ serving = 0
      /\ pc = [e \in Ends |-> IF e = "client" THEN "idle" ELSE "reading"]
      /\ sent = [e \in Ends |-> [s \in Session |-> 0]]
      /\ got = [e \in Ends |-> [s \in Session |-> <<>>]]
  BY DEF Init
<1>2. /\ \A e \in Ends : wire[e] = <<>> /\ Len(wire[e]) = 0
      /\ pc["client"] = "idle" /\ pc["server"] = "reading"
      /\ \A e \in Ends, s \in Session :
           /\ got[e][s] = <<>> /\ Len(got[e][s]) = 0 /\ sent[e][s] = 0
  BY <1>1 DEF Ends
<1>3. Dials = {} BY <1>2 DEF Dials, Ends
<1>4. Streams BY <1>2 DEF Streams, Copying, Ends
<1>5. InTurn BY <1>1, <1>2, <1>3 DEF InTurn
<1>6. Unused BY <1>2 DEF Unused, Ends
<1>7. Carried BY <1>2 DEF Carried
<1>8. Isolated BY <1>2, Peers DEF Isolated, Exact
<1>9. Stray BY <1>1 DEF Stray
<1>10. Heard BY <1>2 DEF Init, Heard
<1> QED BY <1>4, <1>5, <1>6, <1>7, <1>8, <1>9, <1>10 DEF Private

\* The dial the server reads is of a session that it has not accepted.
LEMMA HeardKept ==
  ASSUME IInv, InTurn, Heard, [Next]_vars
  PROVE  Heard'
<1> USE DEF IInv
<1>1. /\ serving \in Nat /\ \A s \in accepted : s \in Nat
      /\ "client" \in Ends /\ "server" \in Ends
  BY DEF TypeOK, Session, Ends
<1>2. CASE ServerReadDial
  <2> DEFINE v == wire["server"]
  <2>1. v \in Seq(Frame) /\ v # <<>> /\ Head(v) = v[1] /\ v[1].cmd = "dial"
    BY <1>1, <1>2 DEF ServerReadDial, Incoming, TypeOK
  <2>2. 1 \in 1 .. Len(v) BY <2>1
  <2>3. 1 \in Dials BY <2>1, <2>2 DEF Dials
  <2>4. accepted' = accepted /\ serving' = serving + 1
    BY <1>2, <2>1, <2>3 DEF ServerReadDial, history, InTurn
  <2> QED BY <1>1, <2>4 DEF Heard
<1>3. CASE ServerAccept
  <2>1. /\ serving' = serving /\ accepted' = accepted \cup {serving}
        /\ pc'["server"] = "piping"
    BY <1>1, <1>3 DEF ServerAccept, Goto, TypeOK
  <2> QED BY <1>1, <2>1 DEF Heard
<1>4. CASE /\ UNCHANGED <<serving, accepted>>
           /\ pc'["server"] = "dialing" => pc["server"] = "dialing"
  BY <1>4 DEF Heard
<1>5. CASE ServerStop \/ ServerRefuse \/ ServerPipeEnd
  BY <1>1, <1>4, <1>5
  DEF ServerStop, ServerRefuse, ServerPipeEnd, history, Goto, TypeOK
<1>6. CASE ClientNext
  BY <1>1, <1>4, <1>6
  DEF ClientNext, ClientDial, ClientBack, ClientBackFails, ClientDrop,
      ClientPipeEnd, history, Goto, TypeOK
<1>7. ASSUME NEW e \in Ends, PipeNext(e) PROVE UNCHANGED <<serving, accepted, pc>>
  BY <1>7 DEF PipeNext, PipeData, PipeStop, PipeSend, PipeClose, LocalEnds,
     history
<1>8. CASE \/ \E s \in Session : UdpgwRead(s)
           \/ \E m \in late : UdpgwWrite(m)
           \/ UNCHANGED vars
  BY <1>4, <1>8 DEF UdpgwRead, UdpgwWrite, history, vars
<1>9. CASE Outside
  BY <1>1, <1>4, <1>9
  DEF Outside, Expire, Evict, ClientList, ClientShut, ServerShut, Cut,
      IdleTimeout, history, Goto, TypeOK
<1> QED BY <1>2, <1>3, <1>4, <1>5, <1>6, <1>7, <1>8, <1>9 DEF Next, ServerNext

LEMMA NextPrivate ==
  IInv /\ Private /\ Heard /\ [Next]_vars => Private' /\ Heard'
<1> SUFFICES ASSUME IInv, Private, Heard, [Next]_vars PROVE Private'
  BY HeardKept DEF Private
<1>1. CASE ClientNext
  BY <1>1, ClientDialPrivate, ClientBackPrivate, ClientQuiet, QuietPrivate
  DEF ClientNext
<1>2. CASE ServerNext
  BY <1>2, ServerReadDialPrivate, ServerAcceptPrivate, ServerQuiet,
     QuietPrivate
  DEF ServerNext
<1>3. ASSUME NEW e \in Ends, PipeNext(e) PROVE Private'
  BY <1>3, PipeDataPrivate, PipeSendPrivate, PipeQuiet, QuietPrivate
  DEF PipeNext
<1>4. CASE (\E s \in Session : UdpgwRead(s)) \/ \E m \in late : UdpgwWrite(m)
  BY <1>4, UdpgwReadPrivate, UdpgwWritePrivate
<1>5. CASE Outside BY <1>5, OutsideQuiet, QuietPrivate
<1>6. CASE UNCHANGED vars
  <2>1. UNCHANGED <<wire, raw, cut, using, pc, sess, serving, dir, late,
                    accepted, sent, got>>
    BY <1>6 DEF vars
  <2>2. \A e \in Ends : Still(e) BY <2>1 DEF Still
  <2>3. Linked' => Linked BY <2>1 DEF Linked
  <2>4. Quiet BY <2>1, <2>2, <2>3 DEF Quiet, Copying
  <2> QED BY <2>4, QuietPrivate
<1> QED BY <1>1, <1>2, <1>3, <1>4, <1>5, <1>6 DEF Next

\* What an end hands to the local side of a session is what the other end
\* wrote for that session, in order, none of it twice, whatever the closes,
\* evictions and losses of the link (Client.pullConn and Client.pushConn,
\* cs.go:395-447): at the server always, whose targets never see the bytes of
\* another session, and at the client in every session up to the first whose
\* target is a gateway.
THEOREM SealedSessionsIsolated ==
  Spec => [](\A e \in Ends, s \in Session : Sealed(e, s) => Exact(e, s))
<1>1. Private => \A e \in Ends, s \in Session : Sealed(e, s) => Exact(e, s)
  BY DEF Private, Isolated
<1> QED BY <1>1, InitPrivate, NextPrivate, SpecIInv, PTL DEF Spec

\* So every session of a channel that serves no gateway is isolated.
THEOREM SessionsIsolated ==
  ASSUME Udpgw = {}
  PROVE  Spec => []Isolation
<1>1. Private => Isolation BY DEF Private, Isolated, Isolation, Sealed
<1> QED BY <1>1, InitPrivate, NextPrivate, SpecIInv, PTL DEF Spec

-----------------------------------------------------------------------------
(***************************************************************************)
(* Where datagrams stray.  The client's stream in a session that is not    *)
(* sealed holds what was written for that session or for a gateway's up to *)
(* it, and every message to the client is in one place only.               *)
(***************************************************************************)

Origin(s) == {s} \cup (Udpgw \cap 1 .. s)

\* The stream behind place b of w, up to the first frame that is no data.
Native(w, b, s) ==
  \A i \in b + 1 .. Len(w) : AllData(w, b, i) => w[i].sess \in Origin(s)

Natives ==
  /\ Copying("client", "in") => Native(wire["client"], 0, sess)
  /\ pc["client"] = "dialing" =>
       \A i \in Answers :
         wire["client"][i].cmd = "ok" => Native(wire["client"], i, sess)
  /\ \A s \in Session : \A k \in 1 .. Len(got["client"][s]) :
       got["client"][s][k][1] \in Origin(s)

\* A message to the client is on its wire, handed over, or a datagram that
\* waits, and the server has sent it.
Item(f) == <<f.sess, f.n>>
Datas(w) == {i \in 1 .. Len(w) : w[i].cmd = "data"}
WasSent(m) == m[1] \in Session /\ m[2] \in 1 .. sent["server"][m[1]]

NotLate(m) == m \notin late
NotGot(m) ==
  \A s \in Session : \A k \in 1 .. Len(got["client"][s]) :
    got["client"][s][k] # m

OnWire ==
  \A i \in Datas(wire["client"]) :
    LET m == Item(wire["client"][i]) IN
    /\ WasSent(m) /\ NotGot(m) /\ NotLate(m)
    /\ \A j \in Datas(wire["client"]) : Item(wire["client"][j]) = m => i = j
Waits == \A m \in late : WasSent(m) /\ NotGot(m)
Given ==
  \A s \in Session : \A k \in 1 .. Len(got["client"][s]) :
    LET m == got["client"][s][k] IN
    /\ WasSent(m)
    /\ \A t \in Session : \A l \in 1 .. Len(got["client"][t]) :
         got["client"][t][l] = m => s = t /\ k = l

Once == OnWire /\ Waits /\ Given
Straying == Natives /\ Once

LEMMA AppendNative ==
  ASSUME NEW v \in Seq(Frame), NEW f \in Frame, NEW b \in 0 .. Len(v), NEW s,
         f.cmd = "data" => f.sess \in Origin(s), Native(v, b, s)
  PROVE  Native(Append(v, f), b, s)
<1> DEFINE w == Append(v, f)
<1>1. Len(w) = Len(v) + 1 /\ w[Len(v) + 1] = f /\ Len(v) \in Nat
      /\ \A i \in 1 .. Len(v) : w[i] = v[i]
  BY AppendFrames
<1> HIDE DEF w
<1>2. ASSUME NEW i \in b + 1 .. Len(w), AllData(w, b, i)
      PROVE  w[i].sess \in Origin(s)
  <2>1. CASE i = Len(v) + 1
    <3>1. w[i].cmd = "data" BY <1>1, <1>2, <2>1 DEF AllData
    <3> QED BY <1>1, <2>1, <3>1
  <2>2. CASE i # Len(v) + 1
    <3>1. i \in b + 1 .. Len(v) /\ i \in 1 .. Len(v) BY <1>1, <2>2
    <3>2. i \in Nat /\ b \in Nat /\ \A j \in 1 .. i : w[j] = v[j]
      BY <1>1, <3>1
    <3>3. AllData(v, b, i) BY <1>2, <3>2, SameData
    <3> QED BY <1>1, <3>1, <3>3 DEF Native
  <2> QED BY <2>1, <2>2
<1> QED BY <1>2 DEF Native, w

LEMMA CutNative ==
  ASSUME NEW v \in Seq(Frame), NEW n \in 0 .. Len(v), NEW b \in Nat, NEW s,
         Native(v, b, s)
  PROVE  Native(SubSeq(v, 1, n), b, s)
<1> DEFINE w == SubSeq(v, 1, n)
<1>1. Len(w) = n /\ Len(v) \in Nat /\ \A i \in 1 .. n : w[i] = v[i]
  OBVIOUS
<1> HIDE DEF w
<1>2. ASSUME NEW i \in b + 1 .. Len(w), AllData(w, b, i)
      PROVE  w[i].sess \in Origin(s)
  <2>1. i \in b + 1 .. Len(v) /\ i \in 1 .. n BY <1>1
  <2>2. i \in Nat /\ \A j \in 1 .. i : w[j] = v[j] BY <1>1, <2>1
  <2>3. AllData(v, b, i) BY <1>2, <2>2, SameData
  <2> QED BY <1>1, <2>1, <2>3 DEF Native
<1> QED BY <1>2 DEF Native, w

LEMMA TailNative ==
  ASSUME NEW v \in Seq(Frame), v # <<>>, NEW s
  PROVE  /\ Native(v, 1, s) => Native(Tail(v), 0, s)
         /\ v[1].cmd = "data" /\ Native(v, 0, s) =>
              v[1].sess \in Origin(s) /\ Native(Tail(v), 0, s)
<1> DEFINE w == Tail(v)
<1>1. /\ Len(v) \in Nat \ {0} /\ Len(w) = Len(v) - 1
      /\ \A i \in 1 .. Len(w) : i + 1 \in 1 .. Len(v) /\ w[i] = v[i + 1]
  BY TailFrames
<1> HIDE DEF w
<1>2. ASSUME NEW i \in 1 .. Len(w), AllData(w, 0, i)
      PROVE  /\ AllData(v, 1, i + 1)
             /\ v[1].cmd = "data" => AllData(v, 0, i + 1)
  <2>1. ASSUME NEW j \in 2 .. i + 1 PROVE v[j].cmd = "data"
    <3>1. j - 1 \in 1 .. i /\ j - 1 \in 1 .. Len(w) /\ (j - 1) + 1 = j
      BY <1>1
    <3>2. w[j - 1].cmd = "data" BY <1>2, <3>1 DEF AllData
    <3> QED BY <1>1, <3>1, <3>2
  <2> QED BY <1>1, <2>1 DEF AllData
<1>3. ASSUME NEW b \in {0, 1}, b = 0 => v[1].cmd = "data", Native(v, b, s)
      PROVE  Native(w, 0, s)
  <2> SUFFICES ASSUME NEW i \in 1 .. Len(w), AllData(w, 0, i)
               PROVE  w[i].sess \in Origin(s)
    BY DEF Native
  <2>1. AllData(v, b, i + 1) BY <1>2, <1>3
  <2>2. i + 1 \in b + 1 .. Len(v) /\ w[i] = v[i + 1] BY <1>1
  <2>3. v[i + 1].sess \in Origin(s) BY <1>3, <2>1, <2>2 DEF Native
  <2> QED BY <2>2, <2>3
<1>4. ASSUME v[1].cmd = "data", Native(v, 0, s) PROVE v[1].sess \in Origin(s)
  <2>1. AllData(v, 0, 1) /\ 1 \in 0 + 1 .. Len(v) BY <1>1, <1>4 DEF AllData
  <2> QED BY <1>4, <2>1 DEF Native
<1> QED BY <1>3, <1>4 DEF w

\* Of frames that were there before none is there twice.
LEMMA SubOnce ==
  ASSUME TypeOK, Once, NEW k \in {0, 1},
         \A i \in 1 .. Len(wire'["client"]) :
           wire'["client"][i].cmd = "data" =>
             /\ i + k \in 1 .. Len(wire["client"])
             /\ wire'["client"][i] = wire["client"][i + k],
         late' \subseteq late, got'["client"] = got["client"],
         sent'["server"] = sent["server"]
  PROVE  Once'
<1> DEFINE v == wire["client"]
           w == wire'["client"]
<1>1. ASSUME NEW i \in Datas(w)
      PROVE  i \in Nat /\ i + k \in Datas(v) /\ w[i] = v[i + k]
  BY DEF Datas
<1>2. \A m : WasSent(m)' = WasSent(m) BY DEF WasSent
<1>3. \A m : NotGot(m) => NotGot(m)' BY DEF NotGot
<1>4. \A m : NotLate(m) => NotLate(m)' BY DEF NotLate
<1> HIDE DEF v, w
<1>5. ASSUME NEW i \in Datas(w), NEW m, m = Item(w[i])
      PROVE  /\ WasSent(m)' /\ NotGot(m)' /\ NotLate(m)'
             /\ \A j \in Datas(w) : Item(w[j]) = m => i = j
  <2>1. i + k \in Datas(v) /\ m = Item(v[i + k]) /\ i \in Nat
    BY <1>1, <1>5
  <2>2. /\ WasSent(m) /\ NotGot(m) /\ NotLate(m)
        /\ \A j \in Datas(v) : Item(v[j]) = m => i + k = j
    BY <2>1 DEF Once, OnWire, v
  <2>3. ASSUME NEW j \in Datas(w), Item(w[j]) = m PROVE i = j
    <3>1. j + k \in Datas(v) /\ Item(v[j + k]) = m /\ j \in Nat
      BY <1>1, <2>3
    <3>2. i + k = j + k BY <2>2, <3>1
    <3> QED BY <2>1, <3>1, <3>2
  <2> QED BY <1>2, <1>3, <1>4, <2>2, <2>3
<1>6. OnWire' BY <1>5 DEF OnWire, w
<1>7. Waits' BY <1>2, <1>3 DEF Once, Waits
<1>8. Given' BY <1>2 DEF Once, Given
<1> QED BY <1>6, <1>7, <1>8 DEF Once

\* What was handed over stays of its origin.
LEMMA SameGot ==
  ASSUME Natives, got'["client"] = got["client"]
  PROVE  \A s \in Session : \A k \in 1 .. Len(got'["client"][s]) :
           got'["client"][s][k][1] \in Origin(s)
BY DEF Natives

\* A step that the client and its wire do not take part in.
LEMMA SameStraying ==
  ASSUME IInv, Straying, UNCHANGED sess, wire'["client"] = wire["client"],
         pc'["client"] = pc["client"], dir'["client"]["in"] = dir["client"]["in"],
         got'["client"] = got["client"], late' = late,
         sent'["server"] = sent["server"]
  PROVE  Straying'
<1>1. Answers' = Answers BY DEF Answers
<1>2. Natives'
  BY <1>1, SameGot DEF Straying, Natives, Copying
<1>3. wire["client"] \in Seq(Frame) BY DEF IInv, TypeOK, Ends
<1>4. \A i \in 1 .. Len(wire["client"]) : i + 0 = i BY <1>3
<1>5. Once'
  <2>1. 0 \in {0, 1} OBVIOUS
  <2> QED BY <1>4, <2>1, SubOnce DEF Straying, IInv
<1> QED BY <1>2, <1>5 DEF Straying

LEMMA StillAnswer ==
  ASSUME TypeOK, Still("client"), NEW i \in Answers',
         wire'["client"][i].cmd = "ok"
  PROVE  i \in Answers /\ wire["client"][i].cmd = "ok"
<1>1. wire["client"] \in Seq(Frame) BY DEF TypeOK, Ends
<1>2. i \in 1 .. Len(wire'["client"]) BY DEF Answers
<1>3. CASE wire'["client"] = wire["client"] BY <1>2, <1>3 DEF Answers
<1>4. ASSUME NEW f \in Frame, f.cmd \in {"refused", "close"},
             wire'["client"] = Append(wire["client"], f)
      PROVE  i \in Answers /\ wire["client"][i].cmd = "ok"
  <2>1. i # Len(wire["client"]) + 1 BY <1>1, <1>4, AppendFrames
  <2>2. i \in 1 .. Len(wire["client"]) BY <1>1, <1>2, <1>4, <2>1, AppendFrames
  <2> QED BY <1>1, <1>4, <2>2, AppendFrames DEF Answers
<1>5. ASSUME NEW n \in 0 .. Len(wire["client"]),
             wire'["client"] = SubSeq(wire["client"], 1, n)
      PROVE  i \in Answers /\ wire["client"][i].cmd = "ok"
  BY <1>1, <1>2, <1>5 DEF Answers
<1> QED BY <1>3, <1>4, <1>5 DEF Still

LEMMA StillNative ==
  ASSUME TypeOK, Still("client"), NEW b \in 0 .. Len(wire["client"]), NEW s,
         Native(wire["client"], b, s)
  PROVE  Native(wire'["client"], b, s)
<1>1. wire["client"] \in Seq(Frame) BY DEF TypeOK, Ends
<1>2. b \in Nat BY <1>1
<1> QED BY <1>1, <1>2, AppendNative, CutNative DEF Still

LEMMA QuietStraying ==
  ASSUME IInv, Straying, Quiet
  PROVE  Straying'
<1> USE DEF IInv
<1>1. UNCHANGED <<got, sent, sess, serving, late>> BY DEF Quiet
<1>2. wire["client"] \in Seq(Frame) BY DEF TypeOK, Ends
<1>3. Natives'
  <2>1. ASSUME Copying("client", "in")' PROVE Native(wire'["client"], 0, sess)
    <3>1. Copying("client", "in") /\ Still("client")
      BY <2>1 DEF Quiet, Read, Ends
    <3>2. 0 \in 0 .. Len(wire["client"]) BY <1>2
    <3> QED BY <3>1, <3>2, StillNative DEF Straying, Natives
  <2>2. ASSUME pc'["client"] = "dialing", NEW i \in Answers',
               wire'["client"][i].cmd = "ok"
        PROVE  Native(wire'["client"], i, sess)
    <3>1. pc["client"] = "dialing" /\ Still("client")
      BY <2>2 DEF Quiet, Read, Ends
    <3>2. i \in Answers /\ wire["client"][i].cmd = "ok"
      BY <2>2, <3>1, StillAnswer
    <3>3. i \in 0 .. Len(wire["client"]) BY <3>2 DEF Answers
    <3> QED BY <3>1, <3>2, <3>3, StillNative DEF Straying, Natives
  <2> QED BY <1>1, <2>1, <2>2, SameGot DEF Straying, Natives
<1>4. Once'
  <2>1. Still("client") \/ Read("client") BY DEF Quiet, Ends
  <2>2. PICK k \in {0, 1} : \A i \in 1 .. Len(wire'["client"]) :
           \/ wire'["client"][i].cmd \in {"refused", "close"}
           \/ i + k \in 1 .. Len(wire["client"])
              /\ wire'["client"][i] = wire["client"][i + k]
    BY <2>1, QuietFrames DEF Ends
  <2> QED BY <1>1, <2>2, SubOnce DEF Straying
<1> QED BY <1>3, <1>4 DEF Straying

\* DialBack writes the dial (cs.go:470-478): no answer is behind.
LEMMA ClientDialStraying ==
  ASSUME IInv, Straying, ClientDial
  PROVE  Straying'
<1> USE DEF IInv
<1>1. /\ UNCHANGED <<got, sent, late>>
      /\ pc["client"] = "idle" /\ sess < MaxSession /\ "client" \in Ends
  BY DEF ClientDial, outer, history, Ends
<1>2. pc'["client"] \in {"gone", "dialing"} BY DEF ClientDial, Goto, TypeOK, Ends
<1>3. DialFrame(sess + 1) \in Frames("server")
  <2>1. sess \in 0 .. MaxSession BY DEF TypeOK
  <2>2. PICK s \in Session : s = sess + 1
    BY <1>1, <2>1, ChannelAssumption DEF Session
  <2> QED BY <2>2, ChannelAssumption
          DEF DialFrame, Frame, Frames, Commands, Session
<1>4. wire'["client"] = wire["client"]
  BY <1>3, WriteKeeps DEF ClientDial, Ends, Peer
<1>5. Answers' = {} BY <1>1, <1>4 DEF Order, NoDial, Answers
<1>6. Natives'
  BY <1>1, <1>2, <1>5, SameGot DEF Straying, Natives, Copying
<1>7. wire["client"] \in Seq(Frame) BY <1>1 DEF TypeOK
<1>8. Once'
  <2>1. 0 \in {0, 1} /\ \A i \in 1 .. Len(wire["client"]) : i + 0 = i BY <1>7
  <2> QED BY <1>1, <1>4, <2>1, SubOnce DEF Straying
<1> QED BY <1>6, <1>8 DEF Straying

\* The client takes the answer (cs.go:479-517): its stream is behind it.
LEMMA ClientBackStraying ==
  ASSUME IInv, Straying, ClientBack
  PROVE  Straying'
<1> USE DEF IInv
<1> DEFINE v == wire["client"]
<1>1. /\ UNCHANGED <<got, sent, sess, late>>
      /\ pc["client"] = "dialing" /\ "client" \in Ends
      /\ Incoming("client") /\ wire' = Taken("client")
  BY DEF ClientBack, history, Ends
<1>2. v \in Seq(Frame) /\ v # <<>> /\ wire'["client"] = Tail(v)
  BY <1>1, TakenKeeps DEF TypeOK
<1>3. /\ Len(v) \in Nat \ {0} /\ Head(v) = v[1]
      /\ \A i \in 1 .. Len(Tail(v)) :
           i + 1 \in 1 .. Len(v) /\ Tail(v)[i] = v[i + 1]
  BY <1>2, TailFrames
<1>4. /\ pc'["client"] \in {"piping", "idle"}
      /\ pc'["client"] = "piping" => v[1].cmd = "ok"
  BY <1>1, <1>3 DEF ClientBack, Goto, TypeOK
<1>5. ASSUME pc'["client"] = "piping" PROVE Native(wire'["client"], 0, sess)
  <2>1. 1 \in Answers /\ v[1].cmd = "ok" BY <1>3, <1>4, <1>5 DEF Answers
  <2>2. Native(v, 1, sess) BY <1>1, <2>1 DEF Straying, Natives
  <2> QED BY <1>2, <2>2, TailNative
<1>6. Natives' BY <1>1, <1>4, <1>5, SameGot DEF Straying, Natives, Copying
<1>7. Once' BY <1>1, <1>2, <1>3, SubOnce DEF Straying
<1> QED BY <1>6, <1>7 DEF Straying

\* The server accepts (cs.go:238-249): nothing is behind its answer yet.
LEMMA ServerAcceptStraying ==
  ASSUME IInv, Straying, ServerAccept
  PROVE  Straying'
<1> USE DEF IInv
<1> DEFINE f == BackFrame(serving, "ok")
           v == wire["client"]
<1>1. /\ UNCHANGED <<got, sent, sess, late>>
      /\ pc["server"] = "dialing" /\ pc'["client"] = pc["client"]
      /\ "server" \in Ends /\ Peer("server") = "client"
  BY DEF ServerAccept, outer, Goto, TypeOK, Ends, Peer
<1>2. f \in Frame /\ f \in Frames("client") /\ f.cmd = "ok"
  BY ChannelAssumption DEF TypeOK, BackFrame, Frames, Frame, Commands
<1>3. wire'["client"] = v \/ wire'["client"] = Append(v, f)
  BY <1>1, <1>2, WriteKeeps DEF ServerAccept
<1>4. v \in Seq(Frame) /\ Len(v) \in Nat
  <2>1. v \in Seq(Frame) BY DEF TypeOK, Ends
  <2> QED BY <2>1
<1> HIDE DEF f
<1>5. /\ pc["client"] \notin {"idle", "piping"}
      /\ pc["client"] = "dialing" => Answers = {}
  BY <1>1 DEF Order, OneDial, NoDial
<1>6. ASSUME pc'["client"] = "dialing", NEW i \in Answers'
      PROVE  Native(wire'["client"], i, sess)
  <2>1. i \in 1 .. Len(wire'["client"])
        /\ wire'["client"][i].cmd \in {"ok", "refused"}
    BY DEF Answers
  <2>2. i \notin 1 .. Len(v) \/ v[i].cmd \notin {"ok", "refused"}
    BY <1>1, <1>5, <1>6 DEF Answers
  <2>3. wire'["client"] = Append(v, f) BY <1>3, <2>1, <2>2
  <2>4. i = Len(v) + 1 /\ Len(wire'["client"]) = i
    BY <1>2, <1>4, <2>1, <2>2, <2>3, AppendFrames
  <2> QED BY <1>4, <2>4 DEF Native
<1>7. Natives'
  BY <1>1, <1>5, <1>6, SameGot DEF Straying, Natives, Copying
<1>8. \A i \in 1 .. Len(wire'["client"]) : wire'["client"][i].cmd = "data" =>
        i + 0 \in 1 .. Len(v) /\ wire'["client"][i] = v[i + 0]
  <2>1. \A i \in 1 .. Len(v) : i + 0 = i BY <1>4
  <2>2. ASSUME NEW i \in 1 .. Len(wire'["client"]),
               wire'["client"][i].cmd = "data", wire'["client"] = Append(v, f)
        PROVE  i \in 1 .. Len(v) /\ wire'["client"][i] = v[i]
    <3>1. i # Len(v) + 1 BY <1>2, <1>4, <2>2, AppendFrames
    <3>2. i \in 1 .. Len(v) BY <1>2, <1>4, <2>2, <3>1, AppendFrames
    <3> QED BY <1>2, <1>4, <2>2, <3>2, AppendFrames
  <2> QED BY <1>3, <2>1, <2>2
<1>9. Once'
  <2>1. 0 \in {0, 1} OBVIOUS
  <2> QED BY <1>1, <1>8, <2>1, SubOnce DEF Straying
<1> QED BY <1>7, <1>9 DEF Straying

\* A message is handed over.
LEMMA GiveOnce ==
  ASSUME TypeOK, Once, NEW s \in Session, NEW m,
         wire["client"] # <<>>, wire["client"][1].cmd = "data",
         m = Item(wire["client"][1]),
         wire'["client"] = Tail(wire["client"]),
         got'["client"][s] = Append(got["client"][s], m),
         \A t \in Session \ {s} : got'["client"][t] = got["client"][t],
         late' = late, sent'["server"] = sent["server"]
  PROVE  Once'
<1> DEFINE v == wire["client"]
           w == wire'["client"]
<1>1. /\ v \in Seq(Frame) /\ "client" \in Ends /\ Len(v) \in Nat \ {0}
      /\ \A i \in 1 .. Len(w) : i + 1 \in 1 .. Len(v) /\ w[i] = v[i + 1]
  <2>1. v \in Seq(Frame) BY DEF TypeOK, Ends
  <2> QED BY <2>1, TailFrames DEF Ends
<1>2. /\ WasSent(m) /\ NotGot(m) /\ NotLate(m)
      /\ \A j \in Datas(v) : Item(v[j]) = m => 1 = j
  <2>1. 1 \in Datas(v) BY <1>1 DEF Datas
  <2> QED BY <2>1 DEF Once, OnWire
<1>3. ASSUME NEW i \in Datas(w)
      PROVE  /\ i \in Nat /\ i + 1 \in Datas(v) /\ w[i] = v[i + 1]
             /\ Item(w[i]) # m
  <2>1. i \in Nat \ {0} /\ i + 1 \in Datas(v) /\ w[i] = v[i + 1]
    BY <1>1 DEF Datas
  <2>2. i + 1 # 1 BY <2>1
  <2>3. Item(v[i + 1]) # m BY <1>2, <2>1, <2>2
  <2> QED BY <2>1, <2>3
<1>4. ASSUME NEW t \in Session, NEW k \in 1 .. Len(got'["client"][t])
      PROVE  \/ /\ k \in 1 .. Len(got["client"][t])
                /\ got'["client"][t][k] = got["client"][t][k]
             \/ /\ t = s /\ k = Len(got["client"][s]) + 1
                /\ got'["client"][t][k] = m
  <2> DEFINE g == got["client"][s]
  <2>1. g \in Seq(Session \X (0 .. MaxData)) /\ Len(g) \in Nat
    BY <1>1, Counts
  <2>2. /\ Len(Append(g, m)) = Len(g) + 1 /\ Append(g, m)[Len(g) + 1] = m
        /\ \A j \in 1 .. Len(g) : Append(g, m)[j] = g[j]
    BY <2>1
  <2>3. CASE t = s
    <3>1. got'["client"][t] = Append(g, m) BY <2>3
    <3> HIDE DEF g
    <3>2. k \in 1 .. Len(g) \/ k = Len(g) + 1 BY <2>1, <2>2, <3>1
    <3> QED BY <2>2, <2>3, <3>1, <3>2 DEF g
  <2>4. CASE t # s BY <2>4
  <2> QED BY <2>3, <2>4
<1> HIDE DEF v, w
<1>5. \A x : x # m /\ NotGot(x) => NotGot(x)' BY <1>4 DEF NotGot
<1>6. \A x : WasSent(x)' = WasSent(x) /\ NotLate(x)' = NotLate(x)
  BY DEF WasSent, NotLate
<1>7. OnWire'
  <2>1. ASSUME NEW i \in Datas(w), NEW x, x = Item(w[i])
        PROVE  /\ WasSent(x)' /\ NotGot(x)' /\ NotLate(x)'
               /\ \A j \in Datas(w) : Item(w[j]) = x => i = j
    <3>1. i + 1 \in Datas(v) /\ x = Item(v[i + 1]) /\ i \in Nat /\ x # m
      BY <1>3, <2>1
    <3>2. /\ WasSent(x) /\ NotGot(x) /\ NotLate(x)
          /\ \A j \in Datas(v) : Item(v[j]) = x => i + 1 = j
      BY <3>1 DEF Once, OnWire, v
    <3>3. ASSUME NEW j \in Datas(w), Item(w[j]) = x PROVE i = j
      <4>1. j + 1 \in Datas(v) /\ Item(v[j + 1]) = x /\ j \in Nat
        BY <1>3, <3>3
      <4>2. i + 1 = j + 1 BY <3>2, <4>1
      <4> QED BY <3>1, <4>1, <4>2
    <3> QED BY <1>5, <1>6, <3>1, <3>2, <3>3
  <2> QED BY <2>1 DEF OnWire, w
<1>8. Waits'
  <2>1. ASSUME NEW x \in late PROVE WasSent(x)' /\ NotGot(x)'
    <3>1. WasSent(x) /\ NotGot(x) BY DEF Once, Waits
    <3>2. x # m BY <1>2 DEF NotLate
    <3> QED BY <1>5, <1>6, <3>1, <3>2
  <2> QED BY <2>1 DEF Waits
<1>9. Given'
  <2>1. ASSUME NEW t \in Session, NEW k \in 1 .. Len(got'["client"][t]),
               NEW x, x = got'["client"][t][k]
        PROVE  /\ WasSent(x)'
               /\ \A u \in Session : \A l \in 1 .. Len(got'["client"][u]) :
                    got'["client"][u][l] = x => t = u /\ k = l
    <3>1. CASE k \in 1 .. Len(got["client"][t]) /\ x = got["client"][t][k]
      <4>1. x # m BY <1>2, <3>1 DEF NotGot
      <4>2. /\ WasSent(x)
            /\ \A u \in Session : \A l \in 1 .. Len(got["client"][u]) :
                 got["client"][u][l] = x => t = u /\ k = l
        BY <3>1 DEF Once, Given
      <4> QED BY <1>4, <1>6, <4>1, <4>2
    <3>2. CASE t = s /\ k = Len(got["client"][s]) + 1 /\ x = m
      <4>1. \A u \in Session : \A l \in 1 .. Len(got["client"][u]) :
              got["client"][u][l] # x
        BY <1>2, <3>2 DEF NotGot
      <4> QED BY <1>2, <1>4, <1>6, <3>2, <4>1
    <3> QED BY <1>4, <2>1, <3>1, <3>2
  <2> QED BY <2>1 DEF Given
<1> QED BY <1>7, <1>8, <1>9 DEF Once

\* The next message of the server is in no place yet.
LEMMA NewMessage ==
  ASSUME TypeOK, Once, NEW s \in Session, NEW m,
         m = <<s, sent["server"][s] + 1>>,
         \A t \in Session : sent'["server"][t] =
           IF t = s THEN sent["server"][t] + 1 ELSE sent["server"][t]
  PROVE  /\ \A x : WasSent(x) => WasSent(x)' /\ x # m
         /\ WasSent(m)' /\ NotGot(m)
         /\ \A i \in Datas(wire["client"]) : Item(wire["client"][i]) # m
<1>1. \A t \in Session : sent["server"][t] \in Nat BY Counts DEF Ends
<1>2. ASSUME NEW x, WasSent(x) PROVE WasSent(x)' /\ x # m
  <2>1. x[1] \in Session /\ x[2] \in 1 .. sent["server"][x[1]]
    BY <1>2 DEF WasSent
  <2>2. x # m
    <3> SUFFICES ASSUME x = m PROVE FALSE OBVIOUS
    <3>1. x[1] = s /\ x[2] = sent["server"][s] + 1 OBVIOUS
    <3> QED BY <1>1, <2>1, <3>1
  <2>3. x[2] \in 1 .. sent'["server"][x[1]] BY <1>1, <2>1
  <2> QED BY <2>1, <2>2, <2>3 DEF WasSent
<1>3. WasSent(m)'
  <2>1. m[1] = s /\ m[2] = sent["server"][s] + 1 OBVIOUS
  <2> QED BY <1>1, <2>1 DEF WasSent
<1>4. NotGot(m) BY <1>2 DEF NotGot, Once, Given
<1>5. \A i \in Datas(wire["client"]) : Item(wire["client"][i]) # m
  BY <1>2 DEF Once, OnWire
<1> QED BY <1>2, <1>3, <1>4, <1>5

\* A data frame is added to the wire, or lost.
LEMMA PutOnce ==
  ASSUME NEW v \in Seq(Frame), NEW w, NEW f \in Frame, f.cmd = "data",
         w = v \/ w = Append(v, f), NEW i \in Datas(w)
  PROVE  \/ i \in Datas(v) /\ w[i] = v[i]
         \/ i = Len(v) + 1 /\ w[i] = f /\ i \notin Datas(v)
<1>1. CASE w = v BY <1>1
<1>2. CASE w = Append(v, f)
  <2>1. /\ Len(v) \in Nat /\ Len(w) = Len(v) + 1 /\ w[Len(v) + 1] = f
        /\ \A j \in 1 .. Len(v) : w[j] = v[j]
    BY <1>2, AppendFrames
  <2>2. i \in 1 .. Len(w) /\ w[i].cmd = "data" BY DEF Datas
  <2> QED BY <2>1, <2>2 DEF Datas
<1> QED BY <1>1, <1>2

\* The server sends one.
LEMMA SendOnce ==
  ASSUME TypeOK, Once, NEW s \in Session, NEW f \in Frame,
         f.cmd = "data", Item(f) = <<s, sent["server"][s] + 1>>,
         \A t \in Session : sent'["server"][t] =
           IF t = s THEN sent["server"][t] + 1 ELSE sent["server"][t],
         \/ wire'["client"] = wire["client"]
         \/ wire'["client"] = Append(wire["client"], f),
         got'["client"] = got["client"], late' = late
  PROVE  Once'
<1> DEFINE v == wire["client"]
           w == wire'["client"]
<1>1. v \in Seq(Frame) BY DEF TypeOK, Ends
<1>2. PICK m : m = Item(f) OBVIOUS
<1>3. /\ \A x : WasSent(x) => WasSent(x)' /\ x # m
      /\ WasSent(m)' /\ NotGot(m)
      /\ \A i \in Datas(v) : Item(v[i]) # m
  BY <1>2, NewMessage
<1>4. ASSUME NEW i \in Datas(w)
      PROVE  \/ i \in Datas(v) /\ w[i] = v[i]
             \/ i = Len(v) + 1 /\ w[i] = f /\ i \notin Datas(v)
  <2>1. /\ w = v \/ w = Append(v, f)
        /\ v \in Seq(Frame) /\ f \in Frame /\ f.cmd = "data"
    BY <1>1
  <2> HIDE DEF v, w
  <2> QED BY ONLY <2>1, i \in Datas(w), PutOnce
<1> HIDE DEF v, w
<1>6. \A x : NotGot(x) => NotGot(x)' BY DEF NotGot
<1>7. \A x : NotLate(x) => NotLate(x)' BY DEF NotLate
<1>8. NotLate(m) BY <1>3 DEF NotLate, Once, Waits
<1>9. OnWire'
  <2>1. ASSUME NEW i \in Datas(w), NEW x, x = Item(w[i])
        PROVE  /\ WasSent(x)' /\ NotGot(x)' /\ NotLate(x)'
               /\ \A j \in Datas(w) : Item(w[j]) = x => i = j
    <3>1. CASE i \in Datas(v) /\ w[i] = v[i]
      <4>1. /\ WasSent(x) /\ NotGot(x) /\ NotLate(x)
            /\ \A j \in Datas(v) : Item(v[j]) = x => i = j
        BY <2>1, <3>1 DEF Once, OnWire, v
      <4>2. x # m BY <1>3, <4>1
      <4> QED BY <1>2, <1>3, <1>4, <1>6, <1>7, <4>1, <4>2
    <3>2. CASE i = Len(v) + 1 /\ w[i] = f
      <4>1. x = m BY <1>2, <2>1, <3>2
      <4>2. \A j \in Datas(w) : Item(w[j]) = x => i = j
        BY <1>3, <1>4, <3>2, <4>1
      <4> QED BY <1>3, <1>6, <1>7, <1>8, <4>1, <4>2
    <3> QED BY <1>4, <3>1, <3>2
  <2> QED BY <2>1 DEF OnWire, w
<1>10. Waits'
  <2>1. ASSUME NEW x \in late PROVE WasSent(x)' /\ NotGot(x)'
    BY <1>3, <1>6 DEF Once, Waits
  <2> QED BY <2>1 DEF Waits
<1>11. Given' BY <1>3 DEF Once, Given
<1> QED BY <1>9, <1>10, <1>11 DEF Once

\* A gateway reads one.
LEMMA WaitOnce ==
  ASSUME TypeOK, Once, NEW s \in Session,
         \A t \in Session : sent'["server"][t] =
           IF t = s THEN sent["server"][t] + 1 ELSE sent["server"][t],
         late' = late \cup {<<s, sent["server"][s] + 1>>},
         UNCHANGED <<wire, got>>
  PROVE  Once'
<1>1. PICK m : m = <<s, sent["server"][s] + 1>> OBVIOUS
<1>2. /\ \A x : WasSent(x) => WasSent(x)' /\ x # m
      /\ WasSent(m)' /\ NotGot(m)
      /\ \A i \in Datas(wire["client"]) : Item(wire["client"][i]) # m
  BY <1>1, NewMessage
<1>5. \A x : NotGot(x) => NotGot(x)' BY DEF NotGot
<1>6. \A x : x # m /\ NotLate(x) => NotLate(x)' BY <1>1 DEF NotLate
<1>7. OnWire'
  <2>1. ASSUME NEW i \in Datas(wire["client"]),
               NEW x, x = Item(wire["client"][i])
        PROVE  /\ WasSent(x)' /\ NotGot(x)' /\ NotLate(x)'
               /\ \A j \in Datas(wire["client"]) :
                    Item(wire["client"][j]) = x => i = j
    <3>1. /\ WasSent(x) /\ NotGot(x) /\ NotLate(x)
          /\ \A j \in Datas(wire["client"]) :
               Item(wire["client"][j]) = x => i = j
      BY <2>1 DEF Once, OnWire
    <3>2. x # m BY <1>2, <3>1
    <3> QED BY <1>2, <1>5, <1>6, <3>1, <3>2
  <2> QED BY <2>1 DEF OnWire
<1>8. Waits'
  <2>1. ASSUME NEW x \in late PROVE WasSent(x)' /\ NotGot(x)'
    BY <1>2, <1>5 DEF Once, Waits
  <2> QED BY <1>1, <1>2, <1>5, <2>1 DEF Waits
<1>9. Given' BY <1>2 DEF Once, Given
<1> QED BY <1>7, <1>8, <1>9 DEF Once

\* ... and writes it to the channel.
LEMMA LateOnce ==
  ASSUME TypeOK, Once, NEW m \in late, NEW f \in Frame, f.cmd = "data",
         Item(f) = m,
         \/ wire'["client"] = wire["client"]
         \/ wire'["client"] = Append(wire["client"], f),
         late' = late \ {m}, UNCHANGED <<sent, got>>
  PROVE  Once'
<1> DEFINE v == wire["client"]
           w == wire'["client"]
<1>1. v \in Seq(Frame) BY DEF TypeOK, Ends
<1>3. ASSUME NEW x
      PROVE  /\ WasSent(x) => WasSent(x)'
             /\ NotGot(x) => NotGot(x)'
             /\ NotLate(x) => NotLate(x)'
  BY DEF WasSent, NotGot, NotLate
<1>4. /\ WasSent(m) /\ NotGot(m)
      /\ \A i \in Datas(v) : Item(v[i]) # m
  BY DEF Once, OnWire, Waits, NotLate
<1>5. NotLate(m)' BY DEF NotLate
<1>6. ASSUME NEW i \in Datas(w)
      PROVE  \/ i \in Datas(v) /\ w[i] = v[i]
             \/ i = Len(v) + 1 /\ w[i] = f /\ i \notin Datas(v)
  <2>1. /\ w = v \/ w = Append(v, f)
        /\ v \in Seq(Frame) /\ f \in Frame /\ f.cmd = "data"
    BY <1>1
  <2> HIDE DEF v, w
  <2> QED BY ONLY <2>1, i \in Datas(w), PutOnce
<1> HIDE DEF v, w
<1>7. OnWire'
  <2>1. ASSUME NEW i \in Datas(w), NEW x, x = Item(w[i])
        PROVE  /\ WasSent(x)' /\ NotGot(x)' /\ NotLate(x)'
               /\ \A j \in Datas(w) : Item(w[j]) = x => i = j
    <3>1. CASE i \in Datas(v) /\ w[i] = v[i]
      <4>1. /\ WasSent(x) /\ NotGot(x) /\ NotLate(x)
            /\ \A j \in Datas(v) : Item(v[j]) = x => i = j
        BY <2>1, <3>1 DEF Once, OnWire, v
      <4>2. x # m BY <1>4, <2>1, <3>1
      <4> QED BY <1>3, <1>6, <4>1, <4>2
    <3>2. CASE i = Len(v) + 1 /\ w[i] = f
      <4>1. x = m BY <2>1, <3>2
      <4>2. \A j \in Datas(w) : Item(w[j]) = x => i = j
        BY <1>4, <1>6, <3>2, <4>1
      <4> QED BY <1>3, <1>4, <1>5, <4>1, <4>2
    <3> QED BY <1>6, <3>1, <3>2
  <2> QED BY <2>1 DEF OnWire, w
<1>8. Waits'
  <2>1. ASSUME NEW x \in late PROVE WasSent(x)' /\ NotGot(x)'
    BY <1>3 DEF Once, Waits
  <2> QED BY <2>1 DEF Waits
<1>9. Given' BY <1>3 DEF Once, Given
<1> QED BY <1>7, <1>8, <1>9 DEF Once

\* The client hands over what is at the head of its stream.
LEMMA PipeDataStraying ==
  ASSUME IInv, Straying, NEW e \in Ends, PipeData(e)
  PROVE  Straying'
<1> USE DEF IInv
<1>1. /\ UNCHANGED <<using, pc, sess, late, sent>>
      /\ Copying(e, "in") /\ pc[e] = "piping"
      /\ Incoming(e) /\ wire' = Taken(e)
  BY DEF PipeData, Copying
<1>2. CASE e = "server"
  <2>1. wire'["client"] = wire["client"]
    BY <1>1, <1>2, TakenKeeps DEF Peer
  <2>2. /\ got'["client"] = got["client"]
        /\ dir'["client"]["in"] = dir["client"]["in"]
    BY <1>2 DEF PipeData, EndCopyIn, TypeOK, Ends
  <2> QED BY <1>1, <2>1, <2>2, SameStraying
<1>3. CASE e = "client"
  <2> DEFINE v == wire["client"]
             m == Item(v[1])
  <2>1. /\ v \in Seq(Frame) /\ v # <<>> /\ wire'["client"] = Tail(v)
        /\ Len(v) \in Nat \ {0} /\ Head(v) = v[1]
        /\ \A i \in 1 .. Len(Tail(v)) :
             i + 1 \in 1 .. Len(v) /\ Tail(v)[i] = v[i + 1]
    BY <1>1, <1>3, TakenKeeps, TailFrames DEF TypeOK
  <2>2. v[1].cmd = "data" BY <1>3, <2>1 DEF PipeData
  <2>3. PICK s \in Session : s = sess /\ using["client"] = s
    BY <1>1, <1>3 DEF Named
  <2>4. Native(v, 0, s) BY <1>1, <1>3, <2>3 DEF Straying, Natives
  <2>5. v[1].sess \in Origin(s) /\ Native(wire'["client"], 0, s)
    BY <2>1, <2>2, <2>4, TailNative
  <2>6. CASE got' = got
    <3>1. Natives'
      BY <1>1, <1>3, <2>3, <2>5, <2>6, SameGot DEF Straying, Natives
    <3>2. Once' BY <1>1, <2>1, <2>6, SubOnce DEF Straying
    <3> QED BY <3>1, <3>2 DEF Straying
  <2>7. CASE got' = [got EXCEPT !["client"][s] = Append(@, m)]
    <3> DEFINE g == got["client"][s]
    <3>1. /\ got'["client"][s] = Append(g, m)
          /\ \A t \in Session \ {s} : got'["client"][t] = got["client"][t]
      BY <1>3, <2>7 DEF TypeOK
    <3>2. Once' BY <1>1, <2>1, <2>2, <3>1, GiveOnce DEF Straying
    <3>3. g \in Seq(Session \X (0 .. MaxData)) BY <1>3, Counts
    <3>4. /\ Len(Append(g, m)) = Len(g) + 1 /\ Append(g, m)[Len(g) + 1] = m
          /\ \A j \in 1 .. Len(g) : Append(g, m)[j] = g[j]
          /\ Len(g) \in Nat
      BY <3>3
    <3>5. m[1] \in Origin(s) BY <2>5 DEF Item
    <3>6. ASSUME NEW t \in Session, NEW k \in 1 .. Len(got'["client"][t])
          PROVE  got'["client"][t][k][1] \in Origin(t)
      <4>1. CASE t # s
        <5>1. got'["client"][t] = got["client"][t] BY <3>1, <4>1
        <5> QED BY <5>1 DEF Straying, Natives
      <4>2. CASE t = s
        <5> HIDE DEF g, m
        <5>1. got'["client"][t] = Append(g, m) BY <3>1, <4>2
        <5>2. k \in 1 .. Len(g) \/ k = Len(g) + 1 BY <3>4, <5>1
        <5>3. CASE k \in 1 .. Len(g)
          <6>1. g[k][1] \in Origin(s) BY <5>3 DEF Straying, Natives, g
          <6> QED BY <3>4, <4>2, <5>1, <5>3, <6>1
        <5>4. CASE k = Len(g) + 1 BY <3>4, <3>5, <4>2, <5>1, <5>4
        <5> QED BY <5>2, <5>3, <5>4
      <4> QED BY <4>1, <4>2
    <3>7. Natives' BY <1>1, <1>3, <2>3, <2>5, <3>6 DEF Natives
    <3> QED BY <3>2, <3>7 DEF Straying
  <2> QED BY <1>3, <2>1, <2>3, <2>6, <2>7 DEF PipeData, Item
<1> QED BY <1>2, <1>3 DEF Ends

\* The server's data is for the session the client has open or dials.
LEMMA PipeSendStraying ==
  ASSUME IInv, Private, Straying, NEW e \in Ends, PipeSend(e)
  PROVE  Straying'
<1> USE DEF IInv
<1>1. /\ UNCHANGED <<using, pc, sess, serving, late, got>>
      /\ pc[e] = "piping"
      /\ "server" \in Ends /\ "client" \in Ends /\ Peer("server") = "client"
      /\ Peer("client") = "server"
      /\ dir'["client"]["in"] = dir["client"]["in"]
  BY DEF PipeSend, Copying, Ends, Peer, TypeOK
<1>2. PICK s \in Session : s = using[e] BY <1>1, Sessions
<1> DEFINE n == sent[e][s]
           f == DataFrame(s, n + 1)
           v == wire["client"]
<1>3. n \in Nat /\ n < MaxData /\ n + 1 \in 0 .. MaxData
  BY <1>2, Counts, ChannelAssumption DEF PipeSend
<1>4. /\ \A c \in Ends, t \in Session :
           c # e \/ t # s => sent'[c][t] = sent[c][t]
      /\ sent'[e][s] = n + 1
      /\ sent'[Peer(e)] = sent[Peer(e)]
  BY <1>2, Peers DEF PipeSend, TypeOK
<1>5. /\ f \in Frame /\ f \in Frames(Peer(e)) /\ f.cmd = "data"
      /\ f.sess = s /\ Item(f) = <<s, n + 1>>
  BY <1>1, <1>3 DEF DataFrame, Frame, Frames, Commands, Session, Item
<1>6. WriteFrame(e, f) BY <1>2 DEF PipeSend
<1> HIDE DEF f
<1>7. CASE e = "client"
  <2>1. wire'["client"] = v BY <1>1, <1>5, <1>6, <1>7, WriteKeeps
  <2> QED BY <1>1, <1>4, <1>7, <2>1, SameStraying
<1>8. CASE e = "server"
  <2>1. v \in Seq(Frame) /\ Len(v) \in Nat
    <3>1. v \in Seq(Frame) BY <1>1 DEF TypeOK
    <3> QED BY <3>1
  <2>2. wire'["client"] = v \/ wire'["client"] = Append(v, f)
    BY <1>1, <1>5, <1>6, <1>8, WriteKeeps
  <2>3. s = serving /\ s \notin Udpgw
    BY <1>1, <1>2, <1>8 DEF Named, PipeSend, ByUdpgw
  <2>5. Once'
    <3>1. \A t \in Session : sent'["server"][t] =
            IF t = s THEN sent["server"][t] + 1 ELSE sent["server"][t]
      BY <1>1, <1>4, <1>8
    <3>2. Item(f) = <<s, sent["server"][s] + 1>> BY <1>5, <1>8
    <3> QED BY <1>1, <1>5, <2>2, <3>1, <3>2, SendOnce DEF Straying
  <2>6. s \in Origin(s) BY DEF Origin
  <2>7. ASSUME Copying("client", "in") PROVE Native(wire'["client"], 0, sess)
    <3>1. sess = s BY <2>3, <2>7 DEF Order, Served, Copying
    <3>2. Native(v, 0, s) BY <2>7, <3>1 DEF Straying, Natives
    <3>3. 0 \in 0 .. Len(v) BY <2>1
    <3>4. Native(Append(v, f), 0, s)
      BY <1>5, <2>1, <2>6, <3>2, <3>3, AppendNative
    <3> QED BY <2>2, <3>1, <3>2, <3>4
  <2>8. ASSUME pc["client"] = "dialing", NEW i \in Answers',
               wire'["client"][i].cmd = "ok"
        PROVE  Native(wire'["client"], i, sess)
    <3>1. i \in Answers /\ wire["client"][i].cmd = "ok"
      <4>1. CASE wire'["client"] = v BY <2>8, <4>1 DEF Answers
      <4>2. CASE wire'["client"] = Append(v, f)
        <5>1. i \in 1 .. Len(wire'["client"]) BY DEF Answers
        <5>2. i # Len(v) + 1 BY <1>5, <2>1, <2>8, <4>2, AppendFrames
        <5>3. i \in 1 .. Len(v) BY <1>5, <2>1, <4>2, <5>1, <5>2, AppendFrames
        <5>4. v[i] = wire'["client"][i] BY <1>5, <2>1, <4>2, <5>3, AppendFrames
        <5> QED BY <2>8, <5>3, <5>4 DEF Answers
      <4> QED BY <2>2, <4>1, <4>2
    <3>2. sess = s BY <2>3, <2>8, <3>1 DEF Order, OneDial
    <3>3. Native(v, i, s) BY <2>8, <3>1, <3>2 DEF Straying, Natives
    <3>4. i \in 0 .. Len(v) BY <3>1 DEF Answers
    <3>5. Native(Append(v, f), i, s)
      BY <1>5, <2>1, <2>6, <3>3, <3>4, AppendNative
    <3> QED BY <2>2, <3>2, <3>3, <3>5
  <2>9. Natives' BY <1>1, <2>7, <2>8, SameGot DEF Straying, Natives, Copying
  <2> QED BY <2>5, <2>9 DEF Straying
<1> QED BY <1>7, <1>8 DEF Ends

\* A gateway reads a datagram (udpgw.go:172-177), in its session or later.
LEMMA UdpgwReadStraying ==
  ASSUME IInv, Straying, NEW s \in Session, UdpgwRead(s)
  PROVE  Straying'
<1> USE DEF IInv
<1>1. /\ UNCHANGED <<wire, pc, sess, dir, got>>
      /\ late' = late \cup {<<s, sent["server"][s] + 1>>}
      /\ "server" \in Ends
      /\ sent' = [sent EXCEPT !["server"][s] = @ + 1]
  BY DEF UdpgwRead, outer, Ends
<1>3. \A t \in Session : sent'["server"][t] =
        IF t = s THEN sent["server"][t] + 1 ELSE sent["server"][t]
  BY <1>1 DEF TypeOK
<1>4. Once' BY <1>1, <1>3, WaitOnce DEF Straying
<1>5. Natives'
  BY <1>1, SameGot DEF Straying, Natives, Copying, Answers
<1> QED BY <1>4, <1>5 DEF Straying

\* ... and writes it (udpgw.go:160-183), into any session from its own on.
LEMMA UdpgwWriteStraying ==
  ASSUME IInv, Private, Straying, NEW m \in late, UdpgwWrite(m)
  PROVE  Straying'
<1> USE DEF IInv
<1> DEFINE f == DataFrame(m[1], m[2])
           v == wire["client"]
<1>1. /\ UNCHANGED <<pc, sess, serving, dir, sent, got>>
      /\ late' = late \ {m} /\ m[1] \in Udpgw /\ m[1] <= serving
      /\ "client" \in Ends /\ "server" \in Ends /\ Peer("server") = "client"
  BY DEF UdpgwWrite, outer, history, Ends, Peer, Private, Stray
<1>3. /\ f \in Frame /\ f \in Frames("client") /\ f.cmd = "data"
      /\ f.sess = m[1] /\ m[1] \in Session /\ Item(f) = m
  BY LateFrame DEF Item
<1>4. WriteFrame("server", f) BY DEF UdpgwWrite
<1>5. v \in Seq(Frame) /\ Len(v) \in Nat
  <2>1. v \in Seq(Frame) BY <1>1 DEF TypeOK
  <2> QED BY <2>1
<1> HIDE DEF f
<1>6. wire'["client"] = v \/ wire'["client"] = Append(v, f)
  BY <1>1, <1>3, <1>4, WriteKeeps
<1>7. Once' BY <1>1, <1>3, <1>6, LateOnce DEF Straying
<1>8. m[1] \in Origin(sess)
  <2>1. m[1] \in Nat /\ 1 <= m[1] /\ serving \in Nat /\ sess \in Nat
    BY <1>3 DEF TypeOK, Session
  <2>2. m[1] \in 1 .. sess BY <1>1, <2>1 DEF Private, InTurn
  <2> QED BY <1>1, <2>2 DEF Origin
<1>9. ASSUME NEW b \in 0 .. Len(v), Native(v, b, sess)
      PROVE  Native(wire'["client"], b, sess)
  BY <1>3, <1>5, <1>6, <1>8, <1>9, AppendNative
<1>10. ASSUME NEW i \in Answers', wire'["client"][i].cmd = "ok"
       PROVE  i \in Answers /\ wire["client"][i].cmd = "ok"
  <2>1. CASE wire'["client"] = v BY <1>10, <2>1 DEF Answers
  <2>2. CASE wire'["client"] = Append(v, f)
    <3>1. i \in 1 .. Len(wire'["client"]) BY DEF Answers
    <3>2. i # Len(v) + 1 BY <1>3, <1>5, <1>10, <2>2, AppendFrames
    <3>3. i \in 1 .. Len(v) BY <1>3, <1>5, <2>2, <3>1, <3>2, AppendFrames
    <3>4. v[i] = wire'["client"][i] BY <1>3, <1>5, <2>2, <3>3, AppendFrames
    <3> QED BY <1>10, <3>3, <3>4 DEF Answers
  <2> QED BY <1>6, <2>1, <2>2
<1>11. Natives'
  <2>1. ASSUME Copying("client", "in") PROVE Native(wire'["client"], 0, sess)
    <3>1. 0 \in 0 .. Len(v) BY <1>5
    <3> QED BY <1>9, <2>1, <3>1 DEF Straying, Natives
  <2>2. ASSUME pc["client"] = "dialing", NEW i \in Answers',
               wire'["client"][i].cmd = "ok"
        PROVE  Native(wire'["client"], i, sess)
    <3>1. i \in Answers /\ wire["client"][i].cmd = "ok" BY <1>10, <2>2
    <3>2. i \in 0 .. Len(v) BY <3>1 DEF Answers
    <3> QED BY <1>9, <2>2, <3>1, <3>2 DEF Straying, Natives
  <2> QED BY <1>1, <2>1, <2>2, SameGot DEF Straying, Natives, Copying
<1> QED BY <1>7, <1>11 DEF Straying

LEMMA InitStraying == Init => Straying
<1> SUFFICES ASSUME Init PROVE Straying OBVIOUS
<1>1. /\ wire["client"] = <<>> /\ Len(wire["client"]) = 0 /\ late = {}
      /\ pc["client"] = "idle"
      /\ \A s \in Session :
           got["client"][s] = <<>> /\ Len(got["client"][s]) = 0
  BY DEF Init, Ends
<1>2. Natives BY <1>1 DEF Natives, Copying
<1>3. Datas(wire["client"]) = {} BY <1>1 DEF Datas
<1>4. Once BY <1>1, <1>3 DEF Once, OnWire, Waits, Given
<1> QED BY <1>2, <1>4 DEF Straying

LEMMA NextStraying == IInv /\ Private /\ Straying /\ [Next]_vars => Straying'
<1> SUFFICES ASSUME IInv, Private, Straying, [Next]_vars PROVE Straying'
  OBVIOUS
<1>1. CASE ClientNext
  BY <1>1, ClientDialStraying, ClientBackStraying, ClientQuiet, QuietStraying
  DEF ClientNext
<1>2. CASE ServerNext
  <2>1. CASE ServerReadDial
    <3>1. wire'["client"] = wire["client"]
      BY <2>1, TakenKeeps DEF ServerReadDial, IInv, Ends, Peer
    <3>2. /\ UNCHANGED <<sess, dir, late, sent, got>>
          /\ pc'["client"] = pc["client"]
      BY <2>1 DEF ServerReadDial, history, Goto, IInv, TypeOK, Ends
    <3> QED BY <3>1, <3>2, SameStraying
  <2> QED BY <1>2, <2>1, ServerAcceptStraying, ServerQuiet, QuietStraying
          DEF ServerNext
<1>3. ASSUME NEW e \in Ends, PipeNext(e) PROVE Straying'
  BY <1>3, PipeDataStraying, PipeSendStraying, PipeQuiet, QuietStraying
  DEF PipeNext
<1>4. CASE (\E s \in Session : UdpgwRead(s)) \/ \E m \in late : UdpgwWrite(m)
  BY <1>4, UdpgwReadStraying, UdpgwWriteStraying
<1>5. CASE Outside BY <1>5, OutsideQuiet, QuietStraying
<1>6. CASE UNCHANGED vars BY <1>6, SameStraying DEF vars
<1> QED BY <1>1, <1>2, <1>3, <1>4, <1>5, <1>6 DEF Next

\* The datagrams of the gateways (udpgw.go:143-183) are all that crosses
\* sessions, whatever sessions are gateways': at the server nothing does, at
\* the client nothing up to the first gateway's session; from there on a user
\* gets what was written for his session or for a gateway's up to it, all of
\* it sent, and no message twice, in one session or in two.
THEOREM OnlyDatagramsStray == Spec => []StrayOnlyUdpgw
<1>1. Private /\ Straying => StrayOnlyUdpgw
  <2> SUFFICES ASSUME Private, Straying PROVE StrayOnlyUdpgw OBVIOUS
  <2>1. \A e \in Ends, s \in Session : Sealed(e, s) => Exact(e, s)
    BY DEF Private, Isolated
  <2>2. \A s \in Session : \A i \in 1 .. Len(got["client"][s]) :
          LET m == got["client"][s][i] IN
          m[1] \in {s} \cup (Udpgw \cap 1 .. s)
          /\ m[2] \in 1 .. sent["server"][m[1]]
    BY DEF Straying, Natives, Origin, Once, Given, WasSent
  <2>3. \A s, t \in Session :
          \A i \in 1 .. Len(got["client"][s]), j \in 1 .. Len(got["client"][t]) :
            got["client"][s][i] = got["client"][t][j] => s = t /\ i = j
    BY DEF Straying, Once, Given
  <2> QED BY <2>1, <2>2, <2>3 DEF StrayOnlyUdpgw
<1> QED BY <1>1, InitPrivate, NextPrivate, InitStraying, NextStraying, SpecIInv,
           PTL DEF Spec

-----------------------------------------------------------------------------
(***************************************************************************)
(* The refinement of Tunnel.                                               *)
(***************************************************************************)

\* The server has accepted what it copies, and what it answered with "ok".
Accepted ==
  /\ Heard
  /\ pc["server"] = "piping" => serving \in accepted
  /\ pc["client"] = "dialing" =>
       \A i \in Answers : wire["client"][i].cmd = "ok" => serving \in accepted

LEMMA QuietAccepted ==
  ASSUME IInv, Accepted, Quiet
  PROVE  Accepted'
<1>1. PICK k \in {0, 1} : \A i \in 1 .. Len(wire'["client"]) :
           \/ wire'["client"][i].cmd \in {"refused", "close"}
           \/ i + k \in 1 .. Len(wire["client"])
              /\ wire'["client"][i] = wire["client"][i + k]
  BY QuietFrames DEF IInv, Quiet, Ends
<1>2. ASSUME NEW i \in Answers', wire'["client"][i].cmd = "ok"
      PROVE  i + k \in Answers /\ wire["client"][i + k].cmd = "ok"
  <2>1. i \in 1 .. Len(wire'["client"]) BY DEF Answers
  <2> QED BY <1>1, <1>2, <2>1 DEF Answers
<1> QED BY <1>2 DEF Accepted, Heard, Quiet

\* The phases of Tunnel, and its steps in their terms.
SamePhases(e, s) ==
  /\ \A t \in Session : e # "client" \/ t # s => ClientPhase(t)' = ClientPhase(t)
  /\ \A t \in Session : e # "server" \/ t # s => ServerPhase(t)' = ServerPhase(t)

LEMMA ClientMove ==
  ASSUME NEW s \in Session, NEW from, NEW to,
         SamePhases("client", s), UNCHANGED <<sent, got>>,
         ClientPhase(s) = from, ClientPhase(s)' = to
  PROVE  TunnelOf!Move("client", s, from, to)
BY DEF TunnelOf!Move, SamePhases, Ends

LEMMA ServerMove ==
  ASSUME NEW s \in Session, NEW from, NEW to,
         SamePhases("server", s), UNCHANGED <<sent, got>>,
         ServerPhase(s) = from, ServerPhase(s)' = to
  PROVE  TunnelOf!Move("server", s, from, to)
BY DEF TunnelOf!Move, SamePhases, Ends

\* What Tunnel does not see.
LEMMA TunnelStays ==
  ASSUME UNCHANGED <<sent, got, sess, serving, accepted>>,
         \/ pc'["client"] = pc["client"]
         \/ {pc["client"], pc'["client"]} \subseteq {"dialing", "dropping"}
         \/ {pc["client"], pc'["client"]} \subseteq {"idle", "gone"},
         \/ pc'["server"] = pc["server"]
         \/ {pc["server"], pc'["server"]} \subseteq {"reading", "stopped"}
  PROVE  UNCHANGED TunnelOf!vars
<1>1. \A s \in Session : ClientPhase(s)' = ClientPhase(s)
  BY DEF ClientPhase
<1>2. \A s \in Session : ServerPhase(s)' = ServerPhase(s)
  BY DEF ServerPhase
<1> QED BY <1>1, <1>2 DEF TunnelOf!vars

TunnelStep == TunnelOf!Next \/ UNCHANGED TunnelOf!vars

LEMMA ClientDialTunnel ==
  ASSUME IInv, Private, Accepted, ClientDial
  PROVE  Accepted' /\ TunnelStep
<1>1. /\ UNCHANGED <<sent, got, serving, accepted>>
      /\ sess' = sess + 1 /\ pc["client"] = "idle" /\ sess < MaxSession
      /\ pc'["client"] \in {"gone", "dialing"} /\ pc'["server"] = pc["server"]
  BY DEF ClientDial, outer, history, Goto, IInv, TypeOK, Ends
<1>2. sess \in 0 .. MaxSession BY DEF IInv, TypeOK
<1>3. PICK s \in Session : s = sess + 1
  BY <1>1, <1>2, ChannelAssumption DEF Session
<1>4. Answers' = {}
  <2>1. Answers = {} BY <1>1 DEF IInv, Order, NoDial
  <2>2. DialFrame(sess + 1) \in Frames("server")
    BY <1>3, ChannelAssumption
    DEF DialFrame, Frame, Frames, Commands, Session
  <2>3. wire'["client"] = wire["client"]
    BY <2>2, WriteKeeps DEF IInv, ClientDial, Ends, Peer
  <2> QED BY <2>1, <2>3 DEF Answers
<1>5. Accepted' BY <1>1, <1>4 DEF Accepted, Heard
<1>6. TunnelOf!Dial(s)
  <2>1. \A t \in Session : ClientPhase(t) = IF t > sess THEN "new" ELSE "over"
    BY <1>1 DEF ClientPhase
  <2>2. \A t \in Session : t \in Nat BY DEF Session
  <2>3. \A t \in Session : t # s => ClientPhase(t)' = ClientPhase(t)
    BY <1>1, <1>2, <1>3, <2>1, <2>2 DEF ClientPhase
  <2>4. \A t \in Session : ServerPhase(t)' = ServerPhase(t)
    BY <1>1 DEF ServerPhase
  <2>5. ClientPhase(s) = "new" /\ ClientPhase(s)' \in {"dialing", "over"}
    BY <1>1, <1>2, <1>3, <2>1 DEF ClientPhase
  <2>6. \E to \in {"dialing", "over"} : TunnelOf!Move("client", s, "new", to)
    BY <1>1, <1>3, <2>3, <2>4, <2>5, ClientMove DEF SamePhases
  <2>7. ~TunnelOf!Busy("client")
    BY <2>1 DEF TunnelOf!Busy, TunnelOf!Session, Session, Ends
  <2>8. \A t \in Session : ClientPhase(t) = "new" <=> t >= s
    BY <1>2, <1>3, <2>1, <2>2
  <2> QED BY <2>6, <2>7, <2>8
          DEF TunnelOf!Dial, TunnelOf!Session, Session, Ends
<1> QED BY <1>3, <1>5, <1>6
        DEF TunnelStep, TunnelOf!Next, TunnelOf!Session, Session

LEMMA ClientBackTunnel ==
  ASSUME IInv, Private, Accepted, ClientBack
  PROVE  Accepted' /\ TunnelStep
<1>1. /\ UNCHANGED <<sent, got, serving, sess, accepted>>
      /\ pc["client"] = "dialing" /\ pc'["server"] = pc["server"]
      /\ pc'["client"] \in {"idle", "piping"}
      /\ pc'["client"] = "piping" => Head(wire["client"]).cmd = "ok"
  BY DEF ClientBack, history, Goto, IInv, TypeOK, Ends
<1>2. /\ wire["client"] \in Seq(Frame) /\ wire["client"] # <<>>
      /\ Head(wire["client"]) \in Frames("client")
  BY TakenKeeps DEF IInv, TypeOK, ClientBack, Incoming, Ends
<1>3. 1 \in Answers /\ Head(wire["client"]) = wire["client"][1]
  <2>1. Head(wire["client"]) = wire["client"][1]
        /\ Len(wire["client"]) \in Nat \ {0}
    BY <1>2, TailFrames
  <2>2. Head(wire["client"]).cmd \in {"ok", "refused"}
    BY <1>2 DEF ClientBack, Frames
  <2> QED BY <2>1, <2>2 DEF Answers
<1>4. serving = sess /\ sess \in Session /\ pc["server"] # "dialing"
  BY <1>1, <1>3, Sessions DEF IInv, Order, OneDial
<1>5. Accepted' BY <1>1 DEF Accepted, Heard
<1>6. PICK s \in Session : s = sess BY <1>4
<1>7. SamePhases("client", s)
  BY <1>1, <1>6 DEF SamePhases, ClientPhase, ServerPhase
<1>8. ClientPhase(s) = "dialing"
  BY <1>1, <1>6 DEF ClientPhase, Session
<1>9. CASE pc'["client"] = "piping"
  <2>1. s \in accepted BY <1>1, <1>3, <1>4, <1>6, <1>9 DEF Accepted, Heard
  <2>2. ServerPhase(s) \in {"open", "over"}
    BY <1>4, <1>6, <2>1 DEF ServerPhase, Session, IInv, TypeOK, ServerPC
  <2>3. ClientPhase(s)' = "open" BY <1>1, <1>6, <1>9 DEF ClientPhase, Session
  <2>4. TunnelOf!Move("client", s, "dialing", "open")
    BY <1>1, <1>7, <1>8, <2>3, ClientMove
  <2>5. TunnelOf!Open(s) BY <2>2, <2>4 DEF TunnelOf!Open, Ends
  <2> QED BY <1>5, <2>5
          DEF TunnelStep, TunnelOf!Next, TunnelOf!Session, Session
<1>10. CASE pc'["client"] = "idle"
  <2>1. ClientPhase(s)' = "over" BY <1>1, <1>6, <1>10 DEF ClientPhase, Session
  <2>2. TunnelOf!Move("client", s, "dialing", "over")
    BY <1>1, <1>7, <1>8, <2>1, ClientMove
  <2> QED BY <1>5, <2>2
          DEF TunnelStep, TunnelOf!Next, TunnelOf!Fail, TunnelOf!Session, Session
<1> QED BY <1>1, <1>9, <1>10

\* The client gives up a dial, or a session.
LEMMA ClientEndsTunnel ==
  ASSUME IInv, ClientBackFails \/ ClientDrop \/ ClientPipeEnd
  PROVE  TunnelStep
<1>1. /\ UNCHANGED <<sent, got, serving, sess, accepted>>
      /\ pc'["server"] = pc["server"]
      /\ \/ /\ pc["client"] \in {"dialing", "dropping"}
            /\ pc'["client"] \in {"gone", "dropping"}
         \/ pc["client"] = "piping" /\ pc'["client"] \in {"gone", "idle"}
      /\ pc["client"] = "dropping" => pc'["client"] = "gone"
  BY DEF ClientBackFails, ClientDrop, ClientPipeEnd, PipeDone, outer, history,
         Goto, IInv, TypeOK, Ends
<1>2. CASE pc'["client"] = "dropping"
  BY <1>1, <1>2, TunnelStays DEF TunnelStep
<1>3. ASSUME NEW s \in Session, s = sess, NEW from,
             ClientPhase(s) = from, ClientPhase(s)' = "over"
      PROVE  TunnelOf!Move("client", s, from, "over")
  <2>1. SamePhases("client", s)
    BY <1>1, <1>3 DEF SamePhases, ClientPhase, ServerPhase
  <2> QED BY <1>1, <1>3, <2>1, ClientMove
<1>4. CASE pc["client"] = "piping"
  <2>1. PICK s \in Session : s = sess BY <1>4 DEF IInv, Named
  <2>2. ClientPhase(s) = "open" /\ ClientPhase(s)' = "over"
    BY <1>1, <1>4, <2>1 DEF ClientPhase, Session
  <2>3. TunnelOf!Move("client", s, "open", "over") BY <1>3, <2>1, <2>2
  <2> QED BY <2>3
          DEF TunnelStep, TunnelOf!Next, TunnelOf!End, TunnelOf!Session,
              TunnelOf!Ends, Session
<1>5. CASE pc["client"] \in {"dialing", "dropping"} /\ pc'["client"] = "gone"
  <2>1. CASE sess \in Session
    <3>1. PICK s \in Session : s = sess BY <2>1
    <3>2. ClientPhase(s) = "dialing" /\ ClientPhase(s)' = "over"
      BY <1>1, <1>5, <3>1 DEF ClientPhase, Session
    <3>3. TunnelOf!Move("client", s, "dialing", "over") BY <1>3, <3>1, <3>2
    <3> QED BY <3>3
            DEF TunnelStep, TunnelOf!Next, TunnelOf!Fail, TunnelOf!Session,
                Session
  <2>2. CASE sess \notin Session
    <3>1. \A t \in Session : t # sess BY <2>2
    <3>2. \A t \in Session : ClientPhase(t)' = ClientPhase(t)
                             /\ ServerPhase(t)' = ServerPhase(t)
      BY <1>1, <3>1 DEF ClientPhase, ServerPhase
    <3> QED BY <1>1, <3>2 DEF TunnelStep, TunnelOf!vars
  <2> QED BY <2>1, <2>2
<1> QED BY <1>1, <1>2, <1>4, <1>5

LEMMA ServerReadDialTunnel ==
  ASSUME IInv, Private, Accepted, ServerReadDial
  PROVE  Accepted' /\ TunnelStep
<1>1. /\ UNCHANGED <<sent, got, sess, accepted>>
      /\ pc["server"] = "reading" /\ pc'["server"] = "dialing"
      /\ pc'["client"] = pc["client"]
      /\ serving' = Head(wire["server"]).sess
  BY DEF ServerReadDial, outer, history, Goto, IInv, TypeOK, Ends
<1>2. /\ wire["server"] \in Seq(Frame) /\ wire["server"] # <<>>
      /\ Head(wire["server"]) \in Frames("server")
      /\ wire'["client"] = wire["client"]
  BY TakenKeeps DEF IInv, TypeOK, ServerReadDial, Incoming, Ends, Peer
<1>3. 1 \in Dials /\ Head(wire["server"]) = wire["server"][1]
  BY <1>2, TailFrames DEF ServerReadDial, Dials
<1>4. /\ serving' = sess /\ sess = serving + 1
      /\ pc["client"] = "dialing" => Answers = {}
  BY <1>1, <1>3 DEF Private, InTurn, IInv, Order, OneDial
<1>5. serving \in Nat /\ sess \in Nat BY DEF IInv, TypeOK
<1>6. PICK s \in Session : s = sess
  BY <1>1, <1>2, <1>4 DEF Frames, ServerReadDial
<1>7. \A t \in accepted : t \in Nat /\ t <= serving
  BY DEF IInv, TypeOK, Session, Accepted, Heard
<1>8. Accepted'
  <2>1. Answers' = Answers BY <1>2 DEF Answers
  <2>2. \A t \in accepted : t <= serving' BY <1>4, <1>5, <1>7
  <2>3. serving' \notin accepted BY <1>4, <1>5, <1>7
  <2> QED BY <1>1, <1>4, <2>1, <2>2, <2>3 DEF Accepted, Heard
<1>9. \A t \in Session : t \in Nat BY DEF Session
<1>10. SamePhases("server", s)
  <2>1. \A t \in Session : t # s => ServerPhase(t)' = ServerPhase(t)
    BY <1>1, <1>4, <1>5, <1>6, <1>9 DEF ServerPhase
  <2>2. \A t \in Session : ClientPhase(t)' = ClientPhase(t)
    BY <1>1 DEF ClientPhase
  <2> QED BY <2>1, <2>2 DEF SamePhases
<1>11. \A t \in Session :
         /\ t >= s => ServerPhase(t) = "new"
         /\ ServerPhase(t) \notin {"dialing", "open"}
  BY <1>1, <1>4, <1>5, <1>6, <1>9 DEF ServerPhase
<1>12. ServerPhase(s)' = "dialing"
  BY <1>1, <1>4, <1>5, <1>6, <1>9 DEF ServerPhase
<1>13. ClientPhase(s) # "new"
  <2>1. ~(s > sess) BY <1>5, <1>6
  <2> QED BY <2>1 DEF ClientPhase
<1>14. TunnelOf!Hear(s)
  <2>1. s >= s BY <1>9
  <2>2. TunnelOf!Move("server", s, "new", "dialing")
    BY <1>1, <1>10, <1>11, <1>12, <2>1, ServerMove
  <2>3. ~TunnelOf!Busy("server")
    BY <1>11 DEF TunnelOf!Busy, TunnelOf!Session, Session, Ends
  <2>4. \A t \in Session : t > s => ServerPhase(t) = "new" BY <1>9, <1>11
  <2> QED BY <1>13, <2>2, <2>3, <2>4
          DEF TunnelOf!Hear, TunnelOf!Session, Session, Ends
<1> QED BY <1>8, <1>14 DEF TunnelStep, TunnelOf!Next, TunnelOf!Session, Session

LEMMA ServerAcceptTunnel ==
  ASSUME IInv, Private, Accepted, ServerAccept
  PROVE  Accepted' /\ TunnelStep
<1>1. /\ UNCHANGED <<sent, got, sess, serving>>
      /\ pc["server"] = "dialing" /\ pc'["server"] = "piping"
      /\ pc'["client"] = pc["client"]
      /\ accepted' = accepted \cup {serving}
  BY DEF ServerAccept, outer, Goto, IInv, TypeOK, Ends
<1>2. PICK s \in Session : s = serving BY <1>1, Sessions
<1>3. serving \notin accepted BY <1>1 DEF Accepted, Heard
<1>4. serving \in Nat BY <1>2 DEF Session
<1>5. Accepted' BY <1>1, <1>4 DEF Accepted, Heard
<1>6. SamePhases("server", s)
  BY <1>1, <1>2 DEF SamePhases, ClientPhase, ServerPhase
<1>7. ServerPhase(s) = "dialing" /\ ServerPhase(s)' = "open"
  BY <1>1, <1>2, <1>4 DEF ServerPhase
<1>8. TunnelOf!Move("server", s, "dialing", "open")
  BY <1>1, <1>6, <1>7, ServerMove
<1> QED BY <1>5, <1>8
        DEF TunnelStep, TunnelOf!Next, TunnelOf!Accept, TunnelOf!Session,
            Session

\* The server refuses, ends a session, or stops.
LEMMA ServerEndsTunnel ==
  ASSUME IInv, Accepted, ServerStop \/ ServerRefuse \/ ServerPipeEnd
  PROVE  TunnelStep
<1>1. /\ UNCHANGED <<sent, got, sess, serving, accepted>>
      /\ pc'["client"] = pc["client"]
      /\ pc["server"] \in {"reading", "dialing", "piping"}
      /\ pc'["server"] \in {"reading", "stopped"}
  BY DEF ServerStop, ServerRefuse, ServerPipeEnd, PipeDone, outer, history,
         Goto, IInv, TypeOK, Ends
<1>2. CASE pc["server"] = "reading"
  BY <1>1, <1>2, TunnelStays DEF TunnelStep
<1>3. CASE pc["server"] # "reading"
  <2>1. PICK s \in Session : s = serving BY <1>1, <1>3, Sessions DEF IInv, Named
  <2>2. s <= serving /\ ~(s < serving) BY <2>1 DEF Session
  <2>3. SamePhases("server", s)
    BY <1>1, <1>3, <2>1 DEF SamePhases, ClientPhase, ServerPhase
  <2>4. CASE pc["server"] = "dialing"
    <3>1. ServerPhase(s) = "dialing" /\ ServerPhase(s)' = "refused"
      BY <1>1, <2>1, <2>2, <2>4 DEF ServerPhase, Accepted, Heard
    <3>2. TunnelOf!Move("server", s, "dialing", "refused")
      BY <1>1, <2>3, <3>1, ServerMove
    <3> QED BY <3>2
            DEF TunnelStep, TunnelOf!Next, TunnelOf!Refuse, TunnelOf!Session,
                Session
  <2>5. CASE pc["server"] = "piping"
    <3>1. ServerPhase(s) = "open" /\ ServerPhase(s)' = "over"
      BY <1>1, <2>1, <2>2, <2>5 DEF ServerPhase, Accepted, Heard
    <3>2. TunnelOf!Move("server", s, "open", "over")
      BY <1>1, <2>3, <3>1, ServerMove
    <3> QED BY <3>2
            DEF TunnelStep, TunnelOf!Next, TunnelOf!End, TunnelOf!Session,
                TunnelOf!Ends, Session
  <2> QED BY <1>1, <1>3, <2>4, <2>5
<1> QED BY <1>2, <1>3

\* An end that copies has its session open.
LEMMA OpenPhase ==
  ASSUME IInv, NEW e \in Ends, NEW s \in Session, pc[e] = "piping", s = using[e]
  PROVE  IF e = "client" THEN ClientPhase(s) = "open" ELSE ServerPhase(s) = "open"
<1>1. CASE e = "client"
  BY <1>1 DEF IInv, Named, ClientPhase, Session
<1>2. CASE e = "server" BY <1>2 DEF IInv, Named, ServerPhase, Session
<1> QED BY <1>1, <1>2 DEF Ends

LEMMA PipeDataTunnel ==
  ASSUME IInv, Private, Private', Straying, Straying', NEW e \in Ends,
         PipeData(e)
  PROVE  TunnelStep
<1>1. /\ UNCHANGED <<sent, sess, serving, accepted, pc>>
      /\ pc[e] = "piping"
  BY DEF PipeData, Copying
<1>2. CASE got' = got BY <1>1, <1>2, TunnelStays DEF TunnelStep
<1>3. CASE got' # got
  <2>1. PICK s \in Session : s = using[e] BY <1>1, Sessions
  <2>2. PICK a, b : got' = [got EXCEPT ![e][s] = Append(@, <<a, b>>)]
    BY <1>3, <2>1 DEF PipeData
  <2> DEFINE m == <<a, b>>
  <2>3. got \in [Ends -> [Session -> Seq(Session \X (0 .. MaxData))]]
    BY DEF IInv, TypeOK
  <2> DEFINE g == got[e][s]
  <2>4. g \in Seq(Session \X (0 .. MaxData)) /\ Len(g) \in Nat
    BY Counts DEF IInv
  <2>5. /\ got'[e][s] = Append(g, m)
        /\ \A t \in Session \ {s} : got'[e][t] = got[e][t]
    BY <2>2, <2>3
  <2>6. /\ Len(Append(g, m)) = Len(g) + 1 /\ Append(g, m)[Len(g) + 1] = m
        /\ \A i \in 1 .. Len(g) : Append(g, m)[i] = g[i]
    BY <2>4
  <2>7. /\ \A t \in Session : ClientPhase(t)' = ClientPhase(t)
        /\ \A t \in Session : ServerPhase(t)' = ServerPhase(t)
    BY <1>1 DEF ClientPhase, ServerPhase
  <2>8. Len(g) + 1 \in 1 .. Len(got'[e][s]) /\ got'[e][s][Len(g) + 1] = m
    BY <2>4, <2>5, <2>6
  <2>9. CASE Sealed(e, s)
    <3>1. m = <<s, Len(g) + 1>> /\ Len(g) + 1 <= sent[Peer(e)][s]
      <4>1. /\ Len(got'[e][s]) <= sent[Peer(e)][s]
            /\ \A i \in 1 .. Len(got'[e][s]) : got'[e][s][i] = <<s, i>>
        BY <1>1, <2>9 DEF Private, Isolated, Exact, Sealed
      <4> QED BY <2>5, <2>6, <2>8, <4>1
    <3>2. sent[Peer(e)][s] \in Nat BY Counts DEF IInv
    <3>3. Len(g) < sent[Peer(e)][s] BY <2>4, <3>1, <3>2
    <3>4. e = "server" \/ TunnelOf!Foreign(s) = {}
      BY <2>9 DEF Sealed, TunnelOf!Foreign
    <3>5. TunnelOf!Receive(e, s)
      BY <1>1, <2>1, <2>2, <2>7, <3>1, <3>3, <3>4, OpenPhase
      DEF TunnelOf!Receive, TunnelOf!Peer, Peer
    <3> QED BY <3>5
            DEF TunnelStep, TunnelOf!Next, TunnelOf!Session, TunnelOf!Ends,
                Session, Ends
  <2>10. CASE ~Sealed(e, s)
    <3>1. e = "client" /\ TunnelOf!Foreign(s) # {}
      BY <2>10 DEF Sealed, TunnelOf!Foreign, Ends
    <3>2. PICK k : /\ k = Len(g) + 1 /\ k \in 1 .. Len(got'["client"][s])
                   /\ got'["client"][s][k] = m
      BY <2>8, <3>1
    <3>3. /\ a \in Origin(s) /\ a \in Session /\ b \in 1 .. sent["server"][a]
          /\ \A t \in Session : \A l \in 1 .. Len(got'["client"][t]) :
               got'["client"][t][l] = m => s = t /\ k = l
      <4>1. m[1] = a /\ m[2] = b OBVIOUS
      <4> HIDE DEF m, g
      <4>2. m[1] \in Origin(s) BY <3>2 DEF Straying, Natives
      <4>3. /\ WasSent(m)'
            /\ \A t \in Session : \A l \in 1 .. Len(got'["client"][t]) :
                 got'["client"][t][l] = m => s = t /\ k = l
        BY <3>2 DEF Straying, Once, Given
      <4> QED BY <1>1, <4>1, <4>2, <4>3 DEF WasSent
    <3>4. ~TunnelOf!Received(m)
      <4> SUFFICES ASSUME NEW t \in Session, NEW i \in 1 .. Len(got["client"][t]),
                          got["client"][t][i] = m
                   PROVE  FALSE
        BY DEF TunnelOf!Received, TunnelOf!Session, Session
      <4>1. CASE t # s BY <2>5, <3>1, <3>3, <4>1
      <4>2. CASE t = s
        <5>1. i \in 1 .. Len(g) /\ i # k BY <2>4, <3>1, <3>2, <4>2
        <5>2. i \in 1 .. Len(got'[e][s]) /\ got'[e][s][i] = g[i]
          BY <2>4, <2>5, <2>6, <5>1
        <5> QED BY <3>1, <3>3, <4>2, <5>1, <5>2
      <4> QED BY <4>1, <4>2
    <3>5. a \in {s} \cup TunnelOf!Foreign(s)
      BY <3>3 DEF Origin, TunnelOf!Foreign
    <3>6. TunnelOf!ReceiveStray(s)
      BY <1>1, <2>1, <2>2, <2>7, <3>1, <3>3, <3>4, <3>5, OpenPhase
      DEF TunnelOf!ReceiveStray
    <3> QED BY <3>6 DEF TunnelStep, TunnelOf!Next, TunnelOf!Session, Session
  <2> QED BY <2>9, <2>10
<1> QED BY <1>2, <1>3

LEMMA PipeSendTunnel ==
  ASSUME IInv, NEW e \in Ends, PipeSend(e)
  PROVE  TunnelStep
<1>1. /\ UNCHANGED <<got, sess, serving, accepted, pc>>
      /\ pc[e] = "piping"
  BY DEF PipeSend, Copying
<1>2. PICK s \in Session : s = using[e] BY <1>1, Sessions
<1>3. sent' = [sent EXCEPT ![e][s] = @ + 1] /\ sent[e][s] < MaxData
  BY <1>2, StreamBound DEF PipeSend, IInv
<1>4. /\ \A t \in Session : ClientPhase(t)' = ClientPhase(t)
      /\ \A t \in Session : ServerPhase(t)' = ServerPhase(t)
  BY <1>1 DEF ClientPhase, ServerPhase
<1>5. TunnelOf!Send(e, s)
  BY <1>1, <1>2, <1>3, <1>4, OpenPhase DEF TunnelOf!Send
<1> QED BY <1>5
        DEF TunnelStep, TunnelOf!Next, TunnelOf!Session, TunnelOf!Ends,
            Session, Ends

\* A gateway's datagrams are sent when they are read, and nothing is seen of
\* the write.
LEMMA UdpgwTunnel ==
  ASSUME IInv, Accepted, (\E s \in Session : UdpgwRead(s)) \/ \E m \in late : UdpgwWrite(m)
  PROVE  Accepted' /\ TunnelStep
<1>1. ASSUME NEW s \in Session, UdpgwRead(s) PROVE Accepted' /\ TunnelStep
  <2>1. /\ UNCHANGED <<wire, got, sess, serving, accepted, pc>>
        /\ s \in Udpgw /\ s \in accepted /\ "server" \in Ends
    BY <1>1 DEF UdpgwRead, outer, Ends
  <2>2. /\ sent' = [sent EXCEPT !["server"][s] = @ + 1]
        /\ sent["server"][s] < MaxData
    BY <1>1 DEF UdpgwRead
  <2>3. /\ \A t \in Session : ClientPhase(t)' = ClientPhase(t)
        /\ \A t \in Session : ServerPhase(t)' = ServerPhase(t)
    BY <2>1 DEF ClientPhase, ServerPhase
  <2>4. ServerPhase(s) \in {"open", "over"}
    <3>1. /\ s <= serving /\ s \in Nat /\ serving \in Nat
          /\ ~(s = serving /\ pc["server"] = "dialing")
          /\ pc["server"] \in ServerPC
      BY <2>1 DEF Accepted, Heard, IInv, TypeOK, Session
    <3>2. CASE s = serving /\ pc["server"] = "piping"
      <4>1. s = using["server"] BY <3>2 DEF IInv, Named
      <4> QED BY <2>1, <3>2, <4>1, OpenPhase
    <3>3. CASE s < serving \/ pc["server"] \in {"reading", "stopped"}
      BY <2>1, <3>1, <3>3 DEF ServerPhase
    <3> QED BY <3>1, <3>2, <3>3 DEF ServerPC
  <2>5. TunnelOf!Send("server", s) \/ TunnelOf!SendLate(s)
    BY <2>1, <2>2, <2>3, <2>4 DEF TunnelOf!Send, TunnelOf!SendLate
  <2>6. TunnelStep
    BY <2>1, <2>5 DEF TunnelStep, TunnelOf!Next, TunnelOf!Session,
                      TunnelOf!Ends, Session, Ends
  <2>7. Accepted' BY <2>1 DEF Accepted, Heard, Answers
  <2> QED BY <2>6, <2>7
<1>2. ASSUME NEW m \in late, UdpgwWrite(m) PROVE Accepted' /\ TunnelStep
  <2> DEFINE f == DataFrame(m[1], m[2])
             v == wire["client"]
  <2>1. UNCHANGED <<sent, got, sess, serving, accepted, pc>>
    BY <1>2 DEF UdpgwWrite, history
  <2>2. "server" \in Ends /\ Peer("server") = "client" BY DEF Ends, Peer
  <2>3. f \in Frame /\ f \in Frames("client") /\ f.cmd = "data"
    BY LateFrame DEF IInv
  <2>4. v \in Seq(Frame) BY DEF IInv, TypeOK, Ends
  <2>5. WriteFrame("server", f) BY <1>2 DEF UdpgwWrite
  <2> HIDE DEF f
  <2>6. wire'["client"] = v \/ wire'["client"] = Append(v, f)
    BY <2>2, <2>3, <2>5, WriteKeeps DEF IInv
  <2>7. ASSUME NEW i \in Answers', wire'["client"][i].cmd = "ok"
        PROVE  i \in Answers /\ wire["client"][i].cmd = "ok"
    <3>1. CASE wire'["client"] = v BY <2>7, <3>1 DEF Answers
    <3>2. CASE wire'["client"] = Append(v, f)
      <4>1. i \in 1 .. Len(wire'["client"]) BY DEF Answers
      <4>2. i # Len(v) + 1 BY <2>3, <2>4, <2>7, <3>2, AppendFrames
      <4>3. i \in 1 .. Len(v) BY <2>3, <2>4, <3>2, <4>1, <4>2, AppendFrames
      <4>4. v[i] = wire'["client"][i] BY <2>3, <2>4, <3>2, <4>3, AppendFrames
      <4> QED BY <2>7, <4>3, <4>4 DEF Answers
    <3> QED BY <2>6, <3>1, <3>2
  <2>8. Accepted' BY <2>1, <2>7 DEF Accepted, Heard
  <2>9. TunnelStep BY <2>1, TunnelStays DEF TunnelStep
  <2> QED BY <2>8, <2>9
<1> QED BY <1>1, <1>2

LEMMA OtherTunnel ==
  ASSUME IInv,
         \/ Outside
         \/ \E e \in Ends : PipeStop(e) \/ PipeClose(e) \/ LocalEnds(e)
  PROVE  TunnelStep
<1>1. UNCHANGED <<sent, got, sess, serving, accepted>>
  BY DEF Outside, Expire, Evict, ClientList, ClientShut, ServerShut, Cut,
         IdleTimeout, PipeStop, PipeClose, LocalEnds, outer, history
<1>2. \/ pc' = pc
      \/ /\ pc["client"] = "idle" /\ pc'["client"] = "gone"
         /\ pc'["server"] = pc["server"]
  BY DEF Outside, Expire, Evict, ClientList, ClientShut, ServerShut, Cut,
         IdleTimeout, PipeStop, PipeClose, LocalEnds, outer, history, Goto,
         IInv, TypeOK, Ends
<1> QED BY <1>1, <1>2, TunnelStays DEF TunnelStep

LEMMA NextTunnel ==
  ASSUME IInv, Private, Private', Straying, Straying', Accepted, [Next]_vars
  PROVE  Accepted' /\ TunnelStep
<1>1. CASE ClientNext
  <2>1. CASE ClientDial \/ ClientBack
    BY <2>1, ClientDialTunnel, ClientBackTunnel
  <2>2. CASE ClientBackFails \/ ClientDrop \/ ClientPipeEnd
    BY <2>2, ClientEndsTunnel, ClientQuiet, QuietAccepted
  <2> QED BY <1>1, <2>1, <2>2 DEF ClientNext
<1>2. CASE ServerNext
  <2>1. CASE ServerReadDial \/ ServerAccept
    BY <2>1, ServerReadDialTunnel, ServerAcceptTunnel
  <2>2. CASE ServerStop \/ ServerRefuse \/ ServerPipeEnd
    BY <2>2, ServerEndsTunnel, ServerQuiet, QuietAccepted
  <2> QED BY <1>2, <2>1, <2>2 DEF ServerNext
<1>3. ASSUME NEW e \in Ends, PipeNext(e) PROVE Accepted' /\ TunnelStep
  <2>1. CASE PipeData(e) \/ PipeSend(e)
    <3>1. TunnelStep BY <2>1, PipeDataTunnel, PipeSendTunnel
    <3>2. UNCHANGED <<serving, accepted, pc>>
      BY <2>1 DEF PipeData, PipeSend
    <3>3. pc["client"] = "dialing" => e = "server"
      BY <2>1 DEF PipeData, PipeSend, Copying, Ends
    <3>4. ASSUME pc["client"] = "dialing", NEW i \in Answers',
                 wire'["client"][i].cmd = "ok"
          PROVE  i \in Answers /\ wire["client"][i].cmd = "ok"
      <4>1. e = "server" /\ Peer(e) = "client" BY <3>3, <3>4 DEF Peer
      <4>2. wire["client"] \in Seq(Frame) BY DEF IInv, TypeOK, Ends
      <4>3. CASE wire'["client"] = wire["client"] BY <3>4, <4>3 DEF Answers
      <4>4. ASSUME NEW f \in Frame, f.cmd = "data",
                   wire'["client"] = Append(wire["client"], f)
            PROVE  i \in Answers /\ wire["client"][i].cmd = "ok"
        BY <3>4, <4>2, <4>4, AppendFrames DEF Answers
      <4>5. CASE PipeData(e)
        <5>1. wire'["client"] = wire["client"]
          BY <4>1, <4>5, TakenKeeps DEF PipeData, IInv
        <5> QED BY <4>3, <5>1
      <4>6. CASE PipeSend(e)
        <5>1. PICK s \in Session : s = using[e]
          BY <4>6, Sessions DEF PipeSend, Copying
        <5>2. sent[e][s] + 1 \in 0 .. MaxData
          BY <4>6, <5>1, Counts, ChannelAssumption DEF PipeSend, IInv
        <5>3. LET f == DataFrame(s, sent[e][s] + 1) IN
              f \in Frame /\ f \in Frames("client") /\ f.cmd = "data"
          BY <5>2 DEF DataFrame, Frame, Frames, Commands, Session
        <5>4. WriteFrame(e, DataFrame(s, sent[e][s] + 1))
          BY <4>6, <5>1 DEF PipeSend
        <5>5. \/ wire'["client"] = wire["client"]
              \/ wire'["client"] =
                   Append(wire["client"], DataFrame(s, sent[e][s] + 1))
          BY <4>1, <5>3, <5>4, WriteKeeps DEF IInv
        <5> QED BY <4>3, <4>4, <5>3, <5>5
      <4> QED BY <2>1, <4>5, <4>6
    <3>5. Accepted' BY <3>2, <3>4 DEF Accepted, Heard
    <3> QED BY <3>1, <3>5
  <2>2. CASE PipeStop(e) \/ PipeClose(e) \/ LocalEnds(e)
    BY <2>2, OtherTunnel, PipeQuiet, QuietAccepted
  <2> QED BY <1>3, <2>1, <2>2 DEF PipeNext
<1>4. CASE (\E s \in Session : UdpgwRead(s)) \/ \E m \in late : UdpgwWrite(m)
  BY <1>4, UdpgwTunnel
<1>5. CASE Outside
  BY <1>5, OtherTunnel, OutsideQuiet, QuietAccepted
<1>6. CASE UNCHANGED vars
  <2>1. UNCHANGED <<wire, pc, sess, serving, accepted, sent, got>>
    BY <1>6 DEF vars
  <2>2. Accepted' BY <2>1 DEF Accepted, Heard, Answers
  <2>3. TunnelStep BY <2>1, TunnelStays DEF TunnelStep
  <2> QED BY <2>2, <2>3
<1> QED BY <1>1, <1>2, <1>3, <1>4, <1>5, <1>6 DEF Next

\* A channel is the tunnel it promises to be: sessions in turn, open at the
\* client only when the server has accepted them, a private stream in each, and
\* no more lost to privacy than the gateways' datagrams (core/cs.go,
\* ChannelConn, DialBack and ProcConn; udpgw.go:143-183).
THEOREM ChannelImplementsTunnel == Spec => ImplementsTunnel
<1>1. Init => Accepted /\ TunnelOf!Init
  <2> SUFFICES ASSUME Init PROVE Accepted /\ TunnelOf!Init OBVIOUS
  <2>1. /\ sess = 0 /\ serving = 0 /\ accepted = {}
        /\ pc["client"] = "idle" /\ pc["server"] = "reading"
        /\ sent = [e \in Ends |-> [s \in Session |-> 0]]
        /\ got = [e \in Ends |-> [s \in Session |-> <<>>]]
    BY DEF Init, Ends
  <2>2. \A s \in Session : s > 0 /\ ~(s < 0) /\ s # 0 BY DEF Session
  <2>3. \A s \in Session : ClientPhase(s) = "new" /\ ServerPhase(s) = "new"
    BY <2>1, <2>2 DEF ClientPhase, ServerPhase
  <2>4. TunnelOf!Init
    BY <2>1, <2>3
    DEF TunnelOf!Init, TunnelOf!Ends, TunnelOf!Session, Ends, Session
  <2> QED BY <2>1, <2>4 DEF Accepted, Heard
<1>2. ASSUME IInv, Private, Private', Straying, Straying', Accepted, [Next]_vars
      PROVE  Accepted' /\ [TunnelOf!Next]_(TunnelOf!vars)
  BY <1>2, NextTunnel DEF TunnelStep
<1> QED BY <1>1, <1>2, InitPrivate, NextPrivate, InitStraying, NextStraying,
           SpecIInv, PTL
        DEF Spec, ImplementsTunnel, TunnelOf!Spec

-----------------------------------------------------------------------------
(***************************************************************************)
(* Evicted channels.  The close frame of an eviction stays on the wire     *)
(* before every later dial, behind the one that ended the last session, so *)
(* the server's loop reads it and stops before it reads the dial.          *)
(***************************************************************************)

Closes == {i \in 1 .. Len(wire["server"]) : wire["server"][i].cmd = "close"}
Refusals ==
  {i \in 1 .. Len(wire["client"]) : wire["client"][i].cmd = "refused"}

\* The client has ended its side of the session, or has none.
ClientOut ==
  \/ pc["client"] = "idle"
  \/ pc["client"] = "piping" /\ dir["client"].out = "done"

\* The server, which still copies, will read a close frame; a client that was
\* refused has no session at the server.
Ended ==
  /\ Linked /\ Copying("server", "in") /\ ClientOut => Closes # {}
  /\ pc["client"] = "dialing" /\ Refusals # {} => pc["server"] # "piping"

\* Before every dial there is a close frame for the server's loop, and one
\* for its session if that goes on.
Condemned ==
  \E i, j \in Closes : /\ Copying("server", "in") => i < j
                       /\ \A k \in Dials : i < k /\ j < k

Doomed ==
  evicted =>
    /\ pc["client"] # "piping" /\ Answers = {} /\ pc["server"] # "dialing"
    /\ Linked \/ Dials # {} => pc["server"] = "stopped" \/ Condemned

\* What all steps but the server's reads do to the frames to the server.
Behind ==
  \/ wire'["server"] = wire["server"]
  \/ \E f \in Frame : /\ f.cmd = "dial" => Linked
                      /\ wire'["server"] = Append(wire["server"], f)
  \/ \E n \in 0 .. Len(wire["server"]) :
       wire'["server"] = SubSeq(wire["server"], 1, n) /\ ~Linked'

LEMMA BehindCloses ==
  ASSUME TypeOK, Behind
  PROVE  /\ Linked' => Closes \subseteq Closes'
         /\ \A k \in Dials', i \in Closes : i < k => i \in Closes'
         /\ \A k \in Dials' \ Dials : Linked /\ Closes \subseteq Closes'
         /\ \A k \in Dials' \ Dials, i \in Closes : i < k
<1> DEFINE v == wire["server"]
           w == wire'["server"]
<1>1. v \in Seq(Frame) /\ Len(v) \in Nat BY DEF TypeOK, Ends
<1>2. CASE w = v BY <1>2 DEF Closes, Dials
<1>3. ASSUME NEW f \in Frame, f.cmd = "dial" => Linked, w = Append(v, f)
      PROVE  /\ Closes \subseteq Closes'
             /\ \A k \in Dials' \ Dials : Linked /\ k = Len(v) + 1
  <2>1. /\ Len(w) = Len(v) + 1 /\ w[Len(v) + 1] = f
        /\ \A i \in 1 .. Len(v) : w[i] = v[i]
    BY <1>1, <1>3, AppendFrames
  <2>2. \A i \in 1 .. Len(v) : i \in 1 .. Len(w) BY <1>1, <2>1
  <2>3. Closes \subseteq Closes' BY <2>1, <2>2 DEF Closes
  <2>4. ASSUME NEW k \in Dials' \ Dials PROVE Linked /\ k = Len(v) + 1
    <3>1. k \in 1 .. Len(w) /\ w[k].cmd = "dial" BY DEF Dials
    <3>2. k \notin 1 .. Len(v) BY <2>1, <3>1 DEF Dials
    <3>3. k = Len(v) + 1 BY <1>1, <2>1, <3>1, <3>2
    <3> QED BY <1>3, <2>1, <3>1, <3>3
  <2> QED BY <2>3, <2>4
<1>4. ASSUME NEW n \in 0 .. Len(v), w = SubSeq(v, 1, n)
      PROVE  /\ Dials' \subseteq Dials
             /\ \A k \in Dials', i \in Closes : i < k => i \in Closes'
  <2>1. Len(w) = n /\ \A i \in 1 .. n : w[i] = v[i] BY <1>1, <1>4
  <2>2. \A i \in 1 .. n : i \in 1 .. Len(v) BY <1>1
  <2>3. Dials' \subseteq Dials BY <2>1, <2>2 DEF Dials
  <2>4. ASSUME NEW k \in Dials', NEW i \in Closes, i < k PROVE i \in Closes'
    <3>1. k \in 1 .. n /\ i \in 1 .. Len(v) /\ v[i].cmd = "close"
      BY <2>1 DEF Dials, Closes
    <3>2. i \in 1 .. n BY <1>1, <2>4, <3>1
    <3> QED BY <2>1, <3>1, <3>2 DEF Closes
  <2> QED BY <2>3, <2>4
<1>5. \A i \in Closes : i \in 1 .. Len(v) BY DEF Closes
<1>6. \A i \in Closes : i < Len(v) + 1 BY <1>1, <1>5
<1> QED BY <1>2, <1>3, <1>4, <1>6 DEF Behind

LEMMA BehindCondemned ==
  ASSUME TypeOK, Behind, Linked' \/ Dials' # {}, Condemned,
         Copying("server", "in")' => Copying("server", "in")
  PROVE  Condemned'
<1>1. PICK i, j \in Closes : /\ Copying("server", "in") => i < j
                             /\ \A k \in Dials : i < k /\ j < k
  BY DEF Condemned
<1>2. i \in Closes' /\ j \in Closes'
  <2>1. CASE Linked' BY <2>1, BehindCloses
  <2>2. ASSUME NEW k \in Dials' PROVE i \in Closes' /\ j \in Closes'
    <3>1. CASE k \in Dials BY <1>1, <3>1, BehindCloses
    <3>2. CASE k \notin Dials BY <3>2, BehindCloses
    <3> QED BY <3>1, <3>2
  <2> QED BY <2>1, <2>2
<1>3. \A k \in Dials' : i < k /\ j < k BY <1>1, BehindCloses
<1> QED BY <1>1, <1>2, <1>3 DEF Condemned

LEMMA CalmRest ==
  ASSUME TypeOK, Calm("client")
  PROVE  /\ Answers = {} => Answers' = {}
         /\ Refusals = {} => Refusals' = {}
<1>1. Answers = {} => Answers' = {} BY CalmAnswers
<1>2. PICK k \in {0, 1} : \A i \in 1 .. Len(wire'["client"]) :
           \/ wire'["client"][i].cmd \in {"data", "close"}
           \/ i + k \in 1 .. Len(wire["client"])
              /\ wire'["client"][i] = wire["client"][i + k]
  BY CalmFrames DEF Ends
<1>3. ASSUME NEW i \in Refusals' PROVE i + k \in Refusals
  <2>1. i \in 1 .. Len(wire'["client"]) /\ wire'["client"][i].cmd = "refused"
    BY DEF Refusals
  <2> QED BY <1>2, <2>1 DEF Refusals
<1> QED BY <1>1, <1>3

LEMMA BehindDoomed ==
  ASSUME TypeOK, Doomed, Behind, Calm("client"), Linked' => Linked,
         evicted' = evicted,
         pc'["client"] = "piping" => pc["client"] = "piping",
         pc'["server"] = "dialing" => pc["server"] = "dialing",
         pc["server"] = "stopped" => pc'["server"] = "stopped",
         Copying("server", "in")' => Copying("server", "in")
  PROVE  Doomed'
<1> SUFFICES ASSUME evicted PROVE Doomed' BY DEF Doomed
<1>1. Answers' = {} BY CalmRest DEF Doomed
<1>2. Linked' \/ Dials' # {} => Linked \/ Dials # {}
  <2>1. \A k \in Dials' : k \in Dials \/ Linked BY BehindCloses
  <2> QED BY <2>1
<1>3. Linked' \/ Dials' # {} => pc'["server"] = "stopped" \/ Condemned'
  BY <1>2, BehindCondemned DEF Doomed
<1> QED BY <1>1, <1>3 DEF Doomed

\* A step that begins no session and reads nothing at the server.
Plain ==
  /\ Behind /\ Calm("client")
  /\ evicted' = evicted
  /\ Linked' => Linked
  /\ \A at \in {"dialing", "piping"} :
       /\ pc'["client"] = at => pc["client"] = at
       /\ pc'["server"] = at => pc["server"] = at
  /\ pc["server"] = "stopped" => pc'["server"] = "stopped"
  /\ Copying("server", "in")' => Copying("server", "in")
  /\ Linked' /\ ClientOut' => ClientOut \/ Closes' # {}

LEMMA PlainKeeps ==
  ASSUME TypeOK, Ended, Doomed, Plain
  PROVE  Ended' /\ Doomed'
<1>1. Doomed' BY BehindDoomed DEF Plain
<1>2. Linked' /\ Copying("server", "in")' /\ ClientOut' => Closes' # {}
  BY BehindCloses DEF Plain, Ended
<1>3. pc'["client"] = "dialing" /\ Refusals' # {} => pc'["server"] # "piping"
  BY CalmRest DEF Plain, Ended
<1> QED BY <1>1, <1>2, <1>3 DEF Ended

\* What the methods of ChannelConn do is plain.
LEMMA SameBehind ==
  ASSUME UNCHANGED wire
  PROVE  Behind /\ Calm("client")
BY DEF Behind, Calm

LEMMA ClientTakes ==
  ASSUME IInv, Incoming("client"), wire' = Taken("client")
  PROVE  Behind /\ Calm("client")
<1>1. wire'["server"] = wire["server"]
  BY TakenKeeps DEF IInv, Ends, Peer
<1>2. Calm("client") BY TakenCalm DEF IInv, Ends
<1> QED BY <1>1, <1>2 DEF Behind

LEMMA WriteBehind ==
  ASSUME IInv, NEW e \in Ends, NEW f \in Frames(Peer(e)),
         f.cmd \in {"data", "close"}, WriteFrame(e, f)
  PROVE  Behind /\ Calm("client")
<1>1. Calm("client") BY WriteCalm DEF IInv
<1>2. /\ wire'[e] = wire[e]
      /\ \/ wire'[Peer(e)] = wire[Peer(e)]
         \/ wire'[Peer(e)] = Append(wire[Peer(e)], f)
  BY WriteKeeps DEF IInv
<1>3. f \in Frame /\ f.cmd # "dial" BY Peers, FramesType
<1>4. Behind BY <1>2, <1>3 DEF Behind, Ends, Peer
<1> QED BY <1>1, <1>4

LEMMA CloseBehind ==
  ASSUME IInv, NEW e \in Ends, Close(e)
  PROVE  /\ Behind /\ Calm("client")
         /\ \A d \in Ends : raw'[d] = "open" => raw[d] = "open"
         /\ e = "client" /\ Linked' /\ cut' = cut => Closes' # {}
<1>1. Behind /\ Calm("client")
  <2>1. CloseFrame \in Frames(Peer(e)) /\ CloseFrame.cmd = "close"
    BY Peers, FramesType DEF CloseFrame
  <2> QED BY <2>1, WriteBehind, SameBehind DEF Close
<1>2. \A d \in Ends : raw'[d] = "open" => raw[d] = "open"
  BY CloseQuiet DEF IInv
<1>3. ASSUME e = "client", Linked', cut' = cut PROVE Closes' # {}
  <2>1. Linked BY <1>2, <1>3, LinkLost
  <2>2. raw'[e] = "open" BY <1>3 DEF Linked
  <2>3. err'[e] # TRUE BY <2>2 DEF Close, IInv, TypeOK
  <2>4. wire' = [wire EXCEPT !["server"] = Append(@, CloseFrame)]
    BY <1>3, <2>1, <2>3 DEF Close, WriteFrame, Peer
  <2>5. wire["server"] \in Seq(Frame) /\ "server" \in Ends
    BY DEF IInv, TypeOK, Ends
  <2>6. wire'["server"] = Append(wire["server"], CloseFrame)
    BY <2>4, <2>5 DEF IInv, TypeOK
  <2>7. CloseFrame \in Frame BY <2>5, FramesType
  <2>8. /\ Len(wire["server"]) + 1 \in 1 .. Len(wire'["server"])
        /\ wire'["server"][Len(wire["server"]) + 1] = CloseFrame
    BY <2>5, <2>6, <2>7, AppendFrames
  <2> QED BY <2>8 DEF Closes, CloseFrame
<1> QED BY <1>1, <1>2, <1>3

\* The client's steps.
LEMMA ClientDialEnded ==
  ASSUME IInv, Ended, Doomed, ClientDial
  PROVE  Ended' /\ Doomed'
<1>1. /\ pc["client"] = "idle" /\ evicted' = evicted /\ cut' = cut
      /\ pc'["server"] = pc["server"] /\ pc'["client"] \in {"gone", "dialing"}
      /\ dir' = dir /\ "client" \in Ends
  BY DEF ClientDial, Goto, outer, IInv, TypeOK, Ends
<1> DEFINE f == DialFrame(sess + 1)
<1>2. f \in Frame /\ f \in Frames("server")
  <2>1. sess + 1 \in Session /\ sess + 1 \in 0 .. MaxSession /\ 0 \in 0 .. MaxData
    BY ChannelAssumption DEF ClientDial, IInv, TypeOK, Session
  <2>2. f = [cmd |-> "dial", sess |-> sess + 1, n |-> 0] BY DEF DialFrame
  <2>3. f \in Frame BY <2>1, <2>2 DEF Frame, Commands
  <2> QED BY <2>1, <2>2, <2>3 DEF Frames
<1> HIDE DEF f
<1>3. /\ wire'["client"] = wire["client"]
      /\ \/ wire'["server"] = wire["server"]
         \/ Linked /\ wire'["server"] = Append(wire["server"], f)
  <2>1. WriteFrame("client", f) BY DEF ClientDial, f
  <2> QED BY <2>1 DEF WriteFrame, IInv, TypeOK, Ends, Peer
<1>4. Behind /\ Calm("client") BY <1>2, <1>3 DEF Behind, Calm
<1>5. Linked' => Linked
  <2>1. \A d \in Ends : raw'[d] = "open" => raw[d] = "open"
    BY DEF ClientDial, IInv, TypeOK
  <2> QED BY <1>1, <2>1, LinkLost
<1>6. Doomed' BY <1>1, <1>4, <1>5, BehindDoomed DEF IInv, Copying
<1>7. ~ClientOut' BY <1>1 DEF ClientOut
<1>8. Refusals' = {}
  <2>1. Answers = {} BY <1>1 DEF IInv, Order, NoDial
  <2>2. Refusals = {} BY <2>1 DEF Answers, Refusals
  <2> QED BY <2>2, <1>3 DEF Refusals
<1> QED BY <1>6, <1>7, <1>8 DEF Ended

LEMMA ClientBackEnded ==
  ASSUME IInv, Ended, Doomed, ClientBack
  PROVE  Ended' /\ Doomed'
<1>1. /\ pc["client"] = "dialing" /\ evicted' = evicted
      /\ pc'["server"] = pc["server"] /\ Incoming("client")
      /\ wire' = Taken("client")
  BY DEF ClientBack, Goto, StartPipe, IInv, TypeOK, Ends
<1>2. /\ Head(wire["client"]) = wire["client"][1]
      /\ 1 \in 1 .. Len(wire["client"])
      /\ wire["client"][1].cmd \in {"ok", "refused"}
  <2>1. wire["client"] \in Seq(Frame) /\ wire["client"] # <<>>
    BY <1>1 DEF IInv, TypeOK, Incoming, Ends
  <2>2. Head(wire["client"]).cmd \in {"ok", "refused", "data", "close"}
    BY <1>1, TakenKeeps DEF IInv, Frames, Ends
  <2> QED BY <2>1, <2>2 DEF ClientBack
<1>3. 1 \in Answers BY <1>2 DEF Answers
<1>4. Doomed' BY <1>1, <1>3 DEF Doomed
<1>5. ASSUME pc'["client"] = "piping", dir'["client"].out = "run"
      PROVE  Ended'
  BY <1>5 DEF Ended, ClientOut
<1>6. ASSUME pc'["client"] = "idle", wire["client"][1].cmd = "refused"
      PROVE  Ended'
  <2>1. Refusals # {} BY <1>2, <1>6 DEF Refusals
  <2>2. pc'["server"] # "piping" BY <1>1, <2>1 DEF Ended
  <2> QED BY <1>6, <2>2 DEF Ended, Copying
<1>7. \/ pc'["client"] = "piping" /\ dir'["client"].out = "run"
      \/ pc'["client"] = "idle" /\ wire["client"][1].cmd = "refused"
  BY <1>2 DEF ClientBack, Goto, StartPipe, IInv, TypeOK, Ends
<1> QED BY <1>4, <1>5, <1>6, <1>7

LEMMA ClientPlain ==
  ASSUME IInv, ClientBackFails \/ ClientDrop \/ ClientPipeEnd
  PROVE  Plain
<1>1. /\ evicted' = evicted /\ dir' = dir /\ cut' = cut
      /\ pc'["server"] = pc["server"] /\ "client" \in Ends
      /\ pc'["client"] \in {"gone", "dropping", "idle"}
      /\ pc'["client"] = "idle" => ClientOut
  BY DEF ClientBackFails, ClientDrop, ClientPipeEnd, Goto, PipeDone, outer,
         IInv, TypeOK, Ends, ClientOut
<1>2. Behind /\ Calm("client")
  BY <1>1, SameBehind, ClientTakes, CloseBehind
  DEF ClientBackFails, ClientDrop, ClientPipeEnd
<1>3. Linked' => Linked BY ClientQuiet DEF Quiet
<1> QED BY <1>1, <1>2, <1>3 DEF Plain, Copying, ClientOut

\* A read of the server moves its frames to the front.
LEMMA ServerTakes ==
  ASSUME IInv, Incoming("server"), wire' = Taken("server")
  PROVE  /\ Calm("client")
         /\ Head(wire["server"]) = wire["server"][1]
         /\ 1 \in 1 .. Len(wire["server"])
         /\ \A i \in Closes : i = 1 \/ (i > 1 /\ i - 1 \in Closes')
         /\ \A k \in Dials' : k + 1 \in Dials
<1>1. Calm("client") BY TakenCalm DEF IInv, Ends
<1> DEFINE v == wire["server"]
           w == wire'["server"]
<1>2. v \in Seq(Frame) /\ Len(v) \in Nat /\ v # <<>> /\ w = Tail(v)
  BY TakenKeeps DEF IInv, TypeOK, Ends
<1>3. Len(w) = Len(v) - 1 /\ \A i \in 1 .. Len(w) : w[i] = v[i + 1]
  BY <1>2, TailFrames
<1>4. Head(v) = v[1] /\ 1 \in 1 .. Len(v) BY <1>2
<1>5. ASSUME NEW i \in Closes, i # 1 PROVE i > 1 /\ i - 1 \in Closes'
  <2>1. i \in 1 .. Len(v) /\ v[i].cmd = "close" BY DEF Closes
  <2>2. i - 1 \in 1 .. Len(w) /\ (i - 1) + 1 = i BY <1>2, <1>3, <1>5, <2>1
  <2>3. w[i - 1] = v[i] BY <1>3, <2>2
  <2> QED BY <1>5, <2>1, <2>2, <2>3 DEF Closes
<1>6. ASSUME NEW k \in Dials' PROVE k + 1 \in Dials
  <2>1. k \in 1 .. Len(w) /\ w[k].cmd = "dial" BY DEF Dials
  <2>2. k + 1 \in 1 .. Len(v) /\ w[k] = v[k + 1] BY <1>2, <1>3, <2>1
  <2> QED BY <2>1, <2>2 DEF Dials
<1> QED BY <1>1, <1>4, <1>5, <1>6

\* The loop of ProcConn reads no dial of an evicted channel.
LEMMA ServerReadDialEnded ==
  ASSUME IInv, Ended, Doomed, ServerReadDial
  PROVE  Ended' /\ Doomed'
<1>1. /\ evicted' = evicted /\ pc["server"] = "reading"
      /\ pc'["server"] = "dialing"
      /\ Head(wire["server"]).cmd = "dial"
  BY DEF ServerReadDial, Goto, outer, IInv, TypeOK, Ends
<1>2. 1 \in Dials
  <2>1. Head(wire["server"]) = wire["server"][1] /\ 1 \in 1 .. Len(wire["server"])
    BY ServerTakes DEF ServerReadDial
  <2> QED BY <1>1, <2>1 DEF Dials
<1>3. \A i \in Closes : i \in Nat /\ i >= 1 BY DEF Closes
<1>4. ~Condemned BY <1>2, <1>3 DEF Condemned
<1>5. ~evicted BY <1>1, <1>2, <1>4 DEF Doomed
<1> QED BY <1>1, <1>5 DEF Ended, Doomed, Copying

\* It stops at the close frame.
LEMMA ServerStopEnded ==
  ASSUME IInv, Ended, Doomed, ServerStop
  PROVE  Ended' /\ Doomed'
<1>1. /\ evicted' = evicted /\ pc'["client"] = pc["client"]
      /\ pc'["server"] = "stopped"
  BY DEF ServerStop, Goto, outer, IInv, TypeOK, Ends
<1>2. Calm("client") BY ServerTakes, SameBehind DEF ServerStop
<1>3. Answers = {} => Answers' = {} BY <1>2, CalmRest DEF IInv
<1> QED BY <1>1, <1>3 DEF Ended, Doomed, Copying

LEMMA ServerAnswerEnded ==
  ASSUME IInv, Ended, Doomed, ServerRefuse \/ ServerAccept
  PROVE  Ended' /\ Doomed'
<1>1. /\ evicted' = evicted /\ pc["server"] = "dialing"
      /\ pc'["client"] = pc["client"] /\ "server" \in Ends
      /\ dir'["client"] = dir["client"]
  BY DEF ServerRefuse, ServerAccept, StartPipe, Goto, outer, IInv, TypeOK, Ends
<1>2. Doomed' BY <1>1 DEF Doomed
<1>3. CASE ServerRefuse
  <2>1. pc'["server"] = "reading"
    BY <1>3 DEF ServerRefuse, Goto, IInv, TypeOK, Ends
  <2> QED BY <1>2, <2>1 DEF Ended, Copying
<1>4. CASE ServerAccept
  <2>1. ~ClientOut' BY <1>1 DEF ClientOut, IInv, Order, NoDial
  <2>2. ASSUME pc["client"] = "dialing" PROVE Refusals' = {}
    <3>1. Answers = {} BY <1>1, <2>2 DEF IInv, Order, OneDial
    <3>2. Refusals = {} BY <3>1 DEF Answers, Refusals
    <3> DEFINE f == BackFrame(serving, "ok")
    <3>3. f \in Frame /\ f.cmd = "ok"
      BY ChannelAssumption DEF BackFrame, Frame, Commands, IInv, TypeOK
    <3> HIDE DEF f
    <3>4. \/ wire'["client"] = wire["client"]
          \/ wire'["client"] = Append(wire["client"], f)
      <4>1. WriteFrame("server", f) BY <1>4 DEF ServerAccept, f
      <4> QED BY <4>1 DEF WriteFrame, IInv, TypeOK, Ends, Peer
    <3>5. wire["client"] \in Seq(Frame) BY DEF IInv, TypeOK, Ends
    <3>6. CASE wire'["client"] = wire["client"] BY <3>2, <3>6 DEF Refusals
    <3>7. CASE wire'["client"] = Append(wire["client"], f)
      <4> SUFFICES ASSUME NEW i \in Refusals' PROVE FALSE OBVIOUS
      <4>1. i \in 1 .. Len(wire'["client"]) /\ wire'["client"][i].cmd = "refused"
        BY DEF Refusals
      <4>2. /\ Len(wire'["client"]) = Len(wire["client"]) + 1
            /\ wire'["client"][Len(wire["client"]) + 1] = f
            /\ Len(wire["client"]) \in Nat
            /\ \A j \in 1 .. Len(wire["client"]) :
                 wire'["client"][j] = wire["client"][j]
        BY <3>3, <3>5, <3>7, AppendFrames
      <4>3. i \in 1 .. Len(wire["client"]) BY <3>3, <4>1, <4>2
      <4> QED BY <3>2, <4>1, <4>2, <4>3 DEF Refusals
    <3> QED BY <3>4, <3>6, <3>7
  <2> QED BY <1>1, <1>2, <2>1, <2>2 DEF Ended
<1> QED BY <1>3, <1>4

LEMMA ServerEndPlain ==
  ASSUME IInv, ServerPipeEnd
  PROVE  Plain
<1>1. /\ evicted' = evicted /\ dir' = dir /\ "server" \in Ends
      /\ pc'["client"] = pc["client"] /\ pc["server"] = "piping"
      /\ pc'["server"] \in {"reading", "stopped"}
  BY DEF ServerPipeEnd, PipeDone, Goto, outer, IInv, TypeOK, Ends
<1>2. Behind /\ Calm("client")
  BY <1>1, SameBehind, CloseBehind DEF ServerPipeEnd
<1>3. Linked' => Linked BY ServerQuiet DEF Quiet
<1> QED BY <1>1, <1>2, <1>3 DEF Plain, Copying, ClientOut

\* The copies.  Only the server's reads are not plain.
LEMMA ReadPlain ==
  ASSUME IInv, PipeData("client") \/ PipeStop("client")
  PROVE  Plain
<1>1. UNCHANGED <<evicted, cut, raw, pc>> /\ "client" \in Ends
  BY DEF PipeData, PipeStop, outer, Ends
<1>2. Behind /\ Calm("client")
  BY SameBehind, ClientTakes DEF PipeData, PipeStop
<1>3. dir'["server"] = dir["server"] /\ dir'["client"].out = dir["client"].out
  BY DEF PipeData, PipeStop, EndCopyIn, IInv, TypeOK, Ends
<1> QED BY <1>1, <1>2, <1>3 DEF Plain, Copying, ClientOut, Linked

\* An eviction's close frame stays behind the data and the close frame of the
\* session.
LEMMA ReadEnded ==
  ASSUME IInv, Ended, Doomed, PipeData("server") \/ PipeStop("server")
  PROVE  Ended' /\ Doomed'
<1>1. /\ UNCHANGED <<evicted, cut, raw, pc>> /\ "server" \in Ends
      /\ Copying("server", "in") /\ pc["server"] = "piping"
  BY DEF PipeData, PipeStop, outer, Ends, Copying
<1>2. Linked' = Linked BY <1>1 DEF Linked
<1>3. dir'["client"] = dir["client"]
  BY DEF PipeData, PipeStop, EndCopyIn, IInv, TypeOK, Ends
<1>4. CASE wire' = wire /\ ~Copying("server", "in")'
  <2>1. Behind /\ Calm("client") BY <1>4, SameBehind
  <2> QED BY <1>1, <1>2, <1>3, <1>4, <2>1, PlainKeeps DEF Plain, IInv, ClientOut
<1>5. ASSUME Incoming("server"), wire' = Taken("server"),
             \/ ~Copying("server", "in")'
             \/ Head(wire["server"]).cmd = "data"
      PROVE  Ended' /\ Doomed'
  <2>1. /\ Calm("client")
        /\ Head(wire["server"]) = wire["server"][1]
        /\ 1 \in 1 .. Len(wire["server"])
        /\ \A i \in Closes : i = 1 \/ (i > 1 /\ i - 1 \in Closes')
        /\ \A k \in Dials' : k + 1 \in Dials
    BY <1>5, ServerTakes
  <2>2. \A i \in Closes \cup Dials \cup Closes' \cup Dials' : i \in Nat /\ i >= 1
    BY DEF Closes, Dials
  <2>3. Head(wire["server"]).cmd = "data" => 1 \notin Closes
    BY <2>1 DEF Closes
  <2>4. ASSUME Copying("server", "in")', Closes # {} PROVE Closes' # {}
    BY <1>5, <2>1, <2>3, <2>4
  <2>5. Ended' BY <1>1, <1>2, <1>3, <2>1, <2>4, CalmRest
        DEF Ended, IInv, ClientOut
  <2>6. ASSUME Condemned PROVE Condemned'
    <3>1. PICK i, j \in Closes : i < j /\ \A k \in Dials : i < k /\ j < k
      BY <1>1, <2>6 DEF Condemned
    <3>2. j > 1 /\ j - 1 \in Closes' BY <2>1, <2>2, <3>1
    <3>3. ASSUME NEW k \in Dials' PROVE j - 1 < k BY <2>1, <2>2, <3>1, <3>3
    <3>4. CASE ~Copying("server", "in")' BY <3>2, <3>3, <3>4 DEF Condemned
    <3>5. CASE Head(wire["server"]).cmd = "data"
      <4>1. i > 1 /\ i - 1 \in Closes' BY <2>1, <2>3, <3>5
      <4>2. i - 1 < j - 1 BY <2>2, <3>1
      <4>3. \A k \in Dials' : i - 1 < k BY <2>1, <2>2, <3>1
      <4> QED BY <3>2, <3>3, <4>1, <4>2, <4>3 DEF Condemned
    <3> QED BY <1>5, <3>4, <3>5
  <2>7. Doomed' BY <1>1, <1>2, <2>1, <2>6, CalmRest DEF Doomed, IInv
  <2> QED BY <2>5, <2>7
<1>6. CASE PipeData("server")
  BY <1>5, <1>6 DEF PipeData
<1>7. CASE PipeStop("server")
  <2>1. ~Copying("server", "in")'
    BY <1>1, <1>7 DEF PipeStop, EndCopyIn, Copying, IInv, TypeOK
  <2> QED BY <1>4, <1>5, <1>7, <2>1 DEF PipeStop
<1> QED BY <1>6, <1>7

\* A copy that ends has closed the channel or lost it.
LEMMA WritePlain ==
  ASSUME IInv, NEW e \in Ends, PipeSend(e) \/ PipeClose(e) \/ LocalEnds(e)
  PROVE  Plain
<1>1. UNCHANGED <<evicted, cut, pc>> BY DEF PipeSend, PipeClose, LocalEnds, outer
<1>2. \A d \in Ends : dir'[d].in = dir[d].in
  <2>1. dir \in [Ends -> [in : {"run", "done"}, out : {"run", "done"}]]
    BY DEF IInv, TypeOK
  <2>2. \/ dir' = dir
        \/ \E o \in {"run", "done"} : dir' = [dir EXCEPT ![e].out = o]
    <3>1. CASE PipeSend(e)
      <4>1. dir' = [dir EXCEPT ![e].out = IF err'[e] THEN "done" ELSE @]
        BY <3>1 DEF PipeSend
      <4>2. CASE err'[e] BY <4>1, <4>2
      <4>3. CASE ~err'[e] BY <2>1, <4>1, <4>3
      <4> QED BY <4>2, <4>3
    <3>2. CASE PipeClose(e) \/ LocalEnds(e) BY <3>2 DEF PipeClose, LocalEnds
    <3> QED BY <3>1, <3>2
  <2> QED BY <2>1, <2>2
<1>3. CASE PipeSend(e)
  <2> DEFINE f == DataFrame(using[e], sent[e][using[e]] + 1)
  <2>1. WriteFrame(e, f) BY <1>3 DEF PipeSend
  <2>2. f \in Frames(Peer(e)) /\ f.cmd = "data"
    <3>1. using[e] \in Session
      BY <1>3, UsingType DEF PipeSend, Copying, IInv
    <3>2. sent[e][using[e]] + 1 \in 0 .. MaxData
      BY <1>3, <3>1, StreamBound, SentType DEF PipeSend, IInv
    <3> QED BY <3>1, <3>2 DEF DataFrame, Frames, Frame, Commands, Session
  <2> HIDE DEF f
  <2>3. Behind /\ Calm("client") BY <2>1, <2>2, WriteBehind
  <2>4. \A d \in Ends : raw'[d] = "open" => raw[d] = "open"
    BY <1>3 DEF PipeSend, IInv, TypeOK
  <2>5. ASSUME Linked', ClientOut' PROVE ClientOut
    <3>1. CASE e = "client"
      <4>1. raw'["client"] = "open" /\ "client" \in Ends
        BY <2>5 DEF Linked, Ends
      <4>2. ~err'["client"]
        BY <1>3, <3>1, <4>1 DEF PipeSend, IInv, TypeOK
      <4>3. dir'["client"] = dir["client"]
        BY <1>3, <3>1, <4>1, <4>2 DEF PipeSend, IInv, TypeOK
      <4> QED BY <1>1, <2>5, <4>3 DEF ClientOut
    <3>2. CASE e # "client"
      <4>1. dir'["client"] = dir["client"]
        BY <1>3, <3>2 DEF PipeSend, IInv, TypeOK, Ends
      <4> QED BY <1>1, <2>5, <4>1 DEF ClientOut
    <3> QED BY <3>1, <3>2
  <2> QED BY <1>1, <1>2, <2>3, <2>4, <2>5, LinkLost DEF Plain, Copying, Ends
<1>4. CASE PipeClose(e)
  <2>1. /\ Behind /\ Calm("client")
        /\ \A d \in Ends : raw'[d] = "open" => raw[d] = "open"
        /\ e = "client" /\ Linked' => Closes' # {}
    BY <1>1, <1>4, CloseBehind DEF PipeClose
  <2>2. e # "client" => dir'["client"] = dir["client"]
    BY <1>4 DEF PipeClose, IInv, TypeOK, Ends
  <2> QED BY <1>1, <1>2, <2>1, <2>2, LinkLost DEF Plain, Copying, ClientOut, Ends
<1>5. CASE LocalEnds(e)
  <2>1. UNCHANGED <<wire, raw, dir>> BY <1>5 DEF LocalEnds
  <2>2. Behind /\ Calm("client") BY <2>1, SameBehind
  <2> QED BY <1>1, <2>1, <2>2 DEF Plain, Copying, ClientOut, Linked
<1> QED BY <1>3, <1>4, <1>5

\* The late datagrams go to the client.
LEMMA UdpgwPlain ==
  ASSUME IInv, (\E s \in Session : UdpgwRead(s)) \/ \E m \in late : UdpgwWrite(m)
  PROVE  Plain
<1>1. UNCHANGED <<evicted, cut, pc, dir, raw>>
  BY DEF UdpgwRead, UdpgwWrite, outer
<1>2. ASSUME NEW s \in Session, UdpgwRead(s) PROVE Plain
  <2>1. Behind /\ Calm("client") BY <1>2, SameBehind DEF UdpgwRead
  <2> QED BY <1>1, <2>1 DEF Plain, Copying, ClientOut, Linked
<1>3. ASSUME NEW m \in late, UdpgwWrite(m) PROVE Plain
  <2> DEFINE f == DataFrame(m[1], m[2])
  <2>1. f \in Frames(Peer("server")) /\ f.cmd = "data"
    BY LateFrame DEF IInv, Peer
  <2>2. WriteFrame("server", f) BY <1>3 DEF UdpgwWrite
  <2> HIDE DEF f
  <2>3. Behind /\ Calm("client") BY <2>1, <2>2, WriteBehind DEF Ends
  <2> QED BY <1>1, <2>3 DEF Plain, Copying, ClientOut, Linked
<1> QED BY <1>2, <1>3

\* The closes from outside but the eviction, and the losses of the link.
LEMMA OutsidePlain ==
  ASSUME IInv, Outside, ~Evict
  PROVE  Plain
<1>1. /\ UNCHANGED <<evicted, dir>>
      /\ pc'["server"] = pc["server"]
      /\ pc'["client"] \in {pc["client"], "gone"}
  BY DEF Outside, Expire, ClientList, ClientShut, ServerShut, Cut,
         IdleTimeout, Goto, outer, IInv, TypeOK, Ends
<1>2. Linked' => Linked BY OutsideQuiet DEF Quiet
<1>3. Behind /\ Calm("client")
  <2>1. CASE Expire \/ ClientShut \/ ServerShut
    BY <2>1, CloseBehind DEF Expire, ClientShut, ServerShut, Ends
  <2>2. CASE ClientList \/ IdleTimeout
    BY <2>2, SameBehind DEF ClientList, IdleTimeout
  <2>3. CASE Cut
    <3>1. ~Linked' BY <2>3 DEF Cut, Linked
    <3>2. \A e \in Ends : \E n \in 0 .. Len(wire[e]) :
            wire'[e] = SubSeq(wire[e], 1, n)
      BY <2>3 DEF Cut, Ends
    <3> QED BY <3>1, <3>2 DEF Behind, Calm, Ends
  <2> QED BY <2>1, <2>2, <2>3 DEF Outside
<1> QED BY <1>1, <1>2, <1>3 DEF Plain, Copying, ClientOut

\* pushConn closes the oldest idle channel (cs.go:429-445).
LEMMA EvictEnded ==
  ASSUME IInv, Ended, Evict
  PROVE  Ended' /\ Doomed'
<1>1. /\ UNCHANGED <<cut, pc, dir>> /\ pc["client"] = "idle"
      /\ Close("client") /\ "client" \in Ends
  BY DEF Evict, Ends
<1>2. Dials = {} /\ Answers = {} /\ pc["server"] # "dialing"
  BY <1>1 DEF IInv, Order, NoDial
<1>3. /\ Behind /\ Calm("client")
      /\ Linked' => Closes' # {}
  BY <1>1, CloseBehind
<1>4. Linked' => Linked BY <1>1, CloseBehind, LinkLost
<1>5. Copying("server", "in")' = Copying("server", "in") BY <1>1 DEF Copying
<1>6. Ended' BY <1>1, <1>3 DEF Ended
<1>7. Answers' = {} BY <1>2, <1>3, CalmRest DEF IInv
<1> DEFINE v == wire["server"]
           w == wire'["server"]
<1>8. /\ v \in Seq(Frame) /\ Len(v) \in Nat /\ "server" \in Ends
      /\ CloseFrame \in Frame /\ CloseFrame.cmd = "close"
  BY FramesType DEF IInv, TypeOK, Ends, CloseFrame
<1>9. \/ w = v /\ ~Linked'
      \/ w = Append(v, CloseFrame)
  <2>1. ASSUME Linked' PROVE w = Append(v, CloseFrame)
    <3>1. Linked BY <1>4, <2>1
    <3>2. raw'["client"] = "open" BY <1>1, <2>1 DEF Linked
    <3>3. err'["client"] # TRUE BY <3>2 DEF Evict, Close, IInv, TypeOK, Ends
    <3>4. wire' = [wire EXCEPT !["server"] = Append(@, CloseFrame)]
      BY <1>1, <3>1, <3>3 DEF Close, WriteFrame, Peer
    <3> QED BY <1>8, <3>4 DEF IInv, TypeOK
  <2>2. CASE wire' = wire BY <2>1, <2>2
  <2>3. CASE WriteFrame("client", CloseFrame)
    <3>1. w = v \/ w = Append(v, CloseFrame)
      BY <1>8, <2>3 DEF WriteFrame, Peer, IInv, TypeOK
    <3> QED BY <2>1, <3>1
  <2> QED BY <1>1, <2>2, <2>3 DEF Close
<1>10. Dials' = {}
  <2>1. CASE w = v BY <1>2, <2>1 DEF Dials
  <2>2. CASE w = Append(v, CloseFrame)
    <3> SUFFICES ASSUME NEW i \in Dials' PROVE FALSE OBVIOUS
    <3>1. i \in 1 .. Len(w) /\ w[i].cmd = "dial" BY DEF Dials
    <3>2. /\ Len(w) = Len(v) + 1 /\ w[Len(v) + 1] = CloseFrame
          /\ \A j \in 1 .. Len(v) : w[j] = v[j]
      BY <1>8, <2>2, AppendFrames
    <3>3. i \in 1 .. Len(v) BY <1>8, <3>1, <3>2
    <3> QED BY <1>2, <3>1, <3>2, <3>3 DEF Dials
  <2> QED BY <1>9, <2>1, <2>2
<1>11. ASSUME Linked', Copying("server", "in")
       PROVE  \E i, j \in Closes' : i < j
  <2>1. w = Append(v, CloseFrame) BY <1>9, <1>11
  <2>2. /\ Len(w) = Len(v) + 1 /\ w[Len(v) + 1] = CloseFrame
        /\ \A j \in 1 .. Len(v) : w[j] = v[j]
    BY <1>8, <2>1, AppendFrames
  <2>3. Len(v) + 1 \in Closes' BY <1>8, <2>2 DEF Closes
  <2>4. Linked /\ ClientOut BY <1>1, <1>4, <1>11 DEF ClientOut
  <2>5. PICK i \in Closes : TRUE BY <2>4, <1>11 DEF Ended
  <2>6. i \in Nat /\ i <= Len(v) BY <1>8 DEF Closes
  <2>7. i \in Closes' BY <1>3, <1>11, <2>5, BehindCloses DEF IInv
  <2>8. i < Len(v) + 1 BY <1>8, <2>6
  <2> QED BY <2>3, <2>7, <2>8
<1>12. Linked' \/ Dials' # {} => Condemned'
  <2> SUFFICES ASSUME Linked' PROVE Condemned' BY <1>10
  <2>1. CASE Copying("server", "in") BY <1>10, <1>11, <2>1 DEF Condemned
  <2>2. CASE ~Copying("server", "in")
    BY <1>3, <1>5, <1>10, <2>2 DEF Condemned
  <2> QED BY <2>1, <2>2
<1> QED BY <1>1, <1>2, <1>6, <1>7, <1>12 DEF Doomed

LEMMA InitEnded == Init => Ended /\ Doomed
<1> SUFFICES ASSUME Init PROVE Ended /\ Doomed OBVIOUS
<1>1. pc["client"] = "idle" /\ pc["server"] = "reading" /\ ~evicted
  BY DEF Init, Ends
<1> QED BY <1>1 DEF Ended, Doomed, Copying

LEMMA NextEnded ==
  ASSUME IInv, Ended, Doomed, [Next]_vars
  PROVE  Ended' /\ Doomed'
<1>1. CASE ClientNext
  BY <1>1, ClientDialEnded, ClientBackEnded, ClientPlain, PlainKeeps
  DEF ClientNext, IInv
<1>2. CASE ServerNext
  BY <1>2, ServerReadDialEnded, ServerStopEnded, ServerAnswerEnded,
     ServerEndPlain, PlainKeeps DEF ServerNext, IInv
<1>3. ASSUME NEW e \in Ends, PipeNext(e) PROVE Ended' /\ Doomed'
  BY <1>3, ReadPlain, ReadEnded, WritePlain, PlainKeeps DEF PipeNext, Ends, IInv
<1>4. CASE (\E s \in Session : UdpgwRead(s)) \/ \E m \in late : UdpgwWrite(m)
  BY <1>4, UdpgwPlain, PlainKeeps DEF IInv
<1>5. CASE Outside BY <1>5, EvictEnded, OutsidePlain, PlainKeeps DEF IInv
<1>6. CASE UNCHANGED vars
  <2>1. UNCHANGED <<wire, raw, cut, pc, dir, evicted>>
    BY <1>6 DEF vars, outer
  <2>2. Behind /\ Calm("client") BY <2>1, SameBehind
  <2>3. Plain BY <2>1, <2>2 DEF Plain, Copying, ClientOut, Linked
  <2> QED BY <2>3, PlainKeeps DEF IInv
<1> QED BY <1>1, <1>2, <1>3, <1>4, <1>5, <1>6 DEF Next

\* A channel that pushConn has closed as the oldest stays in the pool, and may
\* be pulled again; it never carries another session (cs.go:429-445).
THEOREM EvictedIsOver == Spec => []EvictedNeverServes
<1>1. Doomed => EvictedNeverServes BY DEF Doomed, EvictedNeverServes
<1> QED BY <1>1, InitEnded, NextEnded, SpecIInv, PTL DEF Spec

-----------------------------------------------------------------------------
(***************************************************************************)
(* Nobody waits for somebody who waits.  DialBack reads without a timeout, *)
(* and a session ends only when each end has read the other's close frame: *)
(* the safety under DialAnswered, SessionEnds and ServerReleased is that   *)
(* what a goroutine waits for is always on its way to it.                  *)
(***************************************************************************)

CanRead(e) == ReadError(e) \/ Incoming(e)

\* A goroutine of end e has a step that needs neither the user, the target's
\* data nor a timer: the disjunction of the guards of what Running schedules.
CanGo(e) ==
  \/ pc[e] \in {"dialing", "reading"} /\ CanRead(e)
  \/ e = "server" /\ pc[e] = "dialing"
  \/ pc[e] = "dropping"
  \/ Copying(e, "in") /\ CanRead(e)
  \/ Copying(e, "out") /\ local[e] # "open"
  \/ PipeDone(e)

\* The client waits for an answer, or for the end of a session whose user has
\* left.
Awaits ==
  \/ pc["client"] = "dialing"
  \/ pc["client"] = "piping" /\ local["client"] # "open"

\* The listener's timer runs out.
Silent == ~cut /\ wire["server"] = <<>> /\ raw["server"] = "open"

NeverStuck ==
  /\ Awaits => CanGo("client") \/ CanGo("server")
  /\ pc["server"] # "stopped" => CanGo("server") \/ Silent

\* A goroutine that has ended has closed what it owned.
Released ==
  /\ pc["server"] = "stopped" => raw["server"] = "closed"
  /\ \A e \in Ends :
       pc[e] = "piping" /\ dir[e].in = "done" => local[e] = "closed"

\* A client that waits for an answer has its dial on the way, or with the
\* server, or something to read; or the server has taken the dial for a frame
\* of an old session, which is the channel's end.
Owed ==
  pc["client"] = "dialing" /\ Linked =>
    \/ Dials # {} \/ wire["client"] # <<>>
    \/ pc["server"] = "dialing"
    \/ pc["server"] = "piping" /\ dir["server"].in = "done" /\ err["server"]

\* Once the server's copy to the channel has ended, a close frame follows what
\* it has sent in the session that the client has open, or is about to open.
CloseAfter(i) ==
  \E j \in i + 1 .. Len(wire["client"]) : wire["client"][j].cmd = "close"

Told ==
  Linked /\ ~Copying("server", "out") =>
    /\ pc["client"] = "dialing" =>
         \A i \in 1 .. Len(wire["client"]) :
           wire["client"][i].cmd = "ok" => CloseAfter(i)
    /\ Copying("client", "in") => CloseAfter(0)

\* Nothing is read and no session is accepted.
Grow(e) ==
  \/ wire'[e] = wire[e]
  \/ \E f \in Frame : f.cmd # "ok" /\ wire'[e] = Append(wire[e], f)

LEMMA GrowKeeps ==
  ASSUME TypeOK, NEW e \in Ends, Grow(e)
  PROVE  /\ \A i \in 1 .. Len(wire[e]) :
              i \in 1 .. Len(wire'[e]) /\ wire'[e][i] = wire[e][i]
         /\ \A i \in 1 .. Len(wire'[e]) :
              \/ wire'[e][i].cmd # "ok"
              \/ i \in 1 .. Len(wire[e]) /\ wire'[e][i] = wire[e][i]
         /\ wire[e] # <<>> => wire'[e] # <<>>
<1>1. wire[e] \in Seq(Frame) BY DEF TypeOK
<1>2. CASE wire'[e] = wire[e] BY <1>1, <1>2
<1>3. ASSUME NEW f \in Frame, f.cmd # "ok", wire'[e] = Append(wire[e], f)
      PROVE  /\ \A i \in 1 .. Len(wire[e]) :
                  i \in 1 .. Len(wire'[e]) /\ wire'[e][i] = wire[e][i]
             /\ \A i \in 1 .. Len(wire'[e]) :
                  \/ wire'[e][i].cmd # "ok"
                  \/ i \in 1 .. Len(wire[e]) /\ wire'[e][i] = wire[e][i]
             /\ wire'[e] # <<>>
  <2>1. /\ Len(wire'[e]) = Len(wire[e]) + 1 /\ wire'[e][Len(wire[e]) + 1] = f
        /\ \A i \in 1 .. Len(wire[e]) : wire'[e][i] = wire[e][i]
    BY <1>1, <1>3, AppendFrames
  <2>2. Len(wire[e]) \in Nat BY <1>1
  <2>3. wire'[e] # <<>> BY <1>1, <1>3
  <2> QED BY <1>3, <2>1, <2>2, <2>3
<1> QED BY <1>2, <1>3 DEF Grow

LEMMA GrowClose ==
  ASSUME TypeOK, Grow("client")
  PROVE  \A i \in Nat : CloseAfter(i) => CloseAfter(i)'
<1> SUFFICES ASSUME NEW i \in Nat, CloseAfter(i) PROVE CloseAfter(i)' OBVIOUS
<1>1. PICK j \in i + 1 .. Len(wire["client"]) : wire["client"][j].cmd = "close"
  BY DEF CloseAfter
<1>2. wire["client"] \in Seq(Frame) BY DEF TypeOK, Ends
<1>3. Len(wire["client"]) \in Nat /\ j \in 1 .. Len(wire["client"])
  BY <1>1, <1>2
<1>4. j \in 1 .. Len(wire'["client"]) /\ wire'["client"][j].cmd = "close"
  BY <1>1, <1>3, GrowKeeps DEF Ends
<1>5. j \in i + 1 .. Len(wire'["client"]) BY <1>1, <1>3, <1>4
<1> QED BY <1>4, <1>5 DEF CloseAfter

\* Such a step leaves what the client waits for on its way, if no copy ends
\* without a close frame.
LEMMA GrowOwed ==
  ASSUME TypeOK, Owed, Told, Linked' => Linked,
         pc'["client"] \in {pc["client"], "gone"}, pc'["server"] = pc["server"],
         dir'["server"].in = dir["server"].in,
         Copying("client", "in")' => Copying("client", "in"),
         Linked' /\ Copying("server", "out") => Copying("server", "out")',
         err["server"] => err'["server"],
         Grow("client"), Grow("server")
  PROVE  Owed' /\ Told'
<1>1. \A e \in Ends :
        /\ \A i \in 1 .. Len(wire[e]) :
             i \in 1 .. Len(wire'[e]) /\ wire'[e][i] = wire[e][i]
        /\ \A i \in 1 .. Len(wire'[e]) :
             \/ wire'[e][i].cmd # "ok"
             \/ i \in 1 .. Len(wire[e]) /\ wire'[e][i] = wire[e][i]
        /\ wire[e] # <<>> => wire'[e] # <<>>
  BY GrowKeeps DEF Ends
<1>2. Dials # {} => Dials' # {} BY <1>1 DEF Dials, Ends
<1>3. Owed' BY <1>1, <1>2 DEF Owed, Ends
<1>4. \A i \in Nat : CloseAfter(i) => CloseAfter(i)' BY GrowClose
<1>5. ASSUME Linked', ~Copying("server", "out")' PROVE Told'
  <2>1. Linked /\ ~Copying("server", "out") BY <1>5
  <2>2. ASSUME pc'["client"] = "dialing", NEW i \in 1 .. Len(wire'["client"]),
               wire'["client"][i].cmd = "ok"
        PROVE  CloseAfter(i)'
    <3>1. i \in 1 .. Len(wire["client"]) /\ wire["client"][i].cmd = "ok"
      BY <1>1, <2>2 DEF Ends
    <3>2. CloseAfter(i) BY <2>1, <2>2, <3>1 DEF Told
    <3> QED BY <1>4, <3>1, <3>2
  <2>3. Copying("client", "in")' => CloseAfter(0)' BY <1>4, <2>1 DEF Told
  <2> QED BY <2>2, <2>3 DEF Told
<1> QED BY <1>3, <1>5 DEF Told

\* What a write and a close do to the wires.
LEMMA WriteGrow ==
  ASSUME IInv, NEW e \in Ends, NEW f \in Frames(Peer(e)), f.cmd # "ok",
         WriteFrame(e, f)
  PROVE  /\ Grow("client") /\ Grow("server")
         /\ err[e] => err'[e]
         /\ \A d \in Ends \ {e} : err'[d] = err[d]
<1>1. /\ wire'[e] = wire[e]
      /\ \/ wire'[Peer(e)] = wire[Peer(e)]
         \/ wire'[Peer(e)] = Append(wire[Peer(e)], f)
  BY WriteKeeps DEF IInv
<1>2. f \in Frame BY Peers, FramesType
<1>3. Grow(e) /\ Grow(Peer(e)) BY <1>1, <1>2 DEF Grow
<1>4. /\ err[e] => err'[e]
      /\ \A d \in Ends \ {e} : err'[d] = err[d]
  BY DEF WriteFrame, IInv, TypeOK
<1> QED BY <1>3, <1>4 DEF Ends, Peer

LEMMA CloseGrow ==
  ASSUME IInv, NEW e \in Ends, Close(e)
  PROVE  /\ Grow("client") /\ Grow("server")
         /\ \A d \in Ends : err[d] => err'[d]
         /\ \A d \in Ends : raw'[d] = "open" => raw[d] = "open"
<1> DEFINE Grown == /\ Grow("client") /\ Grow("server")
                    /\ \A d \in Ends : err[d] => err'[d]
<1>1. ASSUME UNCHANGED <<wire, err>> PROVE Grown BY <1>1 DEF Grow
<1>2. ASSUME WriteFrame(e, CloseFrame) PROVE Grown
  <2>1. CloseFrame \in Frames(Peer(e)) /\ CloseFrame.cmd # "ok"
    BY Peers, FramesType DEF CloseFrame
  <2>2. /\ Grow("client") /\ Grow("server")
        /\ err[e] => err'[e]
        /\ \A d \in Ends \ {e} : err'[d] = err[d]
    BY <1>2, <2>1, WriteGrow
  <2> QED BY <2>2
<1>3. \A d \in Ends : raw'[d] = "open" => raw[d] = "open"
  BY CloseQuiet DEF IInv
<1> QED BY <1>1, <1>2, <1>3 DEF Close

\* The client's steps.
LEMMA ClientDialOwed ==
  ASSUME IInv, ClientDial
  PROVE  Owed' /\ Told'
<1>1. /\ pc["client"] = "idle" /\ pc'["server"] = pc["server"]
      /\ pc'["client"] \in {"gone", "dialing"} /\ dir' = dir
      /\ pc'["client"] = "gone" <=> err'["client"]
      /\ raw'["client"] = "open" => ~err'["client"]
      /\ \A d \in Ends : raw'[d] = "open" => raw[d] = "open"
      /\ cut' = cut
  BY DEF ClientDial, Goto, IInv, TypeOK, Ends
<1>2. Linked' => Linked BY <1>1, LinkLost
<1> DEFINE f == DialFrame(sess + 1)
<1>3. f \in Frame /\ f.cmd = "dial"
  <2>1. sess + 1 \in 0 .. MaxSession /\ 0 \in 0 .. MaxData
    BY ChannelAssumption DEF ClientDial, IInv, TypeOK
  <2> QED BY <2>1 DEF DialFrame, Frame, Commands
<1> HIDE DEF f
<1>4. /\ wire'["client"] = wire["client"]
      /\ Linked' => wire'["server"] = Append(wire["server"], f)
  <2>1. WriteFrame("client", f) BY DEF ClientDial, f
  <2>2. Linked' => ~err'["client"] BY <1>1 DEF Linked, Ends
  <2>3. wire' = wire \/ wire' = [wire EXCEPT !["server"] =
                                   IF Linked THEN Append(@, f) ELSE @]
    BY <2>1 DEF WriteFrame, Peer
  <2>4. Linked' => wire' = [wire EXCEPT !["server"] = Append(@, f)]
    BY <1>2, <2>1, <2>2 DEF WriteFrame, Peer
  <2> QED BY <2>3, <2>4 DEF IInv, TypeOK, Ends
<1>5. ASSUME Linked' PROVE Dials' # {}
  <2>1. wire["server"] \in Seq(Frame) BY DEF IInv, TypeOK, Ends
  <2>2. /\ Len(wire["server"]) + 1 \in 1 .. Len(wire'["server"])
        /\ wire'["server"][Len(wire["server"]) + 1] = f
    BY <1>3, <1>4, <1>5, <2>1, AppendFrames
  <2> QED BY <1>3, <2>2 DEF Dials
<1>6. \A i \in 1 .. Len(wire'["client"]) : wire'["client"][i].cmd # "ok"
  BY <1>1, <1>4 DEF IInv, Order, NoDial, Answers
<1> QED BY <1>1, <1>5, <1>6 DEF Owed, Told, Copying

LEMMA ClientBackOwed ==
  ASSUME IInv, Told, ClientBack
  PROVE  Owed' /\ Told'
<1>1. /\ pc["client"] = "dialing" /\ pc'["server"] = pc["server"]
      /\ pc'["client"] \in {"idle", "piping"}
      /\ Incoming("client") /\ wire' = Taken("client")
      /\ raw' = raw /\ cut' = cut /\ dir'["server"] = dir["server"]
  BY DEF ClientBack, Goto, StartPipe, IInv, TypeOK, Ends
<1>2. Owed' BY <1>1 DEF Owed
<1>3. ASSUME Linked', ~Copying("server", "out")', Copying("client", "in")'
      PROVE  CloseAfter(0)'
  <2>1. Linked /\ ~Copying("server", "out")
    BY <1>1, <1>3 DEF Linked, Copying
  <2>2. /\ wire["client"] \in Seq(Frame) /\ wire["client"] # <<>>
        /\ wire'["client"] = Tail(wire["client"])
    BY <1>1, TakenKeeps DEF IInv, TypeOK, Ends
  <2>3. Head(wire["client"]).cmd = "ok"
    BY <1>1, <1>3 DEF ClientBack, Goto, Copying, IInv, TypeOK, Ends
  <2>4. 1 \in 1 .. Len(wire["client"]) /\ wire["client"][1].cmd = "ok"
    BY <2>2, <2>3
  <2>5. PICK j \in 2 .. Len(wire["client"]) : wire["client"][j].cmd = "close"
    BY <1>1, <2>1, <2>4 DEF Told, CloseAfter
  <2>6. /\ j - 1 \in 1 .. Len(wire'["client"])
        /\ wire'["client"][j - 1] = wire["client"][j]
    BY <2>2, <2>5
  <2> QED BY <2>5, <2>6 DEF CloseAfter
<1>4. Told' BY <1>1, <1>3 DEF Told
<1> QED BY <1>2, <1>4

LEMMA ClientEndsOwed ==
  ASSUME IInv, ClientBackFails \/ ClientDrop \/ ClientPipeEnd \/ Expire
  PROVE  Owed' /\ Told'
<1>1. pc'["client"] \in {"gone", "dropping", "idle"}
  BY DEF ClientBackFails, ClientDrop, ClientPipeEnd, Expire, Goto, IInv, TypeOK,
         Ends
<1> QED BY <1>1 DEF Owed, Told, Copying

\* The server's steps.
LEMMA ServerReadDialOwed ==
  ASSUME IInv, Told, ServerReadDial
  PROVE  Owed' /\ Told'
<1>1. /\ pc["server"] = "reading" /\ pc'["server"] = "dialing"
      /\ pc'["client"] = pc["client"] /\ dir' = dir
      /\ raw' = raw /\ cut' = cut
      /\ wire'["client"] = wire["client"]
  BY TakenKeeps DEF ServerReadDial, Goto, IInv, TypeOK, Ends, Peer
<1>2. Owed' BY <1>1 DEF Owed
<1>3. Told' BY <1>1 DEF Told, Copying, CloseAfter, Linked
<1> QED BY <1>2, <1>3

LEMMA ServerStopOwed ==
  ASSUME IInv, ServerStop
  PROVE  Owed' /\ Told'
<1>1. raw'["server"] = "closed"
  BY DEF ServerStop, Break, IInv, TypeOK, Ends
<1> QED BY <1>1 DEF Owed, Told, Linked, Ends

\* An answer, whichever, is on its way while the link is whole.
LEMMA ServerAnswerOwed ==
  ASSUME IInv, Told, ServerRefuse \/ ServerAccept
  PROVE  Owed' /\ Told'
<1>1. /\ pc["server"] = "dialing" /\ pc'["client"] = pc["client"]
      /\ raw' = raw /\ cut' = cut
      /\ dir'["client"] = dir["client"]
  BY DEF ServerRefuse, ServerAccept, StartPipe, Goto, IInv, TypeOK, Ends
<1>2. Linked' <=> Linked BY <1>1 DEF Linked
<1>3. PICK f \in Frame : /\ f.cmd \in {"ok", "refused"}
                         /\ ServerRefuse => f.cmd = "refused"
                         /\ WriteFrame("server", f)
  <2>1. \A c \in {"ok", "refused"} :
          BackFrame(serving, c) \in Frame /\ BackFrame(serving, c).cmd = c
    BY ChannelAssumption DEF IInv, TypeOK, BackFrame, Frame, Commands
  <2>2. CASE ServerRefuse BY <2>1, <2>2 DEF ServerRefuse
  <2>3. CASE ServerAccept /\ ~ServerRefuse BY <2>1, <2>3 DEF ServerAccept
  <2> QED BY <2>2, <2>3
<1>4. ASSUME Linked PROVE wire'["client"] = Append(wire["client"], f)
  BY <1>3, <1>4 DEF WriteFrame, Linked, Peer, IInv, TypeOK, Ends
<1>5. wire["client"] \in Seq(Frame) BY DEF IInv, TypeOK, Ends
<1>6. Owed'
  <2>1. Linked => wire'["client"] # <<>> BY <1>4, <1>5
  <2> QED BY <1>2, <2>1 DEF Owed
<1>7. CASE ServerAccept
  <2>1. Copying("server", "out")'
    BY <1>7 DEF ServerAccept, StartPipe, Goto, Copying, IInv, TypeOK, Ends
  <2> QED BY <1>6, <2>1 DEF Told
<1>8. ASSUME ServerRefuse, Linked' PROVE Told'
  <2>1. Grow("client") BY <1>2, <1>3, <1>4, <1>8 DEF Grow
  <2>2. /\ ~Copying("server", "out")
        /\ Copying("client", "in")' <=> Copying("client", "in")
    BY <1>1 DEF Copying
  <2>3. \A i \in Nat : CloseAfter(i) => CloseAfter(i)' BY <2>1, GrowClose DEF IInv
  <2>4. ASSUME NEW i \in 1 .. Len(wire'["client"]), wire'["client"][i].cmd = "ok"
        PROVE  i \in 1 .. Len(wire["client"]) /\ wire["client"][i].cmd = "ok"
    BY <2>1, <2>4, GrowKeeps DEF IInv, Ends
  <2> QED BY <1>1, <1>2, <1>8, <2>2, <2>3, <2>4 DEF Told
<1>9. Told' BY <1>7, <1>8 DEF Told
<1> QED BY <1>6, <1>9

LEMMA ServerPipeEndOwed ==
  ASSUME IInv, Owed, Told, ServerPipeEnd
  PROVE  Owed' /\ Told'
<1>1. CASE err["server"]
  <2>1. raw'["server"] = "closed"
    BY <1>1 DEF ServerPipeEnd, Close, IInv, TypeOK, Ends
  <2> QED BY <2>1 DEF Owed, Told, Linked, Ends
<1>2. CASE ~err["server"]
  <2>1. /\ UNCHANGED <<wire, raw, err, cut, dir>>
        /\ pc["server"] = "piping" /\ dir["server"].out = "done"
        /\ pc'["client"] = pc["client"]
    BY <1>2 DEF ServerPipeEnd, PipeDone, Goto, IInv, TypeOK, Ends
  <2>2. ~Copying("server", "out") BY <2>1 DEF Copying
  <2>3. Copying("client", "in")' <=> Copying("client", "in")
    BY <2>1 DEF Copying
  <2>4. Linked' <=> Linked BY <2>1 DEF Linked
  <2>5. \A i \in Nat : CloseAfter(i)' <=> CloseAfter(i) BY <2>1 DEF CloseAfter
  <2>6. Owed' BY <1>2, <2>1, <2>4 DEF Owed, Dials
  <2>7. wire["client"] \in Seq(Frame) BY DEF IInv, TypeOK, Ends
  <2>8. Told' BY <2>1, <2>2, <2>3, <2>4, <2>5, <2>7 DEF Told
  <2> QED BY <2>6, <2>8
<1> QED BY <1>1, <1>2

\* The copies of the client ...
LEMMA ClientReadOwed ==
  ASSUME IInv, Told, PipeData("client") \/ PipeStop("client")
  PROVE  Owed' /\ Told'
<1>1. /\ UNCHANGED <<pc, raw, cut>> /\ pc["client"] = "piping"
      /\ Copying("client", "in") /\ dir'["server"] = dir["server"]
  BY DEF PipeData, PipeStop, Copying, EndCopyIn, IInv, TypeOK, Ends
<1>2. Owed' BY <1>1 DEF Owed
<1>3. CASE EndCopyIn("client")
  <2>1. ~Copying("client", "in")' BY <1>3 DEF EndCopyIn, Copying, IInv, TypeOK, Ends
  <2> QED BY <1>1, <1>2, <2>1 DEF Told
<1>4. ASSUME PipeData("client"), Linked', ~Copying("server", "out")'
      PROVE  CloseAfter(0)'
  <2>1. Linked /\ ~Copying("server", "out") BY <1>1, <1>4 DEF Linked, Copying
  <2>2. PICK j \in 1 .. Len(wire["client"]) : wire["client"][j].cmd = "close"
    BY <1>1, <2>1 DEF Told, CloseAfter
  <2>3. /\ wire["client"] \in Seq(Frame) /\ wire["client"] # <<>>
        /\ wire'["client"] = Tail(wire["client"])
    BY <1>4, TakenKeeps DEF PipeData, IInv, TypeOK, Ends
  <2>4. wire["client"][1].cmd = "data" BY <1>4, <2>3 DEF PipeData
  <2>5. j # 1 BY <2>2, <2>4
  <2>6. /\ j - 1 \in 1 .. Len(wire'["client"])
        /\ wire'["client"][j - 1] = wire["client"][j]
    BY <2>2, <2>3, <2>5
  <2> QED BY <2>2, <2>6 DEF CloseAfter
<1>5. CASE PipeData("client")
  <2>1. Told' BY <1>1, <1>4, <1>5 DEF Told
  <2> QED BY <1>2, <2>1
<1> QED BY <1>3, <1>5 DEF PipeStop

\* ... and of the server.
LEMMA ServerReadOwed ==
  ASSUME IInv, Owed, Told, PipeData("server") \/ PipeStop("server")
  PROVE  Owed' /\ Told'
<1>1. /\ UNCHANGED <<pc, raw, cut>> /\ dir'["client"] = dir["client"]
      /\ pc["server"] = "piping" /\ dir["server"].in = "run"
      /\ dir'["server"].out = dir["server"].out
      /\ wire'["client"] = wire["client"]
  <2>1. wire'["client"] = wire["client"]
    BY TakenKeeps DEF PipeData, PipeStop, IInv, Ends, Peer
  <2>2. \/ dir' = dir
        \/ dir' = [dir EXCEPT !["server"].in = "done"]
    BY DEF PipeData, PipeStop, EndCopyIn
  <2>3. /\ dir \in [Ends -> [in : {"run", "done"}, out : {"run", "done"}]]
        /\ dir["server"] \in [in : {"run", "done"}, out : {"run", "done"}]
    BY DEF IInv, TypeOK, Ends
  <2>4. /\ dir'["client"] = dir["client"]
        /\ dir'["server"].out = dir["server"].out
    BY <2>2, <2>3 DEF Ends
  <2> QED BY <2>1, <2>4 DEF PipeData, PipeStop, Copying
<1>2. Linked' <=> Linked BY <1>1 DEF Linked
<1>3. Told'
  <2>1. /\ Copying("client", "in")' <=> Copying("client", "in")
        /\ Copying("server", "out")' <=> Copying("server", "out")
    BY <1>1 DEF Copying
  <2>2. \A i \in Nat : CloseAfter(i)' <=> CloseAfter(i) BY <1>1 DEF CloseAfter
  <2>3. wire["client"] \in Seq(Frame) BY DEF IInv, TypeOK, Ends
  <2> QED BY <1>1, <1>2, <2>1, <2>2, <2>3 DEF Told
<1>4. ASSUME pc["client"] = "dialing", Linked, wire["client"] = <<>>
      PROVE  \/ Dials' # {}
             \/ dir'["server"].in = "done" /\ err'["server"]
  <2>1. PICK i \in 1 .. Len(wire["server"]) : wire["server"][i].cmd = "dial"
    BY <1>1, <1>4 DEF Owed, Dials
  <2>2. Incoming("server") /\ wire' = Taken("server")
    <3>1. wire["server"] # <<>> /\ ~ReadError("server")
      <4>1. wire["server"] \in Seq(Frame) BY DEF IInv, TypeOK, Ends
      <4>2. wire["server"] # <<>> BY <2>1, <4>1
      <4> QED BY <1>4, <4>2 DEF ReadError, Linked, Ends
    <3> QED BY <3>1 DEF PipeData, PipeStop
  <2>3. /\ wire["server"] \in Seq(Frame) /\ wire["server"] # <<>>
        /\ wire'["server"] = Tail(wire["server"])
    BY <2>2, TakenKeeps DEF IInv, TypeOK, Ends
  <2>4. CASE i = 1
    <3>1. Head(wire["server"]).cmd = "dial" BY <2>1, <2>3, <2>4
    <3>2. ~ReadError("server") BY <1>4, <2>3 DEF ReadError, Linked, Ends
    <3>3. /\ err' = [err EXCEPT !["server"] = @ \/ TRUE]
          /\ EndCopyIn("server")
      BY <3>1, <3>2 DEF PipeData, PipeStop
    <3> QED BY <3>3 DEF EndCopyIn, IInv, TypeOK, Ends
  <2>5. CASE i # 1
    <3>1. /\ i - 1 \in 1 .. Len(wire'["server"])
          /\ wire'["server"][i - 1] = wire["server"][i]
      BY <2>1, <2>3, <2>5
    <3> QED BY <2>1, <3>1 DEF Dials
  <2> QED BY <2>4, <2>5
<1>5. Owed' BY <1>1, <1>2, <1>4 DEF Owed
<1> QED BY <1>3, <1>5

\* What an end writes in a session, its close frame included.
LEMMA WriteOwed ==
  ASSUME IInv, Owed, Told, NEW e \in Ends, PipeSend(e) \/ LocalEnds(e)
  PROVE  Owed' /\ Told'
<1> USE DEF IInv
<1>1. UNCHANGED <<pc, cut>> BY DEF PipeSend, LocalEnds
<1>2. CASE LocalEnds(e)
  <2>1. UNCHANGED <<wire, raw, err, dir>> BY <1>2 DEF LocalEnds
  <2>2. Grow("client") /\ Grow("server") BY <2>1 DEF Grow
  <2> QED BY <1>1, <2>1, <2>2, GrowOwed DEF Copying, Linked
<1>3. CASE PipeSend(e)
  <2> DEFINE f == DataFrame(using[e], sent[e][using[e]] + 1)
  <2>1. f \in Frames(Peer(e)) /\ f.cmd # "ok"
    <3>1. using[e] \in Session BY <1>3, UsingType DEF PipeSend, Copying
    <3>2. sent[e][using[e]] + 1 \in 0 .. MaxData
      BY <1>3, <3>1, StreamBound, SentType DEF PipeSend
    <3> QED BY <3>1, <3>2 DEF DataFrame, Frames, Frame, Commands, Session
  <2>2. WriteFrame(e, f) BY <1>3 DEF PipeSend
  <2> HIDE DEF f
  <2>3. /\ Grow("client") /\ Grow("server")
        /\ err["server"] => err'["server"]
    BY <2>1, <2>2, WriteGrow DEF Ends
  <2>4. \A d \in Ends : raw'[d] = "open" => raw[d] = "open"
    BY <1>3 DEF PipeSend, TypeOK
  <2>5. raw'[e] = "open" => ~err'[e] BY <1>3 DEF PipeSend, TypeOK
  <2>6. /\ \A d \in Ends : dir'[d].in = dir[d].in
        /\ Linked' => \A d \in Ends : dir'[d].out = dir[d].out
    <3>1. dir' = [dir EXCEPT ![e].out = IF err'[e] THEN "done" ELSE @]
      BY <1>3 DEF PipeSend
    <3>2. Linked' => ~err'[e] BY <2>5 DEF Linked
    <3>3. \A d \in Ends : dir[d] \in [in : {"run", "done"}, out : {"run", "done"}]
      BY DEF TypeOK
    <3>4. /\ \A d \in Ends \ {e} : dir'[d] = dir[d]
          /\ dir'[e] = [dir[e] EXCEPT !.out = IF err'[e] THEN "done" ELSE @]
      BY <3>1 DEF TypeOK
    <3> QED BY <3>2, <3>3, <3>4
  <2>7. Linked' => Linked BY <1>1, <2>4, LinkLost
  <2>8. /\ Copying("client", "in")' => Copying("client", "in")
        /\ Linked' /\ Copying("server", "out") => Copying("server", "out")'
    BY <1>1, <2>6 DEF Copying, Ends
  <2> QED BY <1>1, <2>3, <2>6, <2>7, <2>8, GrowOwed DEF Ends
<1> QED BY <1>2, <1>3

\* The close frame of an end, when the link is whole after it.
LEMMA CloseWrites ==
  ASSUME IInv, NEW e \in Ends, Close(e), cut' = cut, Linked'
  PROVE  /\ wire'[Peer(e)] = Append(wire[Peer(e)], CloseFrame)
         /\ wire[Peer(e)] \in Seq(Frame) /\ CloseFrame \in Frame
<1>1. \A d \in Ends : raw'[d] = "open" => raw[d] = "open"
  BY CloseGrow
<1>2. Linked BY <1>1, LinkLost
<1>3. raw'[e] = "open" BY DEF Linked
<1>4. err'[e] # TRUE BY <1>3 DEF Close, IInv, TypeOK
<1>5. Peer(e) \in Ends /\ CloseFrame \in Frame BY Peers, FramesType
<1>6. wire \in [Ends -> Seq(Frame)] BY DEF IInv, TypeOK
<1>7. wire' = [wire EXCEPT ![Peer(e)] = Append(@, CloseFrame)]
  BY <1>2, <1>4 DEF Close, WriteFrame
<1> QED BY <1>5, <1>6, <1>7

LEMMA PipeCloseOwed ==
  ASSUME IInv, Owed, Told, NEW e \in Ends, PipeClose(e)
  PROVE  Owed' /\ Told'
<1>1. UNCHANGED <<pc, cut>> /\ Close(e) BY DEF PipeClose
<1>2. /\ Grow("client") /\ Grow("server")
      /\ err["server"] => err'["server"]
      /\ \A d \in Ends : raw'[d] = "open" => raw[d] = "open"
  BY <1>1, CloseGrow DEF Ends
<1>3. Linked' => Linked BY <1>1, <1>2, LinkLost
<1>4. /\ \A d \in Ends : dir'[d].in = dir[d].in
      /\ \A d \in Ends \ {e} : dir'[d] = dir[d]
  <2>1. \A d \in Ends : dir[d] \in [in : {"run", "done"}, out : {"run", "done"}]
    BY DEF IInv, TypeOK
  <2>2. /\ \A d \in Ends \ {e} : dir'[d] = dir[d]
        /\ dir'[e] = [dir[e] EXCEPT !.out = "done"]
    BY DEF PipeClose, IInv, TypeOK
  <2> QED BY <2>1, <2>2
<1>5. Copying("client", "in")' => Copying("client", "in")
  BY <1>1, <1>4 DEF Copying, Ends
<1>6. CASE e = "client"
  <2>1. Copying("server", "out") => Copying("server", "out")'
    BY <1>1, <1>4, <1>6 DEF Copying, Ends
  <2> QED BY <1>1, <1>2, <1>3, <1>4, <1>5, <2>1, GrowOwed DEF IInv, Ends
<1>7. CASE e = "server"
  <2>1. ASSUME Linked' PROVE wire'["client"] # <<>> /\ Told'
    <3>1. /\ wire'["client"] = Append(wire["client"], CloseFrame)
          /\ wire["client"] \in Seq(Frame) /\ CloseFrame \in Frame
      BY <1>1, <1>7, <2>1, CloseWrites DEF Peer
    <3> DEFINE n == Len(wire["client"]) + 1
    <3>2. /\ Len(wire'["client"]) = n /\ wire'["client"][n].cmd = "close"
          /\ Len(wire["client"]) \in Nat
      BY <3>1, AppendFrames DEF CloseFrame
    <3>3. \A i \in 0 .. Len(wire["client"]) : CloseAfter(i)'
      BY <3>2 DEF CloseAfter
    <3>4. \A i \in 1 .. Len(wire'["client"]) :
            wire'["client"][i].cmd = "ok" => i \in 0 .. Len(wire["client"])
      BY <3>2
    <3> QED BY <3>1, <3>2, <3>3, <3>4 DEF Told
  <2> QED BY <2>1 DEF Owed, Told
<1> QED BY <1>6, <1>7 DEF Ends

\* Datagrams, and what comes from outside.
LEMMA UdpgwOwed ==
  ASSUME IInv, Owed, Told, (\E s \in Session : UdpgwRead(s)) \/ \E m \in late : UdpgwWrite(m)
  PROVE  Owed' /\ Told'
<1>1. UNCHANGED <<pc, cut, raw, dir>> BY DEF UdpgwRead, UdpgwWrite
<1>2. /\ Grow("client") /\ Grow("server")
      /\ err["server"] => err'["server"]
  <2>1. ASSUME NEW s \in Session, UdpgwRead(s)
        PROVE  /\ Grow("client") /\ Grow("server")
               /\ err["server"] => err'["server"]
    BY <2>1 DEF UdpgwRead, Grow
  <2>2. ASSUME NEW m \in late, UdpgwWrite(m)
        PROVE  /\ Grow("client") /\ Grow("server")
               /\ err["server"] => err'["server"]
    <3> DEFINE f == DataFrame(m[1], m[2])
    <3>1. f \in Frames("client") /\ f.cmd # "ok" BY LateFrame DEF IInv
    <3>2. WriteFrame("server", f) BY <2>2 DEF UdpgwWrite
    <3>3. "server" \in Ends /\ Peer("server") = "client" BY DEF Ends, Peer
    <3> HIDE DEF f
    <3> QED BY <3>1, <3>2, <3>3, WriteGrow
  <2> QED BY <2>1, <2>2
<1> QED BY <1>1, <1>2, GrowOwed DEF Copying, Linked, IInv

LEMMA OutsideOwed ==
  ASSUME IInv, Owed, Told, Outside
  PROVE  Owed' /\ Told'
<1>1. CASE Expire BY <1>1, ClientEndsOwed
<1>2. CASE Cut \/ IdleTimeout
  <2>1. ~Linked' BY <1>2 DEF Cut, IdleTimeout, Linked
  <2> QED BY <2>1 DEF Owed, Told
<1>3. CASE Evict \/ ClientList \/ ClientShut \/ ServerShut
  <2>1. UNCHANGED <<pc, dir, cut>>
    BY <1>3 DEF Evict, ClientList, ClientShut, ServerShut
  <2>2. /\ Grow("client") /\ Grow("server")
        /\ err["server"] => err'["server"]
        /\ \A d \in Ends : raw'[d] = "open" => raw[d] = "open"
    <3>1. CASE Close("client") \/ Close("server")
      BY <3>1, CloseGrow DEF Ends
    <3>2. CASE UNCHANGED <<wire, raw, err>> BY <3>2 DEF Grow
    <3> QED BY <1>3, <3>1, <3>2 DEF Evict, ClientList, ClientShut, ServerShut
  <2>3. Linked' => Linked BY <2>1, <2>2, LinkLost
  <2> QED BY <2>1, <2>2, <2>3, GrowOwed DEF Copying, IInv
<1> QED BY <1>1, <1>2, <1>3 DEF Outside

LEMMA NextOwed ==
  ASSUME IInv, Owed, Told, [Next]_vars
  PROVE  Owed' /\ Told'
<1>1. CASE ClientNext
  BY <1>1, ClientDialOwed, ClientBackOwed, ClientEndsOwed DEF ClientNext
<1>2. CASE ServerNext
  BY <1>2, ServerReadDialOwed, ServerStopOwed, ServerAnswerOwed,
     ServerPipeEndOwed DEF ServerNext
<1>3. ASSUME NEW e \in Ends, PipeNext(e) PROVE Owed' /\ Told'
  BY <1>3, ClientReadOwed, ServerReadOwed, WriteOwed, PipeCloseOwed
  DEF PipeNext, Ends
<1>4. CASE (\E s \in Session : UdpgwRead(s)) \/ \E m \in late : UdpgwWrite(m)
  BY <1>4, UdpgwOwed
<1>5. CASE Outside BY <1>5, OutsideOwed
<1>6. CASE UNCHANGED vars
  <2>1. UNCHANGED <<wire, raw, cut, err, pc, dir>> BY <1>6 DEF vars
  <2>2. Grow("client") /\ Grow("server") BY <2>1 DEF Grow
  <2> QED BY <2>1, <2>2, GrowOwed DEF Copying, Linked, IInv
<1> QED BY <1>1, <1>2, <1>3, <1>4, <1>5, <1>6 DEF Next

\* A raw connection that is closed stays closed.
LEMMA RawKept ==
  ASSUME TypeOK, [Next]_vars
  PROVE  \A d \in Ends : raw[d] = "closed" => raw'[d] = "closed"
<1> DEFINE Kept == \A d \in Ends : raw[d] = "closed" => raw'[d] = "closed"
<1>1. ASSUME NEW e \in Ends, Close(e) \/ Break(e) \/ UNCHANGED raw PROVE Kept
  BY <1>1 DEF Close, Break, TypeOK
<1>2. CASE ClientNext
  <2>1. CASE ClientDial BY <2>1 DEF ClientDial, TypeOK
  <2>2. CASE Break("client") \/ Close("client") \/ UNCHANGED raw
    BY <1>1, <2>2 DEF Ends
  <2> QED BY <1>2, <2>1, <2>2 DEF ClientNext, ClientBack, ClientBackFails,
        ClientDrop, ClientPipeEnd
<1>3. CASE ServerNext
  <2>1. Break("server") \/ Close("server") \/ UNCHANGED raw
    BY <1>3 DEF ServerNext, ServerReadDial, ServerStop, ServerRefuse,
       ServerAccept, ServerPipeEnd
  <2> QED BY <1>1, <2>1 DEF Ends
<1>4. ASSUME NEW e \in Ends, PipeNext(e) PROVE Kept
  <2>1. CASE PipeSend(e) BY <2>1 DEF PipeSend, TypeOK
  <2>2. CASE Close(e) \/ UNCHANGED raw BY <1>1, <2>2
  <2> QED BY <1>4, <2>1, <2>2 DEF PipeNext, PipeData, PipeStop, PipeClose,
        LocalEnds
<1>5. CASE \/ \E s \in Session : UdpgwRead(s)
           \/ \E m \in late : UdpgwWrite(m)
           \/ UNCHANGED vars
  BY <1>5 DEF UdpgwRead, UdpgwWrite, vars
<1>6. CASE Outside
  <2>1. Close("client") \/ Close("server") \/ UNCHANGED raw
    BY <1>6 DEF Outside, Expire, Evict, ClientList, ClientShut, ServerShut, Cut,
       IdleTimeout
  <2> QED BY <1>1, <2>1 DEF Ends
<1> QED BY <1>2, <1>3, <1>4, <1>5, <1>6 DEF Next

\* Only ProcConn stops itself, with its raw connection.
LEMMA StoppedKept ==
  ASSUME TypeOK, Released, [Next]_vars
  PROVE  pc'["server"] = "stopped" => raw'["server"] = "closed"
<1> SUFFICES ASSUME pc'["server"] = "stopped" PROVE raw'["server"] = "closed"
  OBVIOUS
<1>1. CASE ServerStop BY <1>1 DEF ServerStop, Break, TypeOK, Ends
<1>2. CASE ServerPipeEnd
  BY <1>2 DEF ServerPipeEnd, Goto, Close, TypeOK, Ends
<1>3. CASE pc["server"] = "stopped"
  BY <1>3, RawKept DEF Released, Ends
<1>4. CASE pc'["server"] = pc["server"] BY <1>3, <1>4
<1>5. CASE ServerReadDial \/ ServerRefuse \/ ServerAccept
  BY <1>5 DEF ServerReadDial, ServerRefuse, ServerAccept, Goto, TypeOK, Ends
<1>6. CASE ClientNext
  BY <1>4, <1>6 DEF ClientNext, ClientDial, ClientBack, ClientBackFails,
     ClientDrop, ClientPipeEnd, Goto, TypeOK, Ends
<1>7. CASE Outside
  BY <1>4, <1>7 DEF Outside, Expire, Evict, ClientList, ClientShut, ServerShut,
     Cut, IdleTimeout, Goto, TypeOK, Ends
<1>8. ASSUME NEW e \in Ends, PipeNext(e) PROVE pc' = pc
  BY <1>8 DEF PipeNext, PipeData, PipeStop, PipeSend, PipeClose, LocalEnds
<1>9. CASE \/ \E s \in Session : UdpgwRead(s)
           \/ \E m \in late : UdpgwWrite(m)
           \/ UNCHANGED vars
  BY <1>4, <1>9 DEF UdpgwRead, UdpgwWrite, vars
<1> QED BY <1>1, <1>2, <1>4, <1>5, <1>6, <1>7, <1>8, <1>9 DEF Next, ServerNext

\* A copy to the local side ends with that closed.
Shut(e) == pc[e] = "piping" /\ dir[e].in = "done" => local[e] = "closed"

LEMMA ShutKept ==
  ASSUME TypeOK, NEW e \in Ends, Shut(e), [Next]_vars
  PROVE  Shut(e)'
<1>1. CASE UNCHANGED <<dir, local>> /\ (pc'[e] = "piping" => pc[e] = "piping")
  BY <1>1 DEF Shut
<1>2. CASE ClientNext /\ ~ClientBack
  <2>1. /\ UNCHANGED <<dir, local>> /\ pc'["client"] # "piping"
        /\ pc'["server"] = pc["server"]
    BY <1>2 DEF ClientNext, ClientDial, ClientBackFails, ClientDrop,
       ClientPipeEnd, Goto, TypeOK, Ends
  <2> QED BY <1>1, <2>1 DEF Ends
<1>3. CASE ServerNext /\ ~ServerAccept
  <2>1. /\ UNCHANGED <<dir, local>> /\ pc'["server"] # "piping"
        /\ pc'["client"] = pc["client"]
    BY <1>3 DEF ServerNext, ServerReadDial, ServerStop, ServerRefuse,
       ServerPipeEnd, Goto, TypeOK, Ends
  <2> QED BY <1>1, <2>1 DEF Ends
<1>4. CASE ClientBack \/ ServerAccept
  <2>1. \/ UNCHANGED <<dir, local>> /\ (pc'[e] = "piping" => pc[e] = "piping")
        \/ dir'[e].in = "run"
        \/ dir'[e] = dir[e] /\ local'[e] = local[e] /\ pc'[e] = pc[e]
    BY <1>4 DEF ClientBack, ServerAccept, StartPipe, Goto, TypeOK, Ends
  <2> QED BY <1>1, <2>1 DEF Shut
<1>5. ASSUME NEW d \in Ends, PipeNext(d) PROVE Shut(e)'
  <2>1. /\ pc' = pc /\ dir \in [Ends -> [in : {"run", "done"}, out : {"run", "done"}]]
        /\ dir[e] \in [in : {"run", "done"}, out : {"run", "done"}]
    BY <1>5 DEF PipeNext, PipeData, PipeStop, PipeSend, PipeClose, LocalEnds,
       TypeOK
  <2>2. CASE UNCHANGED <<dir, local>> BY <1>1, <2>1, <2>2
  <2>3. CASE EndCopyIn(d)
    <3>1. e = d => local'[e] = "closed" BY <2>3 DEF EndCopyIn, TypeOK
    <3>2. e # d => local'[e] = local[e] /\ dir'[e] = dir[e]
      BY <2>3 DEF EndCopyIn, TypeOK
    <3> QED BY <2>1, <3>1, <3>2 DEF Shut
  <2>4. CASE PipeSend(d) \/ PipeClose(d)
    <3>1. \/ dir' = [dir EXCEPT ![d].out = "done"]
          \/ dir' = [dir EXCEPT ![d].out = @]
      BY <2>4 DEF PipeSend, PipeClose
    <3>2. dir'[e].in = dir[e].in BY <2>1, <3>1
    <3>3. local' = local BY <2>4 DEF PipeSend, PipeClose
    <3> QED BY <2>1, <3>2, <3>3 DEF Shut
  <2>5. CASE LocalEnds(d)
    <3>1. dir' = dir /\ (local[e] = "closed" => local'[e] = "closed")
      BY <2>5 DEF LocalEnds, TypeOK
    <3> QED BY <2>1, <3>1 DEF Shut
  <2> QED BY <1>5, <2>2, <2>3, <2>4, <2>5 DEF PipeNext, PipeData, PipeStop
<1>6. CASE \/ \E s \in Session : UdpgwRead(s)
           \/ \E m \in late : UdpgwWrite(m)
           \/ UNCHANGED vars
  BY <1>1, <1>6 DEF UdpgwRead, UdpgwWrite, vars
<1>7. CASE Outside
  <2>1. UNCHANGED <<dir, local>> /\ (pc'[e] = "piping" => pc[e] = "piping")
    BY <1>7 DEF Outside, Expire, Evict, ClientList, ClientShut, ServerShut,
       Cut, IdleTimeout, Goto, TypeOK, Ends
  <2> QED BY <1>1, <2>1
<1> QED BY <1>2, <1>3, <1>4, <1>5, <1>6, <1>7 DEF Next

LEMMA ReleasedKept ==
  ASSUME TypeOK, Released, [Next]_vars
  PROVE  Released'
<1>1. \A e \in Ends : Shut(e)' BY ShutKept DEF Released, Shut
<1> QED BY <1>1, StoppedKept DEF Released, Shut

LEMMA InitOwed == Init => Owed /\ Told /\ Released
<1> SUFFICES ASSUME Init PROVE Owed /\ Told /\ Released OBVIOUS
<1>1. pc["client"] = "idle" /\ pc["server"] = "reading" BY DEF Init, Ends
<1> QED BY <1>1 DEF Owed, Told, Released, Copying, Ends

\* Whoever copies to its local side or reads its channel has something to
\* read, or an error, unless the link is whole and its wire is empty.
LEMMA ReadsOn ==
  ASSUME IInv, NEW e \in Ends, ~CanRead(e)
  PROVE  Linked /\ wire[e] = <<>> /\ raw[e] = "open"
BY DEF IInv, TypeOK, CanRead, ReadError, Incoming, Linked

\* The client's dial, or the close frame of its session, gets the server on.
LEMMA ServerGoesOn ==
  ASSUME IInv, Released, Linked, wire["server"] # <<>>
  PROVE  CanGo("server")
<1>1. CanRead("server") BY ReadsOn DEF Ends
<1>2. pc["server"] \in {"reading", "dialing", "piping"}
  BY DEF IInv, TypeOK, ServerPC, Released, Linked, Ends
<1>3. dir["server"] \in [in : {"run", "done"}, out : {"run", "done"}]
  BY DEF IInv, TypeOK, Ends
<1> QED BY <1>1, <1>2, <1>3 DEF CanGo, Copying, PipeDone, Released, Ends

\* A client that waits for the answer of a dial (cs.go:57, 472-480) or for the
\* end of a session whose user has left (cs.go:238-249), neither of which has a
\* timeout, and a server that serves a channel: somebody can always go on,
\* however many sessions, closes from outside and late datagrams there were.
THEOREM NobodyStuck == Spec => []NeverStuck
<1>1. ASSUME IInv, Ended, Owed, Told, Released
      PROVE  NeverStuck
  <2>1. \A e \in Ends :
          dir[e] \in [in : {"run", "done"}, out : {"run", "done"}]
    BY <1>1 DEF IInv, TypeOK
  <2>2. ASSUME pc["client"] = "dialing", ~CanGo("client")
        PROVE  CanGo("server")
    <3>1. Linked /\ wire["client"] = <<>>
      BY <1>1, <2>2, ReadsOn DEF CanGo, Ends
    <3>2. CASE Dials # {}
      <4>1. wire["server"] \in Seq(Frame) BY <1>1 DEF IInv, TypeOK, Ends
      <4>2. wire["server"] # <<>> BY <3>2, <4>1 DEF Dials
      <4> QED BY <1>1, <3>1, <4>2, ServerGoesOn
    <3>3. CASE pc["server"] = "dialing" BY <3>3 DEF CanGo
    <3>4. CASE pc["server"] = "piping" /\ dir["server"].in = "done"
      BY <1>1, <2>1, <3>4 DEF CanGo, Copying, PipeDone, Released, Ends
    <3> QED BY <1>1, <2>2, <3>1, <3>2, <3>3, <3>4 DEF Owed
  <2>3. ASSUME pc["client"] = "piping", local["client"] # "open",
               ~CanGo("client")
        PROVE  CanGo("server")
    <3>1. dir["client"].out = "done" /\ dir["client"].in = "run"
      BY <2>1, <2>3 DEF CanGo, Copying, PipeDone, Ends
    <3>2. Linked /\ wire["client"] = <<>>
      BY <1>1, <2>3, <3>1, ReadsOn DEF CanGo, Copying, Ends
    <3>3. Copying("server", "out")
      <4>1. ~CloseAfter(0) BY <3>2 DEF CloseAfter
      <4> QED BY <1>1, <2>3, <3>1, <3>2, <4>1 DEF Told, Copying
    <3>4. CASE dir["server"].in = "done"
      BY <1>1, <3>3, <3>4 DEF Released, CanGo, Copying, Ends
    <3>5. CASE dir["server"].in = "run"
      <4>1. Closes # {}
        BY <1>1, <2>3, <3>1, <3>2, <3>3, <3>5 DEF Ended, ClientOut, Copying
      <4>2. wire["server"] \in Seq(Frame) BY <1>1 DEF IInv, TypeOK, Ends
      <4>3. wire["server"] # <<>> BY <4>1, <4>2 DEF Closes
      <4> QED BY <1>1, <3>2, <4>3, ServerGoesOn
    <3> QED BY <2>1, <3>4, <3>5 DEF Ends
  <2>4. ASSUME pc["server"] # "stopped", ~CanGo("server")
        PROVE  Silent
    <3>1. pc["server"] \in {"reading", "dialing", "piping"}
      BY <1>1, <2>4 DEF IInv, TypeOK, ServerPC
    <3>2. ~CanRead("server")
      BY <1>1, <2>1, <2>4, <3>1 DEF CanGo, Copying, PipeDone, Released, Ends
    <3> QED BY <1>1, <3>2, ReadsOn DEF Silent, Linked, Ends
  <2> QED BY <2>2, <2>3, <2>4 DEF NeverStuck, Awaits
<1>2. IInv /\ Ended /\ Doomed /\ [Next]_vars => Ended' /\ Doomed'
  BY NextEnded
<1>3. IInv /\ Owed /\ Told /\ [Next]_vars => Owed' /\ Told' BY NextOwed
<1>4. IInv /\ Released /\ [Next]_vars => Released'
  BY ReleasedKept DEF IInv
<1> QED BY <1>1, <1>2, <1>3, <1>4, InitEnded, InitOwed, SpecIInv, PTL DEF Spec

=============================================================================
