------------------------------- MODULE Tunnel -------------------------------
(***************************************************************************)
(* What one channel promises to the sessions that share it: a sequence of  *)
(* private byte streams, one at a time.  A session is open at the client   *)
(* only once the server has opened the same session, an end has at most    *)
(* one session open, and what an end receives in a session is a prefix of  *)
(* what the other end sent in that session, in order and without           *)
(* repetition.  Nothing is promised about delivery: a session may end at   *)
(* any time, and each end may end it on its own.                           *)
(*                                                                         *)
(* The client's end promises less from the first session that carries      *)
(* datagrams on: the server may send for such a session when it is over    *)
(* too, and its messages may reach a later one, or get there out of turn,  *)
(* but none reaches the client twice.                                      *)
(*                                                                         *)
(* Channel.tla, the model of core/cs.go, implements this specification.    *)
(***************************************************************************)
EXTENDS Naturals, Sequences

CONSTANTS
  MaxSession,
  MaxData,
  Datagram     \* the sessions that carry datagrams

Session == 1 .. MaxSession
Ends == {"client", "server"}
Peer(e) == IF e = "client" THEN "server" ELSE "client"

VARIABLES
  phase,   \* phase[e][s]: what session s is at end e
  sent,    \* sent[e][s]: messages end e has sent in session s
  got      \* got[e][s]: messages end e has received in session s

vars == <<phase, sent, got>>

Phases == {"new", "dialing", "open", "over", "refused"}

Init ==
  /\ phase = [e \in Ends |-> [s \in Session |-> "new"]]
  /\ sent = [e \in Ends |-> [s \in Session |-> 0]]
  /\ got = [e \in Ends |-> [s \in Session |-> <<>>]]

Move(e, s, from, to) ==
  /\ phase[e][s] = from
  /\ phase' = [phase EXCEPT ![e][s] = to]
  /\ UNCHANGED <<sent, got>>

Busy(e) == \E s \in Session : phase[e][s] \in {"dialing", "open"}

\* Sessions are dialed in turn; a dial may fail before it leaves the client.
Dial(s) ==
  /\ ~Busy("client")
  /\ \A t \in Session : phase["client"][t] = "new" <=> t >= s
  /\ \E to \in {"dialing", "over"} : Move("client", s, "new", to)

\* A session the client has dialed reaches the server, in dial order.
Hear(s) ==
  /\ ~Busy("server")
  /\ phase["client"][s] # "new"
  /\ \A t \in Session : t > s => phase["server"][t] = "new"
  /\ Move("server", s, "new", "dialing")

Accept(s) == Move("server", s, "dialing", "open")
Refuse(s) == Move("server", s, "dialing", "refused")

Open(s) ==
  /\ phase["server"][s] \in {"open", "over"}
  /\ Move("client", s, "dialing", "open")

\* The client gives up a dial, whatever the server has done with it.
Fail(s) == Move("client", s, "dialing", "over")

End(e, s) == Move(e, s, "open", "over")

Send(e, s) ==
  /\ phase[e][s] = "open"
  /\ sent[e][s] < MaxData
  /\ sent' = [sent EXCEPT ![e][s] = @ + 1]
  /\ UNCHANGED <<phase, got>>

\* The datagrams of a session may go on after it.
SendLate(s) ==
  /\ s \in Datagram
  /\ phase["server"][s] = "over"
  /\ sent["server"][s] < MaxData
  /\ sent' = [sent EXCEPT !["server"][s] = @ + 1]
  /\ UNCHANGED <<phase, got>>

\* The sessions up to s whose messages may reach the client in s.
Foreign(s) == Datagram \cap 1 .. s

Receive(e, s) ==
  /\ phase[e][s] = "open"
  /\ e = "server" \/ Foreign(s) = {}
  /\ Len(got[e][s]) < sent[Peer(e)][s]
  /\ got' = [got EXCEPT ![e][s] = Append(@, <<s, Len(@) + 1>>)]
  /\ UNCHANGED <<phase, sent>>

Received(m) ==
  \E s \in Session : \E i \in 1 .. Len(got["client"][s]) :
    got["client"][s][i] = m

\* A message sent in this session or in a datagram session up to it.
ReceiveStray(s) ==
  /\ phase["client"][s] = "open"
  /\ Foreign(s) # {}
  /\ \E t \in {s} \cup Foreign(s) : \E n \in 1 .. sent["server"][t] :
       /\ ~Received(<<t, n>>)
       /\ got' = [got EXCEPT !["client"][s] = Append(@, <<t, n>>)]
  /\ UNCHANGED <<phase, sent>>

Next ==
  \E s \in Session :
    \/ Dial(s) \/ Hear(s) \/ Accept(s) \/ Refuse(s) \/ Open(s) \/ Fail(s)
    \/ ReceiveStray(s) \/ SendLate(s)
    \/ \E e \in Ends : End(e, s) \/ Send(e, s) \/ Receive(e, s)

Spec == Init /\ [][Next]_vars
=============================================================================
