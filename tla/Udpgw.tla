------------------------------- MODULE Udpgw --------------------------------
(***************************************************************************)
(* One udpgw.UDPGW (udpgw/udpgw.go): the loop of PipeConn that turns the   *)
(* frames of a channel into datagrams, one UDP socket per connection id,   *)
(* the procRead goroutine of each socket, and the timer of procTimeout.    *)
(* connLock covers connList; a socket is closed and left to its procRead,  *)
(* which removes the entry of its id from connList when it ends.           *)
(*                                                                         *)
(* A socket is the number of its creation.                                 *)
(***************************************************************************)
EXTENDS Naturals, Sequences, FiniteSets

CONSTANTS
  ConId,     \* connection ids, chosen by the client
  MaxConn,   \* UDPGW.MaxConn
  MaxBorn    \* bound: sockets opened

ASSUME UdpgwAssumption ==
  /\ IsFiniteSet(ConId) /\ ConId # {}
  /\ MaxConn \in Nat
  /\ MaxBorn \in Nat

Socket == 1 .. MaxBorn

VARIABLES
  connList,  \* UDPGW.connList: the socket of each id, 0 for none
  recent,    \* the sockets of connList from the oldest latest to the newest
  born,      \* sockets opened so far
  id,        \* UDPConn.conid
  raw,       \* UDPConn.raw
  reader,    \* the procRead goroutine of each socket
  loop,      \* where PipeConn is
  cur        \* the connection id of the frame in procData

vars == <<connList, recent, born, id, raw, reader, loop, cur>>

TypeOK ==
  /\ connList \in [ConId -> 0 .. MaxBorn]
  /\ recent \in Seq(Socket)
  /\ born \in 0 .. MaxBorn
  /\ id \in [Socket -> ConId]
  /\ raw \in [Socket -> {"none", "open", "closed"}]
  /\ reader \in
       [Socket -> {"none", "read", "write", "exit", "unlisted", "done"}]
  /\ loop \in {"frame", "limit", "dial", "write", "closing", "ended"}
  /\ cur \in ConId

Init ==
  /\ cur = CHOOSE k \in ConId : TRUE
  /\ connList = [k \in ConId |-> 0]
  /\ recent = <<>>
  /\ born = 0
  /\ id = [c \in Socket |-> cur]
  /\ raw = [c \in Socket |-> "none"]
  /\ reader = [c \in Socket |-> "none"]
  /\ loop = "frame"

Listed == {k \in ConId : connList[k] # 0}

\* The id whose socket has the oldest latest.
Oldest == {k \in Listed : connList[k] = Head(recent)}

\* The sockets of S are closed and leave connList, in one critical section.
Drop(S) ==
  /\ connList' = [k \in ConId |-> IF connList[k] \in S THEN 0 ELSE connList[k]]
  /\ raw' = [c \in Socket |-> IF c \in S THEN "closed" ELSE raw[c]]
  /\ recent' = SelectSeq(recent, LAMBDA c : c \notin S)

\* latest becomes the time of now.
Touched(c) ==
  IF \E i \in 1 .. Len(recent) : recent[i] = c
  THEN Append(SelectSeq(recent, LAMBDA d : d # c), c)
  ELSE recent

-----------------------------------------------------------------------------
(***************************************************************************)
(* PipeConn and procData, one goroutine.                                   *)
(***************************************************************************)

\* A frame for id k: its socket is looked up, or there is none.
Frame(k) ==
  /\ loop = "frame"
  /\ cur' = k
  /\ loop' = IF connList[k] # 0 THEN "write" ELSE "limit"
  /\ UNCHANGED <<connList, recent, born, id, raw, reader>>

\* Faults of Limit: one entry too many, and a socket removed but left open.
LimitOver ==
  /\ loop = "limit"
  /\ loop' = "dial"
  /\ IF Cardinality(Listed) <= MaxConn \/ Listed = {}
     THEN UNCHANGED <<connList, recent, raw>>
     ELSE \E k \in Oldest : Drop({connList[k]})
  /\ UNCHANGED <<born, id, reader, cur>>

LimitForgets ==
  /\ loop = "limit"
  /\ loop' = "dial"
  /\ IF Cardinality(Listed) < MaxConn \/ Listed = {}
     THEN UNCHANGED <<connList, recent>>
     ELSE \E k \in Oldest : /\ connList' = [connList EXCEPT ![k] = 0]
                            /\ recent' = Tail(recent)
  /\ UNCHANGED <<raw, born, id, reader, cur>>

\* limitConn makes room for one entry: the oldest is closed and removed.
Limit ==
  /\ loop = "limit"
  /\ loop' = "dial"
  /\ IF Cardinality(Listed) < MaxConn \/ Listed = {}
     THEN UNCHANGED <<connList, recent, raw>>
     ELSE \E k \in Oldest : Drop({connList[k]})
  /\ UNCHANGED <<born, id, reader, cur>>

DialFails ==
  /\ loop = "dial"
  /\ loop' = "frame"
  /\ UNCHANGED <<connList, recent, born, id, raw, reader, cur>>

\* The socket of the id is opened, listed, and its procRead started.
Dial ==
  /\ loop = "dial"
  /\ born < MaxBorn
  /\ LET c == born + 1 IN
     /\ born' = c
     /\ id' = [id EXCEPT ![c] = cur]
     /\ raw' = [raw EXCEPT ![c] = "open"]
     /\ reader' = [reader EXCEPT ![c] = "read"]
     /\ connList' = [connList EXCEPT ![cur] = c]
     /\ recent' = Append(recent, c)
  /\ loop' = "write"
  /\ UNCHANGED cur

\* The datagram is written; that the socket is closed by now is an error that
\* PipeConn ignores.
Write ==
  /\ loop = "write"
  /\ recent' = Touched(connList[cur])
  /\ loop' = "frame"
  /\ UNCHANGED <<connList, born, id, raw, reader, cur>>

\* The channel ends, and PipeConn's deferred calls run.
Ends ==
  /\ loop = "frame"
  /\ loop' = "closing"
  /\ UNCHANGED <<connList, recent, born, id, raw, reader, cur>>

\* Fault of CloseAllConn: the sockets are closed and stay listed.
CloseAllConnKeeps ==
  /\ loop = "closing"
  /\ loop' = "ended"
  /\ raw' = [c \in Socket |-> IF c \in {connList[k] : k \in Listed}
                             THEN "closed" ELSE raw[c]]
  /\ UNCHANGED <<connList, recent, born, id, reader, cur>>

CloseAllConn ==
  /\ loop = "closing"
  /\ loop' = "ended"
  /\ Drop({connList[k] : k \in Listed})
  /\ UNCHANGED <<born, id, reader, cur>>

-----------------------------------------------------------------------------
(***************************************************************************)
(* procRead of socket c, and procTimeout.                                  *)
(***************************************************************************)

Goto(c, to) == reader' = [reader EXCEPT ![c] = to]

Datagram(c) ==
  /\ reader[c] = "read"
  /\ raw[c] = "open"
  /\ recent' = Touched(c)
  /\ Goto(c, "write")
  /\ UNCHANGED <<connList, born, id, raw, loop, cur>>

\* The frame is written to the channel, or the channel is broken.
Forward(c) ==
  /\ reader[c] = "write"
  /\ \/ Goto(c, "read")
     \/ Goto(c, "exit")
  /\ UNCHANGED <<connList, recent, born, id, raw, loop, cur>>

\* The socket is closed, or reports an error (port unreachable, for one).
ReadFails(c) ==
  /\ reader[c] = "read"
  /\ Goto(c, "exit")
  /\ UNCHANGED <<connList, recent, born, id, raw, loop, cur>>

\* The deferred delete is by the id, whichever socket the id has by now.
Unlist(c) ==
  /\ reader[c] = "exit"
  /\ Goto(c, "unlisted")
  /\ connList' = [connList EXCEPT ![id[c]] = 0]
  /\ recent' = SelectSeq(recent, LAMBDA d : d # connList[id[c]])
  /\ UNCHANGED <<born, id, raw, loop, cur>>

CloseRaw(c) ==
  /\ reader[c] = "unlisted"
  /\ Goto(c, "done")
  /\ raw' = [raw EXCEPT ![c] = "closed"]
  /\ UNCHANGED <<connList, recent, born, id, loop, cur>>

\* Fault of Timeout: the entry is left to procRead.
TimeoutKeeps ==
  /\ loop # "ended"
  /\ recent # <<>>
  /\ raw' = [raw EXCEPT ![Head(recent)] = "closed"]
  /\ UNCHANGED <<connList, recent, born, id, reader, loop, cur>>

\* A tick: the sockets whose latest is too long ago, as long as the gateway is
\* in allUDPGW.
Timeout ==
  /\ loop # "ended"
  /\ \E n \in 1 .. Len(recent) : Drop({recent[i] : i \in 1 .. n})
  /\ UNCHANGED <<born, id, reader, loop, cur>>

-----------------------------------------------------------------------------

PipeConn ==
  \/ \E k \in ConId : Frame(k)
  \/ Limit \/ DialFails \/ Dial \/ Write \/ Ends \/ CloseAllConn

ProcRead(c) ==
  \/ Datagram(c) \/ Forward(c) \/ ReadFails(c) \/ Unlist(c) \/ CloseRaw(c)

Next ==
  \/ PipeConn
  \/ \E c \in Socket : ProcRead(c)
  \/ Timeout

Spec == Init /\ [][Next]_vars

-----------------------------------------------------------------------------
(***************************************************************************)
(* Properties.                                                             *)
(***************************************************************************)

\* limitConn keeps connList at MaxConn entries, though it counts and makes
\* room in one critical section and procData adds the entry in a later one.
\* (It makes room for one entry even when MaxConn is 0.)
ListLimit ==
  \/ Cardinality(Listed) <= MaxConn
  \/ MaxConn = 0 /\ Cardinality(Listed) = 1

\* An entry of connList is the socket of that id, and its raw is open: procData
\* writes to a closed socket only if it closes between lookup and write.
ListedOpen ==
  \A k \in Listed : id[connList[k]] = k /\ raw[connList[k]] = "open"

\* When the channel's session is over no socket is listed, now or later.
EndedEmpty == loop = "ended" => Listed = {}

Reading(c) == raw[c] = "open" /\ reader[c] \in {"read", "write"}

\* A socket that is read from and not in connList, which no limit, timeout or
\* end of the session will close, lost its entry to the late procRead of an
\* older socket of the same id.
OrphanByLateExit ==
  \A c \in Socket : Reading(c) /\ connList[id[c]] # c =>
    \E d \in 1 .. c - 1 : id[d] = id[c] /\ reader[d] \in {"unlisted", "done"}
=============================================================================
