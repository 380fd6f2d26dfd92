---------------------------- MODULE UdpgwProofs -----------------------------
(***************************************************************************)
(* Proofs about Udpgw.tla, for any connection ids, MaxConn and number of   *)
(* sockets: the types, the limit of connList, that what it lists is open,  *)
(* that it is empty in the end, and what leaves an open socket out of it.  *)
(* The order of recent does not matter for these: any entry may be the     *)
(* oldest.                                                                 *)
(***************************************************************************)
EXTENDS Udpgw, FiniteSetTheorems, TLAPS

\* TypeOK but for recent.
Types ==
  /\ connList \in [ConId -> 0 .. MaxBorn]
  /\ born \in 0 .. MaxBorn
  /\ id \in [Socket -> ConId]
  /\ raw \in [Socket -> {"none", "open", "closed"}]
  /\ reader \in
       [Socket -> {"none", "read", "write", "exit", "unlisted", "done"}]
  /\ loop \in {"frame", "limit", "dial", "write", "closing", "ended"}
  /\ cur \in ConId

\* An entry's socket has been opened, and its procRead has not yet removed it.
Held ==
  \A k \in Listed :
    connList[k] <= born /\ reader[connList[k]] \in {"read", "write", "exit"}

\* limitConn has made room, which the other goroutines only make larger.
Room == loop = "dial" => Cardinality(Listed) < MaxConn \/ Listed = {}

IInv == Types /\ Held /\ ListedOpen /\ Room /\ ListLimit /\ EndedEmpty

\* A set of ids is finite.
LEMMA IdsFinite ==
  ASSUME NEW S \in SUBSET ConId
  PROVE  IsFiniteSet(S) /\ Cardinality(S) \in Nat
BY FS_Subset, FS_CardinalityType, UdpgwAssumption

\* An entry that is not nil is a socket.
LEMMA EntrySocket ==
  ASSUME Types
  PROVE  \A k \in Listed : connList[k] \in Socket
BY UdpgwAssumption DEF Types, Listed, Socket

\* Entries leave the list: what holds of the entries holds of those left.
LEMMA Shrinks ==
  ASSUME Types, Held, ListedOpen, Room, ListLimit,
         \A k \in ConId : connList'[k] \in {0, connList[k]},
         born' = born, id' = id,
         \A k \in Listed' : /\ raw'[connList[k]] = "open"
                            /\ reader'[connList[k]] \in
                                 {"read", "write", "exit"},
         loop' = "dial" => loop = "dial"
  PROVE  Held' /\ ListedOpen' /\ Room' /\ ListLimit'
<1>1. /\ Listed' \in SUBSET Listed /\ Listed \in SUBSET ConId
      /\ \A k \in Listed' : connList'[k] = connList[k]
  BY DEF Listed
<1>2. Held' BY <1>1 DEF Held
<1>3. ListedOpen' BY <1>1 DEF ListedOpen
<1>4. IsFiniteSet(Listed) /\ Cardinality(Listed) \in Nat BY <1>1, IdsFinite
<1>5. Cardinality(Listed') <= Cardinality(Listed) /\ Cardinality(Listed') \in Nat
  BY <1>1, <1>4, FS_Subset, FS_CardinalityType
<1>6. Room' BY <1>1, <1>4, <1>5, UdpgwAssumption DEF Room
<1>7. ListLimit'
  <2>1. CASE Cardinality(Listed) <= MaxConn
    BY <1>4, <1>5, <2>1, UdpgwAssumption DEF ListLimit
  <2>2. CASE MaxConn = 0 /\ Cardinality(Listed) = 1
    BY <1>5, <2>2 DEF ListLimit
  <2> QED BY <2>1, <2>2 DEF ListLimit
<1> QED BY <1>2, <1>3, <1>6, <1>7

\* The sockets of S are closed and removed (udpgw.go:49-56, 185-202).
LEMMA DropShrinks ==
  ASSUME Types, Held, ListedOpen, NEW S, Drop(S)
  PROVE  /\ connList' \in [ConId -> 0 .. MaxBorn]
         /\ raw' \in [Socket -> {"none", "open", "closed"}]
         /\ \A k \in ConId : connList'[k] \in {0, connList[k]}
         /\ \A k \in Listed' : connList[k] \notin S
                               /\ k \in Listed /\ raw'[connList[k]] = "open"
<1> USE DEF Types, Drop
<1>1. \A k \in ConId :
        connList'[k] = IF connList[k] \in S THEN 0 ELSE connList[k]
  OBVIOUS
<1>2. \A k \in Listed' : connList[k] \notin S /\ k \in Listed
  BY <1>1 DEF Listed
<1>3. \A k \in Listed : connList[k] \in Socket /\ raw[connList[k]] = "open"
  BY EntrySocket DEF ListedOpen
<1>4. \A k \in Listed' : raw'[connList[k]] = "open" BY <1>2, <1>3
<1>5. connList' \in [ConId -> 0 .. MaxBorn] BY UdpgwAssumption
<1> QED BY <1>1, <1>2, <1>4, <1>5

\* NewUDPGW (udpgw.go:39-47).
LEMMA InitIInv == Init => IInv
<1> SUFFICES ASSUME Init PROVE IInv OBVIOUS
<1> USE UdpgwAssumption DEF Init
<1>1. Types BY DEF Types
<1>2. Listed = {} BY DEF Listed
<1>3. Cardinality(Listed) = 0 BY <1>2, FS_EmptySet
<1> QED BY <1>1, <1>2, <1>3
        DEF IInv, Held, ListedOpen, Room, ListLimit, EndedEmpty

\* limitConn (udpgw.go:185-202): at the limit an entry goes, so that there is
\* room for one.
LEMMA LimitIInv ==
  ASSUME IInv, Limit
  PROVE  IInv'
<1> USE UdpgwAssumption DEF IInv, Limit
<1>1. Listed \in SUBSET ConId /\ Cardinality(Listed) \in Nat
  BY IdsFinite DEF Listed
<1>2. CASE Cardinality(Listed) < MaxConn \/ Listed = {}
  <2>1. UNCHANGED <<connList, recent, raw, born, id, reader, cur>>
        /\ loop' = "dial"
    BY <1>2
  <2>2. Listed' = Listed BY <2>1 DEF Listed
  <2>3. Types' BY <2>1 DEF Types
  <2>4. Held' /\ ListedOpen' BY <2>1, <2>2 DEF Held, ListedOpen
  <2>5. Room' /\ ListLimit' /\ EndedEmpty'
    BY <1>2, <2>1, <2>2 DEF Room, ListLimit, EndedEmpty
  <2> QED BY <2>3, <2>4, <2>5
<1>3. CASE ~(Cardinality(Listed) < MaxConn \/ Listed = {})
  <2>1. PICK k \in Listed : Drop({connList[k]}) BY <1>3 DEF Oldest
  <2>3. /\ connList' \in [ConId -> 0 .. MaxBorn]
        /\ raw' \in [Socket -> {"none", "open", "closed"}]
        /\ \A l \in ConId : connList'[l] \in {0, connList[l]}
        /\ \A l \in Listed' : connList[l] \notin {connList[k]}
                              /\ l \in Listed /\ raw'[connList[l]] = "open"
    BY <2>1, DropShrinks
  <2>4. /\ Listed' \in SUBSET (Listed \ {k})
        /\ \A l \in Listed' : connList'[l] = connList[l]
    BY <2>3 DEF Listed
  <2>5. Types' BY <2>3 DEF Types
  <2>6. Held' /\ ListedOpen' BY <2>3, <2>4 DEF Held, ListedOpen
  <2>7. /\ IsFiniteSet(Listed \ {k})
        /\ Cardinality(Listed \ {k}) = Cardinality(Listed) - 1
    BY <1>1, IdsFinite, FS_RemoveElement
  <2>8. /\ Cardinality(Listed') <= Cardinality(Listed) - 1
        /\ IsFiniteSet(Listed') /\ Cardinality(Listed') \in Nat
    BY <2>4, <2>7, FS_Subset, FS_CardinalityType
  <2>9. Cardinality(Listed') < MaxConn \/ Listed' = {}
    <3>1. CASE Cardinality(Listed) <= MaxConn BY <1>1, <2>8, <3>1
    <3>2. CASE Cardinality(Listed) = 1
      <4>1. Cardinality(Listed') = 0 BY <2>8, <3>2
      <4> QED BY <2>8, <4>1, FS_EmptySet
    <3> QED BY <3>1, <3>2 DEF ListLimit
  <2>10. ListLimit'
    <3>1. CASE Cardinality(Listed') < MaxConn
      BY <2>8, <3>1 DEF ListLimit
    <3>2. CASE Listed' = {}
      <4>1. Cardinality(Listed') = 0 BY <3>2, FS_EmptySet
      <4> QED BY <4>1 DEF ListLimit
    <3> QED BY <2>9, <3>1, <3>2
  <2>11. Room' /\ EndedEmpty' BY <2>9 DEF Room, EndedEmpty
  <2> QED BY <2>5, <2>6, <2>10, <2>11
<1> QED BY <1>2, <1>3

\* The socket of a new id is listed (udpgw.go:119-136).
LEMMA DialIInv ==
  ASSUME IInv, Dial
  PROVE  IInv'
<1> USE UdpgwAssumption DEF IInv
<1> DEFINE c == born + 1
<1>1. /\ c \in Socket /\ cur \in ConId /\ born \in Nat
      /\ loop = "dial" /\ loop' = "write" /\ cur' = cur /\ born' = c
      /\ id' = [id EXCEPT ![c] = cur]
      /\ raw' = [raw EXCEPT ![c] = "open"]
      /\ reader' = [reader EXCEPT ![c] = "read"]
      /\ connList' = [connList EXCEPT ![cur] = c]
  BY DEF Types, Dial, Socket
<1> HIDE DEF c
<1>2. Types'
  <2>1. c \in 0 .. MaxBorn BY <1>1 DEF Socket
  <2> QED BY <1>1, <2>1 DEF Types
<1>3. /\ Listed' = Listed \cup {cur}
      /\ connList'[cur] = c
      /\ \A k \in Listed \ {cur} : connList'[k] = connList[k]
  <2>1. c # 0 BY <1>1 DEF Socket
  <2> QED BY <1>1, <2>1 DEF Listed, Types
<1>4. \A k \in Listed \ {cur} :
        /\ k \in ConId /\ connList[k] \in Socket /\ connList[k] # c
  BY <1>1 DEF Listed, Types, Socket, Held, c
<1>5. Held' /\ ListedOpen'
  <2> SUFFICES ASSUME NEW k \in Listed'
               PROVE  /\ connList'[k] <= born'
                      /\ reader'[connList'[k]] \in {"read", "write", "exit"}
                      /\ id'[connList'[k]] = k
                      /\ raw'[connList'[k]] = "open"
    BY DEF Held, ListedOpen
  <2>1. CASE k = cur
    <3>1. c <= born' BY <1>1 DEF Socket
    <3> QED BY <1>1, <1>3, <2>1, <3>1 DEF Types
  <2>2. CASE k # cur
    <3>1. k \in Listed \ {cur} BY <1>3, <2>2
    <3>2. connList[k] <= born' BY <1>1, <1>4, <3>1 DEF Held, Socket, c
    <3> QED BY <1>1, <1>3, <1>4, <3>1, <3>2 DEF Held, ListedOpen, Types
  <2> QED BY <2>1, <2>2
<1>6. ListLimit'
  <2>1. Listed \in SUBSET ConId BY DEF Listed
  <2>2. IsFiniteSet(Listed) /\ Cardinality(Listed) \in Nat
    BY <2>1, IdsFinite
  <2>3. Cardinality(Listed') = IF cur \in Listed THEN Cardinality(Listed)
                               ELSE Cardinality(Listed) + 1
    BY <1>3, <2>2, FS_AddElement
  <2>4. CASE Cardinality(Listed) < MaxConn
    BY <2>2, <2>3, <2>4 DEF ListLimit
  <2>5. CASE Listed = {}
    <3>1. Cardinality(Listed') = 1 BY <2>3, <2>5, FS_EmptySet
    <3> QED BY <3>1 DEF ListLimit
  <2> QED BY <1>1, <2>4, <2>5 DEF Room
<1>7. Room' /\ EndedEmpty' BY <1>1 DEF Room, EndedEmpty
<1> QED BY <1>2, <1>5, <1>6, <1>7

\* PipeConn's steps that change no entry (udpgw.go:63-141).
LEMMA LoopIInv ==
  ASSUME IInv, (\E k \in ConId : Frame(k)) \/ DialFails \/ Write \/ Ends
  PROVE  IInv'
<1> USE DEF IInv, Frame, DialFails, Write, Ends
<1>1. Types' BY DEF Types
<1>2. /\ \A k \in ConId : connList'[k] \in {0, connList[k]}
      /\ born' = born /\ id' = id /\ loop' \notin {"dial", "ended"}
      /\ Listed' = Listed /\ raw' = raw /\ reader' = reader
  BY DEF Listed
<1>3. Held' /\ ListedOpen' /\ Room' /\ ListLimit'
  BY <1>2, Shrinks DEF Held, ListedOpen
<1>4. EndedEmpty' BY <1>2 DEF EndedEmpty
<1> QED BY <1>1, <1>3, <1>4

\* cloaseAllConn, and the timer (udpgw.go:49-56, 233-253).
LEMMA CloseIInv ==
  ASSUME IInv, CloseAllConn \/ Timeout
  PROVE  IInv'
<1> USE DEF IInv
<1>1. /\ born' = born /\ id' = id /\ reader' = reader /\ cur' = cur
      /\ loop' # "dial" \/ loop' = loop
      /\ loop' \in {"frame", "limit", "dial", "write", "closing", "ended"}
      /\ \E S : Drop(S)
  BY DEF CloseAllConn, Timeout, Types
<1>2. PICK S : Drop(S) BY <1>1
<1>3. /\ connList' \in [ConId -> 0 .. MaxBorn]
      /\ raw' \in [Socket -> {"none", "open", "closed"}]
      /\ \A k \in ConId : connList'[k] \in {0, connList[k]}
      /\ \A k \in Listed' : k \in Listed /\ raw'[connList[k]] = "open"
  BY <1>2, DropShrinks
<1>4. Types' BY <1>1, <1>3 DEF Types
<1>5. Held' /\ ListedOpen' /\ Room' /\ ListLimit'
  BY <1>1, <1>3, Shrinks DEF Held
<1>6. EndedEmpty'
  <2>1. CASE CloseAllConn
    <3>1. Drop({connList[k] : k \in Listed}) BY <2>1 DEF CloseAllConn
    <3>2. Listed' = {} BY <3>1 DEF Drop, Listed, Types
    <3> QED BY <3>2 DEF EndedEmpty
  <2>2. CASE Timeout BY <2>2 DEF Timeout, EndedEmpty
  <2> QED BY <2>1, <2>2
<1> QED BY <1>4, <1>5, <1>6

\* procRead while the socket is open (udpgw.go:170-182).
LEMMA ReadIInv ==
  ASSUME IInv, NEW c \in Socket, Datagram(c) \/ Forward(c) \/ ReadFails(c)
  PROVE  IInv'
<1> USE DEF IInv, Datagram, Forward, ReadFails, Goto
<1>1. Types' BY DEF Types
<1>2. /\ UNCHANGED <<connList, born, id, raw, loop>>
      /\ Listed' = Listed
  BY DEF Listed
<1>3. \A k \in Listed' : reader'[connList[k]] \in {"read", "write", "exit"}
  <2>1. \A k \in Listed : connList[k] \in Socket BY EntrySocket
  <2> QED BY <1>2, <2>1 DEF Held, Types
<1>4. Held' /\ ListedOpen' /\ Room' /\ ListLimit'
  BY <1>2, <1>3, Shrinks DEF ListedOpen, Types
<1>5. EndedEmpty' BY <1>2 DEF EndedEmpty
<1> QED BY <1>1, <1>4, <1>5

\* Its deferred calls (udpgw.go:145-154): the entry of its id goes, and only
\* then is the socket closed.
LEMMA ExitIInv ==
  ASSUME IInv, NEW c \in Socket, Unlist(c) \/ CloseRaw(c)
  PROVE  IInv'
<1> USE UdpgwAssumption DEF IInv, Unlist, CloseRaw, Goto
<1>1. Types' BY DEF Types
<1>2. /\ UNCHANGED <<born, id, loop>>
      /\ \A k \in ConId : connList'[k] \in {0, connList[k]}
  BY DEF Types
<1>3. \A k \in Listed' : k \in Listed /\ connList[k] # c
  <2> SUFFICES ASSUME NEW k \in Listed' PROVE k \in Listed /\ connList[k] # c
    OBVIOUS
  <2>1. k \in Listed BY <1>2 DEF Listed
  <2>2. CASE Unlist(c)
    <3>1. k # id[c] BY <2>2 DEF Listed, Types
    <3> QED BY <2>1, <3>1 DEF ListedOpen
  <2>3. CASE CloseRaw(c) BY <2>1, <2>3 DEF Held
  <2> QED BY <2>1, <2>2, <2>3
<1>4. \A k \in Listed' : /\ raw'[connList[k]] = "open"
                         /\ reader'[connList[k]] \in {"read", "write", "exit"}
  <2>1. \A k \in Listed : connList[k] \in Socket BY EntrySocket
  <2>2. \A k \in Listed' : /\ raw'[connList[k]] = raw[connList[k]]
                           /\ reader'[connList[k]] = reader[connList[k]]
    BY <1>3, <2>1 DEF Types
  <2> QED BY <1>3, <2>2 DEF Held, ListedOpen
<1>5. Held' /\ ListedOpen' /\ Room' /\ ListLimit'
  BY <1>2, <1>4, Shrinks
<1>6. EndedEmpty' BY <1>2, <1>3 DEF EndedEmpty
<1> QED BY <1>1, <1>5, <1>6

\* Every step keeps the invariant.
LEMMA NextIInv == IInv /\ [Next]_vars => IInv'
<1> SUFFICES ASSUME IInv, [Next]_vars PROVE IInv' OBVIOUS
<1>1. CASE PipeConn \/ Timeout
  BY <1>1, LoopIInv, LimitIInv, DialIInv, CloseIInv DEF PipeConn
<1>2. ASSUME NEW c \in Socket, ProcRead(c) PROVE IInv'
  BY <1>2, ReadIInv, ExitIInv DEF ProcRead
<1>3. CASE UNCHANGED vars
  BY <1>3 DEF vars, IInv, Types, Held, ListedOpen, Room, ListLimit,
     EndedEmpty, Listed
<1> QED BY <1>1, <1>2, <1>3 DEF Next

\* The invariant holds in every behaviour of the gateway.
LEMMA SpecIInv == Spec => []IInv
BY InitIInv, NextIInv, PTL DEF Spec

\* The fields of UDPGW and of its sockets keep their types, all but the order
\* of recent: no entry, reader or id is ever one that no socket has.
THEOREM TypesKept == Spec => []Types
BY SpecIInv, PTL DEF IInv

\* connList keeps its limit though limitConn and the dial are two critical
\* sections (udpgw.go:131-133, 185-202).
THEOREM LimitKept == Spec => []ListLimit
BY SpecIInv, PTL DEF IInv

\* An entry is the open socket of its id (udpgw.go:116, 150).
THEOREM EntriesOpen == Spec => []ListedOpen
BY SpecIInv, PTL DEF IInv

\* When PipeConn has ended nothing is listed, then or later (udpgw.go:66).
THEOREM EmptyInTheEnd == Spec => []EndedEmpty
BY SpecIInv, PTL DEF IInv

-----------------------------------------------------------------------------
(***************************************************************************)
(* Sockets that are read and not listed.                                   *)
(***************************************************************************)

\* What is open or has a procRead was made, an entry is the newest socket of
\* its id, and a socket is opened for an id that has none.
Opened == \A c \in Socket : raw[c] = "open" \/ reader[c] # "none" => c <= born
Newest == \A k \in Listed, c \in Socket : c <= born /\ id[c] = k => c <= connList[k]
Absent == loop \in {"limit", "dial"} => connList[cur] = 0

OInv == Opened /\ Newest /\ Absent /\ OrphanByLateExit

\* NewUDPGW.
LEMMA InitOInv == Init => OInv
BY UdpgwAssumption
   DEF Init, OInv, Opened, Newest, Absent, OrphanByLateExit, Reading, Listed

\* Entries leave the list, and the sockets of those that leave it are closed,
\* or are of a later socket than a procRead that has gone.
LEMMA OrphansKept ==
  ASSUME IInv, OInv,
         \A k \in ConId : connList'[k] \in {0, connList[k]},
         born' = born, id' = id,
         \A c \in Socket :
           /\ raw'[c] \in {raw[c], "closed"}
           /\ reader[c] = "none" => reader'[c] = "none"
           /\ reader[c] \in {"unlisted", "done"} =>
                reader'[c] \in {"unlisted", "done"}
           /\ reader'[c] \in {"read", "write"} =>
                reader[c] \in {"read", "write"},
         \A c \in Socket : Reading(c)' /\ connList[id[c]] = c =>
           \/ connList'[id[c]] = c
           \/ \E d \in 1 .. c - 1 :
                id[d] = id[c] /\ reader'[d] \in {"unlisted", "done"},
         loop' \in {"limit", "dial"} => connList'[cur'] = 0
  PROVE  OInv'
<1> USE DEF OInv
<1>1. Opened' BY DEF Opened
<1>2. Newest'
  <2>1. \A k \in Listed' : k \in Listed /\ connList'[k] = connList[k]
    BY DEF Listed
  <2> QED BY <2>1 DEF Newest
<1>3. Absent' BY DEF Absent
<1>4. OrphanByLateExit'
  <2> SUFFICES ASSUME NEW c \in Socket, Reading(c)', connList'[id'[c]] # c
               PROVE  \E d \in 1 .. c - 1 :
                        id'[d] = id'[c] /\ reader'[d] \in {"unlisted", "done"}
    BY DEF OrphanByLateExit
  <2>1. CASE connList[id[c]] = c BY <2>1
  <2>2. CASE connList[id[c]] # c
    <3>1. Reading(c) BY DEF Reading
    <3>2. PICK d \in 1 .. c - 1 :
            id[d] = id[c] /\ reader[d] \in {"unlisted", "done"}
      BY <2>2, <3>1 DEF OrphanByLateExit
    <3>3. d \in Socket BY UdpgwAssumption DEF Socket
    <3> QED BY <3>2, <3>3
  <2> QED BY <2>1, <2>2
<1> QED BY <1>1, <1>2, <1>3, <1>4

\* The sockets of S are closed and removed: those that stay open stay listed.
LEMMA DropOrphans ==
  ASSUME IInv, OInv, NEW S, Drop(S), born' = born, id' = id, reader' = reader,
         loop' \in {"limit", "dial"} => loop \in {"limit", "dial"} /\ cur' = cur
  PROVE  OInv'
<1> USE UdpgwAssumption DEF IInv, Types, Drop
<1>1. \A c \in Socket : raw'[c] \in {raw[c], "closed"} OBVIOUS
<1>2. \A k \in ConId :
        connList'[k] = IF connList[k] \in S THEN 0 ELSE connList[k]
  OBVIOUS
<1>3. \A c \in Socket : Reading(c)' /\ connList[id[c]] = c =>
        connList'[id[c]] = c
  <2> SUFFICES ASSUME NEW c \in Socket, Reading(c)', connList[id[c]] = c
               PROVE  connList'[id[c]] = c
    OBVIOUS
  <2>1. c \notin S BY DEF Reading
  <2> QED BY <1>2, <2>1
<1>4. loop' \in {"limit", "dial"} => connList'[cur'] = 0
  BY <1>2 DEF OInv, Absent
<1> QED BY <1>1, <1>2, <1>3, <1>4, OrphansKept

\* The socket of a new id is listed, and the id had none (udpgw.go:119-136).
LEMMA DialOrphans ==
  ASSUME IInv, OInv, Dial
  PROVE  OInv'
<1> USE UdpgwAssumption DEF IInv, OInv
<1> DEFINE c == born + 1
<1>1. /\ c \in Socket /\ cur \in ConId /\ born \in Nat
      /\ loop = "dial" /\ loop' = "write" /\ born' = c
      /\ id' = [id EXCEPT ![c] = cur]
      /\ raw' = [raw EXCEPT ![c] = "open"]
      /\ reader' = [reader EXCEPT ![c] = "read"]
      /\ connList' = [connList EXCEPT ![cur] = c]
  BY DEF Types, Dial, Socket
<1>2. \A d \in Socket : d <= born' => d <= born \/ d = c
  BY <1>1 DEF Socket
<1>3. \A d \in Socket : d <= born => d # c /\ d <= c /\ d <= born'
  BY <1>1 DEF Socket
<1>4. connList[cur] = 0 BY <1>1 DEF Absent
<1>5. c # 0 /\ c <= c BY <1>1 DEF Socket
<1> HIDE DEF c
<1>6. Opened' BY <1>1, <1>3, <1>5 DEF Opened, Types
<1>7. Newest'
  <2> SUFFICES ASSUME NEW k \in Listed', NEW d \in Socket, d <= born', id'[d] = k
               PROVE  d <= connList'[k]
    BY DEF Newest
  <2>1. CASE k = cur
    <3>1. connList'[k] = c BY <1>1, <2>1 DEF Types
    <3> QED BY <1>2, <1>3, <1>5, <3>1
  <2>2. CASE k # cur
    <3>1. k \in Listed /\ connList'[k] = connList[k]
      BY <1>1, <2>2 DEF Listed, Types
    <3>2. d # c BY <1>1, <2>2 DEF Types
    <3>3. d <= born /\ id[d] = k BY <1>1, <1>2, <3>2 DEF Types
    <3> QED BY <3>1, <3>3 DEF Newest
  <2> QED BY <2>1, <2>2
<1>8. Absent' BY <1>1 DEF Absent
<1>9. OrphanByLateExit'
  <2> SUFFICES ASSUME NEW e \in Socket, Reading(e)', connList'[id'[e]] # e
               PROVE  \E d \in 1 .. e - 1 :
                        id'[d] = id'[e] /\ reader'[d] \in {"unlisted", "done"}
    BY DEF OrphanByLateExit
  <2>1. e # c BY <1>1 DEF Types
  <2>2. Reading(e) /\ id'[e] = id[e] BY <1>1, <2>1 DEF Reading, Types
  <2>3. connList[id[e]] # e
    <3>1. CASE id[e] = cur BY <1>4, <3>1 DEF Socket
    <3>2. CASE id[e] # cur BY <1>1, <2>2, <3>2 DEF Types
    <3> QED BY <3>1, <3>2
  <2>4. PICK d \in 1 .. e - 1 :
          id[d] = id[e] /\ reader[d] \in {"unlisted", "done"}
    BY <2>2, <2>3 DEF OrphanByLateExit
  <2>5. d \in Socket BY DEF Socket
  <2>6. d <= born BY <2>4, <2>5 DEF Opened
  <2>7. id'[d] = id[d] /\ reader'[d] = reader[d]
    BY <1>1, <1>3, <2>5, <2>6 DEF Types
  <2> QED BY <2>2, <2>4, <2>7
<1> QED BY <1>6, <1>7, <1>8, <1>9

\* procRead (udpgw.go:145-182): the entry that goes with the id of a socket is
\* that of a later one, or its own.
LEMMA ReadOrphans ==
  ASSUME IInv, OInv, NEW c \in Socket, ProcRead(c)
  PROVE  OInv'
<1> USE UdpgwAssumption DEF IInv, Types, ProcRead, Datagram, Forward, ReadFails,
                            Unlist, CloseRaw, Goto
<1>1. /\ born' = born /\ id' = id /\ loop' = loop /\ cur' = cur
      /\ \A k \in ConId : connList'[k] \in {0, connList[k]}
      /\ \A d \in Socket : raw'[d] \in {raw[d], "closed"}
  OBVIOUS
<1>2. \A d \in Socket :
        /\ reader[d] = "none" => reader'[d] = "none"
        /\ reader[d] \in {"unlisted", "done"} =>
             reader'[d] \in {"unlisted", "done"}
        /\ reader'[d] \in {"read", "write"} => reader[d] \in {"read", "write"}
  OBVIOUS
<1>3. ASSUME NEW e \in Socket, Reading(e)', connList[id[e]] = e,
             connList'[id[e]] # e
      PROVE  \E d \in 1 .. e - 1 :
               id[d] = id[e] /\ reader'[d] \in {"unlisted", "done"}
  <2>1. /\ Unlist(c) /\ reader[c] = "exit" /\ reader'[c] = "unlisted"
        /\ id[e] = id[c]
    BY <1>3
  <2>2. c # e BY <1>3, <2>1 DEF Reading
  <2>3. c <= born BY <2>1 DEF OInv, Opened
  <2>4. id[c] \in Listed BY <1>3, <2>1 DEF Listed, Socket
  <2>5. c <= e BY <1>3, <2>1, <2>3, <2>4 DEF OInv, Newest
  <2>6. c \in 1 .. e - 1 BY <2>2, <2>5 DEF Socket
  <2> QED BY <2>1, <2>6
<1>4. loop' \in {"limit", "dial"} => connList'[cur'] = 0
  BY <1>1 DEF OInv, Absent
<1> QED BY <1>1, <1>2, <1>3, <1>4, OrphansKept

\* Every step keeps what is said of orphans.
LEMMA NextOInv == IInv /\ OInv /\ [Next]_vars => OInv'
<1> SUFFICES ASSUME IInv, OInv, [Next]_vars PROVE OInv' OBVIOUS
<1>1. CASE /\ UNCHANGED <<connList, born, id, raw, reader>>
           /\ loop' \in {"limit", "dial"} => connList[cur'] = 0
  BY <1>1, OrphansKept DEF IInv, Types
<1>2. ASSUME NEW k \in ConId, Frame(k) PROVE OInv' BY <1>1, <1>2 DEF Frame
<1>3. CASE DialFails \/ Write \/ Ends BY <1>1, <1>3 DEF DialFails, Write, Ends
<1>4. CASE Limit
  <2>1. CASE UNCHANGED <<connList, recent, raw>>
    BY <1>1, <1>4, <2>1 DEF Limit, OInv, Absent
  <2>2. CASE \E k \in Oldest : Drop({connList[k]})
    BY <1>4, <2>2, DropOrphans DEF Limit
  <2> QED BY <1>4, <2>1, <2>2 DEF Limit
<1>5. CASE CloseAllConn BY <1>5, DropOrphans DEF CloseAllConn
<1>6. CASE Timeout BY <1>6, DropOrphans DEF Timeout
<1>7. CASE UNCHANGED vars BY <1>1, <1>7 DEF vars, OInv, Absent
<1> QED
  BY <1>2, <1>3, <1>4, <1>5, <1>6, <1>7, DialOrphans, ReadOrphans
     DEF Next, PipeConn

\* A socket that is read and not listed lost its entry to the late procRead of
\* an older socket with its id (udpgw.go:150), and in no other way.
THEOREM OrphansByLateExit == Spec => []OrphanByLateExit
<1>1. Spec => []OInv BY InitOInv, NextOInv, SpecIInv, PTL DEF Spec
<1> QED BY <1>1, PTL DEF OInv
=============================================================================
