----------------------------- MODULE PoolProofs -----------------------------
(***************************************************************************)
(* Proofs about Pool.tla, for any set of requests and any MaxIdle, TryMax  *)
(* and bounds: the type invariant, that every channel is in one place,     *)
(* that the pool implements Lease.tla, that the retries of a request run   *)
(* out, and that Close never finds the channel of its first message full.  *)
(***************************************************************************)
EXTENDS Pool, TLAPS

\* What the maps hold are channels that have been made.
Made == idles \cup retired \cup conns \subseteq 1 .. born

\* The inductive invariant.
IInv == TypeOK /\ Made /\ Exclusive /\ NoneLost /\ ConnsNotIdle

\* Initially no channel exists (NewClient, cs.go:295-318).
LEMMA InitIInv == Init => IInv
  BY PoolAssumption DEF Init, IInv, TypeOK, Made, Exclusive, NoneLost,
     ConnsNotIdle, Holds, Holding, RequestPC, Channel

\* DialBack's loop counter stays below TryMax.
LEMMA RetryType ==
  ASSUME TypeOK, NEW r \in Request, Retry(r)
  PROVE  /\ pc' \in [Request -> RequestPC]
         /\ tries' \in [Request -> 0 .. TryMax - 1]
<1> USE PoolAssumption DEF TypeOK, Retry, Goto, RequestPC
<1>1. CASE tries[r] + 1 < TryMax
  <2>1. tries[r] + 1 \in 0 .. TryMax - 1 BY <1>1
  <2> QED BY <1>1, <2>1
<1>2. CASE ~(tries[r] + 1 < TryMax)
  <2>1. 0 \in 0 .. TryMax - 1 OBVIOUS
  <2> QED BY <1>2, <2>1
<1> QED BY <1>1, <1>2

\* pushConn keeps the types, and closes idle channels only.
LEMMA PushType ==
  ASSUME TypeOK, NEW r \in Request, held[r] \in Channel, PushConn(r)
  PROVE  /\ conns' \in SUBSET Channel
         /\ idles' \in SUBSET Channel
         /\ stale' \in SUBSET Channel
         /\ held' \in [Request -> 0 .. MaxBorn]
<1>1. Evicted \subseteq idles BY DEF Evicted
<1>2. [held EXCEPT ![r] = 0] \in [Request -> 0 .. MaxBorn]
  BY PoolAssumption DEF TypeOK
<1> QED BY <1>1, <1>2 DEF TypeOK, PushConn

\* A request that has a channel has one that was made.
LEMMA HeldMade ==
  ASSUME IInv, NEW r \in Request, Holds(r)
  PROVE  held[r] \in Channel
BY PoolAssumption DEF IInv, TypeOK, Exclusive, Channel

\* So does a request that leaves its channel.
LEMMA LeaveType ==
  ASSUME TypeOK, NEW r \in Request, held[r] \in Channel, Leave(r)
  PROVE  /\ retired' \in SUBSET Channel
         /\ held' \in [Request -> 0 .. MaxBorn]
<1>1. [held EXCEPT ![r] = 0] \in [Request -> 0 .. MaxBorn]
  BY PoolAssumption DEF TypeOK
<1> QED BY <1>1 DEF TypeOK, Leave

\* The steps of a request keep the types.
LEMMA RequestTypeOK ==
  ASSUME IInv, NEW r \in Request, RequestNext(r)
  PROVE  TypeOK'
<1> USE PoolAssumption DEF IInv, TypeOK, Goto, pool, closing, requests
<1> USE DEF RequestPC, Channel
<1>1. CASE Ask(r) BY <1>1 DEF Ask
<1>2. CASE PullIdle(r) BY <1>2 DEF PullIdle
<1>3. CASE PullNone(r) BY <1>3 DEF PullNone
<1>4. CASE PullNew(r) BY <1>4 DEF PullNew
<1>5. CASE PullFails(r) BY <1>5, RetryType DEF PullFails
<1>6. CASE WriteDial(r) BY <1>6 DEF WriteDial
<1>7. CASE DialFails(r)
  <2>1. held[r] \in Channel BY <1>7, HeldMade DEF DialFails, Holds, Holding
  <2> QED BY <1>7, <2>1, RetryType, LeaveType DEF DialFails
<1>8. CASE DialOk(r) BY <1>8 DEF DialOk
<1>9. CASE DialRefused(r)
  <2>1. held[r] \in Channel BY <1>9, HeldMade DEF DialRefused, Holds, Holding
  <2>2. 0 \in 0 .. TryMax - 1 OBVIOUS
  <2> QED BY <1>9, <2>1, <2>2, PushType DEF DialRefused
<1>10. CASE PipeEnds(r)
  <2>1. held[r] \in Channel BY <1>10, HeldMade DEF PipeEnds, Holds, Holding
  <2> QED BY <1>10, <2>1, PushType DEF PipeEnds
<1>11. CASE PipeBreaks(r)
  <2>1. held[r] \in Channel BY <1>11, HeldMade DEF PipeBreaks, Holds, Holding
  <2> QED BY <1>11, <2>1, LeaveType DEF PipeBreaks
<1> QED BY <1>1, <1>2, <1>3, <1>4, <1>5, <1>6, <1>7, <1>8, <1>9, <1>10, <1>11
        DEF RequestNext, DialBack

\* The steps of procLoop, of Client.Close and of time keep the types.
LEMMA OtherTypeOK ==
  ASSUME TypeOK, Age \/ LoopNext \/ CloseNext
  PROVE  TypeOK'
<1> USE PoolAssumption DEF TypeOK, pool, closing, requests, Channel
<1>1. CASE Age BY <1>1 DEF Age
<1>2. CASE Tick
  <2>1. idles' \subseteq idles /\ retired' \subseteq retired \cup idles
    BY <1>2 DEF Tick
  <2> QED BY <1>2, <2>1 DEF Tick
<1>3. CASE TestEnds BY <1>3 DEF TestEnds
<1>4. CASE LoopExits BY <1>4 DEF LoopExits
<1>5. CASE CloseCall BY <1>5 DEF CloseCall
<1>6. CASE CloseOne BY <1>6 DEF CloseOne
<1>7. CASE CloseDone BY <1>7 DEF CloseDone
<1>8. CASE CloseReturns BY <1>8 DEF CloseReturns
<1> QED BY <1>1, <1>2, <1>3, <1>4, <1>5, <1>6, <1>7, <1>8
    DEF LoopNext, CloseNext

-----------------------------------------------------------------------------
(***************************************************************************)
(* The places of the channels.  A step of the program does one of five     *)
(* things to them: nothing, a request takes an idle channel or makes one,  *)
(* gives its channel back, or leaves it, or the loop retires idle ones.    *)
(***************************************************************************)

Placed == Made /\ Exclusive /\ NoneLost /\ ConnsNotIdle

\* A step that moves no channel, whatever the request's place in its code.
LEMMA StayPlaced ==
  ASSUME Placed, UNCHANGED <<born, conns, idles, retired, held>>,
         \A r \in Request : Holds(r)' <=> Holds(r)
  PROVE  Placed'
BY DEF Placed, Made, Exclusive, NoneLost, ConnsNotIdle, Holds

LEMMA TakePlaced ==
  ASSUME TypeOK, Placed, NEW r \in Request, PullIdle(r)
  PROVE  Placed'
<1> USE DEF Placed, PullIdle, Holds, Holding
<1>1. PICK c \in idles : /\ idles' = idles \ {c}
                         /\ held' = [held EXCEPT ![r] = c]
  OBVIOUS
<1>2. /\ ~Holds(r) /\ Holds(r)' /\ held'[r] = c
      /\ \A q \in Request \ {r} : /\ Holds(q)' <=> Holds(q)
                                  /\ held'[q] = held[q]
  BY <1>1 DEF TypeOK, Goto
<1>3. Made' BY <1>1 DEF Made
<1>4. Exclusive' BY <1>1, <1>2 DEF Exclusive, Made
<1>5. NoneLost' BY <1>1, <1>2 DEF NoneLost
<1>6. ConnsNotIdle' BY <1>1 DEF ConnsNotIdle
<1> QED BY <1>3, <1>4, <1>5, <1>6

LEMMA MakePlaced ==
  ASSUME TypeOK, Placed, NEW r \in Request, PullNew(r)
  PROVE  Placed'
<1> USE PoolAssumption DEF Placed, PullNew, Holds, Holding
<1>1. /\ ~Holds(r) /\ Holds(r)' /\ held'[r] = born + 1
      /\ \A q \in Request \ {r} : /\ Holds(q)' <=> Holds(q)
                                  /\ held'[q] = held[q]
  BY DEF TypeOK, Goto
<1>2. 1 .. born' = (1 .. born) \cup {born + 1} /\ born + 1 \notin 1 .. born
  BY DEF TypeOK
<1>3. Made' BY <1>2 DEF Made
<1>4. Exclusive' BY <1>1, <1>2 DEF Exclusive, Made
<1>5. NoneLost' BY <1>1, <1>2 DEF NoneLost
<1>6. ConnsNotIdle' BY <1>2 DEF ConnsNotIdle, Made
<1> QED BY <1>3, <1>4, <1>5, <1>6

LEMMA LeavePlaced ==
  ASSUME TypeOK, Placed, NEW r \in Request, Holds(r), Leave(r), ~Holds(r)',
         UNCHANGED <<born, conns, idles>>,
         \A q \in Request \ {r} : Holds(q)' <=> Holds(q)
  PROVE  Placed'
<1> USE DEF Placed, Leave, Holds
<1>1. \A q \in Request \ {r} : held'[q] = held[q] BY DEF TypeOK
<1>2. held[r] \in 1 .. born /\ held[r] \notin idles BY DEF Exclusive
<1>3. Made' BY <1>2 DEF Made
<1>4. Exclusive' BY <1>1, <1>2 DEF Exclusive
<1>5. NoneLost' BY <1>1, <1>2 DEF NoneLost
<1>6. ConnsNotIdle' BY DEF ConnsNotIdle
<1> QED BY <1>3, <1>4, <1>5, <1>6

LEMMA PushPlaced ==
  ASSUME TypeOK, Placed, NEW r \in Request, Holds(r), PushConn(r), ~Holds(r)',
         UNCHANGED <<born, retired>>,
         \A q \in Request \ {r} : Holds(q)' <=> Holds(q)
  PROVE  Placed'
<1> USE DEF Placed, PushConn, Holds
<1>1. \A q \in Request \ {r} : held'[q] = held[q] BY DEF TypeOK
<1>2. held[r] \in 1 .. born /\ held[r] \notin retired BY DEF Exclusive
<1>3. Made' BY <1>2 DEF Made
<1>4. Exclusive' BY <1>1, <1>2 DEF Exclusive
<1>5. NoneLost' BY <1>1, <1>2 DEF NoneLost
<1>6. ConnsNotIdle' BY DEF ConnsNotIdle
<1> QED BY <1>3, <1>4, <1>5, <1>6

LEMMA TickPlaced ==
  ASSUME TypeOK, Placed, Tick
  PROVE  Placed'
<1> USE DEF Placed, Tick, Holds, requests
<1>0. old \in Nat /\ \A c \in idles : c \in Nat
  BY PoolAssumption DEF TypeOK, Channel
<1>1. /\ idles' \subseteq idles
      /\ idles' \cup retired' = idles \cup retired
      /\ idles' \cap retired' = {}
  BY <1>0 DEF Exclusive
<1>2. Made' BY <1>1 DEF Made
<1>3. Exclusive' BY <1>1 DEF Exclusive
<1>4. NoneLost' BY <1>1 DEF NoneLost
<1>5. ConnsNotIdle' BY <1>1 DEF ConnsNotIdle
<1> QED BY <1>2, <1>3, <1>4, <1>5

-----------------------------------------------------------------------------

LEMMA RequestPlaced ==
  ASSUME IInv, NEW r \in Request, RequestNext(r)
  PROVE  Placed'
<1> USE DEF IInv, Goto, pool, Holds, Holding
<1>0. TypeOK /\ Placed BY DEF Placed
<1>1. CASE Ask(r) BY <1>0, <1>1, StayPlaced DEF Ask, TypeOK
<1>2. CASE PullIdle(r) BY <1>0, <1>2, TakePlaced
<1>3. CASE PullNone(r) BY <1>0, <1>3, StayPlaced DEF PullNone, TypeOK
<1>4. CASE PullNew(r) BY <1>0, <1>4, MakePlaced
<1>5. CASE PullFails(r) BY <1>0, <1>5, StayPlaced DEF PullFails, Retry, TypeOK
<1>6. CASE WriteDial(r) BY <1>0, <1>6, StayPlaced DEF WriteDial, TypeOK
<1>7. CASE DialFails(r)
  BY <1>0, <1>7, LeavePlaced DEF DialFails, Retry, TypeOK
<1>8. CASE DialOk(r) BY <1>0, <1>8, StayPlaced DEF DialOk, TypeOK
<1>9. CASE DialRefused(r) BY <1>0, <1>9, PushPlaced DEF DialRefused, TypeOK
<1>10. CASE PipeEnds(r) BY <1>0, <1>10, PushPlaced DEF PipeEnds, TypeOK
<1>11. CASE PipeBreaks(r) BY <1>0, <1>11, LeavePlaced DEF PipeBreaks, TypeOK
<1> QED BY <1>1, <1>2, <1>3, <1>4, <1>5, <1>6, <1>7, <1>8, <1>9, <1>10, <1>11
        DEF RequestNext, DialBack

LEMMA OtherPlaced ==
  ASSUME IInv, Age \/ LoopNext \/ CloseNext
  PROVE  Placed'
<1> USE DEF IInv, pool, requests, Holds
<1>0. TypeOK /\ Placed BY DEF Placed
<1>1. CASE Tick BY <1>0, <1>1, TickPlaced
<1>2. CASE Age \/ TestEnds \/ LoopExits
  BY <1>0, <1>2, StayPlaced DEF Age, TestEnds, LoopExits
<1>3. CASE CloseNext
  BY <1>0, <1>3, StayPlaced
     DEF CloseNext, CloseCall, CloseOne, CloseDone, CloseReturns
<1> QED BY <1>1, <1>2, <1>3 DEF LoopNext

\* IInv is inductive.
LEMMA NextIInv == IInv /\ [Next]_vars => IInv'
<1> SUFFICES ASSUME IInv, [Next]_vars PROVE IInv' OBVIOUS
<1>1. ASSUME NEW r \in Request, RequestNext(r) PROVE IInv'
  BY <1>1, RequestTypeOK, RequestPlaced DEF IInv, Placed
<1>2. CASE Age \/ LoopNext \/ CloseNext
  BY <1>2, OtherTypeOK, OtherPlaced DEF IInv, Placed
<1>3. CASE UNCHANGED vars
  BY <1>3 DEF IInv, TypeOK, Made, Exclusive, NoneLost, ConnsNotIdle, Holds,
     vars
<1> QED BY <1>1, <1>2, <1>3 DEF Next

LEMMA SpecIInv == Spec => []IInv
BY InitIInv, NextIInv, PTL DEF Spec

-----------------------------------------------------------------------------

\* The fields of core.Client and of its requests have their types: DialBack
\* never starts a round beyond TryMax.
THEOREM TypeCorrect == Spec => []TypeOK
BY SpecIInv, PTL DEF IInv

\* pullConn and pushConn never give one channel to two requests, and never
\* give a request a channel that timeoutConn or a failed dial has closed.
THEOREM ChannelsExclusive == Spec => []Exclusive
BY SpecIInv, PTL DEF IInv

\* Every channel the client has made is idle, held, or was closed.
THEOREM ChannelsKept == Spec => []NoneLost
BY SpecIInv, PTL DEF IInv

\* A channel of the idle pool is never in the snapshot a later Client.Close
\* takes of conns.
THEOREM ConnsDisjoint == Spec => []ConnsNotIdle
BY SpecIInv, PTL DEF IInv

-----------------------------------------------------------------------------
(***************************************************************************)
(* The pool of core.Client implements the lease of Lease.tla, for any set  *)
(* of requests: every step of the code moves the channels as a step of the *)
(* lease does, or moves none.                                              *)
(***************************************************************************)

At == [c \in Channel |-> Place(c)]

Has(r, c) == Holds(r) /\ held[r] = c

\* Place(c) as its four cases, which IInv makes exclusive and exhaustive.
Sorted ==
  \A c \in Channel :
    /\ c > born => Place(c) = "unmade"
    /\ c \in idles => Place(c) = "idle"
    /\ c \in retired => Place(c) = "gone"
    /\ \A r \in Request : Has(r, c) => Place(c) = r
    /\ \/ c > born \/ c \in idles \/ c \in retired
       \/ \E r \in Request : Has(r, c)

LEMMA IInvSorted == IInv => Sorted
<1> SUFFICES ASSUME IInv, NEW c \in Channel
             PROVE  /\ c > born => Place(c) = "unmade"
                    /\ c \in idles => Place(c) = "idle"
                    /\ c \in retired => Place(c) = "gone"
                    /\ \A r \in Request : Has(r, c) => Place(c) = r
                    /\ \/ c > born \/ c \in idles \/ c \in retired
                       \/ \E r \in Request : Has(r, c)
  BY DEF Sorted
<1> USE DEF IInv, Exclusive, Made, Has
<1>1. born \in Nat /\ c \in Nat /\ c >= 1
  BY PoolAssumption DEF TypeOK, Channel
<1>2. c > born => Place(c) = "unmade" BY DEF Place
<1>3. c \in idles => Place(c) = "idle" BY <1>1 DEF Place
<1>4. c \in retired => Place(c) = "gone" BY <1>1 DEF Place
<1>5. ASSUME NEW r \in Request, Has(r, c) PROVE Place(c) = r
  <2>1. c \in 1 .. born /\ c \notin idles /\ c \notin retired BY <1>5
  <2>2. Place(c) = CHOOSE q \in Request : Holds(q) /\ held[q] = c
    BY <1>1, <2>1 DEF Place
  <2>3. \A q \in Request : Holds(q) /\ held[q] = c => q = r BY <1>5
  <2> QED BY <1>5, <2>2, <2>3
<1>6. c \in 1 .. born \/ c > born BY <1>1
<1>7. c > born \/ c \in idles \/ c \in retired \/ \E r \in Request : Has(r, c)
  BY <1>6 DEF NoneLost
<1> QED BY <1>2, <1>3, <1>4, <1>5, <1>7

\* A request without a channel is the place of none.
LEMMA NoPlace ==
  ASSUME IInv, Sorted, NEW r \in Request, ~Holds(r), NEW c \in Channel
  PROVE  Place(c) # r
<1>1. Place(c) \in {"unmade", "idle", "gone"}
      \/ \E q \in Request : Has(q, c) /\ Place(c) = q
  BY DEF Sorted
<1> QED BY <1>1, PoolAssumption DEF Has

-----------------------------------------------------------------------------
(***************************************************************************)
(* The five things a step does to the channels, as steps of the lease.     *)
(***************************************************************************)

LEMMA StayLease ==
  ASSUME Sorted, Sorted', UNCHANGED <<born, idles, retired, held>>,
         \A r \in Request : Holds(r)' <=> Holds(r)
  PROVE  UNCHANGED At
<1>1. \A c \in Channel : Place(c)' = Place(c) BY DEF Sorted, Has
<1> QED BY <1>1 DEF At, Channel

LEMMA TakeLease ==
  ASSUME IInv, Sorted, Sorted', NEW r \in Request, PullIdle(r)
  PROVE  LeaseOf!Next
<1> USE DEF PullIdle, Holds, Holding, Goto
<1>1. PICK c \in idles : /\ idles' = idles \ {c}
                         /\ held' = [held EXCEPT ![r] = c]
  OBVIOUS
<1>2. c \in Channel /\ Place(c) = "idle" BY DEF IInv, TypeOK, Sorted
<1>3. ~Holds(r) OBVIOUS
<1>4. Has(r, c)' BY <1>1 DEF IInv, TypeOK, Has
<1>5. \A q \in Request \ {r}, d \in Channel : Has(q, d)' <=> Has(q, d)
  BY <1>1 DEF IInv, TypeOK, Has
<1>6. Place(c)' = r BY <1>2, <1>4 DEF Sorted
<1>7. ASSUME NEW d \in Channel, d # c PROVE Place(d)' = Place(d)
  <2>1. ~Has(r, d) BY <1>3 DEF Has
  <2>2. ~Has(r, d)' BY <1>4, <1>7 DEF Has
  <2> QED BY <1>1, <1>5, <1>7, <2>1, <2>2 DEF Sorted
<1>8. LeaseOf!Empty(r) BY <1>3, NoPlace DEF LeaseOf!Empty
<1>9. LeaseOf!Lend(c, r) BY <1>2, <1>6, <1>7, <1>8 DEF LeaseOf!Lend
<1> QED BY <1>2, <1>9 DEF LeaseOf!Next

LEMMA MakeLease ==
  ASSUME IInv, Sorted, Sorted', NEW r \in Request, PullNew(r)
  PROVE  LeaseOf!Next
<1> USE DEF PullNew, Holds, Holding, Goto
<1>0. born + 1 \in Channel /\ born + 1 > born
  BY PoolAssumption DEF IInv, TypeOK, Channel
<1>1. PICK c \in Channel : c = born + 1 /\ c > born BY <1>0
<1>2. Place(c) = "unmade" BY <1>1 DEF Sorted
<1>3. ~Holds(r) OBVIOUS
<1>4. Has(r, c)' BY <1>1 DEF IInv, TypeOK, Has
<1>5. \A q \in Request \ {r}, d \in Channel : Has(q, d)' <=> Has(q, d)
  BY DEF IInv, TypeOK, Has
<1>6. Place(c)' = r BY <1>1, <1>4 DEF Sorted
<1>7. ASSUME NEW d \in Channel, d # c PROVE Place(d)' = Place(d)
  <2>1. ~Has(r, d) BY <1>3 DEF Has
  <2>2. ~Has(r, d)' BY <1>4, <1>7 DEF Has
  <2>3. d > born <=> d > born'
    BY <1>1, <1>7, PoolAssumption DEF IInv, TypeOK, Channel
  <2> QED BY <1>5, <1>7, <2>1, <2>2, <2>3 DEF Sorted
<1>8. LeaseOf!Empty(r) BY <1>3, NoPlace DEF LeaseOf!Empty
<1>9. LeaseOf!Make(c, r) BY <1>2, <1>6, <1>7, <1>8 DEF LeaseOf!Make
<1> QED BY <1>9 DEF LeaseOf!Next

LEMMA LeaveLease ==
  ASSUME IInv, Sorted, Sorted', NEW r \in Request, Holds(r), Leave(r),
         ~Holds(r)', UNCHANGED <<born, conns, idles>>,
         \A q \in Request \ {r} : Holds(q)' <=> Holds(q)
  PROVE  LeaseOf!Next
<1>1. PICK c \in Channel : c = held[r] BY HeldMade
<1>2. Place(c) = r /\ Place(c)' = "gone" BY <1>1 DEF Sorted, Leave, Has
<1>3. ASSUME NEW d \in Channel, d # c PROVE Place(d)' = Place(d)
  <2>1. ~Has(r, d) /\ ~Has(r, d)' BY <1>1, <1>3 DEF Has
  <2>2. \A q \in Request \ {r} : Has(q, d)' <=> Has(q, d)
    BY DEF Leave, Has, IInv, TypeOK
  <2>3. d \in retired' <=> d \in retired BY <1>1, <1>3 DEF Leave
  <2> QED BY <2>1, <2>2, <2>3 DEF Sorted
<1>4. LeaseOf!Drop(c, r) BY <1>2, <1>3 DEF LeaseOf!Drop
<1> QED BY <1>4 DEF LeaseOf!Next

LEMMA PushLease ==
  ASSUME IInv, Sorted, Sorted', NEW r \in Request, Holds(r), PushConn(r),
         ~Holds(r)', UNCHANGED <<born, retired>>,
         \A q \in Request \ {r} : Holds(q)' <=> Holds(q)
  PROVE  LeaseOf!Next
<1>1. PICK c \in Channel : c = held[r] BY HeldMade
<1>2. Place(c) = r /\ Place(c)' = "idle" BY <1>1 DEF Sorted, PushConn, Has
<1>3. ASSUME NEW d \in Channel, d # c PROVE Place(d)' = Place(d)
  <2>1. ~Has(r, d) /\ ~Has(r, d)' BY <1>1, <1>3 DEF Has
  <2>2. \A q \in Request \ {r} : Has(q, d)' <=> Has(q, d)
    BY DEF PushConn, Has, IInv, TypeOK
  <2>3. d \in idles' <=> d \in idles BY <1>1, <1>3 DEF PushConn
  <2> QED BY <2>1, <2>2, <2>3 DEF Sorted
<1>4. LeaseOf!Return(c, r) BY <1>2, <1>3 DEF LeaseOf!Return
<1> QED BY <1>4 DEF LeaseOf!Next

LEMMA TickLease ==
  ASSUME IInv, Sorted, Sorted', Tick
  PROVE  LeaseOf!Next
<1>1. PICK S \in SUBSET Channel : S = {c \in idles : c <= old}
  BY DEF IInv, TypeOK
<1>2. \A c \in S : Place(c) = "idle" BY <1>1 DEF Sorted
<1>3. \A c \in S : Place(c)' = "gone" BY <1>1 DEF Sorted, Tick
<1>4. ASSUME NEW c \in Channel \ S PROVE Place(c)' = Place(c)
  <2>1. c \in idles' <=> c \in idles
    BY <1>1, <1>4, PoolAssumption DEF Tick, IInv, TypeOK, Channel
  <2>2. c \in retired' <=> c \in retired BY <1>1, <1>4 DEF Tick
  <2>3. \A r \in Request : Has(r, c)' <=> Has(r, c)
    BY DEF Tick, Has, Holds, requests
  <2> QED BY <2>1, <2>2, <2>3 DEF Sorted, Tick
<1>5. LeaseOf!Expire(S) BY <1>2, <1>3, <1>4 DEF LeaseOf!Expire
<1> QED BY <1>5 DEF LeaseOf!Next

-----------------------------------------------------------------------------

LeaseStep == LeaseOf!Next \/ UNCHANGED At

LEMMA RequestLease ==
  ASSUME IInv, Sorted, Sorted', NEW r \in Request, RequestNext(r)
  PROVE  LeaseStep
<1> USE DEF LeaseStep, Goto, pool, Holds, Holding
<1>0. TypeOK BY DEF IInv
<1>1. CASE Ask(r) BY <1>0, <1>1, StayLease DEF Ask, TypeOK
<1>2. CASE PullIdle(r) BY <1>2, TakeLease
<1>3. CASE PullNone(r) BY <1>0, <1>3, StayLease DEF PullNone, TypeOK
<1>4. CASE PullNew(r) BY <1>4, MakeLease
<1>5. CASE PullFails(r) BY <1>0, <1>5, StayLease DEF PullFails, Retry, TypeOK
<1>6. CASE WriteDial(r) BY <1>0, <1>6, StayLease DEF WriteDial, TypeOK
<1>7. CASE DialFails(r) BY <1>0, <1>7, LeaveLease DEF DialFails, Retry, TypeOK
<1>8. CASE DialOk(r) BY <1>0, <1>8, StayLease DEF DialOk, TypeOK
<1>9. CASE DialRefused(r) BY <1>0, <1>9, PushLease DEF DialRefused, TypeOK
<1>10. CASE PipeEnds(r) BY <1>0, <1>10, PushLease DEF PipeEnds, TypeOK
<1>11. CASE PipeBreaks(r) BY <1>0, <1>11, LeaveLease DEF PipeBreaks, TypeOK
<1> QED BY <1>1, <1>2, <1>3, <1>4, <1>5, <1>6, <1>7, <1>8, <1>9, <1>10, <1>11
        DEF RequestNext, DialBack

LEMMA OtherLease ==
  ASSUME IInv, Sorted, Sorted', Age \/ LoopNext \/ CloseNext
  PROVE  LeaseStep
<1> USE DEF LeaseStep, pool, requests, Holds
<1>1. CASE Tick BY <1>1, TickLease
<1>2. CASE Age \/ TestEnds \/ LoopExits
  BY <1>2, StayLease DEF Age, TestEnds, LoopExits
<1>3. CASE CloseNext
  BY <1>3, StayLease
     DEF CloseNext, CloseCall, CloseOne, CloseDone, CloseReturns
<1> QED BY <1>1, <1>2, <1>3 DEF LoopNext

LEMMA NextLease ==
  ASSUME IInv, Sorted, Sorted', [Next]_vars
  PROVE  [LeaseOf!Next]_At
<1>1. CASE UNCHANGED vars
  BY <1>1, StayLease DEF vars, Holds
<1>2. CASE \E r \in Request : RequestNext(r)
  BY <1>2, RequestLease DEF LeaseStep
<1>3. CASE Age \/ LoopNext \/ CloseNext
  BY <1>3, OtherLease DEF LeaseStep
<1> QED BY <1>1, <1>2, <1>3 DEF Next

\* Every run of the client's pool is a run of the lease: a channel is lent to
\* one request at a time, comes back or is gone, and when gone never returns.
THEOREM PoolImplementsLease == Spec => ImplementsLease
<1>1. Init => LeaseOf!Init
  <2> SUFFICES ASSUME Init PROVE LeaseOf!Init OBVIOUS
  <2>1. \A c \in Channel : Place(c) = "unmade"
    BY PoolAssumption DEF Init, Place, Channel
  <2> QED BY <2>1 DEF LeaseOf!Init
<1>2. ASSUME IInv, Sorted, Sorted', [Next]_vars
      PROVE  [LeaseOf!Next]_([c \in Channel |-> Place(c)])
  BY <1>2, NextLease DEF At
<1> QED BY <1>1, <1>2, SpecIInv, IInvSorted, PTL
        DEF Spec, ImplementsLease, LeaseOf!Spec
-----------------------------------------------------------------------------
(***************************************************************************)
(* What Answered and CloseEnds of Pool.tla come down to once their         *)
(* fairness is left aside: DialBack takes a bounded number of steps, and   *)
(* the first Client.Close finds room in the exit channel.                  *)
(***************************************************************************)

Asking(r) == pc[r] \in {"pull", "dialer", "pulled", "doomed", "dial"}

\* The steps that a round of DialBack has left at most.
Round(r) ==
  IF pc[r] = "pull" THEN 4
  ELSE IF pc[r] = "dialer" THEN 3
  ELSE IF pc[r] = "pulled" THEN 2
  ELSE 1

\* The steps that DialBack has left at most: five bound a round, and the
\* return to its start.
Steps(r) == IF Asking(r) THEN 5 * (TryMax - 1 - tries[r]) + Round(r) ELSE 0

\* While a request asks for its session each step of DialBack lowers Steps.
\* Whatever else happens, to the pool and to other requests, does not raise it.
RetryStep ==
  \A r \in Request : Asking(r) =>
    /\ Steps(r)' <= Steps(r)
    /\ DialBack(r) => Steps(r)' < Steps(r)

LEMMA StepsType ==
  ASSUME TypeOK, NEW r \in Request
  PROVE  Steps(r) \in Nat /\ (Asking(r) => Steps(r) >= 1)
<1>1. tries[r] \in 0 .. TryMax - 1 /\ TryMax \in Nat
  BY PoolAssumption DEF TypeOK
<1>2. Round(r) \in 1 .. 4 BY DEF Round
<1> QED BY <1>1, <1>2 DEF Steps

\* The end of a round is a step towards the last error.
LEMMA RetryLowers ==
  ASSUME TypeOK, NEW r \in Request, Asking(r), pc[r] # "pull", Retry(r)
  PROVE  Steps(r)' < Steps(r)
<1>1. tries[r] \in 0 .. TryMax - 1 /\ TryMax \in Nat
  BY PoolAssumption DEF TypeOK
<1>2. Round(r) \in 1 .. 4 BY DEF Round
<1>3. CASE tries[r] + 1 < TryMax
  <2>1. pc'[r] = "pull" /\ tries'[r] = tries[r] + 1
    BY <1>3 DEF Retry, Goto, TypeOK
  <2>2. Steps(r)' = 5 * (TryMax - 1 - (tries[r] + 1)) + 4
    BY <2>1 DEF Steps, Asking, Round
  <2> QED BY <1>1, <1>2, <2>2 DEF Steps
<1>4. CASE ~(tries[r] + 1 < TryMax)
  <2>1. pc'[r] = "failed" BY <1>4 DEF Retry, Goto, TypeOK
  <2>2. Steps(r)' = 0 BY <2>1 DEF Steps, Asking
  <2> QED BY <2>2, StepsType
<1> QED BY <1>3, <1>4

LEMMA DialBackLowers ==
  ASSUME TypeOK, NEW r \in Request, Asking(r), DialBack(r)
  PROVE  Steps(r)' < Steps(r)
<1>0. tries[r] \in 0 .. TryMax - 1 /\ TryMax \in Nat
  BY PoolAssumption DEF TypeOK
<1>1. ASSUME tries'[r] = tries[r], Asking(r)', Round(r)' < Round(r)
      PROVE  Steps(r)' < Steps(r)
  <2>1. Round(r) \in 1 .. 4 /\ Round(r)' \in 1 .. 4 BY DEF Round
  <2> QED BY <1>0, <1>1, <2>1 DEF Steps
<1>2. CASE PullIdle(r)
  <2>1. pc[r] = "pull" /\ pc'[r] = "pulled" /\ tries'[r] = tries[r]
    BY <1>2 DEF PullIdle, Goto, TypeOK
  <2> QED BY <1>1, <2>1 DEF Asking, Round
<1>3. CASE PullNone(r)
  <2>1. pc[r] = "pull" /\ pc'[r] = "dialer" /\ tries'[r] = tries[r]
    BY <1>3 DEF PullNone, Goto, TypeOK
  <2> QED BY <1>1, <2>1 DEF Asking, Round
<1>4. CASE PullNew(r)
  <2>1. pc[r] = "dialer" /\ pc'[r] = "pulled" /\ tries'[r] = tries[r]
    BY <1>4 DEF PullNew, Goto, TypeOK
  <2> QED BY <1>1, <2>1 DEF Asking, Round
<1>5. CASE PullFails(r) BY <1>5, RetryLowers DEF PullFails
<1>6. CASE WriteDial(r)
  <2>1. /\ pc[r] = "pulled" /\ pc'[r] \in {"doomed", "dial"}
        /\ tries'[r] = tries[r]
    BY <1>6 DEF WriteDial, Goto, TypeOK
  <2> QED BY <1>1, <2>1 DEF Asking, Round
<1>7. CASE DialFails(r) BY <1>7, RetryLowers DEF DialFails
<1>8. CASE DialOk(r) \/ DialRefused(r)
  <2>1. pc'[r] \in {"pipe", "failed"}
    BY <1>8 DEF DialOk, DialRefused, Goto, TypeOK
  <2>2. Steps(r)' = 0 BY <2>1 DEF Steps, Asking
  <2> QED BY <2>2, StepsType
<1> QED BY <1>2, <1>3, <1>4, <1>5, <1>6, <1>7, <1>8 DEF DialBack

\* A request that does not step keeps its place.
LEMMA OthersKeep ==
  ASSUME TypeOK, NEW r \in Request,
         \/ \E q \in Request \ {r} : RequestNext(q)
         \/ Age \/ LoopNext \/ CloseNext \/ UNCHANGED vars
  PROVE  Steps(r)' = Steps(r)
<1>1. pc'[r] = pc[r] /\ tries'[r] = tries[r]
  <2>1. CASE \E q \in Request \ {r} : RequestNext(q)
    <3>1. PICK q \in Request \ {r} : RequestNext(q) BY <2>1
    <3>2. CASE Ask(q) \/ PipeEnds(q) \/ PipeBreaks(q)
      BY <3>2 DEF Ask, PipeEnds, PipeBreaks, Goto, TypeOK
    <3>3. CASE DialBack(q)
      BY <3>3 DEF DialBack, PullIdle, PullNone, PullNew, PullFails, WriteDial,
         DialFails, DialOk, DialRefused, Retry, Goto, TypeOK
    <3> QED BY <3>1, <3>2, <3>3 DEF RequestNext
  <2>2. CASE Age \/ LoopNext \/ CloseNext \/ UNCHANGED vars
    BY <2>2 DEF Age, LoopNext, Tick, TestEnds, LoopExits, CloseNext, CloseCall,
       CloseOne, CloseDone, CloseReturns, requests, vars
  <2> QED BY <2>1, <2>2
<1> QED BY <1>1 DEF Steps, Asking, Round

\* DialBack ends: after at most 5 * TryMax - 1 steps of its own a request has
\* its session or an error, whatever other requests take from the pool and
\* timeoutConn and Client.Close do to it meanwhile (cs.go:460-485).
THEOREM RetriesEnd == Spec => [][RetryStep]_vars
<1>1. ASSUME TypeOK, TypeOK', [Next]_vars PROVE [RetryStep]_vars
  <2> SUFFICES ASSUME NEW r \in Request, Asking(r), ~UNCHANGED vars
               PROVE  /\ Steps(r)' <= Steps(r)
                      /\ DialBack(r) => Steps(r)' < Steps(r)
    BY DEF RetryStep
  <2>1. Steps(r) \in Nat /\ Steps(r)' \in Nat
    <3>1. /\ tries[r] \in 0 .. TryMax - 1 /\ TryMax \in Nat
          /\ tries'[r] \in 0 .. TryMax - 1
      BY <1>1, PoolAssumption DEF TypeOK
    <3>2. Round(r) \in 1 .. 4 /\ Round(r)' \in 1 .. 4 BY DEF Round
    <3> QED BY <3>1, <3>2 DEF Steps
  <2>2. CASE DialBack(r) BY <1>1, <2>1, <2>2, DialBackLowers
  <2>3. CASE ~DialBack(r)
    <3>1. ~RequestNext(r)
      BY <2>3 DEF Asking, RequestNext, Ask, PipeEnds, PipeBreaks
    <3>2. Steps(r)' = Steps(r) BY <1>1, <3>1, OthersKeep DEF Next
    <3> QED BY <2>1, <2>3, <3>2
  <2> QED BY <2>2, <2>3
<1>2. TypeOK /\ TypeOK' /\ [Next]_vars => [RetryStep]_vars BY <1>1
<1> QED BY <1>2, TypeCorrect, PTL DEF Spec

-----------------------------------------------------------------------------

\* Every call of Client.Close is under way, or its message is in the channel,
\* or stopped procLoop, which reads one and never a second.
Messages ==
  closes = exit + (IF closer = "none" THEN 0 ELSE 1)
                + (IF loop = "stopped" THEN 1 ELSE 0)

LEMMA NextMessages ==
  ASSUME TypeOK, TypeOK', Messages, [Next]_vars
  PROVE  Messages'
<1> USE PoolAssumption DEF TypeOK, Messages
<1>1. CASE CloseCall BY <1>1 DEF CloseCall
<1>2. CASE CloseOne \/ CloseDone BY <1>2 DEF CloseOne, CloseDone
<1>3. CASE CloseReturns BY <1>3 DEF CloseReturns
<1>4. CASE LoopExits BY <1>4 DEF LoopExits, closing
<1>5. CASE Tick \/ TestEnds \/ Age \/ UNCHANGED vars
  BY <1>5 DEF Tick, TestEnds, Age, closing, vars
<1>6. CASE \E r \in Request : RequestNext(r)
  <2>1. UNCHANGED <<closes, closer, exit, loop>>
    BY <1>6 DEF RequestNext, DialBack, Ask, PullIdle, PullNone, PullNew,
       PullFails, WriteDial, DialFails, DialOk, DialRefused, PipeEnds,
       PipeBreaks, closing
  <2> QED BY <2>1
<1> QED BY <1>1, <1>2, <1>3, <1>4, <1>5, <1>6 DEF Next, LoopNext, CloseNext

\* The send to exit finds the channel full only in the second call of
\* Client.Close while procLoop still runs, and in the third once it has ended
\* (cs.go:307, 332): the first call returns whatever procLoop does.
FirstCloseHasRoom ==
  closer = "sending" /\ exit = 1 =>
    closes = IF loop = "stopped" THEN 3 ELSE 2

\* The first Client.Close is not kept by its own message to procLoop, in
\* whatever test procLoop is (cs.go:320-334).
THEOREM CloseHasRoom == Spec => []FirstCloseHasRoom
<1>1. Init => Messages BY DEF Init, Messages
<1>2. TypeOK /\ TypeOK' /\ Messages /\ [Next]_vars => Messages'
  BY NextMessages
<1>3. TypeOK /\ Messages => FirstCloseHasRoom
  BY DEF TypeOK, Messages, FirstCloseHasRoom
<1> QED BY <1>1, <1>2, <1>3, TypeCorrect, PTL DEF Spec
=============================================================================
