------------------------- MODULE SortedDialerProofs -------------------------
(***************************************************************************)
(* Proofs about SortedDialer.tla, for any threads and servers: the type    *)
(* invariant, that no average is a division by zero, that sorting keeps    *)
(* the servers and leaves neighbours in order, that an undisturbed dial    *)
(* that fails has tried all servers, that the flag of a sort is with the   *)
(* goroutine that sorts, and that a sort ends.                             *)
(***************************************************************************)
EXTENDS SortedDialer, FiniteSetTheorems, SequenceTheorems,
  TLAPS

\* The sort works inside keys, and only while someone has the lock.
SortInside ==
  /\ Len(keys) = Len(Servers)
  /\ place[2] <= place[1]
  /\ swapping => lock # "free" /\ place[1] <= SortLen /\ place[2] > 1

\* A thread that has read a key is inside its loop, and dials a server.
DialInside ==
  \A t \in Thread :
    /\ pc[t] \in {"got", "dial"} => pos[t] <= Len(Servers)
    /\ pc[t] \in {"dial"} => cur[t] \in Key

\* The inductive invariant.
IInv == TypeOK /\ SortInside /\ DialInside /\ DivisorPositive

-----------------------------------------------------------------------------

\* Len, the number of dialers, is not more than that of keys.
LEMMA SortLenBound == SortLen \in Nat /\ SortLen <= Len(Servers)
<1>1. Servers \in [1 .. Len(Servers) -> Key]
  BY SortedDialerAssumption DEF Key
<1>2. Servers \in Surjection(1 .. Len(Servers), Key)
  BY <1>1 DEF Surjection, Key
<1>3. IsFiniteSet(1 .. Len(Servers)) /\ Len(Servers) \in Nat
      /\ Cardinality(1 .. Len(Servers)) = Len(Servers)
  <2>1. Len(Servers) \in Nat BY SortedDialerAssumption
  <2>2. IsFiniteSet(1 .. Len(Servers))
        /\ Cardinality(1 .. Len(Servers))
           = IF 1 > Len(Servers) THEN 0 ELSE Len(Servers) - 1 + 1
    BY <2>1, FS_Interval, SMTT(30)
  <2> QED BY <2>1, <2>2
<1>4. IsFiniteSet(Key) /\ Cardinality(Key) <= Len(Servers)
  BY <1>2, <1>3, FS_Surjection
<1> QED BY <1>4, FS_CardinalityType DEF SortLen

\* The dials of one key that are under way are finitely many.
LEMMA UnderWayFinite ==
  \A k : /\ IsFiniteSet(UnderWay(k))
         /\ Cardinality(UnderWay(k)) \in Nat
         /\ IsFiniteSet(UnderWay(k)')
         /\ Cardinality(UnderWay(k)') \in Nat
<1> TAKE k
<1>1. UnderWay(k) \subseteq Thread /\ UnderWay(k)' \subseteq Thread
  BY DEF UnderWay
<1> QED BY <1>1, FS_Subset, FS_CardinalityType, SortedDialerAssumption

\* A divisor stays positive when no dial begins and none fails uncounted.
LEMMA NoneBegins ==
  ASSUME IInv, \A k \in Key : /\ UnderWay(k)' \subseteq UnderWay(k)
                              /\ tryCount'[k] - errCount'[k] >=
                                   tryCount[k] - errCount[k],
         tryCount' \in [Key -> Nat], errCount' \in [Key -> Nat]
  PROVE  DivisorPositive'
<1> SUFFICES ASSUME NEW k \in Key
             PROVE (tryCount'[k] - errCount'[k] >= Cardinality(UnderWay(k)'))
  BY DEF DivisorPositive
<1>1. Cardinality(UnderWay(k)') <= Cardinality(UnderWay(k))
  BY UnderWayFinite, FS_Subset
<1>2. tryCount[k] - errCount[k] >= Cardinality(UnderWay(k))
  BY DEF IInv, DivisorPositive
<1>3. tryCount[k] \in Nat /\ errCount[k] \in Nat
  BY SortedDialerAssumption DEF IInv, TypeOK
<1> QED BY <1>1, <1>2, <1>3, UnderWayFinite

\* A thread that dials is counted in the divisor of its key.
LEMMA DialCounted ==
  ASSUME IInv, NEW t \in Thread, pc[t] = "dial"
  PROVE  /\ cur[t] \in Key
         /\ tryCount[cur[t]] \in Nat
         /\ errCount[cur[t]] \in Nat
         /\ tryCount[cur[t]] - errCount[cur[t]] >= 1
<1>1. cur[t] \in Key BY DEF IInv, DialInside
<1>2. tryCount[cur[t]] \in Nat /\ errCount[cur[t]] \in Nat
  BY <1>1, SortedDialerAssumption DEF IInv, TypeOK
<1>3. t \in UnderWay(cur[t]) BY DEF UnderWay
<1>4. Cardinality(UnderWay(cur[t])) # 0
  BY <1>3, UnderWayFinite, FS_EmptySet
<1>5. tryCount[cur[t]] - errCount[cur[t]] >= Cardinality(UnderWay(cur[t]))
  BY <1>1 DEF IInv, DivisorPositive
<1> QED BY <1>1, <1>2, <1>4, <1>5, UnderWayFinite

\* A quotient of durations is a duration (dialer.go:384, 487).
LEMMA DivType == \A a \in Nat, b \in Nat \ {0} : a \div b \in Nat
  OBVIOUS

-----------------------------------------------------------------------------

\* A sequence is one of whatever set has its elements.
LEMMA SeqRetype ==
  ASSUME NEW S, NEW T, NEW q \in Seq(S), \A i \in 1 .. Len(q) : q[i] \in T
  PROVE  q \in Seq(T)
<1>1. Len(q) \in Nat /\ q \in [1 .. Len(q) -> S] OBVIOUS
<1>2. q \in [1 .. Len(q) -> T] BY <1>1
<1>3. q \in UNION {[1 .. n -> T] : n \in Nat} BY <1>1, <1>2, Zenon
<1> QED BY <1>3, SeqDef

\* NewSortedDialer (dialer.go:348-368).
LEMMA InitIInv == Init => IInv
<1> SUFFICES ASSUME Init PROVE IInv OBVIOUS
<1> USE SortedDialerAssumption DEF Init
<1>1. Servers \in Seq(Key) /\ Len(Servers) \in Nat
  <2>1. \A i \in 1 .. Len(Servers) : Servers[i] \in Key BY DEF Key
  <2> QED BY <2>1, SeqRetype
<1>2. TypeOK
  <2>1. 0 \in 0 .. MaxTry /\ 1 \in 1 .. Len(Servers) + 1 BY <1>1
  <2>2. <<0, 1>> \in Nat \X (Nat \ {0}) OBVIOUS
  <2> QED BY <1>1, <2>1, <2>2 DEF TypeOK
<1>3. SortInside BY <1>1 DEF SortInside
<1>4. DialInside BY DEF DialInside
<1>5. DivisorPositive
  <2>1. \A k : Cardinality(UnderWay(k)) = 0 BY FS_EmptySet DEF UnderWay
  <2> QED BY <2>1 DEF DivisorPositive
<1> QED BY <1>2, <1>3, <1>4, <1>5 DEF IInv

\* What Dial reads of keys is a key, or mixed of two.
LEMMA ElementsType ==
  ASSUME IInv, NEW i \in 1 .. Len(keys)
  PROVE  Elements(i) \subseteq Key \cup {Torn}
<1>1. keys \in Seq(Key) /\ Len(keys) \in Nat BY DEF IInv, TypeOK
<1>2. ASSUME swapping
      PROVE  place[2] \in 1 .. Len(keys) /\ place[2] - 1 \in 1 .. Len(keys)
  <2>1. place[1] \in Nat /\ place[2] \in Nat BY DEF IInv, TypeOK
  <2>2. /\ place[2] > 1 /\ place[2] <= place[1] /\ place[1] <= SortLen
        /\ Len(keys) = Len(Servers)
    BY <1>2 DEF IInv, SortInside
  <2>3. place[2] <= Len(Servers)
    BY <2>1, <2>2, SortLenBound
  <2> QED BY <1>1, <2>1, <2>2, <2>3
<1>3. \A j \in 1 .. Len(keys) : keys[j] \in Key BY <1>1
<1> QED BY <1>2, <1>3 DEF Elements

\* Dial reads a key, and counts a try (dialer.go:373-379).
LEMMA ReadIInv ==
  ASSUME IInv, NEW t \in Thread, Call(t) \/ ReadKey(t) \/ Return(t)
  PROVE  IInv'
<1> USE SortedDialerAssumption DEF IInv, Goto, counts, sort
<1>1. TypeOK'
  <2> USE DEF TypeOK
  <2>1. Len(Servers) \in Nat OBVIOUS
  <2>2. CASE Call(t) BY <2>1, <2>2 DEF Call
  <2>3. CASE ReadKey(t)
    <3>1. pos[t] \in 1 .. Len(keys) BY <2>1, <2>3 DEF ReadKey
    <3>2. PICK k \in Elements(pos[t]) : cur' = [cur EXCEPT ![t] = k]
      BY <2>3 DEF ReadKey
    <3>3. k \in Key \cup {Torn} BY <3>1, <3>2, ElementsType
    <3> QED BY <2>3, <3>2, <3>3 DEF ReadKey
  <2>4. CASE Return(t) BY <2>4 DEF Return
  <2> QED BY <2>2, <2>3, <2>4
<1>2. SortInside' BY DEF SortInside, Call, ReadKey, Return, SortLen
<1>3. DialInside'
  <2> USE DEF DialInside, TypeOK
  <2>2. CASE Call(t) BY <2>2 DEF Call
  <2>3. CASE ReadKey(t) BY <2>3 DEF ReadKey, SortInside
  <2>4. CASE Return(t) BY <2>4 DEF Return
  <2> QED BY <2>2, <2>3, <2>4
<1>4. DivisorPositive'
  <2>1. \A k \in Key : UnderWay(k)' \subseteq UnderWay(k)
    BY DEF UnderWay, Call, ReadKey, Return, TypeOK
  <2>2. UNCHANGED <<tryCount, errCount>> BY DEF Call, ReadKey, Return
  <2>3. tryCount \in [Key -> Nat] /\ errCount \in [Key -> Nat]
    BY DEF TypeOK
  <2> QED BY <2>1, <2>2, <2>3, NoneBegins
<1> QED BY <1>1, <1>2, <1>3, <1>4

\* Dial counts the try before it dials (dialer.go:374-379).
LEMMA BeginIInv ==
  ASSUME IInv, NEW t \in Thread, Begin(t)
  PROVE  IInv'
<1> USE SortedDialerAssumption DEF IInv, Goto, counts, sort, Begin
<1>1. TypeOK'
  <2> USE DEF TypeOK
  <2>1. CASE cur[t] = Torn BY <2>1
  <2>2. CASE cur[t] \in Key
    <3>1. tryCount[cur[t]] + 1 \in 0 .. MaxTry BY <2>2 DEF MayTry
    <3>2. tryCount' \in [Key -> 0 .. MaxTry] BY <2>2, <3>1
    <3>3. tried' = [tried EXCEPT ![t] = @ \cup {cur[t]}] BY <2>2
    <3>4. tried[t] \cup {cur[t]} \in SUBSET Key BY <2>2
    <3>5. tried' \in [Thread -> SUBSET Key] BY <3>3, <3>4
    <3>6. pc' = [pc EXCEPT ![t] = "dial"] BY <2>2
    <3> QED BY <2>2, <3>2, <3>5, <3>6
  <2> QED BY <2>1, <2>2
<1>2. SortInside' BY DEF SortInside, SortLen
<1>3. DialInside' BY DEF DialInside, TypeOK
<1>4. DivisorPositive'
  <2>1. CASE cur[t] = Torn
    <3>1. \A k \in Key : UnderWay(k)' \subseteq UnderWay(k)
      BY <2>1 DEF UnderWay, TypeOK
    <3>2. UNCHANGED <<tryCount, errCount>> BY <2>1
    <3>3. tryCount \in [Key -> Nat] /\ errCount \in [Key -> Nat]
      BY DEF TypeOK
    <3> QED BY <3>1, <3>2, <3>3, NoneBegins
  <2>2. CASE cur[t] \in Key
    <3> SUFFICES ASSUME NEW k \in Key
                 PROVE  tryCount'[k] - errCount'[k]
                          >= Cardinality(UnderWay(k)')
      BY DEF DivisorPositive
    <3>1. tryCount[k] - errCount[k] >= Cardinality(UnderWay(k))
      BY DEF DivisorPositive
    <3>2. tryCount[k] \in Nat /\ errCount[k] \in Nat BY DEF TypeOK
    <3>3. CASE k = cur[t]
      <4>1. UnderWay(k)' \subseteq UnderWay(k) \cup {t}
        BY <2>2 DEF UnderWay, TypeOK
      <4>2. /\ IsFiniteSet(UnderWay(k) \cup {t})
            /\ Cardinality(UnderWay(k) \cup {t}) =
                 IF t \in UnderWay(k) THEN Cardinality(UnderWay(k))
                 ELSE Cardinality(UnderWay(k)) + 1
        <5>1. IsFiniteSet(UnderWay(k)) BY UnderWayFinite
        <5> HIDE DEF UnderWay
        <5> QED BY <5>1, FS_AddElement
      <4>3. Cardinality(UnderWay(k)') <= Cardinality(UnderWay(k) \cup {t})
        BY <4>1, <4>2, FS_Subset
      <4>4. Cardinality(UnderWay(k) \cup {t}) \in Nat
        BY <4>2, FS_CardinalityType
      <4>5. tryCount'[k] = tryCount[k] + 1 /\ errCount'[k] = errCount[k]
        BY <2>2, <3>3 DEF TypeOK
      <4> QED BY <3>1, <3>2, <4>2, <4>3, <4>4, <4>5, UnderWayFinite
    <3>4. CASE k # cur[t]
      <4>1. UnderWay(k)' = UnderWay(k) BY <2>2, <3>4 DEF UnderWay, TypeOK
      <4>2. tryCount'[k] = tryCount[k] /\ errCount'[k] = errCount[k]
        BY <2>2, <3>4 DEF TypeOK
      <4> QED BY <3>1, <4>1, <4>2
    <3> QED BY <3>3, <3>4
  <2> QED BY <2>1, <2>2
<1> QED BY <1>1, <1>2, <1>3, <1>4

\* The entry of a counter changes to one of its type.
LEMMA EntryType ==
  ASSUME NEW S, NEW T, NEW f \in [S -> T], NEW k \in S, NEW v \in T
  PROVE  [f EXCEPT ![k] = v] \in [S -> T]
  OBVIOUS

\* Durations add up, and the rate of a failed dial has a divisor
\* (dialer.go:383, 391).
LEMMA SumType == \A a \in Nat, b \in Nat : a + b \in Nat
  OBVIOUS

LEMMA RateType ==
  \A a \in Nat, b \in Nat \ {0} : <<a + 1, b>> \in Nat \X (Nat \ {0})
  OBVIOUS

\* A dial has succeeded: the divisor is positive and stays so
\* (dialer.go:380-388).
LEMMA DialOkIInv ==
  ASSUME IInv, NEW t \in Thread, DialOk(t)
  PROVE  IInv'
<1> USE SortedDialerAssumption DEF IInv, Goto, sort
<1>1. PICK u \in Used : Success(cur[t], u) BY DEF DialOk
<1> DEFINE k == cur[t]
<1>2. /\ k \in Key /\ tryCount[k] \in Nat \ {0} /\ errCount[k] \in Nat
      /\ tryCount[k] - errCount[k] \in Nat \ {0}
  <2>1. pc[t] = "dial" BY DEF DialOk
  <2>2. /\ k \in Key /\ tryCount[k] \in Nat /\ errCount[k] \in Nat
        /\ tryCount[k] - errCount[k] >= 1
    BY <2>1, DialCounted
  <2> QED BY <2>2
<1>3. TypeOK'
  <2> USE DEF TypeOK
  <2>1. usedTime[k] + u \in Nat
    <3>1. usedTime[k] \in Nat /\ u \in Nat BY <1>2
    <3> QED BY ONLY <3>1, SumType
  <2>2. (usedTime[k] + u) \div (tryCount[k] - errCount[k]) \in Nat
    BY <1>2, <2>1, DivType
  <2>3. usedTime' \in [Key -> Nat] BY <1>1, <2>1 DEF Success
  <2>4. avgTime' \in [Key -> Nat] BY <1>1, <2>2 DEF Success
  <2>5. errRate' \in [Key -> Nat \X (Nat \ {0})] BY <1>1, <1>2 DEF Success
  <2>6. UNCHANGED <<tryCount, errCount>> BY <1>1 DEF Success
  <2> QED BY <2>3, <2>4, <2>5, <2>6 DEF DialOk
<1>4. SortInside' BY DEF SortInside, SortLen, DialOk
<1>5. DialInside' BY DEF DialInside, TypeOK, DialOk
<1>6. DivisorPositive'
  <2>1. \A l \in Key : UnderWay(l)' \subseteq UnderWay(l)
    BY DEF UnderWay, TypeOK, DialOk
  <2>2. UNCHANGED <<tryCount, errCount>> BY <1>1 DEF Success
  <2>3. tryCount \in [Key -> Nat] /\ errCount \in [Key -> Nat]
    BY DEF TypeOK
  <2> QED BY <2>1, <2>2, <2>3, NoneBegins
<1> QED BY <1>3, <1>4, <1>5, <1>6

\* A dial has failed: one error more, and one dial less (dialer.go:389-393).
LEMMA DialFailsIInv ==
  ASSUME IInv, NEW t \in Thread, DialFails(t)
  PROVE  IInv'
<1> USE SortedDialerAssumption DEF IInv, Goto, sort
<1> DEFINE k == cur[t]
<1>1. /\ k \in Key /\ tryCount[k] \in Nat \ {0} /\ errCount[k] \in Nat
      /\ tryCount[k] - errCount[k] \in Nat \ {0}
  BY DialCounted DEF DialFails
<1>2. /\ errCount' = [errCount EXCEPT ![k] = @ + 1]
      /\ errRate' = [errRate EXCEPT ![k] = <<errCount[k] + 1, tryCount[k]>>]
      /\ UNCHANGED <<tryCount, usedTime, avgTime>>
  BY DEF DialFails, Failure
<1>3. TypeOK'
  <2> USE DEF TypeOK
  <2>1. errCount[k] + 1 \in 0 .. MaxTry
    <3>1. tryCount[k] \in 0 .. MaxTry BY <1>1
    <3>2. errCount[k] + 1 <= tryCount[k] BY ONLY <1>1
    <3>3. MaxTry \in Nat BY SortedDialerAssumption
    <3> QED BY ONLY <1>1, <3>1, <3>2, <3>3
  <2>2. errCount' \in [Key -> 0 .. MaxTry] BY <1>2, <2>1
  <2>3. errRate' \in [Key -> Nat \X (Nat \ {0})]
    <3>1. <<errCount[k] + 1, tryCount[k]>> \in Nat \X (Nat \ {0})
      BY ONLY <1>1, RateType
    <3>2. errRate \in [Key -> Nat \X (Nat \ {0})] OBVIOUS
    <3> QED BY ONLY <1>1, <1>2, <3>1, <3>2, EntryType
  <2>4. pos[t] + 1 \in 1 .. Len(Servers) + 1 BY DEF DialFails, DialInside
  <2>5. pos' \in [Thread -> 1 .. Len(Servers) + 1] BY <2>4 DEF DialFails
  <2> QED BY <1>2, <2>2, <2>3, <2>5 DEF DialFails
<1>4. SortInside' BY DEF SortInside, SortLen, DialFails
<1>5. DialInside' BY DEF DialInside, TypeOK, DialFails
<1>6. DivisorPositive'
  <2> SUFFICES ASSUME NEW l \in Key
               PROVE  tryCount'[l] - errCount'[l] >= Cardinality(UnderWay(l)')
    BY DEF DivisorPositive
  <2>1. tryCount[l] - errCount[l] >= Cardinality(UnderWay(l))
    BY DEF DivisorPositive
  <2>2. tryCount[l] \in Nat /\ errCount[l] \in Nat BY DEF TypeOK
  <2>3. CASE l = k
    <3>1. UnderWay(l)' = UnderWay(l) \ {t} /\ t \in UnderWay(l)
      BY <2>3 DEF UnderWay, TypeOK, DialFails
    <3>2. Cardinality(UnderWay(l)') = Cardinality(UnderWay(l)) - 1
      <4>1. IsFiniteSet(UnderWay(l)) BY UnderWayFinite
      <4> HIDE DEF UnderWay
      <4> QED BY <3>1, <4>1, FS_RemoveElement
    <3>3. tryCount'[l] = tryCount[l] /\ errCount'[l] = errCount[l] + 1
      BY <1>2, <2>3 DEF TypeOK
    <3> QED BY <2>1, <2>2, <3>2, <3>3, UnderWayFinite
  <2>4. CASE l # k
    <3>1. UnderWay(l)' = UnderWay(l)
      BY <2>4 DEF UnderWay, TypeOK, DialFails
    <3>2. tryCount'[l] = tryCount[l] /\ errCount'[l] = errCount[l]
      BY <1>2, <2>4 DEF TypeOK
    <3> QED BY <2>1, <3>1, <3>2
  <2> QED BY <2>3, <2>4
<1> QED BY <1>3, <1>4, <1>5, <1>6

-----------------------------------------------------------------------------

\* Beginning a sort, and returning its flag and its lock, count nothing
\* (dialer.go:395-400).
LEMMA SorterIInv ==
  ASSUME IInv, SorterLocks \/ SortEnds \/ SorterEnds
  PROVE  IInv'
<1> USE SortedDialerAssumption DEF IInv, counts, dial
<1>1. TypeOK'
  <2> USE DEF TypeOK
  <2>1. CASE SorterLocks BY <2>1 DEF SorterLocks, StartSort
  <2>2. CASE SortEnds BY <2>2 DEF SortEnds
  <2>3. CASE SorterEnds BY <2>3 DEF SorterEnds
  <2> QED BY <2>1, <2>2, <2>3
<1>2. SortInside'
  <2> USE DEF SortInside
  <2>1. CASE SorterLocks BY <2>1 DEF SorterLocks, StartSort
  <2>2. CASE SortEnds
    <3>1. place[1] \in Nat BY DEF TypeOK
    <3>2. ~swapping BY <2>2, <3>1, SortLenBound DEF SortEnds
    <3> QED BY <2>2, <3>2 DEF SortEnds
  <2>3. CASE SorterEnds BY <2>3 DEF SorterEnds, SortLen
  <2> QED BY <2>1, <2>2, <2>3
<1>3. DialInside'
  BY DEF DialInside, SorterLocks, StartSort, SortEnds, SorterEnds
<1>4. DivisorPositive'
  BY DEF DivisorPositive, UnderWay, SorterLocks, SortEnds, SorterEnds
<1> QED BY <1>1, <1>2, <1>3, <1>4

\* A step of the sort stays inside keys (dialer.go:422-425).
LEMMA InsertIInv ==
  ASSUME IInv, Insert
  PROVE  IInv'
<1> USE SortedDialerAssumption DEF IInv, counts, dial
<1> DEFINE i == place[1]
           j == place[2]
<1>1. /\ i \in Nat /\ j \in Nat /\ j <= i /\ i <= SortLen
      /\ keys \in Seq(Key) /\ Len(keys) = Len(Servers) /\ Len(keys) \in Nat
  BY DEF TypeOK, SortInside, Insert
<1>2. CASE swapping
  <2>1. j \in 1 .. Len(keys) /\ j - 1 \in 1 .. Len(keys) /\ j - 1 \in Nat
    BY <1>1, <1>2, SortLenBound DEF SortInside
  <2>2. keys' = [keys EXCEPT ![j] = keys[j - 1], ![j - 1] = keys[j]]
        /\ place' = <<i, j - 1>> /\ swapping' = FALSE
    BY <1>2 DEF Insert
  <2>3. keys[j] \in Key /\ keys[j - 1] \in Key BY <1>1, <2>1
  <2>4. keys' \in Seq(Key) /\ Len(keys') = Len(keys)
    <3> DEFINE half == [keys EXCEPT ![j] = keys[j - 1]]
    <3>1. half \in Seq(Key) /\ Len(half) = Len(keys)
      BY <1>1, <2>1, <2>3, ExceptSeq
    <3>2. keys' = [half EXCEPT ![j - 1] = keys[j]] BY <2>2
    <3> HIDE DEF half
    <3> QED BY <2>1, <2>3, <3>1, <3>2, ExceptSeq
  <2>5. TypeOK' BY <1>1, <2>1, <2>2, <2>4 DEF TypeOK, Insert
  <2>6. SortInside'
    <3>1. place'[1] = i /\ place'[2] = j - 1 /\ ~swapping' BY <2>2
    <3>2. Len(keys') = Len(Servers) /\ j - 1 <= i BY <1>1, <2>1, <2>4
    <3> QED BY <3>1, <3>2 DEF SortInside
  <2>7. DialInside' BY DEF DialInside, Insert
  <2>8. DivisorPositive' BY DEF DivisorPositive, UnderWay, Insert
  <2> QED BY <2>5, <2>6, <2>7, <2>8
<1>3. CASE ~swapping
  <2>1. /\ keys' = keys
        /\ \/ /\ j > 1 /\ swapping' = TRUE /\ place' = place
           \/ place' = <<i + 1, i + 1>> /\ swapping' = swapping
    BY <1>3 DEF Insert
  <2>2. lock' = lock /\ lock # "free" BY DEF Insert
  <2>3. TypeOK'
    <3>1. i + 1 \in Nat BY <1>1
    <3>2. place \in Nat \X Nat /\ swapping \in BOOLEAN BY DEF TypeOK
    <3>3. <<i + 1, i + 1>> \in Nat \X Nat BY <3>1
    <3>4. place' \in Nat \X Nat
      <4> HIDE DEF i, j
      <4> QED BY <2>1, <3>2, <3>3
    <3>5. swapping' \in BOOLEAN BY <2>1, <3>2
    <3> QED BY <2>1, <3>4, <3>5 DEF TypeOK, Insert
  <2>4. SortInside' BY <1>1, <1>3, <2>1, <2>2 DEF SortInside, SortLen
  <2>5. DialInside' BY DEF DialInside, Insert
  <2>6. DivisorPositive' BY DEF DivisorPositive, UnderWay, Insert
  <2> QED BY <2>3, <2>4, <2>5, <2>6
<1> QED BY <1>2, <1>3

\* Test takes keys, and later counts one try for each (dialer.go:428-506).
LEMMA TestBeginsIInv ==
  ASSUME IInv, TestBegins
  PROVE  IInv'
<1> USE SortedDialerAssumption DEF IInv, counts, dial
<1>1. tested' \in SUBSET Key
  <2>1. \A i \in 1 .. Len(keys) : keys[i] \in Key BY DEF TypeOK
  <2> QED BY <2>1 DEF TestBegins
<1>2. TypeOK' BY <1>1 DEF TypeOK, TestBegins
<1>3. SortInside' BY DEF SortInside, SortLen, TestBegins
<1>4. DialInside' BY DEF DialInside, TestBegins
<1>5. DivisorPositive' BY DEF DivisorPositive, UnderWay, TestBegins
<1> QED BY <1>2, <1>3, <1>4, <1>5

\* Test counts one try of each key it dialled, and one error of each that
\* failed, under the lock (dialer.go:472-488).
LEMMA TestCountsIInv ==
  ASSUME IInv, TestCounts
  PROVE  IInv'
<1> USE SortedDialerAssumption DEF IInv
<1>0. PICK failed \in SUBSET tested : \E u \in [tested \ failed -> Used] :
        /\ tryCount' = [k \in Key |->
             IF k \in tested THEN tryCount[k] + 1 ELSE tryCount[k]]
        /\ errCount' = [k \in Key |->
             IF k \in failed THEN errCount[k] + 1 ELSE errCount[k]]
        /\ usedTime' = [k \in Key |->
             IF k \in tested \ failed THEN usedTime[k] + u[k] ELSE usedTime[k]]
        /\ avgTime' = [k \in Key |->
             IF k \in tested \ failed
             THEN usedTime'[k] \div (tryCount'[k] - errCount'[k])
             ELSE avgTime[k]]
        /\ errRate' = [k \in Key |->
             IF k \in tested THEN <<errCount'[k], tryCount'[k]>>
             ELSE errRate[k]]
  BY DEF TestCounts
<1>1. PICK u \in [tested \ failed -> Used] :
        /\ tryCount' = [k \in Key |->
             IF k \in tested THEN tryCount[k] + 1 ELSE tryCount[k]]
        /\ errCount' = [k \in Key |->
             IF k \in failed THEN errCount[k] + 1 ELSE errCount[k]]
        /\ usedTime' = [k \in Key |->
             IF k \in tested \ failed THEN usedTime[k] + u[k] ELSE usedTime[k]]
        /\ avgTime' = [k \in Key |->
             IF k \in tested \ failed
             THEN usedTime'[k] \div (tryCount'[k] - errCount'[k])
             ELSE avgTime[k]]
        /\ errRate' = [k \in Key |->
             IF k \in tested THEN <<errCount'[k], tryCount'[k]>>
             ELSE errRate[k]]
  BY <1>0
<1>2. \A k \in tested : tryCount[k] < MaxTry BY DEF TestCounts, MayTry
<1>3. tested \subseteq Key BY DEF TypeOK
<1>4. \A k \in Key : /\ tryCount[k] \in 0 .. MaxTry
                     /\ errCount[k] \in 0 .. MaxTry
                     /\ tryCount[k] - errCount[k] >= 0
  <2> SUFFICES ASSUME NEW k \in Key
               PROVE  /\ tryCount[k] \in 0 .. MaxTry
                      /\ errCount[k] \in 0 .. MaxTry
                      /\ tryCount[k] - errCount[k] >= 0
    OBVIOUS
  <2>1. tryCount[k] \in 0 .. MaxTry /\ errCount[k] \in 0 .. MaxTry
    BY DEF TypeOK
  <2>2. tryCount[k] - errCount[k] >= Cardinality(UnderWay(k))
    BY DEF DivisorPositive
  <2> QED BY <2>1, <2>2, UnderWayFinite
<1>5. \A k \in Key : /\ tryCount'[k] \in 0 .. MaxTry
                     /\ errCount'[k] \in 0 .. MaxTry
                     /\ tryCount'[k] - errCount'[k] >=
                          tryCount[k] - errCount[k]
  BY <1>1, <1>2, <1>4
<1>6. \A k \in tested : tryCount'[k] \in Nat \ {0} BY <1>1, <1>3, <1>4
<1>7. \A k \in tested \ failed :
        tryCount'[k] - errCount'[k] \in Nat \ {0}
  BY <1>1, <1>3, <1>4
<1>8. \A k \in Key : usedTime'[k] \in Nat
  <2> SUFFICES ASSUME NEW k \in Key PROVE usedTime'[k] \in Nat OBVIOUS
  <2>1. usedTime[k] \in Nat BY DEF TypeOK
  <2>2. CASE k \in tested \ failed
    <3>1. u[k] \in Nat BY <2>2
    <3>2. usedTime'[k] = usedTime[k] + u[k] BY <1>1, <2>2
    <3> QED BY <2>1, <3>1, <3>2
  <2>3. CASE k \notin tested \ failed
    <3>1. usedTime'[k] = usedTime[k] BY <1>1, <2>3
    <3> QED BY <2>1, <3>1
  <2> QED BY <2>2, <2>3
<1>9. \A k \in Key : avgTime'[k] \in Nat
  <2>1. \A k \in Key : avgTime[k] \in Nat BY DEF TypeOK
  <2> SUFFICES ASSUME NEW k \in Key PROVE avgTime'[k] \in Nat OBVIOUS
  <2>2. CASE k \in tested \ failed
    <3>1. usedTime'[k] \div (tryCount'[k] - errCount'[k]) \in Nat
      BY <1>7, <1>8, <2>2, DivType
    <3> QED BY <1>1, <2>2, <3>1
  <2>3. CASE k \notin tested \ failed BY <1>1, <2>1, <2>3
  <2> QED BY <2>2, <2>3
<1>10. \A k \in Key : errRate'[k] \in Nat \X (Nat \ {0})
  <2>1. \A k \in Key : errRate[k] \in Nat \X (Nat \ {0}) BY DEF TypeOK
  <2>2. \A k \in Key : errCount'[k] \in Nat BY <1>5
  <2> QED BY <1>1, <1>6, <2>1, <2>2
<1>11. TypeOK'
  <2>1. /\ tryCount' \in [Key -> 0 .. MaxTry]
        /\ errCount' \in [Key -> 0 .. MaxTry]
    BY <1>1, <1>5
  <2>2. usedTime' \in [Key -> Nat] BY <1>1, <1>8
  <2>3. avgTime' \in [Key -> Nat] BY <1>1, <1>9
  <2>4. errRate' \in [Key -> Nat \X (Nat \ {0})] BY <1>1, <1>10
  <2>5. /\ lock' = "tester" /\ tester' = "sorting" /\ place' = <<2, 2>>
        /\ disturbed' = [t \in Thread |-> TRUE]
        /\ UNCHANGED <<keys, sorting, sorter, tested, swapping, pc, pos, cur,
                       tried>>
    BY DEF TestCounts, StartSort
  <2> QED BY <2>1, <2>2, <2>3, <2>4, <2>5 DEF TypeOK
<1>12. SortInside' BY DEF SortInside, TestCounts, StartSort
<1>13. DialInside' BY DEF DialInside, TestCounts
<1>14. DivisorPositive'
  <2>1. \A k \in Key : UnderWay(k)' \subseteq UnderWay(k)
    BY DEF UnderWay, TestCounts
  <2>2. /\ tryCount' \in [Key -> Nat]
        /\ errCount' \in [Key -> Nat]
    BY <1>1, <1>5
  <2> QED BY <1>5, <2>1, <2>2, NoneBegins
<1> QED BY <1>11, <1>12, <1>13, <1>14

-----------------------------------------------------------------------------

\* Every step keeps the invariant.
LEMMA NextIInv == IInv /\ [Next]_vars => IInv'
<1> SUFFICES ASSUME IInv, [Next]_vars PROVE IInv' OBVIOUS
<1>1. ASSUME NEW t \in Thread, Call(t) \/ DialNext(t) PROVE IInv'
  BY <1>1, ReadIInv, BeginIInv, DialOkIInv, DialFailsIInv DEF DialNext
<1>2. CASE SortNext BY <1>2, SorterIInv, InsertIInv DEF SortNext
<1>3. CASE TestBegins BY <1>3, TestBeginsIInv
<1>4. CASE TestCounts BY <1>4, TestCountsIInv
<1>5. CASE UNCHANGED vars
  BY <1>5 DEF vars, counts, sort, dial, IInv, TypeOK, SortInside, SortLen,
     DialInside, DivisorPositive, UnderWay
<1> QED BY <1>1, <1>2, <1>3, <1>4, <1>5 DEF Next

\* The invariant holds in every behaviour of the sorted dialer.
LEMMA SpecIInv == Spec => []IInv
BY InitIInv, NextIInv, PTL DEF Spec

\* The fields of SortedDialer keep their types, and its sort stays inside
\* keys.
THEOREM TypeCorrect == Spec => []TypeOK
BY SpecIInv, PTL DEF IInv

\* The divisor of the average time (dialer.go:384, 487) is at least the
\* number of dials of that server under way: with any number of concurrent
\* dials, sorts and tests it is never zero when a dial has succeeded.
THEOREM DivisorsPositive == Spec => []DivisorPositive
BY SpecIInv, PTL DEF IInv

-----------------------------------------------------------------------------
(***************************************************************************)
(* The servers of keys, and what a Dial has tried of them.                 *)
(***************************************************************************)

\* The positions of k in q.
Places(q, k) == {i \in 1 .. Len(q) : q[i] = k}

\* A swap of two elements gives each element as many positions as before.
LEMMA SwapPlaces ==
  ASSUME NEW S, NEW q \in Seq(S), NEW r \in Seq(S), Len(r) = Len(q),
         NEW a \in 1 .. Len(q), NEW b \in 1 .. Len(q),
         r[a] = q[b], r[b] = q[a],
         \A i \in (1 .. Len(q)) \ {a, b} : r[i] = q[i],
         NEW k
  PROVE  Cardinality(Places(r, k)) = Cardinality(Places(q, k))
<1> DEFINE other(i) == IF i = a THEN b ELSE IF i = b THEN a ELSE i
           f == [i \in Places(q, k) |-> other(i)]
<1>1. \A i \in Places(q, k) : other(i) \in Places(r, k) BY DEF Places
<1>2. \A i \in Places(r, k) :
        other(i) \in Places(q, k) /\ other(other(i)) = i
  BY DEF Places
<1>3. \A i, j \in Places(q, k) : other(i) = other(j) => i = j
  BY DEF Places
<1>4. f \in Bijection(Places(q, k), Places(r, k))
  <2> HIDE DEF other
  <2>1. f \in [Places(q, k) -> Places(r, k)] BY <1>1
  <2>2. f \in Injection(Places(q, k), Places(r, k))
    BY <1>3, <2>1 DEF Injection, IsInjective
  <2>3. f \in Surjection(Places(q, k), Places(r, k))
    BY <1>2, <2>1 DEF Surjection
  <2> QED BY <2>2, <2>3 DEF Bijection
<1>5. IsFiniteSet(Places(q, k))
  <2>1. Len(q) \in Nat OBVIOUS
  <2>2. IsFiniteSet(1 .. Len(q)) BY <2>1, FS_Interval, SMTT(30)
  <2> QED BY <2>2, FS_Subset DEF Places
<1>6. ExistsBijection(Places(q, k), Places(r, k))
  BY <1>4 DEF ExistsBijection
<1> QED BY <1>5, <1>6, FS_Bijection

\* A swap exchanges two neighbours of keys (dialer.go:422-425).
LEMMA SwapKeys ==
  ASSUME IInv, Insert, swapping
  PROVE  /\ keys \in Seq(Key) /\ keys' \in Seq(Key) /\ Len(keys') = Len(keys)
         /\ place[2] \in 1 .. Len(keys) /\ place[2] - 1 \in 1 .. Len(keys)
         /\ keys'[place[2]] = keys[place[2] - 1]
         /\ keys'[place[2] - 1] = keys[place[2]]
         /\ \A i \in (1 .. Len(keys)) \ {place[2], place[2] - 1} :
              keys'[i] = keys[i]
<1> DEFINE j == place[2]
<1>1. /\ keys \in Seq(Key) /\ keys' \in Seq(Key)
      /\ Len(keys) = Len(Servers) /\ Len(keys') = Len(Servers)
  <2>1. IInv' BY InsertIInv
  <2> QED BY <2>1 DEF IInv, TypeOK, SortInside
<1>2. j \in 1 .. Len(keys) /\ j - 1 \in 1 .. Len(keys)
  <2>1. /\ place[1] \in Nat /\ j \in Nat /\ j <= place[1]
        /\ place[1] <= SortLen /\ j > 1
    BY DEF IInv, TypeOK, SortInside
  <2> QED BY <1>1, <2>1, SortLenBound
<1>3. keys' = [keys EXCEPT ![j] = keys[j - 1], ![j - 1] = keys[j]]
  BY DEF Insert
<1>4. /\ keys'[j] = keys[j - 1] /\ keys'[j - 1] = keys[j]
      /\ \A i \in (1 .. Len(keys)) \ {j, j - 1} : keys'[i] = keys[i]
  BY <1>1, <1>2, <1>3
<1> QED BY <1>1, <1>2, <1>4

\* The sort changes keys by swaps.
LEMMA NextServers ==
  ASSUME IInv, SameServers, [Next]_vars
  PROVE  SameServers'
<1>1. CASE keys' = keys BY <1>1 DEF SameServers
<1>2. CASE Insert /\ swapping
  <2> DEFINE j == place[2]
  <2>1. /\ keys \in Seq(Key) /\ keys' \in Seq(Key) /\ Len(keys') = Len(keys)
        /\ j \in 1 .. Len(keys) /\ j - 1 \in 1 .. Len(keys)
        /\ keys'[j] = keys[j - 1] /\ keys'[j - 1] = keys[j]
        /\ \A i \in (1 .. Len(keys)) \ {j, j - 1} : keys'[i] = keys[i]
    BY <1>2, SwapKeys
  <2> HIDE DEF j
  <2>2. \A k \in Key :
          Cardinality(Places(keys', k)) = Cardinality(Places(keys, k))
    BY <2>1, SwapPlaces
  <2>3. Len(Servers) = Len(keys) BY DEF IInv, SortInside
  <2> QED BY <2>1, <2>2, <2>3 DEF SameServers, Places
<1> QED
  BY <1>1, <1>2 DEF Next, vars, DialNext, SortNext, Call, ReadKey, Begin, DialOk,
     DialFails, Return, SorterLocks, Insert, SortEnds, SorterEnds, TestBegins,
     TestCounts

\* Every server is somewhere in keys.
LEMMA KeysCover ==
  ASSUME IInv, SameServers, NEW k \in Key
  PROVE  \E i \in 1 .. Len(keys) : keys[i] = k
<1>1. PICK i \in 1 .. Len(Servers) : Servers[i] = k BY DEF Key
<1>2. \A n \in Nat : IsFiniteSet(1 .. n) BY FS_Interval, SMTT(30)
<1>3. IsFiniteSet(Places(Servers, k)) /\ IsFiniteSet(Places(keys, k))
  <2>1. Len(Servers) \in Nat /\ Len(keys) \in Nat
    BY SortedDialerAssumption DEF IInv, TypeOK
  <2> QED BY <1>2, <2>1, FS_Subset DEF Places
<1>4. Cardinality(Places(Servers, k)) # 0
  BY <1>1, <1>3, FS_EmptySet DEF Places
<1>5. Cardinality(Places(keys, k)) # 0 BY <1>4 DEF SameServers, Places
<1>6. Places(keys, k) # {} BY <1>3, <1>5, FS_EmptySet
<1> QED BY <1>6 DEF Places

\* A thread in Dial whose keys were not touched has tried those before its
\* position, and the one it dials is that of its position.
Trying ==
  \A t \in Thread : pc[t] \in {"read", "got", "dial"} /\ ~disturbed[t] =>
    /\ lock = "free"
    /\ \A i \in 1 .. pos[t] - 1 : keys[i] \in tried[t]
    /\ pc[t] \in {"got", "dial"} => cur[t] = keys[pos[t]]
    /\ pc[t] = "dial" => cur[t] \in tried[t]

\* A step of another goroutine, or of another thread, without the lock.
LEMMA TryingKept ==
  ASSUME IInv, Trying, lock' = lock, lock = "free" => keys' = keys,
         NEW t \in Thread,
         \A s \in Thread \ {t} :
           /\ pc'[s] = pc[s] /\ pos'[s] = pos[s] /\ cur'[s] = cur[s]
           /\ tried'[s] = tried[s] /\ disturbed'[s] = disturbed[s],
         pc'[t] \in {"read", "got", "dial"} /\ ~disturbed'[t] =>
           /\ lock = "free"
           /\ \A i \in 1 .. pos'[t] - 1 : keys[i] \in tried'[t]
           /\ pc'[t] \in {"got", "dial"} => cur'[t] = keys[pos'[t]]
           /\ pc'[t] = "dial" => cur'[t] \in tried'[t]
  PROVE  Trying'
<1> SUFFICES ASSUME NEW s \in Thread, pc'[s] \in {"read", "got", "dial"},
                    ~disturbed'[s]
             PROVE  /\ lock' = "free"
                    /\ \A i \in 1 .. pos'[s] - 1 : keys'[i] \in tried'[s]
                    /\ pc'[s] \in {"got", "dial"} => cur'[s] = keys'[pos'[s]]
                    /\ pc'[s] = "dial" => cur'[s] \in tried'[s]
  BY DEF Trying
<1>1. CASE s = t BY <1>1
<1>2. CASE s # t BY <1>2 DEF Trying
<1> QED BY <1>1, <1>2

\* A step of Dial (dialer.go:370-405).
LEMMA DialTrying ==
  ASSUME IInv, Trying, NEW t \in Thread, Call(t) \/ DialNext(t)
  PROVE  Trying'
<1> USE DEF Goto, counts, sort
<1>0. /\ pc \in [Thread -> {"idle", "read", "got", "dial", "after", "panic"}]
      /\ pos \in [Thread -> 1 .. Len(Servers) + 1]
      /\ cur \in [Thread -> Key \cup {Torn}]
      /\ tried \in [Thread -> SUBSET Key]
      /\ disturbed \in [Thread -> BOOLEAN]
      /\ Len(Servers) \in Nat
      /\ swapping => lock # "free"
  BY SortedDialerAssumption DEF IInv, TypeOK, SortInside
<1>1. /\ lock' = lock /\ keys' = keys
      /\ \A s \in Thread \ {t} :
           /\ pc'[s] = pc[s] /\ pos'[s] = pos[s] /\ cur'[s] = cur[s]
           /\ tried'[s] = tried[s] /\ disturbed'[s] = disturbed[s]
  BY <1>0 DEF DialNext, Call, ReadKey, Begin, DialOk, DialFails, Return
<1>2. CASE Call(t)
  <2>1. pos'[t] = 1 /\ pc'[t] = "read" /\ disturbed'[t] = (lock # "free")
    BY <1>0, <1>2 DEF Call
  <2>2. \A i \in 1 .. pos'[t] - 1 : keys[i] \in tried'[t] BY <2>1
  <2>3. /\ ~disturbed'[t] => lock = "free"
        /\ pc'[t] \notin {"got", "dial"} /\ pc'[t] # "dial"
    BY <2>1
  <2> HIDE DEF Goto, counts, sort
  <2> QED BY <1>1, <2>2, <2>3, TryingKept
<1>3. CASE ReadKey(t)
  <2>1. /\ pc[t] = "read" /\ pc'[t] = "got" /\ cur'[t] \in Elements(pos[t])
        /\ pos' = pos /\ tried' = tried /\ disturbed' = disturbed
    BY <1>0, <1>3 DEF ReadKey
  <2>2. lock = "free" => cur'[t] = keys[pos[t]] BY <1>0, <2>1 DEF Elements
  <2> QED BY <1>1, <2>1, <2>2, TryingKept DEF Trying
<1>4. CASE Begin(t)
  <2>1. pc[t] = "got" /\ pos' = pos /\ cur' = cur /\ disturbed' = disturbed
    BY <1>4 DEF Begin
  <2>2. \/ pc'[t] = "panic"
        \/ /\ pc'[t] = "dial" /\ cur[t] \in tried'[t]
           /\ tried[t] \subseteq tried'[t]
    BY <1>0, <1>4 DEF Begin
  <2> QED BY <1>1, <2>1, <2>2, TryingKept DEF Trying
<1>5. CASE DialOk(t) \/ Return(t)
  <2>1. pc'[t] \in {"after", "idle"} BY <1>0, <1>5 DEF DialOk, Return
  <2> QED BY <1>1, <2>1, TryingKept
<1>6. CASE DialFails(t)
  <2>1. /\ pc[t] = "dial" /\ pc'[t] = "read" /\ pos'[t] = pos[t] + 1
        /\ tried' = tried /\ disturbed' = disturbed
    BY <1>0, <1>6 DEF DialFails
  <2>2. pos[t] \in Nat BY <1>0
  <2>3. ~disturbed[t] => \A i \in 1 .. pos[t] : keys[i] \in tried[t]
    BY <2>1, <2>2 DEF Trying
  <2>4. \A i \in 1 .. pos'[t] - 1 : i \in 1 .. pos[t] BY <2>1, <2>2
  <2> QED BY <1>1, <2>1, <2>3, <2>4, TryingKept DEF Trying
<1> QED BY <1>2, <1>3, <1>4, <1>5, <1>6 DEF DialNext

\* A sort takes the lock only when it marks every Dial as disturbed.
LEMMA NextTrying ==
  ASSUME IInv, Trying, [Next]_vars
  PROVE  Trying'
<1>1. CASE UNCHANGED <<lock, keys, dial>> BY <1>1 DEF Trying, dial
<1>2. CASE SorterLocks \/ TestCounts
  <2>1. disturbed' = [t \in Thread |-> TRUE]
    BY <1>2 DEF SorterLocks, TestCounts, StartSort
  <2> QED BY <2>1 DEF Trying
<1>3. CASE (Insert \/ SortEnds) /\ UNCHANGED dial
  <2>1. lock # "free" BY <1>3 DEF Insert, SortEnds
  <2> QED BY <1>3, <2>1 DEF Trying, dial
<1> QED
  BY <1>1, <1>2, <1>3, DialTrying
     DEF Next, SortNext, vars, sort, Insert, SortEnds, SorterEnds, TestBegins

\* What a Dial tries, and that no server is lost, in every behaviour.
LEMMA SpecServers == Spec => [](IInv /\ SameServers /\ Trying)
<1>1. Init => SameServers BY DEF Init, SameServers
<1>2. Init => Trying
  <2>1. ASSUME Init PROVE \A t \in Thread : pc[t] = "idle" BY <2>1 DEF Init
  <2> QED BY <2>1 DEF Trying
<1> QED BY <1>1, <1>2, InitIInv, NextIInv, NextServers, NextTrying, PTL DEF Spec

\* The sort loses no server and doubles none, though Dial reads keys while
\* Swap writes them (dialer.go:373, 422-425).
THEOREM ServersKept == Spec => []SameServers
BY SpecServers, PTL

\* A Dial that failed, and during which keys was not sorted, has tried every
\* server (dialer.go:373-393).
THEOREM FailureIsComplete == Spec => []FailedTriedAll
<1>1. ASSUME IInv, SameServers, Trying PROVE FailedTriedAll
  <2> SUFFICES ASSUME NEW t \in Thread, pc[t] = "read", pos[t] > Len(keys),
                      ~disturbed[t]
               PROVE  tried[t] = Key
    BY DEF FailedTriedAll
  <2>1. tried[t] \subseteq Key /\ pos[t] \in Nat /\ Len(keys) \in Nat
    BY <1>1, SortedDialerAssumption DEF IInv, TypeOK
  <2>2. \A i \in 1 .. Len(keys) : i \in 1 .. pos[t] - 1 BY <2>1
  <2>3. \A i \in 1 .. pos[t] - 1 : keys[i] \in tried[t] BY <1>1 DEF Trying
  <2>4. Key \subseteq tried[t] BY <1>1, <2>2, <2>3, KeysCover
  <2> QED BY <2>1, <2>4
<1> QED BY <1>1, SpecServers, PTL

-----------------------------------------------------------------------------
(***************************************************************************)
(* The order that a sort leaves.                                           *)
(***************************************************************************)

\* Less has no two keys each before the other, though with its tolerance it
\* orders no three of them (dialer.go:411-420).
LEMMA BeforeAsymmetric ==
  ASSUME IInv, NEW k \in Key, NEW l \in Key, Before(k, l)
  PROVE  ~Before(l, k)
<1>1. /\ errRate[k][1] \in Int /\ errRate[k][2] \in Int
      /\ errRate[l][1] \in Int /\ errRate[l][2] \in Int
      /\ avgTime[k] \in Int /\ avgTime[l] \in Int
  BY DEF IInv, TypeOK
<1>2. ASSUME NEW a \in Int, NEW b \in Int, NEW c \in Int, NEW d \in Int
      PROVE  /\ 100 * (a * b - c * d) \in Int
             /\ 100 * (c * d - a * b) = -(100 * (a * b - c * d))
             /\ (15 * b) * d \in Int /\ (15 * b) * d = (15 * d) * b
  OBVIOUS
<1>3. /\ RateDiff(k, l) \in Int /\ RateDiff(l, k) = -RateDiff(k, l)
      /\ Tolerance(k, l) \in Int /\ Tolerance(l, k) = Tolerance(k, l)
  BY <1>1, <1>2 DEF RateDiff, Tolerance
<1> QED BY <1>1, <1>3 DEF Before

\* While a sort has the lock, the keys up to its place are in order but for
\* the one on its way to the front, and so are the neighbours it parts.
InOrder ==
  LET p == place[1]
      q == place[2] IN
  lock # "free" =>
    /\ q >= 1
    /\ p > SortLen => q = p
    /\ \A i \in 1 .. p - 1 : i + 1 # q => ~Less(i + 1, i)
    /\ 1 < q /\ q < p => ~Less(q + 1, q - 1)
    /\ swapping => Less(q, q - 1)

\* One step of the insertion sort.
LEMMA InsertInOrder ==
  ASSUME IInv, InOrder, Insert
  PROVE  InOrder'
<1>1. PICK p \in Nat, q \in Nat : place = <<p, q>> BY DEF IInv, TypeOK
<1>2. /\ place[1] = p /\ place[2] = q BY <1>1
<1>3. /\ q <= p /\ p <= SortLen /\ SortLen \in Nat
      /\ SortLen <= Len(keys) /\ Len(keys) \in Nat
      /\ \A i \in 1 .. Len(keys) : keys[i] \in Key
  BY <1>2, SortLenBound DEF IInv, TypeOK, SortInside, Insert
<1>4. /\ q >= 1
      /\ \A i \in 1 .. p - 1 : i + 1 # q => ~Less(i + 1, i)
      /\ 1 < q /\ q < p => ~Less(q + 1, q - 1)
      /\ swapping => Less(q, q - 1)
  BY <1>2 DEF InOrder, Insert
<1>5. errRate' = errRate /\ avgTime' = avgTime BY DEF Insert, counts
<1>6. ASSUME NEW i \in Nat, NEW j \in Nat, NEW k \in Nat, NEW l \in Nat,
             keys'[i] = keys[k], keys'[j] = keys[l]
      PROVE  Less(i, j)' <=> Less(k, l)
  BY <1>5, <1>6 DEF Less, Before, RateDiff, Tolerance
<1>7. CASE swapping
  <2>1. q > 1 /\ place' = <<p, q - 1>> /\ ~swapping'
    BY <1>2, <1>7 DEF Insert, IInv, SortInside
  <2>2. /\ keys'[q] = keys[q - 1] /\ keys'[q - 1] = keys[q]
        /\ \A i \in (1 .. Len(keys)) \ {q, q - 1} : keys'[i] = keys[i]
    BY <1>2, <1>7, SwapKeys
  <2>3. ~Less(q, q - 1)'
    <3>1. Before(keys[q], keys[q - 1]) BY <1>4, <1>7 DEF Less
    <3>2. ~Less(q - 1, q)
      BY <1>3, <2>1, <3>1, BeforeAsymmetric DEF Less
    <3> QED BY <1>6, <2>1, <2>2, <3>2
  <2>4. q < p => ~Less(q + 1, q)'
    <3> SUFFICES ASSUME q < p PROVE ~Less(q + 1, q)' OBVIOUS
    <3>1. keys'[q + 1] = keys[q + 1] BY <1>3, <2>2
    <3> QED BY <1>4, <1>6, <2>1, <2>2, <3>1
  <2>5. 1 < q - 1 => ~Less(q, q - 2)'
    <3> SUFFICES ASSUME 1 < q - 1 PROVE ~Less(q, q - 2)' OBVIOUS
    <3>1. q - 2 \in 1 .. p - 1 /\ (q - 2) + 1 = q - 1 /\ q - 1 # q
      BY <1>3
    <3>2. ~Less(q - 1, q - 2) BY <1>4, <3>1
    <3>3. keys'[q - 2] = keys[q - 2] BY <1>3, <2>2, <3>1
    <3> QED BY <1>6, <2>1, <2>2, <3>1, <3>2, <3>3
  <2>6. ASSUME NEW i \in 1 .. p - 1, i + 1 # q - 1
        PROVE  ~Less(i + 1, i)'
    <3>1. CASE i = q - 1 BY <2>1, <2>3, <3>1
    <3>2. CASE i = q BY <1>3, <2>4, <3>2
    <3>3. CASE i # q - 1 /\ i # q
      <4>1. keys'[i] = keys[i] /\ keys'[i + 1] = keys[i + 1]
        BY <1>3, <2>2, <2>6, <3>3
      <4>2. ~Less(i + 1, i) BY <1>4, <3>3
      <4> QED BY <1>6, <4>1, <4>2
    <3> QED BY <3>1, <3>2, <3>3
  <2>7. place'[1] = p /\ place'[2] = q - 1 BY <2>1
  <2>8. (q - 1) + 1 = q /\ (q - 1) - 1 = q - 2 OBVIOUS
  <2> QED BY <1>3, <2>1, <2>5, <2>6, <2>7, <2>8 DEF InOrder
<1>8. CASE ~swapping
  <2>1. keys' = keys BY <1>8 DEF Insert
  <2>2. \A i, j \in Nat : Less(i, j)' <=> Less(i, j) BY <1>6, <2>1
  <2>3. CASE q > 1 /\ Less(q, q - 1)
    <3>1. place'[1] = p /\ place'[2] = q BY <1>2, <1>8, <2>3 DEF Insert
    <3>2. /\ Less(q, q - 1)'
          /\ 1 < q /\ q < p => ~Less(q + 1, q - 1)'
      BY <1>4, <2>2, <2>3
    <3>3. ASSUME NEW i \in 1 .. p - 1, i + 1 # q PROVE ~Less(i + 1, i)'
      BY <1>4, <2>2, <3>3
    <3>4. ~(p > SortLen) BY <1>3
    <3> QED BY <1>4, <3>1, <3>2, <3>3, <3>4 DEF InOrder, SortLen
  <2>4. CASE ~(q > 1 /\ Less(q, q - 1))
    <3>1. place' = <<p + 1, p + 1>> /\ ~swapping'
      BY <1>2, <1>8, <2>4 DEF Insert
    <3>2. place'[1] = p + 1 /\ place'[2] = p + 1 BY <3>1
    <3>3. ASSUME NEW i \in 1 .. p, i + 1 # p + 1 PROVE ~Less(i + 1, i)'
      <4>1. i \in 1 .. p - 1 BY <3>3
      <4>2. CASE i + 1 = q
        <5>1. i = q - 1 /\ q > 1 BY <4>1, <4>2
        <5> QED BY <2>2, <2>4, <5>1
      <4>3. CASE i + 1 # q BY <1>4, <2>2, <4>1, <4>3
      <4> QED BY <4>2, <4>3
    <3>4. (p + 1) - 1 = p OBVIOUS
    <3> QED BY <3>1, <3>2, <3>3, <3>4 DEF InOrder
  <2> QED BY <2>3, <2>4
<1> QED BY <1>7, <1>8

\* A sort begins at the second key; nothing is counted while it has the lock.
LEMMA NextInOrder ==
  ASSUME IInv, InOrder, [Next]_vars
  PROVE  InOrder'
<1>1. CASE lock' = "free" BY <1>1 DEF InOrder
<1>2. CASE lock # "free" /\ UNCHANGED <<keys, counts, place, swapping>>
  BY <1>2
  DEF InOrder, Less, Before, RateDiff, Tolerance, SortLen, counts
<1>3. CASE Insert BY <1>3, InsertInOrder
<1>4. CASE SorterLocks \/ TestCounts
  <2>1. place' = <<2, 2>> /\ swapping' = swapping /\ ~swapping
    BY <1>4 DEF SorterLocks, TestCounts, StartSort, IInv, SortInside
  <2>2. place'[1] = 2 /\ place'[2] = 2 BY <2>1
  <2> QED BY <2>1, <2>2 DEF InOrder
<1>5. CASE \E t \in Thread : Call(t) \/ DialNext(t)
  <2>1. \/ lock' = "free"
        \/ lock # "free" /\ UNCHANGED <<keys, counts, place, swapping>>
    BY <1>5 DEF DialNext, Call, ReadKey, Begin, DialOk, DialFails, Return, sort
  <2> QED BY <1>1, <1>2, <2>1
<1>6. CASE SortEnds \/ SorterEnds \/ TestBegins \/ UNCHANGED vars
  <2>1. \/ lock' = "free"
        \/ lock # "free" /\ UNCHANGED <<keys, counts, place, swapping>>
    BY <1>6 DEF SortEnds, SorterEnds, TestBegins, vars, sort
  <2> QED BY <1>1, <1>2, <2>1
<1> QED BY <1>3, <1>4, <1>5, <1>6 DEF Next, SortNext

\* A sort leaves no server behind one it should come before next to it, though
\* with its tolerance Less is no order (dialer.go:411-425).
THEOREM SortOrders == Spec => NeighboursSorted
<1>1. Init => InOrder BY DEF Init, InOrder
<1>2. IInv /\ InOrder /\ [Next]_vars =>
        [SortEnds => \A i \in 1 .. SortLen - 1 : ~Less(i + 1, i)]_vars
  <2> SUFFICES ASSUME IInv, InOrder, SortEnds,
                      NEW i \in 1 .. SortLen - 1
               PROVE  ~Less(i + 1, i)
    OBVIOUS
  <2>1. place[1] \in Nat /\ place[1] > SortLen /\ SortLen \in Nat
    BY SortLenBound DEF SortEnds, IInv, TypeOK
  <2>2. place[2] = place[1] BY <2>1 DEF InOrder, SortEnds
  <2>3. i \in 1 .. place[1] - 1 /\ i + 1 # place[2] BY <2>1, <2>2
  <2> QED BY <2>3 DEF InOrder, SortEnds
<1> QED
  BY <1>1, <1>2, NextInOrder, SpecIInv, PTL DEF Spec, NeighboursSorted

-----------------------------------------------------------------------------
(***************************************************************************)
(* What SortingEnds of SortedDialer.tla comes down to once its fairness is *)
(* left aside: who has the flag and the lock, and that a sort which has    *)
(* the lock takes a bounded number of steps.                               *)
(***************************************************************************)

\* The flag is up while there is a sort goroutine, and at no other time, so
\* there is one at a time; and whoever has the lock for longer than a step is
\* at its sort, so nobody keeps it while waiting for something else.
FlagHeld ==
  /\ sorting = 1 <=> sorter # "none"
  /\ lock = "sorter" <=> sorter = "locked"
  /\ lock = "tester" <=> tester = "sorting"

\* Dial sets the flag and starts the goroutine in one step, and the goroutine
\* gives it back after the lock (dialer.go:394-400, 472-507).
THEOREM FlagWithSorter == Spec => []FlagHeld
<1>1. Init => FlagHeld BY DEF Init, FlagHeld
<1>2. ASSUME FlagHeld, [Next]_vars PROVE FlagHeld'
  <2> USE <1>2 DEF FlagHeld
  <2>1. CASE \E t \in Thread : Call(t) \/ DialNext(t)
    BY <2>1
    DEF DialNext, Call, ReadKey, Begin, DialOk, DialFails, Return, sort
  <2>2. CASE SorterLocks BY <2>2 DEF SorterLocks, StartSort
  <2>3. CASE TestCounts BY <2>3 DEF TestCounts, StartSort
  <2>4. CASE SortEnds BY <2>4 DEF SortEnds
  <2>5. CASE SorterEnds BY <2>5 DEF SorterEnds
  <2>6. CASE Insert \/ TestBegins BY <2>6 DEF Insert, TestBegins
  <2>7. CASE UNCHANGED vars BY <2>7 DEF vars, sort
  <2> QED BY <1>2, <2>1, <2>2, <2>3, <2>4, <2>5, <2>6, <2>7 DEF Next, SortNext
<1>3. FlagHeld /\ [Next]_vars => FlagHeld' BY <1>2
<1> QED BY <1>1, <1>3, PTL DEF Spec

\* More steps than the turn of one key takes.
Turn == 2 * SortLen + 4

\* The steps that a sort has left at most: the turns of the keys to come, and
\* two for every place the key on its way can still go to the front.
SortSteps ==
  IF lock = "free" THEN 0
  ELSE IF place[1] > SortLen THEN 1
  ELSE 1 + (SortLen + 1 - place[1]) * Turn + 2 * place[2]
         - (IF swapping THEN 1 ELSE 0)

\* While somebody has the lock each step of the sort lowers SortSteps, and no
\* other step raises it.
SortStep ==
  lock # "free" =>
    /\ SortSteps' <= SortSteps
    /\ Insert \/ SortEnds => SortSteps' < SortSteps

\* Less may contradict itself, with its tolerance and with the keys it is
\* asked about: the insertion sort ends all the same.
LEMMA InsertLowers ==
  ASSUME IInv, Insert
  PROVE  SortSteps' \in Int /\ SortSteps' < SortSteps
<1>1. PICK p \in Nat, q \in Nat : place = <<p, q>> BY DEF IInv, TypeOK
<1>2. /\ place[1] = p /\ place[2] = q BY <1>1
<1>3. PICK n \in Nat : n = SortLen BY SortLenBound
<1>4. p <= n /\ q <= p /\ lock # "free" /\ lock' = lock
  BY <1>2, <1>3 DEF Insert, IInv, SortInside
<1>5. PICK T \in Nat : T = 2 * n + 4 OBVIOUS
<1>6. /\ SortLen' = n /\ Turn = T /\ Turn' = T
  BY <1>3, <1>5 DEF SortLen, Turn
<1>7. PICK R \in Nat : R = (n + 1 - p) * T
  <2>1. n + 1 - p \in Nat BY <1>4
  <2> QED BY <2>1
<1>8. SortSteps = 1 + R + 2 * q - (IF swapping THEN 1 ELSE 0)
  BY <1>2, <1>3, <1>4, <1>6, <1>7 DEF SortSteps
<1>9. CASE swapping
  <2>1. place' = <<p, q - 1>> /\ ~swapping' BY <1>2, <1>9 DEF Insert
  <2>2. place'[1] = p /\ place'[2] = q - 1 BY <2>1
  <2>3. SortSteps' = 1 + R + 2 * (q - 1)
    BY <1>4, <1>6, <1>7, <2>1, <2>2 DEF SortSteps
  <2> QED BY <1>8, <1>9, <2>3
<1>10. CASE ~swapping /\ swapping'
  <2>1. place'[1] = p /\ place'[2] = q BY <1>2, <1>10 DEF Insert
  <2>2. SortSteps' = 1 + R + 2 * q - 1
    BY <1>4, <1>6, <1>7, <1>10, <2>1 DEF SortSteps
  <2> QED BY <1>8, <1>10, <2>2
<1>11. CASE ~swapping /\ ~swapping'
  <2>1. place' = <<p + 1, p + 1>> BY <1>2, <1>11 DEF Insert
  <2>2. place'[1] = p + 1 /\ place'[2] = p + 1 BY <2>1
  <2>3. CASE p + 1 > n
    <3>1. SortSteps' = 1 BY <1>4, <1>6, <2>2, <2>3 DEF SortSteps
    <3>2. p = n BY <1>4, <2>3
    <3>3. R = T BY <1>5, <1>7, <3>2
    <3> QED BY <1>5, <1>8, <1>11, <3>1, <3>3
  <2>4. CASE ~(p + 1 > n)
    <3>1. (n + 1 - (p + 1)) * T = R - T
      <4>1. PICK m \in Nat : m = n - p BY <1>4
      <4>2. n + 1 - p = m + 1 /\ n + 1 - (p + 1) = m BY <4>1
      <4>3. (m + 1) * T = m * T + T OBVIOUS
      <4>4. m * T \in Nat OBVIOUS
      <4> QED BY <1>7, <4>2, <4>3, <4>4
    <3>2. SortSteps' = 1 + (R - T) + 2 * (p + 1)
      BY <1>4, <1>6, <1>11, <2>2, <2>4, <3>1 DEF SortSteps
    <3> QED BY <1>4, <1>5, <1>8, <1>11, <3>2
  <2> QED BY <2>3, <2>4
<1> QED BY <1>9, <1>10, <1>11

LEMMA SortStepsType ==
  ASSUME IInv
  PROVE  SortSteps \in Nat /\ (lock # "free" => SortSteps >= 1)
<1>1. PICK p \in Nat, q \in Nat : place = <<p, q>> BY DEF IInv, TypeOK
<1>2. /\ place[1] = p /\ place[2] = q BY <1>1
<1>3. PICK n \in Nat : n = SortLen BY SortLenBound
<1>4. swapping => q > 1 BY <1>2 DEF IInv, SortInside
<1>5. Turn \in Nat BY <1>3 DEF Turn
<1>6. ASSUME p <= n PROVE (n + 1 - p) * Turn \in Nat
  <2>1. n + 1 - p \in Nat BY <1>6
  <2> QED BY <1>5, <2>1
<1> QED BY <1>2, <1>3, <1>4, <1>6 DEF SortSteps

\* A sort that has the lock gives it back after a bounded number of its own
\* steps, whatever the dials beside it count (dialer.go:396-398, 411-425).
THEOREM SortTerminates == Spec => [][SortStep]_vars
<1>1. ASSUME IInv, [Next]_vars PROVE [SortStep]_vars
  <2> SUFFICES ASSUME lock # "free", ~UNCHANGED vars
               PROVE  /\ SortSteps' <= SortSteps
                      /\ Insert \/ SortEnds => SortSteps' < SortSteps
    BY DEF SortStep
  <2>1. SortSteps \in Nat /\ SortSteps >= 1 BY <1>1, SortStepsType
  <2>2. CASE Insert
    <3>1. SortSteps' \in Int /\ SortSteps' < SortSteps
      BY <1>1, <2>2, InsertLowers
    <3> QED BY <2>1, <3>1
  <2>3. CASE SortEnds
    <3>1. SortSteps' = 0 BY <2>3 DEF SortEnds, SortSteps
    <3> QED BY <2>1, <3>1
  <2>4. CASE ~Insert /\ ~SortEnds
    <3>1. UNCHANGED <<lock, place, swapping>>
      BY <1>1, <2>4 DEF Next, SortNext, SorterLocks, StartSort, SorterEnds,
         TestBegins, TestCounts, DialNext, Call, ReadKey, Begin, DialOk,
         DialFails, Return, sort
    <3>2. SortSteps' = SortSteps BY <3>1 DEF SortSteps, Turn, SortLen
    <3> QED BY <2>1, <2>4, <3>2
  <2> QED BY <2>2, <2>3, <2>4
<1>2. IInv /\ [Next]_vars => [SortStep]_vars BY <1>1
<1> QED BY <1>2, SpecIInv, PTL DEF Spec
=============================================================================
