---------------------------- MODULE SortedDialer ----------------------------
(***************************************************************************)
(* core.SortedDialer (core/dialer.go): the client's list of servers, which *)
(* concurrent Dials try in order while they count tries, errors and time,  *)
(* and which one sort goroutine and Test reorder.  sortLock covers the     *)
(* counters and the sort, but Dial walks s.keys without it, so it can read *)
(* an element while Swap writes it.                                        *)
(*                                                                         *)
(* A sort is sort.Sort on a short list: insertion sort by Less and Swap.   *)
(* SortDelay never delays it: sortTime keeps its zero value and is         *)
(* compared with the time of day (dialer.go:394).                          *)
(***************************************************************************)
EXTENDS Integers, Sequences, FiniteSets

CONSTANTS
  Thread,   \* the goroutines that call Dial
  Servers,  \* the names of the configured servers, in their order
  Torn,     \* a string that mixes the words of two keys: no server's name
  Used,     \* the times a dial may take
  TestMax,  \* SortedDialer.TestMax
  MaxTry,   \* bound: tries of one key
  Repeated  \* bound: the keys that are tried more than once

Key == {Servers[i] : i \in 1 .. Len(Servers)}

ASSUME SortedDialerAssumption ==
  /\ IsFiniteSet(Thread)
  /\ Servers \in Seq(STRING)
  /\ Torn \notin Key
  /\ Used \subseteq Nat
  /\ TestMax \in Nat
  /\ MaxTry \in Nat

VARIABLES
  keys,      \* SortedDialer.keys
  tryCount,  \* SortedDialer.tryCount, ...
  errCount,
  usedTime,
  avgTime,
  errRate,   \* errRate as the pair of the counts it was computed from
  lock,      \* who has sortLock for longer than a step: "free" if nobody
  sorting,   \* SortedDialer.sorting, the flag of the sort goroutine
  sorter,    \* the sort goroutine: "none", "begun", "locked", "unlocked"
  tester,    \* the caller of Test: "none", "testing", "sorting"
  tested,    \* the keys that Test works on
  place,     \* the positions i and j of the insertion sort
  swapping,  \* Swap(j, j - 1) has begun to write the two elements
  pc,        \* where each thread is in Dial
  pos,       \* the position of its loop over keys
  cur,       \* the key it has read
  tried,     \* history: the keys the call of Dial has tried
  disturbed  \* history: keys were written during the call of Dial

counts == <<tryCount, errCount, usedTime, avgTime, errRate>>
sort == <<lock, sorting, sorter, tester, tested, place, swapping>>
dial == <<pc, pos, cur, tried, disturbed>>
vars == <<keys, counts, sort, dial>>

TypeOK ==
  /\ keys \in Seq(Key)
  /\ tryCount \in [Key -> 0 .. MaxTry]
  /\ errCount \in [Key -> 0 .. MaxTry]
  /\ usedTime \in [Key -> Nat]
  /\ avgTime \in [Key -> Nat]
  /\ errRate \in [Key -> Nat \X (Nat \ {0})]
  /\ lock \in {"free", "sorter", "tester"}
  /\ sorting \in {0, 1}
  /\ sorter \in {"none", "begun", "locked", "unlocked"}
  /\ tester \in {"none", "testing", "sorting"}
  /\ tested \in SUBSET Key
  /\ place \in Nat \X Nat
  /\ swapping \in BOOLEAN
  /\ pc \in [Thread -> {"idle", "read", "got", "dial", "after", "panic"}]
  /\ pos \in [Thread -> 1 .. Len(Servers) + 1]
  /\ cur \in [Thread -> Key \cup {Torn}]
  /\ tried \in [Thread -> SUBSET Key]
  /\ disturbed \in [Thread -> BOOLEAN]

\* NewSortedDialer.  A missing entry of a counter map reads as zero.
Init ==
  /\ keys = Servers
  /\ tryCount = [k \in Key |-> 0]
  /\ errCount = [k \in Key |-> 0]
  /\ usedTime = [k \in Key |-> 0]
  /\ avgTime = [k \in Key |-> 0]
  /\ errRate = [k \in Key |-> <<0, 1>>]
  /\ lock = "free" /\ sorting = 0 /\ sorter = "none" /\ tester = "none"
  /\ tested = {} /\ place = <<1, 1>> /\ swapping = FALSE
  /\ pc = [t \in Thread |-> "idle"]
  /\ pos = [t \in Thread |-> 1]
  /\ cur = [t \in Thread |-> Torn]
  /\ tried = [t \in Thread |-> {}]
  /\ disturbed = [t \in Thread |-> FALSE]

-----------------------------------------------------------------------------
(***************************************************************************)
(* The counters of a key, and the order they give.                         *)
(***************************************************************************)

\* A dial of k has succeeded in time u: the average is over the tries that
\* have not failed, the ones still under way included.
Success(k, u) ==
  /\ usedTime' = [usedTime EXCEPT ![k] = @ + u]
  /\ avgTime' = [avgTime EXCEPT ![k] =
                   (usedTime[k] + u) \div (tryCount[k] - errCount[k])]
  /\ errRate' = [errRate EXCEPT ![k] = <<errCount[k], tryCount[k]>>]
  /\ UNCHANGED <<tryCount, errCount>>

Failure(k) ==
  /\ errCount' = [errCount EXCEPT ![k] = @ + 1]
  /\ errRate' = [errRate EXCEPT ![k] = <<errCount[k] + 1, tryCount[k]>>]
  /\ UNCHANGED <<tryCount, usedTime, avgTime>>

\* errRate[k] - errRate[l], as the numerator of a fraction of 100.
RateDiff(k, l) ==
  100 * (errRate[k][1] * errRate[l][2] - errRate[l][1] * errRate[k][2])

\* RateTolerance, 0.15, in the same unit.
Tolerance(k, l) == 15 * errRate[k][2] * errRate[l][2]

\* Fault of Before: equal servers are each before the other.
BeforeOrEqual(k, l) ==
  IF RateDiff(k, l) < 0
  THEN RateDiff(l, k) > Tolerance(k, l) \/ avgTime[k] <= avgTime[l]
  ELSE RateDiff(k, l) < Tolerance(k, l) /\ avgTime[k] <= avgTime[l]

\* Less(i, j) of the keys at i and j.
Before(k, l) ==
  IF RateDiff(k, l) < 0
  THEN RateDiff(l, k) > Tolerance(k, l) \/ avgTime[k] < avgTime[l]
  ELSE RateDiff(k, l) < Tolerance(k, l) /\ avgTime[k] < avgTime[l]

Less(i, j) == Before(keys[i], keys[j])

-----------------------------------------------------------------------------
(***************************************************************************)
(* Dial.                                                                   *)
(***************************************************************************)

MayTry(k) == tryCount[k] < MaxTry /\ (tryCount[k] = 0 \/ k \in Repeated)

Goto(t, to) == pc' = [pc EXCEPT ![t] = to]

Call(t) ==
  /\ pc[t] = "idle"
  /\ Goto(t, "read")
  /\ pos' = [pos EXCEPT ![t] = 1]
  /\ tried' = [tried EXCEPT ![t] = {}]
  /\ disturbed' = [disturbed EXCEPT ![t] = lock # "free"]
  /\ UNCHANGED <<keys, counts, sort, cur>>

\* The next element of keys, read without the lock.  A string is two words:
\* while Swap writes the element, the read gives the string before, the one
\* after or one that mixes them.
Elements(i) ==
  IF swapping /\ i \in {place[2] - 1, place[2]}
  THEN {keys[place[2] - 1], keys[place[2]], Torn}
  ELSE {keys[i]}

ReadKey(t) ==
  /\ pc[t] = "read"
  /\ pos[t] <= Len(keys)
  /\ \E k \in Elements(pos[t]) : cur' = [cur EXCEPT ![t] = k]
  /\ Goto(t, "got")
  /\ UNCHANGED <<keys, counts, sort, pos, tried, disturbed>>

\* Fault of Begin: the try is not counted before the dial.
BeginUncounted(t) ==
  /\ pc[t] = "got"
  /\ lock = "free"
  /\ cur[t] \in Key
  /\ tried' = [tried EXCEPT ![t] = @ \cup {cur[t]}]
  /\ Goto(t, "dial")
  /\ UNCHANGED <<keys, counts, sort, pos, cur, disturbed>>

\* With the lock: the try is counted.  dialers has no entry for a mixed key,
\* and the call of the nil dialer panics.
Begin(t) ==
  /\ pc[t] = "got"
  /\ lock = "free"
  /\ \/ /\ cur[t] = Torn
        /\ Goto(t, "panic")
        /\ UNCHANGED <<counts, tried>>
     \/ /\ cur[t] \in Key
        /\ MayTry(cur[t])
        /\ tryCount' = [tryCount EXCEPT ![cur[t]] = @ + 1]
        /\ tried' = [tried EXCEPT ![t] = @ \cup {cur[t]}]
        /\ Goto(t, "dial")
        /\ UNCHANGED <<errCount, usedTime, avgTime, errRate>>
  /\ UNCHANGED <<keys, sort, pos, cur, disturbed>>

DialOk(t) ==
  /\ pc[t] = "dial"
  /\ lock = "free"
  /\ \E u \in Used : Success(cur[t], u)
  /\ Goto(t, "after")
  /\ UNCHANGED <<keys, sort, pos, cur, tried, disturbed>>

\* Fault of DialFails: a server is left out.
DialFailsSkips(t) ==
  /\ pc[t] = "dial"
  /\ lock = "free"
  /\ Failure(cur[t])
  /\ Goto(t, "read")
  /\ pos' = [pos EXCEPT ![t] = Len(keys) + 1]
  /\ UNCHANGED <<keys, sort, cur, tried, disturbed>>

DialFails(t) ==
  /\ pc[t] = "dial"
  /\ lock = "free"
  /\ Failure(cur[t])
  /\ Goto(t, "read")
  /\ pos' = [pos EXCEPT ![t] = @ + 1]
  /\ UNCHANGED <<keys, sort, cur, tried, disturbed>>

\* Dial has its result: the first call to set the flag starts a sort.
Return(t) ==
  /\ \/ pc[t] = "after"
     \/ pc[t] = "read" /\ pos[t] > Len(keys)
  /\ IF sorting = 0
     THEN sorting' = 1 /\ sorter' = "begun"
     ELSE UNCHANGED <<sorting, sorter>>
  /\ Goto(t, "idle")
  /\ UNCHANGED <<keys, counts, lock, tester, tested, place, swapping, pos, cur,
                 tried, disturbed>>

-----------------------------------------------------------------------------
(***************************************************************************)
(* The sort goroutine, Test, and the insertion sort of both.               *)
(***************************************************************************)

StartSort(who) ==
  /\ lock = "free"
  /\ lock' = who
  /\ place' = <<2, 2>>
  /\ disturbed' = [t \in Thread |-> TRUE]

SorterLocks ==
  /\ sorter = "begun"
  /\ StartSort("sorter")
  /\ sorter' = "locked"
  /\ UNCHANGED <<keys, counts, sorting, tester, tested, swapping, pc, pos, cur,
                 tried>>

\* Fault of SorterEnds: the flag is not given back.
SorterEndsFlagged ==
  /\ sorter = "unlocked"
  /\ sorter' = "none"
  /\ UNCHANGED <<keys, counts, lock, sorting, tester, tested, place, swapping,
                 dial>>

\* The goroutine stores 0 in the flag after it has released the lock.
SorterEnds ==
  /\ sorter = "unlocked"
  /\ sorter' = "none"
  /\ sorting' = 0
  /\ UNCHANGED <<keys, counts, lock, tester, tested, place, swapping, dial>>

\* Test takes the first TestMax keys under the lock.
TestBegins ==
  /\ tester = "none"
  /\ lock = "free"
  /\ tester' = "testing"
  /\ tested' = {keys[i] : i \in {j \in 1 .. Len(keys) :
                                   TestMax > 0 => j <= TestMax}}
  /\ UNCHANGED <<keys, counts, lock, sorting, sorter, place, swapping, dial>>

\* Its dials are done: it counts each as one try, and sorts.
TestCounts ==
  /\ tester = "testing"
  /\ \A k \in tested : MayTry(k)
  /\ StartSort("tester")
  /\ tester' = "sorting"
  /\ \E failed \in SUBSET tested : LET ok == tested \ failed IN
     \E u \in [ok -> Used] :
       /\ tryCount' = [k \in Key |->
            IF k \in tested THEN tryCount[k] + 1 ELSE tryCount[k]]
       /\ errCount' = [k \in Key |->
            IF k \in failed THEN errCount[k] + 1 ELSE errCount[k]]
       /\ usedTime' = [k \in Key |->
            IF k \in ok THEN usedTime[k] + u[k] ELSE usedTime[k]]
       /\ avgTime' = [k \in Key |->
            IF k \in ok THEN usedTime'[k] \div (tryCount'[k] - errCount'[k])
            ELSE avgTime[k]]
       /\ errRate' = [k \in Key |->
            IF k \in tested THEN <<errCount'[k], tryCount'[k]>>
            ELSE errRate[k]]
  /\ UNCHANGED <<keys, sorting, sorter, tested, swapping, pc, pos, cur, tried>>

\* Len: the number of dialers, less than that of keys if two servers have one
\* name.
SortLen == Cardinality(Key)

\* Fault of Insert: a swap that overwrites one key with the other.
InsertCopies ==
  /\ lock # "free"
  /\ place[1] <= SortLen
  /\ IF place[2] > 1 /\ Less(place[2], place[2] - 1)
     THEN /\ keys' = [keys EXCEPT ![place[2] - 1] = keys[place[2]]]
          /\ place' = <<place[1], place[2] - 1>>
     ELSE place' = <<place[1] + 1, place[1] + 1>> /\ UNCHANGED keys
  /\ UNCHANGED <<counts, lock, sorting, sorter, tester, tested, swapping,
                 dial>>

\* One step of the insertion sort: the key at j goes before its neighbour,
\* or the next key's turn has come.
Insert ==
  /\ lock # "free"
  /\ place[1] <= SortLen
  /\ IF swapping
     THEN /\ LET j == place[2] IN
             keys' = [keys EXCEPT ![j] = keys[j - 1], ![j - 1] = keys[j]]
          /\ swapping' = FALSE
          /\ place' = <<place[1], place[2] - 1>>
     ELSE IF place[2] > 1 /\ Less(place[2], place[2] - 1)
     THEN swapping' = TRUE /\ UNCHANGED <<keys, place>>
     ELSE /\ place' = <<place[1] + 1, place[1] + 1>>
          /\ UNCHANGED <<keys, swapping>>
  /\ UNCHANGED <<counts, lock, sorting, sorter, tester, tested, dial>>

SortEnds ==
  /\ lock # "free"
  /\ place[1] > SortLen
  /\ lock' = "free"
  /\ IF lock = "sorter"
     THEN sorter' = "unlocked" /\ UNCHANGED <<tester, tested>>
     ELSE tester' = "none" /\ tested' = {} /\ UNCHANGED sorter
  /\ UNCHANGED <<keys, counts, sorting, place, swapping, dial>>

-----------------------------------------------------------------------------

DialNext(t) ==
  ReadKey(t) \/ Begin(t) \/ DialOk(t) \/ DialFails(t) \/ Return(t)

SortNext == SorterLocks \/ Insert \/ SortEnds \/ SorterEnds

Next ==
  \/ \E t \in Thread : Call(t) \/ DialNext(t)
  \/ SortNext
  \/ TestBegins \/ TestCounts

Spec == Init /\ [][Next]_vars

\* A sort, once begun, gets the lock (Go's mutexes do not starve a waiter) and
\* runs to its end.
FairSpec == Spec /\ SF_vars(SorterLocks) /\ WF_vars(Insert \/ SortEnds)
                 /\ WF_vars(SorterEnds)

-----------------------------------------------------------------------------
(***************************************************************************)
(* Properties.                                                             *)
(***************************************************************************)

UnderWay(k) == {t \in Thread : pc[t] = "dial" /\ cur[t] = k}

\* The tries of a key that have not failed are at least the dials of it under
\* way, so the division of dialer.go:384, and of Test at 487, is never by
\* zero, whatever the other dials of the same key have counted meanwhile.
DivisorPositive ==
  \A k \in Key : tryCount[k] - errCount[k] >= Cardinality(UnderWay(k))

\* The sort loses no server and doubles none.
SameServers ==
  \A k \in Key : Cardinality({i \in 1 .. Len(keys) : keys[i] = k})
                   = Cardinality({i \in 1 .. Len(Servers) : Servers[i] = k})

\* A Dial that failed, and during which keys was not sorted, has tried every
\* server.
FailedTriedAll ==
  \A t \in Thread :
    pc[t] = "read" /\ pos[t] > Len(keys) /\ ~disturbed[t] => tried[t] = Key

\* A sort leaves no server behind one it should come before next to it.
NeighboursSorted ==
  [][SortEnds => \A i \in 1 .. SortLen - 1 : ~Less(i + 1, i)]_vars

\* The flag is given back: a later Dial can start a sort again.
SortingEnds == sorting = 1 ~> sorting = 0
=============================================================================
