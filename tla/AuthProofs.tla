----------------------------- MODULE AuthProofs -----------------------------
(***************************************************************************)
(* Proofs about Auth.tla, for any handlers, users and passwords: the type  *)
(* invariant, and that the users are those the administrator was told.     *)
(***************************************************************************)
EXTENDS Auth, TLAPS

\* A handler that is about to save has left its entry in the map.
Changed ==
  \A h \in Handler : userLck = h => normalUser[user[h]] = entry[h]

\* The inductive invariant.  Changed is what makes an acknowledged request be
\* the one that is in the file.
IInv == TypeOK /\ Changed /\ AsAcknowledged

\* A server that starts has the users of its file (NewJSONFileAuth,
\* auth.go:20-43).
LEMMA InitIInv == Init => IInv
<1> SUFFICES ASSUME Init PROVE IInv OBVIOUS
<1> USE AuthAssumption DEF Init, Entry, Empty
<1>1. normalUser \in [User -> Entry] OBVIOUS
<1>2. TypeOK BY <1>1 DEF TypeOK
<1>3. Changed BY DEF Changed
<1>4. AsAcknowledged BY <1>1 DEF AsAcknowledged, MayBe
<1> QED BY <1>2, <1>3, <1>4 DEF IInv

\* The steps of a handler keep the types, and only the owner of the lock has
\* changed the map (auth.go:45-59).
LEMMA HandlerType ==
  ASSUME IInv, NEW h \in Handler, Ask(h) \/ HandlerNext(h)
  PROVE  TypeOK' /\ Changed'
<1> USE AuthAssumption DEF IInv, TypeOK, Changed, Goto, Unlock, Entry
<1> USE DEF store, request, history
<1>1. CASE Ask(h)
  <2>1. userLck # h BY <1>1 DEF Ask
  <2> QED BY <1>1, <2>1 DEF Ask
<1>2. CASE Change(h) BY <1>2 DEF Change
<1>3. CASE OpenFails(h) BY <1>3 DEF OpenFails
<1>4. CASE Truncate(h) BY <1>4 DEF Truncate
<1>5. CASE Save(h) BY <1>5 DEF Save
<1>6. CASE SaveFails(h) BY <1>6 DEF SaveFails
<1>7. CASE Reply(h) BY <1>7 DEF Reply
<1> QED BY <1>1, <1>2, <1>3, <1>4, <1>5, <1>6, <1>7 DEF HandlerNext

\* They keep the users as acknowledged.
LEMMA HandlerAcknowledged ==
  ASSUME IInv, NEW h \in Handler, Ask(h) \/ HandlerNext(h)
  PROVE  AsAcknowledged'
<1> USE DEF IInv, TypeOK, AsAcknowledged, MayBe, Unlock
<1> USE DEF store, request, history
<1>1. CASE Ask(h) BY <1>1 DEF Ask
<1>2. CASE Change(h) BY <1>2 DEF Change
<1>3. CASE OpenFails(h) BY <1>3 DEF OpenFails
<1>4. CASE Truncate(h) BY <1>4 DEF Truncate
<1>5. CASE Save(h)
  <2>1. userLck = h BY <1>5 DEF Save
  <2>2. normalUser[user[h]] = entry[h] BY <2>1 DEF Changed
  <2> SUFFICES ASSUME NEW u \in User
               PROVE normalUser'[u] \in MayBe(u)' /\ file'[u] \in MayBe(u)'
    OBVIOUS
  <2>3. CASE u = user[h] BY <1>5, <2>2, <2>3 DEF Save
  <2>4. CASE u # user[h] BY <1>5, <2>4 DEF Save
  <2> QED BY <2>3, <2>4
<1>6. CASE SaveFails(h) BY <1>6 DEF SaveFails
<1>7. CASE Reply(h) BY <1>7 DEF Reply
<1> QED BY <1>1, <1>2, <1>3, <1>4, <1>5, <1>6, <1>7 DEF HandlerNext

\* A restart reads the file, or starts without users (auth.go:34-43).
LEMMA RestartIInv == IInv /\ Restart => IInv'
<1> SUFFICES ASSUME IInv, Restart PROVE IInv' OBVIOUS
<1> USE AuthAssumption DEF IInv, TypeOK, Restart, Empty, Entry, request
<1>1. TypeOK' OBVIOUS
<1>2. Changed' BY DEF Changed
<1>3. AsAcknowledged' BY DEF AsAcknowledged, MayBe
<1> QED BY <1>1, <1>2, <1>3

\* Every step keeps the invariant.
LEMMA NextIInv == IInv /\ [Next]_vars => IInv'
<1> SUFFICES ASSUME IInv, [Next]_vars PROVE IInv' OBVIOUS
<1>1. ASSUME NEW h \in Handler, Ask(h) \/ HandlerNext(h)
      PROVE  IInv'
  BY <1>1, HandlerType, HandlerAcknowledged DEF IInv
<1>2. CASE Restart BY <1>2, RestartIInv
<1>3. CASE UNCHANGED vars
  BY <1>3 DEF vars, IInv, TypeOK, Changed, AsAcknowledged, MayBe
<1> QED BY <1>1, <1>2, <1>3 DEF Next

\* The invariant holds in every behaviour of the server's user store.
LEMMA SpecIInv == Spec => []IInv
BY InitIInv, NextIInv, PTL DEF Spec

\* The fields of JSONFileAuth and of its handlers keep their types, and the
\* lock is with the handler that changes the users.
THEOREM TypeCorrect == Spec => []TypeOK
BY SpecIInv, PTL DEF IInv

\* What BasicAuth decides by, and what a restart would read, is for each user
\* what the administrator was last told or has asked for since, or missing
\* after a restart that found the file torn (auth.go:20-59).
THEOREM UsersAsAcknowledged == Spec => []AsAcknowledged
BY SpecIInv, PTL DEF IInv
=============================================================================
