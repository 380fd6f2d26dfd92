-------------------------------- MODULE Auth --------------------------------
(***************************************************************************)
(* core.JSONFileAuth (core/auth.go): the users of the server in memory and *)
(* in their JSON file, the http handlers that add and remove a user, and   *)
(* the restart of the process, which may come between any two steps of     *)
(* them.  A handler holds userLck from its change of the map to the end of *)
(* WriteJSON (core/utils.go), which truncates the file before it writes.   *)
(***************************************************************************)
CONSTANTS
  Handler,   \* the goroutines that serve manager requests
  User,
  Password,  \* the hashes of the passwords
  None       \* a missing entry of the map of users

ASSUME AuthAssumption ==
  /\ "nobody" \notin Handler
  /\ None \notin Password

Entry == Password \cup {None}

VARIABLES
  normalUser, \* JSONFileAuth.normalUser
  file,       \* what WriteJSON last wrote to the file
  readable,   \* the file has what was written: FALSE if missing or torn
  userLck,    \* the handler that has userLck, or "nobody"
  pc,         \* where each handler is
  user,       \* its username
  entry,      \* the entry it is to leave for the user: None to remove it
  expected,   \* history: per user the entry last acknowledged, and those
              \* asked for since
  lost        \* history: users not acknowledged since the file was found
              \* unreadable

vars == <<normalUser, file, readable, userLck, pc, user, entry, expected, lost>>
store == <<normalUser, file, readable>>
request == <<user, entry>>
history == <<expected, lost>>

TypeOK ==
  /\ normalUser \in [User -> Entry]
  /\ file \in [User -> Entry]
  /\ readable \in BOOLEAN
  /\ userLck \in Handler \cup {"nobody"}
  /\ pc \in [Handler -> {"idle", "asked", "open", "write", "reply"}]
  /\ user \in [Handler -> User]
  /\ entry \in [Handler -> Entry]
  /\ expected \in [User -> SUBSET Entry]
  /\ lost \in SUBSET User
  /\ \A h \in Handler : pc[h] \in {"open", "write"} <=> userLck = h

Empty == [u \in User |-> None]

\* NewJSONFileAuth, on a new, an old or a damaged file.
Init ==
  /\ file \in [User -> Entry]
  /\ readable \in BOOLEAN
  /\ normalUser = IF readable THEN file ELSE Empty
  /\ userLck = "nobody"
  /\ pc = [h \in Handler |-> "idle"]
  /\ user \in [Handler -> User]
  /\ entry = [h \in Handler |-> None]
  /\ expected = [u \in User |-> {normalUser[u]}]
  /\ lost = {}

-----------------------------------------------------------------------------
(***************************************************************************)
(* AddUser and RemoveUser, once the administrator's password is checked.   *)
(***************************************************************************)

Goto(h, to) == pc' = [pc EXCEPT ![h] = to]

Ask(h) ==
  /\ pc[h] = "idle"
  /\ Goto(h, "asked")
  /\ \E u \in User : user' = [user EXCEPT ![h] = u]
  /\ \E e \in Entry : entry' = [entry EXCEPT ![h] = e]
  /\ UNCHANGED <<store, userLck, history>>

Change(h) ==
  /\ pc[h] = "asked"
  /\ userLck = "nobody"
  /\ userLck' = h
  /\ normalUser' = [normalUser EXCEPT ![user[h]] = entry[h]]
  /\ expected' = [expected EXCEPT ![user[h]] = @ \cup {entry[h]}]
  /\ Goto(h, "open")
  /\ UNCHANGED <<file, readable, request, lost>>

Unlock(h) == userLck' = "nobody" /\ Goto(h, "reply")

\* Fault of OpenFails: the error path keeps the lock.
OpenFailsLocked(h) ==
  /\ pc[h] = "open"
  /\ Goto(h, "reply")
  /\ UNCHANGED <<store, userLck, request, history>>

\* The file cannot be opened: it stays as it is, the map stays changed.
OpenFails(h) ==
  /\ pc[h] = "open"
  /\ Unlock(h)
  /\ UNCHANGED <<store, request, history>>

Truncate(h) ==
  /\ pc[h] = "open"
  /\ readable' = FALSE
  /\ Goto(h, "write")
  /\ UNCHANGED <<normalUser, file, userLck, request, history>>

\* Fault of Save: the file is written before the map is changed.
SaveBefore(h) ==
  /\ pc[h] = "write"
  /\ file' = [normalUser EXCEPT ![user[h]] = file[user[h]]]
  /\ readable' = TRUE
  /\ expected' = [expected EXCEPT ![user[h]] = {entry[h]}]
  /\ lost' = lost \ {user[h]}
  /\ Unlock(h)
  /\ UNCHANGED <<normalUser, request>>

\* The file has the users of the map, and the answer will be "ok".
Save(h) ==
  /\ pc[h] = "write"
  /\ file' = normalUser
  /\ readable' = TRUE
  /\ expected' = [expected EXCEPT ![user[h]] = {entry[h]}]
  /\ lost' = lost \ {user[h]}
  /\ Unlock(h)
  /\ UNCHANGED <<normalUser, request>>

\* The write fails and leaves a beginning of the file, or the close fails.
SaveFails(h) ==
  /\ pc[h] = "write"
  /\ \/ UNCHANGED <<file, readable>>
     \/ file' = normalUser /\ readable' = TRUE
  /\ Unlock(h)
  /\ UNCHANGED <<normalUser, request, history>>

Reply(h) ==
  /\ pc[h] = "reply"
  /\ Goto(h, "idle")
  /\ UNCHANGED <<store, userLck, request, history>>

-----------------------------------------------------------------------------

\* The process ends and starts again: a file that is no whole JSON text
\* leaves the map empty, and the server starts all the same.
Restart ==
  /\ normalUser' = IF readable THEN file ELSE Empty
  /\ lost' = IF readable THEN lost ELSE User
  /\ userLck' = "nobody"
  /\ pc' = [h \in Handler |-> "idle"]
  /\ UNCHANGED <<file, readable, request, expected>>

HandlerNext(h) ==
  \/ Change(h) \/ OpenFails(h) \/ Truncate(h) \/ Save(h) \/ SaveFails(h)
  \/ Reply(h)

Next == (\E h \in Handler : Ask(h) \/ HandlerNext(h)) \/ Restart

Spec == Init /\ [][Next]_vars

\* Handlers run, and get the lock in the end: Go's mutexes do not starve.
FairSpec ==
  Spec /\ \A h \in Handler : /\ WF_vars(HandlerNext(h))
                             /\ SF_vars(Change(h))

-----------------------------------------------------------------------------
(***************************************************************************)
(* Properties.                                                             *)
(***************************************************************************)

\* What a user's entry may be: what the last "ok" said or a later request
\* asked for, and missing if a restart has found the file unreadable.
MayBe(u) == expected[u] \cup (IF u \in lost THEN {None} ELSE {})

\* What BasicAuth decides by (auth.go:66), and what a restart would read, is
\* what the administrator was told, whatever restarts, failed writes and other
\* requests came between.  A removal that was acknowledged is thus never
\* undone by a restart, and an added user is lost only with all others.
AsAcknowledged ==
  \A u \in User : /\ normalUser[u] \in MayBe(u)
                  /\ readable => file[u] \in MayBe(u)

\* Liveness: every request is answered, or ended by a restart: no error path
\* keeps the lock.
Responds == \A h \in Handler : pc[h] = "asked" ~> pc[h] = "idle"
=============================================================================
