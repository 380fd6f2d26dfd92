-------------------------------- MODULE Pool --------------------------------
(***************************************************************************)
(* The channel pool of core.Client (core/cs.go): the requests that pull a  *)
(* channel, dial on it, copy and push it back, the procLoop goroutine that *)
(* closes the channels that are too old, and Client.Close.                 *)
(*                                                                         *)
(* A channel is the number of its creation.  LastUsed is set when the      *)
(* channel is made and never again, so a lower number is an older channel. *)
(* What happens on a channel is Channel.tla's; here a dial on it is        *)
(* answered, refused or fails, and fails for certain when the client       *)
(* itself had closed the channel (EvictedNeverServes there).               *)
(***************************************************************************)
EXTENDS Naturals, FiniteSets

CONSTANTS
  Request,   \* the goroutines that call Client.PipeConn, one call at a time
  MaxIdle,   \* Client.MaxIdle
  TryMax,    \* Client.TryMax
  MaxBorn,   \* bound: channels made
  MaxClose   \* bound: calls of Client.Close

ASSUME PoolAssumption ==
  /\ MaxIdle \in Nat
  /\ TryMax \in Nat \ {0}
  /\ MaxBorn \in Nat
  /\ MaxClose \in Nat
  /\ Request \cap {"unmade", "idle", "gone"} = {}

Channel == 1 .. MaxBorn

VARIABLES
  born,     \* channels made so far
  conns,    \* Client.conns
  idles,    \* Client.idles
  retired,  \* channels closed and left by the request or loop that had them
  stale,    \* channels the client has closed while they stayed in its maps
  old,      \* channels up to this one are older than KeepIdle
  pc,       \* where each request is
  held,     \* the channel of each request, 0 for nil
  tries,    \* the loop counter of DialBack, 0 outside of it
  loop,     \* procLoop: "wait", in "test" of the dialers, or "stopped"
  closer,   \* the caller of Client.Close: "none", "closing" or "sending"
  closes,   \* calls of Client.Close so far
  snapshot, \* the channels Client.Close has yet to close
  exit      \* messages in the exit channel, of capacity 1

vars == <<born, conns, idles, retired, stale, old, pc, held, tries, loop,
          closer, closes, snapshot, exit>>

pool == <<born, conns, idles, retired, stale>>
requests == <<pc, held, tries>>
closing == <<closer, closes, snapshot>>

RequestPC == {"new", "pull", "dialer", "pulled", "doomed", "dial", "pipe",
              "done", "failed"}
Holding == {"pulled", "doomed", "dial", "pipe"}

TypeOK ==
  /\ born \in 0 .. MaxBorn
  /\ conns \in SUBSET Channel
  /\ idles \in SUBSET Channel
  /\ retired \in SUBSET Channel
  /\ stale \in SUBSET Channel
  /\ old \in 0 .. MaxBorn
  /\ pc \in [Request -> RequestPC]
  /\ held \in [Request -> 0 .. MaxBorn]
  /\ tries \in [Request -> 0 .. TryMax - 1]
  /\ loop \in {"wait", "test", "stopped"}
  /\ closer \in {"none", "closing", "sending"}
  /\ closes \in 0 .. MaxClose
  /\ snapshot \in SUBSET Channel
  /\ exit \in 0 .. 1

Init ==
  /\ born = 0
  /\ conns = {} /\ idles = {} /\ retired = {} /\ stale = {}
  /\ old = 0
  /\ pc = [r \in Request |-> "new"]
  /\ held = [r \in Request |-> 0]
  /\ tries = [r \in Request |-> 0]
  /\ loop = "wait"
  /\ closer = "none" /\ closes = 0 /\ snapshot = {}
  /\ exit = 0

-----------------------------------------------------------------------------
(***************************************************************************)
(* A request: PipeConn, DialPiper, DialConn, DialBack, pullConn, pushConn. *)
(***************************************************************************)

Goto(r, to) == pc' = [pc EXCEPT ![r] = to]

\* A goroutine calls PipeConn, for the first time or once more.
Ask(r) ==
  /\ pc[r] \in {"new", "done", "failed"}
  /\ Goto(r, "pull")
  /\ UNCHANGED <<pool, old, held, tries, loop, closing, exit>>

\* Fault of PullIdle: the channel stays in idles.
PullIdleKeeps(r) ==
  /\ pc[r] = "pull"
  /\ \E c \in idles : held' = [held EXCEPT ![r] = c]
  /\ Goto(r, "pulled")
  /\ UNCHANGED <<pool, old, tries, loop, closing, exit>>

\* pullConn takes any idle channel.  It does not go back to conns.
PullIdle(r) ==
  /\ pc[r] = "pull"
  /\ \E c \in idles :
       /\ idles' = idles \ {c}
       /\ held' = [held EXCEPT ![r] = c]
  /\ Goto(r, "pulled")
  /\ UNCHANGED <<born, conns, retired, stale, old, tries, loop, closing, exit>>

\* With no idle channel pullConn dials the server, without the lock.
PullNone(r) ==
  /\ pc[r] = "pull"
  /\ idles = {}
  /\ Goto(r, "dialer")
  /\ UNCHANGED <<pool, old, held, tries, loop, closing, exit>>

PullNew(r) ==
  /\ pc[r] = "dialer"
  /\ born < MaxBorn
  /\ born' = born + 1
  /\ conns' = conns \cup {born + 1}
  /\ held' = [held EXCEPT ![r] = born + 1]
  /\ Goto(r, "pulled")
  /\ UNCHANGED <<idles, retired, stale, old, tries, loop, closing, exit>>

\* Fault of Retry: the rounds are not counted.
RetryForever(r) == Goto(r, "pull") /\ UNCHANGED tries

\* The next round of DialBack's loop, or its end with the last error.
Retry(r) ==
  IF tries[r] + 1 < TryMax
  THEN Goto(r, "pull") /\ tries' = [tries EXCEPT ![r] = @ + 1]
  ELSE Goto(r, "failed") /\ tries' = [tries EXCEPT ![r] = 0]

PullFails(r) ==
  /\ pc[r] = "dialer"
  /\ Retry(r)
  /\ UNCHANGED <<pool, old, held, loop, closing, exit>>

\* The dial command is written after what the client wrote before: behind a
\* close frame the server never reads it.
WriteDial(r) ==
  /\ pc[r] = "pulled"
  /\ Goto(r, IF held[r] \in stale THEN "doomed" ELSE "dial")
  /\ UNCHANGED <<pool, old, held, tries, loop, closing, exit>>

\* Fault of Leave: the channel is not closed.
LeaveOpen(r) == held' = [held EXCEPT ![r] = 0] /\ UNCHANGED retired

\* The request closes the channel it leaves.  conns keeps its entry.
Leave(r) ==
  /\ retired' = retired \cup {held[r]}
  /\ held' = [held EXCEPT ![r] = 0]

\* The dial fails: a write or a read error, a close frame, data.
DialFails(r) ==
  /\ pc[r] \in {"dial", "doomed"}
  /\ Leave(r)
  /\ Retry(r)
  /\ UNCHANGED <<born, conns, idles, stale, old, loop, closing, exit>>

DialOk(r) ==
  /\ pc[r] = "dial"
  /\ Goto(r, "pipe")
  /\ tries' = [tries EXCEPT ![r] = 0]
  /\ UNCHANGED <<pool, old, held, loop, closing, exit>>

\* The oldest idle channel, what pushConn closes when the pool is full.
Evicted == {c \in idles : /\ Cardinality(idles) >= MaxIdle
                          /\ \A d \in idles : c <= d}

\* pushConn closes the oldest channel and leaves it in idles.
PushConn(r) ==
  /\ stale' = stale \cup Evicted
  /\ conns' = conns \ {held[r]}
  /\ idles' = idles \cup {held[r]}
  /\ held' = [held EXCEPT ![r] = 0]

\* The server refuses the target: the channel is as good as before.
DialRefused(r) ==
  /\ pc[r] = "dial"
  /\ PushConn(r)
  /\ Goto(r, "failed")
  /\ tries' = [tries EXCEPT ![r] = 0]
  /\ UNCHANGED <<born, retired, old, loop, closing, exit>>

\* piperConn.Close: the channel goes back to the pool unless it has an error.
PipeEnds(r) ==
  /\ pc[r] = "pipe"
  /\ PushConn(r)
  /\ Goto(r, "done")
  /\ UNCHANGED <<born, retired, old, tries, loop, closing, exit>>

PipeBreaks(r) ==
  /\ pc[r] = "pipe"
  /\ Leave(r)
  /\ Goto(r, "done")
  /\ UNCHANGED <<born, conns, idles, stale, old, tries, loop, closing, exit>>

-----------------------------------------------------------------------------
(***************************************************************************)
(* The procLoop goroutine, and the passing of time.                        *)
(***************************************************************************)

\* Time passes: one more channel is older than KeepIdle.
Age ==
  /\ old < born
  /\ old' = old + 1
  /\ UNCHANGED <<pool, requests, loop, closing, exit>>

\* Fault of Tick: the channels of requests are timed out too.
TickAll ==
  /\ loop = "wait"
  /\ idles' = {c \in idles : c > old}
  /\ retired' = retired \cup 1 .. old
  /\ loop' \in {"wait", "test"}
  /\ UNCHANGED <<born, conns, stale, old, requests, closing, exit>>

\* A tick: timeoutConn, and once per TestDelay the test of the dialers, on
\* connections of its own and for as long as their servers take to answer.
Tick ==
  /\ loop = "wait"
  /\ idles' = {c \in idles : c > old}
  /\ retired' = retired \cup {c \in idles : c <= old}
  /\ loop' \in {"wait", "test"}
  /\ UNCHANGED <<born, conns, stale, old, requests, closing, exit>>

TestEnds ==
  /\ loop = "test"
  /\ loop' = "wait"
  /\ UNCHANGED <<pool, old, requests, closing, exit>>

LoopExits ==
  /\ loop = "wait"
  /\ exit > 0
  /\ exit' = exit - 1
  /\ loop' = "stopped"
  /\ UNCHANGED <<pool, old, requests, closing>>

-----------------------------------------------------------------------------
(***************************************************************************)
(* Client.Close.                                                           *)
(***************************************************************************)

CloseCall ==
  /\ closer = "none"
  /\ closes < MaxClose
  /\ closes' = closes + 1
  /\ closer' = "closing"
  /\ snapshot' = conns
  /\ UNCHANGED <<pool, old, requests, loop, exit>>

\* The channels of the snapshot are closed without the lock, wherever they
\* have gone since.
CloseOne ==
  /\ closer = "closing"
  /\ \E c \in snapshot :
       /\ snapshot' = snapshot \ {c}
       /\ stale' = stale \cup {c}
  /\ UNCHANGED <<born, conns, idles, retired, old, requests, loop, closer,
                 closes, exit>>

CloseDone ==
  /\ closer = "closing"
  /\ snapshot = {}
  /\ closer' = "sending"
  /\ UNCHANGED <<pool, old, requests, loop, closes, snapshot, exit>>

\* Fault of CloseReturns: the exit channel has no buffer.
CloseReturnsUnbuffered ==
  /\ closer = "sending"
  /\ loop = "wait"
  /\ loop' = "stopped"
  /\ closer' = "none"
  /\ UNCHANGED <<pool, old, requests, closes, snapshot, exit>>

\* c.exit <- 1
CloseReturns ==
  /\ closer = "sending"
  /\ exit < 1
  /\ exit' = exit + 1
  /\ closer' = "none"
  /\ UNCHANGED <<pool, old, requests, loop, closes, snapshot>>

-----------------------------------------------------------------------------

DialBack(r) ==
  \/ PullIdle(r) \/ PullNone(r) \/ PullNew(r) \/ PullFails(r) \/ WriteDial(r)
  \/ DialFails(r) \/ DialOk(r) \/ DialRefused(r)

RequestNext(r) == Ask(r) \/ DialBack(r) \/ PipeEnds(r) \/ PipeBreaks(r)

LoopNext == Tick \/ TestEnds \/ LoopExits

CloseNext == CloseCall \/ CloseOne \/ CloseDone \/ CloseReturns

Next ==
  \/ \E r \in Request : RequestNext(r)
  \/ Age
  \/ LoopNext
  \/ CloseNext

Spec == Init /\ [][Next]_vars

\* The goroutines run, a dial of the server and a dial on a channel end (for
\* the latter see DialAnswered of Channel.tla).  Nothing is assumed of the
\* user, who ends the sessions, of the dialers' test, or of time.
FairSpec ==
  /\ Spec
  /\ \A r \in Request : WF_vars(DialBack(r))
  /\ WF_vars(LoopExits)
  /\ WF_vars(CloseOne \/ CloseDone \/ CloseReturns)

-----------------------------------------------------------------------------
(***************************************************************************)
(* Properties.                                                             *)
(***************************************************************************)

Holds(r) == pc[r] \in Holding

\* A channel is in one place (pullConn and pushConn under connsLck): idle, or
\* with one request, or retired.  Two requests on one channel would mix their
\* sessions, a retired channel in the pool would be closed under a request.
Exclusive ==
  /\ \A r \in Request :
       Holds(r) => held[r] \in (1 .. born) \ (idles \cup retired)
  /\ \A r, q \in Request : Holds(r) /\ Holds(q) /\ held[r] = held[q] => r = q
  /\ idles \cap retired = {}

\* No channel is forgotten: one that was made is idle, retired or held.
NoneLost ==
  \A c \in 1 .. born :
    c \in idles \cup retired \/ \E r \in Request : Holds(r) /\ held[r] = c

\* conns has the channels that were never in the pool, and of the others
\* none, so that Client.Close and timeoutConn never close the same channel.
ConnsNotIdle == conns \cap idles = {} /\ conns \subseteq 1 .. born

\* The pool as a lease of channels: see Lease.tla.
Place(c) ==
  IF c > born THEN "unmade"
  ELSE IF c \in idles THEN "idle"
  ELSE IF c \in retired THEN "gone"
  ELSE CHOOSE r \in Request : Holds(r) /\ held[r] = c

LeaseOf == INSTANCE Lease WITH at <- [c \in Channel |-> Place(c)]

ImplementsLease == LeaseOf!Spec

\* A request gets its session or an error: DialBack gives up after TryMax
\* rounds, whatever the other requests take from the pool meanwhile.
Answered ==
  \A r \in Request : pc[r] = "pull" ~> pc[r] \in {"pipe", "done", "failed"}

\* Client.Close returns: its message to procLoop finds room or a reader, even
\* when the loop is in a test of the dialers that never ends.
CloseEnds == closer = "closing" ~> closer = "none"

\* "remove one oldest channel for idle pool is full" (cs.go:440): what the
\* pool holds open never exceeds MaxIdle.
IdleBound == Cardinality(idles \ stale) <= MaxIdle

\* "Close will close all proc connection" (cs.go:320): Client.Close closes the
\* channel of every session that is being piped when it is called.
CloseCoversSessions ==
  [][CloseCall => {held[r] : r \in {q \in Request : pc[q] = "pipe"}}
                    \subseteq snapshot']_vars
=============================================================================
