------------------------------- MODULE Lease --------------------------------
(***************************************************************************)
(* What the client's channel pool promises: every channel is at any time   *)
(* in one place.  It is not yet made, lent to one request, idle in the     *)
(* pool, or gone; a request has at most one channel at a time, and a       *)
(* channel that is gone is never lent again.                               *)
(*                                                                         *)
(* Pool.tla, the model of core.Client, implements this specification.      *)
(***************************************************************************)
CONSTANTS Request, Channel

VARIABLE at   \* at[c]: a request, or one of the three places below

Places == {"unmade", "idle", "gone"}

Init == at = [c \in Channel |-> "unmade"]

Empty(r) == \A c \in Channel : at[c] # r

Make(c, r) == at[c] = "unmade" /\ Empty(r) /\ at' = [at EXCEPT ![c] = r]

Lend(c, r) == at[c] = "idle" /\ Empty(r) /\ at' = [at EXCEPT ![c] = r]

Return(c, r) == at[c] = r /\ at' = [at EXCEPT ![c] = "idle"]

Drop(c, r) == at[c] = r /\ at' = [at EXCEPT ![c] = "gone"]

\* Idle channels time out together.
Expire(S) ==
  /\ \A c \in S : at[c] = "idle"
  /\ at' = [c \in Channel |-> IF c \in S THEN "gone" ELSE at[c]]

Next ==
  \/ \E c \in Channel, r \in Request :
       Make(c, r) \/ Lend(c, r) \/ Return(c, r) \/ Drop(c, r)
  \/ \E S \in SUBSET Channel : Expire(S)

Spec == Init /\ [][Next]_at
=============================================================================
