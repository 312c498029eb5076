---------------------------- MODULE CallLifecycle ----------------------------
(***************************************************************************)
(* What the direct-call store promises about the life of one call: it is   *)
(* invited once, may be answered while it is still ringing, and once it is *)
(* over it stays over.  DirectCall implements it when the server's         *)
(* statements do not overlap (one Postgres pool slot).                     *)
(***************************************************************************)
CONSTANT Calls  \* the calls that may ever be created

VARIABLE life   \* life[c]: where call c is in its life

Stages == {"none", "invited", "accepted", "over"}

TypeOK == life \in [Calls -> Stages]

Init == life = [c \in Calls |-> "none"]

\* A caller creates c: app.calls gets its row with status 'invited'.
Invite(c) == /\ life[c] = "none"
             /\ life' = [life EXCEPT ![c] = "invited"]

\* A participant accepts c while nobody has finished it.
Answer(c) == /\ life[c] = "invited"
             /\ life' = [life EXCEPT ![c] = "accepted"]

\* Decline, hangup or the cleanup of a closed connection finishes calls; the
\* cleanup may finish several at once.
Finish(S) == /\ \A c \in S : life[c] \in {"invited", "accepted"}
             /\ life' = [c \in Calls |-> IF c \in S THEN "over" ELSE life[c]]

Next == \/ \E c \in Calls : Invite(c) \/ Answer(c)
        \/ \E S \in SUBSET Calls : Finish(S)

Spec == Init /\ [][Next]_life
=============================================================================
