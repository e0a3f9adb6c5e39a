------------------------------ MODULE Delivery ------------------------------
(***************************************************************************)
(* What the outbox promises of one notification, with no lease, attempt    *)
(* counter, worker or crash in sight.  A notification is queued with a     *)
(* content; sinks acknowledge it; it ends sent or dead.  Acknowledgements  *)
(* are kept until the notification is renewed with another content, and    *)
(* the content of a notification that is not yet sent never changes.       *)
(***************************************************************************)
CONSTANTS Rows, Contents, NoContent, Indices

VARIABLES phase, content, acked

vars == <<phase, content, acked>>

Init ==
    /\ phase = [r \in Rows |-> "none"]
    /\ content = [r \in Rows |-> NoContent]
    /\ acked = [r \in Rows |-> {}]

\* A new notification
Put(r, c) ==
    /\ phase[r] = "none"
    /\ phase' = [phase EXCEPT ![r] = "queued"]
    /\ content' = [content EXCEPT ![r] = c]
    /\ UNCHANGED acked

\* A sink acknowledges; a late answer may reach a notification already buried
Ack(r, i) ==
    /\ phase[r] \in {"queued", "dead"}
    /\ acked' = [acked EXCEPT ![r] = @ \cup {i}]
    /\ UNCHANGED <<phase, content>>

\* Sent: some sink has acknowledged this content
Settle(r) ==
    /\ phase[r] = "queued"
    /\ acked[r] # {}
    /\ phase' = [phase EXCEPT ![r] = "sent"]
    /\ UNCHANGED <<content, acked>>

\* Given up on, and revived by an operator, in batches
Bury(R) ==
    /\ \A r \in R : phase[r] = "queued"
    /\ phase' = [r \in Rows |-> IF r \in R THEN "dead" ELSE phase[r]]
    /\ UNCHANGED <<content, acked>>

Revive(R) ==
    /\ \A r \in R : phase[r] = "dead"
    /\ phase' = [r \in Rows |-> IF r \in R THEN "queued" ELSE phase[r]]
    /\ UNCHANGED <<content, acked>>

\* The release changed after it was announced: announce it again, to everyone
Renew(r, c) ==
    /\ phase[r] = "sent"
    /\ phase' = [phase EXCEPT ![r] = "queued"]
    /\ content' = [content EXCEPT ![r] = c]
    /\ acked' = [acked EXCEPT ![r] = {}]

\* Retention
Forget(r) ==
    /\ phase[r] = "sent"
    /\ phase' = [phase EXCEPT ![r] = "none"]
    /\ content' = [content EXCEPT ![r] = NoContent]
    /\ acked' = [acked EXCEPT ![r] = {}]

Next ==
    \/ \E r \in Rows, c \in Contents : Put(r, c) \/ Renew(r, c)
    \/ \E r \in Rows, i \in Indices : Ack(r, i)
    \/ \E r \in Rows : Settle(r) \/ Forget(r)
    \/ \E R \in SUBSET Rows : Bury(R) \/ Revive(R)

Spec == Init /\ [][Next]_vars
=============================================================================
