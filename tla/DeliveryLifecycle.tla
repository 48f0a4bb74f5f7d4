------------------------ MODULE DeliveryLifecycle ------------------------
(***************************************************************************)
(* What the notification outbox promises about every delivery, with no     *)
(* dispatchers, leases, clocks or rows: a delivery is queued by a report,  *)
(* a provider may accept it at any time after that (at-least-once: a       *)
(* provider may also accept it again), it is recorded as sent only after   *)
(* some provider accepted it, a sent delivery stays sent, and a failed one *)
(* is queued again only by the owner.                                      *)
(***************************************************************************)

CONSTANT Jobs       \* the deliveries (ids of notification_outbox rows)

VARIABLES phase,    \* what the owner can observe of each delivery
          accepted  \* has a provider ever accepted it

vars == <<phase, accepted>>

Phases == {"absent", "queued", "sent", "failed"}

TypeOK == /\ phase \in [Jobs -> Phases]
          /\ accepted \in [Jobs -> BOOLEAN]

Init == /\ phase = [j \in Jobs |-> "absent"]
        /\ accepted = [j \in Jobs |-> FALSE]

\* A report enqueues one job per planned channel, all of them at once.
Enqueue == \E js \in SUBSET Jobs :
             /\ js # {}
             /\ \A j \in js : phase[j] = "absent"
             /\ phase' = [j \in Jobs |-> IF j \in js THEN "queued" ELSE phase[j]]
             /\ UNCHANGED accepted

\* A provider takes the message.  A call that outlives its lease may do so
\* after the delivery was already settled by another dispatcher.
Accept(j) == /\ phase[j] # "absent"
             /\ accepted' = [accepted EXCEPT ![j] = TRUE]
             /\ UNCHANGED phase

RecordSent(j) == /\ phase[j] = "queued"
                 /\ accepted[j]
                 /\ phase' = [phase EXCEPT ![j] = "sent"]
                 /\ UNCHANGED accepted

GiveUp(j) == /\ phase[j] = "queued"
             /\ phase' = [phase EXCEPT ![j] = "failed"]
             /\ UNCHANGED accepted

OwnerRetry(j) == /\ phase[j] = "failed"
                 /\ phase' = [phase EXCEPT ![j] = "queued"]
                 /\ UNCHANGED accepted

Next == \/ Enqueue
        \/ \E j \in Jobs : Accept(j) \/ RecordSent(j) \/ GiveUp(j) \/ OwnerRetry(j)

Spec == Init /\ [][Next]_vars
=============================================================================
