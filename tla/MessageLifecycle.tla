--------------------------- MODULE MessageLifecycle ---------------------------
(***************************************************************************)
(* What sending a message promises: what the inbox tells of the message and *)
(* what the provider has done with it never contradict each other in the    *)
(* ways that matter, and the inbox does not wait for ever.  OutboundDelivery *)
(* implements it, with its queue, its runs, its locks and its webhooks.     *)
(***************************************************************************)
CONSTANT Messages

VARIABLES
  told,    \* what the row says: no row, waiting for an outcome, sent or failed
  provider \* whether the provider has the message, or has given it up

vars == <<told, provider>>

Init ==
  /\ told = [m \in Messages |-> "none"]
  /\ provider = [m \in Messages |-> "nothing"]

Tell(m, what) ==
  /\ told' = [told EXCEPT ![m] = what]
  /\ UNCHANGED provider

Create(m) == told[m] = "none" /\ Tell(m, "waiting")

\* The message is handed over, but not a second time while the provider has it.
Accept(m) ==
  /\ told[m] # "none" /\ provider[m] # "has"
  /\ provider' = [provider EXCEPT ![m] = "has"]
  /\ UNCHANGED told

Refuse(m) ==
  /\ provider[m] = "has"
  /\ provider' = [provider EXCEPT ![m] = "refused"]
  /\ UNCHANGED told

\* Only what the provider has had is called sent.
Sent(m) ==
  /\ told[m] \in {"waiting", "failed"} /\ provider[m] # "nothing"
  /\ Tell(m, "sent")

\* What the provider has is not called failed, nor tried again.
Failed(m) ==
  /\ told[m] \in {"waiting", "sent"} /\ provider[m] # "has"
  /\ Tell(m, "failed")

Retry(m) == told[m] = "failed" /\ provider[m] # "has" /\ Tell(m, "waiting")

Settle(m) == told[m] = "waiting" /\ (Sent(m) \/ Failed(m))

Next ==
  \E m \in Messages :
    \/ Create(m) \/ Accept(m) \/ Refuse(m)
    \/ Sent(m) \/ Failed(m) \/ Retry(m)

Spec == Init /\ [][Next]_vars /\ \A m \in Messages : WF_vars(Settle(m))
=============================================================================
