------------------------------- MODULE ZoneLog -------------------------------
(***************************************************************************)
(* What sync promises for one trust zone: devices capture event bodies,    *)
(* captured bodies are published in one ordered log, at most one per       *)
(* idempotency key, and devices receive what was published.  Nothing is    *)
(* taken back and nothing appears from nowhere (ADR 0003, ADR 0006).       *)
(***************************************************************************)
EXTENDS ZoneData, Sequences

VARIABLES
  log,    \* the published bodies, in zone_sequence order
  has     \* [Devices -> SUBSET Body]: what each device holds

Body == [event : Events, origin : Devices]

ZoneLogInit ==
  /\ log = <<>>
  /\ has = [d \in Devices |-> {}]

CaptureBody(d, e) ==
  /\ has' = [has EXCEPT ![d] = @ \cup {[event |-> e, origin |-> d]}]
  /\ UNCHANGED log

\* Mutations of the log need a body that its origin really holds, and a fresh key.
Publish(body) ==
  /\ body \in has[body.origin]
  /\ \A i \in DOMAIN log : KeyOf[log[i].event] # KeyOf[body.event]
  /\ log' = Append(log, body)
  /\ UNCHANGED has

ReceiveBody(d, i) ==
  /\ has' = [has EXCEPT ![d] = @ \cup {log[i]}]
  /\ UNCHANGED log

ZoneLogNext ==
  \/ \E d \in Devices, e \in Events : CaptureBody(d, e)
  \/ \E body \in Body : Publish(body)
  \/ \E d \in Devices, i \in DOMAIN log : ReceiveBody(d, i)

ZoneLogSpec == ZoneLogInit /\ [][ZoneLogNext]_<<log, has>>
=============================================================================
