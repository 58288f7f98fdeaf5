----------------------------- MODULE MCMachines -----------------------------
(***************************************************************************)
(* The operations of MCOperations and, beside them, the sync of two        *)
(* devices, for TLC: each behaviour runs one of them.                      *)
(*                                                                         *)
(* Of the sync only what must happen in the end is asked here.  The first  *)
(* device captures and pushes with one process, the second one pulls, and  *)
(* the Worker serves one push-side request at a time.                      *)
(***************************************************************************)
EXTENDS MCOperations

CONSTANTS
  d1, d2,
  Devices, Events, Keys, Captured, Pushers, Slots, Pullers, None,
  SyncAttempts, SyncFaults

VARIABLES
  local, promoted, outbox, lastRow, lastAttempt, held, sweep,
  syncRequests, zoneCounter, canonical, uploads, links, objects, request,
  conn, received, cursorOf, pull, syncFaults

SyncKeyOf == [e \in Events |-> CHOOSE k \in Keys : e \in Captured <=> k \in Captured]
SyncCapturedOn == [e \in Events |-> {d1}]
SyncDeviceOf == [p \in Pushers |-> d1]
SyncPullsFor == [q \in Pullers |-> d2]

Sync == INSTANCE SyncSystem WITH
  KeyOf <- SyncKeyOf, Evidence <- Captured, ActiveUnits <- Events \ Captured,
  CapturedOn <- SyncCapturedOn, DeviceOf <- SyncDeviceOf, PullsFor <- SyncPullsFor,
  Policies <- {"full_log"}, MaxRows <- 2, Foreign <- {}, PullLimit <- 1,
  MaxAttempts <- SyncAttempts, MaxFaults <- SyncFaults,
  job <- request, inbox <- received, cursor <- cursorOf, faults <- syncFaults

syncVars ==
  <<local, promoted, outbox, lastRow, lastAttempt, held, sweep, syncRequests, zoneCounter,
    canonical, uploads, links, objects, request, conn, received, cursorOf, pull, syncFaults>>
machinesVars == <<operationsVars, syncVars>>

MachinesInit ==
  /\ OperationsInit \/ (machine = "sync" /\ OperationsStart)
  /\ Sync!SystemInit

MachinesNext ==
  \/ OperationsNext /\ UNCHANGED syncVars
  \/ machine = "sync" /\ Sync!SystemNext /\ UNCHANGED operationsVars

otherThanElapse ==
  <<syncRequests, zoneCounter, canonical, uploads, links, objects, request, conn, received,
    cursorOf, pull, syncFaults>>

\* The fairness of FairSystemSpec, for the behaviours that sync.
SyncFairness ==
  /\ \A d \in Devices, e \in Events :
       WF_syncVars(machine = "sync" /\ Sync!Elapse(d, e) /\ UNCHANGED otherThanElapse)
  /\ \A p \in Pushers : WF_syncVars(machine = "sync" /\ Sync!PushStep(p))
  /\ \A h \in Slots :
       /\ WF_syncVars(machine = "sync" /\ Sync!ServeStep(h))
       /\ WF_syncVars(machine = "sync" /\ Sync!Unheard(h))
  /\ \A q \in Pullers : WF_syncVars(machine = "sync" /\ Sync!PullStep(q))

MachinesSpec ==
  MachinesInit /\ [][MachinesNext]_machinesVars /\ OperationsFairness /\ SyncFairness

\* Every event captured for the zone reaches every device in the end, once faults stop:
\* EventuallyEverywhere of SyncSystem.
EventuallyEverywhere == Sync!EventuallyEverywhere
=============================================================================
