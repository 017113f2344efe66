------------------------------- MODULE MCLanes -------------------------------
(***************************************************************************)
(* Small instances of three parts of the runtime that share nothing: `unit` *)
(* is the one whose steps are taken, and the others rest in their initial  *)
(* states.                                                                 *)
(***************************************************************************)
EXTENDS LaneStart, EventDelivery, DirectoryScan

CONSTANTS p1, p2, p3, t1, t2, x, y, z

VARIABLE unit

Units == {"lane", "delivery", "scan"}
lanesVars == <<vars, deliveryVars, scanVars, unit>>

LanesInit == unit \in Units /\ Init /\ DeliveryInit /\ ScanInit

LanesNext ==
  /\ UNCHANGED unit
  /\ \/ /\ unit = "lane" /\ Next
        /\ UNCHANGED <<deliveryVars, scanVars>>
     \/ /\ unit = "delivery" /\ DeliveryNext
        /\ UNCHANGED <<vars, scanVars>>
     \/ /\ unit = "scan" /\ ScanNext
        /\ UNCHANGED <<vars, deliveryVars>>

LanesSpec == LanesInit /\ [][LanesNext]_lanesVars

\* The fairness of LaneStart, EventDelivery and DirectoryScan, each while it
\* is the unit that runs.
FairLanesSpec ==
  /\ LanesSpec
  /\ \A p \in Callers :
       /\ WF_vars(unit = "lane" /\ Submit(p)) /\ WF_vars(unit = "lane" /\ CallerStep(p))
       /\ SF_vars(unit = "lane" /\ \E t \in Threads : Spawn(p, t))
  /\ \A t \in Threads : WF_vars(unit = "lane" /\ ThreadStep(t))
  /\ WF_deliveryVars(unit = "delivery" /\ TryRecv)
  /\ ScanFairness

\* One type invariant of all three.
LanesTypeOK == TypeOK /\ DeliveryTypeOK /\ ScanTypeOK
=============================================================================
