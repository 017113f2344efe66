-------------------------- MODULE MCRuntimeTables --------------------------
(***************************************************************************)
(* Small instances of the two tables of the runtime that many threads      *)
(* change under a mutex, the scheduler and the SMART jobs.  They share     *)
(* nothing: `unit` is the one whose steps are taken, and the other rests   *)
(* in its initial state.                                                   *)
(***************************************************************************)
EXTENDS WorkScheduler, SmartJobs, TLC

CONSTANTS c1, r1, r2, r3, r4, s1, s2, s3, d1, d2, e1

\* One route that answers observations and takes target jobs.
MCClass == [c \in Capabilities |-> "Observation"]
MCDomain == [c \in Capabilities |-> "Storage"]
MCScopeBytes == [s \in Scopes |-> IF s = s2 THEN 2 ELSE 1]
MCInitialCadence == [c \in Capabilities |-> 1]
MCCadences == {NoCadence, 1}

\* Two lifecycles of one disk, and another disk.
MCDeviceOf == [d \in Disks |-> IF d = e1 THEN "e" ELSE "d"]

\* Requests are interchangeable.
MCSymmetry == Permutations(Requests)

VARIABLE unit

TablesInit == unit \in {"scheduler", "smart"} /\ Init /\ SmartInit

TablesNext ==
  /\ UNCHANGED unit
  /\ \/ unit = "scheduler" /\ Next /\ UNCHANGED smartVars
     \/ unit = "smart" /\ SmartNext /\ UNCHANGED schedVars

TablesSpec == TablesInit /\ [][TablesNext]_<<schedVars, smartVars, unit>>

\* The type invariants of both tables.
TablesTypeOK == TypeOK /\ SmartTypeOK
=============================================================================
