---------------------------- MODULE MCHostServices ----------------------------
(***************************************************************************)
(* Small instances of four services of the application host that share     *)
(* nothing: `unit` is the one whose steps are taken, and the others rest in *)
(* their initial states.  The configuration is a unit of its own twice, as  *)
(* two windows on a file that is not damaged and as one window on one that  *)
(* is.                                                                      *)
(***************************************************************************)
EXTENDS ConfigRuntime, HistoryStore, HistoryClaim, RequestSession

CONSTANTS c1, c2, theme, units, a, b, s1, s2, s3, p1, p2, t1, t2

MCDefault == [f \in Fields |-> a]

VARIABLE unit

Units == {"windows", "file", "history", "claim", "session"}
vars == <<configVars, historyVars, claimVars, sessionVars, unit>>

Init ==
  /\ unit \in Units
  /\ ConfigInit /\ HistoryInit /\ ClaimInit /\ SessionInit
  /\ unit # "file" => primary # NoFile /\ backup = NoFile

Next ==
  /\ UNCHANGED unit
  /\ \/ /\ unit = "windows" /\ ConfigNext /\ faults' = 0
        /\ UNCHANGED <<historyVars, claimVars, sessionVars>>
     \/ /\ unit = "file" /\ ConfigNext /\ edits' <= 1 /\ handle'[c2] = "none"
        /\ UNCHANGED <<historyVars, claimVars, sessionVars>>
     \/ /\ unit = "history" /\ HistoryNext /\ guard'[s3] = 0
        /\ UNCHANGED <<configVars, claimVars, sessionVars>>
     \/ /\ unit = "claim" /\ ClaimNext
        /\ UNCHANGED <<configVars, historyVars, sessionVars>>
     \/ /\ unit = "session" /\ SessionNext
        /\ UNCHANGED <<configVars, historyVars, claimVars>>

\* The fair actions of a unit at rest are disabled.
Spec == Init /\ [][Next]_vars /\ ConfigFairness /\ SessionFairness
=============================================================================
