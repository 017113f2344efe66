------------------------ MODULE MCProviderRuntime ------------------------
(* Small instances of ProviderRuntime for TLC. *)
EXTENDS ProviderRuntime, TLC

CONSTANTS c1, c2, r1, r2, r3, r4, r5, s1

MCClass == [c \in Capabilities |-> "Control"]
MCMixedClass == [c \in Capabilities |-> IF c = c1 THEN "Observation" ELSE "Control"]
MCDomain == [c \in Capabilities |-> "Storage"]
MCScopeBytes == [s \in Scopes |-> 1]
MCInitialCadence == [c \in Capabilities |-> IF c \in Scheduled THEN 1 ELSE NoCadence]
MCManual == [c \in Capabilities |-> NoCadence]
MCCapabilityTracking == [c \in Capabilities |-> "Capability"]
MCMixedTracking == [c \in Capabilities |-> IF c = c1 THEN "Capability" ELSE "Target"]

\* Requests are interchangeable.
MCSymmetry == Permutations(Requests)
=============================================================================
