---------------------------- MODULE HistoryProofs ----------------------------
(***************************************************************************)
(* The history store and the claim on its directory, for any values of     *)
(* their constants.  The two share nothing; each has a part of its own.    *)
(***************************************************************************)
EXTENDS HistoryStore, HistoryClaim, FiniteSetTheorems, SequenceTheorems,
        WellFoundedInduction, TLAPS

-----------------------------------------------------------------------------
(***************************************************************************)
(* The claim between two processes.  That it is taken by a third is what   *)
(* TLC finds in the run of MCHistoryClaim.                                 *)
(***************************************************************************)

AtMostTwo == \A p, q, r \in Pids : p = q \/ q = r \/ p = r

Named(p) == holder[p].at \in {"created", "named"}
Reaching(p) == holder[p].at \in {"opened", "locked", "accepted"}
Names(f, p) == claim[f].pid = p

Stages == {"out", "exists", "created", "named", "opened", "locked", "accepted", "owner",
           "closed", "unlinking"}

Holding == [at : Stages, file : Nat]

HoldersTyped ==
  /\ holder \in [Pids -> Holding]
  /\ \A p \in Pids : holder[p].at \notin {"out", "exists"} => holder[p].file \in Files
  /\ \A p \in Pids : ~alive[p] => holder[p] = Out

ClaimTyped ==
  /\ \E n \in Nat : Files = 1 .. n
  /\ path \in Files \cup {0}
  /\ \A f \in Files : claim[f] = Empty \/ claim[f].pid \in Pids
  /\ alive \in [Pids -> BOOLEAN]
  /\ HoldersTyped

\* What p may rely on while q is the only other process.
Relies(p, q) ==
  /\ Named(p) => ~Named(q) /\ path = holder[p].file /\ claim[path] = Empty
  /\ alive[q] =>
       /\ Reaching(p) /\ Names(holder[p].file, p) => path = holder[p].file
       /\ holder[p].at = "accepted" => Names(holder[p].file, p)
       /\ holder[p].at = "owner" => path = holder[p].file /\ Names(path, p)
       /\ holder[p].at = "unlinking" => path # 0 /\ Names(path, p)

ClaimInv == ClaimTyped /\ \A p, q \in Pids : p # q => Relies(p, q)

LEMMA ClaimInvInit == ClaimInit => ClaimInv
<1> SUFFICES ASSUME ClaimInit PROVE ClaimInv
  OBVIOUS
<1>1. Files = 1 .. 0
  BY DEF ClaimInit, Files
<1>2. ClaimTyped
  BY <1>1 DEF ClaimInit, ClaimTyped, HoldersTyped, Holding, Out, Stages
<1>3. \A p \in Pids : holder[p].at = "out"
  BY DEF ClaimInit, Out
<1> QED
  BY <1>2, <1>3 DEF ClaimInv, Relies, Named, Reaching

\* Where a step leaves the process that takes it.
LEMMA HolderMoves ==
  ASSUME HoldersTyped, NEW p \in Pids
  PROVE  /\ holder[p] \in Holding /\ Out \in Holding
         /\ \A at : Step(p, at) =>
              holder' = [holder EXCEPT ![p] = [at |-> at, file |-> holder[p].file]]
  BY DEF HoldersTyped, Holding, Out, Stages, Step

LEMMA HoldersTypedStep ==
  ASSUME HoldersTyped, alive \in [Pids -> BOOLEAN], NEW p \in Pids,
         NEW h \in Holding, holder' = [holder EXCEPT ![p] = h],
         Files \subseteq Files', h.at \notin {"out", "exists"} => h.file \in Files',
         \/ alive[p] /\ alive' = alive
         \/ h = Out /\ alive' = [alive EXCEPT ![p] = FALSE]
  PROVE  HoldersTyped'
<1>1. holder' \in [Pids -> Holding]
  BY DEF HoldersTyped
<1>2. \A q \in Pids : holder'[q].at \notin {"out", "exists"} => holder'[q].file \in Files'
  BY DEF HoldersTyped
<1>3. \A q \in Pids : ~alive'[q] => holder'[q] = Out
  BY DEF HoldersTyped
<1> QED
  BY <1>1, <1>2, <1>3 DEF HoldersTyped

LEMMA ClaimTypedStep ==
  ASSUME ClaimTyped, NEW p \in Pids, ClaimStep(p)
  PROVE  ClaimTyped'
<1>0. HoldersTyped /\ alive \in [Pids -> BOOLEAN]
  BY DEF ClaimTyped
<1>1. holder[p] \in Holding /\ Out \in Holding /\ holder[p].file \in Nat
  BY <1>0, HolderMoves DEF Holding
<1>2. PICK n \in Nat : Files = 1 .. n
  BY DEF ClaimTyped
<1>3. n = Cardinality(Files) /\ 0 \notin Files /\ Files \subseteq Nat
  BY <1>2, FS_Interval
<1>4. holder[p].at \notin {"out", "exists"} => holder[p].file \in Files
  BY <1>0 DEF HoldersTyped
<1>5. \A at : Step(p, at) =>
        holder' = [holder EXCEPT ![p] = [at |-> at, file |-> holder[p].file]]
  BY <1>0, HolderMoves
<1>6. CASE CreateNew(p) /\ path = 0
  <2> DEFINE f == Cardinality(Files) + 1
             h == [at |-> "created", file |-> f]
  <2>1. /\ claim' = [g \in Files \cup {f} |-> IF g = f THEN Empty ELSE claim[g]]
        /\ path' = f /\ f = n + 1 /\ f \in Nat
        /\ holder' = [holder EXCEPT ![p] = h] /\ alive' = alive /\ alive[p]
    BY <1>3, <1>6 DEF CreateNew, At
  <2>2. Files' = 1 .. (n + 1) /\ Files' = Files \cup {f}
    BY <1>2, <2>1 DEF Files
  <2>3. \A g \in Files' : claim'[g] = Empty \/ claim'[g].pid \in Pids
    BY <2>1, <2>2 DEF ClaimTyped
  <2>4. h \in Holding /\ h.file = f
    BY <2>1 DEF Holding, Stages
  <2>5. HoldersTyped'
    <3> HIDE DEF h, f
    <3> QED
      BY <1>0, <2>1, <2>2, <2>4, HoldersTypedStep
  <2> QED
    BY <1>0, <1>2, <2>1, <2>2, <2>3, <2>5 DEF ClaimTyped
<1>7. ASSUME NEW h \in Holding, holder' = [holder EXCEPT ![p] = h],
             h.at \notin {"out", "exists"} => h.file \in Files,
             \/ alive[p] /\ alive' = alive
             \/ h = Out /\ alive' = [alive EXCEPT ![p] = FALSE],
             path' \in Files \cup {0}, Files' = Files,
             \A f \in Files : claim'[f] = claim[f] \/ claim'[f] = Empty \/ claim'[f].pid \in Pids
      PROVE  ClaimTyped'
  <2>1. HoldersTyped'
    BY <1>0, <1>7, HoldersTypedStep
  <2>2. \A f \in Files' : claim'[f] = Empty \/ claim'[f].pid \in Pids
    BY <1>7 DEF ClaimTyped, Empty
  <2>3. alive' \in [Pids -> BOOLEAN]
    BY <1>0, <1>7
  <2> QED
    BY <1>2, <1>7, <2>1, <2>2, <2>3 DEF ClaimTyped
<1>8. Out.at = "out" /\ path \in Files \cup {0}
  BY DEF Out, ClaimTyped
<1>9. CASE CreateNew(p) /\ path # 0
  <2>1. [at |-> "exists", file |-> holder[p].file] \in Holding
    BY <1>1 DEF Holding, Stages
  <2> QED
    BY <1>5, <1>7, <1>8, <1>9, <2>1 DEF CreateNew, At, Files
<1>10. CASE LockNew(p)
  <2>1. [at |-> "named", file |-> holder[p].file] \in Holding /\ holder[p].file \in Files
    BY <1>1, <1>4, <1>10 DEF Holding, Stages, LockNew, At
  <2>2. CASE LockFree(holder[p].file)
    BY <1>5, <1>7, <1>8, <1>10, <2>1, <2>2 DEF LockNew, At, Files
  <2>3. CASE ~LockFree(holder[p].file)
    BY <1>1, <1>7, <1>8, <1>10, <2>1, <2>3 DEF LockNew, At, Files, GiveUp
  <2> QED
    BY <2>2, <2>3
<1>11. CASE WriteNew(p) \/ Retake(p)
  <2>1. /\ holder[p].file \in Files /\ Token(p).pid = p /\ alive[p] /\ alive' = alive
        /\ [at |-> "owner", file |-> holder[p].file] \in Holding
    BY <1>1, <1>4, <1>11 DEF Holding, Stages, WriteNew, Retake, At, Token
  <2>2. /\ Files' = Files /\ path' \in Files \cup {0}
        /\ \A f \in Files : claim'[f] = claim[f] \/ claim'[f] = Empty \/ claim'[f].pid = p
    BY <1>8, <1>11, <2>1 DEF WriteNew, Retake, Files
  <2>3. \A f \in Files : claim'[f] = claim[f] \/ claim'[f] = Empty \/ claim'[f].pid \in Pids
    BY <2>2
  <2>4. CASE Step(p, "owner")
    BY <1>5, <1>7, <2>1, <2>2, <2>3, <2>4
  <2>5. CASE GiveUp(p)
    BY <1>1, <1>7, <1>8, <2>1, <2>2, <2>3, <2>5 DEF GiveUp
  <2> QED
    BY <1>11, <2>4, <2>5 DEF WriteNew, Retake
<1>12. CASE OpenExisting(p)
  <2>1. path # 0 => [at |-> "opened", file |-> path] \in Holding /\ path \in Files
    BY <1>3, <1>8 DEF Holding, Stages
  <2>2. CASE path = 0
    BY <1>1, <1>7, <1>8, <1>12, <2>2 DEF OpenExisting, At, Files, GiveUp
  <2>3. CASE path # 0
    BY <1>7, <1>8, <1>12, <2>1, <2>3 DEF OpenExisting, At, Files
  <2> QED
    BY <2>2, <2>3
<1>13. CASE LockExisting(p) \/ Inspect(p) \/ CloseHandle(p) \/ Compare(p)
  <2>1. /\ holder[p].file \in Files /\ alive[p] /\ alive' = alive /\ claim' = claim
        /\ path' = path /\ Files' = Files
    BY <1>4, <1>13 DEF LockExisting, Inspect, CloseHandle, Compare, At, Files
  <2>2. \A at \in Stages : [at |-> at, file |-> holder[p].file] \in Holding
    BY <1>1 DEF Holding
  <2>3. {"locked", "accepted", "closed", "unlinking"} \subseteq Stages
    BY DEF Stages
  <2>4. \A at \in Stages : Step(p, at) => ClaimTyped'
    BY <1>5, <1>7, <1>8, <2>1, <2>2
  <2>5. GiveUp(p) => ClaimTyped'
    BY <1>1, <1>7, <1>8, <2>1 DEF GiveUp
  <2> QED
    BY <1>13, <2>3, <2>4, <2>5 DEF LockExisting, Inspect, CloseHandle, Compare
<1>14. CASE Unlink(p) \/ Exit(p)
  BY <1>1, <1>7, <1>8, <1>14 DEF Unlink, Exit, At, Files, GiveUp
<1> QED
  BY <1>6, <1>9, <1>10, <1>11, <1>12, <1>13, <1>14 DEF ClaimStep

\* One process moves, and both can rely on what they could before.
LEMMA ReliesStep ==
  ASSUME AtMostTwo, ClaimTyped, NEW p \in Pids, NEW q \in Pids, p # q,
         Relies(p, q), Relies(q, p), ClaimStep(p)
  PROVE  Relies(p, q)' /\ Relies(q, p)'
<1>0. /\ HoldersTyped /\ "none" \notin Pids /\ Empty.pid = "none"
      /\ Out.at = "out" /\ path \in Files \cup {0}
  BY ClaimConstants DEF ClaimTyped, Empty, Out
<1>1. /\ holder \in [Pids -> Holding] /\ alive \in [Pids -> BOOLEAN]
      /\ holder[q].at # "out" => alive[q]
  BY <1>0 DEF HoldersTyped, ClaimTyped
<1>2. /\ \A at : Step(p, at) => /\ holder'[p].at = at /\ holder'[p].file = holder[p].file
                                /\ holder'[q] = holder[q]
      /\ GiveUp(p) => holder'[p] = Out /\ holder'[q] = holder[q]
  BY <1>0, <1>1, HolderMoves DEF GiveUp
<1>3. 0 \notin Files
  <2>1. PICK n \in Nat : Files = 1 .. n
    BY DEF ClaimTyped
  <2> QED
    BY <2>1
<1>4. \A r \in Pids : holder[r].at \notin {"out", "exists"} => holder[r].file \in Files
  BY <1>0 DEF HoldersTyped
<1> USE DEF Relies, Named, Reaching, Names
<1>5. CASE CreateNew(p) /\ path = 0
  <2> DEFINE f == Cardinality(Files) + 1
  <2>1. f \notin Files
    <3>1. PICK n \in Nat : Files = 1 .. n
      BY DEF ClaimTyped
    <3> QED
      BY <3>1, FS_Interval
  <2>2. /\ path' = f /\ claim'[f] = Empty /\ \A g \in Files : claim'[g] = claim[g]
        /\ holder'[p].at = "created" /\ holder'[p].file = f /\ holder'[q] = holder[q]
        /\ alive' = alive
    BY <1>1, <1>5, <2>1 DEF CreateNew
  <2> HIDE DEF f
  <2>3. Reaching(q) => holder[q].file \in Files /\ ~Names(holder[q].file, q)
    BY <1>1, <1>3, <1>4, <1>5 DEF CreateNew, At
  <2>4. holder[q].at \notin {"created", "named", "owner", "unlinking", "accepted"}
    BY <1>1, <1>3, <1>4, <1>5, <2>3 DEF CreateNew, At
  <2>5. Relies(p, q)'
    BY <2>2, <2>4
  <2>6. Relies(q, p)'
    BY <2>2, <2>3, <2>4
  <2> QED
    BY <2>5, <2>6
<1>6. CASE CreateNew(p) /\ path # 0
  BY <1>2, <1>6 DEF CreateNew
<1>7. CASE LockNew(p)
  <2>1. /\ alive' = alive /\ claim' = claim /\ alive[p]
        /\ path = holder[p].file /\ claim[path] = Empty /\ ~Named(q)
        /\ ~Names(path, p) /\ ~Names(path, q)
    BY <1>0, <1>7 DEF LockNew, At
  <2>2. CASE LockFree(holder[p].file)
    BY <1>2, <1>7, <2>1, <2>2 DEF LockNew
  <2>3. CASE ~LockFree(holder[p].file)
    BY <1>0, <1>1, <1>2, <1>7, <2>1, <2>3 DEF LockNew
  <2> QED
    BY <2>2, <2>3
<1>8. CASE WriteNew(p)
  <2>1. /\ alive' = alive /\ alive[p] /\ holder'[q] = holder[q]
        /\ path = holder[p].file /\ path \in Files /\ claim[path] = Empty /\ ~Named(q)
        /\ ~Names(path, p) /\ ~Names(path, q)
    BY <1>0, <1>2, <1>4, <1>8 DEF WriteNew, At
  <2>2. CASE Step(p, "owner")
    <3>1. /\ path' = path /\ claim'[path].pid = p
          /\ \A f \in Files : f # path => claim'[f] = claim[f]
      BY <1>0, <1>2, <1>8, <2>1, <2>2 DEF WriteNew, Token, GiveUp, Files
    <3> QED
      BY <1>1, <1>2, <1>4, <2>1, <2>2, <3>1
  <2>3. CASE GiveUp(p)
    <3>1. path' = 0 /\ claim' = claim
      BY <1>0, <1>2, <1>8, <2>1, <2>3 DEF WriteNew
    <3> QED
      BY <1>0, <1>1, <1>2, <1>4, <2>1, <2>3, <3>1
  <2> QED
    BY <1>8, <2>2, <2>3 DEF WriteNew
<1>9. CASE OpenExisting(p)
  BY <1>0, <1>1, <1>2, <1>9 DEF OpenExisting
<1>10. CASE LockExisting(p)
  BY <1>0, <1>2, <1>10 DEF LockExisting, At
<1>11. CASE Inspect(p)
  <2>1. /\ alive' = alive /\ claim' = claim /\ path' = path /\ holder'[q] = holder[q]
        /\ holder[p].at = "locked" /\ holder[p].file \in Files
    BY <1>2, <1>4, <1>11 DEF Inspect, At
  <2>2. CASE GiveUp(p)
    BY <1>0, <1>2, <2>1, <2>2
  <2>3. CASE Step(p, "accepted") /\ ~GiveUp(p)
    <3>1. /\ claim[holder[p].file] # Empty
          /\ claim[holder[p].file].pid = p \/ ~alive[claim[holder[p].file].pid]
      BY <1>11, <2>3 DEF Inspect
    <3>2. claim[holder[p].file].pid \in {p, q}
      BY <2>1, <3>1 DEF ClaimTyped, AtMostTwo
    <3> QED
      BY <1>2, <2>1, <2>3, <3>1, <3>2
  <2> QED
    BY <1>11, <2>2, <2>3 DEF Inspect
<1>12. CASE Retake(p)
  <2>1. /\ alive' = alive /\ alive[p] /\ path' = path /\ holder'[q] = holder[q]
        /\ holder[p].at = "accepted" /\ holder[p].file \in Files
        /\ alive[q] => path = holder[p].file /\ Names(path, p) /\ ~Named(q)
    BY <1>0, <1>2, <1>4, <1>12 DEF Retake, At
  <2>2. /\ \A f \in Files : f # holder[p].file => claim'[f] = claim[f]
        /\ \/ Step(p, "owner") /\ claim'[holder[p].file].pid = p
           \/ GiveUp(p) /\ claim'[holder[p].file].pid = "none"
    BY <1>0, <1>12, <2>1 DEF Retake, Token, Files
  <2>3. CASE alive[q]
    BY <1>0, <1>1, <1>2, <1>4, <2>1, <2>2, <2>3
  <2>4. CASE ~alive[q]
    BY <1>0, <1>1, <1>2, <2>1, <2>2, <2>4
  <2> QED
    BY <2>3, <2>4
<1>13. CASE CloseHandle(p)
  BY <1>2, <1>13 DEF CloseHandle
<1>14. CASE Compare(p)
  BY <1>0, <1>2, <1>14 DEF Compare, Token, At
<1>15. CASE Unlink(p)
  <2>1. /\ alive' = alive /\ alive[p] /\ claim' = claim /\ path' \in {0, path}
        /\ holder'[q] = holder[q] /\ holder'[p] = Out
        /\ alive[q] => path # 0 /\ Names(path, p)
    BY <1>2, <1>15 DEF Unlink, At
  <2> QED
    BY <1>0, <1>1, <1>4, <2>1
<1>16. CASE Exit(p)
  BY <1>0, <1>1, <1>2, <1>16 DEF Exit, At
<1> QED
  BY <1>5, <1>6, <1>7, <1>8, <1>9, <1>10, <1>11, <1>12, <1>13, <1>14, <1>15, <1>16
  DEF ClaimStep

\* Of the processes that open one history directory, when they are two at
\* most, only one at a time owns it: whatever files the name history.lock has
\* stood for, whichever of the two exits at whatever step, and however often
\* each opens the store.
THEOREM OneOfTwoWrites == ASSUME AtMostTwo PROVE ClaimSpec => []OneWriter
<1>1. ClaimInv /\ [ClaimNext]_claimVars => ClaimInv'
  <2>1. CASE UNCHANGED claimVars
    BY <2>1 DEF claimVars, ClaimInv, ClaimTyped, HoldersTyped, Relies, Named, Reaching,
       Names, Files
  <2>2. ASSUME ClaimInv, NEW p \in Pids, ClaimStep(p) PROVE ClaimInv'
    <3>1. \A q, r \in Pids : q # r => q = p \/ r = p
      BY DEF AtMostTwo
    <3>2. \A q \in Pids : p # q => Relies(p, q)' /\ Relies(q, p)'
      BY <2>2, ReliesStep DEF ClaimInv
    <3> QED
      BY <2>2, <3>1, <3>2, ClaimTypedStep DEF ClaimInv
  <2> QED
    BY <2>1, <2>2 DEF ClaimNext
<1>2. ClaimInv => OneWriter
  BY DEF ClaimInv, Relies, Names, OneWriter, At
<1> QED
  BY <1>1, <1>2, ClaimInvInit, PTL DEF ClaimSpec

-----------------------------------------------------------------------------
(***************************************************************************)
(* Positions.  Select keeps what it is told to keep, once each and in      *)
(* order: the ranks of a finite set of positions are 1, 2, ... up to its   *)
(* cardinality.                                                            *)
(***************************************************************************)

LEMMA RankOrder ==
  ASSUME NEW S, S \subseteq Nat, IsFiniteSet(S)
  PROVE  /\ \A i \in S : Rank(S, i) \in 1 .. Cardinality(S)
         /\ \A i, j \in S : i < j => Rank(S, i) < Rank(S, j)
<1> DEFINE UpTo(i) == {j \in S : j <= i}
<1>1. \A i \in S : /\ IsFiniteSet(UpTo(i)) /\ Rank(S, i) = Cardinality(UpTo(i))
                   /\ Rank(S, i) \in Nat /\ Rank(S, i) <= Cardinality(S)
  BY FS_Subset, FS_CardinalityType DEF Rank
<1>2. ASSUME NEW i \in S PROVE Rank(S, i) # 0
  <2>1. i \in UpTo(i)
    OBVIOUS
  <2> QED
    BY <1>1, <2>1, FS_EmptySet
<1>3. ASSUME NEW i \in S, NEW j \in S, i < j PROVE Rank(S, i) < Rank(S, j)
  <2>0. i \in Nat /\ j \in Nat /\ \A x \in S : x \in Nat
    OBVIOUS
  <2>1. UpTo(i) \in SUBSET UpTo(j) /\ j \in UpTo(j) /\ j \notin UpTo(i)
    <3>1. \A x \in S : x <= i => x <= j
      BY <1>3, <2>0
    <3>2. j <= j /\ ~(j <= i)
      BY <1>3, <2>0
    <3> QED
      BY <3>1, <3>2, Zenon
  <2>2. UpTo(i) # UpTo(j)
    BY <2>1
  <2> HIDE DEF UpTo
  <2>3. Cardinality(UpTo(i)) <= Cardinality(UpTo(j)) /\ Cardinality(UpTo(i)) # Cardinality(UpTo(j))
    BY <1>1, <2>1, <2>2, FS_Subset
  <2> QED
    BY <1>1, <2>3
<1>4. Cardinality(S) \in Nat
  BY FS_CardinalityType
<1> HIDE DEF UpTo
<1> QED
  BY <1>1, <1>2, <1>3, <1>4

LEMMA NthOrder ==
  ASSUME NEW S, S \subseteq Nat, IsFiniteSet(S)
  PROVE  /\ \A n \in 1 .. Cardinality(S) : Nth(S, n) \in S /\ Rank(S, Nth(S, n)) = n
         /\ \A i \in S : Nth(S, Rank(S, i)) = i
         /\ \A m, n \in 1 .. Cardinality(S) : m < n => Nth(S, m) < Nth(S, n)
<1> DEFINE c == Cardinality(S)
           f == [i \in S |-> Rank(S, i)]
<1>1. c \in Nat /\ IsFiniteSet(1 .. c) /\ Cardinality(1 .. c) = c
  BY FS_CardinalityType, FS_Interval
<1>2. /\ \A i \in S : Rank(S, i) \in 1 .. c
      /\ \A i, j \in S : i < j => Rank(S, i) < Rank(S, j)
  BY RankOrder
<1>3. \A i, j \in S : Rank(S, i) = Rank(S, j) => i = j
  BY <1>1, <1>2
<1>4. f \in Injection(S, 1 .. c)
  BY <1>2, <1>3 DEF Injection, IsInjective
<1>5. f \in Surjection(S, 1 .. c)
  BY <1>1, <1>4, FS_Injection
<1>6. \A n \in 1 .. c : \E i \in S : Rank(S, i) = n
  BY <1>5 DEF Surjection
<1>7. \A n \in 1 .. c : Nth(S, n) \in S /\ Rank(S, Nth(S, n)) = n
  BY <1>6 DEF Nth
<1>8. \A i \in S : Nth(S, Rank(S, i)) = i
  BY <1>2, <1>3, <1>7
<1>9. \A m, n \in 1 .. c : m < n => Nth(S, m) < Nth(S, n)
  <2> SUFFICES ASSUME NEW m \in 1 .. c, NEW n \in 1 .. c, m < n
               PROVE  Nth(S, m) < Nth(S, n)
    OBVIOUS
  <2> DEFINE i == Nth(S, m)
             j == Nth(S, n)
  <2>1. i \in S /\ j \in S /\ Rank(S, i) = m /\ Rank(S, j) = n
    BY <1>7
  <2> HIDE DEF i, j
  <2>2. ~(j < i) /\ i # j
    BY <1>1, <1>2, <2>1
  <2>3. i \in Nat /\ j \in Nat
    BY <2>1
  <2>4. i < j
    BY <2>2, <2>3
  <2> QED
    BY <2>4 DEF i, j
<1> QED
  BY <1>7, <1>8, <1>9

\* There are k of the k first.
LEMMA FirstCount ==
  ASSUME NEW S, S \subseteq Nat, IsFiniteSet(S), NEW k \in 0 .. Cardinality(S)
  PROVE  Cardinality({i \in S : Rank(S, i) <= k}) = k
<1> DEFINE first == {i \in S : Rank(S, i) <= k}
           f == [n \in 1 .. k |-> Nth(S, n)]
<1>1. /\ Cardinality(S) \in Nat /\ k \in Nat /\ k <= Cardinality(S)
      /\ IsFiniteSet(1 .. k) /\ Cardinality(1 .. k) = k
  BY FS_CardinalityType, FS_Interval
<1>2. /\ \A n \in 1 .. k : Nth(S, n) \in S /\ Rank(S, Nth(S, n)) = n
      /\ \A i \in S : Nth(S, Rank(S, i)) = i /\ Rank(S, i) \in 1 .. Cardinality(S)
  <2>1. \A n \in 1 .. k : n \in 1 .. Cardinality(S)
    BY <1>1
  <2> QED
    BY <2>1, NthOrder, RankOrder
<1>3. f \in [1 .. k -> first]
  BY <1>1, <1>2
<1>4. \A m, n \in 1 .. k : f[m] = f[n] => m = n
  BY <1>2
<1>5. \A i \in first : \E n \in 1 .. k : f[n] = i
  BY <1>1, <1>2
<1>6. f \in Bijection(1 .. k, first)
  BY <1>3, <1>4, <1>5 DEF Bijection, Injection, Surjection, IsInjective
<1> HIDE DEF f, first
<1> QED
  BY <1>1, <1>6, FS_Bijection DEF ExistsBijection, first

Entries == [series : Series, revision : Nat \ {0}, taken : BOOLEAN]

LEMMA DomainCount ==
  ASSUME NEW E, NEW b \in Seq(E)
  PROVE  IsFiniteSet(DOMAIN b) /\ Cardinality(DOMAIN b) = Len(b)
<1>1. Len(b) \in Nat /\ DOMAIN b = 1 .. Len(b)
  BY LenProperties
<1>2. IsFiniteSet(1 .. Len(b)) /\ Cardinality(1 .. Len(b)) = Len(b)
  <2>1. Len(b) \in Nat
    BY <1>1
  <2> QED
    BY <2>1, FS_Interval
<1> QED
  BY <1>1, <1>2

LEMMA SelectIs ==
  ASSUME NEW b \in Seq(Entries), NEW keep \in SUBSET DOMAIN b
  PROVE  /\ IsFiniteSet(keep) /\ keep \subseteq Nat /\ Cardinality(keep) \in Nat
         /\ Select(b, keep) \in Seq(Entries) /\ Len(Select(b, keep)) = Cardinality(keep)
         /\ DOMAIN Select(b, keep) = 1 .. Cardinality(keep)
         /\ \A n \in DOMAIN Select(b, keep) :
              Nth(keep, n) \in keep /\ Select(b, keep)[n] = b[Nth(keep, n)]
         /\ \A m, n \in DOMAIN Select(b, keep) : m < n => Nth(keep, m) < Nth(keep, n)
         /\ \A i \in keep :
              Rank(keep, i) \in DOMAIN Select(b, keep) /\ Nth(keep, Rank(keep, i)) = i
<1> DEFINE c == Cardinality(keep)
<1>1. /\ DOMAIN b = 1 .. Len(b) /\ Len(b) \in Nat /\ \A i \in DOMAIN b : b[i] \in Entries
  BY LenProperties, ElementOfSeq
<1>2. IsFiniteSet(keep) /\ keep \subseteq Nat /\ c \in Nat
  <2>1. IsFiniteSet(DOMAIN b)
    BY <1>1, FS_Interval
  <2>2. IsFiniteSet(keep)
    BY <2>1, FS_Subset
  <2> QED
    BY <1>1, <2>2, FS_CardinalityType
<1>3. /\ \A n \in 1 .. c : Nth(keep, n) \in keep
      /\ \A i \in keep : Nth(keep, Rank(keep, i)) = i /\ Rank(keep, i) \in 1 .. c
      /\ \A m, n \in 1 .. c : m < n => Nth(keep, m) < Nth(keep, n)
  BY <1>2, NthOrder, RankOrder
<1>4. Select(b, keep) = [n \in 1 .. c |-> b[Nth(keep, n)]]
  BY DEF Select
<1>5. \A n \in 1 .. c : b[Nth(keep, n)] \in Entries
  BY <1>1, <1>3
<1> HIDE DEF c
<1>6. Select(b, keep) \in Seq(Entries)
  BY <1>2, <1>4, <1>5, IsASeq
<1>7. DOMAIN Select(b, keep) = 1 .. c /\ Len(Select(b, keep)) = c
  BY <1>2, <1>4, <1>6, LenProperties
<1> QED
  BY <1>2, <1>3, <1>4, <1>6, <1>7 DEF c

LEMMA SelectCount ==
  ASSUME NEW b \in Seq(Entries), NEW keep \in SUBSET DOMAIN b, NEW T \in SUBSET keep
  PROVE  Cardinality({n \in DOMAIN Select(b, keep) : Nth(keep, n) \in T}) = Cardinality(T)
<1> DEFINE D == {n \in DOMAIN Select(b, keep) : Nth(keep, n) \in T}
           f == [n \in D |-> Nth(keep, n)]
<1>1. /\ Cardinality(keep) \in Nat /\ DOMAIN Select(b, keep) = 1 .. Cardinality(keep)
      /\ keep \subseteq Nat
      /\ \A n \in DOMAIN Select(b, keep) : Nth(keep, n) \in keep
      /\ \A m, n \in DOMAIN Select(b, keep) : m < n => Nth(keep, m) < Nth(keep, n)
      /\ \A i \in keep :
           Rank(keep, i) \in DOMAIN Select(b, keep) /\ Nth(keep, Rank(keep, i)) = i
  BY SelectIs
<1>2. f \in [D -> T] /\ \A i \in T : \E n \in D : f[n] = i
  BY <1>1
<1>3. \A m, n \in D : f[m] = f[n] => m = n
  BY <1>1
<1>4. f \in Bijection(D, T)
  BY <1>2, <1>3 DEF Bijection, Injection, Surjection, IsInjective
<1>5. IsFiniteSet(D)
  <2>1. IsFiniteSet(1 .. Cardinality(keep)) /\ D \in SUBSET (1 .. Cardinality(keep))
    BY <1>1, FS_Interval
  <2> QED
    BY <2>1, FS_Subset
<1> HIDE DEF f, D
<1> QED
  BY <1>4, <1>5, FS_Bijection DEF ExistsBijection, D

-----------------------------------------------------------------------------
(***************************************************************************)
(* The buffer and its counters.                                            *)
(***************************************************************************)

OfSeries(b, s) == {i \in DOMAIN b : b[i].series = s}
Bytes(b) == Cardinality(Pending(b)) * SampleBytes + Cardinality(PendingSeries(b)) * KeyBytes

\* What Drop leaves.
Kept(b, k) == DOMAIN b \ {i \in Pending(b) : Rank(Pending(b), i) <= k}

LEMMA PendingIsFinite ==
  ASSUME NEW b \in Seq(Entries)
  PROVE  /\ Pending(b) \subseteq DOMAIN b /\ DOMAIN b = 1 .. Len(b) /\ Len(b) \in Nat
         /\ IsFiniteSet(Pending(b)) /\ Cardinality(Pending(b)) \in Nat
         /\ PendingSeries(b) \subseteq Series
         /\ IsFiniteSet(PendingSeries(b)) /\ Cardinality(PendingSeries(b)) \in Nat
         /\ \A s \in Series : IsFiniteSet(OfSeries(b, s))
         /\ Bytes(b) \in Nat
<1>1. /\ Pending(b) \in SUBSET DOMAIN b /\ DOMAIN b = 1 .. Len(b) /\ Len(b) \in Nat
      /\ \A i \in DOMAIN b : b[i] \in Entries
  BY LenProperties, ElementOfSeq DEF Pending
<1>2. IsFiniteSet(DOMAIN b)
  BY <1>1, FS_Interval
<1>3. IsFiniteSet(Pending(b)) /\ Cardinality(Pending(b)) \in Nat
  BY <1>1, <1>2, FS_Subset, FS_CardinalityType
<1>4. PendingSeries(b) \subseteq Series
  BY <1>1 DEF PendingSeries, Entries
<1>5. IsFiniteSet(PendingSeries(b)) /\ Cardinality(PendingSeries(b)) \in Nat
  <2> DEFINE f == [i \in Pending(b) |-> b[i].series]
  <2>1. f \in Surjection(Pending(b), PendingSeries(b))
    BY DEF Surjection, PendingSeries
  <2> HIDE DEF f
  <2>2. IsFiniteSet(PendingSeries(b))
    BY <1>3, <2>1, FS_Surjection
  <2> QED
    BY <2>2, FS_CardinalityType
<1>6. \A s \in Series : OfSeries(b, s) \in SUBSET DOMAIN b
  BY DEF OfSeries
<1>7. \A s \in Series : IsFiniteSet(OfSeries(b, s))
  BY <1>2, <1>6, FS_Subset
<1>8. Bytes(b) \in Nat
  BY <1>3, <1>5, HistoryConstants DEF Bytes
<1> QED
  BY <1>1, <1>3, <1>4, <1>5, <1>7, <1>8

\* What is pending of a selection is what was pending of what it keeps.
LEMMA PendingOfSelect ==
  ASSUME NEW b \in Seq(Entries), NEW keep \in SUBSET DOMAIN b
  PROVE  /\ Pending(Select(b, keep)) =
              {n \in DOMAIN Select(b, keep) : Nth(keep, n) \in Pending(b) \cap keep}
         /\ Cardinality(Pending(Select(b, keep))) = Cardinality(Pending(b) \cap keep)
         /\ PendingSeries(Select(b, keep)) = {b[i].series : i \in Pending(b) \cap keep}
<1> DEFINE c == Select(b, keep)
<1>1. /\ \A n \in DOMAIN c : Nth(keep, n) \in keep /\ c[n] = b[Nth(keep, n)]
      /\ \A i \in keep : Rank(keep, i) \in DOMAIN c /\ Nth(keep, Rank(keep, i)) = i
  BY SelectIs
<1> HIDE DEF c
<1>2. Pending(c) = {n \in DOMAIN c : Nth(keep, n) \in Pending(b) \cap keep}
  BY <1>1 DEF Pending
<1>3. Cardinality(Pending(c)) = Cardinality(Pending(b) \cap keep)
  <2> DEFINE T == Pending(b) \cap keep
  <2>1. T \in SUBSET keep
    OBVIOUS
  <2> HIDE DEF T
  <2>2. Cardinality({n \in DOMAIN Select(b, keep) : Nth(keep, n) \in T}) = Cardinality(T)
    BY <2>1, SelectCount
  <2> QED
    BY <1>2, <2>2 DEF c, T
<1>4. PendingSeries(c) = {b[i].series : i \in Pending(b) \cap keep}
  <2>1. \A n \in Pending(c) : c[n] = b[Nth(keep, n)] /\ Nth(keep, n) \in Pending(b) \cap keep
    BY <1>1, <1>2
  <2>2. \A i \in Pending(b) \cap keep : \E n \in Pending(c) : c[n] = b[i]
    BY <1>1, <1>2
  <2> QED
    BY <2>1, <2>2 DEF PendingSeries
<1> QED
  BY <1>2, <1>3, <1>4 DEF c

LEMMA DropIs ==
  ASSUME NEW b \in Seq(Entries), NEW k \in 0 .. Cardinality(Pending(b))
  PROVE  /\ Drop(b, k) = Select(b, Kept(b, k))
         /\ Kept(b, k) \in SUBSET DOMAIN b
         /\ DOMAIN b \ Kept(b, k) \subseteq Pending(b)
         /\ Drop(b, k) \in Seq(Entries)
         /\ Len(Drop(b, k)) = Len(b) - k
         /\ Cardinality(Pending(Drop(b, k))) = Cardinality(Pending(b)) - k
         /\ PendingSeries(Drop(b, k)) \subseteq PendingSeries(b)
         /\ Cardinality(Emptied(b, k)) =
              Cardinality(PendingSeries(b)) - Cardinality(PendingSeries(Drop(b, k)))
<1> DEFINE p == Pending(b)
           oldest == {i \in p : Rank(p, i) <= k}
           keep == Kept(b, k)
<1>1. /\ p \subseteq DOMAIN b /\ DOMAIN b = 1 .. Len(b) /\ Len(b) \in Nat
      /\ IsFiniteSet(p) /\ Cardinality(p) \in Nat /\ p \subseteq Nat
      /\ IsFiniteSet(PendingSeries(b)) /\ Cardinality(PendingSeries(b)) \in Nat
  BY PendingIsFinite
<1>2. Drop(b, k) = Select(b, keep) /\ keep \in SUBSET DOMAIN b /\ DOMAIN b \ keep \subseteq p
  <2>1. Drop(b, k) = Select(b, keep)
    BY DEF Drop, Kept
  <2>2. keep \in SUBSET DOMAIN b /\ DOMAIN b \ keep \subseteq p
    BY DEF Kept
  <2> QED
    BY <2>1, <2>2
<1>3. Cardinality(oldest) = k
  BY <1>1, FirstCount
<1>4. keep = DOMAIN b \ oldest /\ p \cap keep = p \ oldest
  BY <1>1 DEF Kept
<1>5. DOMAIN b \cap oldest = oldest /\ p \cap oldest = oldest
  BY <1>1
<1> HIDE DEF p, oldest, keep
<1>6. Cardinality(keep) = Len(b) - k
  <2>1. IsFiniteSet(DOMAIN b) /\ Cardinality(DOMAIN b) = Len(b)
    BY DomainCount
  <2> QED
    BY <1>3, <1>4, <1>5, <2>1, FS_Difference
<1>7. Cardinality(p \cap keep) = Cardinality(p) - k
  <2>1. Cardinality(p \ oldest) = Cardinality(p) - Cardinality(p \cap oldest)
    BY <1>1, FS_Difference
  <2> QED
    BY <1>3, <1>4, <1>5, <2>1
<1>8. Drop(b, k) \in Seq(Entries) /\ Len(Drop(b, k)) = Len(b) - k
  BY <1>2, <1>6, SelectIs
<1>9. Cardinality(Pending(Drop(b, k))) = Cardinality(p) - k
  BY <1>2, <1>7, PendingOfSelect DEF p
<1>10. PendingSeries(Drop(b, k)) \subseteq PendingSeries(b)
  <2>1. PendingSeries(Drop(b, k)) = {b[i].series : i \in Pending(b) \cap keep}
    BY <1>2, PendingOfSelect
  <2> QED
    BY <2>1 DEF PendingSeries
<1>11. Cardinality(Emptied(b, k)) =
         Cardinality(PendingSeries(b)) - Cardinality(PendingSeries(Drop(b, k)))
  <2>1. PendingSeries(b) \cap PendingSeries(Drop(b, k)) = PendingSeries(Drop(b, k))
    BY <1>10
  <2> QED
    BY <1>1, <2>1, FS_Difference DEF Emptied
<1> QED
  BY <1>2, <1>8, <1>9, <1>10, <1>11 DEF p, keep

LEMMA LeastOf ==
  ASSUME NEW T, T \subseteq Nat, T # {}
  PROVE  Min(T) \in T
<1> DEFINE R == OpToRel(<, Nat)
<1>1. \A y, z \in Nat : <<y, z>> \in R <=> y < z
  BY DEF OpToRel
<1>2. IsWellFoundedOn(R, Nat)
  BY NatLessThanWellFounded
<1> HIDE DEF R
<1>3. PICK x \in T : \A y \in T : ~ (<<y, x>> \in R)
  BY <1>2, WFMin
<1>4. ASSUME NEW y \in T PROVE x <= y
  <2>1. x \in Nat /\ y \in Nat
    OBVIOUS
  <2>2. ~ (y < x)
    BY <1>1, <1>3, <2>1
  <2> QED
    BY <2>1, <2>2
<1> QED
  BY <1>4 DEF Min

\* Enforcement ends within the limits, and with the counters of what is left.
LEMMA EnforcementIsExact ==
  ASSUME NEW b \in Seq(Entries), NEW samples, samples = Cardinality(Pending(b)),
         NEW bytes, bytes = Bytes(b)
  PROVE  LET k == Excess(b, samples, bytes)
             c == Drop(b, k)
         IN  /\ k \in 0 .. Cardinality(Pending(b))
             /\ samples - k = Cardinality(Pending(c))
             /\ BytesAfter(b, bytes, k) = Bytes(c)
             /\ WithinLimits(Cardinality(PendingSeries(c)), samples - k, Bytes(c))
<1> DEFINE P == Cardinality(Pending(b))
           S == Cardinality(PendingSeries(b))
           T == {k \in 0 .. P :
                   WithinLimits(Cardinality(PendingSeries(Drop(b, k))), samples - k,
                                BytesAfter(b, bytes, k))}
           k0 == Excess(b, samples, bytes)
<1>1. P \in Nat /\ S \in Nat /\ SampleBytes \in Nat /\ KeyBytes \in Nat
  BY PendingIsFinite, HistoryConstants
<1>2. ASSUME NEW k \in 0 .. P
      PROVE  /\ samples - k = Cardinality(Pending(Drop(b, k)))
             /\ BytesAfter(b, bytes, k) = Bytes(Drop(b, k))
  <2> DEFINE C == Cardinality(PendingSeries(Drop(b, k)))
  <2>1. /\ Drop(b, k) \in Seq(Entries) /\ Cardinality(Pending(Drop(b, k))) = P - k
        /\ Cardinality(Emptied(b, k)) = S - C
    BY DropIs
  <2>2. C \in Nat
    BY <2>1, PendingIsFinite
  <2>3. k \in Nat /\ k <= P
    BY <1>1
  <2> HIDE DEF C, P, S
  <2>4. (P * SampleBytes + S * KeyBytes) - k * SampleBytes - (S - C) * KeyBytes
          = (P - k) * SampleBytes + C * KeyBytes
    BY <1>1, <2>2, <2>3
  <2> QED
    BY <2>1, <2>4 DEF BytesAfter, Bytes, C, P, S
<1>3. P \in T
  <2> DEFINE c == Drop(b, P)
  <2>1. P \in 0 .. P
    BY <1>1
  <2>2. c \in Seq(Entries) /\ Cardinality(Pending(c)) = 0
    BY <1>1, <2>1, DropIs
  <2> HIDE DEF P
  <2>3. Pending(c) = {}
    BY <2>2, PendingIsFinite, FS_EmptySet
  <2>4. PendingSeries(c) = {}
    BY <2>3 DEF PendingSeries
  <2>5. Cardinality(PendingSeries(c)) = 0
    BY <2>4, FS_EmptySet
  <2>6. Bytes(c) = 0
    BY <1>1, <2>2, <2>5 DEF Bytes
  <2>7. samples - P = 0 /\ BytesAfter(b, bytes, P) = 0
    BY <1>2, <2>1, <2>2, <2>6
  <2> QED
    BY <2>1, <2>5, <2>7, HistoryConstants DEF WithinLimits
<1>4. k0 \in T
  <2>1. k0 = Min(T)
    BY DEF Excess
  <2>2. T \subseteq Nat /\ T # {}
    BY <1>1, <1>3
  <2> HIDE DEF T
  <2> QED
    BY <2>1, <2>2, LeastOf
<1> QED
  BY <1>2, <1>4

Counts == [received : Nat, refused : Nat, dropped : Nat, written : Nat]

\* The series whose guards a step releases that enforces the limits on b.
Released(b, unflushed) == (PendingSeries(b) \ PendingSeries(buffer')) \cap unflushed

\* What Settle does, whatever it drops.
Settled(b, guards, unflushed, counted, again) ==
  LET released == Released(b, unflushed)
  IN  /\ \E keep \in SUBSET DOMAIN b :
           DOMAIN b \ keep \subseteq Pending(b) /\ buffer' = Select(b, keep)
      /\ buffer' \in Seq(Entries)
      /\ pendingSamples' = Cardinality(Pending(buffer'))
      /\ pendingBytes' = Bytes(buffer')
      /\ WithinLimits(Cardinality(PendingSeries(buffer')), pendingSamples', pendingBytes')
      /\ status' \in Counts
      /\ status'.received = counted.received /\ status'.refused = counted.refused
      /\ status'.written = counted.written
      /\ status'.dropped + Len(buffer') = counted.dropped + Len(b)
      /\ guard' = [s \in Series |-> IF s \in released THEN 0 ELSE guards[s]]
      /\ unpersisted' = unflushed \ released
      /\ repeats' = again \cup {s \in released : InFlight(s) \/ file[s] # <<>>}

LEMMA SettleIs ==
  ASSUME NEW b \in Seq(Entries), NEW samples, samples = Cardinality(Pending(b)),
         NEW bytes, bytes = Bytes(b), NEW guards, NEW unflushed, NEW counted \in Counts,
         NEW again, Settle(b, samples, bytes, guards, unflushed, counted, again)
  PROVE  Settled(b, guards, unflushed, counted, again)
<1> DEFINE k == Excess(b, samples, bytes)
           released == Emptied(b, k) \cap unflushed
<1>1. /\ buffer' = Drop(b, k) /\ pendingSamples' = samples - k
      /\ pendingBytes' = BytesAfter(b, bytes, k)
      /\ guard' = [s \in Series |-> IF s \in released THEN 0 ELSE guards[s]]
      /\ unpersisted' = unflushed \ released
      /\ status' = [counted EXCEPT !.dropped = @ + k]
      /\ repeats' = again \cup {s \in released : InFlight(s) \/ file[s] # <<>>}
  BY DEF Settle
<1>2. /\ k \in 0 .. Cardinality(Pending(b))
      /\ pendingSamples' = Cardinality(Pending(buffer'))
      /\ pendingBytes' = Bytes(buffer')
      /\ WithinLimits(Cardinality(PendingSeries(buffer')), pendingSamples', pendingBytes')
  BY <1>1, EnforcementIsExact
<1>3. released = Released(b, unflushed)
  BY <1>1 DEF Emptied, Released
<1> HIDE DEF k, released
<1>4. /\ Kept(b, k) \in SUBSET DOMAIN b /\ DOMAIN b \ Kept(b, k) \subseteq Pending(b)
      /\ buffer' = Select(b, Kept(b, k)) /\ buffer' \in Seq(Entries)
      /\ Len(buffer') = Len(b) - k
  BY <1>1, <1>2, DropIs
<1>5. k \in Nat /\ Len(b) \in Nat
  BY <1>2, PendingIsFinite
<1>6. /\ status' \in Counts
      /\ status'.received = counted.received /\ status'.refused = counted.refused
      /\ status'.written = counted.written /\ status'.dropped = counted.dropped + k
      /\ counted.dropped \in Nat
  BY <1>1, <1>5 DEF Counts
<1> QED
  BY <1>1, <1>2, <1>3, <1>4, <1>5, <1>6 DEF Settled

-----------------------------------------------------------------------------
(***************************************************************************)
(* The invariant of the store.  Its parts are stated of a buffer, so that  *)
(* they can be carried from the one that enforcement finds to the one that *)
(* it leaves.                                                              *)
(***************************************************************************)

Sorted(b, s) == \A i, j \in OfSeries(b, s) : i < j => b[i].revision < b[j].revision
Revisions(b, s) == {b[i].revision : i \in OfSeries(b, s)}
TakenFirst(b) ==
  \A i, j \in DOMAIN b : b[i].taken /\ ~b[j].taken /\ b[i].series = b[j].series => i < j

RisingRows(rows) == \A i, j \in DOMAIN rows : i < j /\ rows[j] # 0 => rows[i] < rows[j]

\* The rows and the buffer of s below the guard g, and in order.
Rising(b, rows, g, s) ==
  /\ RisingRows(rows) /\ Sorted(b, s)
  /\ \A i \in DOMAIN rows : rows[i] <= g /\ \A r \in Revisions(b, s) : rows[i] < r
  /\ \A r \in Revisions(b, s) : r <= g

Backed(b, unflushed, disk, s) ==
  /\ disk \/ OfSeries(b, s) # {}
  /\ s \notin unflushed => disk

OnDisk(s) == s \in stranded \cup flush.retired \/ file[s] # <<>>

HistoryTypeOK ==
  /\ buffer \in Seq(Entries)
  /\ guard \in [Series -> Nat] /\ IsFiniteSet(Tracked)
  /\ unpersisted \in SUBSET Series
  /\ flush \in [step : {"idle", "appending"}, persisted : SUBSET Series,
                retired : SUBSET Series, written : Nat]
  /\ file \in [Series -> Seq(Nat)]
  /\ status \in Counts

\* The order of a flush: it takes everything there is, retires when nothing it
\* took is left, and what it has taken of a series is older than the rest.
FlushOrder ==
  /\ flush.step = "idle" => flush = NoFlush /\ Pending(buffer) = DOMAIN buffer
  /\ flush.retired # {} => Pending(buffer) = DOMAIN buffer
  /\ \A s \in flush.retired : file[s] = <<>>
  /\ \A s \in flush.persisted : s \in flush.retired \/ file[s] # <<>>
  /\ TakenFirst(buffer)

RowsRise == \A s \in Series \ repeats : Rising(buffer, file[s], guard[s], s)
SlotsBacked == \A s \in Tracked : Backed(buffer, unpersisted, OnDisk(s), s)

HistoryInv == HistoryTypeOK /\ AccountingIsExact /\ FlushOrder /\ RowsRise /\ SlotsBacked

LEMMA OrderOfSelect ==
  ASSUME NEW b \in Seq(Entries), NEW keep \in SUBSET DOMAIN b
  PROVE  LET c == Select(b, keep)
         IN  /\ TakenFirst(b) => TakenFirst(c)
             /\ Pending(b) = DOMAIN b => Pending(c) = DOMAIN c
             /\ \A s : /\ Sorted(b, s) => Sorted(c, s)
                       /\ Revisions(c, s) \subseteq Revisions(b, s)
                       /\ OfSeries(c, s) # {} <=> OfSeries(b, s) \cap keep # {}
<1> DEFINE c == Select(b, keep)
           h(n) == Nth(keep, n)
<1>1. /\ keep \subseteq Nat /\ DOMAIN c \subseteq Nat
      /\ \A n \in DOMAIN c : h(n) \in keep /\ c[n] = b[h(n)]
      /\ \A m, n \in DOMAIN c : m < n => h(m) < h(n)
      /\ \A i \in keep : Rank(keep, i) \in DOMAIN c /\ h(Rank(keep, i)) = i
  BY SelectIs
<1>2. \A m, n \in DOMAIN c : h(m) < h(n) => m < n
  BY <1>1
<1> HIDE DEF c, h
<1>3. TakenFirst(b) => TakenFirst(c)
  BY <1>1, <1>2 DEF TakenFirst
<1>4. Pending(b) = DOMAIN b => Pending(c) = DOMAIN c
  BY <1>1 DEF Pending
<1>5. \A s : \A n \in OfSeries(c, s) : h(n) \in OfSeries(b, s) \cap keep
  BY <1>1 DEF OfSeries
<1>6. \A s : Sorted(b, s) => Sorted(c, s)
  <2> SUFFICES ASSUME NEW s, Sorted(b, s), NEW i \in OfSeries(c, s), NEW j \in OfSeries(c, s),
                      i < j
               PROVE  c[i].revision < c[j].revision
    BY DEF Sorted
  <2>1. /\ h(i) \in OfSeries(b, s) /\ h(j) \in OfSeries(b, s)
        /\ i \in DOMAIN c /\ j \in DOMAIN c
    BY <1>5 DEF OfSeries
  <2> QED
    BY <1>1, <2>1 DEF Sorted
<1>7. \A s : Revisions(c, s) \subseteq Revisions(b, s)
  <2> SUFFICES ASSUME NEW s, NEW n \in OfSeries(c, s)
               PROVE  c[n].revision \in Revisions(b, s)
    BY DEF Revisions
  <2>1. h(n) \in OfSeries(b, s) /\ c[n] = b[h(n)]
    BY <1>1, <1>5 DEF OfSeries
  <2> QED
    BY <2>1 DEF Revisions
<1>8. \A s : OfSeries(c, s) # {} <=> OfSeries(b, s) \cap keep # {}
  <2>1. \A s : \A i \in OfSeries(b, s) \cap keep : Rank(keep, i) \in OfSeries(c, s)
    BY <1>1 DEF OfSeries
  <2> QED
    BY <1>5, <2>1
<1> QED
  BY <1>3, <1>4, <1>6, <1>7, <1>8 DEF c

\* Enforcement keeps the order, and a slot it leaves is backed.  A guard that
\* it releases is one of a series with nothing left anywhere, or the series
\* joins the repeats.
LEMMA SettleKeeps ==
  ASSUME NEW b \in Seq(Entries), NEW guards, NEW unflushed, NEW counted, NEW again,
         Settled(b, guards, unflushed, counted, again),
         \A i \in DOMAIN b : b[i].taken => InFlight(b[i].series),
         NEW s \in Series
  PROVE  /\ TakenFirst(b) => TakenFirst(buffer')
         /\ \A rows : /\ s \notin repeats' /\ Rising(b, rows, guards[s], s)
                      /\ rows = file[s] \/ s \in again
                      => Rising(buffer', rows, guard'[s], s)
         /\ \A disk \in BOOLEAN : guard'[s] # 0 /\ Backed(b, unflushed, disk, s)
                                 => Backed(buffer', unpersisted', disk, s)
<1> DEFINE released == Released(b, unflushed)
<1>1. PICK keep \in SUBSET DOMAIN b :
        DOMAIN b \ keep \subseteq Pending(b) /\ buffer' = Select(b, keep)
  BY DEF Settled
<1>2. /\ guard' = [t \in Series |-> IF t \in released THEN 0 ELSE guards[t]]
      /\ unpersisted' = unflushed \ released
      /\ repeats' = again \cup {t \in released : InFlight(t) \/ file[t] # <<>>}
      /\ PendingSeries(buffer') = {b[i].series : i \in Pending(b) \cap keep}
  <2>1. PendingSeries(buffer') = {b[i].series : i \in Pending(b) \cap keep}
    BY <1>1, PendingOfSelect
  <2>2. /\ guard' = [t \in Series |-> IF t \in released THEN 0 ELSE guards[t]]
        /\ unpersisted' = unflushed \ released
        /\ repeats' = again \cup {t \in released : InFlight(t) \/ file[t] # <<>>}
    BY DEF Settled
  <2> QED
    BY <2>1, <2>2
<1>3. /\ TakenFirst(b) => TakenFirst(buffer')
      /\ Sorted(b, s) => Sorted(buffer', s)
      /\ Revisions(buffer', s) \subseteq Revisions(b, s)
      /\ OfSeries(buffer', s) # {} <=> OfSeries(b, s) \cap keep # {}
  BY <1>1, OrderOfSelect
<1>4. s \in released /\ ~InFlight(s) => OfSeries(buffer', s) = {}
  <2> SUFFICES ASSUME s \in released, ~InFlight(s), NEW i \in OfSeries(b, s) \cap keep
               PROVE  FALSE
    BY <1>3
  <2>1. i \in Pending(b)
    BY DEF OfSeries, Pending
  <2> QED
    BY <1>2, <2>1 DEF OfSeries, Released
<1>5. ASSUME s \notin repeats', NEW rows, Rising(b, rows, guards[s], s),
             rows = file[s] \/ s \in again
      PROVE  Rising(buffer', rows, guard'[s], s)
  <2>1. CASE s \in released
    <3>1. ~InFlight(s) /\ rows = <<>>
      BY <1>2, <1>5, <2>1
    <3>2. Revisions(buffer', s) = {}
      BY <1>4, <2>1, <3>1 DEF Revisions
    <3>3. DOMAIN rows = {}
      BY <3>1
    <3> QED
      BY <1>3, <1>5, <3>2, <3>3 DEF Rising
  <2>2. CASE s \notin released
    <3>1. guard'[s] = guards[s]
      BY <1>2, <2>2
    <3> QED
      BY <1>3, <1>5, <3>1 DEF Rising
  <2> QED
    BY <2>1, <2>2
<1>6. ASSUME guard'[s] # 0, NEW disk \in BOOLEAN, Backed(b, unflushed, disk, s)
      PROVE  Backed(buffer', unpersisted', disk, s)
  <2>1. s \notin released
    BY <1>2, <1>6
  <2>2. s \notin unpersisted' <=> s \notin unflushed
    BY <1>2, <2>1
  <2>3. s \in unflushed /\ OfSeries(b, s) # {} => OfSeries(buffer', s) # {}
    <3> SUFFICES ASSUME s \in unflushed, NEW i \in OfSeries(b, s)
                 PROVE  OfSeries(b, s) \cap keep # {}
      BY <1>3
    <3>1. CASE i \in Pending(b)
      <4>1. s \in PendingSeries(b)
        BY <3>1 DEF PendingSeries, OfSeries
      <4>2. s \in PendingSeries(buffer')
        BY <2>1, <4>1 DEF Released
      <4>3. PICK j \in Pending(b) \cap keep : b[j].series = s
        BY <1>2, <4>2
      <4> QED
        BY <1>1, <4>3 DEF OfSeries
    <3>2. CASE i \notin Pending(b)
      BY <1>1, <3>2 DEF OfSeries
    <3> QED
      BY <3>1, <3>2
  <2> QED
    BY <1>6, <2>2, <2>3 DEF Backed
<1> QED
  BY <1>3, <1>5, <1>6

LEMMA RevisionsAreNatural ==
  ASSUME NEW b \in Seq(Entries), NEW s
  PROVE  Revisions(b, s) \subseteq Nat \ {0}
<1> SUFFICES ASSUME NEW i \in OfSeries(b, s) PROVE b[i].revision \in Nat \ {0}
  BY DEF Revisions
<1>1. i \in 1 .. Len(b)
  BY LenProperties DEF OfSeries
<1>2. b[i] \in Entries
  BY <1>1, ElementOfSeq
<1> QED
  BY <1>2 DEF Entries

LEMMA HistoryInvInit == HistoryInit => HistoryInv
<1> SUFFICES ASSUME HistoryInit PROVE HistoryInv
  OBVIOUS
<1>1. /\ buffer = <<>> /\ DOMAIN buffer = {} /\ Len(buffer) = 0 /\ buffer \in Seq(Entries)
      /\ \A s : OfSeries(buffer, s) = {}
      /\ Pending(buffer) = {} /\ PendingSeries(buffer) = {} /\ Tracked = {}
  BY DEF HistoryInit, OfSeries, Pending, PendingSeries, Tracked
<1>2. /\ Cardinality(Pending(buffer)) = 0 /\ Cardinality(PendingSeries(buffer)) = 0
      /\ IsFiniteSet(Tracked) /\ Cardinality(Tracked) = 0
  BY <1>1, FS_EmptySet
<1>3. /\ flush \in [step : {"idle", "appending"}, persisted : SUBSET Series,
                    retired : SUBSET Series, written : Nat]
      /\ status \in Counts /\ file \in [Series -> Seq(Nat)] /\ flush.written = 0
      /\ status.received = 0 /\ status.refused = 0 /\ status.dropped = 0 /\ status.written = 0
  BY DEF HistoryInit, NoFlush, NoStatus, Counts
<1>4. HistoryTypeOK
  BY <1>1, <1>2, <1>3 DEF HistoryInit, HistoryTypeOK
<1>5. AccountingIsExact
  BY <1>1, <1>2, <1>3, HistoryConstants DEF HistoryInit, AccountingIsExact, WithinLimits
<1>6. FlushOrder
  BY <1>1 DEF HistoryInit, FlushOrder, NoFlush, TakenFirst
<1>7. RowsRise
  BY <1>1 DEF HistoryInit, RowsRise, Rising, RisingRows, Sorted, Revisions
<1>8. SlotsBacked
  BY <1>1 DEF SlotsBacked
<1> QED
  BY <1>4, <1>5, <1>6, <1>7, <1>8 DEF HistoryInv

\* What leaves the buffer is counted as dropped.
LEMMA MovedCount ==
  ASSUME NEW b \in Seq(Entries), NEW guards, NEW unflushed, NEW counted \in Counts, NEW again,
         Settled(b, guards, unflushed, counted, again), flush' = flush, flush.written \in Nat,
         counted.received =
           counted.refused + counted.dropped + counted.written + flush.written + Len(b)
  PROVE  status'.received =
           status'.refused + status'.dropped + status'.written + flush'.written + Len(buffer')
<1>1. /\ status'.received = counted.received /\ status'.refused = counted.refused
      /\ status'.written = counted.written /\ flush'.written = flush.written
      /\ status'.dropped + Len(buffer') = counted.dropped + Len(b)
  BY DEF Settled
<1>2. /\ counted.refused \in Nat /\ counted.dropped \in Nat /\ counted.written \in Nat
      /\ status'.dropped \in Nat /\ Len(b) \in Nat /\ Len(buffer') \in Nat
  BY LenProperties DEF Counts, Settled
<1> DEFINE f == counted.refused
           w == counted.written
           x == flush.written
           d == counted.dropped
           n == Len(b)
           d1 == status'.dropped
           n1 == Len(buffer')
<1>3. f + d + w + x + n = f + d1 + w + x + n1
  <2>1. d1 + n1 = d + n
    BY <1>1
  <2>2. f \in Nat /\ w \in Nat /\ x \in Nat /\ d \in Nat /\ n \in Nat /\ d1 \in Nat /\ n1 \in Nat
    BY <1>2
  <2> HIDE DEF f, w, x, d, n, d1, n1
  <2> QED
    BY <2>1, <2>2
<1> QED
  BY <1>1, <1>3

\* A step that enforces the limits keeps the invariant when what it enforces
\* them on satisfies it.
LEMMA SettledInv ==
  ASSUME HistoryInv, NEW b \in Seq(Entries), NEW guards \in [Series -> Nat],
         NEW unflushed \in SUBSET Series, NEW counted \in Counts, NEW again,
         Settled(b, guards, unflushed, counted, again),
         UNCHANGED <<flush, stranded>>, file' \in [Series -> Seq(Nat)],
         IsFiniteSet({s \in Series : guards[s] # 0}),
         Cardinality({s \in Series : guards[s] # 0}) <= MaxTrackedSeries,
         counted.received =
           counted.refused + counted.dropped + counted.written + flush.written + Len(b),
         \A i \in DOMAIN b : b[i].taken => InFlight(b[i].series),
         TakenFirst(b),
         flush.step = "idle" \/ flush.retired # {} => Pending(b) = DOMAIN b,
         \A s \in flush.retired : file'[s] = <<>>,
         \A s \in flush.persisted : s \in flush.retired \/ file'[s] # <<>>,
         \A s \in Series \ again :
           file'[s] = file[s] /\ Rising(b, file'[s], guards[s], s),
         \A s \in Series : guards[s] # 0 => Backed(b, unflushed, OnDisk(s)', s)
  PROVE  HistoryInv'
<1>1. /\ buffer' \in Seq(Entries) /\ status' \in Counts
      /\ guard' = [s \in Series |-> IF s \in Released(b, unflushed) THEN 0 ELSE guards[s]]
      /\ unpersisted' = unflushed \ Released(b, unflushed)
      /\ again \subseteq repeats'
  BY DEF Settled
<1>2. IsFiniteSet(Tracked') /\ Cardinality(Tracked') <= MaxTrackedSeries
  <2> DEFINE T == {s \in Series : guards[s] # 0}
  <2>1. Tracked' \in SUBSET T
    BY <1>1 DEF Tracked
  <2> HIDE DEF T
  <2>2. /\ IsFiniteSet(Tracked') /\ Cardinality(Tracked') <= Cardinality(T)
        /\ Cardinality(Tracked') \in Nat /\ Cardinality(T) \in Nat
    BY <2>1, FS_Subset, FS_CardinalityType DEF T
  <2> QED
    BY <2>2, HistoryConstants DEF T
<1>3. HistoryTypeOK'
  BY <1>1, <1>2 DEF HistoryTypeOK, HistoryInv
<1>4. AccountingIsExact'
  <2>1. /\ pendingSamples' = Cardinality(Pending(buffer)')
        /\ pendingBytes' = Cardinality(Pending(buffer)') * SampleBytes
                             + Cardinality(PendingSeries(buffer)') * KeyBytes
        /\ WithinLimits(Cardinality(PendingSeries(buffer)'), pendingSamples', pendingBytes')
    BY DEF Settled, Bytes
  <2>2. flush.written \in Nat
    BY DEF HistoryInv, HistoryTypeOK
  <2>4. status'.received =
          status'.refused + status'.dropped + status'.written + flush'.written + Len(buffer')
    BY <2>2, MovedCount
  <2> QED
    BY <1>2, <2>1, <2>4 DEF AccountingIsExact, WithinLimits
<1>5. FlushOrder'
  <2>1. TakenFirst(buffer')
    <3>1. CASE Series = {}
      <4>1. DOMAIN buffer' = {}
        BY <1>1, <3>1, LenProperties, ElementOfSeq DEF Entries
      <4> QED
        BY <4>1 DEF TakenFirst
    <3>2. CASE Series # {}
      BY <3>2, SettleKeeps
    <3> QED
      BY <3>1, <3>2
  <2>2. Pending(b) = DOMAIN b => Pending(buffer') = DOMAIN buffer'
    <3>1. PICK keep \in SUBSET DOMAIN b : buffer' = Select(b, keep)
      BY DEF Settled
    <3> QED
      BY <3>1, OrderOfSelect
  <2> QED
    BY <2>1, <2>2 DEF FlushOrder, HistoryInv, TakenFirst, Pending, NoFlush
<1>6. RowsRise'
  <2> SUFFICES ASSUME NEW s \in Series, s \notin repeats'
               PROVE  Rising(buffer', file'[s], guard'[s], s)
    BY DEF RowsRise, Rising, RisingRows, Sorted, Revisions, OfSeries
  <2>1. s \notin again
    BY <1>1
  <2> QED
    BY <2>1, SettleKeeps
<1>7. SlotsBacked'
  <2> SUFFICES ASSUME NEW s \in Series, guard'[s] # 0
               PROVE  Backed(buffer', unpersisted', OnDisk(s)', s)
    BY DEF SlotsBacked, Tracked, Backed, OfSeries
  <2>1. guards[s] # 0
    BY <1>1
  <2>2. OnDisk(s)' \in BOOLEAN
    BY DEF OnDisk
  <2> QED
    BY <2>1, <2>2, SettleKeeps
<1> QED
  BY <1>3, <1>4, <1>5, <1>6, <1>7 DEF HistoryInv

-----------------------------------------------------------------------------
(* The steps of the store. *)

LEMMA AppendIs ==
  ASSUME NEW q \in Seq(Entries), NEW s \in Series, NEW r \in Nat \ {0}
  PROVE  LET b == Append(q, Entry(s, r))
         IN  /\ b \in Seq(Entries) /\ Len(b) = Len(q) + 1
             /\ DOMAIN b = DOMAIN q \cup {Len(q) + 1}
             /\ \A i \in DOMAIN q : b[i] = q[i] /\ i < Len(q) + 1
             /\ b[Len(q) + 1] = Entry(s, r) /\ Len(q) + 1 \notin DOMAIN q
<1> DEFINE b == Append(q, Entry(s, r))
<1>1. Entry(s, r) \in Entries
  BY DEF Entry, Entries
<1> HIDE DEF b
<1>2. /\ b \in Seq(Entries) /\ Len(b) = Len(q) + 1 /\ b[Len(q) + 1] = Entry(s, r)
      /\ \A i \in 1 .. Len(q) : b[i] = q[i]
  BY <1>1, AppendProperties DEF b
<1>3. /\ DOMAIN b = 1 .. (Len(q) + 1) /\ DOMAIN q = 1 .. Len(q) /\ Len(q) \in Nat
  BY <1>2, LenProperties
<1> QED
  BY <1>2, <1>3 DEF b

LEMMA AppendCounts ==
  ASSUME NEW q \in Seq(Entries), NEW s \in Series, NEW r \in Nat \ {0}
  PROVE  LET b == Append(q, Entry(s, r))
         IN  /\ Cardinality(Pending(b)) = Cardinality(Pending(q)) + 1
             /\ PendingSeries(b) = PendingSeries(q) \cup {s}
             /\ Bytes(b) = Bytes(q) + SampleBytes + (IF s \in PendingSeries(q) THEN 0 ELSE KeyBytes)
             /\ Pending(q) = DOMAIN q => Pending(b) = DOMAIN b
<1> DEFINE b == Append(q, Entry(s, r))
           e == Len(q) + 1
<1>1. /\ DOMAIN b = DOMAIN q \cup {e} /\ e \notin DOMAIN q
      /\ \A i \in DOMAIN q : b[i] = q[i]
      /\ b[e].series = s /\ b[e].taken = FALSE
  BY AppendIs DEF Entry
<1> HIDE DEF b, e
<1>2. Pending(b) = Pending(q) \cup {e} /\ e \notin Pending(q)
  BY <1>1 DEF Pending
<1>3. PendingSeries(b) = PendingSeries(q) \cup {s}
  <2>1. \A i \in Pending(q) : i \in Pending(b) /\ b[i].series = q[i].series
    BY <1>1, <1>2 DEF Pending
  <2>2. e \in Pending(b)
    BY <1>2
  <2>3. PendingSeries(b) \subseteq PendingSeries(q) \cup {s}
    BY <1>1, <1>2, <2>1 DEF PendingSeries
  <2>4. PendingSeries(q) \cup {s} \subseteq PendingSeries(b)
    BY <1>1, <2>1, <2>2 DEF PendingSeries
  <2> QED
    BY <2>3, <2>4
<1>4. /\ Cardinality(Pending(b)) = Cardinality(Pending(q)) + 1
      /\ Cardinality(PendingSeries(b)) =
           Cardinality(PendingSeries(q)) + (IF s \in PendingSeries(q) THEN 0 ELSE 1)
  <2>1. /\ IsFiniteSet(Pending(q)) /\ IsFiniteSet(PendingSeries(q))
        /\ Cardinality(PendingSeries(q)) \in Nat
    BY PendingIsFinite
  <2>2. Cardinality(Pending(q) \cup {e}) = Cardinality(Pending(q)) + 1
    BY <1>2, <2>1, FS_AddElement
  <2>3. Cardinality(PendingSeries(q) \cup {s}) =
          IF s \in PendingSeries(q) THEN Cardinality(PendingSeries(q))
                                    ELSE Cardinality(PendingSeries(q)) + 1
    BY <2>1, FS_AddElement
  <2> QED
    BY <1>2, <1>3, <2>1, <2>2, <2>3
<1>5. Bytes(b) = Bytes(q) + SampleBytes + (IF s \in PendingSeries(q) THEN 0 ELSE KeyBytes)
  <2> DEFINE P == Cardinality(Pending(q))
             S == Cardinality(PendingSeries(q))
  <2>1. P \in Nat /\ S \in Nat /\ SampleBytes \in Nat /\ KeyBytes \in Nat
    BY PendingIsFinite, HistoryConstants
  <2> HIDE DEF P, S
  <2>2. /\ (P + 1) * SampleBytes = P * SampleBytes + SampleBytes
        /\ (S + 1) * KeyBytes = S * KeyBytes + KeyBytes
        /\ P * SampleBytes \in Nat /\ S * KeyBytes \in Nat /\ S + 0 = S
    BY <2>1
  <2>3. Bytes(q) = P * SampleBytes + S * KeyBytes
    BY DEF Bytes, P, S
  <2>4. CASE s \in PendingSeries(q)
    <3>1. Bytes(b) = (P + 1) * SampleBytes + S * KeyBytes
      BY <1>4, <2>2, <2>4 DEF Bytes, P, S
    <3> QED
      BY <2>1, <2>2, <2>3, <2>4, <3>1
  <2>5. CASE s \notin PendingSeries(q)
    <3>1. Bytes(b) = (P + 1) * SampleBytes + (S + 1) * KeyBytes
      BY <1>4, <2>5 DEF Bytes, P, S
    <3> QED
      BY <2>1, <2>2, <2>3, <2>5, <3>1
  <2> QED
    BY <2>4, <2>5
<1>6. Pending(q) = DOMAIN q => Pending(b) = DOMAIN b
  BY <1>1, <1>2
<1> QED
  BY <1>3, <1>4, <1>5, <1>6 DEF b

LEMMA AppendOrder ==
  ASSUME NEW q \in Seq(Entries), NEW s \in Series, NEW r \in Nat \ {0}, NEW t \in Series
  PROVE  LET b == Append(q, Entry(s, r))
         IN  /\ TakenFirst(q) => TakenFirst(b)
             /\ OfSeries(q, t) \subseteq OfSeries(b, t)
             /\ OfSeries(b, s) # {}
             /\ Revisions(b, t) \subseteq Revisions(q, t) \cup (IF t = s THEN {r} ELSE {})
             /\ Sorted(q, t) /\ (t = s => \A x \in Revisions(q, s) : x < r) => Sorted(b, t)
<1> DEFINE b == Append(q, Entry(s, r))
           e == Len(q) + 1
<1>1. /\ DOMAIN b = DOMAIN q \cup {e} /\ e \notin DOMAIN q
      /\ \A i \in DOMAIN q : b[i] = q[i] /\ i < e /\ ~(e < i)
      /\ b[e].series = s /\ b[e].taken = FALSE /\ b[e].revision = r /\ ~(e < e)
  <2>1. DOMAIN q = 1 .. Len(q) /\ Len(q) \in Nat
    BY LenProperties
  <2>2. ~(e < e) /\ \A i \in DOMAIN q : i < e => ~(e < i)
    BY <2>1
  <2> QED
    BY <2>2, AppendIs DEF Entry
<1> HIDE DEF b, e
<1>2. TakenFirst(q) => TakenFirst(b)
  BY <1>1 DEF TakenFirst
<1>3. \A u \in Series : OfSeries(b, u) = OfSeries(q, u) \cup (IF u = s THEN {e} ELSE {})
  BY <1>1 DEF OfSeries
<1>4. \A i \in OfSeries(q, t) : b[i] = q[i] /\ i < e /\ ~(e < i)
  BY <1>1 DEF OfSeries
<1>5. Revisions(b, t) \subseteq Revisions(q, t) \cup (IF t = s THEN {r} ELSE {})
  <2> SUFFICES ASSUME NEW i \in OfSeries(b, t)
               PROVE  b[i].revision \in Revisions(q, t) \cup (IF t = s THEN {r} ELSE {})
    BY DEF Revisions
  <2>1. CASE i \in OfSeries(q, t)
    BY <1>4, <2>1 DEF Revisions
  <2>2. CASE i \notin OfSeries(q, t)
    BY <1>1, <1>3, <2>2
  <2> QED
    BY <2>1, <2>2
<1>6. Sorted(q, t) /\ (t = s => \A x \in Revisions(q, s) : x < r) => Sorted(b, t)
  <2> SUFFICES ASSUME Sorted(q, t), t = s => \A x \in Revisions(q, s) : x < r,
                      NEW i \in OfSeries(b, t), NEW j \in OfSeries(b, t), i < j
               PROVE  b[i].revision < b[j].revision
    BY DEF Sorted
  <2>1. i \in OfSeries(q, t) \/ (t = s /\ i = e)
    BY <1>3
  <2>2. j \in OfSeries(q, t) \/ (t = s /\ j = e)
    BY <1>3
  <2>3. i \in OfSeries(q, t)
    BY <1>1, <1>4, <2>1, <2>2
  <2>4. q[i].revision \in Revisions(q, t)
    BY <2>3 DEF Revisions
  <2> QED
    BY <1>1, <1>4, <2>2, <2>3, <2>4 DEF Sorted
<1> QED
  BY <1>2, <1>3, <1>5, <1>6 DEF b

LEMMA RecordStep ==
  ASSUME HistoryInv, NEW s \in Series, NEW revision \in 1 .. MaxRevision, Record(s, revision)
  PROVE  HistoryInv'
<1> DEFINE b == Append(buffer, Entry(s, revision))
           guards == [guard EXCEPT ![s] = revision]
           unflushed == IF guard[s] = 0 THEN unpersisted \cup {s} ELSE unpersisted
           counted == [status EXCEPT !.received = @ + 1]
           G == {t \in Series : guards[t] # 0}
<1>1. /\ buffer \in Seq(Entries) /\ guard \in [Series -> Nat] /\ IsFiniteSet(Tracked)
      /\ unpersisted \in SUBSET Series /\ status \in Counts /\ file \in [Series -> Seq(Nat)]
      /\ flush.written \in Nat /\ revision \in Nat \ {0}
  BY HistoryConstants DEF HistoryInv, HistoryTypeOK
<1>2. /\ pendingSamples = Cardinality(Pending(buffer)) /\ pendingBytes = Bytes(buffer)
      /\ Cardinality(Tracked) <= MaxTrackedSeries
      /\ status.received =
           status.refused + status.dropped + status.written + flush.written + Len(buffer)
  BY DEF HistoryInv, AccountingIsExact, Bytes
<1>3. /\ ~AdmissionRejected(s) /\ revision > guard[s] /\ UNCHANGED <<flush, file, stranded>>
      /\ Settle(b, pendingSamples + 1,
                pendingBytes + SampleBytes + (IF s \in PendingSeries(buffer) THEN 0 ELSE KeyBytes),
                guards, unflushed, counted, repeats)
  BY DEF Record
<1>4. /\ b \in Seq(Entries) /\ Len(b) = Len(buffer) + 1
      /\ DOMAIN b = DOMAIN buffer \cup {Len(buffer) + 1}
      /\ \A i \in DOMAIN buffer : b[i] = buffer[i]
      /\ b[Len(buffer) + 1].taken = FALSE
  <2>1. /\ b \in Seq(Entries) /\ Len(b) = Len(buffer) + 1
        /\ DOMAIN b = DOMAIN buffer \cup {Len(buffer) + 1}
        /\ \A i \in DOMAIN buffer : b[i] = buffer[i] /\ i < Len(buffer) + 1
        /\ b[Len(buffer) + 1] = Entry(s, revision)
    <3>1. buffer \in Seq(Entries) /\ revision \in Nat \ {0}
      BY <1>1
    <3> QED
      BY <3>1, AppendIs
  <2> QED
    BY <2>1 DEF Entry
<1>5. /\ pendingSamples + 1 = Cardinality(Pending(b))
      /\ pendingBytes + SampleBytes + (IF s \in PendingSeries(buffer) THEN 0 ELSE KeyBytes) = Bytes(b)
      /\ Pending(buffer) = DOMAIN buffer => Pending(b) = DOMAIN b
  BY <1>1, <1>2, AppendCounts
<1>6. /\ guards \in [Series -> Nat] /\ unflushed \in SUBSET Series /\ counted \in Counts
      /\ counted.received = status.received + 1 /\ counted.refused = status.refused
      /\ counted.dropped = status.dropped /\ counted.written = status.written
      /\ guards[s] = revision /\ \A t \in Series : t # s => guards[t] = guard[t]
      /\ \A t \in Series : t # s => (t \in unflushed <=> t \in unpersisted)
      /\ s \notin unflushed => guard[s] # 0 /\ s \notin unpersisted
  <2>1. /\ guards \in [Series -> Nat]
        /\ guards[s] = revision /\ \A t \in Series : t # s => guards[t] = guard[t]
    BY <1>1
  <2>2. /\ unflushed \in SUBSET Series
        /\ \A t \in Series : t # s => (t \in unflushed <=> t \in unpersisted)
        /\ s \notin unflushed => guard[s] # 0 /\ s \notin unpersisted
    BY <1>1
  <2>3. /\ counted \in Counts
        /\ counted.received = status.received + 1 /\ counted.refused = status.refused
        /\ counted.dropped = status.dropped /\ counted.written = status.written
    <3>1. status \in [received : Nat, refused : Nat, dropped : Nat, written : Nat]
      BY <1>1 DEF Counts
    <3>2. counted \in [received : Nat, refused : Nat, dropped : Nat, written : Nat]
      BY <3>1
    <3> QED
      BY <3>1, <3>2 DEF Counts
  <2> QED
    BY <2>1, <2>2, <2>3
<1>7. counted.received =
        counted.refused + counted.dropped + counted.written + flush.written + Len(b)
  <2>1. /\ status.refused \in Nat /\ status.dropped \in Nat /\ status.written \in Nat
        /\ flush.written \in Nat /\ Len(buffer) \in Nat
    BY <1>1, LenProperties DEF Counts
  <2> DEFINE f == status.refused
             d == status.dropped
             w == status.written
             x == flush.written
             n == Len(buffer)
             r == status.received
  <2>2. r = f + d + w + x + n /\ f \in Nat /\ d \in Nat /\ w \in Nat /\ x \in Nat /\ n \in Nat
    BY <1>2, <2>1
  <2> HIDE DEF f, d, w, x, n, r
  <2>3. r + 1 = f + d + w + x + (n + 1)
    BY <2>2
  <2> QED
    BY <1>4, <1>6, <2>3 DEF f, d, w, x, n, r
<1>8. IsFiniteSet(G) /\ Cardinality(G) <= MaxTrackedSeries
  <2>1. G = Tracked \cup {s}
    BY <1>1, <1>6 DEF Tracked
  <2>2. IsFiniteSet(Tracked \cup {s}) /\ Cardinality(Tracked \cup {s}) =
          IF s \in Tracked THEN Cardinality(Tracked) ELSE Cardinality(Tracked) + 1
    BY <1>1, FS_AddElement
  <2>3. s \notin Tracked => ~(Cardinality(Tracked) >= MaxTrackedSeries)
    BY <1>3 DEF AdmissionRejected, Tracked
  <2>4. Cardinality(Tracked) \in Nat /\ MaxTrackedSeries \in Nat
    BY <1>1, FS_CardinalityType, HistoryConstants
  <2> HIDE DEF G
  <2> QED
    BY <1>2, <2>1, <2>2, <2>3, <2>4
<1>9. \A i \in DOMAIN b : b[i].taken => InFlight(b[i].series)
  <2> SUFFICES ASSUME NEW i \in DOMAIN b, b[i].taken PROVE InFlight(b[i].series)
    OBVIOUS
  <2>1. i \in DOMAIN buffer /\ b[i] = buffer[i]
    BY <1>4
  <2> HIDE DEF b
  <2>2. i \in Taken(b[i].series)
    BY <2>1 DEF Taken
  <2> QED
    BY <2>2 DEF InFlight
<1>10. TakenFirst(b)
  BY <1>1, AppendOrder DEF HistoryInv, FlushOrder
<1>11. flush.step = "idle" \/ flush.retired # {} => Pending(b) = DOMAIN b
  BY <1>5 DEF HistoryInv, FlushOrder
<1>12. /\ \A t \in flush.retired : file'[t] = <<>>
       /\ \A t \in flush.persisted : t \in flush.retired \/ file'[t] # <<>>
  BY <1>3 DEF HistoryInv, FlushOrder
<1>13. ASSUME NEW t \in Series \ repeats
       PROVE  file'[t] = file[t] /\ Rising(b, file'[t], guards[t], t)
  <2>1. Rising(buffer, file[t], guard[t], t)
    BY DEF HistoryInv, RowsRise
  <2>2. /\ Revisions(b, t) \subseteq Revisions(buffer, t) \cup (IF t = s THEN {revision} ELSE {})
        /\ Sorted(buffer, t) /\ (t = s => \A x \in Revisions(buffer, s) : x < revision)
             => Sorted(b, t)
    BY <1>1, AppendOrder
  <2> HIDE DEF b
  <2>3. CASE t # s
    <3>1. guards[t] = guard[t]
      BY <1>6, <2>3
    <3> QED
      BY <1>3, <2>1, <2>2, <2>3, <3>1 DEF Rising
  <2>4. CASE t = s
    <3>1. guards[t] = revision /\ guard[t] < revision /\ guard[t] \in Nat /\ revision \in Nat
      BY <1>1, <1>3, <1>6, <2>4
    <3>2. \A x \in Revisions(buffer, s) : x \in Nat /\ x <= guard[t]
      <4>1. \A x \in Revisions(buffer, s) : x \in Nat
        BY <1>1, RevisionsAreNatural
      <4> QED
        BY <2>1, <2>4, <4>1 DEF Rising
    <3>3. \A x \in Revisions(buffer, s) : x < revision /\ x <= revision
      BY <3>1, <3>2
    <3>4. \A i \in DOMAIN file[t] : file[t][i] < revision /\ file[t][i] <= revision
      <4>1. \A i \in DOMAIN file[t] : file[t][i] \in Nat
        BY <1>1, ElementOfSeq, LenProperties
      <4> QED
        BY <2>1, <3>1, <4>1 DEF Rising
    <3>5. Sorted(b, t)
      BY <2>1, <2>2, <3>3 DEF Rising
    <3>6. \A r \in Revisions(b, t) : r \in Revisions(buffer, t) \/ r = revision
      BY <2>2
    <3>7. \A r \in Revisions(b, t) : r <= revision
      BY <2>4, <3>1, <3>3, <3>6
    <3>8. \A i \in DOMAIN file[t] : \A r \in Revisions(b, t) : file[t][i] < r
      BY <2>1, <3>4, <3>6 DEF Rising
    <3> QED
      BY <1>3, <2>1, <3>1, <3>4, <3>5, <3>7, <3>8 DEF Rising
  <2> QED
    BY <2>3, <2>4
<1>14. ASSUME NEW t \in Series, guards[t] # 0 PROVE Backed(b, unflushed, OnDisk(t)', t)
  <2>1. OfSeries(buffer, t) \subseteq OfSeries(b, t) /\ OfSeries(b, s) # {}
    BY <1>1, AppendOrder
  <2>2. OnDisk(t)' = OnDisk(t)
    BY <1>3 DEF OnDisk
  <2>3. guard[t] # 0 => Backed(buffer, unpersisted, OnDisk(t), t)
    BY DEF HistoryInv, SlotsBacked, Tracked
  <2> HIDE DEF b
  <2>4. CASE t # s
    BY <1>6, <1>14, <2>1, <2>2, <2>3, <2>4 DEF Backed
  <2>5. CASE t = s
    BY <1>6, <2>1, <2>2, <2>3, <2>5 DEF Backed
  <2> QED
    BY <2>4, <2>5
<1> HIDE DEF b, guards, unflushed, counted
<1>15. Settled(b, guards, unflushed, counted, repeats)
  BY <1>3, <1>4, <1>5, <1>6, SettleIs
<1> QED
  BY <1>1, <1>3, <1>4, <1>6, <1>7, <1>8, <1>9, <1>10, <1>11, <1>12, <1>13, <1>14, <1>15,
     SettledInv DEF G

\* What is given back is pending again, where it was.
LEMMA GivenBackIs ==
  ASSUME buffer \in Seq(Entries), NEW s \in Series
  PROVE  LET b == GivenBack(s)
         IN  /\ b \in Seq(Entries) /\ Len(b) = Len(buffer) /\ DOMAIN b = DOMAIN buffer
             /\ \A i \in DOMAIN b : /\ b[i].series = buffer[i].series
                                    /\ b[i].revision = buffer[i].revision
                                    /\ b[i].taken <=> buffer[i].taken /\ buffer[i].series # s
<1> DEFINE b == GivenBack(s)
<1>1. /\ DOMAIN buffer = 1 .. Len(buffer) /\ Len(buffer) \in Nat
      /\ \A i \in 1 .. Len(buffer) : buffer[i] \in Entries
  BY LenProperties, ElementOfSeq
<1>2. b = [i \in 1 .. Len(buffer) |->
             IF i \in Taken(s) THEN [buffer[i] EXCEPT !.taken = FALSE] ELSE buffer[i]]
  BY <1>1 DEF GivenBack
<1> HIDE DEF b
<1>3. \A i \in 1 .. Len(buffer) :
        /\ b[i] \in Entries /\ b[i].series = buffer[i].series
        /\ b[i].revision = buffer[i].revision
        /\ b[i].taken <=> buffer[i].taken /\ buffer[i].series # s
  <2> SUFFICES ASSUME NEW i \in 1 .. Len(buffer)
               PROVE  /\ b[i] \in Entries /\ b[i].series = buffer[i].series
                      /\ b[i].revision = buffer[i].revision
                      /\ b[i].taken <=> buffer[i].taken /\ buffer[i].series # s
    OBVIOUS
  <2>1. buffer[i] \in [series : Series, revision : Nat \ {0}, taken : BOOLEAN]
    BY <1>1 DEF Entries
  <2>2. CASE i \in Taken(s)
    <3>1. b[i] = [buffer[i] EXCEPT !.taken = FALSE] /\ buffer[i].series = s
      BY <1>2, <2>2 DEF Taken
    <3> QED
      BY <2>1, <3>1 DEF Entries
  <2>3. CASE i \notin Taken(s)
    <3>1. b[i] = buffer[i] /\ ~(buffer[i].taken /\ buffer[i].series = s)
      BY <1>1, <1>2, <2>3 DEF Taken
    <3> QED
      BY <2>1, <3>1 DEF Entries
  <2> QED
    BY <2>2, <2>3
<1>4. b \in Seq(Entries)
  <2>1. \A i \in 1 .. Len(buffer) :
          (IF i \in Taken(s) THEN [buffer[i] EXCEPT !.taken = FALSE] ELSE buffer[i]) \in Entries
    BY <1>2, <1>3
  <2> QED
    BY <1>1, <1>2, <2>1, IsASeq
<1>5. DOMAIN b = 1 .. Len(buffer) /\ Len(b) = Len(buffer)
  BY <1>1, <1>2, <1>4, LenProperties
<1> QED
  BY <1>1, <1>3, <1>4, <1>5 DEF b

LEMMA GivenBackCounts ==
  ASSUME buffer \in Seq(Entries), NEW s \in Series, InFlight(s)
  PROVE  LET b == GivenBack(s)
             n == Cardinality(Taken(s))
         IN  /\ n \in Nat /\ Cardinality(Pending(b)) = Cardinality(Pending(buffer)) + n
             /\ Bytes(b) = Bytes(buffer) + n * SampleBytes
                             + (IF s \in PendingSeries(buffer) THEN 0 ELSE KeyBytes)
<1> DEFINE b == GivenBack(s)
           n == Cardinality(Taken(s))
<1>1. /\ b \in Seq(Entries) /\ DOMAIN b = DOMAIN buffer
      /\ \A i \in DOMAIN b : /\ b[i].series = buffer[i].series
                             /\ b[i].taken <=> buffer[i].taken /\ buffer[i].series # s
  BY GivenBackIs
<1> HIDE DEF b
<1>2. Pending(b) = Pending(buffer) \cup Taken(s) /\ Pending(buffer) \cap Taken(s) = {}
  BY <1>1 DEF Pending, Taken
<1>3. IsFiniteSet(Pending(buffer)) /\ IsFiniteSet(Taken(s)) /\ n \in Nat
  <2>1. Taken(s) \in SUBSET DOMAIN buffer /\ IsFiniteSet(DOMAIN buffer)
    BY DomainCount DEF Taken
  <2> QED
    BY <2>1, PendingIsFinite, FS_Subset, FS_CardinalityType
<1>4. Cardinality(Pending(b)) = Cardinality(Pending(buffer)) + n
  <2>1. Cardinality(Pending(buffer) \cup Taken(s)) =
          Cardinality(Pending(buffer)) + n - Cardinality(Pending(buffer) \cap Taken(s))
    BY <1>3, FS_Union
  <2>2. Cardinality(Pending(buffer) \cap Taken(s)) = 0 /\ Cardinality(Pending(buffer)) \in Nat
    <3>1. Cardinality(Pending(buffer)) \in Nat
      BY PendingIsFinite
    <3> QED
      BY <1>2, <3>1, FS_EmptySet
  <2> HIDE DEF n
  <2> QED
    BY <1>2, <1>3, <2>1, <2>2
<1>5. PendingSeries(b) = PendingSeries(buffer) \cup {s}
  <2>1. PendingSeries(b) \subseteq PendingSeries(buffer) \cup {s}
    <3> SUFFICES ASSUME NEW i \in Pending(b)
                 PROVE  b[i].series \in PendingSeries(buffer) \cup {s}
      BY DEF PendingSeries
    <3>1. b[i].series = buffer[i].series
      BY <1>1 DEF Pending
    <3> QED
      BY <1>2, <3>1 DEF PendingSeries, Taken
  <2>2. PendingSeries(buffer) \subseteq PendingSeries(b)
    BY <1>1, <1>2 DEF PendingSeries, Pending
  <2>3. s \in PendingSeries(b)
    BY <1>1, <1>2 DEF PendingSeries, InFlight, Taken
  <2> QED
    BY <2>1, <2>2, <2>3
<1>6. Bytes(b) = Bytes(buffer) + n * SampleBytes
                   + (IF s \in PendingSeries(buffer) THEN 0 ELSE KeyBytes)
  <2> DEFINE P == Cardinality(Pending(buffer))
             S == Cardinality(PendingSeries(buffer))
  <2>1. /\ P \in Nat /\ S \in Nat /\ SampleBytes \in Nat /\ KeyBytes \in Nat
        /\ IsFiniteSet(PendingSeries(buffer))
    BY PendingIsFinite, HistoryConstants
  <2>2. Cardinality(PendingSeries(buffer) \cup {s}) =
          IF s \in PendingSeries(buffer) THEN S ELSE S + 1
    BY <2>1, FS_AddElement
  <2>3. Bytes(b) = (P + n) * SampleBytes + (IF s \in PendingSeries(buffer) THEN S ELSE S + 1) * KeyBytes
    BY <1>4, <1>5, <2>2 DEF Bytes
  <2>4. Bytes(buffer) = P * SampleBytes + S * KeyBytes
    BY DEF Bytes
  <2> HIDE DEF P, S, n
  <2>5. /\ (P + n) * SampleBytes = P * SampleBytes + n * SampleBytes
        /\ (S + 1) * KeyBytes = S * KeyBytes + KeyBytes
        /\ P * SampleBytes \in Nat /\ S * KeyBytes \in Nat /\ n * SampleBytes \in Nat
    BY <1>3, <2>1
  <2>6. CASE s \in PendingSeries(buffer)
    BY <2>1, <2>3, <2>4, <2>5, <2>6
  <2>7. CASE s \notin PendingSeries(buffer)
    BY <2>1, <2>3, <2>4, <2>5, <2>7
  <2> QED
    BY <2>6, <2>7
<1> QED
  BY <1>3, <1>4, <1>6 DEF b

\* The revisions of what is selected, as rows of a file.
LEMMA RowsOf ==
  ASSUME NEW b \in Seq(Entries), NEW keep \in SUBSET DOMAIN b
  PROVE  LET c == Select(b, keep)
             rows == [i \in DOMAIN c |-> c[i].revision]
         IN  /\ rows \in Seq(Nat) /\ Len(rows) = Cardinality(keep)
             /\ \A i \in DOMAIN rows :
                  Nth(keep, i) \in keep /\ rows[i] = b[Nth(keep, i)].revision /\ rows[i] # 0
             /\ \A i, j \in DOMAIN rows : i < j => Nth(keep, i) < Nth(keep, j)
             /\ keep # {} => rows # <<>>
<1> DEFINE c == Select(b, keep)
           rows == [i \in DOMAIN c |-> c[i].revision]
<1>1. /\ c \in Seq(Entries) /\ Len(c) = Cardinality(keep) /\ Cardinality(keep) \in Nat
      /\ DOMAIN c = 1 .. Cardinality(keep)
      /\ \A i \in DOMAIN c : Nth(keep, i) \in keep /\ c[i] = b[Nth(keep, i)]
      /\ \A i, j \in DOMAIN c : i < j => Nth(keep, i) < Nth(keep, j)
      /\ \A i \in keep : Rank(keep, i) \in DOMAIN c
  BY SelectIs
<1> HIDE DEF c
<1>2. \A i \in DOMAIN c : c[i].revision \in Nat /\ c[i].revision # 0
  <2>1. \A i \in 1 .. Len(c) : c[i] \in Entries
    BY <1>1, ElementOfSeq
  <2> QED
    BY <1>1, <2>1 DEF Entries
<1>3. rows \in Seq(Nat)
  BY <1>1, <1>2, IsASeq
<1>4. DOMAIN rows = DOMAIN c /\ Len(rows) = Cardinality(keep)
  BY <1>1, <1>3, LenProperties
<1>5. \A i \in DOMAIN rows :
        Nth(keep, i) \in keep /\ rows[i] = b[Nth(keep, i)].revision /\ rows[i] # 0
  BY <1>1, <1>2
<1>6. keep # {} => rows # <<>>
  BY <1>1, <1>4
<1> QED
  BY <1>1, <1>3, <1>4, <1>5, <1>6 DEF c

LEMMA GivenBackOrder ==
  ASSUME buffer \in Seq(Entries), NEW s \in Series, TakenFirst(buffer)
  PROVE  LET b == GivenBack(s)
         IN  /\ TakenFirst(b)
             /\ \A i \in DOMAIN b : b[i].taken => InFlight(b[i].series)
             /\ \A t : /\ OfSeries(b, t) = OfSeries(buffer, t)
                       /\ Revisions(b, t) = Revisions(buffer, t)
                       /\ Sorted(b, t) <=> Sorted(buffer, t)
<1> DEFINE b == GivenBack(s)
<1>1. /\ DOMAIN b = DOMAIN buffer
      /\ \A i \in DOMAIN b : /\ b[i].series = buffer[i].series
                             /\ b[i].revision = buffer[i].revision
                             /\ b[i].taken <=> buffer[i].taken /\ buffer[i].series # s
  BY GivenBackIs
<1> HIDE DEF b
<1>2. TakenFirst(b)
  BY <1>1 DEF TakenFirst
<1>3. \A i \in DOMAIN b : b[i].taken => InFlight(b[i].series)
  BY <1>1 DEF InFlight, Taken
<1>4. \A t : OfSeries(b, t) = OfSeries(buffer, t)
  BY <1>1 DEF OfSeries
<1>5. \A t : \A i \in OfSeries(b, t) : b[i].revision = buffer[i].revision
  BY <1>1 DEF OfSeries
<1>6. \A t : Revisions(b, t) = Revisions(buffer, t) /\ (Sorted(b, t) <=> Sorted(buffer, t))
  BY <1>4, <1>5 DEF Revisions, Sorted
<1> QED
  BY <1>2, <1>3, <1>4, <1>6 DEF b

LEMMA RequeueStep ==
  ASSUME HistoryInv, NEW s \in Series, NEW n \in Nat, RequeueFailed(s, n)
  PROVE  HistoryInv'
<1> DEFINE b == GivenBack(s)
           m == Cardinality(Taken(s))
           again == IF n = 0 THEN repeats ELSE repeats \cup {s}
           added == SubSeq(Rows(s), 1, n)
<1>1. /\ buffer \in Seq(Entries) /\ guard \in [Series -> Nat] /\ IsFiniteSet(Tracked)
      /\ unpersisted \in SUBSET Series /\ status \in Counts /\ file \in [Series -> Seq(Nat)]
      /\ Cardinality(Tracked) <= MaxTrackedSeries /\ TakenFirst(buffer)
      /\ status.received =
           status.refused + status.dropped + status.written + flush.written + Len(buffer)
  BY DEF HistoryInv, HistoryTypeOK, AccountingIsExact, FlushOrder
<1>2. pendingSamples = Cardinality(Pending(buffer)) /\ pendingBytes = Bytes(buffer)
  BY DEF HistoryInv, AccountingIsExact, Bytes
<1>3. /\ InFlight(s) /\ n < m /\ UNCHANGED <<flush, stranded>> /\ flush.step = "appending"
      /\ file' = [file EXCEPT ![s] = @ \o added]
      /\ Settle(b, pendingSamples + m,
                pendingBytes + m * SampleBytes
                  + (IF s \in PendingSeries(buffer) THEN 0 ELSE KeyBytes),
                guard, unpersisted, status, again)
  BY DEF RequeueFailed
<1>4. b \in Seq(Entries) /\ Len(b) = Len(buffer)
  BY <1>1, GivenBackIs
<1>5. /\ pendingSamples + m = Cardinality(Pending(b))
      /\ pendingBytes + m * SampleBytes
           + (IF s \in PendingSeries(buffer) THEN 0 ELSE KeyBytes) = Bytes(b)
  BY <1>1, <1>2, <1>3, GivenBackCounts
<1>6. /\ TakenFirst(b)
      /\ \A i \in DOMAIN b : b[i].taken => InFlight(b[i].series)
      /\ \A t : /\ OfSeries(b, t) = OfSeries(buffer, t)
                /\ Revisions(b, t) = Revisions(buffer, t)
                /\ Sorted(b, t) <=> Sorted(buffer, t)
  BY <1>1, GivenBackOrder
<1>7. /\ added \in Seq(Nat)
      /\ n = 0 => added = <<>>
  <2>1. Rows(s) \in Seq(Nat) /\ Len(Rows(s)) = m
    <3>1. Taken(s) \in SUBSET DOMAIN buffer
      BY DEF Taken
    <3> QED
      BY <1>1, <3>1, RowsOf DEF Rows
  <2>2. 1 .. n \subseteq 1 .. m
    BY <1>3, <2>1, LenProperties
  <2>3. \A i \in 1 .. n : Rows(s)[i] \in Nat
    BY <2>1, <2>2, ElementOfSeq
  <2>4. added \in Seq(Nat)
    BY <2>3, SubSeqProperties
  <2>5. n = 0 => added = <<>>
    BY SubSeqEmpty
  <2> QED
    BY <2>4, <2>5
<1>8. /\ file' \in [Series -> Seq(Nat)] /\ \A t \in Series : t # s => file'[t] = file[t]
      /\ file'[s] = file[s] \o added
      /\ n = 0 => file'[s] = file[s]
      /\ file[s] # <<>> => file'[s] # <<>>
  <2> HIDE DEF added
  <2>1. file[s] \in Seq(Nat)
    BY <1>1
  <2>2. /\ file[s] \o added \in Seq(Nat)
        /\ Len(file[s] \o added) = Len(file[s]) + Len(added)
        /\ Len(file[s]) \in Nat /\ Len(added) \in Nat
    <3>1. /\ file[s] \o added \in Seq(Nat)
          /\ Len(file[s] \o added) = Len(file[s]) + Len(added)
      BY <1>7, <2>1, ConcatProperties
    <3>2. Len(file[s]) \in Nat /\ Len(added) \in Nat
      BY <1>7, <2>1, LenProperties
    <3> QED
      BY <3>1, <3>2
  <2>3. file[s] # <<>> => file[s] \o added # <<>>
    <3>1. file[s] # <<>> => Len(file[s]) # 0
      BY <2>1, EmptySeq
    <3>2. file[s] # <<>> => Len(file[s] \o added) # 0
      BY <2>2, <3>1
    <3> QED
      BY <3>2, EmptySeq
  <2>4. n = 0 => file[s] \o added = file[s]
    <3>1. file[s] \o <<>> = file[s]
      BY <2>1, ConcatEmptySeq
    <3> QED
      BY <1>7, <3>1
  <2>5. /\ \A t \in Series : t # s => file'[t] = file[t]
        /\ file'[s] = file[s] \o added
    BY <1>1, <1>3
  <2>6. file' \in [Series -> Seq(Nat)]
    BY <1>1, <1>3, <2>2
  <2> QED
    BY <2>3, <2>4, <2>5, <2>6
<1>9. ASSUME NEW t \in Series \ again
      PROVE  file'[t] = file[t] /\ Rising(b, file'[t], guard[t], t)
  <2>1. t \in Series \ repeats /\ (t = s => n = 0)
    OBVIOUS
  <2>2. file'[t] = file[t]
    BY <1>8, <2>1
  <2>3. Rising(buffer, file[t], guard[t], t)
    BY <2>1 DEF HistoryInv, RowsRise
  <2> HIDE DEF b
  <2> QED
    BY <1>6, <2>2, <2>3 DEF Rising
<1>10. ASSUME NEW t \in Series, guard[t] # 0 PROVE Backed(b, unpersisted, OnDisk(t)', t)
  <2>1. Backed(buffer, unpersisted, OnDisk(t), t)
    BY <1>10 DEF HistoryInv, SlotsBacked, Tracked
  <2>2. OnDisk(t) => OnDisk(t)'
    BY <1>3, <1>8 DEF OnDisk
  <2> HIDE DEF b
  <2> QED
    BY <1>6, <2>1, <2>2 DEF Backed
<1>11. flush.retired = {}
  <2>1. Pending(buffer) # DOMAIN buffer
    BY <1>3 DEF InFlight, Taken, Pending
  <2> QED
    BY <2>1 DEF HistoryInv, FlushOrder
<1>12. \A t \in flush.persisted : t \in flush.retired \/ file'[t] # <<>>
  <2>1. \A t \in flush.persisted : t \in Series /\ file[t] # <<>>
    BY <1>11 DEF HistoryInv, FlushOrder, HistoryTypeOK
  <2> QED
    BY <1>8, <2>1
<1>13. IsFiniteSet({t \in Series : guard[t] # 0}) /\ Cardinality({t \in Series : guard[t] # 0}) <= MaxTrackedSeries
  BY <1>1 DEF Tracked
<1> HIDE DEF b, again
<1>14. Settled(b, guard, unpersisted, status, again)
  BY <1>1, <1>3, <1>4, <1>5, SettleIs
<1> QED
  BY <1>1, <1>3, <1>4, <1>6, <1>8, <1>9, <1>10, <1>11, <1>12, <1>13, <1>14, SettledInv

LEMMA RefuseStep ==
  ASSUME HistoryInv, NEW s \in Series, NEW revision \in 1 .. MaxRevision, Refuse(s, revision)
  PROVE  HistoryInv'
<1>1. /\ status' = [status EXCEPT !.received = @ + 1, !.refused = @ + 1]
      /\ UNCHANGED <<buffer, pendingSamples, pendingBytes, guard, unpersisted, flush, file,
                     repeats, stranded>>
  BY DEF Refuse
<1>2. status \in [received : Nat, refused : Nat, dropped : Nat, written : Nat]
  BY DEF HistoryInv, HistoryTypeOK, Counts
<1>3. /\ status' \in Counts
      /\ status'.received = status.received + 1 /\ status'.refused = status.refused + 1
      /\ status'.dropped = status.dropped /\ status'.written = status.written
  <2>1. status' = [received |-> status.received + 1, refused |-> status.refused + 1,
                   dropped |-> status.dropped, written |-> status.written]
    BY <1>1, <1>2
  <2> QED
    BY <1>2, <2>1 DEF Counts
<1>4. HistoryTypeOK'
  BY <1>1, <1>3 DEF HistoryInv, HistoryTypeOK, Tracked
<1>5. AccountingIsExact'
  <2> DEFINE f == status.refused
             d == status.dropped
             w == status.written
             x == flush.written
             n == Len(buffer)
             r == status.received
  <2>1. r = f + d + w + x + n /\ f \in Nat /\ d \in Nat /\ w \in Nat /\ x \in Nat /\ n \in Nat
    <3>1. r = f + d + w + x + n
      BY DEF HistoryInv, AccountingIsExact
    <3>2. f \in Nat /\ d \in Nat /\ w \in Nat
      BY <1>2
    <3>3. x \in Nat /\ n \in Nat
      BY LenProperties DEF HistoryInv, HistoryTypeOK
    <3> QED
      BY <3>1, <3>2, <3>3
  <2> HIDE DEF f, d, w, x, n, r
  <2>2. r + 1 = (f + 1) + d + w + x + n
    BY <2>1
  <2>3. status'.received =
          status'.refused + status'.dropped + status'.written + flush'.written + Len(buffer')
    BY <1>1, <1>3, <2>2 DEF f, d, w, x, n, r
  <2> QED
    BY <1>1, <2>3 DEF HistoryInv, AccountingIsExact, WithinLimits, Pending, PendingSeries, Tracked
<1>6. FlushOrder'
  BY <1>1 DEF HistoryInv, FlushOrder, TakenFirst, Pending, NoFlush
<1>7. RowsRise'
  BY <1>1 DEF HistoryInv, RowsRise, Rising, RisingRows, Sorted, Revisions, OfSeries
<1>8. SlotsBacked'
  BY <1>1 DEF HistoryInv, SlotsBacked, Tracked, Backed, OnDisk, OfSeries
<1> QED
  BY <1>4, <1>5, <1>6, <1>7, <1>8 DEF HistoryInv

\* What a flush takes keeps its place; nothing is pending then.
LEMMA TakenIs ==
  ASSUME buffer \in Seq(Entries),
         buffer' = [i \in DOMAIN buffer |-> [buffer[i] EXCEPT !.taken = TRUE]]
  PROVE  /\ buffer' \in Seq(Entries) /\ Len(buffer') = Len(buffer)
         /\ TakenFirst(buffer') /\ Pending(buffer') = {} /\ PendingSeries(buffer') = {}
         /\ \A t : /\ OfSeries(buffer', t) = OfSeries(buffer, t)
                   /\ Revisions(buffer', t) = Revisions(buffer, t)
                   /\ Sorted(buffer', t) <=> Sorted(buffer, t)
<1>1. /\ DOMAIN buffer = 1 .. Len(buffer) /\ Len(buffer) \in Nat
      /\ \A i \in 1 .. Len(buffer) : buffer[i] \in Entries
  BY LenProperties, ElementOfSeq
<1> DEFINE b == [i \in 1 .. Len(buffer) |-> [buffer[i] EXCEPT !.taken = TRUE]]
<1>2. \A i \in 1 .. Len(buffer) :
        /\ [buffer[i] EXCEPT !.taken = TRUE] \in Entries
        /\ [buffer[i] EXCEPT !.taken = TRUE].series = buffer[i].series
        /\ [buffer[i] EXCEPT !.taken = TRUE].revision = buffer[i].revision
        /\ [buffer[i] EXCEPT !.taken = TRUE].taken = TRUE
  BY <1>1 DEF Entries
<1>3. b \in Seq(Entries)
  BY <1>1, <1>2, IsASeq
<1>4. DOMAIN b = 1 .. Len(buffer) /\ Len(b) = Len(buffer)
  BY <1>1, <1>3, LenProperties
<1>5. buffer' = b
  BY <1>1
<1>6. \A i \in DOMAIN b : /\ b[i].series = buffer[i].series
                          /\ b[i].revision = buffer[i].revision
                          /\ b[i].taken = TRUE
  BY <1>2, <1>4
<1> HIDE DEF b
<1>7. DOMAIN b = DOMAIN buffer
  BY <1>1, <1>4
<1>8. Pending(b) = {}
  BY <1>6 DEF Pending
<1>9. PendingSeries(b) = {}
  BY <1>8 DEF PendingSeries
<1>10. TakenFirst(b)
  BY <1>6 DEF TakenFirst
<1>11. \A t : OfSeries(b, t) = OfSeries(buffer, t)
  BY <1>6, <1>7 DEF OfSeries
<1>12. \A t : \A i \in OfSeries(b, t) : b[i].revision = buffer[i].revision
  BY <1>6 DEF OfSeries
<1>13. \A t : Revisions(b, t) = Revisions(buffer, t) /\ (Sorted(b, t) <=> Sorted(buffer, t))
  BY <1>11, <1>12 DEF Revisions, Sorted
<1> QED
  BY <1>3, <1>4, <1>5, <1>8, <1>9, <1>10, <1>11, <1>13

LEMMA TakeStep == HistoryInv /\ TakePending => HistoryInv'
<1> SUFFICES ASSUME HistoryInv, TakePending PROVE HistoryInv'
  OBVIOUS
<1>1. /\ buffer \in Seq(Entries) /\ flush = NoFlush /\ status \in Counts
  BY DEF HistoryInv, HistoryTypeOK, FlushOrder, TakePending
<1>2. /\ flush' = [NoFlush EXCEPT !.step = "appending"]
      /\ buffer' = [i \in DOMAIN buffer |-> [buffer[i] EXCEPT !.taken = TRUE]]
      /\ pendingSamples' = 0 /\ pendingBytes' = 0
      /\ UNCHANGED <<guard, unpersisted, file, status, repeats, stranded>>
  BY DEF TakePending
<1>3. /\ flush'.step = "appending" /\ flush'.persisted = {} /\ flush'.retired = {}
      /\ flush'.written = 0 /\ flush.written = 0 /\ flush.retired = {}
      /\ flush' \in [step : {"idle", "appending"}, persisted : SUBSET Series,
                     retired : SUBSET Series, written : Nat]
  BY <1>1, <1>2 DEF NoFlush
<1>4. /\ buffer' \in Seq(Entries) /\ Len(buffer') = Len(buffer)
      /\ TakenFirst(buffer') /\ Pending(buffer') = {} /\ PendingSeries(buffer') = {}
      /\ \A t : /\ OfSeries(buffer', t) = OfSeries(buffer, t)
                /\ Revisions(buffer', t) = Revisions(buffer, t)
                /\ Sorted(buffer', t) <=> Sorted(buffer, t)
  BY <1>1, <1>2, TakenIs
<1>5. HistoryTypeOK'
  BY <1>2, <1>3, <1>4 DEF HistoryInv, HistoryTypeOK, Tracked
<1>6. AccountingIsExact'
  <2>1. /\ Cardinality(Pending(buffer)') = 0 /\ Cardinality(PendingSeries(buffer)') = 0
    BY <1>4, FS_EmptySet DEF Pending, PendingSeries
  <2>2. status'.received =
          status'.refused + status'.dropped + status'.written + flush'.written + Len(buffer')
    BY <1>2, <1>3, <1>4 DEF HistoryInv, AccountingIsExact
  <2>3. Cardinality(Tracked') <= MaxTrackedSeries
    BY <1>2 DEF HistoryInv, AccountingIsExact, Tracked
  <2> QED
    BY <1>2, <2>1, <2>2, <2>3, HistoryConstants DEF AccountingIsExact, WithinLimits
<1>7. FlushOrder'
  BY <1>3, <1>4 DEF FlushOrder, TakenFirst
<1>8. RowsRise'
  <2>0. file' = file /\ guard' = guard /\ repeats' = repeats
    BY <1>2
  <2> SUFFICES ASSUME NEW t \in Series \ repeats PROVE Rising(buffer', file[t], guard[t], t)
    BY <2>0 DEF RowsRise, Rising, RisingRows, Sorted, Revisions, OfSeries
  <2>1. Rising(buffer, file[t], guard[t], t)
    BY DEF HistoryInv, RowsRise
  <2> QED
    BY <1>4, <2>1 DEF Rising
<1>9. SlotsBacked'
  <2> SUFFICES ASSUME NEW t \in Series, guard[t] # 0
               PROVE  Backed(buffer', unpersisted, OnDisk(t), t)
    BY <1>2, <1>3 DEF SlotsBacked, Tracked, Backed, OnDisk, OfSeries
  <2>1. Backed(buffer, unpersisted, OnDisk(t), t)
    BY DEF HistoryInv, SlotsBacked, Tracked
  <2> QED
    BY <1>4, <2>1 DEF Backed
<1> QED
  BY <1>5, <1>6, <1>7, <1>8, <1>9 DEF HistoryInv

\* Where nothing is in flight, everything is pending.
LEMMA NoneInFlight ==
  ASSUME buffer \in Seq(Entries), \A t \in Series : ~InFlight(t)
  PROVE  Pending(buffer) = DOMAIN buffer
<1> SUFFICES ASSUME NEW i \in DOMAIN buffer, buffer[i].taken PROVE FALSE
  BY DEF Pending
<1>1. buffer[i] \in Entries
  BY LenProperties, ElementOfSeq
<1>2. buffer[i].series \in Series /\ i \in Taken(buffer[i].series)
  BY <1>1 DEF Taken, Entries
<1> QED
  BY <1>2 DEF InFlight

LEMMA FinishStep ==
  ASSUME HistoryInv, NEW succeeded \in BOOLEAN, FinishFlush(succeeded)
  PROVE  HistoryInv'
<1> DEFINE unflushed == unpersisted \ flush.persisted
           retired == IF succeeded THEN flush.retired ELSE {}
           gone == retired \ PendingSeries(buffer)
<1>1. /\ \A t \in Series : ~InFlight(t)
      /\ flush' = NoFlush
      /\ status' = [status EXCEPT !.written = @ + flush.written]
      /\ guard' = [t \in Series |-> IF t \in gone THEN 0 ELSE guard[t]]
      /\ unpersisted' = (unflushed \ gone) \cup (retired \cap PendingSeries(buffer))
      /\ stranded' = IF succeeded THEN stranded \ retired ELSE stranded \cup flush.retired
      /\ UNCHANGED <<buffer, pendingSamples, pendingBytes, file, repeats>>
  BY DEF FinishFlush
<1>2. /\ buffer \in Seq(Entries) /\ guard \in [Series -> Nat] /\ IsFiniteSet(Tracked)
      /\ unpersisted \in SUBSET Series /\ file \in [Series -> Seq(Nat)] /\ TakenFirst(buffer)
      /\ flush.written \in Nat /\ flush.retired \subseteq Series
  BY DEF HistoryInv, HistoryTypeOK, FlushOrder
<1>3. Pending(buffer) = DOMAIN buffer
  BY <1>1, <1>2, NoneInFlight
<1>4. /\ flush'.written = 0 /\ flush'.persisted = {} /\ flush'.retired = {}
      /\ flush' \in [step : {"idle", "appending"}, persisted : SUBSET Series,
                     retired : SUBSET Series, written : Nat]
  BY <1>1 DEF NoFlush
<1>5. /\ status' \in Counts /\ status'.received = status.received
      /\ status'.refused = status.refused /\ status'.dropped = status.dropped
      /\ status'.written = status.written + flush.written
  <2>1. status \in [received : Nat, refused : Nat, dropped : Nat, written : Nat]
    BY DEF HistoryInv, HistoryTypeOK, Counts
  <2>2. status' = [received |-> status.received, refused |-> status.refused,
                   dropped |-> status.dropped, written |-> status.written + flush.written]
    BY <1>1, <2>1
  <2> QED
    BY <1>2, <2>1, <2>2 DEF Counts
<1>6. /\ IsFiniteSet(Tracked') /\ Cardinality(Tracked') <= MaxTrackedSeries
  <2>1. Tracked' \in SUBSET Tracked
    BY <1>1 DEF Tracked
  <2>2. /\ IsFiniteSet(Tracked') /\ Cardinality(Tracked') <= Cardinality(Tracked)
        /\ Cardinality(Tracked') \in Nat /\ Cardinality(Tracked) \in Nat
    BY <1>2, <2>1, FS_Subset, FS_CardinalityType
  <2>3. Cardinality(Tracked) <= MaxTrackedSeries
    BY DEF HistoryInv, AccountingIsExact
  <2> HIDE DEF gone
  <2> QED
    BY <2>2, <2>3, HistoryConstants
<1>7. HistoryTypeOK'
  <2>1. guard' \in [Series -> Nat] /\ unpersisted' \in SUBSET Series
    BY <1>1, <1>2
  <2> QED
    BY <1>1, <1>2, <1>4, <1>5, <1>6, <2>1 DEF HistoryTypeOK
<1>8. AccountingIsExact'
  <2> DEFINE f == status.refused
             d == status.dropped
             w == status.written
             x == flush.written
             n == Len(buffer)
             r == status.received
  <2>1. r = f + d + w + x + n /\ f \in Nat /\ d \in Nat /\ w \in Nat /\ x \in Nat /\ n \in Nat
    <3>1. r = f + d + w + x + n
      BY DEF HistoryInv, AccountingIsExact
    <3>2. f \in Nat /\ d \in Nat /\ w \in Nat
      BY DEF HistoryInv, HistoryTypeOK, Counts
    <3>3. x \in Nat /\ n \in Nat
      BY <1>2, LenProperties
    <3> QED
      BY <3>1, <3>2, <3>3
  <2> HIDE DEF f, d, w, x, n, r
  <2>2. r = f + d + (w + x) + 0 + n
    BY <2>1
  <2>3. status'.received =
          status'.refused + status'.dropped + status'.written + flush'.written + Len(buffer')
    BY <1>1, <1>4, <1>5, <2>2 DEF f, d, w, x, n, r
  <2>4. /\ pendingSamples' = Cardinality(Pending(buffer)')
        /\ pendingBytes' = Cardinality(Pending(buffer)') * SampleBytes
                             + Cardinality(PendingSeries(buffer)') * KeyBytes
        /\ WithinLimits(Cardinality(PendingSeries(buffer)'), pendingSamples', pendingBytes')
    BY <1>1 DEF HistoryInv, AccountingIsExact, Pending, PendingSeries
  <2> QED
    BY <1>6, <2>3, <2>4 DEF AccountingIsExact, WithinLimits
<1>9. FlushOrder'
  BY <1>1, <1>2, <1>3, <1>4 DEF FlushOrder, TakenFirst, Pending
<1>10. RowsRise'
  <2> SUFFICES ASSUME NEW t \in Series \ repeats PROVE Rising(buffer, file[t], guard'[t], t)
    BY <1>1 DEF RowsRise, Rising, RisingRows, Sorted, Revisions, OfSeries
  <2>1. Rising(buffer, file[t], guard[t], t)
    BY DEF HistoryInv, RowsRise
  <2>2. CASE t \in gone
    <3>1. file[t] = <<>> /\ DOMAIN file[t] = {}
      BY <2>2 DEF HistoryInv, FlushOrder
    <3>2. OfSeries(buffer, t) = {}
      BY <1>3, <2>2 DEF OfSeries, PendingSeries
    <3>3. Revisions(buffer, t) = {}
      BY <3>2 DEF Revisions
    <3> QED
      BY <2>1, <3>1, <3>3 DEF Rising
  <2>3. CASE t \notin gone
    BY <1>1, <2>1, <2>3
  <2> QED
    BY <2>2, <2>3
<1>11. SlotsBacked'
  <2> SUFFICES ASSUME NEW t \in Series, guard'[t] # 0
               PROVE  Backed(buffer, unpersisted', OnDisk(t)', t)
    BY <1>1 DEF SlotsBacked, Tracked, Backed, OfSeries
  <2>1. t \notin gone /\ guard[t] # 0
    BY <1>1
  <2>2. Backed(buffer, unpersisted, OnDisk(t), t)
    BY <2>1 DEF HistoryInv, SlotsBacked, Tracked
  <2>3. CASE t \in retired
    <3>1. t \in PendingSeries(buffer) /\ t \in unpersisted'
      BY <1>1, <2>1, <2>3
    <3>2. OfSeries(buffer, t) # {}
      BY <3>1 DEF PendingSeries, OfSeries, Pending
    <3> QED
      BY <3>1, <3>2 DEF Backed
  <2>4. CASE t \notin retired
    <3>1. OnDisk(t) => OnDisk(t)'
      BY <1>1, <2>4 DEF OnDisk
    <3>2. t \notin unpersisted' => t \notin unpersisted \/ t \in flush.persisted
      BY <1>1, <2>1
    <3>3. t \in flush.persisted => OnDisk(t)
      BY DEF HistoryInv, FlushOrder, OnDisk
    <3> HIDE DEF retired, gone, unflushed
    <3> QED
      BY <2>2, <3>1, <3>2, <3>3 DEF Backed
  <2> QED
    BY <2>3, <2>4
<1> QED
  BY <1>7, <1>8, <1>9, <1>10, <1>11 DEF HistoryInv

LEMMA ReopenStep == HistoryInv /\ Reopen => HistoryInv'
<1> SUFFICES ASSUME HistoryInv, Reopen PROVE HistoryInv'
  OBVIOUS
<1>1. /\ buffer' = <<>> /\ DOMAIN buffer' = {} /\ Len(buffer') = 0 /\ buffer' \in Seq(Entries)
      /\ \A s : OfSeries(buffer', s) = {}
      /\ Pending(buffer') = {} /\ PendingSeries(buffer') = {} /\ Tracked' = {}
  BY DEF Reopen, OfSeries, Pending, PendingSeries, Tracked
<1>2. /\ Cardinality(Pending(buffer)') = 0 /\ Cardinality(PendingSeries(buffer)') = 0
      /\ IsFiniteSet(Tracked') /\ Cardinality(Tracked') = 0
  BY <1>1, FS_EmptySet DEF Pending, PendingSeries
<1>3. /\ flush' \in [step : {"idle", "appending"}, persisted : SUBSET Series,
                     retired : SUBSET Series, written : Nat]
      /\ status' \in Counts /\ flush'.written = 0
      /\ status'.received = 0 /\ status'.refused = 0 /\ status'.dropped = 0 /\ status'.written = 0
  BY DEF Reopen, NoFlush, NoStatus, Counts
<1>4. file' = [s \in Series |-> IF file[s] = <<>> THEN <<>> ELSE <<0>>]
  BY DEF Reopen
<1>5. file' \in [Series -> Seq(Nat)]
  BY <1>4
<1>6. HistoryTypeOK'
  BY <1>1, <1>2, <1>3, <1>5 DEF Reopen, HistoryTypeOK
<1>7. AccountingIsExact'
  BY <1>1, <1>2, <1>3, HistoryConstants DEF Reopen, AccountingIsExact, WithinLimits
<1>8. FlushOrder'
  BY <1>1 DEF Reopen, FlushOrder, NoFlush, TakenFirst, Pending
<1>9. RowsRise'
  <2> SUFFICES ASSUME NEW s \in Series PROVE Rising(buffer', file'[s], 0, s)
    BY DEF Reopen, RowsRise, Rising, RisingRows, Sorted, Revisions, OfSeries
  <2>1. Sorted(buffer', s) /\ Revisions(buffer', s) = {}
    BY <1>1 DEF Sorted, Revisions
  <2>2. \A i \in DOMAIN file'[s] : i = 1 /\ file'[s][i] = 0
    BY <1>4
  <2>3. \A i \in DOMAIN file'[s] : file'[s][i] <= 0
    BY <2>2
  <2>4. RisingRows(file'[s])
    BY <2>2 DEF RisingRows
  <2> QED
    BY <2>1, <2>3, <2>4 DEF Rising
<1>10. SlotsBacked'
  BY <1>1 DEF SlotsBacked
<1> QED
  BY <1>6, <1>7, <1>8, <1>9, <1>10 DEF HistoryInv

\* What is left of a file when its oldest rows go.
LEMMA TrimIs ==
  ASSUME NEW rows \in Seq(Nat), NEW n \in 1 .. Len(rows)
  PROVE  LET left == SubSeq(rows, n + 1, Len(rows))
         IN  /\ left \in Seq(Nat)
             /\ n = Len(rows) => left = <<>>
             /\ n # Len(rows) => left # <<>>
             /\ \A i \in DOMAIN left : i + n \in DOMAIN rows /\ left[i] = rows[i + n]
             /\ RisingRows(rows) => RisingRows(left)
<1> DEFINE left == SubSeq(rows, n + 1, Len(rows))
<1>1. Len(rows) \in Nat /\ DOMAIN rows = 1 .. Len(rows) /\ n \in Nat /\ n # 0 /\ n <= Len(rows)
  BY LenProperties
<1>2. \A i \in (n + 1) .. Len(rows) : rows[i] \in Nat
  BY <1>1, ElementOfSeq
<1>3. /\ left \in Seq(Nat)
      /\ Len(left) = IF n + 1 <= Len(rows) THEN Len(rows) - (n + 1) + 1 ELSE 0
      /\ \A i \in 1 .. Len(rows) - (n + 1) + 1 : left[i] = rows[n + 1 + i - 1]
  <2>1. n + 1 \in Int /\ Len(rows) \in Int
    BY <1>1
  <2> QED
    BY <1>2, <2>1, SubSeqProperties
<1> HIDE DEF left
<1> DEFINE m == Len(rows)
           l == Len(left)
<1>4. l = m - n /\ DOMAIN left = 1 .. l
  <2>1. m \in Nat /\ n \in Nat /\ n <= m /\ l = IF n + 1 <= m THEN m - (n + 1) + 1 ELSE 0
    BY <1>1, <1>3
  <2>2. DOMAIN left = 1 .. l
    BY <1>3, LenProperties
  <2> HIDE DEF m, l
  <2> QED
    BY <2>1, <2>2
<1>5. \A i \in DOMAIN left : i + n \in DOMAIN rows /\ left[i] = rows[i + n] /\ i \in Nat
  <2>1. /\ m \in Nat /\ n \in Nat /\ n <= m /\ DOMAIN rows = 1 .. m
        /\ l = m - n /\ DOMAIN left = 1 .. l
        /\ \A i \in 1 .. m - (n + 1) + 1 : left[i] = rows[n + 1 + i - 1]
    BY <1>1, <1>3, <1>4
  <2> HIDE DEF m, l
  <2> SUFFICES ASSUME NEW i \in DOMAIN left
               PROVE  i + n \in DOMAIN rows /\ left[i] = rows[i + n] /\ i \in Nat
    OBVIOUS
  <2>2. i \in Nat /\ i + n \in DOMAIN rows /\ i \in 1 .. m - (n + 1) + 1 /\ n + 1 + i - 1 = i + n
    BY <2>1
  <2> QED
    BY <2>1, <2>2
<1>6. n = Len(rows) => left = <<>>
  <2>1. n = Len(rows) => Len(left) = 0
    BY <1>1, <1>4
  <2> QED
    BY <1>3, <2>1, EmptySeq
<1>7. n # Len(rows) => left # <<>>
  <2>1. m \in Nat /\ n \in Nat /\ l = m - n
    BY <1>1, <1>4
  <2>2. n # m => l # 0
    <3> HIDE DEF m, l
    <3> QED
      BY <2>1
  <2> QED
    BY <1>3, <2>2, EmptySeq
<1>8. RisingRows(rows) => RisingRows(left)
  <2> SUFFICES ASSUME RisingRows(rows), NEW i \in DOMAIN left, NEW j \in DOMAIN left,
                      i < j, left[j] # 0
               PROVE  left[i] < left[j]
    BY DEF RisingRows
  <2>1. /\ i + n \in DOMAIN rows /\ left[i] = rows[i + n]
        /\ j + n \in DOMAIN rows /\ left[j] = rows[j + n] /\ i + n < j + n
    BY <1>1, <1>5
  <2> QED
    BY <2>1 DEF RisingRows
<1> QED
  BY <1>3, <1>5, <1>6, <1>7, <1>8 DEF left

LEMMA TrimStep ==
  ASSUME HistoryInv, NEW s \in Series, NEW n \in 1 .. Len(file[s]), TrimFile(s, n)
  PROVE  HistoryInv'
<1> DEFINE left == SubSeq(file[s], n + 1, Len(file[s]))
<1>1. /\ flush.step = "appending" /\ \A t \in Series : ~InFlight(t)
      /\ file' = [file EXCEPT ![s] = left]
      /\ flush' = IF n = Len(file[s]) THEN [flush EXCEPT !.retired = @ \cup {s}] ELSE flush
      /\ UNCHANGED <<buffer, pendingSamples, pendingBytes, guard, unpersisted, status, repeats,
                     stranded>>
  BY DEF TrimFile
<1>2. /\ buffer \in Seq(Entries) /\ file \in [Series -> Seq(Nat)] /\ file[s] \in Seq(Nat)
  BY DEF HistoryInv, HistoryTypeOK
<1>3. Pending(buffer) = DOMAIN buffer
  BY <1>1, <1>2, NoneInFlight
<1>4. /\ left \in Seq(Nat)
      /\ n = Len(file[s]) => left = <<>>
      /\ n # Len(file[s]) => left # <<>>
      /\ \A i \in DOMAIN left : i + n \in DOMAIN file[s] /\ left[i] = file[s][i + n]
      /\ RisingRows(file[s]) => RisingRows(left)
  BY <1>2, TrimIs
<1>5. file[s] # <<>>
  OBVIOUS
<1> HIDE DEF left
<1>6. /\ file' \in [Series -> Seq(Nat)] /\ file'[s] = left
      /\ \A t \in Series : t # s => file'[t] = file[t]
  BY <1>1, <1>2, <1>4
<1>7. /\ flush' \in [step : {"idle", "appending"}, persisted : SUBSET Series,
                     retired : SUBSET Series, written : Nat]
      /\ flush'.step = "appending" /\ flush'.persisted = flush.persisted
      /\ flush'.written = flush.written
      /\ flush'.retired = IF n = Len(file[s]) THEN flush.retired \cup {s} ELSE flush.retired
      /\ flush.persisted \subseteq Series /\ flush.retired \subseteq Series
  <2>1. flush \in [step : {"idle", "appending"}, persisted : SUBSET Series,
                   retired : SUBSET Series, written : Nat]
    BY DEF HistoryInv, HistoryTypeOK
  <2>2. CASE n = Len(file[s])
    BY <1>1, <2>1, <2>2
  <2>3. CASE n # Len(file[s])
    BY <1>1, <2>1, <2>3
  <2> QED
    BY <2>2, <2>3
<1>8. HistoryTypeOK'
  BY <1>1, <1>6, <1>7 DEF HistoryInv, HistoryTypeOK, Tracked
<1>9. AccountingIsExact'
  BY <1>1, <1>7 DEF HistoryInv, AccountingIsExact, WithinLimits, Pending, PendingSeries, Tracked
<1>10. FlushOrder'
  <2>1. \A t \in flush'.retired : file'[t] = <<>>
    BY <1>4, <1>5, <1>6, <1>7 DEF HistoryInv, FlushOrder
  <2>2. \A t \in flush'.persisted : t \in flush'.retired \/ file'[t] # <<>>
    BY <1>4, <1>6, <1>7 DEF HistoryInv, FlushOrder
  <2> QED
    BY <1>1, <1>3, <1>7, <2>1, <2>2 DEF HistoryInv, FlushOrder, TakenFirst, Pending
<1>11. RowsRise'
  <2> SUFFICES ASSUME NEW t \in Series \ repeats PROVE Rising(buffer, file'[t], guard[t], t)
    BY <1>1 DEF RowsRise, Rising, RisingRows, Sorted, Revisions, OfSeries
  <2>1. Rising(buffer, file[t], guard[t], t)
    BY DEF HistoryInv, RowsRise
  <2>2. CASE t = s
    BY <1>4, <1>6, <2>1, <2>2 DEF Rising
  <2>3. CASE t # s
    BY <1>6, <2>1, <2>3
  <2> QED
    BY <2>2, <2>3
<1>12. SlotsBacked'
  <2> SUFFICES ASSUME NEW t \in Series, guard[t] # 0
               PROVE  Backed(buffer, unpersisted, OnDisk(t)', t)
    BY <1>1 DEF SlotsBacked, Tracked, Backed, OfSeries
  <2>1. Backed(buffer, unpersisted, OnDisk(t), t)
    BY DEF HistoryInv, SlotsBacked, Tracked
  <2>2. OnDisk(t) => OnDisk(t)'
    BY <1>1, <1>4, <1>6, <1>7 DEF OnDisk
  <2> QED
    BY <2>1, <2>2 DEF Backed
<1> QED
  BY <1>8, <1>9, <1>10, <1>11, <1>12 DEF HistoryInv

\* Rows behind rows that are all below them.
LEMMA ConcatRises ==
  ASSUME NEW rows \in Seq(Nat), NEW more \in Seq(Nat)
  PROVE  LET all == rows \o more
         IN  /\ all \in Seq(Nat) /\ (all = <<>> <=> rows = <<>> /\ more = <<>>)
             /\ \A i \in DOMAIN all :
                  \/ i \in DOMAIN rows /\ all[i] = rows[i]
                  \/ i - Len(rows) \in DOMAIN more /\ all[i] = more[i - Len(rows)]
             /\ /\ RisingRows(rows) /\ RisingRows(more)
                /\ \A i \in DOMAIN rows, j \in DOMAIN more : rows[i] < more[j]
                => RisingRows(all)
<1> DEFINE all == rows \o more
           m == Len(rows)
           n == Len(more)
<1>1. /\ m \in Nat /\ DOMAIN rows = 1 .. m
      /\ n \in Nat /\ DOMAIN more = 1 .. n
  BY LenProperties
<1>2. /\ all \in Seq(Nat) /\ Len(all) = m + n
      /\ \A i \in 1 .. m + n : all[i] = IF i <= m THEN rows[i] ELSE more[i - m]
  BY ConcatProperties
<1> HIDE DEF all
<1>3. DOMAIN all = 1 .. m + n
  BY <1>2, LenProperties
<1>4. all = <<>> <=> rows = <<>> /\ more = <<>>
  <2>1. /\ all = <<>> <=> Len(all) = 0
        /\ rows = <<>> <=> m = 0
        /\ more = <<>> <=> n = 0
    BY <1>2, EmptySeq
  <2> HIDE DEF m, n
  <2> QED
    BY <1>1, <1>2, <2>1
<1> HIDE DEF m, n
<1>5. \A i \in DOMAIN all :
        \/ i \in DOMAIN rows /\ all[i] = rows[i]
        \/ i - m \in DOMAIN more /\ all[i] = more[i - m] /\ i \notin DOMAIN rows
  BY <1>1, <1>2, <1>3
<1>6. ASSUME RisingRows(rows), RisingRows(more),
             \A i \in DOMAIN rows, j \in DOMAIN more : rows[i] < more[j]
      PROVE  RisingRows(all)
  <2> SUFFICES ASSUME NEW i \in DOMAIN all, NEW j \in DOMAIN all, i < j, all[j] # 0
               PROVE  all[i] < all[j]
    BY DEF RisingRows
  <2>1. CASE j \in DOMAIN rows
    <3>1. i \in DOMAIN rows /\ all[i] = rows[i] /\ all[j] = rows[j]
      BY <1>1, <1>2, <1>3, <2>1
    <3> QED
      BY <1>6, <2>1, <3>1 DEF RisingRows
  <2>2. CASE j \notin DOMAIN rows
    <3>1. j - m \in DOMAIN more /\ all[j] = more[j - m]
      BY <1>5, <2>2
    <3>2. CASE i \in DOMAIN rows
      <4>1. all[i] = rows[i]
        BY <1>1, <1>2, <1>3, <3>2
      <4> QED
        BY <1>6, <3>1, <3>2, <4>1
    <3>3. CASE i \notin DOMAIN rows
      <4>1. i - m \in DOMAIN more /\ all[i] = more[i - m] /\ i - m < j - m
        BY <1>1, <1>3, <1>5, <3>3
      <4> QED
        BY <1>6, <3>1, <4>1 DEF RisingRows
    <3> QED
      BY <3>2, <3>3
  <2> QED
    BY <2>1, <2>2
<1> QED
  BY <1>2, <1>4, <1>5, <1>6 DEF all, m, n

\* The revisions of samples of one series, in the order of its queue.
LEMMA QueuedRowsRise ==
  ASSUME NEW b \in Seq(Entries), NEW s, NEW keep \in SUBSET OfSeries(b, s)
  PROVE  LET c == Select(b, keep)
             rows == [i \in DOMAIN c |-> c[i].revision]
         IN  /\ rows \in Seq(Nat) /\ Len(rows) = Cardinality(keep)
             /\ keep # {} => rows # <<>>
             /\ \A i \in DOMAIN rows : rows[i] \in {b[k].revision : k \in keep}
             /\ Sorted(b, s) => RisingRows(rows)
<1> DEFINE c == Select(b, keep)
           rows == [i \in DOMAIN c |-> c[i].revision]
<1>1. keep \in SUBSET DOMAIN b
  BY DEF OfSeries
<1>2. /\ rows \in Seq(Nat) /\ Len(rows) = Cardinality(keep)
      /\ \A i \in DOMAIN rows :
           Nth(keep, i) \in keep /\ rows[i] = b[Nth(keep, i)].revision
      /\ \A i, j \in DOMAIN rows : i < j => Nth(keep, i) < Nth(keep, j)
      /\ keep # {} => rows # <<>>
  BY <1>1, RowsOf
<1> HIDE DEF c, rows
<1>3. Sorted(b, s) => RisingRows(rows)
  BY <1>2 DEF Sorted, RisingRows
<1>4. \A i \in DOMAIN rows : rows[i] \in {b[k].revision : k \in keep}
  BY <1>2
<1> QED
  BY <1>2, <1>3, <1>4 DEF c, rows

\* What a selection holds of a series is what it keeps of it.
LEMMA RevisionsKept ==
  ASSUME NEW b \in Seq(Entries), NEW keep \in SUBSET DOMAIN b, NEW s
  PROVE  Revisions(Select(b, keep), s) \subseteq {b[k].revision : k \in OfSeries(b, s) \cap keep}
<1> DEFINE c == Select(b, keep)
<1>1. \A n \in DOMAIN c : Nth(keep, n) \in keep /\ c[n] = b[Nth(keep, n)]
  BY SelectIs
<1> HIDE DEF c
<1>2. \A n \in OfSeries(c, s) : Nth(keep, n) \in OfSeries(b, s) \cap keep
  BY <1>1 DEF OfSeries
<1>3. \A n \in OfSeries(c, s) : c[n].revision = b[Nth(keep, n)].revision
  BY <1>1 DEF OfSeries
<1>4. Revisions(c, s) \subseteq {b[k].revision : k \in OfSeries(b, s) \cap keep}
  BY <1>2, <1>3 DEF Revisions
<1> QED
  BY <1>4 DEF c

\* What is in flight of a series has been written: its rows follow the file,
\* and what stays of the series in the buffer follows them.
LEMMA AppendRises ==
  ASSUME buffer \in Seq(Entries), file \in [Series -> Seq(Nat)], TakenFirst(buffer),
         NEW s \in Series, InFlight(s)
  PROVE  LET c == Select(buffer, DOMAIN buffer \ Taken(s))
             rows == file[s] \o Rows(s)
         IN  /\ rows \in Seq(Nat) /\ rows # <<>>
             /\ Rising(buffer, file[s], guard[s], s) => Rising(c, rows, guard[s], s)
<1> DEFINE keep == DOMAIN buffer \ Taken(s)
           c == Select(buffer, keep)
           more == Rows(s)
           rows == file[s] \o more
<1>1. /\ Taken(s) \in SUBSET OfSeries(buffer, s) /\ Taken(s) # {} /\ keep \in SUBSET DOMAIN buffer
  BY DEF Taken, OfSeries, InFlight
<1>2. /\ more \in Seq(Nat) /\ more # <<>>
      /\ \A i \in DOMAIN more : more[i] \in {buffer[k].revision : k \in Taken(s)}
      /\ Sorted(buffer, s) => RisingRows(more)
  BY <1>1, QueuedRowsRise DEF Rows
<1>3. file[s] \in Seq(Nat)
  OBVIOUS
<1>4. /\ Sorted(buffer, s) => Sorted(c, s)
      /\ Revisions(c, s) \subseteq {buffer[k].revision : k \in OfSeries(buffer, s) \cap keep}
  BY <1>1, OrderOfSelect, RevisionsKept
<1> HIDE DEF more
<1>5. /\ rows \in Seq(Nat) /\ rows # <<>>
      /\ \A i \in DOMAIN rows :
           \/ i \in DOMAIN file[s] /\ rows[i] = file[s][i]
           \/ i - Len(file[s]) \in DOMAIN more /\ rows[i] = more[i - Len(file[s])]
      /\ /\ RisingRows(file[s]) /\ RisingRows(more)
         /\ \A i \in DOMAIN file[s], j \in DOMAIN more : file[s][i] < more[j]
         => RisingRows(rows)
  BY <1>2, <1>3, ConcatRises
<1>6. ASSUME Rising(buffer, file[s], guard[s], s) PROVE Rising(c, rows, guard[s], s)
  <2> DEFINE R == Revisions(buffer, s)
             C == Revisions(c, s)
             M == {buffer[k].revision : k \in Taken(s)}
             f == file[s]
             g == guard[s]
  <2>1. /\ RisingRows(f) /\ Sorted(buffer, s)
        /\ \A i \in DOMAIN f : f[i] <= g /\ \A r \in R : f[i] < r
        /\ \A r \in R : r <= g
    BY <1>6 DEF Rising
  <2>2. M \subseteq R
    BY <1>1 DEF Revisions
  <2>3. C \subseteq R
    BY <1>1, OrderOfSelect
  <2>4. \A x \in M, y \in C : x < y
    <3> SUFFICES ASSUME NEW k \in Taken(s), NEW l \in OfSeries(buffer, s) \cap keep
                 PROVE  buffer[k].revision < buffer[l].revision
      BY <1>4
    <3>1. k < l
      BY DEF Taken, OfSeries, TakenFirst
    <3> QED
      BY <1>1, <2>1, <3>1 DEF Sorted
  <2>5. Sorted(c, s)
    BY <1>4, <2>1
  <2> HIDE DEF R, C, M, f, g, c, rows, keep
  <2>6. \A j \in DOMAIN more : more[j] \in M /\ more[j] \in R
    BY <1>2, <2>2 DEF M
  <2>7. RisingRows(rows)
    BY <1>2, <1>5, <2>1, <2>6 DEF f
  <2>8. \A i \in DOMAIN rows : rows[i] <= g /\ \A r \in C : rows[i] < r
    <3> SUFFICES ASSUME NEW i \in DOMAIN rows PROVE rows[i] <= g /\ \A r \in C : rows[i] < r
      OBVIOUS
    <3>1. CASE i \in DOMAIN f /\ rows[i] = f[i]
      BY <2>1, <2>3, <3>1
    <3>2. CASE rows[i] \in M
      BY <2>1, <2>2, <2>4, <3>2
    <3> QED
      BY <1>5, <2>6, <3>1, <3>2 DEF f
  <2>9. \A r \in C : r <= g
    BY <2>1, <2>3
  <2> QED
    BY <2>5, <2>7, <2>8, <2>9 DEF Rising, C, g
<1> QED
  BY <1>5, <1>6 DEF more

LEMMA AppendStep ==
  ASSUME HistoryInv, NEW s \in Series, AppendSamples(s)
  PROVE  HistoryInv'
<1> DEFINE keep == DOMAIN buffer \ Taken(s)
           c == Select(buffer, keep)
           m == Cardinality(Taken(s))
           rows == file[s] \o Rows(s)
<1>1. /\ InFlight(s) /\ flush.step = "appending"
      /\ file' = [file EXCEPT ![s] = rows]
      /\ buffer' = c
      /\ flush' = [flush EXCEPT !.persisted = @ \cup {s}, !.written = @ + m]
      /\ UNCHANGED <<pendingSamples, pendingBytes, guard, unpersisted, status, repeats, stranded>>
  BY DEF AppendSamples
<1>2. /\ buffer \in Seq(Entries) /\ file \in [Series -> Seq(Nat)] /\ TakenFirst(buffer)
      /\ keep \in SUBSET DOMAIN buffer
  BY DEF HistoryInv, HistoryTypeOK, FlushOrder
<1>3. /\ rows \in Seq(Nat) /\ rows # <<>>
      /\ Rising(buffer, file[s], guard[s], s) => Rising(c, rows, guard[s], s)
  BY <1>1, <1>2, AppendRises
<1>4. /\ TakenFirst(c) /\ c \in Seq(Entries)
      /\ \A t : /\ Sorted(buffer, t) => Sorted(c, t)
                /\ Revisions(c, t) \subseteq Revisions(buffer, t)
                /\ OfSeries(c, t) # {} <=> OfSeries(buffer, t) \cap keep # {}
  BY <1>2, OrderOfSelect, SelectIs
<1>5. m \in Nat /\ Len(c) + m = Len(buffer)
  <2>1. /\ IsFiniteSet(DOMAIN buffer) /\ Cardinality(DOMAIN buffer) = Len(buffer)
    BY <1>2, DomainCount
  <2>2. Taken(s) \in SUBSET DOMAIN buffer /\ DOMAIN buffer \cap Taken(s) = Taken(s)
    BY DEF Taken
  <2>3. IsFiniteSet(Taken(s)) /\ m \in Nat
    BY <2>1, <2>2, FS_Subset, FS_CardinalityType
  <2>4. Cardinality(keep) = Cardinality(DOMAIN buffer) - m
    <3>1. Cardinality(keep) =
            Cardinality(DOMAIN buffer) - Cardinality(DOMAIN buffer \cap Taken(s))
      BY <2>1, <2>3, FS_Difference
    <3> QED
      BY <2>2, <3>1
  <2>5. Len(c) = Cardinality(keep)
    BY <1>2, SelectIs
  <2>6. Len(buffer) \in Nat
    BY <1>2, LenProperties
  <2> HIDE DEF m, c, keep
  <2> QED
    BY <2>1, <2>3, <2>4, <2>5, <2>6
<1>6. /\ Cardinality(Pending(c)) = Cardinality(Pending(buffer))
      /\ PendingSeries(c) = PendingSeries(buffer)
  <2>1. Pending(buffer) \cap keep = Pending(buffer)
    BY DEF Pending, Taken
  <2> QED
    BY <1>2, <2>1, PendingOfSelect DEF PendingSeries
<1>7. \A t \in Series : t # s => OfSeries(buffer, t) \cap keep = OfSeries(buffer, t)
  BY DEF OfSeries, Taken
<1> HIDE DEF c, keep, m, rows
<1>8. /\ file' \in [Series -> Seq(Nat)] /\ file'[s] = rows
      /\ \A t \in Series : t # s => file'[t] = file[t]
  BY <1>1, <1>2, <1>3
<1>9. /\ flush' \in [step : {"idle", "appending"}, persisted : SUBSET Series,
                     retired : SUBSET Series, written : Nat]
      /\ flush'.step = "appending" /\ flush'.persisted = flush.persisted \cup {s}
      /\ flush'.written = flush.written + m /\ flush'.retired = flush.retired
      /\ flush.persisted \subseteq Series /\ flush.written \in Nat
  <2>1. flush \in [step : {"idle", "appending"}, persisted : SUBSET Series,
                   retired : SUBSET Series, written : Nat]
    BY DEF HistoryInv, HistoryTypeOK
  <2>2. flush' = [step |-> flush.step, persisted |-> flush.persisted \cup {s},
                  retired |-> flush.retired, written |-> flush.written + m]
    BY <1>1, <2>1
  <2>3. flush.written + m \in Nat /\ flush.persisted \cup {s} \in SUBSET Series
    BY <1>5, <2>1
  <2> QED
    BY <1>1, <2>1, <2>2, <2>3
<1>10. flush.retired = {}
  <2>1. Pending(buffer) # DOMAIN buffer
    BY <1>1 DEF InFlight, Taken, Pending
  <2> QED
    BY <2>1 DEF HistoryInv, FlushOrder
<1>11. HistoryTypeOK'
  BY <1>1, <1>4, <1>8, <1>9 DEF HistoryInv, HistoryTypeOK, Tracked
<1>12. AccountingIsExact'
  <2> DEFINE f == status.refused
             d == status.dropped
             w == status.written
             x == flush.written
             n == Len(c)
             r == status.received
  <2>1. /\ r = f + d + w + x + (n + m)
        /\ f \in Nat /\ d \in Nat /\ w \in Nat /\ x \in Nat /\ n \in Nat
    <3>1. r = f + d + w + x + (n + m)
      BY <1>5 DEF HistoryInv, AccountingIsExact
    <3>2. f \in Nat /\ d \in Nat /\ w \in Nat
      BY DEF HistoryInv, HistoryTypeOK, Counts
    <3>3. x \in Nat /\ n \in Nat
      BY <1>4, <1>9, LenProperties
    <3> QED
      BY <3>1, <3>2, <3>3
  <2> HIDE DEF f, d, w, x, n, r
  <2>2. r = f + d + w + (x + m) + n
    BY <1>5, <2>1
  <2>3. status'.received =
          status'.refused + status'.dropped + status'.written + flush'.written + Len(buffer')
    BY <1>1, <1>9, <2>2 DEF f, d, w, x, n, r
  <2>4. /\ pendingSamples' = Cardinality(Pending(c))
        /\ pendingBytes' = Cardinality(Pending(c)) * SampleBytes
                             + Cardinality(PendingSeries(c)) * KeyBytes
        /\ WithinLimits(Cardinality(PendingSeries(c)), pendingSamples', pendingBytes')
    BY <1>1, <1>6 DEF HistoryInv, AccountingIsExact
  <2>5. Cardinality(Tracked') <= MaxTrackedSeries
    BY <1>1 DEF HistoryInv, AccountingIsExact, Tracked
  <2> QED
    BY <1>1, <2>3, <2>4, <2>5 DEF AccountingIsExact, WithinLimits, Pending, PendingSeries
<1>13. FlushOrder'
  BY <1>1, <1>3, <1>4, <1>8, <1>9, <1>10 DEF HistoryInv, FlushOrder, TakenFirst
<1>14. RowsRise'
  <2> SUFFICES ASSUME NEW t \in Series \ repeats PROVE Rising(c, file'[t], guard[t], t)
    BY <1>1 DEF RowsRise, Rising, RisingRows, Sorted, Revisions, OfSeries
  <2>1. Rising(buffer, file[t], guard[t], t)
    BY DEF HistoryInv, RowsRise
  <2>2. CASE t = s
    BY <1>3, <1>8, <2>1, <2>2
  <2>3. CASE t # s
    <3>1. file'[t] = file[t]
      BY <1>8, <2>3
    <3> QED
      BY <1>4, <2>1, <3>1 DEF Rising
  <2> QED
    BY <2>2, <2>3
<1>15. SlotsBacked'
  <2> SUFFICES ASSUME NEW t \in Series, guard[t] # 0
               PROVE  Backed(c, unpersisted, OnDisk(t)', t)
    BY <1>1 DEF SlotsBacked, Tracked, Backed, OfSeries
  <2>1. Backed(buffer, unpersisted, OnDisk(t), t)
    BY DEF HistoryInv, SlotsBacked, Tracked
  <2>2. CASE t = s
    <3>1. OnDisk(t)'
      BY <1>3, <1>8, <2>2 DEF OnDisk
    <3> QED
      BY <3>1 DEF Backed
  <2>3. CASE t # s
    <3>1. OnDisk(t)' <=> OnDisk(t)
      BY <1>1, <1>8, <1>9, <2>3 DEF OnDisk
    <3> QED
      BY <1>4, <1>7, <2>1, <2>3, <3>1 DEF Backed
  <2> QED
    BY <2>2, <2>3
<1> QED
  BY <1>11, <1>12, <1>13, <1>14, <1>15 DEF HistoryInv

LEMMA HistoryInvStep == HistoryInv /\ [HistoryNext]_historyVars => HistoryInv'
<1> SUFFICES ASSUME HistoryInv, [HistoryNext]_historyVars PROVE HistoryInv'
  OBVIOUS
<1>1. CASE \E s \in Series, revision \in 1 .. MaxRevision :
             Record(s, revision) \/ Refuse(s, revision)
  BY <1>1, RecordStep, RefuseStep
<1>2. CASE Flush
  <2>1. CASE TakePending
    BY <2>1, TakeStep
  <2>2. CASE \E s \in Series : AppendSamples(s)
    BY <2>2, AppendStep
  <2>3. CASE \E s \in Series : \E n \in 0 .. MaxPendingSamples : RequeueFailed(s, n)
    <3>1. 0 .. MaxPendingSamples \subseteq Nat
      BY HistoryConstants
    <3> QED
      BY <2>3, <3>1, RequeueStep
  <2>4. CASE \E s \in Series : \E n \in 1 .. Len(file[s]) : TrimFile(s, n)
    BY <2>4, TrimStep
  <2>5. CASE \E succeeded \in BOOLEAN : FinishFlush(succeeded)
    BY <2>5, FinishStep
  <2> QED
    BY <1>2, <2>1, <2>2, <2>3, <2>4, <2>5 DEF Flush
<1>3. CASE Reopen
  BY <1>3, ReopenStep
<1>4. CASE UNCHANGED historyVars
  <2>1. UNCHANGED <<buffer, pendingSamples, pendingBytes, guard, unpersisted, flush, file, status,
                    repeats, stranded>>
    BY <1>4 DEF historyVars
  <2>2. HistoryTypeOK'
    BY <2>1 DEF HistoryInv, HistoryTypeOK, Tracked
  <2>3. AccountingIsExact'
    BY <2>1 DEF HistoryInv, AccountingIsExact, WithinLimits, Pending, PendingSeries, Tracked
  <2>4. FlushOrder'
    BY <2>1 DEF HistoryInv, FlushOrder, TakenFirst, Pending, NoFlush
  <2>5. RowsRise'
    BY <2>1 DEF HistoryInv, RowsRise, Rising, RisingRows, Sorted, Revisions, OfSeries
  <2>6. SlotsBacked'
    BY <2>1 DEF HistoryInv, SlotsBacked, Tracked, Backed, OnDisk, OfSeries
  <2> QED
    BY <2>2, <2>3, <2>4, <2>5, <2>6 DEF HistoryInv
<1> QED
  BY <1>1, <1>2, <1>3, <1>4 DEF HistoryNext

LEMMA HistoryInvariant == HistorySpec => []HistoryInv
  BY HistoryInvInit, HistoryInvStep, PTL DEF HistorySpec

\* Buffered is the queue of a series.
LEMMA BufferedIs ==
  ASSUME buffer \in Seq(Entries), NEW s
  PROVE  /\ Buffered(s) \in Seq(Nat)
         /\ Buffered(s) # <<>> <=> OfSeries(buffer, s) # {}
         /\ \A i \in DOMAIN Buffered(s) : Buffered(s)[i] \in Revisions(buffer, s)
         /\ Sorted(buffer, s) => RisingRows(Buffered(s))
<1> DEFINE keep == OfSeries(buffer, s)
           c == Select(buffer, keep)
           rows == [i \in DOMAIN c |-> c[i].revision]
<1>1. Buffered(s) = rows
  BY DEF Buffered, OfSeries
<1>2. /\ rows \in Seq(Nat) /\ Len(rows) = Cardinality(keep)
      /\ keep # {} => rows # <<>>
      /\ \A i \in DOMAIN rows : rows[i] \in {buffer[k].revision : k \in keep}
      /\ Sorted(buffer, s) => RisingRows(rows)
  BY QueuedRowsRise
<1>3. keep = {} => rows = <<>>
  <2> HIDE DEF rows
  <2>1. keep = {} => Len(rows) = 0
    BY <1>2, FS_EmptySet
  <2> QED
    BY <1>2, <2>1, EmptySeq
<1> QED
  BY <1>1, <1>2, <1>3 DEF Revisions

\* The pending samples and bytes that backpressure trusts are exact at every
\* moment of a flush, the limits hold, and every sample received is refused,
\* dropped, written or still buffered, for any number of series, any limits
\* and any sizes of keys and samples.
THEOREM NoSampleIsLost == HistorySpec => []AccountingIsExact
<1>1. HistoryInv => AccountingIsExact
  BY DEF HistoryInv
<1> QED
  BY <1>1, HistoryInvariant, PTL

\* What is on disk of a series and what is going to follow it from the buffer
\* is in the order of its revisions, without repetition, except for a series
\* whose guard backpressure released over rows or samples in flight and for
\* one that an append left by half.
THEOREM RowsKeepTheirOrder == HistorySpec => []RowsIncrease
<1>1. HistoryInv => RowsIncrease
  <2> SUFFICES ASSUME HistoryInv, NEW s \in Series \ repeats
               PROVE  RisingRows(file[s] \o Buffered(s))
    BY DEF RowsIncrease, RisingRows
  <2>1. buffer \in Seq(Entries) /\ file[s] \in Seq(Nat)
    BY DEF HistoryInv, HistoryTypeOK
  <2>2. Rising(buffer, file[s], guard[s], s)
    BY DEF HistoryInv, RowsRise
  <2>3. /\ Buffered(s) \in Seq(Nat)
        /\ \A i \in DOMAIN Buffered(s) : Buffered(s)[i] \in Revisions(buffer, s)
        /\ Sorted(buffer, s) => RisingRows(Buffered(s))
    BY <2>1, BufferedIs
  <2>4. \A i \in DOMAIN file[s], j \in DOMAIN Buffered(s) : file[s][i] < Buffered(s)[j]
    BY <2>2, <2>3 DEF Rising
  <2>5. RisingRows(file[s]) /\ RisingRows(Buffered(s))
    BY <2>2, <2>3 DEF Rising
  <2> QED
    BY <2>1, <2>3, <2>4, <2>5, ConcatRises
<1> QED
  BY <1>1, HistoryInvariant, PTL

\* A series that holds one of the tracked slots is buffered or on disk, unless
\* a retention that failed has retired it.
THEOREM SlotsAreGivenBack == HistorySpec => []TrackedIsBacked
<1>1. HistoryInv => TrackedIsBacked
  <2> SUFFICES ASSUME HistoryInv, NEW s \in Tracked
               PROVE  \/ s \in stranded \cup flush.retired
                      \/ file[s] # <<>> \/ Buffered(s) # <<>>
    BY DEF TrackedIsBacked
  <2>1. Backed(buffer, unpersisted, OnDisk(s), s)
    BY DEF HistoryInv, SlotsBacked
  <2>2. Buffered(s) # <<>> <=> OfSeries(buffer, s) # {}
    BY BufferedIs DEF HistoryInv, HistoryTypeOK
  <2> QED
    BY <2>1, <2>2 DEF Backed, OnDisk
<1> QED
  BY <1>1, HistoryInvariant, PTL

=============================================================================
