----------------------------- MODULE HistoryClaim -----------------------------
(***************************************************************************)
(* The claim on one history directory (store/lock.rs), taken and released  *)
(* by processes that come and go: an exclusively locked file whose text    *)
(* names its owner, and which the owner unlinks when it lets go.           *)
(*                                                                         *)
(* A process is its pid, which is not used again; it opens the store a     *)
(* bounded number of times, one generation after the other.  A file is a   *)
(* number, and keeps its lock and its text when its name is taken away.    *)
(***************************************************************************)
EXTENDS Naturals, FiniteSets

CONSTANTS
  Pids,             \* processes of this user that open the store
  MaxGenerations    \* bound: times one process opens it

ASSUME ClaimConstants ==
  IsFiniteSet(Pids) /\ "none" \notin Pids /\ MaxGenerations \in Nat \ {0}

VARIABLES
  path,      \* the file the name history.lock stands for, 0: none
  claim,     \* the text of every file created so far
  holder,    \* the opening or ownership of each process
  generation,
  alive

claimVars == <<path, claim, holder, generation, alive>>

Empty == [pid |-> "none", sequence |-> 0]       \* no text, or not all of it
Token(p) == [pid |-> p, sequence |-> generation[p]]
Out == [at |-> "out", file |-> 0]
Files == DOMAIN claim

LockedSteps == {"named", "locked", "accepted", "owner"}
LockFree(f) == \A p \in Pids : ~(holder[p].at \in LockedSteps /\ holder[p].file = f)
Step(p, at) == holder' = [holder EXCEPT ![p].at = at]
GiveUp(p) == holder' = [holder EXCEPT ![p] = Out]
At(p, at) == alive[p] /\ holder[p].at = at

-----------------------------------------------------------------------------
(* acquire_root_lock. *)

\* OpenOptions::create_new on the name.
CreateNew(p) ==
  /\ At(p, "out") /\ generation[p] < MaxGenerations
  /\ generation' = [generation EXCEPT ![p] = @ + 1]
  /\ IF path = 0
       THEN LET f == Cardinality(Files) + 1 IN
            /\ claim' = [g \in Files \cup {f} |-> IF g = f THEN Empty ELSE claim[g]]
            /\ path' = f
            /\ holder' = [holder EXCEPT ![p] = [at |-> "created", file |-> f]]
       ELSE /\ Step(p, "exists")
            /\ UNCHANGED <<path, claim>>
  /\ UNCHANGED alive

\* Another opening may have locked the new file first: the name goes.
LockNew(p) ==
  /\ At(p, "created")
  /\ IF LockFree(holder[p].file) THEN Step(p, "named") /\ UNCHANGED path
                                 ELSE GiveUp(p) /\ path' = 0
  /\ UNCHANGED <<claim, generation, alive>>

\* write_claim on the new file; when it fails the name goes as well.
WriteNew(p) ==
  /\ At(p, "named")
  /\ \/ /\ claim' = [claim EXCEPT ![holder[p].file] = Token(p)]
        /\ Step(p, "owner") /\ UNCHANGED path
     \/ /\ path' = 0
        /\ GiveUp(p) /\ UNCHANGED claim
  /\ UNCHANGED <<generation, alive>>

-----------------------------------------------------------------------------
(* acquire_existing_claim. *)

OpenExisting(p) ==
  /\ At(p, "exists")
  /\ IF path = 0 THEN GiveUp(p)
                 ELSE holder' = [holder EXCEPT ![p] = [at |-> "opened", file |-> path]]
  /\ UNCHANGED <<path, claim, generation, alive>>

LockExisting(p) ==
  /\ At(p, "opened")
  /\ IF LockFree(holder[p].file) THEN Step(p, "locked") ELSE GiveUp(p)
  /\ UNCHANGED <<path, claim, generation, alive>>

\* Faulty: a free lock is taken for proof that the owner is gone.
FaultyInspect(p) ==
  /\ At(p, "locked")
  /\ IF claim[holder[p].file] = Empty THEN GiveUp(p) ELSE Step(p, "accepted")
  /\ UNCHANGED <<path, claim, generation, alive>>

\* read_claim_fail_closed, and whether the process it names is gone.
Inspect(p) ==
  /\ At(p, "locked")
  /\ LET named == claim[holder[p].file] IN
     IF \/ named = Empty
        \/ named.pid # p /\ alive[named.pid]
       THEN GiveUp(p) ELSE Step(p, "accepted")
  /\ UNCHANGED <<path, claim, generation, alive>>

\* write_claim on the claim taken over: it truncates before it writes.
Retake(p) ==
  /\ At(p, "accepted")
  /\ \/ /\ claim' = [claim EXCEPT ![holder[p].file] = Token(p)]
        /\ Step(p, "owner")
     \/ /\ claim' = [claim EXCEPT ![holder[p].file] = Empty]
        /\ GiveUp(p)
  /\ UNCHANGED <<path, generation, alive>>

-----------------------------------------------------------------------------
(* RootLockOwnership::drop, step by step. *)

CloseHandle(p) ==
  /\ At(p, "owner") /\ Step(p, "closed")
  /\ UNCHANGED <<path, claim, generation, alive>>

Compare(p) ==
  /\ At(p, "closed")
  /\ IF path # 0 /\ claim[path] = Token(p) THEN Step(p, "unlinking") ELSE GiveUp(p)
  /\ UNCHANGED <<path, claim, generation, alive>>

\* By name; after three refusals the claim is left behind.
Unlink(p) ==
  /\ At(p, "unlinking") /\ GiveUp(p)
  /\ path' \in {0, path}
  /\ UNCHANGED <<claim, generation, alive>>

\* The system gives up the locks of a process that ends, at whatever step.
Exit(p) ==
  /\ alive[p]
  /\ alive' = [alive EXCEPT ![p] = FALSE]
  /\ GiveUp(p)
  /\ UNCHANGED <<path, claim, generation>>

-----------------------------------------------------------------------------
ClaimInit ==
  /\ path = 0 /\ claim = <<>>
  /\ holder = [p \in Pids |-> Out]
  /\ generation = [p \in Pids |-> 0]
  /\ alive = [p \in Pids |-> TRUE]

ClaimStep(p) ==
  \/ CreateNew(p) \/ LockNew(p) \/ WriteNew(p)
  \/ OpenExisting(p) \/ LockExisting(p) \/ Inspect(p) \/ Retake(p)
  \/ CloseHandle(p) \/ Compare(p) \/ Unlink(p)
  \/ Exit(p)

ClaimNext == \E p \in Pids : ClaimStep(p)

ClaimSpec == ClaimInit /\ [][ClaimNext]_claimVars

-----------------------------------------------------------------------------
(* Properties. *)

\* One history directory has one writer ("Fail-closed single-writer
\* ownership"), whatever files the name has stood for.
OneWriter == \A p, q \in Pids : At(p, "owner") /\ At(q, "owner") => p = q
=============================================================================
