---------------------------- MODULE ConfigRegister ----------------------------
(***************************************************************************)
(* What the shared configuration promises: one file that changes by whole  *)
(* edits.  An edit sets the fields in which a client's settings differ     *)
(* from the ones the client had seen, and leaves every other field as the  *)
(* file has it at that moment, whoever wrote it.  The edits accepted from  *)
(* the clients of one process take effect in the order of acceptance, each *)
(* at most once; they may be refused, or forgotten with the process, but   *)
(* never half applied.  A request for a fresh look at the file waits in    *)
(* the same order and changes nothing.  ConfigRuntime implements this.     *)
(***************************************************************************)
EXTENDS Sequences

CONSTANTS Fields, Values

VARIABLES
  content,   \* health of the file and its last good settings
  accepted   \* requests accepted from this process and not yet settled

registerVars == <<content, accepted>>

Settings == [Fields -> Values]
Edits == [base : Settings, local : Settings]
Requests == [kind : {"submit", "refresh"}, edit : Edits]  \* a refresh ignores its edit

Overlay(edit, on) ==
  [f \in Fields |-> IF edit.local[f] # edit.base[f] THEN edit.local[f] ELSE on[f]]

Good(settings) == [health |-> "good", settings |-> settings]

\* The file after an edit.  Where there is no file the edit's own settings
\* become the file; one that vanishes or is damaged while it is being
\* replaced comes back with the last good settings under the edit.
Results(edit) ==
  {Good(Overlay(edit, content.settings))}
    \cup (IF content.health = "good" THEN {} ELSE {Good(edit.local)})

RegisterInit ==
  /\ content \in [health : {"good", "missing"}, settings : Settings]
  /\ accepted = <<>>

Accept(request) == accepted' = Append(accepted, request) /\ UNCHANGED content

Commit ==
  /\ accepted # <<>> /\ Head(accepted).kind = "submit"
  /\ content' \in Results(Head(accepted).edit)
  /\ accepted' = Tail(accepted)

\* An edit is refused, or the look is taken.
Settle == accepted # <<>> /\ accepted' = Tail(accepted) /\ UNCHANGED content

\* Another process commits an edit of its own.
Foreign(edit) == content' \in Results(edit) /\ UNCHANGED accepted

\* The process ends: what it had accepted is gone.
Forget == accepted' = <<>> /\ UNCHANGED content

\* The file is damaged or removed, or put back, by hand.
Damage(health) == content' = [content EXCEPT !.health = health] /\ UNCHANGED accepted
Repair(settings) ==
  content.health # "good" /\ content' = Good(settings) /\ UNCHANGED accepted

RegisterNext ==
  \/ \E request \in Requests : Accept(request)
  \/ \E edit \in Edits : Foreign(edit)
  \/ Commit \/ Settle \/ Forget
  \/ \E health \in {"damaged", "missing"} : Damage(health)
  \/ \E settings \in Settings : Repair(settings)

RegisterSpec == RegisterInit /\ [][RegisterNext]_registerVars
=============================================================================
