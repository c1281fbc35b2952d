---------------------------- MODULE HostRestore ----------------------------
(***************************************************************************)
(* The offline host-state restore of internal/hostbackup/restore.go.       *)
(* Restore swaps a list of paths under the helper state root for the       *)
(* contents of an archive, one rename at a time, under a journal file that *)
(* says "swapping" until every path is in place and "committed" after.     *)
(* Recover, called first thing by the next Restore and last thing by every *)
(* Restore, undoes a swapping journal and finishes a committed one.        *)
(*                                                                         *)
(* Contents are versions: an archive is a model value, Absent is a path    *)
(* that does not exist.  Staging and rollback directories carry a fresh id *)
(* per attempt; the ones a journal does not name are never opened again,   *)
(* so only the current attempt's are state.                                *)
(***************************************************************************)
EXTENDS Naturals

CONSTANTS
    N,              \* number of restore targets, swapped in the order 1..N
    Archives,       \* the contents an archive can hold
    Original,       \* the contents of the host before any restore
    Absent,         \* a path that does not exist
    MaxInterrupts   \* bound: kills and failed calls while one journal exists

ASSUME RestoreBounds ==
    /\ N \in Nat \ {0}
    /\ Original \notin Archives
    /\ Absent \notin Archives \cup {Original}
    /\ MaxInterrupts \in Nat

VARIABLES
    root,       \* target -> version in the live state root
    prev,       \* target -> version kept in the rollback directory
    cand,       \* target -> version waiting in the staging directory
    journal,    \* host-restore.json
    current,    \* what the ingress/current link names
    pc,         \* the next filesystem call of the command
    at,         \* the target a loop is at
    then,       \* what Restore does when its Recover call returns
    reply,      \* exit of the last command
    interrupts, \* kills and failed calls since a journal last disappeared
    before,     \* history: root when the journal was written
    after       \* history: staging when the journal was written

vars == <<root, prev, cand, journal, current, pc, at, then, reply,
          interrupts, before, after>>
files == <<root, prev, cand, journal, current, before, after>>
frame == <<before, after>>

Targets == 1..N
Versions == Archives \cup {Original, Absent}
Nothing == [t \in Targets |-> Absent]

\* The shapes of the state root, the journal and the command's position in
\* Restore and Recover.
TypeOK ==
    /\ root \in [Targets -> Versions]
    /\ prev \in [Targets -> Versions]
    /\ cand \in [Targets -> Versions]
    /\ journal \in {"none", "swapping", "committed"}
    /\ current \in {"generation", "bootstrap", "missing"}
    /\ pc \in {"idle", "stage", "journal", "swapOut", "swapIn", "deactivate",
               "link", "commit", "recover", "undo", "putBack",
               "sweepStaging", "sweepRollback", "drop"}
    /\ at \in Targets
    /\ then \in {"stage", "restored", "failed"}
    /\ reply \in {"none", "restored", "failed"}
    /\ interrupts \in 0..MaxInterrupts
    /\ before \in [Targets -> Versions]
    /\ after \in [Targets -> Versions]

\* helper.db (target 1) always exists; the other paths may not.
Init ==
    /\ root \in {r \in [Targets -> {Original, Absent}] : r[1] = Original}
    /\ prev = Nothing /\ cand = Nothing
    /\ journal = "none" /\ current = "generation"
    /\ pc = "idle" /\ at = 1 /\ then = "failed" /\ reply = "none"
    /\ interrupts = 0
    /\ before = root /\ after = root

-----------------------------------------------------------------------------
(* Restore: stage, journal, swap, deactivate the ingress, commit.          *)

Begin ==
    /\ pc = "idle"
    /\ pc' = "recover" /\ then' = "stage" /\ reply' = "none"
    /\ UNCHANGED <<files, at, interrupts>>

\* extract, the database checks and the two MkdirAll calls: every target has a
\* candidate before the journal is written.
Stage ==
    /\ pc = "stage"
    /\ \E v \in Archives : cand' = [t \in Targets |-> v]
    /\ prev' = Nothing /\ pc' = "journal"
    /\ UNCHANGED <<root, journal, current, frame, at, then, reply, interrupts>>

\* A refused archive, or an error before the journal exists: the deferred
\* function removes staging and rollback.
StageFails ==
    /\ pc \in {"stage", "journal"}
    /\ cand' = Nothing /\ prev' = Nothing
    /\ pc' = "idle" /\ reply' = "failed"
    /\ UNCHANGED <<root, journal, current, frame, at, then, interrupts>>

WriteSwapping ==
    /\ pc = "journal"
    /\ journal' = "swapping" /\ before' = root /\ after' = cand
    /\ pc' = "swapOut" /\ at' = 1
    /\ UNCHANGED <<root, prev, cand, current, then, reply, interrupts>>

\* What the rollback directory holds once the target was moved away; the variant
\* does not save the database.
SavedUnlessFirst == IF at = 1 THEN prev ELSE [prev EXCEPT ![at] = root[at]]

Saved == [prev EXCEPT ![at] = root[at]]

SwapOut ==
    /\ pc = "swapOut"
    /\ prev' = Saved /\ root' = [root EXCEPT ![at] = Absent]
    /\ pc' = "swapIn"
    /\ UNCHANGED <<cand, journal, current, frame, at, then, reply, interrupts>>

SwapIn ==
    /\ pc = "swapIn"
    /\ root' = [root EXCEPT ![at] = cand[at]]
    /\ cand' = [cand EXCEPT ![at] = Absent]
    /\ IF at = N THEN pc' = "deactivate" /\ UNCHANGED at
                 ELSE pc' = "swapOut" /\ at' = at + 1
    /\ UNCHANGED <<prev, journal, current, frame, then, reply, interrupts>>

\* The link is removed and made again: two calls.
Deactivate ==
    /\ pc = "deactivate"
    /\ current' = "missing" /\ pc' = "link"
    /\ UNCHANGED <<root, prev, cand, journal, frame, at, then, reply, interrupts>>

\* What the new link names; the variant keeps the generation that was active.
LinkedGeneration == "generation"

Linked == "bootstrap"

Link ==
    /\ pc = "link"
    /\ current' = Linked /\ pc' = "commit"
    /\ UNCHANGED <<root, prev, cand, journal, frame, at, then, reply, interrupts>>

\* A missing bootstrap generation or a failed Remove or Symlink: Recover, then
\* return the error.
DeactivateFails ==
    /\ pc \in {"deactivate", "link"} /\ interrupts < MaxInterrupts
    /\ interrupts' = interrupts + 1
    /\ pc' = "recover" /\ then' = "failed"
    /\ UNCHANGED <<files, at, reply>>

Commit ==
    /\ pc = "commit"
    /\ journal' = "committed" /\ pc' = "recover" /\ then' = "restored"
    /\ UNCHANGED <<root, prev, cand, current, frame, at, reply, interrupts>>

\* writeJournal can fail before its rename or, when only the directory sync
\* fails, after it.
CommitFails ==
    /\ pc = "commit" /\ interrupts < MaxInterrupts
    /\ interrupts' = interrupts + 1
    /\ journal' \in {"swapping", "committed"}
    /\ pc' = "recover" /\ then' = "failed"
    /\ UNCHANGED <<root, prev, cand, current, frame, at, reply>>

-----------------------------------------------------------------------------
(* Recover.                                                                *)

\* Recover returned: Restore goes on, or the command exits.
Return ==
    IF then = "stage" THEN pc' = "stage" /\ UNCHANGED reply
                      ELSE pc' = "idle" /\ reply' = then

ReadJournal ==
    /\ pc = "recover"
    /\ CASE journal = "none" -> Return /\ UNCHANGED at
         [] journal = "swapping" -> pc' = "undo" /\ at' = N /\ UNCHANGED reply
         [] journal = "committed" -> pc' = "sweepStaging" /\ UNCHANGED <<at, reply>>
    /\ UNCHANGED <<files, then, interrupts>>

\* The undo loop goes on with the target before this one.
NextUndo ==
    IF at = 1 THEN pc' = "sweepStaging" /\ UNCHANGED at
              ELSE pc' = "undo" /\ at' = at - 1

\* A saved target is put back over whatever is in its place: RemoveAll first.
UndoSaved ==
    /\ pc = "undo" /\ prev[at] # Absent
    /\ root' = [root EXCEPT ![at] = Absent] /\ pc' = "putBack"
    /\ UNCHANGED <<prev, cand, journal, current, frame, at, then, reply, interrupts>>

PutBack ==
    /\ pc = "putBack"
    /\ root' = [root EXCEPT ![at] = prev[at]]
    /\ prev' = [prev EXCEPT ![at] = Absent]
    /\ NextUndo
    /\ UNCHANGED <<cand, journal, current, frame, then, reply, interrupts>>

\* With nothing saved, a missing candidate is taken to mean that the target was
\* absent before the swap; the variant leaves such a target alone.
TakenAsNewNever == FALSE

TakenAsNew == cand[at] = Absent

UndoUnsaved ==
    /\ pc = "undo" /\ prev[at] = Absent
    /\ root' = IF TakenAsNew THEN [root EXCEPT ![at] = Absent] ELSE root
    /\ NextUndo
    /\ UNCHANGED <<prev, cand, journal, current, frame, then, reply, interrupts>>

\* RemoveAll unlinks one entry at a time, in no particular order.
SweepStaging ==
    /\ pc = "sweepStaging"
    /\ \/ \E t \in Targets : /\ cand[t] # Absent
                             /\ cand' = [cand EXCEPT ![t] = Absent]
                             /\ UNCHANGED pc
       \/ cand = Nothing /\ pc' = "sweepRollback" /\ UNCHANGED cand
    /\ UNCHANGED <<root, prev, journal, current, frame, at, then, reply, interrupts>>

SweepRollback ==
    /\ pc = "sweepRollback"
    /\ \/ \E t \in Targets : /\ prev[t] # Absent
                             /\ prev' = [prev EXCEPT ![t] = Absent]
                             /\ UNCHANGED pc
       \/ prev = Nothing /\ pc' = "drop" /\ UNCHANGED prev
    /\ UNCHANGED <<root, cand, journal, current, frame, at, then, reply, interrupts>>

\* The journal goes last; a failed directory sync is an error after the fact.
DropJournal ==
    /\ pc = "drop"
    /\ journal' = "none" /\ interrupts' = 0
    /\ \/ Return
       \/ pc' = "idle" /\ reply' = "failed"
    /\ UNCHANGED <<root, prev, cand, current, frame, at, then>>

-----------------------------------------------------------------------------
\* The command is killed, or a call fails whose error is returned as it is.
\* Without a journal the attempt's directories are forgotten.
Interrupt ==
    /\ pc # "idle" /\ interrupts < MaxInterrupts
    /\ interrupts' = IF journal = "none" THEN 0 ELSE interrupts + 1
    /\ pc' = "idle" /\ reply' = "failed"
    /\ IF journal = "none" THEN cand' = Nothing /\ prev' = Nothing
                           ELSE UNCHANGED <<cand, prev>>
    /\ UNCHANGED <<root, journal, current, frame, at, then>>

\* Between commands the ingress transaction may activate a generation again.
ActivateIngress ==
    /\ pc = "idle" /\ current # "generation"
    /\ current' = "generation"
    /\ UNCHANGED <<root, prev, cand, journal, frame, pc, at, then, reply, interrupts>>

Next ==
    \/ Begin \/ Stage \/ StageFails \/ WriteSwapping \/ SwapOut \/ SwapIn
    \/ Deactivate \/ Link \/ DeactivateFails \/ Commit \/ CommitFails
    \/ ReadJournal \/ UndoSaved \/ PutBack \/ UndoUnsaved
    \/ SweepStaging \/ SweepRollback \/ DropJournal
    \/ Interrupt \/ ActivateIngress

Spec == Init /\ [][Next]_vars

-----------------------------------------------------------------------------
(* Properties.                                                             *)

\* Whenever no journal is left, the last swap happened completely or not at
\* all: every target holds what it held before, or every target holds the
\* archive's contents (Restore and Recover together).  One interruption per
\* journal is recovered; a second one, inside Recover, is not, because Recover
\* reads a target it has already put back as one that never existed.
AllOrNothing == journal = "none" => root \in {before, after}

\* Nothing of the previous state is destroyed before the commit: while the
\* journal says swapping, each target's old contents are in place or in the
\* rollback directory (what Recover relies on to undo the swap).
OldStateKept ==
    journal = "swapping" => \A t \in Targets : before[t] \in {root[t], prev[t]}

\* A restore that reports success has every target of the archive in place and
\* the ingress link on the bootstrap generation, and a rolled-back or failed
\* one never reports success.
SuccessMeansRestored ==
    [][pc # "idle" /\ pc' = "idle" /\ reply' = "restored"
         => root' = after /\ current' = "bootstrap" /\ journal' = "none"]_vars
=============================================================================
