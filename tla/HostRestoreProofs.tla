------------------------- MODULE HostRestoreProofs -------------------------
(***************************************************************************)
(* Proofs about HostRestore for any number of targets, any archives and    *)
(* any original state root.  That a success is a complete restore holds    *)
(* however often the command is interrupted.  That nothing of the old      *)
(* state is lost, and that a swap happens completely or not at all, holds  *)
(* for at most one interruption per journal: the hypothesis OnceOnly.      *)
(***************************************************************************)
EXTENDS HostRestore, TLAPS

\* One interruption while a journal exists is what Recover is written for.
OnceOnly == MaxInterrupts <= 1

Forward == {"swapOut", "swapIn", "deactivate", "link", "commit"}
Undoing == {"undo", "putBack"}
Sweeping == {"sweepStaging", "sweepRollback", "drop"}

\* Where Restore and Recover may be for each contents of the journal file.
JournalMatchesPc ==
    /\ journal = "none" => pc \in {"idle", "stage", "journal", "recover"}
    /\ journal = "committed" => pc \in {"idle", "recover"} \cup Sweeping
    /\ journal = "swapping" => pc \notin {"stage", "journal"}

\* Every target of a staged archive exists.
CandidateComplete ==
    /\ pc = "journal" => \A t \in Targets : cand[t] \in Archives
    /\ pc = "journal" => prev = Nothing
    /\ journal # "none" => \A t \in Targets : after[t] \in Archives

\* The three stages of a target in the swap: not reached, moved to the rollback
\* directory, replaced by its candidate.
Untouched(t) == root[t] = before[t] /\ prev[t] = Absent /\ cand[t] = after[t]
MovedOut(t) == root[t] = Absent /\ prev[t] = before[t] /\ cand[t] = after[t]
MovedIn(t) == root[t] = after[t] /\ prev[t] = before[t] /\ cand[t] = Absent

\* The swap replaces the targets in order: those before `at' are in, those after
\* it untouched.
SwapPosition ==
    /\ pc = "swapOut" => /\ \A t \in 1..(at - 1) : MovedIn(t)
                         /\ \A t \in at..N : Untouched(t)
    /\ pc = "swapIn" => /\ \A t \in 1..(at - 1) : MovedIn(t)
                        /\ MovedOut(at)
                        /\ \A t \in (at + 1)..N : Untouched(t)
    /\ pc \in {"deactivate", "link", "commit"} => \A t \in Targets : MovedIn(t)

\* A committed journal is written over a complete swap; only then can Restore be
\* on its way to report success, and the ingress link is on the bootstrap generation.
CommittedComplete ==
    /\ journal = "committed" => root = after
    /\ pc = "commit" => current = "bootstrap"
    /\ then = "restored" /\ pc \in {"recover"} \cup Undoing \cup Sweeping =>
         journal = "committed" /\ current = "bootstrap"

\* What holds however often the command is interrupted.
SwapInv ==
    /\ TypeOK /\ JournalMatchesPc /\ CandidateComplete /\ SwapPosition
    /\ CommittedComplete

\* The stages a target can be found in by the first Recover of a swap.
Swapped(t) == Untouched(t) \/ MovedOut(t) \/ MovedIn(t)

\* A swapping journal outside the swap itself was interrupted: the budget of one
\* interruption is used up while Recover undoes it.
InterruptedOnce == journal = "swapping" /\ pc \notin Forward => interrupts >= 1

\* Recover undoes the targets in descending order: those after `at' are back,
\* those up to it are as the swap left them.
UndoPosition ==
    /\ journal = "swapping" /\ pc \in {"idle", "recover"} =>
         \A t \in Targets : Swapped(t)
    /\ pc = "undo" => /\ \A t \in 1..at : Swapped(t)
                      /\ \A t \in (at + 1)..N : root[t] = before[t]
    /\ pc = "putBack" => /\ \A t \in 1..(at - 1) : Swapped(t)
                         /\ prev[at] = before[at] /\ root[at] = Absent
                         /\ \A t \in (at + 1)..N : root[t] = before[t]
    /\ journal = "swapping" /\ pc \in Sweeping => root = before

\* What holds in addition when a journal is interrupted at most once.
UndoInv ==
    /\ SwapInv /\ InterruptedOnce /\ UndoPosition
    /\ AllOrNothing

-----------------------------------------------------------------------------
(* However often the command is interrupted.                               *)

\* An untouched host, without a journal, satisfies the invariant of the swap.
LEMMA InitSwap == Init => SwapInv
BY RestoreBounds
DEF Init, SwapInv, TypeOK, Targets, Versions, Nothing, JournalMatchesPc, Forward,
    Undoing, Sweeping, CandidateComplete, SwapPosition, CommittedComplete

\* Every step of Restore and Recover, and every interruption, keeps the invariant
\* of the swap.
LEMMA SwapStep ==
    ASSUME SwapInv, [Next]_vars
    PROVE  SwapInv'
<1> USE RestoreBounds DEF SwapInv, JournalMatchesPc, Forward, Undoing, Sweeping, Targets,
        files, frame
<1>1. CASE Begin
  <2>1. TypeOK'
    BY <1>1 DEF Begin, TypeOK
  <2>2. JournalMatchesPc' /\ CandidateComplete'
    BY <1>1 DEF Begin, TypeOK, CandidateComplete
  <2>3. SwapPosition'
    BY <1>1 DEF Begin, TypeOK, SwapPosition, MovedIn, MovedOut, Untouched
  <2>4. CommittedComplete'
    BY <1>1 DEF Begin, TypeOK, CommittedComplete
  <2> QED BY <2>1, <2>2, <2>3, <2>4
<1>2. CASE Stage
  <2>1. TypeOK'
    BY <1>2 DEF Stage, Nothing, TypeOK, Versions
  <2>2. JournalMatchesPc' /\ CandidateComplete'
    BY <1>2 DEF Stage, Nothing, TypeOK, CandidateComplete
  <2>3. SwapPosition'
    BY <1>2 DEF Stage, Nothing, TypeOK, SwapPosition, MovedIn, MovedOut, Untouched
  <2>4. CommittedComplete'
    BY <1>2 DEF Stage, Nothing, TypeOK, CommittedComplete
  <2> QED BY <2>1, <2>2, <2>3, <2>4
<1>3. CASE StageFails
  <2>1. TypeOK'
    BY <1>3 DEF StageFails, Nothing, TypeOK, Versions
  <2>2. JournalMatchesPc' /\ CandidateComplete'
    BY <1>3 DEF StageFails, Nothing, TypeOK, CandidateComplete
  <2>3. SwapPosition'
    BY <1>3 DEF StageFails, Nothing, TypeOK, SwapPosition, MovedIn, MovedOut, Untouched
  <2>4. CommittedComplete'
    BY <1>3 DEF StageFails, Nothing, TypeOK, CommittedComplete
  <2> QED BY <2>1, <2>2, <2>3, <2>4
<1>4. CASE WriteSwapping
  <2>1. TypeOK'
    BY <1>4 DEF WriteSwapping, Nothing, TypeOK
  <2>2. JournalMatchesPc' /\ CandidateComplete'
    BY <1>4 DEF WriteSwapping, Nothing, TypeOK, CandidateComplete
  <2>3. SwapPosition'
    BY <1>4 DEF WriteSwapping, Nothing, TypeOK, SwapPosition, MovedIn, MovedOut, Untouched, CandidateComplete
  <2>4. CommittedComplete'
    BY <1>4 DEF WriteSwapping, Nothing, TypeOK, CommittedComplete
  <2> QED BY <2>1, <2>2, <2>3, <2>4
<1>5. CASE SwapOut
  <2>1. TypeOK'
    BY <1>5 DEF SwapOut, Saved, TypeOK, Versions
  <2>2. JournalMatchesPc' /\ CandidateComplete'
    BY <1>5 DEF SwapOut, Saved, TypeOK, CandidateComplete
  <2>3. SwapPosition'
    BY <1>5 DEF SwapOut, Saved, TypeOK, SwapPosition, MovedIn, MovedOut, Untouched
  <2>4. CommittedComplete'
    BY <1>5 DEF SwapOut, Saved, TypeOK, CommittedComplete
  <2> QED BY <2>1, <2>2, <2>3, <2>4
<1>6. CASE SwapIn
  <2>1. TypeOK'
    BY <1>6 DEF SwapIn, TypeOK, Versions
  <2>2. JournalMatchesPc' /\ CandidateComplete'
    BY <1>6 DEF SwapIn, TypeOK, CandidateComplete
  <2>3. SwapPosition'
    BY <1>6 DEF SwapIn, TypeOK, SwapPosition, MovedIn, MovedOut, Untouched
  <2>4. CommittedComplete'
    BY <1>6 DEF SwapIn, TypeOK, CommittedComplete
  <2> QED BY <2>1, <2>2, <2>3, <2>4
<1>7. CASE Deactivate
  <2>1. TypeOK'
    BY <1>7 DEF Deactivate, TypeOK
  <2>2. JournalMatchesPc' /\ CandidateComplete'
    BY <1>7 DEF Deactivate, TypeOK, CandidateComplete
  <2>3. SwapPosition'
    BY <1>7 DEF Deactivate, TypeOK, SwapPosition, MovedIn, MovedOut, Untouched
  <2>4. CommittedComplete'
    BY <1>7 DEF Deactivate, TypeOK, CommittedComplete
  <2> QED BY <2>1, <2>2, <2>3, <2>4
<1>8. CASE Link
  <2>1. TypeOK'
    BY <1>8 DEF Link, Linked, TypeOK
  <2>2. JournalMatchesPc' /\ CandidateComplete'
    BY <1>8 DEF Link, Linked, TypeOK, CandidateComplete
  <2>3. SwapPosition'
    BY <1>8 DEF Link, Linked, TypeOK, SwapPosition, MovedIn, MovedOut, Untouched
  <2>4. CommittedComplete'
    BY <1>8 DEF Link, Linked, TypeOK, CommittedComplete
  <2> QED BY <2>1, <2>2, <2>3, <2>4
<1>9. CASE DeactivateFails
  <2>1. TypeOK'
    BY <1>9 DEF DeactivateFails, TypeOK
  <2>2. JournalMatchesPc' /\ CandidateComplete'
    BY <1>9 DEF DeactivateFails, TypeOK, CandidateComplete
  <2>3. SwapPosition'
    BY <1>9 DEF DeactivateFails, TypeOK, SwapPosition, MovedIn, MovedOut, Untouched
  <2>4. CommittedComplete'
    BY <1>9 DEF DeactivateFails, TypeOK, CommittedComplete
  <2> QED BY <2>1, <2>2, <2>3, <2>4
<1>10. CASE Commit
  <2>1. TypeOK'
    BY <1>10 DEF Commit, TypeOK
  <2>2. JournalMatchesPc' /\ CandidateComplete'
    BY <1>10 DEF Commit, TypeOK, CandidateComplete
  <2>3. SwapPosition'
    BY <1>10 DEF Commit, TypeOK, SwapPosition, MovedIn, MovedOut, Untouched
  <2>4. CommittedComplete'
    BY <1>10 DEF Commit, TypeOK, CommittedComplete, SwapPosition, MovedIn
  <2> QED BY <2>1, <2>2, <2>3, <2>4
<1>11. CASE CommitFails
  <2>1. TypeOK'
    BY <1>11 DEF CommitFails, TypeOK
  <2>2. JournalMatchesPc' /\ CandidateComplete'
    BY <1>11 DEF CommitFails, TypeOK, CandidateComplete
  <2>3. SwapPosition'
    BY <1>11 DEF CommitFails, TypeOK, SwapPosition, MovedIn, MovedOut, Untouched
  <2>4. CommittedComplete'
    BY <1>11 DEF CommitFails, TypeOK, CommittedComplete, SwapPosition, MovedIn
  <2> QED BY <2>1, <2>2, <2>3, <2>4
<1>12. CASE ReadJournal
  <2>1. TypeOK'
    <3>1. CASE journal = "none"
      BY <1>12, <3>1 DEF ReadJournal, Return, TypeOK
    <3>2. CASE journal = "swapping"
      BY <1>12, <3>2 DEF ReadJournal, TypeOK
    <3>3. CASE journal = "committed"
      BY <1>12, <3>3 DEF ReadJournal, TypeOK
    <3> QED BY <3>1, <3>2, <3>3 DEF TypeOK
  <2>2. JournalMatchesPc' /\ CandidateComplete'
    BY <1>12 DEF ReadJournal, Return, TypeOK, CandidateComplete
  <2>3. SwapPosition'
    BY <1>12 DEF ReadJournal, Return, TypeOK, SwapPosition, MovedIn, MovedOut, Untouched
  <2>4. CommittedComplete'
    BY <1>12 DEF ReadJournal, Return, TypeOK, CommittedComplete
  <2> QED BY <2>1, <2>2, <2>3, <2>4
<1>13. CASE UndoSaved
  <2>1. TypeOK'
    BY <1>13 DEF UndoSaved, TypeOK, Versions
  <2>2. JournalMatchesPc' /\ CandidateComplete'
    BY <1>13 DEF UndoSaved, TypeOK, CandidateComplete
  <2>3. SwapPosition'
    BY <1>13 DEF UndoSaved, TypeOK, SwapPosition, MovedIn, MovedOut, Untouched
  <2>4. CommittedComplete'
    BY <1>13 DEF UndoSaved, TypeOK, CommittedComplete
  <2> QED BY <2>1, <2>2, <2>3, <2>4
<1>14. CASE PutBack
  <2>1. TypeOK'
    BY <1>14 DEF PutBack, NextUndo, TypeOK, Versions
  <2>2. JournalMatchesPc' /\ CandidateComplete'
    BY <1>14 DEF PutBack, NextUndo, TypeOK, CandidateComplete
  <2>3. SwapPosition'
    BY <1>14 DEF PutBack, NextUndo, TypeOK, SwapPosition, MovedIn, MovedOut, Untouched
  <2>4. CommittedComplete'
    BY <1>14 DEF PutBack, NextUndo, TypeOK, CommittedComplete
  <2> QED BY <2>1, <2>2, <2>3, <2>4
<1>15. CASE UndoUnsaved
  <2>1. TypeOK'
    BY <1>15 DEF UndoUnsaved, NextUndo, TakenAsNew, TypeOK, Versions
  <2>2. JournalMatchesPc' /\ CandidateComplete'
    BY <1>15 DEF UndoUnsaved, NextUndo, TakenAsNew, TypeOK, CandidateComplete
  <2>3. SwapPosition'
    BY <1>15 DEF UndoUnsaved, NextUndo, TakenAsNew, TypeOK, SwapPosition, MovedIn, MovedOut, Untouched
  <2>4. CommittedComplete'
    BY <1>15 DEF UndoUnsaved, NextUndo, TakenAsNew, TypeOK, CommittedComplete
  <2> QED BY <2>1, <2>2, <2>3, <2>4
<1>16. CASE SweepStaging
  <2>1. TypeOK'
    BY <1>16 DEF SweepStaging, Nothing, TypeOK, Versions
  <2>2. JournalMatchesPc' /\ CandidateComplete'
    BY <1>16 DEF SweepStaging, Nothing, TypeOK, CandidateComplete
  <2>3. SwapPosition'
    BY <1>16 DEF SweepStaging, Nothing, TypeOK, SwapPosition, MovedIn, MovedOut, Untouched
  <2>4. CommittedComplete'
    BY <1>16 DEF SweepStaging, Nothing, TypeOK, CommittedComplete
  <2> QED BY <2>1, <2>2, <2>3, <2>4
<1>17. CASE SweepRollback
  <2>1. TypeOK'
    BY <1>17 DEF SweepRollback, Nothing, TypeOK, Versions
  <2>2. JournalMatchesPc' /\ CandidateComplete'
    BY <1>17 DEF SweepRollback, Nothing, TypeOK, CandidateComplete
  <2>3. SwapPosition'
    BY <1>17 DEF SweepRollback, Nothing, TypeOK, SwapPosition, MovedIn, MovedOut, Untouched
  <2>4. CommittedComplete'
    BY <1>17 DEF SweepRollback, Nothing, TypeOK, CommittedComplete
  <2> QED BY <2>1, <2>2, <2>3, <2>4
<1>18. CASE DropJournal
  <2>1. TypeOK'
    BY <1>18 DEF DropJournal, Return, TypeOK
  <2>2. JournalMatchesPc' /\ CandidateComplete'
    BY <1>18 DEF DropJournal, Return, TypeOK, CandidateComplete
  <2>3. SwapPosition'
    BY <1>18 DEF DropJournal, Return, TypeOK, SwapPosition, MovedIn, MovedOut, Untouched
  <2>4. CommittedComplete'
    BY <1>18 DEF DropJournal, Return, TypeOK, CommittedComplete
  <2> QED BY <2>1, <2>2, <2>3, <2>4
<1>19. CASE Interrupt
  <2>1. TypeOK'
    BY <1>19 DEF Interrupt, Nothing, TypeOK, Versions
  <2>2. JournalMatchesPc' /\ CandidateComplete'
    BY <1>19 DEF Interrupt, Nothing, TypeOK, CandidateComplete
  <2>3. SwapPosition'
    BY <1>19 DEF Interrupt, Nothing, TypeOK, SwapPosition, MovedIn, MovedOut, Untouched
  <2>4. CommittedComplete'
    BY <1>19 DEF Interrupt, Nothing, TypeOK, CommittedComplete
  <2> QED BY <2>1, <2>2, <2>3, <2>4
<1>20. CASE ActivateIngress
  <2>1. TypeOK'
    BY <1>20 DEF ActivateIngress, TypeOK
  <2>2. JournalMatchesPc' /\ CandidateComplete'
    BY <1>20 DEF ActivateIngress, TypeOK, CandidateComplete
  <2>3. SwapPosition'
    BY <1>20 DEF ActivateIngress, TypeOK, SwapPosition, MovedIn, MovedOut, Untouched
  <2>4. CommittedComplete'
    BY <1>20 DEF ActivateIngress, TypeOK, CommittedComplete
  <2> QED BY <2>1, <2>2, <2>3, <2>4
<1>21. CASE UNCHANGED vars
  BY <1>21 DEF vars, TypeOK, CandidateComplete, SwapPosition, MovedIn, MovedOut, Untouched,
               CommittedComplete
<1> QED BY <1>1, <1>2, <1>3, <1>4, <1>5, <1>6, <1>7, <1>8, <1>9, <1>10, <1>11, <1>12,
       <1>13, <1>14, <1>15, <1>16, <1>17, <1>18, <1>19, <1>20, <1>21 DEF Next

\* The invariant of the swap holds in every behaviour.
THEOREM SwapInvariant == Spec => []SwapInv
<1>1. SwapInv /\ [Next]_vars => SwapInv'
  BY SwapStep
<1> QED BY InitSwap, <1>1, PTL DEF Spec

\* The state root, the journal and the command's position have their types.
THEOREM TypeCorrect == Spec => []TypeOK
<1>1. SwapInv => TypeOK
  BY DEF SwapInv
<1> QED BY SwapInvariant, <1>1, PTL

\* A step that reports success is the one that drops the committed journal of a
\* complete swap.
LEMMA SuccessStep ==
    ASSUME SwapInv, [Next]_vars, pc # "idle", pc' = "idle", reply' = "restored"
    PROVE  root' = after /\ current' = "bootstrap" /\ journal' = "none"
<1>1. CASE ReadJournal
  BY <1>1 DEF ReadJournal, Return, files, SwapInv, TypeOK, CommittedComplete
<1>2. CASE DropJournal
  BY <1>2 DEF DropJournal, Return, SwapInv, TypeOK, CommittedComplete, Sweeping
<1>3. ~(ReadJournal \/ DropJournal) => FALSE
  BY DEF Next, Begin, Stage, StageFails, WriteSwapping, SwapOut, SwapIn, Deactivate, Link,
         DeactivateFails, Commit, CommitFails, UndoSaved, PutBack, UndoUnsaved, NextUndo,
         SweepStaging, SweepRollback, Interrupt, ActivateIngress, vars
<1> QED BY <1>1, <1>2, <1>3

\* A restore that reports success has replaced every target, however often it and
\* its predecessors were interrupted: reply "restored" is only given with the
\* archive's contents in place, the ingress on the bootstrap generation and no
\* journal left.
THEOREM SuccessIsComplete == Spec => SuccessMeansRestored
<1>1. SwapInv /\ [Next]_vars =>
        [pc # "idle" /\ pc' = "idle" /\ reply' = "restored"
           => root' = after /\ current' = "bootstrap" /\ journal' = "none"]_vars
  BY SuccessStep
<1> QED BY SwapInvariant, <1>1, PTL DEF Spec, SuccessMeansRestored

-----------------------------------------------------------------------------
(* With at most one interruption per journal.                              *)

\* Init satisfies the invariant of the undo.
LEMMA InitUndo == Init => UndoInv
BY InitSwap DEF Init, UndoInv, InterruptedOnce, UndoPosition, Undoing, Sweeping, AllOrNothing

\* Every step keeps the invariant of the undo: the only step that could repeat
\* an undo on a target already put back is an interruption of Recover, and the one
\* interruption allowed is spent before Recover finds a swapping journal.
LEMMA UndoStep ==
    ASSUME OnceOnly, UndoInv, [Next]_vars
    PROVE  UndoInv'
<1> USE RestoreBounds DEF UndoInv, SwapInv, JournalMatchesPc, Forward, Undoing, Sweeping,
        Targets, files, frame
<1> SwapInv'
  BY SwapStep
<1>1. CASE Begin
  <2>1. InterruptedOnce'
    BY <1>1 DEF Begin, TypeOK, InterruptedOnce
  <2>2. UndoPosition'
    BY <1>1 DEF Begin, TypeOK, UndoPosition, Swapped, MovedIn, MovedOut, Untouched
  <2>3. AllOrNothing'
    BY <1>1 DEF Begin, TypeOK, AllOrNothing, UndoPosition, CommittedComplete
  <2> QED BY <2>1, <2>2, <2>3
<1>2. CASE Stage
  <2>1. InterruptedOnce'
    BY <1>2 DEF Stage, Nothing, TypeOK, InterruptedOnce
  <2>2. UndoPosition'
    BY <1>2 DEF Stage, Nothing, TypeOK, UndoPosition, Swapped, MovedIn, MovedOut, Untouched
  <2>3. AllOrNothing'
    BY <1>2 DEF Stage, Nothing, TypeOK, AllOrNothing, UndoPosition, CommittedComplete
  <2> QED BY <2>1, <2>2, <2>3
<1>3. CASE StageFails
  <2>1. InterruptedOnce'
    BY <1>3 DEF StageFails, Nothing, TypeOK, InterruptedOnce
  <2>2. UndoPosition'
    BY <1>3 DEF StageFails, Nothing, TypeOK, UndoPosition, Swapped, MovedIn, MovedOut, Untouched
  <2>3. AllOrNothing'
    BY <1>3 DEF StageFails, Nothing, TypeOK, AllOrNothing, UndoPosition, CommittedComplete
  <2> QED BY <2>1, <2>2, <2>3
<1>4. CASE WriteSwapping
  <2>1. InterruptedOnce'
    BY <1>4 DEF WriteSwapping, Nothing, TypeOK, InterruptedOnce
  <2>2. UndoPosition'
    BY <1>4 DEF WriteSwapping, Nothing, TypeOK, UndoPosition, Swapped, MovedIn, MovedOut, Untouched
  <2>3. AllOrNothing'
    BY <1>4 DEF WriteSwapping, Nothing, TypeOK, AllOrNothing, UndoPosition, CommittedComplete
  <2> QED BY <2>1, <2>2, <2>3
<1>5. CASE SwapOut
  <2>1. InterruptedOnce'
    BY <1>5 DEF SwapOut, Saved, TypeOK, InterruptedOnce
  <2>2. UndoPosition'
    BY <1>5 DEF SwapOut, Saved, TypeOK, UndoPosition, Swapped, MovedIn, MovedOut, Untouched
  <2>3. AllOrNothing'
    BY <1>5 DEF SwapOut, Saved, TypeOK, AllOrNothing, UndoPosition, CommittedComplete
  <2> QED BY <2>1, <2>2, <2>3
<1>6. CASE SwapIn
  <2>1. InterruptedOnce'
    BY <1>6 DEF SwapIn, TypeOK, InterruptedOnce
  <2>2. UndoPosition'
    BY <1>6 DEF SwapIn, TypeOK, UndoPosition, Swapped, MovedIn, MovedOut, Untouched
  <2>3. AllOrNothing'
    BY <1>6 DEF SwapIn, TypeOK, AllOrNothing, UndoPosition, CommittedComplete
  <2> QED BY <2>1, <2>2, <2>3
<1>7. CASE Deactivate
  <2>1. InterruptedOnce'
    BY <1>7 DEF Deactivate, TypeOK, InterruptedOnce
  <2>2. UndoPosition'
    BY <1>7 DEF Deactivate, TypeOK, UndoPosition, Swapped, MovedIn, MovedOut, Untouched
  <2>3. AllOrNothing'
    BY <1>7 DEF Deactivate, TypeOK, AllOrNothing, UndoPosition, CommittedComplete
  <2> QED BY <2>1, <2>2, <2>3
<1>8. CASE Link
  <2>1. InterruptedOnce'
    BY <1>8 DEF Link, Linked, TypeOK, InterruptedOnce
  <2>2. UndoPosition'
    BY <1>8 DEF Link, Linked, TypeOK, UndoPosition, Swapped, MovedIn, MovedOut, Untouched
  <2>3. AllOrNothing'
    BY <1>8 DEF Link, Linked, TypeOK, AllOrNothing, UndoPosition, CommittedComplete
  <2> QED BY <2>1, <2>2, <2>3
<1>9. CASE DeactivateFails
  <2>1. InterruptedOnce'
    BY <1>9 DEF DeactivateFails, TypeOK, InterruptedOnce
  <2>2. UndoPosition'
    BY <1>9 DEF DeactivateFails, TypeOK, UndoPosition, Swapped, MovedIn, MovedOut, Untouched, SwapPosition
  <2>3. AllOrNothing'
    BY <1>9 DEF DeactivateFails, TypeOK, AllOrNothing, UndoPosition, CommittedComplete
  <2> QED BY <2>1, <2>2, <2>3
<1>10. CASE Commit
  <2>1. InterruptedOnce'
    BY <1>10 DEF Commit, TypeOK, InterruptedOnce
  <2>2. UndoPosition'
    BY <1>10 DEF Commit, TypeOK, UndoPosition, Swapped, MovedIn, MovedOut, Untouched
  <2>3. AllOrNothing'
    BY <1>10 DEF Commit, TypeOK, AllOrNothing, UndoPosition, CommittedComplete
  <2> QED BY <2>1, <2>2, <2>3
<1>11. CASE CommitFails
  <2>1. InterruptedOnce'
    BY <1>11 DEF CommitFails, TypeOK, InterruptedOnce
  <2>2. UndoPosition'
    BY <1>11 DEF CommitFails, TypeOK, UndoPosition, Swapped, MovedIn, MovedOut, Untouched, SwapPosition
  <2>3. AllOrNothing'
    BY <1>11 DEF CommitFails, TypeOK, AllOrNothing, UndoPosition, CommittedComplete
  <2> QED BY <2>1, <2>2, <2>3
<1>12. CASE ReadJournal
  <2>1. InterruptedOnce'
    BY <1>12 DEF ReadJournal, Return, TypeOK, InterruptedOnce
  <2>2. UndoPosition'
    <3>1. CASE journal = "none"
      BY <1>12, <3>1 DEF ReadJournal, Return, TypeOK, UndoPosition
    <3>2. CASE journal = "swapping"
      BY <1>12, <3>2 DEF ReadJournal, TypeOK, UndoPosition, Swapped, MovedIn, MovedOut, Untouched
    <3>3. CASE journal = "committed"
      BY <1>12, <3>3 DEF ReadJournal, TypeOK, UndoPosition
    <3> QED BY <3>1, <3>2, <3>3 DEF TypeOK
  <2>3. AllOrNothing'
    BY <1>12 DEF ReadJournal, Return, TypeOK, AllOrNothing, UndoPosition, CommittedComplete
  <2> QED BY <2>1, <2>2, <2>3
<1>13. CASE UndoSaved
  <2>1. InterruptedOnce'
    BY <1>13 DEF UndoSaved, TypeOK, InterruptedOnce
  <2>2. UndoPosition'
    BY <1>13 DEF UndoSaved, TypeOK, UndoPosition, Swapped, MovedIn, MovedOut, Untouched
  <2>3. AllOrNothing'
    BY <1>13 DEF UndoSaved, TypeOK, AllOrNothing, UndoPosition, CommittedComplete
  <2> QED BY <2>1, <2>2, <2>3
<1>14. CASE PutBack
  <2>1. InterruptedOnce'
    BY <1>14 DEF PutBack, NextUndo, TypeOK, InterruptedOnce
  <2>2. UndoPosition'
    <3> USE DEF PutBack, NextUndo, TypeOK
    <3>1. root'[at] = before[at]
      BY <1>14 DEF UndoPosition, Swapped, MovedIn, MovedOut, Untouched, CandidateComplete
    <3>2. \A t \in Targets : t # at => root'[t] = root[t]
      BY <1>14
    <3>3. \A t \in at..N : root'[t] = before'[t]
      BY <1>14, <3>1, <3>2 DEF UndoPosition
    <3>4. \A t \in 1..(at - 1) : Swapped(t)'
      BY <1>14, <3>2 DEF UndoPosition, Swapped, MovedIn, MovedOut, Untouched
    <3>5. CASE at = 1
      <4>1. pc' = "sweepStaging" /\ root' = before'
        BY <1>14, <3>3, <3>5
      <4> QED BY <4>1 DEF UndoPosition
    <3>6. CASE at # 1
      <4>1. pc' = "undo" /\ at' = at - 1 /\ at' \in Targets /\ at = at' + 1
        BY <1>14, <3>6
      <4> QED BY <4>1, <3>3, <3>4 DEF UndoPosition
    <3> QED BY <3>5, <3>6
  <2>3. AllOrNothing'
    BY <1>14 DEF PutBack, NextUndo, TypeOK, AllOrNothing, UndoPosition, CommittedComplete
  <2> QED BY <2>1, <2>2, <2>3
<1>15. CASE UndoUnsaved
  <2>1. InterruptedOnce'
    BY <1>15 DEF UndoUnsaved, NextUndo, TakenAsNew, TypeOK, InterruptedOnce
  <2>2. UndoPosition'
    <3> USE DEF UndoUnsaved, NextUndo, TakenAsNew, TypeOK
    <3>1. root'[at] = before[at]
      BY <1>15 DEF UndoPosition, Swapped, MovedIn, MovedOut, Untouched, CandidateComplete
    <3>2. \A t \in Targets : t # at => root'[t] = root[t]
      BY <1>15
    <3>3. \A t \in at..N : root'[t] = before'[t]
      BY <1>15, <3>1, <3>2 DEF UndoPosition
    <3>4. \A t \in 1..(at - 1) : Swapped(t)'
      BY <1>15, <3>2 DEF UndoPosition, Swapped, MovedIn, MovedOut, Untouched
    <3>5. CASE at = 1
      <4>1. pc' = "sweepStaging" /\ root' = before'
        BY <1>15, <3>3, <3>5
      <4> QED BY <4>1 DEF UndoPosition
    <3>6. CASE at # 1
      <4>1. pc' = "undo" /\ at' = at - 1 /\ at' \in Targets /\ at = at' + 1
        BY <1>15, <3>6
      <4> QED BY <4>1, <3>3, <3>4 DEF UndoPosition
    <3> QED BY <3>5, <3>6
  <2>3. AllOrNothing'
    BY <1>15 DEF UndoUnsaved, NextUndo, TakenAsNew, TypeOK, AllOrNothing, UndoPosition, CommittedComplete
  <2> QED BY <2>1, <2>2, <2>3
<1>16. CASE SweepStaging
  <2>1. InterruptedOnce'
    BY <1>16 DEF SweepStaging, Nothing, TypeOK, InterruptedOnce
  <2>2. UndoPosition'
    BY <1>16 DEF SweepStaging, Nothing, TypeOK, UndoPosition, Swapped, MovedIn, MovedOut, Untouched
  <2>3. AllOrNothing'
    BY <1>16 DEF SweepStaging, Nothing, TypeOK, AllOrNothing, UndoPosition, CommittedComplete
  <2> QED BY <2>1, <2>2, <2>3
<1>17. CASE SweepRollback
  <2>1. InterruptedOnce'
    BY <1>17 DEF SweepRollback, Nothing, TypeOK, InterruptedOnce
  <2>2. UndoPosition'
    BY <1>17 DEF SweepRollback, Nothing, TypeOK, UndoPosition, Swapped, MovedIn, MovedOut, Untouched
  <2>3. AllOrNothing'
    BY <1>17 DEF SweepRollback, Nothing, TypeOK, AllOrNothing, UndoPosition, CommittedComplete
  <2> QED BY <2>1, <2>2, <2>3
<1>18. CASE DropJournal
  <2>1. InterruptedOnce'
    BY <1>18 DEF DropJournal, Return, TypeOK, InterruptedOnce
  <2>2. UndoPosition'
    BY <1>18 DEF DropJournal, Return, TypeOK, UndoPosition, Swapped, MovedIn, MovedOut, Untouched
  <2>3. AllOrNothing'
    BY <1>18 DEF DropJournal, Return, TypeOK, AllOrNothing, UndoPosition, CommittedComplete
  <2> QED BY <2>1, <2>2, <2>3
<1>19. CASE Interrupt
  <2>1. InterruptedOnce'
    BY <1>19 DEF Interrupt, Nothing, TypeOK, InterruptedOnce
  <2>2. UndoPosition'
    BY <1>19 DEF Interrupt, Nothing, TypeOK, UndoPosition, Swapped, MovedIn, MovedOut, Untouched, OnceOnly, InterruptedOnce, SwapPosition
  <2>3. AllOrNothing'
    BY <1>19 DEF Interrupt, Nothing, TypeOK, AllOrNothing, UndoPosition, CommittedComplete
  <2> QED BY <2>1, <2>2, <2>3
<1>20. CASE ActivateIngress
  <2>1. InterruptedOnce'
    BY <1>20 DEF ActivateIngress, TypeOK, InterruptedOnce
  <2>2. UndoPosition'
    BY <1>20 DEF ActivateIngress, TypeOK, UndoPosition, Swapped, MovedIn, MovedOut, Untouched
  <2>3. AllOrNothing'
    BY <1>20 DEF ActivateIngress, TypeOK, AllOrNothing, UndoPosition, CommittedComplete
  <2> QED BY <2>1, <2>2, <2>3
<1>21. CASE UNCHANGED vars
  BY <1>21 DEF vars, InterruptedOnce, UndoPosition, Swapped, MovedIn, MovedOut, Untouched,
               AllOrNothing
<1> QED BY <1>1, <1>2, <1>3, <1>4, <1>5, <1>6, <1>7, <1>8, <1>9, <1>10, <1>11, <1>12,
       <1>13, <1>14, <1>15, <1>16, <1>17, <1>18, <1>19, <1>20, <1>21 DEF Next

\* With at most one interruption per journal, the invariant of the undo holds.
THEOREM UndoInvariant == ASSUME OnceOnly PROVE Spec => []UndoInv
<1>1. UndoInv /\ [Next]_vars => UndoInv'
  BY UndoStep, OnceOnly
<1> QED BY InitUndo, <1>1, PTL DEF Spec

\* With at most one interruption per journal, a swap happens completely or not at
\* all: whenever no journal is left, every target holds what it held before, or
\* every target holds the archive's contents.
THEOREM SwapIsAtomic == ASSUME OnceOnly PROVE Spec => []AllOrNothing
<1>1. UndoInv => AllOrNothing
  BY DEF UndoInv
<1> QED BY UndoInvariant, <1>1, PTL

\* Under a swapping journal each target's old contents are in place or saved.
LEMMA OldIsSomewhere == UndoInv => OldStateKept
<1> SUFFICES ASSUME UndoInv, journal = "swapping", NEW t \in Targets
             PROVE  before[t] \in {root[t], prev[t]}
  BY DEF OldStateKept
<1> USE DEF UndoInv, SwapInv, TypeOK, JournalMatchesPc, Targets, MovedIn, MovedOut, Untouched,
        Swapped
<1>1. CASE pc \in Forward
  BY <1>1, RestoreBounds DEF SwapPosition, Forward
<1>2. CASE pc \notin Forward
  BY <1>2, RestoreBounds DEF UndoPosition, Forward, Undoing, Sweeping
<1> QED BY <1>1, <1>2

\* With at most one interruption per journal, nothing of the previous state is
\* destroyed before the commit.
THEOREM OldStateIsKept == ASSUME OnceOnly PROVE Spec => []OldStateKept
<1>1. UndoInv => OldStateKept
  BY OldIsSomewhere
<1> QED BY UndoInvariant, <1>1, PTL
=============================================================================
