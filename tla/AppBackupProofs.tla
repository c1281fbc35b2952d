-------------------------- MODULE AppBackupProofs --------------------------
(***************************************************************************)
(* Proofs about AppBackup for any number of components, any excluded       *)
(* slots, any number of backups, restores, changes, faults and crashes: a  *)
(* recorded backup is one instant of the application, an accepted restore  *)
(* puts back exactly that instant, replies are true and the application is *)
(* never left down in silence.                                             *)
(***************************************************************************)
EXTENDS AppBackup, WellFoundedInduction, TLAPS

Copied == {"verify", "write", "publish", "sync", "hash"}
Busy == {"stop", "copy", "resume"} \cup Copied
Leaving == {"discard", "clean", "reply"}

\* Contents that were read from a slot, or nothing.
Read == [C -> Versions \cup {Unread}]

\* What is staged and what an index says was read from the disk; the generation
\* grows by one with a change.
Genuine ==
    /\ stage \in Read /\ \A b \in Backups : archive[b].index \in Read
    /\ installed.generation <= changes + 1

\* The handler works for the one operation whose receipt says running.
OneHandler ==
    /\ pc # "idle" => helper = "up" /\ op \in Backups /\ receipt[op] = "running"
    /\ \A b \in Backups : receipt[b] = "running" => b = op /\ (pc # "idle" \/ helper = "down")
    /\ op # 0 => receipt[op] # "none"

\* From the first stop to the last copy only recorded components run, then none:
\* nothing but a running component writes, so the disk is the cut's.
Quiet ==
    /\ pc \in Busy => up \subseteq running
    /\ pc \in {"stop", "copy"} => StopsForBackup /\ answer = "ok"
    /\ pc = "copy" => up = {} /\ cut[op] = [of |-> plan, data |-> data]
    /\ pc = "copy" => \A s \in Included : s < slot => stage[s] = data[s]
    /\ pc \in Copied => running \subseteq up
    /\ pc = "resume" /\ answer = "error" => faults > 0

\* The ghost of b is an instant of the disk, of which f holds the included slots.
Instant(b, f) == cut[b].data \in [C -> Versions] /\ Same(f, cut[b].data)

\* What is staged after the copy is the instant of the cut.
StagedIsCut ==
    (pc \in Copied \/ (pc = "resume" /\ answer = "ok")) /\ StopsForBackup =>
        cut[op].of = plan /\ Instant(op, stage)

\* Files and rows appear in the order of the handler's steps.
FilesFollow ==
    /\ \A b \in Backups : receipt[b] \in {"none", "failed"} => ~row[b].exists
    /\ \A b \in Backups : receipt[b] = "none" => ~archive[b].exists /\ b \notin partial /\ b \notin work
    /\ pc \in Busy => ~row[op].exists
    /\ pc \in Busy \ {"sync", "hash"} => ~archive[op].exists
    /\ pc \in Busy \ {"publish"} => op \notin partial
    /\ pc \in {"sync", "hash"} =>
          archive[op].exists /\ archive[op].of = plan /\ archive[op].index = stage

\* What the handler is about to answer is true: the way to the receipt.
AnswerIsTrue ==
    /\ pc \in Leaving /\ answer = "ok" =>
          pc # "discard" /\ running \subseteq up /\ row[op].exists /\ archive[op].exists
    /\ pc \in Leaving /\ answer = "error" =>
          ~row[op].exists /\ (running \subseteq up \/ faults > 0)
    /\ pc \in {"clean", "reply"} /\ answer = "error" =>
          op \in stuck \/ (~archive[op].exists /\ op \notin partial)
    /\ pc = "reply" => op \in stuck \/ op \notin work

\* A recorded archive is of the instant its backup took.
RecordedIsCut ==
    \A b \in Backups : row[b].exists =>
        /\ row[b].generation = archive[b].of.generation
        /\ StopsForBackup => cut[b].of = archive[b].of /\ Instant(b, archive[b].index)

\* Whoever finds the application down finds a receipt that says so.
DownIsKnown ==
    op # 0 /\ pc = "idle" /\ ~(running \subseteq up) =>
        \/ receipt[op] = "action_required"
        \/ receipt[op] = "failed" /\ faults > 0
        \/ receipt[op] = "running"

IndInv ==
    /\ TypeOK /\ Genuine /\ OneHandler /\ Quiet /\ StagedIsCut /\ FilesFollow /\ AnswerIsTrue
    /\ RecordedIsCut /\ DownIsKnown

USE DEF Copied, Busy, Leaving

-----------------------------------------------------------------------------
(* Shared facts.                                                           *)

\* The smallest of a set of numbers is one of them.
LEMMA MinIn ==
    ASSUME NEW T, T \subseteq Nat, T # {}
    PROVE  Min(T) \in T
<1>1. PICK x \in T : \A y \in T : ~(<<y, x>> \in OpToRel(<, Nat))
  BY NatLessThanWellFounded, WFMin
<1>2. \A y \in T : x =< y
  <2>1. \A y \in T : ~(y < x)
    BY <1>1 DEF OpToRel
  <2> QED
    BY <2>1
<1> QED
  BY <1>2 DEF Min

States == {"none", "running", "succeeded", "failed", "action_required"}

\* A fault is counted.
LEMMA Counted ==
    ASSUME TypeOK, Fault
    PROVE  /\ faults' \in 0..MaxFaults /\ faults' > 0
           /\ UNCHANGED <<restores, changes, crashes>>
<1>1. faults \in Nat /\ MaxFaults \in Nat
  BY AppBackupBounds DEF TypeOK
<1> QED
  BY <1>1 DEF Fault, environment

\* The handler's position: what every step of it may use.
LEMMA AtWork ==
    ASSUME IndInv, pc # "idle"
    PROVE  /\ TypeOK /\ Genuine /\ OneHandler /\ Quiet /\ StagedIsCut /\ FilesFollow /\ AnswerIsTrue
           /\ RecordedIsCut /\ op \in Backups /\ op # 0 /\ receipt[op] = "running" /\ helper = "up"
           /\ \A b \in Backups : b # op => receipt[b] # "running"
<1>1. op \in Backups /\ receipt[op] = "running" /\ helper = "up"
  BY DEF IndInv, OneHandler
<1>2. op # 0
  BY <1>1, AppBackupBounds DEF Backups
<1> QED
  BY <1>1, <1>2 DEF IndInv, OneHandler

-----------------------------------------------------------------------------
(* Steps of the handler.                                                   *)

\* The last component has stopped: the disk of this instant is the cut.
LEMMA CutTaken ==
    ASSUME IndInv, pc = "stop", ToStop = {}, StopNext
    PROVE  IndInv'
<1> USE DEF app, files, frame, bounds
<1>1. /\ TypeOK /\ Genuine /\ OneHandler /\ Quiet /\ FilesFollow /\ AnswerIsTrue /\ RecordedIsCut
      /\ op \in Backups /\ op # 0 /\ receipt[op] = "running" /\ ~row[op].exists /\ up \subseteq running
      /\ AnswerIsTrue
  BY AtWork DEF Quiet, FilesFollow
<1>2. up = {}
  BY <1>1 DEF ToStop
<1>3. PICK n : n = [of |-> plan, data |-> data]
  OBVIOUS
<1>4. n \in [of : Identity, data : Slots] /\ n.of = plan /\ n.data = data
  BY <1>1, <1>3 DEF TypeOK, Slots
<1>5. /\ pc' = "copy" /\ slot' = 1 /\ cut' = [cut EXCEPT ![op] = n] /\ up' = up
      /\ UNCHANGED <<app, data, files, row, receipt, frame, stage, answer, bounds>>
  BY <1>3 DEF StopNext, BeginCopy
<1>6. /\ cut' \in [Backups -> [of : Identity, data : Slots]] /\ cut'[op] = n
      /\ \A b \in Backups : b # op => cut'[b] = cut[b]
  BY <1>1, <1>4, <1>5 DEF TypeOK
<1>7. TypeOK'
  BY <1>1, <1>5, <1>6, AppBackupBounds DEF TypeOK
<1>8. Genuine' /\ OneHandler' /\ FilesFollow' /\ AnswerIsTrue' /\ DownIsKnown'
  BY <1>1, <1>5 DEF Genuine, OneHandler, FilesFollow, AnswerIsTrue, DownIsKnown
<1>9. Quiet'
  <2>1. \A s \in Included : ~(s < 1)
    BY AppBackupBounds DEF Included, C
  <2> QED
    BY <1>1, <1>2, <1>3, <1>4, <1>5, <1>6, <2>1 DEF Quiet, Copied, StopsForBackup
<1>10. StagedIsCut'
  BY <1>5 DEF StagedIsCut, Copied
<1>11. RecordedIsCut'
  BY <1>1, <1>5, <1>6 DEF RecordedIsCut, Instant, Same, StopsForBackup
<1> QED
  BY <1>7, <1>8, <1>9, <1>10, <1>11 DEF IndInv

\* snapshotBackupRuntime stops the next component or takes the cut.
LEMMA StepStopNext == ASSUME IndInv, StopNext PROVE IndInv'
<1>1. pc = "stop"
  BY DEF StopNext
<1>2. CASE ToStop # {}
  <2> USE AppBackupBounds DEF IndInv, app, files, frame, bounds
  <2>1. up' = up \ {Max(ToStop)} /\ UNCHANGED <<pc, slot, cut>>
    BY <1>2 DEF StopNext
  <2>2. up' \subseteq up
    BY <2>1
  <2>3. UNCHANGED <<app, data, files, row, receipt, frame, stage, answer, bounds>>
    BY DEF StopNext
  <2>4. TypeOK'
    BY <2>1, <2>2, <2>3 DEF TypeOK
  <2>5. Genuine' /\ OneHandler' /\ FilesFollow' /\ AnswerIsTrue'
    BY <1>1, <2>1, <2>3 DEF Genuine, OneHandler, FilesFollow, AnswerIsTrue
  <2>6. Quiet' /\ StagedIsCut' /\ DownIsKnown'
    BY <1>1, <2>1, <2>2, <2>3 DEF Quiet, StagedIsCut, DownIsKnown, Copied, StopsForBackup
  <2>7. RecordedIsCut'
    BY <2>1, <2>3 DEF RecordedIsCut, Instant, Same, StopsForBackup
  <2> QED
    BY <2>4, <2>5, <2>6, <2>7
<1>3. CASE ToStop = {}
  BY <1>1, <1>3, CutTaken
<1> QED
  BY <1>2, <1>3

\* A failed stop leads to the resume of what ran.
LEMMA StepStopFails == ASSUME IndInv, StopFails PROVE IndInv'
<1> USE AppBackupBounds DEF IndInv, app, files, frame, bounds
<1>1. TypeOK'
  BY Counted DEF StopFails, TypeOK
<1>2. Genuine' /\ OneHandler' /\ FilesFollow' /\ AnswerIsTrue'
  BY Counted DEF StopFails, Genuine, OneHandler, FilesFollow, AnswerIsTrue
<1>3. Quiet' /\ StagedIsCut' /\ DownIsKnown'
  BY Counted DEF StopFails, Quiet, StagedIsCut, DownIsKnown, Copied, StopsForBackup
<1>4. RecordedIsCut'
  BY DEF StopFails, RecordedIsCut, Instant, Same, StopsForBackup
<1> QED
  BY <1>1, <1>2, <1>3, <1>4

\* One slot is copied from a disk nobody writes, or the copy is complete.
LEMMA StepCopyNext == ASSUME IndInv, CopyNext PROVE IndInv'
<1> USE DEF app, files, frame, bounds
<1>1. /\ TypeOK /\ Genuine /\ OneHandler /\ Quiet /\ FilesFollow /\ AnswerIsTrue /\ RecordedIsCut /\ pc = "copy"
      /\ op \in Backups /\ op # 0 /\ receipt[op] = "running" /\ up \subseteq running
  BY AtWork DEF CopyNext, Quiet
<1>2. /\ UNCHANGED <<app, data, up, files, row, receipt, cut, frame, answer, bounds>>
      /\ \/ slot \in C /\ slot' = slot + 1 /\ pc' = pc
            /\ stage' = IF slot \in Included THEN [stage EXCEPT ![slot] = data[slot]] ELSE stage
         \/ slot \notin C /\ pc' = "resume" /\ stage' = stage /\ slot' = slot
  BY <1>1 DEF CopyNext, AfterCopy
<1>3. slot \in 1..(Components + 1) /\ Components \in Nat /\ C = 1..Components /\ slot \in Nat
  BY <1>1, AppBackupBounds DEF TypeOK, C
<1>4. slot' \in 1..(Components + 1)
  BY <1>2, <1>3
<1>5. /\ stage' \in Read
      /\ \A s \in C : s # slot \/ slot \notin Included => stage'[s] = stage[s]
      /\ slot \in Included => stage'[slot] = data[slot] \/ slot \notin C
  BY <1>1, <1>2 DEF Genuine, Read, TypeOK, Included
<1>6. TypeOK'
  <2>1. stage' \in Slots
    BY <1>5 DEF Read, Slots
  <2> QED
    BY <1>1, <1>2, <1>4, <2>1 DEF TypeOK
<1>7. Genuine' /\ OneHandler' /\ FilesFollow' /\ AnswerIsTrue' /\ DownIsKnown'
  BY <1>1, <1>2, <1>5 DEF Genuine, OneHandler, FilesFollow, AnswerIsTrue, DownIsKnown
<1>8. \A s \in Included : s \in C /\ s \in Nat
  BY <1>3 DEF Included
<1>9. ASSUME slot \in C PROVE Quiet' /\ StagedIsCut'
  <2>1. slot' = slot + 1 /\ pc' = "copy"
    BY <1>1, <1>2, <1>9
  <2>2. ASSUME NEW s \in Included, s < slot' PROVE stage'[s] = data[s]
    <3>1. s = slot \/ s < slot
      BY <1>3, <1>8, <2>1, <2>2
    <3>2. CASE s = slot
      BY <1>5, <1>9, <3>2
    <3>3. CASE s < slot
      <4>1. s # slot
        BY <1>3, <1>8, <3>3
      <4> QED
        BY <1>1, <1>5, <1>8, <3>3, <4>1 DEF Quiet
    <3> QED
      BY <3>1, <3>2, <3>3
  <2>3. Quiet' /\ StagedIsCut'
    BY <1>1, <1>2, <2>1, <2>2 DEF Quiet, StagedIsCut, Copied, StopsForBackup
  <2> QED
    BY <2>3
<1>10. ASSUME slot \notin C PROVE Quiet' /\ StagedIsCut'
  <2>1. \A s \in Included : s < slot
    BY <1>3, <1>8, <1>10
  <2>2. pc' = "resume" /\ stage' = stage
    BY <1>2, <1>10
  <2>3. Instant(op, stage) /\ cut[op].of = plan
    BY <1>1, <2>1 DEF Quiet, Instant, Same, TypeOK
  <2>4. Quiet' /\ StagedIsCut'
    BY <1>1, <1>2, <2>2, <2>3 DEF Quiet, StagedIsCut, Instant, Same, Copied, StopsForBackup
  <2> QED
    BY <2>4
<1>11. RecordedIsCut'
  BY <1>1, <1>2 DEF RecordedIsCut, Instant, Same, StopsForBackup
<1> QED
  BY <1>6, <1>7, <1>9, <1>10, <1>11 DEF IndInv

\* A failed copy leads to the resume of what ran.
LEMMA StepCopyFails == ASSUME IndInv, CopyFails PROVE IndInv'
<1> USE AppBackupBounds DEF IndInv, app, files, frame, bounds
<1>1. TypeOK'
  BY Counted DEF CopyFails, TypeOK
<1>2. Genuine' /\ OneHandler' /\ FilesFollow' /\ AnswerIsTrue'
  BY Counted DEF CopyFails, Genuine, OneHandler, FilesFollow, AnswerIsTrue
<1>3. Quiet' /\ StagedIsCut' /\ DownIsKnown'
  BY Counted DEF CopyFails, Quiet, StagedIsCut, DownIsKnown, Copied, StopsForBackup
<1>4. RecordedIsCut'
  BY DEF CopyFails, RecordedIsCut, Instant, Same, StopsForBackup
<1> QED
  BY <1>1, <1>2, <1>3, <1>4

\* A failing handler begins to leave: nothing it made is touched yet.
LEMMA LeaveStep ==
    ASSUME IndInv, pc \in Busy, pc' \in {"discard", "clean"}, answer' = "error", up' \subseteq C,
           UNCHANGED <<app, data, files, row, receipt, cut, frame, stage, slot>>,
           pc' = "clean" => pc \notin {"publish", "sync", "hash"},
           \/ Fault
           \/ UNCHANGED bounds /\ running \subseteq up'
    PROVE  IndInv'
<1> USE DEF app, files, frame, bounds
<1>1. /\ TypeOK /\ Genuine /\ OneHandler /\ FilesFollow /\ RecordedIsCut /\ pc # "idle"
      /\ op \in Backups /\ op # 0 /\ receipt[op] = "running"
  BY AtWork
<1>2. /\ UNCHANGED <<restores, changes, crashes>> /\ faults' \in 0..MaxFaults
      /\ running \subseteq up' \/ faults' > 0
  BY <1>1, Counted DEF TypeOK
<1>3. TypeOK'
  BY <1>1, <1>2 DEF TypeOK
<1>4. Genuine' /\ OneHandler' /\ FilesFollow' /\ DownIsKnown'
  BY <1>1, <1>2 DEF Genuine, OneHandler, FilesFollow, DownIsKnown
<1>5. AnswerIsTrue'
  BY <1>1, <1>2 DEF AnswerIsTrue, FilesFollow
<1>6. Quiet' /\ StagedIsCut'
  BY DEF Quiet, StagedIsCut
<1>7. RecordedIsCut'
  BY <1>1 DEF RecordedIsCut, Instant, Same, StopsForBackup
<1> QED
  BY <1>3, <1>4, <1>5, <1>6, <1>7 DEF IndInv

\* resumeBackupRuntime starts the next component, or everything runs again.
LEMMA StepResumeNext == ASSUME IndInv, ResumeNext PROVE IndInv'
<1> USE DEF app, files, frame, bounds
<1>1. /\ TypeOK /\ Genuine /\ OneHandler /\ Quiet /\ StagedIsCut /\ FilesFollow /\ AnswerIsTrue
      /\ RecordedIsCut /\ pc = "resume" /\ op \in Backups /\ op # 0
  BY AtWork DEF ResumeNext
<1>2. UNCHANGED <<app, data, files, row, receipt, cut, frame, stage, slot, answer, bounds>>
  BY DEF ResumeNext
<1>3. CASE running \ up # {} /\ up' = up \cup {Min(running \ up)} /\ UNCHANGED pc
  <2>1. running \ up \subseteq Nat
    BY <1>1, AppBackupBounds DEF TypeOK, C
  <2>2. Min(running \ up) \in running \ up
    BY <1>3, <2>1, MinIn
  <2>3. up' \subseteq running /\ up' \subseteq C
    BY <1>1, <1>3, <2>2 DEF TypeOK, Quiet
  <2>4. TypeOK'
    BY <1>1, <1>2, <1>3, <2>3 DEF TypeOK
  <2>5. Genuine' /\ OneHandler' /\ FilesFollow' /\ AnswerIsTrue' /\ DownIsKnown'
    BY <1>1, <1>2, <1>3 DEF Genuine, OneHandler, FilesFollow, AnswerIsTrue, DownIsKnown
  <2>6. Quiet' /\ StagedIsCut'
    BY <1>1, <1>2, <1>3, <2>3 DEF Quiet, StagedIsCut, Instant, Same, StopsForBackup
  <2>7. RecordedIsCut'
    BY <1>1, <1>2, <1>3 DEF RecordedIsCut, Instant, Same, StopsForBackup
  <2> QED
    BY <2>4, <2>5, <2>6, <2>7 DEF IndInv
<1>4. CASE running \ up = {} /\ answer = "error" /\ pc' = "clean" /\ UNCHANGED up
  <2>1. running \subseteq up' /\ up' \subseteq C
    BY <1>1, <1>4 DEF TypeOK
  <2> QED
    BY <1>1, <1>2, <1>4, <2>1, LeaveStep
<1>5. CASE running \ up = {} /\ answer = "ok" /\ pc' = "verify" /\ UNCHANGED up
  <2>1. running \subseteq up
    BY <1>5
  <2>2. TypeOK'
    BY <1>1, <1>2, <1>5 DEF TypeOK
  <2>3. Genuine' /\ OneHandler' /\ FilesFollow' /\ AnswerIsTrue' /\ DownIsKnown'
    BY <1>1, <1>2, <1>5 DEF Genuine, OneHandler, FilesFollow, AnswerIsTrue, DownIsKnown
  <2>4. Quiet' /\ StagedIsCut'
    BY <1>1, <1>2, <1>5, <2>1 DEF Quiet, StagedIsCut, Instant, Same, StopsForBackup
  <2>5. RecordedIsCut'
    BY <1>1, <1>2, <1>5 DEF RecordedIsCut, Instant, Same, StopsForBackup
  <2> QED
    BY <2>2, <2>3, <2>4, <2>5 DEF IndInv
<1> QED
  BY <1>1, <1>3, <1>4, <1>5 DEF ResumeNext, TypeOK

\* A component that does not come back ends the backup, which says so.
LEMMA StepResumeFails == ASSUME IndInv, ResumeFails PROVE IndInv'
<1>1. /\ TypeOK /\ pc = "resume" /\ running \ up # {} /\ Fault /\ pc' = "clean" /\ answer' = "error"
      /\ UNCHANGED <<app, data, files, row, receipt, cut, frame, stage, slot>>
  BY DEF ResumeFails, IndInv, AfterResumeFailed, Return
<1>2. running \ up \subseteq Nat /\ running \subseteq C
  BY <1>1, AppBackupBounds DEF TypeOK, C
<1>3. Min(running \ up) \in C
  BY <1>1, <1>2, MinIn
<1>4. up' \subseteq C
  BY <1>1, <1>3 DEF ResumeFails, TypeOK
<1> QED
  BY <1>1, <1>4, LeaveStep

\* Verification, and the partial file, change nothing the application sees.
LEMMA StepVerify == ASSUME IndInv, Verify PROVE IndInv'
<1> USE AppBackupBounds DEF IndInv, app, files, frame, bounds
<1>1. TypeOK'
  BY DEF Verify, TypeOK
<1>2. Genuine' /\ OneHandler' /\ FilesFollow' /\ AnswerIsTrue' /\ DownIsKnown'
  BY DEF Verify, Genuine, OneHandler, FilesFollow, AnswerIsTrue, DownIsKnown
<1>3. Quiet' /\ StagedIsCut'
  BY DEF Verify, Quiet, StagedIsCut, Instant, Same, Copied, StopsForBackup
<1>4. RecordedIsCut'
  BY DEF Verify, RecordedIsCut, Instant, Same, StopsForBackup
<1> QED
  BY <1>1, <1>2, <1>3, <1>4

\* A database that does not verify, a partial file that cannot be made, an archive,
\* a hash or a row that cannot be written: the handler begins to leave.
LEMMA StepWriteFails == ASSUME IndInv, VerifyFails \/ CreateFails \/ RecordFails PROVE IndInv'
<1>1. /\ pc \in Busy /\ Fault /\ pc' \in {"clean", "discard"} /\ answer' = "error" /\ up' = up
      /\ UNCHANGED <<app, data, files, row, receipt, cut, frame, stage, slot>>
      /\ pc' = "clean" => pc \notin {"publish", "sync", "hash"}
  BY DEF VerifyFails, CreateFails, RecordFails, Return
<1>2. up' \subseteq C
  BY <1>1 DEF IndInv, TypeOK
<1> QED
  BY <1>1, <1>2, LeaveStep

\* The partial file appears.
LEMMA StepWritePartial == ASSUME IndInv, WritePartial PROVE IndInv'
<1> USE AppBackupBounds DEF IndInv, app, frame, bounds
<1>1. op \in Backups
  BY DEF WritePartial, OneHandler
<1>2. TypeOK'
  BY <1>1 DEF WritePartial, TypeOK
<1>3. Genuine' /\ OneHandler' /\ FilesFollow' /\ AnswerIsTrue' /\ DownIsKnown'
  BY DEF WritePartial, Genuine, OneHandler, FilesFollow, AnswerIsTrue, DownIsKnown
<1>4. Quiet' /\ StagedIsCut'
  BY DEF WritePartial, Quiet, StagedIsCut, Instant, Same, Copied, StopsForBackup
<1>5. RecordedIsCut'
  BY DEF WritePartial, RecordedIsCut, Instant, Same, StopsForBackup
<1> QED
  BY <1>2, <1>3, <1>4, <1>5

\* The archive appears under its name, with what was staged.
LEMMA StepPublish == ASSUME IndInv, Publish PROVE IndInv'
<1> USE DEF app, frame, bounds
<1>1. /\ TypeOK /\ Genuine /\ OneHandler /\ Quiet /\ StagedIsCut /\ FilesFollow /\ AnswerIsTrue /\ RecordedIsCut
      /\ pc = "publish" /\ op \in Backups /\ op # 0 /\ receipt[op] = "running" /\ ~row[op].exists
  BY AtWork DEF Publish, FilesFollow
<1>2. PICK n : n = [exists |-> TRUE, of |-> plan, data |-> stage, index |-> stage]
  OBVIOUS
<1>3. n \in Files /\ n.exists /\ n.of = plan /\ n.index = stage
  BY <1>1, <1>2 DEF TypeOK, Files
<1>4. /\ partial' = partial \ {op} /\ archive' = [archive EXCEPT ![op] = n] /\ pc' = "sync"
      /\ UNCHANGED <<app, data, up, work, stuck, row, receipt, cut, frame, stage, slot, answer, bounds>>
  BY <1>2 DEF Publish
<1>5. /\ archive' \in [Backups -> Files] /\ archive'[op] = n
      /\ \A b \in Backups : b # op => archive'[b] = archive[b]
  BY <1>1, <1>3, <1>4 DEF TypeOK
<1>6. TypeOK'
  BY <1>1, <1>4, <1>5 DEF TypeOK
<1>7. Genuine' /\ OneHandler' /\ DownIsKnown'
  BY <1>1, <1>3, <1>4, <1>5 DEF Genuine, OneHandler, DownIsKnown
<1>8. FilesFollow' /\ AnswerIsTrue'
  BY <1>1, <1>3, <1>4, <1>5 DEF FilesFollow, AnswerIsTrue
<1>9. Quiet' /\ StagedIsCut'
  BY <1>1, <1>4 DEF Quiet, StagedIsCut, Instant, Same, Copied, StopsForBackup
<1>10. RecordedIsCut'
  BY <1>1, <1>4, <1>5 DEF RecordedIsCut, Instant, Same, StopsForBackup
<1> QED
  BY <1>6, <1>7, <1>8, <1>9, <1>10 DEF IndInv

\* The directory is synced.
LEMMA StepSync == ASSUME IndInv, Sync PROVE IndInv'
<1> USE AppBackupBounds DEF IndInv, app, files, frame, bounds
<1>1. TypeOK'
  BY DEF Sync, TypeOK
<1>2. Genuine' /\ OneHandler' /\ FilesFollow' /\ AnswerIsTrue' /\ DownIsKnown'
  BY DEF Sync, Genuine, OneHandler, FilesFollow, AnswerIsTrue, DownIsKnown
<1>3. Quiet' /\ StagedIsCut'
  BY DEF Sync, Quiet, StagedIsCut, Instant, Same, Copied, StopsForBackup
<1>4. RecordedIsCut'
  BY DEF Sync, RecordedIsCut, Instant, Same, StopsForBackup
<1> QED
  BY <1>1, <1>2, <1>3, <1>4

\* What failed takes its file away, or is stuck with it.
LEMMA StepDiscard == ASSUME IndInv, Discard PROVE IndInv'
<1> USE DEF app, frame, bounds
<1>1. /\ TypeOK /\ Genuine /\ OneHandler /\ FilesFollow /\ AnswerIsTrue /\ RecordedIsCut
      /\ pc = "discard" /\ op \in Backups /\ op # 0
  BY AtWork DEF Discard
<1>2. answer = "error" /\ ~row[op].exists /\ (running \subseteq up \/ faults > 0)
  BY <1>1 DEF AnswerIsTrue, TypeOK
<1>3. /\ pc' = "clean" /\ UNCHANGED <<app, data, up, work, row, receipt, cut, frame, stage, slot,
                                      answer, bounds>>
      /\ \/ /\ partial' = partial \ {op} /\ archive' = [archive EXCEPT ![op] = NoFile]
            /\ UNCHANGED stuck
         \/ stuck' = stuck \cup {op} /\ UNCHANGED <<partial, archive>>
  BY DEF Discard, PartialAfterFailure
<1>4. NoFile \in Files /\ NoFile.index \in Read /\ ~NoFile.exists
  <2>1. NoSlots \in Slots /\ NoSlots \in Read
    BY DEF NoSlots, Slots, Read
  <2>2. First \in Identity
    BY AppBackupBounds DEF First, Identity
  <2> QED
    BY <2>1, <2>2 DEF NoFile, Files
<1>5. /\ archive' \in [Backups -> Files] /\ archive'[op].index \in Read
      /\ partial' \subseteq partial /\ stuck' \subseteq Backups
      /\ op \in stuck' \/ (~archive'[op].exists /\ op \notin partial')
      /\ \A b \in Backups : b # op => archive'[b] = archive[b]
  BY <1>1, <1>3, <1>4 DEF TypeOK, Genuine
<1>6. TypeOK'
  BY <1>1, <1>3, <1>5 DEF TypeOK
<1>7. Genuine' /\ OneHandler' /\ Quiet' /\ StagedIsCut' /\ DownIsKnown'
  BY <1>1, <1>3, <1>5 DEF Genuine, OneHandler, Quiet, StagedIsCut, DownIsKnown
<1>8. FilesFollow' /\ AnswerIsTrue'
  BY <1>1, <1>2, <1>3, <1>5 DEF FilesFollow, AnswerIsTrue, OneHandler
<1>9. RecordedIsCut'
  BY <1>1, <1>2, <1>3, <1>5 DEF RecordedIsCut, Instant, Same, StopsForBackup
<1> QED
  BY <1>6, <1>7, <1>8, <1>9 DEF IndInv

\* The row is written: the archive it names is of the instant of the cut.
LEMMA StepRecordBackup == ASSUME IndInv, RecordBackup PROVE IndInv'
<1> USE DEF app, files, frame, bounds
<1>1. /\ TypeOK /\ Genuine /\ OneHandler /\ Quiet /\ StagedIsCut /\ FilesFollow /\ RecordedIsCut
      /\ pc = "hash" /\ op \in Backups /\ op # 0 /\ receipt[op] = "running"
  BY AtWork DEF RecordBackup
<1>2. PICK n : n = [exists |-> TRUE, generation |-> plan.generation, hash |-> archive[op]]
  OBVIOUS
<1>3. /\ n \in [exists : BOOLEAN, generation : 1..(MaxChanges + 1), hash : Files]
      /\ n.exists /\ n.generation = plan.generation
  BY <1>1, <1>2 DEF TypeOK, Identity
<1>4. /\ row' = [row EXCEPT ![op] = n] /\ pc' = "clean" /\ answer' = "ok"
      /\ UNCHANGED <<app, data, up, files, receipt, cut, frame, stage, slot, bounds>>
  BY <1>2 DEF RecordBackup, Return
<1>5. /\ row' \in [Backups -> [exists : BOOLEAN, generation : 1..(MaxChanges + 1), hash : Files]]
      /\ row'[op] = n /\ \A b \in Backups : b # op => row'[b] = row[b]
  BY <1>1, <1>3, <1>4 DEF TypeOK
<1>6. /\ archive[op].of = plan /\ archive[op].index = stage /\ running \subseteq up
      /\ archive[op].exists
      /\ StopsForBackup => cut[op].of = plan /\ Instant(op, stage)
  BY <1>1 DEF FilesFollow, StagedIsCut, Quiet
<1>7. TypeOK'
  BY <1>1, <1>4, <1>5 DEF TypeOK
<1>8. Genuine' /\ OneHandler' /\ Quiet' /\ StagedIsCut' /\ DownIsKnown'
  BY <1>1, <1>4 DEF Genuine, OneHandler, Quiet, StagedIsCut, DownIsKnown
<1>9. FilesFollow' /\ AnswerIsTrue'
  BY <1>1, <1>3, <1>4, <1>5, <1>6 DEF FilesFollow, AnswerIsTrue
<1>10. RecordedIsCut'
  <2> USE DEF RecordedIsCut
  <2> TAKE b \in Backups
  <2>1. CASE b = op
    BY <1>3, <1>4, <1>5, <1>6, <2>1 DEF Instant, Same, StopsForBackup
  <2>2. CASE b # op
    BY <1>1, <1>4, <1>5, <2>2 DEF Instant, Same, StopsForBackup
  <2> QED
    BY <2>1, <2>2
<1> QED
  BY <1>7, <1>8, <1>9, <1>10 DEF IndInv

\* The deferred removal takes the workspace away, or is stuck with it.
LEMMA StepRemoveWorkspace == ASSUME IndInv, RemoveWorkspace PROVE IndInv'
<1> USE DEF app, frame, bounds
<1>1. /\ TypeOK /\ Genuine /\ OneHandler /\ FilesFollow /\ AnswerIsTrue /\ RecordedIsCut
      /\ pc = "clean" /\ op \in Backups /\ op # 0
  BY AtWork DEF RemoveWorkspace
<1>2. /\ pc' = "reply" /\ UNCHANGED <<app, data, up, archive, partial, row, receipt, cut, frame,
                                      stage, slot, answer, bounds>>
      /\ work' \subseteq work /\ stuck \subseteq stuck' /\ stuck' \subseteq Backups
      /\ op \in stuck' \/ op \notin work'
  BY <1>1 DEF RemoveWorkspace, TypeOK
<1>3. TypeOK'
  BY <1>1, <1>2 DEF TypeOK
<1>4. Genuine' /\ OneHandler' /\ Quiet' /\ StagedIsCut' /\ DownIsKnown'
  BY <1>1, <1>2 DEF Genuine, OneHandler, Quiet, StagedIsCut, DownIsKnown
<1>5. FilesFollow' /\ AnswerIsTrue'
  BY <1>1, <1>2 DEF FilesFollow, AnswerIsTrue
<1>6. RecordedIsCut'
  BY <1>1, <1>2 DEF RecordedIsCut, Instant, Same, StopsForBackup
<1> QED
  BY <1>3, <1>4, <1>5, <1>6 DEF IndInv

\* The receipt is settled.
LEMMA StepComplete == ASSUME IndInv, Complete PROVE IndInv'
<1> USE DEF app, files, frame, bounds
<1>1. /\ TypeOK /\ Genuine /\ OneHandler /\ FilesFollow /\ AnswerIsTrue /\ RecordedIsCut
      /\ pc = "reply" /\ op \in Backups /\ op # 0 /\ receipt[op] = "running"
      /\ \A b \in Backups : b # op => receipt[b] # "running"
  BY AtWork DEF Complete
<1>2. PICK r \in {"succeeded", "failed"} :
        (r = "failed" <=> answer = "error") /\ receipt' = [receipt EXCEPT ![op] = r]
  BY <1>1 DEF Complete, TypeOK
<1>3. /\ pc' = "idle" /\ UNCHANGED <<app, data, up, files, row, cut, frame, stage, slot, answer, bounds>>
  BY DEF Complete
<1>4. /\ receipt' \in [Backups -> States] /\ receipt'[op] = r
      /\ \A b \in Backups : b # op => receipt'[b] = receipt[b]
  BY <1>1, <1>2 DEF TypeOK, States
<1>5. TypeOK'
  BY <1>1, <1>3, <1>4 DEF TypeOK, States
<1>6. Genuine' /\ OneHandler' /\ Quiet' /\ StagedIsCut'
  BY <1>1, <1>3, <1>4 DEF Genuine, OneHandler, Quiet, StagedIsCut
<1>7. FilesFollow' /\ AnswerIsTrue' /\ DownIsKnown'
  BY <1>1, <1>2, <1>3, <1>4 DEF FilesFollow, AnswerIsTrue, DownIsKnown, TypeOK
<1>8. RecordedIsCut'
  BY <1>1, <1>3 DEF RecordedIsCut, Instant, Same, StopsForBackup
<1> QED
  BY <1>5, <1>6, <1>7, <1>8 DEF IndInv

\* The receipt cannot be written and stays running.
LEMMA StepCompleteFails == ASSUME IndInv, CompleteFails PROVE IndInv'
<1> USE AppBackupBounds DEF IndInv, app, files, frame, bounds
<1>1. TypeOK'
  BY Counted DEF CompleteFails, TypeOK
<1>2. Genuine' /\ OneHandler' /\ FilesFollow' /\ AnswerIsTrue'
  BY Counted DEF CompleteFails, Genuine, OneHandler, FilesFollow, AnswerIsTrue
<1>3. Quiet' /\ StagedIsCut' /\ DownIsKnown'
  BY DEF CompleteFails, Quiet, StagedIsCut, DownIsKnown
<1>4. RecordedIsCut'
  BY DEF CompleteFails, RecordedIsCut, Instant, Same, StopsForBackup
<1> QED
  BY <1>1, <1>2, <1>3, <1>4

-----------------------------------------------------------------------------
(* Steps of the world around the handler.                                  *)

\* Only a running component writes, so none during the copy.
LEMMA StepWrite == ASSUME IndInv, NEW c \in C, Write(c) PROVE IndInv'
<1> USE DEF IndInv, app, files, frame, bounds
<1>1. c \in up /\ data' = [data EXCEPT ![c] = @ + 1] /\ data[c] < MaxWrites
  BY DEF Write
<1>2. UNCHANGED <<app, up, files, row, receipt, cut, pc, frame, stage, slot, answer, bounds>>
  BY DEF Write
<1>3. data[c] \in Nat /\ MaxWrites \in Nat /\ data[c] \in Versions
  BY AppBackupBounds DEF TypeOK, Versions
<1>4. data[c] + 1 \in Versions
  BY <1>1, <1>3 DEF Versions
<1>5. data' \in [C -> Versions]
  BY <1>1, <1>4 DEF TypeOK
<1>6. TypeOK'
  BY <1>2, <1>5 DEF TypeOK
<1>7. Genuine' /\ OneHandler' /\ FilesFollow' /\ AnswerIsTrue' /\ DownIsKnown'
  BY <1>2 DEF Genuine, OneHandler, FilesFollow, AnswerIsTrue, DownIsKnown
<1>8. Quiet' /\ StagedIsCut'
  BY <1>1, <1>2 DEF Quiet, StagedIsCut, Instant, Same, Copied, StopsForBackup
<1>9. RecordedIsCut'
  BY <1>2 DEF RecordedIsCut, Instant, Same, StopsForBackup
<1> QED
  BY <1>6, <1>7, <1>8, <1>9

\* A change of catalog or installation waits for the handler.
LEMMA ChangeStep ==
    ASSUME IndInv, pc = "idle", changes' = changes + 1, changes < MaxChanges,
           UNCHANGED <<strategy, data, up, files, row, receipt, cut, pc, frame, stage, slot,
                       answer, restores, faults, crashes>>,
           installed' \in Identity, installed'.generation <= installed.generation + 1,
           catalog' \in [image : 0..1, storage : 0..1, secrets : 0..1]
    PROVE  IndInv'
<1> USE DEF IndInv, files, frame
<1>1. changes \in Nat /\ MaxChanges \in Nat /\ changes' \in 0..MaxChanges
  BY AppBackupBounds DEF TypeOK
<1>2. installed.generation \in Nat /\ installed'.generation \in Nat
  BY <1>1 DEF TypeOK, Identity
<1>3. installed'.generation <= changes' + 1
  BY <1>1, <1>2 DEF Genuine
<1>4. TypeOK'
  BY <1>1 DEF TypeOK
<1>5. Genuine'
  BY <1>3 DEF Genuine
<1>6. OneHandler' /\ FilesFollow' /\ AnswerIsTrue' /\ DownIsKnown' /\ Quiet' /\ StagedIsCut'
  BY DEF OneHandler, FilesFollow, AnswerIsTrue, DownIsKnown, Quiet, StagedIsCut, Copied
<1>7. RecordedIsCut'
  BY DEF RecordedIsCut, Instant, Same, StopsForBackup
<1> QED
  BY <1>4, <1>5, <1>6, <1>7

\* One of two values, and the other one.
LEMMA Flip == ASSUME NEW x \in 0..1 PROVE 1 - x \in 0..1
OBVIOUS

\* An upgrade ships another catalog.
LEMMA StepUpgradeCatalog == ASSUME IndInv, UpgradeCatalog PROVE IndInv'
<1>1. TypeOK
  BY DEF IndInv
<1>2. /\ catalog.image \in 0..1 /\ catalog.storage \in 0..1 /\ catalog.secrets \in 0..1
      /\ catalog \in [image : 0..1, storage : 0..1, secrets : 0..1]
  BY <1>1 DEF TypeOK
<1>3. /\ 1 - catalog.image \in 0..1 /\ 1 - catalog.storage \in 0..1 /\ 1 - catalog.secrets \in 0..1
  BY <1>2, Flip
<1>4. PICK f \in {"image", "storage", "secrets"} : catalog' = [catalog EXCEPT ![f] = 1 - @]
  BY DEF UpgradeCatalog
<1>5. catalog' \in [image : 0..1, storage : 0..1, secrets : 0..1]
  <2>1. CASE f = "image"
    <3>1. PICK x : x = 1 - catalog.image
      OBVIOUS
    <3>2. catalog' = [catalog EXCEPT !.image = x]
      BY <1>4, <2>1, <3>1
    <3> QED
      BY <1>2, <1>3, <3>1, <3>2
  <2>2. CASE f = "storage"
    <3>1. PICK x : x = 1 - catalog.storage
      OBVIOUS
    <3>2. catalog' = [catalog EXCEPT !.storage = x]
      BY <1>4, <2>2, <3>1
    <3> QED
      BY <1>2, <1>3, <3>1, <3>2
  <2>3. CASE f = "secrets"
    <3>1. PICK x : x = 1 - catalog.secrets
      OBVIOUS
    <3>2. catalog' = [catalog EXCEPT !.secrets = x]
      BY <1>4, <2>3, <3>1
    <3> QED
      BY <1>2, <1>3, <3>1, <3>2
  <2> QED
    BY <1>4, <2>1, <2>2, <2>3
<1>6. installed' = installed /\ installed \in Identity /\ installed.generation \in Nat
  BY <1>1, AppBackupBounds DEF UpgradeCatalog, TypeOK, Identity
<1>7. installed'.generation <= installed.generation + 1
  BY <1>6
<1> QED
  BY <1>5, <1>6, <1>7, ChangeStep DEF UpgradeCatalog

\* A replacement leaves what it prepared, and makes the next generation or not.
LEMMA StepReplace == ASSUME IndInv, Replace PROVE IndInv'
<1>1. TypeOK /\ Genuine
  BY DEF IndInv
<1>2. /\ installed \in Identity /\ installed.secrets \in 0..1 /\ catalog.image \in 0..1
      /\ catalog.storage \in 0..1 /\ catalog.secrets \in 0..1 /\ installed.generation \in Nat
      /\ installed.generation >= 1
      /\ catalog \in [image : 0..1, storage : 0..1, secrets : 0..1]
  BY <1>1, AppBackupBounds DEF TypeOK, Identity
<1>3. changes \in Nat /\ changes < MaxChanges /\ MaxChanges \in Nat /\ installed.generation <= changes + 1
  BY <1>1, AppBackupBounds DEF Replace, TypeOK, Genuine
<1>4. PICK n : n = installed.generation + 1
  OBVIOUS
<1>5. n \in 1..(MaxChanges + 1) /\ n <= installed.generation + 1
  BY <1>2, <1>3, <1>4
<1>6. SecretsAfter \in 0..1
  <2>1. \E x \in {installed.secrets, catalog.secrets} :
           \A y \in {installed.secrets, catalog.secrets} : x >= y
    BY <1>2
  <2>2. SecretsAfter \in {installed.secrets, catalog.secrets}
    BY <2>1 DEF SecretsAfter, Max
  <2> QED
    BY <1>2, <2>2
<1>7. PICK roots \in 0..1 :
        LET prepared == [installed EXCEPT !.secrets = SecretsAfter, !.roots = roots]
        IN installed' \in {prepared,
                           [prepared EXCEPT !.generation = @ + 1, !.image = catalog.image,
                                            !.storage = catalog.storage]}
  BY DEF Replace
<1>8. PICK p : p = [installed EXCEPT !.secrets = SecretsAfter, !.roots = roots]
  OBVIOUS
<1>9. installed' \in Identity /\ installed'.generation \in {n, installed.generation}
  <2>1. p \in Identity /\ p.generation = installed.generation
    BY <1>2, <1>6, <1>8 DEF Identity
  <2>2. \/ installed' = p
        \/ installed' = [p EXCEPT !.generation = n, !.image = catalog.image,
                                 !.storage = catalog.storage]
    BY <1>4, <1>7, <1>8, <2>1
  <2> QED
    BY <1>2, <1>5, <2>1, <2>2 DEF Identity
<1>10. installed'.generation <= installed.generation + 1
  BY <1>2, <1>5, <1>9
<1> QED
  BY <1>2, <1>9, <1>10, ChangeStep DEF Replace

\* A damaged archive keeps its manifest and its index.
LEMMA StepDamage == ASSUME IndInv, NEW b \in Backups, Damage(b) PROVE IndInv'
<1> USE DEF IndInv, app, frame
<1>1. PICK c \in Included : archive' = [archive EXCEPT ![b].data[c] = Bad]
  BY DEF Damage
<1>2. archive \in [Backups -> Files] /\ archive[b] \in Files /\ c \in C /\ Bad \in Nat
  BY AppBackupBounds DEF TypeOK, Included, Bad
<1>3. PICK d : d = [archive[b].data EXCEPT ![c] = Bad]
  OBVIOUS
<1>4. d \in Slots
  BY <1>2, <1>3 DEF Files, Slots
<1>5. PICK n : n = [archive[b] EXCEPT !.data = d]
  OBVIOUS
<1>6. n \in Files /\ n.exists = archive[b].exists /\ n.of = archive[b].of /\ n.index = archive[b].index
  BY <1>2, <1>4, <1>5 DEF Files
<1>7. archive' = [archive EXCEPT ![b] = n]
  BY <1>1, <1>3, <1>5
<1>8. /\ archive' \in [Backups -> Files]
      /\ \A a \in Backups : /\ archive'[a].exists = archive[a].exists /\ archive'[a].of = archive[a].of
                            /\ archive'[a].index = archive[a].index
  BY <1>2, <1>6, <1>7
<1>9. changes \in Nat /\ MaxChanges \in Nat /\ changes' = changes + 1 /\ changes < MaxChanges
  BY AppBackupBounds DEF TypeOK, Damage
<1>10. changes' \in 0..MaxChanges
  BY <1>9
<1>11. UNCHANGED <<app, data, up, partial, work, stuck, row, receipt, cut, pc, frame, stage, slot,
                   answer, restores, faults, crashes>>
  BY DEF Damage
<1>12. TypeOK'
  BY <1>8, <1>10, <1>11 DEF TypeOK
<1>13. Genuine' /\ OneHandler' /\ DownIsKnown'
  <2>1. installed.generation \in Nat
    BY <1>9 DEF TypeOK, Identity
  <2> QED
    BY <1>8, <1>9, <1>11, <2>1 DEF Genuine, OneHandler, DownIsKnown
<1>14. FilesFollow' /\ AnswerIsTrue'
  BY <1>8, <1>11 DEF FilesFollow, AnswerIsTrue, OneHandler
<1>15. Quiet' /\ StagedIsCut'
  BY <1>11 DEF Quiet, StagedIsCut, Instant, Same, Copied, StopsForBackup
<1>16. RecordedIsCut'
  BY <1>8, <1>11 DEF RecordedIsCut, Instant, Same, StopsForBackup
<1> QED
  BY <1>12, <1>13, <1>14, <1>15, <1>16

\* A backup that the lease refuses leaves a receipt and nothing else.
LEMMA StepRefuse == ASSUME IndInv, NEW b \in Backups, Refuse(b) PROVE IndInv'
<1> USE DEF app, files, frame, bounds
<1>1. /\ TypeOK /\ Genuine /\ OneHandler /\ Quiet /\ StagedIsCut /\ FilesFollow /\ AnswerIsTrue
      /\ RecordedIsCut /\ DownIsKnown /\ receipt[b] = "none"
  BY DEF IndInv, Refuse, NextRequest
<1>2. /\ receipt' = [receipt EXCEPT ![b] = "failed"]
      /\ UNCHANGED <<app, data, up, files, row, cut, pc, frame, stage, slot, answer, bounds>>
  BY DEF Refuse
<1>3. /\ receipt' \in [Backups -> States] /\ receipt'[b] = "failed"
      /\ \A a \in Backups : a # b => receipt'[a] = receipt[a]
  BY <1>1, <1>2 DEF TypeOK, States
<1>4. op # 0 => op \in Backups /\ op # b
  BY <1>1, AppBackupBounds DEF TypeOK, OneHandler, Backups
<1>5. TypeOK'
  BY <1>1, <1>2, <1>3 DEF TypeOK, States
<1>6. Genuine' /\ FilesFollow' /\ AnswerIsTrue'
  BY <1>1, <1>2, <1>3 DEF Genuine, FilesFollow, AnswerIsTrue
<1>7. OneHandler'
  BY <1>1, <1>2, <1>3, <1>4, AppBackupBounds DEF OneHandler, Backups
<1>8. Quiet' /\ StagedIsCut'
  BY <1>1, <1>2 DEF Quiet, StagedIsCut, Instant, Same, StopsForBackup
<1>9. DownIsKnown'
  BY <1>1, <1>2, <1>3, <1>4 DEF DownIsKnown
<1>10. RecordedIsCut'
  BY <1>1, <1>2 DEF RecordedIsCut, Instant, Same, StopsForBackup
<1> QED
  BY <1>5, <1>6, <1>7, <1>8, <1>9, <1>10 DEF IndInv

\* A backup is admitted: it begins, or is about to answer that it could not.
LEMMA StepBegin ==
    ASSUME IndInv, NEW b \in Backups, BeginBackup(b) \/ BeginBackupFails(b)
    PROVE  IndInv'
<1> USE DEF app, bounds
<1>1. /\ TypeOK /\ Genuine /\ OneHandler /\ FilesFollow /\ RecordedIsCut
      /\ pc = "idle" /\ helper = "up" /\ receipt[b] = "none" /\ b # 0 /\ Admit(b)
  BY AppBackupBounds DEF IndInv, BeginBackup, BeginBackupFails, Admit, NextRequest, Backups
<1>2. /\ UNCHANGED <<app, data, up, archive, partial, stuck, row, cut, slot, helper>>
      /\ op' = b /\ receipt' = [receipt EXCEPT ![b] = "running"]
      /\ plan' = Planned /\ stage' = NoSlots
  BY <1>1 DEF BeginBackup, BeginBackupFails, Admit
<1>3. \A a \in Backups : receipt[a] # "running"
  BY <1>1 DEF OneHandler
<1>4. \/ /\ running' = up /\ answer' = "ok" /\ work' = work \cup {b}
         /\ pc' = (IF StopsForBackup THEN "stop" ELSE "verify") /\ UNCHANGED bounds
      \/ /\ running' = {} /\ answer' = "error" /\ pc' \in {"unsaved", "reply"} /\ UNCHANGED work
         /\ UNCHANGED bounds \/ Fault
      \/ running' = {} /\ answer' = "error" /\ pc' = "clean" /\ work' = work \cup {b} /\ Fault
  BY DEF BeginBackup, BeginBackupFails
<1>5. UNCHANGED <<restores, changes, crashes>> /\ faults' \in 0..MaxFaults
  BY <1>1, <1>4, Counted DEF TypeOK
<1>6. /\ receipt' \in [Backups -> States] /\ receipt'[b] = "running"
      /\ \A a \in Backups : a # b => receipt'[a] = receipt[a]
  BY <1>1, <1>2 DEF States, TypeOK
<1>7. plan' \in Identity
  <2>1. installed \in Identity /\ catalog.storage \in 0..1
    BY <1>1 DEF TypeOK
  <2> QED
    BY <1>2, <2>1 DEF Planned, Identity
<1>8. stage' \in Slots /\ stage' \in Read
  BY <1>2 DEF Slots, Read, NoSlots
<1>9. TypeOK'
  <2>1. /\ pc' \in {"stop", "verify", "unsaved", "reply", "clean"} /\ running' \subseteq C
        /\ op' \in 0..MaxBackups /\ work' \subseteq Backups /\ answer' \in {"ok", "error"}
    <3>1. op' \in 0..MaxBackups
      BY <1>2, AppBackupBounds DEF Backups
    <3>2. running' \subseteq C /\ work' \subseteq Backups
      BY <1>1, <1>4 DEF TypeOK
    <3> QED
      BY <1>4, <3>1, <3>2
  <2> QED
    BY <1>1, <1>2, <1>5, <1>6, <1>7, <1>8, <2>1 DEF TypeOK, States
<1>10. Genuine'
  BY <1>1, <1>2, <1>5, <1>8 DEF Genuine
<1>11. OneHandler'
  BY <1>1, <1>2, <1>3, <1>4, <1>6 DEF OneHandler
<1>12. Quiet' /\ StagedIsCut' /\ DownIsKnown'
  BY <1>1, <1>2, <1>4 DEF Quiet, StagedIsCut, DownIsKnown, StopsForBackup
<1>13. FilesFollow' /\ AnswerIsTrue'
  BY <1>1, <1>2, <1>4, <1>6 DEF FilesFollow, AnswerIsTrue
<1>14. RecordedIsCut'
  BY <1>1, <1>2 DEF RecordedIsCut, Instant, Same, StopsForBackup
<1> QED
  BY <1>9, <1>10, <1>11, <1>12, <1>13, <1>14 DEF IndInv

\* A restore puts back what was read from the disk once.
LEMMA StepRestoreBackup == ASSUME IndInv, NEW b \in Backups, RestoreBackup(b) PROVE IndInv'
<1> USE DEF app, files, frame
<1>1. /\ TypeOK /\ Genuine /\ OneHandler /\ Quiet /\ StagedIsCut /\ FilesFollow /\ AnswerIsTrue /\ RecordedIsCut
      /\ DownIsKnown /\ pc = "idle" /\ helper = "up"
  BY DEF IndInv, RestoreBackup
<1>2. /\ UNCHANGED <<app, up, files, row, receipt, cut, pc, frame, stage, slot, answer,
                     changes, faults, crashes>>
      /\ restores' = restores + 1 /\ restores < MaxRestores /\ archive[b].data = archive[b].index
      /\ data' = [c \in C |-> IF archive[b].data[c] = Unread THEN data[c] ELSE archive[b].data[c]]
  BY DEF RestoreBackup, RestoreAccepted, ChecksumsMatch
<1>3. restores \in Nat /\ MaxRestores \in Nat
  BY <1>1, AppBackupBounds DEF TypeOK
<1>4. restores' \in 0..MaxRestores
  BY <1>2, <1>3
<1>5. archive[b].data \in Read /\ data \in [C -> Versions]
  BY <1>1, <1>2 DEF Genuine, TypeOK
<1>6. data' \in [C -> Versions]
  BY <1>2, <1>5 DEF Read
<1>7. TypeOK'
  BY <1>1, <1>2, <1>4, <1>6 DEF TypeOK
<1>8. Genuine' /\ OneHandler' /\ FilesFollow' /\ AnswerIsTrue' /\ DownIsKnown'
  BY <1>1, <1>2 DEF Genuine, OneHandler, FilesFollow, AnswerIsTrue, DownIsKnown
<1>9. Quiet' /\ StagedIsCut'
  BY <1>1, <1>2 DEF Quiet, StagedIsCut, Copied, StopsForBackup
<1>10. RecordedIsCut'
  BY <1>1, <1>2 DEF RecordedIsCut, Instant, Same, StopsForBackup
<1> QED
  BY <1>7, <1>8, <1>9, <1>10 DEF IndInv

\* A crash leaves the receipt running.
LEMMA StepCrash == ASSUME IndInv, Crash PROVE IndInv'
<1> USE DEF app, files, environment
<1>1. /\ TypeOK /\ Genuine /\ OneHandler /\ Quiet /\ StagedIsCut /\ FilesFollow /\ AnswerIsTrue /\ RecordedIsCut
      /\ DownIsKnown
  BY DEF IndInv
<1>2. /\ UNCHANGED <<app, data, up, files, row, receipt, cut, op, plan, running, stage, slot, answer,
                     faults, environment>>
      /\ helper' = "down" /\ pc' = "idle" /\ crashes' = crashes + 1 /\ crashes < MaxCrashes
  BY DEF Crash
<1>3. crashes \in Nat /\ MaxCrashes \in Nat
  BY <1>1, AppBackupBounds DEF TypeOK
<1>4. crashes' \in 0..MaxCrashes
  BY <1>2, <1>3
<1>5. TypeOK'
  BY <1>1, <1>2, <1>4 DEF TypeOK
<1>6. Genuine' /\ OneHandler' /\ FilesFollow' /\ AnswerIsTrue'
  BY <1>1, <1>2 DEF Genuine, OneHandler, FilesFollow, AnswerIsTrue
<1>7. Quiet' /\ StagedIsCut' /\ DownIsKnown'
  BY <1>1, <1>2 DEF Quiet, StagedIsCut, Copied, DownIsKnown, OneHandler
<1>8. RecordedIsCut'
  BY <1>1, <1>2 DEF RecordedIsCut, Instant, Same, StopsForBackup
<1> QED
  BY <1>5, <1>6, <1>7, <1>8 DEF IndInv

\* The helper starts and asks for an administrator.
LEMMA StepStart == ASSUME IndInv, Start PROVE IndInv'
<1> USE DEF app, files, bounds
<1>1. /\ TypeOK /\ Genuine /\ OneHandler /\ Quiet /\ StagedIsCut /\ FilesFollow /\ AnswerIsTrue /\ RecordedIsCut
      /\ DownIsKnown /\ pc = "idle"
  BY DEF IndInv, OneHandler, Start
<1>2. /\ UNCHANGED <<app, data, up, files, row, cut, pc, op, plan, running, stage, slot, answer, bounds>>
      /\ helper' = "up" /\ receipt' = [b \in Backups |-> Interrupted(receipt[b])]
  BY DEF Start
<1>3. /\ receipt' \in [Backups -> States]
      /\ \A b \in Backups : receipt'[b] = IF receipt[b] = "running" THEN "action_required" ELSE receipt[b]
  BY <1>1, <1>2 DEF TypeOK, States, Interrupted
<1>4. op # 0 => op \in Backups
  BY <1>1, AppBackupBounds DEF TypeOK, Backups
<1>5. TypeOK'
  BY <1>1, <1>2, <1>3 DEF TypeOK, States
<1>6. Genuine' /\ OneHandler' /\ FilesFollow' /\ AnswerIsTrue'
  BY <1>1, <1>2, <1>3, <1>4 DEF Genuine, OneHandler, FilesFollow, AnswerIsTrue
<1>7. Quiet' /\ StagedIsCut' /\ DownIsKnown'
  BY <1>1, <1>2, <1>3, <1>4 DEF Quiet, StagedIsCut, Copied, DownIsKnown
<1>8. RecordedIsCut'
  BY <1>1, <1>2 DEF RecordedIsCut, Instant, Same, StopsForBackup
<1> QED
  BY <1>5, <1>6, <1>7, <1>8 DEF IndInv

\* A step that changes nothing.
LEMMA StepStutter == ASSUME IndInv, UNCHANGED vars PROVE IndInv'
<1> USE DEF vars, IndInv
<1>1. TypeOK'
  BY DEF TypeOK
<1>2. Genuine' /\ OneHandler' /\ FilesFollow' /\ AnswerIsTrue' /\ DownIsKnown'
  BY DEF Genuine, OneHandler, FilesFollow, AnswerIsTrue, DownIsKnown
<1>3. Quiet' /\ StagedIsCut'
  BY DEF Quiet, StagedIsCut, Instant, Same, Copied, StopsForBackup
<1>4. RecordedIsCut'
  BY DEF RecordedIsCut, Instant, Same, StopsForBackup
<1> QED
  BY <1>1, <1>2, <1>3, <1>4

-----------------------------------------------------------------------------
(* The theorems.                                                           *)

\* The invariant holds before the first backup.
LEMMA InitIsSound == Init => IndInv
<1> SUFFICES ASSUME Init
             PROVE  IndInv
  OBVIOUS
<1>1. NoSlots \in Slots /\ NoSlots \in Read
  BY DEF NoSlots, Slots, Read
<1>2. First \in Identity
  BY AppBackupBounds DEF First, Identity
<1>3. NoFile \in Files /\ ~NoFile.exists /\ NoFile.index = NoSlots
  BY <1>1, <1>2 DEF NoFile, Files
<1>4. NoCut \in [of : Identity, data : Slots]
  BY <1>1, <1>2 DEF NoCut
<1>5. NoRow \in [exists : BOOLEAN, generation : 1..(MaxChanges + 1), hash : Files] /\ ~NoRow.exists
  BY <1>3, AppBackupBounds DEF NoRow
<1>6. data \in [C -> Versions]
  BY AppBackupBounds DEF Init, Versions
<1>7. up \subseteq C
  BY AppBackupBounds DEF Init, C
<1>8. TypeOK
  <2>1. archive \in [Backups -> Files] /\ cut \in [Backups -> [of : Identity, data : Slots]]
    BY <1>3, <1>4 DEF Init
  <2>2. /\ row \in [Backups -> [exists : BOOLEAN, generation : 1..(MaxChanges + 1), hash : Files]]
        /\ receipt \in [Backups -> {"none", "running", "succeeded", "failed", "action_required"}]
    BY <1>5 DEF Init
  <2>3. catalog \in [image : 0..1, storage : 0..1, secrets : 0..1]
    BY DEF Init
  <2>4. /\ op \in 0..MaxBackups /\ slot \in 1..(Components + 1) /\ restores \in 0..MaxRestores
        /\ changes \in 0..MaxChanges /\ faults \in 0..MaxFaults /\ crashes \in 0..MaxCrashes
    BY AppBackupBounds DEF Init
  <2> QED
    BY <1>1, <1>2, <1>6, <1>7, <2>1, <2>2, <2>3, <2>4 DEF Init, TypeOK
<1>9. Genuine /\ OneHandler /\ Quiet /\ StagedIsCut
  BY <1>1, <1>3, AppBackupBounds DEF Init, Genuine, First, OneHandler, Quiet, StagedIsCut, Copied
<1>10. FilesFollow /\ AnswerIsTrue /\ RecordedIsCut /\ DownIsKnown
  BY <1>3, <1>5 DEF Init, FilesFollow, AnswerIsTrue, RecordedIsCut, DownIsKnown
<1> QED
  BY <1>8, <1>9, <1>10 DEF IndInv

\* Every step keeps the invariant: one case per action.
LEMMA StepKeeps == ASSUME IndInv, [Next]_vars PROVE IndInv'
<1>1. ASSUME NEW c \in C, Write(c) PROVE IndInv'
  BY <1>1, StepWrite
<1>2. CASE UpgradeCatalog \/ Replace
  BY <1>2, StepUpgradeCatalog, StepReplace
<1>3. ASSUME NEW b \in Backups,
             Damage(b) \/ RestoreBackup(b) \/ Refuse(b) \/ BeginBackup(b) \/ BeginBackupFails(b)
      PROVE  IndInv'
  BY <1>3, StepDamage, StepRestoreBackup, StepRefuse, StepBegin
<1>4. CASE Handler
  BY <1>4, StepStopNext, StepStopFails, StepCopyNext, StepCopyFails, StepResumeNext,
     StepResumeFails, StepVerify, StepWritePartial, StepWriteFails, StepPublish, StepSync,
     StepRecordBackup, StepDiscard, StepRemoveWorkspace, StepComplete, StepCompleteFails
  DEF Handler
<1>5. CASE Crash \/ Start
  BY <1>5, StepCrash, StepStart
<1>6. CASE Wait \/ UNCHANGED vars
  BY <1>6, StepStutter DEF Wait
<1> QED
  BY <1>1, <1>2, <1>3, <1>4, <1>5, <1>6 DEF Next

\* The invariant of the whole specification, for every value of the constants.
THEOREM Invariance == Spec => []IndInv
<1>1. IndInv /\ [Next]_vars => IndInv'
  BY StepKeeps
<1> QED
  BY InitIsSound, <1>1, PTL DEF Spec

\* Type correctness: versions, generations, bounds and the handler's position
\* stay in their sets, and what a restore writes back was once on the disk.
THEOREM TypeCorrect == Spec => []TypeOK
<1>1. IndInv => TypeOK
  BY DEF IndInv
<1> QED
  BY Invariance, <1>1, PTL

\* A recorded backup is one instant: createApplicationBackup copies only while
\* every component that ran is stopped, and nothing else writes the slots.
THEOREM ColdCopyHolds == Spec => []ColdCopyIsOneInstant
<1>1. IndInv => ColdCopyIsOneInstant
  BY DEF IndInv, RecordedIsCut, Instant, ColdCopyIsOneInstant
<1> QED
  BY Invariance, <1>1, PTL

\* While nobody works, what the last backup found running runs, or its receipt
\* says otherwise: the deferred resume of createApplicationBackup and
\* RecoverInterrupted cover every way out of the handler.
THEOREM NeverDown == Spec => []NeverSilentlyDown
<1>1. ASSUME IndInv PROVE NeverSilentlyDown
  <2>1. op # 0 => op \in Backups
    BY <1>1, AppBackupBounds DEF IndInv, TypeOK, Backups
  <2> QED
    BY <1>1, <2>1 DEF IndInv, DownIsKnown, OneHandler, NeverSilentlyDown
<1> QED
  BY Invariance, <1>1, PTL

\* The checks of a restore are enough: the archive's bytes, its index and the
\* backup's instant are one, and every fact of the manifest is today's.
LEMMA RestoreStep ==
    ASSUME IndInv, NEW b \in Backups, RestoreBackup(b), StopsForBackup
    PROVE  Same(data', cut[b].data) /\ cut[b].of = Planned
<1>1. /\ row[b].exists /\ archive[b].data = archive[b].index
      /\ installed.generation = row[b].generation /\ installed.secrets = catalog.secrets
      /\ archive[b].of.image = installed.image /\ archive[b].of.storage = catalog.storage
      /\ archive[b].of.roots = installed.roots /\ archive[b].of.secrets = catalog.secrets
      /\ data' = [c \in C |-> IF archive[b].data[c] = Unread THEN data[c] ELSE archive[b].data[c]]
  BY DEF RestoreBackup, RestoreAccepted, ChecksumsMatch, PlanLoads, ManifestFits, SecretsMatch
<1>2. /\ row[b].generation = archive[b].of.generation /\ cut[b].of = archive[b].of
      /\ cut[b].data \in [C -> Versions] /\ Same(archive[b].index, cut[b].data)
  BY <1>1 DEF IndInv, RecordedIsCut, Instant
<1>3. Same(data', cut[b].data)
  <2> USE DEF Same
  <2> TAKE c \in Included
  <2>1. c \in C /\ archive[b].data[c] = cut[b].data[c] /\ cut[b].data[c] \in Versions
    BY <1>1, <1>2 DEF Included
  <2>2. archive[b].data[c] # Unread
    BY <2>1, AppBackupBounds DEF Versions, Unread
  <2> QED
    BY <1>1, <2>1, <2>2
<1>4. cut[b].of = Planned
  <2>1. archive[b].of \in Identity /\ installed \in Identity /\ catalog.storage \in 0..1
    BY DEF IndInv, TypeOK, Files
  <2>2. Planned \in Identity
    BY <2>1 DEF Planned, Identity
  <2>3. /\ Planned.generation = installed.generation /\ Planned.image = installed.image
        /\ Planned.storage = catalog.storage /\ Planned.roots = installed.roots
        /\ Planned.secrets = installed.secrets
    BY <2>1 DEF Planned, Identity
  <2>4. /\ archive[b].of.generation = Planned.generation /\ archive[b].of.image = Planned.image
        /\ archive[b].of.storage = Planned.storage /\ archive[b].of.roots = Planned.roots
        /\ archive[b].of.secrets = Planned.secrets
    BY <1>1, <1>2, <2>3
  <2>5. archive[b].of = Planned
    BY <2>1, <2>2, <2>4 DEF Identity
  <2> QED
    BY <1>2, <2>5
<1> QED
  BY <1>3, <1>4

\* An accepted restore puts back exactly the instant its backup took, on the
\* installation it was taken of: fileSHA256, verifyChecksums,
\* validateRestoreManifest and loadApplicationBackupPlan together.
THEOREM RestoreExact == Spec => RestoreIsExact
<1>1. IndInv => [\A b \in Backups : RestoreBackup(b) /\ StopsForBackup
                   => /\ Same(data', cut[b].data)
                      /\ cut[b].of = Planned]_vars
  BY RestoreStep
<1> QED
  BY Invariance, <1>1, PTL DEF RestoreIsExact

\* What a reply says, step by step.
LEMMA ReplyStep ==
    ASSUME IndInv, [Next]_vars, NEW b \in Backups, receipt[b] = "running"
    PROVE  /\ receipt'[b] = "succeeded"
                => running \subseteq up' /\ row'[b].exists /\ archive'[b].exists
           /\ receipt'[b] = "failed"
                => /\ ~row'[b].exists
                   /\ \/ b \in stuck'
                      \/ ~archive'[b].exists /\ b \notin partial' /\ b \notin work'
<1>1. /\ TypeOK /\ OneHandler /\ AnswerIsTrue /\ b = op /\ op \in Backups
      /\ receipt \in [Backups -> States]
  BY DEF IndInv, OneHandler, TypeOK, States
<1>2. CASE receipt'[b] = "running" \/ receipt'[b] = "action_required"
  BY <1>2
<1>3. CASE UNCHANGED receipt
  BY <1>2, <1>3
<1>4. ASSUME NEW a \in Backups, Refuse(a) \/ BeginBackup(a) \/ BeginBackupFails(a)
      PROVE  receipt'[b] = "running"
  BY <1>1, <1>4 DEF Refuse, BeginBackup, BeginBackupFails, Admit, NextRequest
<1>5. CASE Complete
  <2>1. /\ pc = "reply" /\ UNCHANGED <<up, files, row>>
        /\ receipt'[b] = IF answer = "ok" THEN "succeeded" ELSE "failed"
    BY <1>1, <1>5 DEF Complete
  <2> QED
    BY <1>1, <2>1 DEF AnswerIsTrue, files, TypeOK
<1>6. CASE Start
  <2>1. receipt'[b] = "action_required"
    BY <1>6 DEF Start, Interrupted
  <2> QED
    BY <1>2, <2>1
<1>7. CASE \/ StopNext \/ StopFails \/ CopyNext \/ CopyFails \/ ResumeNext \/ ResumeFails \/ Verify
           \/ VerifyFails \/ WritePartial \/ CreateFails \/ Publish \/ Sync \/ RecordBackup
           \/ RecordFails \/ Discard \/ RemoveWorkspace \/ CompleteFails
  BY <1>3, <1>7 DEF StopNext, StopFails, CopyNext, CopyFails, ResumeNext, ResumeFails, Verify,
     VerifyFails, WritePartial, CreateFails, Publish, Sync, RecordBackup, RecordFails, Discard,
     RemoveWorkspace, CompleteFails
<1>8. ASSUME NEW a \in Backups, Damage(a) \/ RestoreBackup(a) PROVE UNCHANGED receipt
  BY <1>8 DEF Damage, RestoreBackup
<1>9. ASSUME NEW c \in C, Write(c) PROVE UNCHANGED receipt
  BY <1>9 DEF Write
<1>10. CASE UpgradeCatalog \/ Replace \/ Crash \/ Wait \/ UNCHANGED vars
  BY <1>3, <1>10 DEF UpgradeCatalog, Replace, Crash, Wait, vars
<1> QED
  BY <1>2, <1>3, <1>4, <1>5, <1>6, <1>7, <1>8, <1>9, <1>10 DEF Next, Handler

\* What a backup reports is true: success only with row, file and a running
\* application; failure only after the deferred functions took every file away, or
\* could not and dropped the error.
THEOREM RepliesHold == Spec => RepliesAreTrue
<1>1. IndInv /\ [Next]_vars
        => [\A b \in Backups : receipt[b] = "running" =>
              /\ receipt'[b] = "succeeded"
                   => running \subseteq up' /\ row'[b].exists /\ archive'[b].exists
              /\ receipt'[b] = "failed"
                   => /\ ~row'[b].exists
                      /\ \/ b \in stuck'
                         \/ ~archive'[b].exists /\ b \notin partial' /\ b \notin work']_vars
  BY ReplyStep
<1> QED
  BY Invariance, <1>1, PTL DEF RepliesAreTrue, Spec

=============================================================================
