----------------------- MODULE ControlProjectionProofs -----------------------
(***************************************************************************)
(* Proofs about ControlProjection for any set of handlers and operations   *)
(* and any number of requests and faults: the status the API shows is true *)
(* of the helper, a committed generation is never forgotten, and the row   *)
(* does not go back to an older generation.                                *)
(***************************************************************************)
EXTENDS ControlProjection, TLAPS

Serves(h) == api[h].pc # "idle"
Polls(h) == api[h].kind = "poll"

\* A handler at work has an operation; the request that was inserted with it is
\* the only one that may send it, any other handler polls.
HandlersOwn ==
    /\ \A h \in Handlers :
         /\ ~Serves(h) => api[h] = Idle
         /\ Serves(h) => api[h].o \in Operations /\ api[h].kind # "none"
         /\ Serves(h) /\ ~Polls(h) => api[h].kind = op[api[h].o].kind
         /\ api[h].kind \in Replacing => row.exists
    /\ \A h, x \in Handlers :
         Serves(h) /\ Serves(x) /\ ~Polls(h) /\ ~Polls(x) /\ api[h].o = api[x].o => h = x

\* The helper has not seen the operation and no message of it is on its way.
Unheard(o) == receipt[o] = "none" /\ Lost(o)

\* An operation without a row is nobody's.
FreshIsUnused ==
    \A o \in Operations :
      op[o].status = "none" =>
        Unheard(o) /\ \A h \in Handlers : Serves(h) => api[h].o # o

\* An operation is sent at most once, before the helper has a receipt of it.
SentOnce ==
    /\ \A q \in inbox : receipt[q.o] = "none"
    /\ \A q, m \in inbox : q.o = m.o => q = m
    /\ \A h \in Handlers :
         /\ api[h].pc = "send" => Unheard(api[h].o) /\ ~Polls(h) /\ ~api[h].sent
         /\ api[h].pc = "wait" => api[h].sent
         /\ api[h].pc = "lookup" /\ ~Polls(h) /\ ~api[h].sent => Unheard(api[h].o)

\* The operation will not be committed any more, unless the helper could not tell.
Dead(o) ==
    \/ o \in unsure
    \/ /\ Lost(o) /\ receipt[o] \notin {"executing", "succeeded"}
       /\ \A h \in Handlers : api[h].pc = "send" => api[h].o # o

Negative == {"refused", "error", "failed", "action_required", "superseded"}

\* What a handler holds in hand, an answer or a status to be written, is true of
\* the helper, however late it is used.
Truthful(a) ==
    /\ a.pc = "project" =>
         /\ a.answer = "succeeded" => receipt[a.o] = "succeeded"
         /\ a.answer \in Negative => Dead(a.o)
    /\ a.pc = "record" =>
         /\ a.status # "none"
         /\ a.status \in {"succeeded", "pending"} => receipt[a.o] = "succeeded"
         /\ a.status = "failed" /\ op[a.o].kind \in Lifecycle => Dead(a.o)
    /\ a.kind = "poll" /\ a.pc # "record" =>
         /\ a.status \in {"accepted", "pending"}
         /\ a.status = "pending" => receipt[a.o] = "succeeded"

HandlersTruthful == \A h \in Handlers : Truthful(api[h])

\* So is the status in the operations table.
RowsTruthful ==
    \A o \in Operations :
      /\ op[o].status \in {"succeeded", "pending"} => receipt[o] = "succeeded"
      /\ op[o].status = "failed" /\ op[o].kind \in Lifecycle => Dead(o)

\* A committed result is not newer than what the helper holds, and has its release
\* if it is the same generation; the control row neither, except for the release of
\* an application with components, which ReleaseKept is about.
NothingInvented ==
    /\ \A o \in Operations :
         receipt[o] = "succeeded" =>
           /\ result[o].gen <= active.gen
           /\ result[o].gen = active.gen => result[o].release = active.release
    /\ row.gen <= active.gen
    /\ row.gen = active.gen /\ row.gen > 0 /\ ~row.composite => row.release = active.release
    /\ ~row.exists => row.gen = 0 /\ row.release = 1

\* Operations that keep the release: a request for one carries the row's.
Keeping == {"install", "replace", "recreate"}

\* A request that asks for the next generation, and keeps the release, was built
\* from the row as it still is.
Current(o, gen, release) ==
    op[o].kind \in Keeping /\ gen = active.gen + 1 => row.gen = active.gen /\ release = row.release

\* No request asks for more than the next generation, and unless a projection was
\* overtaken those that may still be committed are current.
RequestsCurrent ==
    /\ \A h \in Handlers : api[h].pc = "send" =>
         /\ api[h].gen <= active.gen + 1
         /\ overtaken \/ Current(api[h].o, api[h].gen, api[h].release)
    /\ \A q \in inbox :
         /\ q.gen <= active.gen + 1
         /\ overtaken \/ Current(q.o, q.gen, q.release)
    /\ \A o \in Operations : receipt[o] = "executing" =>
         /\ result[o].gen <= active.gen + 1
         /\ overtaken \/ Current(o, result[o].gen, result[o].release)

\* A committed operation that kept the release, with its handler still to project
\* it, finds that release in the row.
Carried(a) ==
    a.kind \in Keeping /\ a.pc # "record" /\ receipt[a.o] = "succeeded" =>
      row.release = result[a.o].release

\* So the row has the release of its generation, although a recreation of an
\* application with components does not write it.
ReleaseKept ==
    \/ overtaken
    \/ /\ row.gen = active.gen => row.release = active.release
       /\ \A h \in Handlers : Carried(api[h])

\* A replacement whose handler has still to project it is not older than the row,
\* and one whose handler is about to settle it as succeeded is not newer.
Ordered(a) ==
    /\ a.kind \in Replacing /\ a.pc # "record" /\ receipt[a.o] = "succeeded" =>
         row.gen <= result[a.o].gen
    /\ a.kind = "install" /\ a.pc # "record" => row.gen = 0
    /\ a.pc = "record" /\ a.status = "succeeded" /\ op[a.o].kind \in Lifecycle =>
         row.gen >= result[a.o].gen

\* Unless a projection was overtaken, handlers and settled operations are in order
\* with the row.
InOrder ==
    \/ overtaken
    \/ /\ \A h \in Handlers : Ordered(api[h])
       /\ \A o \in Operations :
            op[o].status = "succeeded" /\ op[o].kind \in Lifecycle => row.gen >= result[o].gen

\* The generation the helper holds is in the control row or an operation of this
\* API committed it, unless an outcome was left open.
GenerationHasOrigin ==
    \/ row.gen = active.gen \/ overtaken \/ unsure # {}
    \/ \E o \in Operations : /\ op[o].kind \in Lifecycle /\ receipt[o] = "succeeded"
                             /\ result[o].gen = active.gen

IndInv ==
    /\ TypeOK /\ HandlersOwn /\ FreshIsUnused /\ SentOnce /\ HandlersTruthful
    /\ RowsTruthful /\ NothingInvented /\ RequestsCurrent /\ ReleaseKept /\ InOrder
    /\ GenerationHasOrigin

-----------------------------------------------------------------------------
(* Steps of one handler that leave both databases alone.                   *)

\* What a step of handler h leaves alone while it only talks or thinks.
Elsewhere == UNCHANGED <<row, op, inbox, receipt, result, active, unsure, overtaken>>
Counted == used' \in [faults : Nat, requests : Nat]

\* A fault is counted.
LEMMA FaultCounted ==
    ASSUME TypeOK, Fault
    PROVE  Counted
BY DEF TypeOK, Fault, Spend, Counted

\* A handler that goes on with its operation, keeping to the truth, or gives up.
LEMMA HandlerMoves ==
    ASSUME IndInv, NEW h \in Handlers, NEW n \in HandlerStates,
           api' = [api EXCEPT ![h] = n], Elsewhere, Counted,
           \/ n = Idle
           \/ /\ n.pc \notin {"idle", "send", "wait"} /\ Serves(h) /\ api[h].pc # "record"
              /\ n.o = api[h].o /\ n.kind = api[h].kind
              /\ Truthful(n)'
              /\ n.pc = "lookup" => n.sent \/ api[h].pc = "send" \/ n.kind = "poll"
              /\ n.pc = "record" => n.status # "succeeded"
    PROVE  IndInv'
<1> USE DEF Elsewhere, Counted, IndInv, Serves, Polls
<1>1. api' \in [Handlers -> HandlerStates] /\ api'[h] = n
      /\ \A x \in Handlers : x # h => api'[x] = api[x]
  BY DEF TypeOK
<1>2. TypeOK'
  BY <1>1 DEF TypeOK
<1>3. HandlersOwn'
  <2>1. \A x \in Handlers : api'[x].pc # "idle" =>
          Serves(x) /\ api'[x].o = api[x].o /\ api'[x].kind = api[x].kind
    BY <1>1 DEF Idle
  <2>2. \A x \in Handlers : api'[x].kind \in Replacing => api[x].kind \in Replacing
    BY <1>1 DEF Idle, Replacing
  <2>3. \A x \in Handlers : api'[x].pc = "idle" => api'[x] = Idle
    BY <1>1 DEF HandlersOwn
  <2> QED BY <2>1, <2>2, <2>3 DEF HandlersOwn
<1>4. \A o \in Operations : Unheard(o)' = Unheard(o)
  BY DEF Unheard, Lost
<1>5. FreshIsUnused'
  BY <1>1, <1>4 DEF FreshIsUnused, Idle
<1>6. SentOnce'
  BY <1>1, <1>4 DEF SentOnce, HandlersOwn, Idle
<1>7. \A o \in Operations : Dead(o) => Dead(o)'
  BY <1>1 DEF Dead, Lost, Idle
<1>8. HandlersTruthful'
  <2> SUFFICES ASSUME NEW x \in Handlers PROVE Truthful(api[x])'
    BY DEF HandlersTruthful
  <2>1. CASE ~Serves(x)'
    BY <2>1, <1>3 DEF HandlersOwn, Idle, Truthful
  <2>2. CASE Serves(x)'
    <3>1. CASE x = h
      BY <3>1, <2>2, <1>1 DEF Truthful, Idle
    <3>2. CASE x # h
      <4>1. api[x].o \in Operations /\ Truthful(api[x])
        BY <3>2, <2>2, <1>1 DEF HandlersOwn, HandlersTruthful
      <4> QED BY <3>2, <4>1, <1>1, <1>7 DEF Truthful
    <3> QED BY <3>1, <3>2
  <2> QED BY <2>1, <2>2
<1>9. RowsTruthful' /\ NothingInvented'
  BY <1>7 DEF RowsTruthful, NothingInvented
<1>10. InOrder'
  BY <1>1 DEF InOrder, Ordered, Idle, Replacing
<1>11. GenerationHasOrigin'
  BY DEF GenerationHasOrigin
<1>12. RequestsCurrent'
  BY <1>1 DEF RequestsCurrent, Current, Idle
<1>13. ReleaseKept'
  BY <1>1 DEF ReleaseKept, Carried, Keeping, Idle
<1> QED BY <1>2, <1>3, <1>5, <1>6, <1>8, <1>9, <1>10, <1>11, <1>12, <1>13

\* A handler gets an answer that is true of the helper.
LEMMA AnswerKeeps ==
    ASSUME IndInv, NEW h \in Handlers, NEW said \in Answers,
           api[h].pc \in {"wait", "lookup"}, Answer(h, said), Elsewhere, Counted,
           said = "succeeded" => receipt[api[h].o] = "succeeded",
           said \in Negative => Dead(api[h].o)
    PROVE  IndInv'
<1>1. api[h] \in HandlerStates
  BY DEF IndInv, TypeOK
<1>2. PICK n : n = [api[h] EXCEPT !.pc = "project", !.answer = said]
  OBVIOUS
<1>3. api' = [api EXCEPT ![h] = n]
  BY <1>2 DEF IndInv, TypeOK, Answer
<1>4. n \in HandlerStates /\ n.pc = "project" /\ n.answer = said
      /\ n.o = api[h].o /\ n.kind = api[h].kind /\ n.status = api[h].status
  BY <1>1, <1>2 DEF HandlerStates
<1>5. Dead(n.o) => Dead(n.o)'
  BY <1>3, <1>4 DEF Dead, Lost, Elsewhere, IndInv, TypeOK
<1>6. Truthful(n)'
  BY <1>4, <1>5 DEF IndInv, HandlersTruthful, Truthful, Elsewhere
<1> QED BY <1>3, <1>4, <1>6, HandlerMoves DEF Serves

\* A handler settles on a status, without having changed the installation's row.
LEMMA SettleKeeps ==
    ASSUME IndInv, NEW h \in Handlers, NEW status \in Statuses \ {"none", "succeeded"},
           api[h].pc \in {"send", "project"}, Settle(h, status), Elsewhere, Counted,
           status = "pending" => receipt[api[h].o] = "succeeded",
           status = "failed" /\ op[api[h].o].kind \in Lifecycle =>
             Dead(api[h].o) \/ api[h].pc = "send"
    PROVE  IndInv'
<1>1. api[h] \in HandlerStates
  BY DEF IndInv, TypeOK
<1>2. PICK n : n = [api[h] EXCEPT !.pc = "record", !.status = status]
  OBVIOUS
<1>3. api' = [api EXCEPT ![h] = n]
  BY <1>2 DEF IndInv, TypeOK, Settle
<1>4. n \in HandlerStates /\ n.pc = "record" /\ n.status = status
      /\ n.o = api[h].o /\ n.kind = api[h].kind
  BY <1>1, <1>2 DEF HandlerStates
<1>5. Dead(n.o) => Dead(n.o)'
  BY <1>3, <1>4 DEF Dead, Lost, Elsewhere, IndInv, TypeOK
<1>6. api[h].pc = "send" => Dead(n.o)'
  BY <1>3, <1>4 DEF Dead, Unheard, Lost, Elsewhere, IndInv, TypeOK, SentOnce, HandlersOwn, Serves,
                    Polls
<1>7. Truthful(n)'
  BY <1>4, <1>5, <1>6 DEF Truthful, Elsewhere
<1> QED BY <1>3, <1>4, <1>7, HandlerMoves DEF Serves

\* A handler goes on to look the operation up.
LEMMA LookupKeeps ==
    ASSUME IndInv, NEW h \in Handlers, Goto(h, "lookup"), Elsewhere, Counted,
           api[h].pc = "send" \/ (api[h].pc = "wait" /\ api[h].sent)
    PROVE  IndInv'
<1>1. api[h] \in HandlerStates
  BY DEF IndInv, TypeOK
<1>2. PICK n : n = [api[h] EXCEPT !.pc = "lookup"]
  OBVIOUS
<1>3. api' = [api EXCEPT ![h] = n]
  BY <1>2 DEF IndInv, TypeOK, Goto
<1>4. n \in HandlerStates /\ n.pc = "lookup" /\ n.sent = api[h].sent
      /\ n.o = api[h].o /\ n.kind = api[h].kind /\ n.status = api[h].status
  BY <1>1, <1>2 DEF HandlerStates
<1>5. Truthful(n)'
  BY <1>4 DEF IndInv, HandlersTruthful, Truthful, Elsewhere
<1> QED BY <1>3, <1>4, <1>5, HandlerMoves DEF Serves

\* A handler gives up its operation.
LEMMA IdleKeeps ==
    ASSUME IndInv, NEW h \in Handlers, api' = [api EXCEPT ![h] = Idle], Elsewhere, Counted
    PROVE  IndInv'
<1>1. Idle \in HandlerStates
  BY DEF Idle, HandlerStates, Releases, Answers, Statuses
<1> QED BY <1>1, HandlerMoves

\* The helper is not asked, or not reached, or its answer is lost.
LEMMA UnreachedStep ==
    ASSUME IndInv, NEW h \in Handlers, Refuse(h) \/ DialFails(h) \/ LoseAnswer(h)
    PROVE  IndInv'
<1>1. CASE Refuse(h)
  BY <1>1, SettleKeeps DEF Refuse, inHelper, helper, control, Elsewhere, Counted, IndInv, TypeOK,
                           Statuses
<1>2. CASE DialFails(h)
  BY <1>2, LookupKeeps, FaultCounted DEF DialFails, inHelper, helper, control, Elsewhere, IndInv
<1>3. CASE LoseAnswer(h)
  BY <1>3, LookupKeeps, FaultCounted DEF LoseAnswer, inHelper, helper, control, Elsewhere, IndInv,
                                         SentOnce
<1> QED BY <1>1, <1>2, <1>3

\* The receipt of an operation that is over, or refused, is an answer that is true.
LEMMA EndedIsTrue ==
    ASSUME IndInv, NEW o \in Operations, receipt[o] \in Ended \cup {"refused"}
    PROVE  /\ receipt[o] \in Answers
           /\ receipt[o] \in Negative => Dead(o)
<1>1. Lost(o) /\ \A h \in Handlers : api[h].pc = "send" => api[h].o # o
  BY DEF IndInv, SentOnce, Lost, Unheard, Ended
<1> QED BY <1>1 DEF Dead, Negative, Ended, Answers

\* The helper's answer, or its admission that it could not record the outcome.
LEMMA TakeStep ==
    ASSUME IndInv, NEW h \in Handlers, TakeAnswer(h) \/ TakeRecoveryRequired(h)
    PROVE  IndInv'
<1>1. api[h].pc = "wait" /\ api[h].o \in Operations /\ Elsewhere /\ Counted
  BY DEF TakeAnswer, TakeRecoveryRequired, inHelper, helper, control, Elsewhere, Counted, IndInv,
         TypeOK, HandlersOwn, Serves
<1>2. CASE TakeAnswer(h)
  BY <1>1, <1>2, EndedIsTrue, AnswerKeeps DEF TakeAnswer
<1>3. CASE TakeRecoveryRequired(h)
  BY <1>1, <1>3, AnswerKeeps DEF TakeRecoveryRequired, Dead, Answers, Ended
<1> QED BY <1>2, <1>3

\* When nothing is known, only a request that was never sent counts as an error.
LEMMA UnknownIsTrue ==
    ASSUME IndInv, NEW h \in Handlers, api[h].pc = "lookup"
    PROVE  /\ Unknown(h) \in Answers /\ Unknown(h) # "succeeded"
           /\ Unknown(h) \in Negative => Dead(api[h].o)
<1>1. CASE Polls(h)
  BY <1>1 DEF Unknown, Polls, Answers, Negative
<1>2. CASE ~Polls(h) /\ api[h].sent
  BY <1>2 DEF Unknown, Polls, Answers, Negative
<1>3. CASE ~Polls(h) /\ ~api[h].sent
  <2>1. Unknown(h) = "error"
    BY <1>3 DEF Unknown, Polls
  <2>2. Unheard(api[h].o) /\ \A x \in Handlers : api[x].pc = "send" => api[x].o # api[h].o
    BY <1>3 DEF IndInv, SentOnce, HandlersOwn, Serves, Polls
  <2> QED BY <2>1, <2>2 DEF Dead, Unheard, Answers
<1> QED BY <1>1, <1>2, <1>3

\* An operation is looked up, with or without success.
LEMMA LookupStep ==
    ASSUME IndInv, NEW h \in Handlers, Lookup(h) \/ LookupFails(h)
    PROVE  IndInv'
<1>1. api[h].pc = "lookup" /\ api[h].o \in Operations /\ Elsewhere
  BY DEF Lookup, LookupFails, inHelper, helper, control, Elsewhere, IndInv, HandlersOwn, Serves
<1>2. Counted
  BY FaultCounted DEF Lookup, LookupFails, Counted, IndInv, TypeOK
<1>3. CASE Answer(h, Unknown(h))
  BY <1>1, <1>2, <1>3, UnknownIsTrue, AnswerKeeps
<1>4. CASE Answer(h, receipt[api[h].o]) /\ Found(api[h].o)
  <2>1. CASE receipt[api[h].o] = "executing"
    BY <2>1, <1>1, <1>2, <1>4, AnswerKeeps DEF Answers, Negative
  <2>2. CASE receipt[api[h].o] \in Ended
    BY <2>2, <1>1, <1>2, <1>4, EndedIsTrue, AnswerKeeps
  <2> QED BY <2>1, <2>2, <1>4 DEF Found
<1> QED BY <1>3, <1>4 DEF Lookup, LookupFails

\* A success that is not projected: a lifecycle operation stays pending.
LEMMA UnprojectedStep ==
    ASSUME IndInv, NEW h \in Handlers, ProjectionRefused(h) \/ ProjectionFails(h)
    PROVE  IndInv'
<1> DEFINE status == Unprojected(h, op[api[h].o].kind)
<1>1. api[h].pc = "project" /\ api[h].answer = "succeeded" /\ Elsewhere /\ Settle(h, status)
  BY DEF ProjectionRefused, ProjectionFails, inHelper, helper, control, Elsewhere
<1>2. Counted
  BY FaultCounted DEF ProjectionRefused, ProjectionFails, Counted, IndInv, TypeOK
<1>3. status \in {"pending", "accepted", "failed"}
      /\ (status = "failed" => op[api[h].o].kind \notin Lifecycle)
  BY DEF Unprojected
<1>4. receipt[api[h].o] = "succeeded"
  BY <1>1 DEF IndInv, HandlersTruthful, Truthful
<1> HIDE DEF status
<1> QED BY <1>1, <1>2, <1>3, <1>4, SettleKeeps DEF Statuses

\* An operation that still runs keeps its status.
LEMMA ContinuesStep ==
    ASSUME IndInv, NEW h \in Handlers, Continues(h)
    PROVE  IndInv'
<1>1. PICK status : status = IF Polls(h) THEN api[h].status ELSE "accepted"
  OBVIOUS
<1>2. api[h].pc = "project" /\ Elsewhere /\ Settle(h, status) /\ Counted
  BY <1>1 DEF Continues, inHelper, helper, control, Elsewhere, IndInv, TypeOK, Counted, Polls
<1>3. status \in {"accepted", "pending"} /\ (status = "pending" => receipt[api[h].o] = "succeeded")
  BY <1>1, <1>2 DEF IndInv, HandlersTruthful, Truthful, Polls
<1> QED BY <1>2, <1>3, SettleKeeps DEF Statuses

\* A handler that learnt nothing, or whose last statement fails, is done.
LEMMA GivesUpStep ==
    ASSUME IndInv, NEW h \in Handlers, PollLearnsNothing(h) \/ RecordFails(h)
    PROVE  IndInv'
BY IdleKeeps, FaultCounted
DEF PollLearnsNothing, RecordFails, inHelper, helper, control, Elsewhere, Counted, IndInv, TypeOK

-----------------------------------------------------------------------------
(* Requests that arrive.                                                   *)

\* An operation gets its row and its handler; the installation's row stays, or
\* appears at generation 0.
LEMMA BeginKeeps ==
    ASSUME IndInv, NEW h \in Handlers, NEW kind \in Lifecycle \cup Checking, NEW gen \in Nat,
           NEW release \in Releases, Begin(h, kind, gen, release),
           row' \in [exists : BOOLEAN, composite : BOOLEAN, gen : Nat, release : Releases,
                     desired : States, runtime : States],
           row' = row \/ (~row.exists /\ row'.gen = 0 /\ row'.release = 1),
           gen <= row'.gen + 1,
           kind \in Keeping => release = row'.release,
           kind \in Replacing \/ row.exists => row'.exists,
           kind = "install" => row'.gen = 0,
           row' # row => row'.exists
    PROVE  IndInv'
<1>1. PICK o \in Operations :
        /\ api[h] = Idle /\ op[o].status = "none"
        /\ op' = [op EXCEPT ![o] = [kind |-> kind, status |-> "accepted"]]
        /\ api' = [api EXCEPT ![h] = [Idle EXCEPT !.pc = "send", !.kind = kind, !.o = o,
                                                  !.gen = gen, !.release = release]]
        /\ used' = [used EXCEPT !["requests"] = @ + 1]
        /\ UNCHANGED <<inbox, receipt, result, active, unsure, overtaken>>
  BY DEF Begin, Spend, inHelper, helper
<1>2. PICK n : n = [Idle EXCEPT !.pc = "send", !.kind = kind, !.o = o, !.gen = gen,
                                !.release = release]
  OBVIOUS
<1>3. /\ n \in HandlerStates /\ n.pc = "send" /\ n.kind = kind /\ n.o = o /\ ~n.sent
      /\ api' = [api EXCEPT ![h] = n]
  BY <1>1, <1>2 DEF Idle, HandlerStates, Answers, Statuses
<1> USE DEF IndInv, Serves, Polls
<1>4. /\ api' \in [Handlers -> HandlerStates] /\ api'[h] = n
      /\ \A x \in Handlers : x # h => api'[x] = api[x]
  BY <1>3 DEF TypeOK
<1>5. /\ op' \in [Operations -> [kind : {"none"} \cup Lifecycle \cup Checking, status : Statuses]]
      /\ op'[o].kind = kind /\ op'[o].status = "accepted"
      /\ \A x \in Operations : x # o => op'[x] = op[x]
  BY <1>1 DEF TypeOK, Statuses
<1>6. TypeOK'
  BY <1>1, <1>4, <1>5 DEF TypeOK
<1>7. Unheard(o) /\ (\A x \in Handlers : Serves(x) => api[x].o # o)
  BY <1>1 DEF FreshIsUnused
<1>8. HandlersOwn'
  BY <1>1, <1>3, <1>4, <1>5, <1>7 DEF HandlersOwn, Idle, Replacing, Lifecycle, Operating, Checking
<1>9. FreshIsUnused'
  BY <1>1, <1>3, <1>4, <1>5 DEF FreshIsUnused, Unheard, Lost
<1>10. SentOnce'
  <2>1. \A x : Unheard(x)' = Unheard(x)
    BY <1>1 DEF Unheard, Lost
  <2>2. n.kind # "poll"
    BY <1>3 DEF Lifecycle, Replacing, Operating, Checking
  <2>3. ASSUME NEW x \in Handlers
        PROVE  /\ api'[x].pc = "send" => Unheard(api'[x].o) /\ ~Polls(x)' /\ ~api'[x].sent
               /\ api'[x].pc = "wait" => api'[x].sent
               /\ api'[x].pc = "lookup" /\ ~Polls(x)' /\ ~api'[x].sent => Unheard(api'[x].o)
    <3>1. CASE x = h
      BY <3>1, <2>2, <1>3, <1>4, <1>7
    <3>2. CASE x # h
      BY <3>2, <1>4 DEF SentOnce
    <3> QED BY <3>1, <3>2
  <2> QED BY <2>1, <2>3, <1>1 DEF SentOnce
<1>11. \A x \in Operations : x # o /\ Dead(x) => Dead(x)'
  BY <1>1, <1>3, <1>4 DEF Dead, Lost
<1>12. HandlersTruthful'
  <2> SUFFICES ASSUME NEW x \in Handlers PROVE Truthful(api[x])'
    BY DEF HandlersTruthful
  <2>1. CASE x = h
    BY <2>1, <1>3, <1>4 DEF Truthful, Lifecycle, Replacing, Operating, Checking
  <2>2. CASE x # h /\ ~Serves(x)
    BY <2>2, <1>4 DEF Truthful, HandlersOwn, Idle
  <2>3. CASE x # h /\ Serves(x)
    <3>1. api'[x] = api[x] /\ api[x].o \in Operations \ {o} /\ Truthful(api[x])
      BY <2>3, <1>4, <1>7 DEF HandlersOwn, HandlersTruthful
    <3> QED BY <3>1, <1>1, <1>5, <1>11 DEF Truthful
  <2> QED BY <2>1, <2>2, <2>3
<1>13. RowsTruthful'
  BY <1>1, <1>5, <1>11 DEF RowsTruthful
<1>14. NothingInvented'
  BY <1>1 DEF NothingInvented, TypeOK, Results
<1>15. InOrder'
  <2>1. row'.gen = row.gen
    BY DEF NothingInvented
  <2>2. \A x \in Handlers : x # h => (Ordered(api[x]) => Ordered(api[x])')
    BY <2>1, <1>1, <1>4, <1>5, <1>7 DEF Ordered, HandlersOwn, Idle, Replacing
  <2>3. overtaken \/ Ordered(api[h])'
    BY <2>1, <1>1, <1>3, <1>4, <1>7 DEF Ordered, Unheard
  <2> QED BY <2>1, <2>2, <2>3, <1>1, <1>5 DEF InOrder
<1>16. GenerationHasOrigin'
  <2>1. row'.gen = row.gen
    BY DEF NothingInvented
  <2>2. receipt[o] = "none"
    BY <1>7 DEF Unheard
  <2> QED BY <2>1, <2>2, <1>1, <1>5 DEF GenerationHasOrigin
<1>17. row'.gen = row.gen /\ row'.release = row.release
  BY DEF NothingInvented
<1>18. row.gen \in Nat /\ active.gen \in Nat /\ row.gen <= active.gen
  BY DEF NothingInvented, TypeOK, Results
<1>19. RequestsCurrent'
  <2>1. ASSUME NEW x \in Operations, x # o, NEW g, NEW e, Current(x, g, e) PROVE Current(x, g, e)'
    BY <2>1, <1>1, <1>5, <1>17 DEF Current
  <2>2. /\ api'[h].gen = gen /\ api'[h].release = release /\ api'[h].o = o
        /\ gen <= active.gen + 1 /\ Current(o, gen, release)'
    BY <1>1, <1>2, <1>3, <1>4, <1>5, <1>17, <1>18 DEF Current, Idle
  <2>3. \A x \in Handlers : x # h /\ api[x].pc = "send" => api[x].o \in Operations \ {o}
    BY <1>7 DEF HandlersOwn
  <2>4. \A q \in inbox : q.o \in Operations \ {o}
    BY <1>7 DEF Unheard, Lost, TypeOK
  <2>5. receipt[o] # "executing"
    BY <1>7 DEF Unheard
  <2>6. ASSUME NEW x \in Handlers, api'[x].pc = "send"
        PROVE  /\ api'[x].gen <= active.gen + 1
               /\ overtaken \/ Current(api[x].o, api[x].gen, api[x].release)'
    <3>1. CASE x = h
      BY <3>1, <2>2
    <3>2. CASE x # h
      BY <3>2, <2>1, <2>3, <2>6, <1>4 DEF RequestsCurrent
    <3> QED BY <3>1, <3>2
  <2>7. \A q \in inbox : overtaken \/ Current(q.o, q.gen, q.release)'
    BY <2>1, <2>4 DEF RequestsCurrent
  <2>8. ASSUME NEW x \in Operations, receipt[x] = "executing"
        PROVE  overtaken \/ Current(x, result[x].gen, result[x].release)'
    BY <2>1, <2>5, <2>8, <1>1 DEF RequestsCurrent
  <2> QED BY <2>6, <2>7, <2>8, <1>1 DEF RequestsCurrent
<1>20. ReleaseKept'
  BY <1>1, <1>3, <1>4, <1>7, <1>17 DEF ReleaseKept, Carried, Unheard
<1> QED BY <1>6, <1>8, <1>9, <1>10, <1>12, <1>13, <1>14, <1>15, <1>16, <1>19, <1>20

\* A request that asks for a new operation.
LEMMA RequestStep ==
    ASSUME IndInv, NEW h \in Handlers,
           \/ Install(h) \/ Replace(h) \/ Update(h) \/ Reconcile(h) \/ Repair(h) \/ Recreate(h)
           \/ \E action \in Operating : Operate(h, action)
    PROVE  IndInv'
<1> USE DEF Lifecycle, Replacing, Operating, Checking, Releases, Keeping
<1>1. row.gen \in Nat /\ row.gen + 1 \in Nat /\ row.release \in Releases
      /\ row \in [exists : BOOLEAN, composite : BOOLEAN, gen : Nat, release : Releases,
                  desired : States, runtime : States]
  BY DEF IndInv, TypeOK
<1>2. CASE Install(h)
  BY <1>2, BeginKeeps DEF Install, States
<1>3. CASE Replace(h) \/ Recreate(h)
  BY <1>1, <1>3, BeginKeeps DEF Replace, Recreate, NextGeneration
<1>4. CASE Update(h)
  BY <1>1, <1>4, BeginKeeps DEF Update, NextGeneration
<1>5. CASE Reconcile(h) \/ Repair(h)
  BY <1>1, <1>5, BeginKeeps DEF Reconcile, Repair
<1>6. CASE \E action \in Operating : Operate(h, action)
  BY <1>1, <1>6, BeginKeeps DEF Operate
<1> QED BY <1>2, <1>3, <1>4, <1>5, <1>6

\* An operation whose installation could not be written has failed at once.
LEMMA InstallUnsavedStep ==
    ASSUME IndInv, NEW h \in Handlers, InstallUnsaved(h)
    PROVE  IndInv'
<1>1. PICK o \in Operations :
        /\ op[o].status = "none"
        /\ op' = [op EXCEPT ![o] = [kind |-> "install", status |-> "failed"]]
        /\ UNCHANGED <<row, api, inbox, receipt, result, active, unsure, overtaken>>
        /\ Counted
  BY FaultCounted DEF InstallUnsaved, inHelper, helper, IndInv
<1> USE DEF IndInv, Serves, Polls
<1>2. /\ op' \in [Operations -> [kind : {"none"} \cup Lifecycle \cup Checking, status : Statuses]]
      /\ op'[o].kind = "install" /\ op'[o].status = "failed"
      /\ \A x \in Operations : x # o => op'[x] = op[x]
  BY <1>1 DEF TypeOK, Statuses, Lifecycle, Replacing
<1>3. Unheard(o) /\ (\A x \in Handlers : Serves(x) => api[x].o # o)
  BY <1>1 DEF FreshIsUnused
<1>4. TypeOK'
  BY <1>1, <1>2 DEF TypeOK, Counted
<1>5. HandlersOwn' /\ FreshIsUnused' /\ SentOnce'
  BY <1>1, <1>2, <1>3 DEF HandlersOwn, FreshIsUnused, SentOnce, Unheard, Lost
<1>6. \A x : Dead(x)' = Dead(x)
  BY <1>1 DEF Dead, Lost
<1>7. Dead(o)
  BY <1>3 DEF Dead, Unheard
<1>8. HandlersTruthful'
  BY <1>1, <1>2, <1>3, <1>6 DEF HandlersTruthful, Truthful, HandlersOwn, Idle
<1>9. RowsTruthful'
  BY <1>1, <1>2, <1>6, <1>7 DEF RowsTruthful
<1>10. NothingInvented' /\ InOrder' /\ GenerationHasOrigin'
  BY <1>1, <1>2, <1>3 DEF NothingInvented, InOrder, Ordered, GenerationHasOrigin, HandlersOwn, Idle,
                          Unheard
<1>11. RequestsCurrent' /\ ReleaseKept'
  BY <1>1, <1>2, <1>3 DEF RequestsCurrent, Current, ReleaseKept, Carried, HandlersOwn, TypeOK, Unheard,
                          Lost
<1> QED BY <1>4, <1>5, <1>8, <1>9, <1>10, <1>11

\* A client asks what became of an unsettled operation.
LEMMA PollStep ==
    ASSUME IndInv, NEW h \in Handlers, Poll(h)
    PROVE  IndInv'
<1>1. PICK o \in Operations :
        /\ api[h] = Idle /\ op[o].status \in {"accepted", "pending"}
        /\ api' = [api EXCEPT ![h] = [Idle EXCEPT !.pc = "lookup", !.kind = "poll", !.o = o,
                                                  !.status = op[o].status]]
        /\ Elsewhere /\ Spend("requests")
  BY DEF Poll, inHelper, helper, control, Elsewhere
<1>2. PICK n : n = [Idle EXCEPT !.pc = "lookup", !.kind = "poll", !.o = o, !.status = op[o].status]
  OBVIOUS
<1>3. /\ n \in HandlerStates /\ n.pc = "lookup" /\ n.kind = "poll" /\ n.o = o
      /\ n.status = op[o].status /\ api' = [api EXCEPT ![h] = n]
  <2>1. op[o].status \in Statuses
    BY <1>1 DEF Statuses
  <2>2. n = [pc |-> "lookup", kind |-> "poll", o |-> o, gen |-> 0, release |-> 1, sent |-> FALSE,
             answer |-> "none", status |-> op[o].status]
    BY <1>2 DEF Idle
  <2>3. n \in HandlerStates
    BY <2>1, <2>2 DEF HandlerStates, Answers, Releases
  <2> QED BY <2>2, <2>3, <1>1, <1>2
<1> USE DEF IndInv, Serves, Polls, Elsewhere
<1>4. /\ api' \in [Handlers -> HandlerStates] /\ api'[h] = n
      /\ \A x \in Handlers : x # h => api'[x] = api[x]
  BY <1>3 DEF TypeOK
<1>5. TypeOK'
  BY <1>1, <1>4 DEF TypeOK, Spend
<1>6. HandlersOwn'
  BY <1>1, <1>3, <1>4 DEF HandlersOwn, Replacing
<1>7. \A x : Unheard(x)' = Unheard(x)
  BY <1>1 DEF Unheard, Lost
<1>8. FreshIsUnused' /\ SentOnce'
  BY <1>1, <1>3, <1>4, <1>7 DEF FreshIsUnused, SentOnce
<1>9. \A x : Dead(x) => Dead(x)'
  BY <1>1, <1>3, <1>4 DEF Dead, Lost
<1>10. HandlersTruthful'
  <2> SUFFICES ASSUME NEW x \in Handlers PROVE Truthful(api[x])'
    BY DEF HandlersTruthful
  <2>1. CASE x = h
    BY <2>1, <1>1, <1>3, <1>4 DEF Truthful, RowsTruthful
  <2>2. CASE x # h
    BY <2>2, <1>1, <1>4, <1>9 DEF Truthful, HandlersTruthful
  <2> QED BY <2>1, <2>2
<1>11. RowsTruthful' /\ NothingInvented' /\ GenerationHasOrigin'
  BY <1>1, <1>9 DEF RowsTruthful, NothingInvented, GenerationHasOrigin
<1>12. InOrder'
  BY <1>1, <1>3, <1>4 DEF InOrder, Ordered, Replacing
<1>13. RequestsCurrent' /\ ReleaseKept'
  BY <1>1, <1>3, <1>4 DEF RequestsCurrent, Current, ReleaseKept, Carried, Keeping
<1> QED BY <1>5, <1>6, <1>8, <1>10, <1>11, <1>12, <1>13

-----------------------------------------------------------------------------
(* Messages.                                                               *)

\* The request is on its way.
LEMMA SendStep ==
    ASSUME IndInv, NEW h \in Handlers, Send(h)
    PROVE  IndInv'
<1>1. PICK n : n = [api[h] EXCEPT !.pc = "wait", !.sent = TRUE]
  OBVIOUS
<1>2. PICK m : m = [o |-> api[h].o, kind |-> api[h].kind, gen |-> api[h].gen,
                    release |-> api[h].release]
  OBVIOUS
<1> USE DEF IndInv, Serves, Polls
<1>3. /\ api[h] \in HandlerStates /\ api[h].pc = "send" /\ inbox' = inbox \cup {m}
      /\ api' = [api EXCEPT ![h] = n]
      /\ UNCHANGED <<row, op, receipt, result, active, unsure, overtaken, used>>
  BY <1>1, <1>2 DEF Send, control, helper, TypeOK
<1>4. /\ n \in HandlerStates /\ n.pc = "wait" /\ n.kind = api[h].kind /\ n.o = api[h].o
      /\ n.sent = TRUE /\ n.status = api[h].status
  BY <1>1, <1>3 DEF HandlerStates
<1>5. /\ api' \in [Handlers -> HandlerStates] /\ api'[h] = n
      /\ \A x \in Handlers : x # h => api'[x] = api[x]
  BY <1>3, <1>4 DEF TypeOK
<1>6. /\ api[h].o \in Operations /\ Unheard(api[h].o) /\ ~Polls(h)
      /\ \A x \in Handlers : x # h /\ Serves(x) /\ ~Polls(x) => api[x].o # api[h].o
  BY <1>3 DEF SentOnce, HandlersOwn
<1>7. m \in [o : Operations, kind : Lifecycle \cup Checking, gen : Nat, release : Releases]
  BY <1>2, <1>3, <1>6 DEF HandlersOwn, HandlerStates
<1>8. TypeOK'
  BY <1>3, <1>5, <1>7 DEF TypeOK
<1>9. HandlersOwn'
  BY <1>3, <1>4, <1>5 DEF HandlersOwn
<1>10. \A x \in Operations : x # api[h].o => Unheard(x)' = Unheard(x)
  BY <1>2, <1>3 DEF Unheard, Lost
<1>11. FreshIsUnused'
  BY <1>3, <1>4, <1>5, <1>10 DEF FreshIsUnused
<1>12. SentOnce'
  <2>1. \A q \in inbox : q.o # api[h].o
    BY <1>6 DEF Unheard, Lost
  <2>2. (\A q \in inbox : receipt[q.o] = "none")' /\ (\A q, k \in inbox : q.o = k.o => q = k)'
    BY <2>1, <1>2, <1>3, <1>6 DEF SentOnce, Unheard
  <2> QED BY <2>2, <1>3, <1>4, <1>5, <1>6, <1>10 DEF SentOnce, HandlersOwn
<1>13. \A x \in Operations : Dead(x) => Dead(x)'
  BY <1>2, <1>3, <1>4, <1>5 DEF Dead, Lost
<1>14. HandlersTruthful'
  <2> SUFFICES ASSUME NEW x \in Handlers PROVE Truthful(api[x])'
    BY DEF HandlersTruthful
  <2>1. CASE x = h
    BY <2>1, <1>4, <1>5, <1>6 DEF Truthful
  <2>2. CASE x # h
    BY <2>2, <1>3, <1>5, <1>13 DEF Truthful, HandlersTruthful, HandlersOwn, Idle
  <2> QED BY <2>1, <2>2
<1>15. RowsTruthful' /\ NothingInvented' /\ GenerationHasOrigin'
  BY <1>3, <1>13 DEF RowsTruthful, NothingInvented, GenerationHasOrigin
<1>16. InOrder'
  BY <1>3, <1>4, <1>5 DEF InOrder, Ordered
<1>17. RequestsCurrent'
  <2>1. /\ m.gen <= active.gen + 1
        /\ overtaken \/ Current(m.o, m.gen, m.release)
    BY <1>2, <1>3 DEF RequestsCurrent
  <2> QED BY <2>1, <1>3, <1>4, <1>5 DEF RequestsCurrent, Current
<1>18. ReleaseKept'
  BY <1>3, <1>4, <1>5 DEF ReleaseKept, Carried
<1> QED BY <1>8, <1>9, <1>11, <1>12, <1>14, <1>15, <1>16, <1>17, <1>18

\* The write fails and the request never arrives.
LEMMA WriteFailsStep ==
    ASSUME IndInv, NEW h \in Handlers, WriteFails(h)
    PROVE  IndInv'
<1>1. PICK n : n = [api[h] EXCEPT !.pc = "lookup"]
  OBVIOUS
<1> USE DEF IndInv, Serves, Polls
<1>2. PICK k \in inbox :
        /\ api[h] \in HandlerStates /\ api[h].pc = "wait" /\ inbox' = inbox \ {k}
        /\ api' = [api EXCEPT ![h] = n]
        /\ UNCHANGED <<row, op, receipt, result, active, unsure, overtaken>> /\ Counted
  BY <1>1, FaultCounted DEF WriteFails, Goto, control, helper, TypeOK
<1>3. /\ n \in HandlerStates /\ n.pc = "lookup" /\ n.kind = api[h].kind /\ n.o = api[h].o
      /\ n.sent = api[h].sent /\ n.status = api[h].status
  BY <1>1, <1>2 DEF HandlerStates
<1>4. /\ api' \in [Handlers -> HandlerStates] /\ api'[h] = n
      /\ \A x \in Handlers : x # h => api'[x] = api[x]
  BY <1>2, <1>3 DEF TypeOK
<1>5. TypeOK'
  BY <1>2, <1>4 DEF TypeOK, Counted
<1>6. HandlersOwn'
  BY <1>2, <1>3, <1>4 DEF HandlersOwn
<1>7. \A x : Unheard(x) => Unheard(x)'
  BY <1>2 DEF Unheard, Lost
<1>8. FreshIsUnused' /\ SentOnce'
  BY <1>2, <1>3, <1>4, <1>7 DEF FreshIsUnused, SentOnce
<1>9. \A x : Dead(x) => Dead(x)'
  BY <1>2, <1>3, <1>4 DEF Dead, Lost
<1>10. HandlersTruthful'
  BY <1>2, <1>3, <1>4, <1>9 DEF HandlersTruthful, Truthful
<1>11. RowsTruthful' /\ NothingInvented' /\ GenerationHasOrigin' /\ InOrder'
  BY <1>2, <1>3, <1>4, <1>9 DEF RowsTruthful, NothingInvented, GenerationHasOrigin, InOrder, Ordered
<1>12. RequestsCurrent' /\ ReleaseKept'
  BY <1>2, <1>3, <1>4 DEF RequestsCurrent, Current, ReleaseKept, Carried
<1> QED BY <1>5, <1>6, <1>8, <1>10, <1>11, <1>12

-----------------------------------------------------------------------------
(* The helper.                                                             *)

\* What a step of the helper leaves alone.
ApiIdle == UNCHANGED <<row, op, api, overtaken>>

\* A receipt that is opened, refused or superseded, for an operation whose message
\* the helper reads, leaves the committed results as they are.
LEMMA ReceiptOpened ==
    ASSUME IndInv, ApiIdle, UNCHANGED <<active, unsure, used>>, NEW q \in inbox,
           inbox' = inbox \ {q},
           receipt' \in [Operations -> {"none", "refused", "executing"} \cup Ended],
           result' \in [Operations -> Results],
           \A o \in Operations : o # q.o =>
             /\ result'[o] = result[o]
             /\ receipt'[o] = receipt[o] \/ (receipt[o] = "action_required" /\ receipt'[o] = "superseded"),
           receipt'[q.o] \in {"refused", "executing", "failed"},
           receipt'[q.o] = "executing" => result'[q.o].gen = q.gen /\ result'[q.o].release = q.release
    PROVE  IndInv'
<1> USE DEF IndInv, ApiIdle, Serves, Polls
<1>1. q.o \in Operations /\ receipt[q.o] = "none" /\ (\A k \in inbox : k.o = q.o => k = q)
  BY DEF TypeOK, SentOnce
<1>2. TypeOK' /\ HandlersOwn'
  BY DEF TypeOK, HandlersOwn
<1>3. \A o \in Operations : o # q.o => (Unheard(o)' = Unheard(o))
  BY DEF Unheard, Lost
<1>4. ~Unheard(q.o)
  BY DEF Unheard, Lost
<1>5. FreshIsUnused'
  BY <1>3, <1>4 DEF FreshIsUnused
<1>6. SentOnce'
  BY <1>1, <1>3, <1>4 DEF SentOnce, HandlersOwn, TypeOK
<1>7. \A o \in Operations : /\ Dead(o) => Dead(o)'
                            /\ receipt[o] = "succeeded" => receipt'[o] = "succeeded" /\ result'[o] = result[o]
                            /\ receipt'[o] = "succeeded" => receipt[o] = "succeeded"
  BY <1>1 DEF Dead, Lost
<1>8. HandlersTruthful' /\ RowsTruthful'
  BY <1>7 DEF HandlersTruthful, Truthful, RowsTruthful, HandlersOwn, Idle
<1>9. NothingInvented' /\ GenerationHasOrigin'
  BY <1>7 DEF NothingInvented, GenerationHasOrigin
<1>10. InOrder'
  <2>1. \A h \in Handlers : Ordered(api[h]) => Ordered(api[h])'
    BY <1>7 DEF Ordered, HandlersOwn, HandlersTruthful, Truthful, Idle, Replacing
  <2> QED BY <2>1, <1>7 DEF InOrder, RowsTruthful
<1>11. RequestsCurrent'
  <2>1. \A o \in Operations : receipt'[o] = "executing" /\ o # q.o =>
                              receipt[o] = "executing" /\ result'[o] = result[o]
    OBVIOUS
  <2> QED BY <2>1, <1>1 DEF RequestsCurrent, Current
<1>12. ReleaseKept'
  BY <1>7 DEF ReleaseKept, Carried, HandlersOwn, Idle, Keeping
<1> QED BY <1>2, <1>5, <1>6, <1>8, <1>9, <1>10, <1>11, <1>12

\* The helper reads a request.
LEMMA HelperReadsStep ==
    ASSUME IndInv, HelperBegins \/ HelperRejects
    PROVE  IndInv'
<1> USE DEF IndInv, TypeOK, control, ApiIdle
<1>1. CASE HelperBegins
  <2>1. PICK q \in inbox :
          LET held == Busy(q.o) # {} \/ (Interrupted(q.o) # {} /\ q.kind \notin {"repair", "recreate"}) IN
          /\ inbox' = inbox \ {q}
          /\ receipt' = [o \in Operations |->
                           IF o = q.o THEN IF held THEN "failed" ELSE "executing"
                           ELSE IF ~held /\ o \in Interrupted(q.o) THEN "superseded" ELSE receipt[o]]
          /\ result' = [result EXCEPT ![q.o] = [NoResult EXCEPT !.gen = q.gen, !.release = q.release]]
          /\ UNCHANGED <<control, api, active, unsure, overtaken, used>>
    BY <1>1 DEF HelperBegins
  <2>2. q.o \in Operations /\ q.gen \in Nat /\ q.release \in Releases
    OBVIOUS
  <2>3. [NoResult EXCEPT !.gen = q.gen, !.release = q.release] \in Results
    BY <2>2 DEF NoResult, Results, States
  <2>4. /\ result' \in [Operations -> Results]
        /\ \A o \in Operations : o # q.o => result'[o] = result[o]
        /\ result'[q.o].gen = q.gen /\ result'[q.o].release = q.release
    BY <2>1, <2>2, <2>3 DEF NoResult
  <2>5. /\ receipt' \in [Operations -> {"none", "refused", "executing"} \cup Ended]
        /\ receipt'[q.o] \in {"failed", "executing"}
        /\ \A o \in Operations : o # q.o =>
             receipt'[o] = receipt[o] \/ (receipt[o] = "action_required" /\ receipt'[o] = "superseded")
    BY <2>1, <2>2 DEF Interrupted, Ended
  <2> QED BY <2>1, <2>4, <2>5, ReceiptOpened
<1>2. CASE HelperRejects
  BY <1>2, ReceiptOpened DEF HelperRejects
<1> QED BY <1>1, <1>2

\* An executing receipt that is closed without a commit, or left open for good.
LEMMA HelperGivesUpStep ==
    ASSUME IndInv, NEW o \in Operations, HelperResolves(o) \/ HelperCannotRecord(o)
    PROVE  IndInv'
<1>1. /\ ApiIdle /\ UNCHANGED <<inbox, result, active>> /\ Counted
      /\ unsure' \in {unsure, unsure \cup {o}}
      /\ \/ receipt' = receipt
         \/ receipt[o] = "action_required" /\ receipt' = [receipt EXCEPT ![o] = "failed"]
  BY FaultCounted DEF HelperResolves, HelperCannotRecord, control, ApiIdle, IndInv, TypeOK, Counted
<1> USE <1>1 DEF IndInv, ApiIdle, Serves, Polls
<1>2. TypeOK' /\ HandlersOwn'
  BY DEF TypeOK, HandlersOwn, Counted, Ended
<1>3. \A x \in Operations : /\ Unheard(x)' = Unheard(x) /\ (receipt'[x] = "none" <=> receipt[x] = "none")
                            /\ receipt'[x] = "succeeded" <=> receipt[x] = "succeeded"
                            /\ Dead(x) => Dead(x)'
  BY DEF TypeOK, Unheard, Lost, Dead
<1>4. FreshIsUnused' /\ SentOnce'
  BY <1>3 DEF FreshIsUnused, SentOnce, HandlersOwn, TypeOK
<1>5. HandlersTruthful' /\ RowsTruthful'
  BY <1>3 DEF HandlersTruthful, Truthful, RowsTruthful, HandlersOwn, Idle
<1>6. NothingInvented' /\ GenerationHasOrigin'
  BY <1>3 DEF NothingInvented, GenerationHasOrigin
<1>7. InOrder'
  <2>1. \A h \in Handlers : Ordered(api[h]) => Ordered(api[h])'
    BY <1>3 DEF Ordered, HandlersOwn, Idle, Replacing
  <2> QED BY <2>1 DEF InOrder
<1>8. RequestsCurrent'
  <2>1. \A x \in Operations : receipt'[x] = "executing" => receipt[x] = "executing"
    BY DEF TypeOK
  <2> QED BY <2>1 DEF RequestsCurrent, Current
<1>9. ReleaseKept'
  BY <1>3 DEF ReleaseKept, Carried, HandlersOwn, Idle, Keeping
<1> QED BY <1>2, <1>4, <1>5, <1>6, <1>7, <1>8, <1>9

\* What the helper commits is the next generation, or the one it holds.
LEMMA CommitsNext ==
    ASSUME TypeOK, NEW o \in Operations, NEW r \in Commits(o)
    PROVE  /\ r \in Results
           /\ op[o].kind \in Replacing =>
                r.gen = active.gen + 1 /\ r.gen = result[o].gen /\ r.release = result[o].release
           /\ op[o].kind \notin Replacing => r.gen = active.gen /\ r.release = active.release
<1>1. CASE op[o].kind \in Replacing
  <2>0. op[o].kind \notin Operating /\ op[o].kind # "reconcile"
    BY <1>1 DEF Operating, Replacing
  <2>1. r \in IF Trusted(o) THEN {[result[o] EXCEPT !.state = "running", !.projects = TRUE]} ELSE {}
    BY <1>1, <2>0 DEF Commits
  <2>2. r = [result[o] EXCEPT !.state = "running", !.projects = TRUE] /\ Trusted(o)
    BY <2>1
  <2>3. result[o] \in Results /\ result[o].gen = active.gen + 1
    BY <2>2 DEF Trusted, TypeOK
  <2> QED BY <2>2, <2>3, <1>1 DEF Results, States
<1>2. CASE op[o].kind \in Operating
  <2>1. op[o].kind \notin Replacing /\ op[o].kind # "reconcile"
    BY <1>2 DEF Operating, Replacing
  <2>2. r = [active EXCEPT !.state = Desired[op[o].kind], !.projects = TRUE]
    <3>1. r \in IF IsActive
               THEN {[active EXCEPT !.state = Desired[op[o].kind], !.projects = TRUE]} ELSE {}
      BY <1>2, <2>1 DEF Commits
    <3> QED BY <3>1
  <2>3. Desired[op[o].kind] \in States
    BY <1>2 DEF Operating, Desired, States
  <2> QED BY <2>1, <2>2, <2>3 DEF TypeOK, Results
<1>3. CASE op[o].kind = "reconcile"
  <2>1. op[o].kind \notin Replacing \cup Operating
    BY <1>3 DEF Operating, Replacing
  <2>2. r = [active EXCEPT !.projects = IsActive] /\ IsActive \in BOOLEAN
    BY <1>3, <2>1 DEF Commits, IsActive
  <2> QED BY <2>1, <2>2 DEF TypeOK, Results
<1>4. CASE op[o].kind \notin Replacing \cup Operating \cup {"reconcile"}
  <2>1. PICK s \in {active.state, "running"} : r = [active EXCEPT !.projects = IsActive, !.state = s]
    BY <1>4 DEF Commits
  <2>2. IsActive \in BOOLEAN
    BY DEF IsActive
  <2> QED BY <2>1, <2>2, <1>4 DEF TypeOK, Results, States
<1> QED BY <1>1, <1>2, <1>3, <1>4

\* The helper commits, or leaves open whether it did.
LEMMA HelperCommitsStep ==
    ASSUME IndInv, NEW o \in Operations, HelperSucceeds(o) \/ HelperFails(o)
    PROVE  IndInv'
<1>1. /\ ApiIdle /\ UNCHANGED inbox /\ Counted /\ receipt[o] = "executing"
      /\ \/ /\ receipt' = [receipt EXCEPT ![o] = "succeeded"] /\ unsure' = unsure
            /\ \E r \in Commits(o) : active' = r /\ result' = [result EXCEPT ![o] = r]
         \/ /\ receipt' = [receipt EXCEPT ![o] = "failed"] /\ UNCHANGED <<unsure, active, result>>
         \/ /\ receipt' = [receipt EXCEPT ![o] = "action_required"] /\ unsure' = unsure \cup {o}
            /\ active' \in {active} \cup Commits(o) /\ result' = result
  BY FaultCounted DEF HelperSucceeds, HelperFails, control, ApiIdle, IndInv, TypeOK, Counted
<1> USE DEF IndInv, ApiIdle, Serves, Polls
<1>2. /\ active' \in Results /\ result' \in [Operations -> Results]
      /\ \A x \in Operations : x # o => result'[x] = result[x]
  BY <1>1, CommitsNext DEF TypeOK
<1>3. \/ active'.gen = active.gen /\ active'.release = active.release
      \/ active'.gen = active.gen + 1 /\ op[o].kind \in Replacing
  BY <1>1, CommitsNext
<1>4. /\ receipt' \in [Operations -> {"none", "refused", "executing"} \cup Ended]
      /\ \A x \in Operations : x # o => receipt'[x] = receipt[x]
      /\ receipt'[o] \in {"succeeded", "failed", "action_required"}
      /\ receipt'[o] = "succeeded" =>
           /\ result'[o] = active'
           /\ op[o].kind \in Replacing =>
                active'.gen = active.gen + 1 /\ active'.gen = result[o].gen
                /\ active'.release = result[o].release
      /\ receipt'[o] # "succeeded" => result' = result
  BY <1>1, CommitsNext DEF TypeOK, Ended
<1>5. TypeOK' /\ HandlersOwn'
  BY <1>1, <1>2, <1>4 DEF TypeOK, HandlersOwn, Counted
<1>6. \A x \in Operations : /\ Unheard(x)' = Unheard(x)
                            /\ Dead(x) => Dead(x)'
                            /\ receipt[x] = "none" => receipt'[x] = "none"
                            /\ receipt[x] = "succeeded" => receipt'[x] = "succeeded" /\ x # o
  BY <1>1, <1>4 DEF Unheard, Lost, Dead
<1>7. FreshIsUnused' /\ SentOnce'
  BY <1>1, <1>6 DEF FreshIsUnused, SentOnce, HandlersOwn, TypeOK
<1>8. HandlersTruthful' /\ RowsTruthful'
  BY <1>1, <1>6 DEF HandlersTruthful, Truthful, RowsTruthful, HandlersOwn, Idle
<1>9. NothingInvented'
  <2>1. active.gen \in Nat /\ active'.gen \in Nat /\ row.gen \in Nat
        /\ \A x \in Operations : result[x].gen \in Nat
    BY <1>2 DEF TypeOK, Results
  <2>2. ASSUME NEW x \in Operations, receipt'[x] = "succeeded"
        PROVE  /\ result'[x].gen <= active'.gen
               /\ result'[x].gen = active'.gen => result'[x].release = active'.release
    <3>1. CASE x = o
      BY <3>1, <2>1, <2>2, <1>4
    <3>2. CASE x # o
      <4>1. receipt[x] = "succeeded" /\ result'[x] = result[x]
        BY <3>2, <2>2, <1>2, <1>4
      <4> QED BY <4>1, <2>1, <1>3 DEF NothingInvented
    <3> QED BY <3>1, <3>2
  <2>3. /\ row.gen <= active'.gen
        /\ row.gen = active'.gen /\ row.gen > 0 /\ ~row.composite => row.release = active'.release
    BY <2>1, <1>3 DEF NothingInvented
  <2> QED BY <2>2, <2>3, <1>1 DEF NothingInvented
<1>10. InOrder'
  <2>1. ASSUME NEW h \in Handlers, Ordered(api[h]) PROVE Ordered(api[h])'
    <3>1. CASE ~Serves(h)
      BY <3>1, <1>1 DEF Ordered, HandlersOwn, Idle, Replacing
    <3>2. CASE Serves(h) /\ api[h].o # o
      BY <3>2, <2>1, <1>1, <1>2, <1>4 DEF Ordered, HandlersOwn
    <3>3. CASE Serves(h) /\ api[h].o = o
      <4>1. ~(api[h].pc = "record" /\ api[h].status = "succeeded")
        BY <3>3, <1>1 DEF HandlersTruthful, Truthful
      <4>2. api[h].kind \in Replacing /\ receipt'[o] = "succeeded" => result'[o].gen = active.gen + 1
        BY <3>3, <1>4 DEF HandlersOwn, Replacing
      <4>3. row.gen \in Nat /\ active.gen \in Nat /\ row.gen <= active.gen
        BY DEF TypeOK, NothingInvented, Results
      <4> QED BY <4>1, <4>2, <4>3, <3>3, <2>1, <1>1 DEF Ordered
    <3> QED BY <3>1, <3>2, <3>3
  <2>2. \A x \in Operations : op[x].status = "succeeded" => x # o
    BY <1>1 DEF RowsTruthful
  <2> QED BY <2>1, <2>2, <1>1, <1>2 DEF InOrder
<1>11. GenerationHasOrigin'
  <2>1. CASE active'.gen = active.gen
    BY <2>1, <1>1, <1>2, <1>6 DEF GenerationHasOrigin
  <2>2. CASE active'.gen = active.gen + 1 /\ op[o].kind \in Replacing
    <3>1. CASE receipt'[o] = "succeeded"
      BY <3>1, <2>2, <1>1, <1>4 DEF GenerationHasOrigin, Lifecycle
    <3>2. CASE receipt'[o] # "succeeded"
      <4>1. o \in unsure'
        BY <3>2, <2>2, <1>1, <1>4 DEF TypeOK, Results
      <4> QED BY <4>1 DEF GenerationHasOrigin
    <3> QED BY <3>1, <3>2
  <2> QED BY <2>1, <2>2, <1>3
<1>12. active.gen \in Nat /\ row.gen \in Nat /\ row.gen <= active.gen
  BY DEF TypeOK, NothingInvented, Results
<1>13. RequestsCurrent'
  <2>1. \A x \in Operations : receipt'[x] = "executing" => receipt[x] = "executing" /\ result'[x] = result[x]
    BY <1>2, <1>4
  <2>2. ASSUME NEW x, NEW g \in Nat, NEW e, g <= active.gen + 1
        PROVE  /\ g <= active'.gen + 1
               /\ Current(x, g, e) => Current(x, g, e)'
    BY <2>2, <1>1, <1>3, <1>12 DEF Current
  <2>3. \A h \in Handlers : api[h].gen \in Nat
    BY DEF TypeOK, HandlerStates
  <2>4. \A q \in inbox : q.gen \in Nat
    BY DEF TypeOK
  <2>5. \A x \in Operations : result[x].gen \in Nat
    BY DEF TypeOK, Results
  <2>6. ASSUME NEW h \in Handlers, api[h].pc = "send"
        PROVE  /\ api[h].gen <= active'.gen + 1
               /\ overtaken \/ Current(api[h].o, api[h].gen, api[h].release)'
    BY <2>2, <2>3, <2>6, <1>1 DEF RequestsCurrent
  <2>7. ASSUME NEW q \in inbox
        PROVE  /\ q.gen <= active'.gen + 1
               /\ overtaken \/ Current(q.o, q.gen, q.release)'
    BY <2>2, <2>4, <2>7 DEF RequestsCurrent
  <2>8. ASSUME NEW x \in Operations, receipt'[x] = "executing"
        PROVE  /\ result'[x].gen <= active'.gen + 1
               /\ overtaken \/ Current(x, result[x].gen, result[x].release)'
    <3>1. /\ receipt[x] = "executing" /\ result'[x] = result[x]
          /\ result[x].gen <= active.gen + 1
          /\ overtaken \/ Current(x, result[x].gen, result[x].release)
      BY <2>1, <2>8 DEF RequestsCurrent
    <3> QED BY <3>1, <2>2, <2>5, <1>1 DEF Current
  <2> QED BY <2>6, <2>7, <2>8, <1>1 DEF RequestsCurrent
<1>14. ReleaseKept'
  <2> SUFFICES ASSUME ~overtaken PROVE ReleaseKept'
    BY <1>1 DEF ReleaseKept
  <2>1. (row.gen = active.gen => row.release = active.release)'
    BY <1>1, <1>3, <1>12 DEF ReleaseKept
  <2>2. ASSUME NEW h \in Handlers PROVE Carried(api[h])'
    <3>1. CASE ~Serves(h)
      BY <3>1, <1>1 DEF Carried, HandlersOwn, Idle, Keeping
    <3>2. CASE Serves(h) /\ api[h].o # o
      BY <3>2, <1>1, <1>2, <1>4 DEF Carried, HandlersOwn, ReleaseKept
    <3>3. CASE Serves(h) /\ api[h].o = o
      <4> SUFFICES ASSUME api[h].kind \in Keeping, receipt'[o] = "succeeded"
                   PROVE  row.release = result'[o].release
        BY <3>3, <1>1 DEF Carried
      <4>1. op[o].kind \in Keeping /\ op[o].kind \in Replacing
        BY <3>3 DEF HandlersOwn, Keeping, Replacing
      <4>2. Current(o, result[o].gen, result[o].release)
        BY <1>1 DEF RequestsCurrent
      <4>3. result[o].gen = active.gen + 1 /\ result'[o].release = result[o].release
        BY <4>1, <1>4
      <4> QED BY <4>1, <4>2, <4>3 DEF Current
    <3> QED BY <3>1, <3>2, <3>3
  <2> QED BY <2>1, <2>2 DEF ReleaseKept
<1> QED BY <1>5, <1>7, <1>8, <1>9, <1>10, <1>11, <1>13, <1>14

-----------------------------------------------------------------------------
(* Statements of the API.                                                  *)

Rows == [exists : BOOLEAN, composite : BOOLEAN, gen : Nat, release : Releases, desired : States,
         runtime : States]

\* What a projection writes: the committed generation with its release, never below
\* the row unless another handler's replacement was overtaken, or only the state.
\* A release that is not written is there already, unless one was overtaken.
LEMMA ProjectsWrites ==
    ASSUME IndInv, NEW h \in Handlers, Projects(h)
    PROVE  LET o == api[h].o IN
           /\ row' \in Rows /\ row'.exists = row.exists /\ row'.composite = row.composite
           /\ receipt[o] = "succeeded" /\ o \in Operations
           /\ overtaken => overtaken'
           /\ overtaken' \in BOOLEAN
           /\ \/ /\ row'.gen = result[o].gen /\ row.exists
                 /\ row'.release = result[o].release \/ (row.composite /\ overtaken')
                 /\ overtaken' \/ (Holding(h) = {} /\ row.gen <= row'.gen)
              \/ /\ row'.gen = row.gen /\ row'.release = row.release /\ overtaken' = overtaken
                 /\ op[o].kind \notin Lifecycle
<1>1. PICK o, kind, r : o = api[h].o /\ kind = op[o].kind /\ r = result[o]
  OBVIOUS
<1>2. api[h].pc = "project" /\ api[h].answer = "succeeded" /\ Projection(h, kind, r)
  BY <1>1 DEF Projects
<1>3. o \in Operations /\ r \in Results /\ receipt[o] = "succeeded" /\ row \in Rows
      /\ overtaken \in BOOLEAN
  BY <1>1, <1>2 DEF IndInv, HandlersOwn, Serves, TypeOK, HandlersTruthful, Truthful, Rows
<1>4. r.gen \in Nat /\ r.release \in Releases /\ r.state \in States
  BY <1>3 DEF Results
<1>5. CASE api[h].kind \in Replacing
  <2>0. PICK e : e = IF api[h].kind = "update" \/ ~row.composite THEN r.release ELSE row.release
    OBVIOUS
  <2>1. /\ row.exists
        /\ row' = [row EXCEPT !.gen = r.gen, !.desired = r.state, !.runtime = r.state, !.release = e]
        /\ overtaken' = (overtaken \/ Holding(h) # {})
    BY <1>2, <1>5, <2>0 DEF Projection, ProjectReplacement, Overtakes, IndInv, HandlersOwn
  <2>2. overtaken \/ row.gen <= r.gen
    BY <1>1, <1>2, <1>3, <1>5 DEF IndInv, InOrder, Ordered
  <2>3. e \in Releases
    BY <1>3, <1>4, <2>0 DEF Rows
  <2>4. e = r.release \/ (row.composite /\ overtaken)
    <3>1. CASE api[h].kind = "update" \/ ~row.composite
      BY <3>1, <2>0
    <3>2. CASE api[h].kind # "update" /\ row.composite
      <4>1. api[h].kind \in Keeping /\ e = row.release
        BY <3>2, <2>0, <1>5 DEF Keeping, Replacing
      <4> QED BY <4>1, <3>2, <1>1, <1>2, <1>3 DEF IndInv, ReleaseKept, Carried
    <3> QED BY <3>1, <3>2
  <2>5. row' \in Rows /\ row'.gen = r.gen /\ row'.release = e /\ row'.exists = row.exists
        /\ row'.composite = row.composite
    BY <1>3, <1>4, <2>1, <2>3 DEF Rows
  <2> QED BY <1>1, <1>3, <2>1, <2>2, <2>4, <2>5
<1>6. CASE api[h].kind \notin Replacing /\ kind \in Lifecycle
  <2>1. row.exists /\ row.gen <= r.gen
        /\ row' = [row EXCEPT !.gen = r.gen, !.release = r.release, !.desired = r.state,
                              !.runtime = r.state]
        /\ overtaken' = (overtaken \/ Holding(h) # {})
    BY <1>2, <1>6 DEF Projection, RepairCommittedProjection, Overtakes
  <2> QED BY <1>1, <1>3, <1>4, <2>1 DEF Rows
<1>7. CASE api[h].kind \notin Replacing /\ kind \notin Lifecycle
  <2>1. row.exists /\ ProjectReconciliation(h, r)
    BY <1>2, <1>7 DEF Projection, ProjectReconciliation
  <2>2. CASE r.projects
    BY <2>1, <2>2, <1>1, <1>3, <1>4 DEF ProjectReconciliation, Overtakes, Rows
  <2>3. CASE ~r.projects
    BY <2>1, <2>3, <1>1, <1>3, <1>4, <1>7 DEF ProjectReconciliation, Rows
  <2> QED BY <2>2, <2>3
<1> QED BY <1>5, <1>6, <1>7

\* A committed result is projected.
LEMMA ProjectsStep ==
    ASSUME IndInv, NEW h \in Handlers, Projects(h)
    PROVE  IndInv'
<1>1. PICK n, o : n = [api[h] EXCEPT !.pc = "record", !.status = "succeeded"] /\ o = api[h].o
  OBVIOUS
<1> USE DEF IndInv, Serves, Polls
<1>2. /\ api[h] \in HandlerStates /\ api[h].pc = "project"
      /\ api' = [api EXCEPT ![h] = n]
      /\ UNCHANGED <<op, inbox, receipt, result, active, unsure, used>>
  BY <1>1 DEF Projects, Settle, inHelper, helper, TypeOK
<1>3. /\ n \in HandlerStates /\ n.pc = "record" /\ n.kind = api[h].kind /\ n.o = o
      /\ n.status = "succeeded"
  BY <1>1, <1>2 DEF HandlerStates, Statuses
<1>4. /\ api' \in [Handlers -> HandlerStates] /\ api'[h] = n
      /\ \A x \in Handlers : x # h => api'[x] = api[x]
  BY <1>2, <1>3 DEF TypeOK
<1>5. /\ row' \in Rows /\ row'.exists = row.exists /\ row'.composite = row.composite
      /\ receipt[o] = "succeeded" /\ o \in Operations
      /\ overtaken => overtaken'
      /\ overtaken' \in BOOLEAN
      /\ \/ /\ row'.gen = result[o].gen /\ row.exists
            /\ row'.release = result[o].release \/ (row.composite /\ overtaken')
            /\ overtaken' \/ (Holding(h) = {} /\ row.gen <= row'.gen)
         \/ /\ row'.gen = row.gen /\ row'.release = row.release /\ overtaken' = overtaken
            /\ op[o].kind \notin Lifecycle
  BY <1>1, ProjectsWrites
<1>6. TypeOK'
  BY <1>2, <1>4, <1>5 DEF TypeOK, Rows
<1>7. HandlersOwn'
  BY <1>1, <1>2, <1>3, <1>4, <1>5 DEF HandlersOwn
<1>8. \A x : Unheard(x)' = Unheard(x)
  BY <1>2 DEF Unheard, Lost
<1>9. FreshIsUnused' /\ SentOnce'
  BY <1>1, <1>2, <1>3, <1>4, <1>8 DEF FreshIsUnused, SentOnce
<1>10. \A x : Dead(x) => Dead(x)'
  BY <1>2, <1>3, <1>4 DEF Dead, Lost
<1>11. HandlersTruthful'
  <2> SUFFICES ASSUME NEW x \in Handlers PROVE Truthful(api[x])'
    BY DEF HandlersTruthful
  <2>1. CASE x = h
    BY <2>1, <1>2, <1>3, <1>4, <1>5 DEF Truthful
  <2>2. CASE x # h
    BY <2>2, <1>2, <1>4, <1>10 DEF Truthful, HandlersTruthful
  <2> QED BY <2>1, <2>2
<1>12. RowsTruthful'
  BY <1>2, <1>10 DEF RowsTruthful
<1>13. NothingInvented'
  BY <1>2, <1>5 DEF NothingInvented
<1>14. row.gen \in Nat /\ row'.gen \in Nat /\ active.gen \in Nat
       /\ \A x \in Operations : result[x].gen \in Nat
  BY <1>5 DEF TypeOK, Rows, Results
<1>15. overtaken' \/ row.gen <= row'.gen
  BY <1>5, <1>14
<1>16. InOrder'
  <2> SUFFICES ASSUME ~overtaken' PROVE InOrder'
    BY DEF InOrder
  <2>1. ~overtaken /\ row.gen <= row'.gen
    BY <1>5, <1>15
  <2>2. Ordered(api[h])'
    BY <1>2, <1>3, <1>4, <1>5, <1>14, <2>1 DEF Ordered
  <2>3. ASSUME NEW x \in Handlers, x # h, Serves(x) PROVE Ordered(api[x])'
    <3>1. api'[x] = api[x] /\ api[x].o \in Operations /\ Ordered(api[x])
      BY <2>1, <2>3, <1>4 DEF InOrder, HandlersOwn
    <3>2. CASE row'.gen = row.gen
      BY <3>1, <3>2, <1>2 DEF Ordered
    <3>3. CASE row'.gen # row.gen
      <4>1. x \notin Holding(h)
        BY <3>3, <1>5
      <4> QED BY <4>1, <3>1, <2>1, <2>3, <1>2, <1>14 DEF Holding, Ordered, Replacing
    <3> QED BY <3>2, <3>3
  <2>4. ASSUME NEW x \in Handlers, x # h, ~Serves(x) PROVE Ordered(api[x])'
    BY <2>4, <1>4 DEF Ordered, HandlersOwn, Idle, Replacing
  <2>5. \A x \in Operations : op[x].status = "succeeded" /\ op[x].kind \in Lifecycle =>
                                row'.gen >= result[x].gen
    BY <2>1, <1>14 DEF InOrder
  <2> QED BY <2>2, <2>3, <2>4, <2>5, <1>2 DEF InOrder
<1>17. GenerationHasOrigin'
  BY <1>2, <1>13, <1>14, <1>15, <1>5 DEF GenerationHasOrigin, NothingInvented
<1>18. ASSUME ~overtaken'
       PROVE  row.gen = active.gen => row'.gen = active.gen /\ row'.release = row.release
  BY <1>18, <1>5, <1>14, <1>15 DEF NothingInvented, ReleaseKept
<1>19. RequestsCurrent'
  <2>1. ASSUME ~overtaken', NEW x, NEW g, NEW e, Current(x, g, e) PROVE Current(x, g, e)'
    BY <2>1, <1>2, <1>18 DEF Current
  <2>2. ASSUME NEW x \in Handlers, api'[x].pc = "send"
        PROVE  /\ api'[x].gen <= active.gen + 1
               /\ overtaken' \/ Current(api[x].o, api[x].gen, api[x].release)'
    <3>1. x # h /\ api'[x] = api[x]
      BY <2>2, <1>3, <1>4
    <3> QED BY <3>1, <2>1, <2>2, <1>5 DEF RequestsCurrent
  <2>3. \A q \in inbox : overtaken' \/ Current(q.o, q.gen, q.release)'
    BY <2>1, <1>5 DEF RequestsCurrent
  <2>4. ASSUME NEW x \in Operations, receipt[x] = "executing"
        PROVE  overtaken' \/ Current(x, result[x].gen, result[x].release)'
    BY <2>1, <2>4, <1>2, <1>5 DEF RequestsCurrent
  <2> QED BY <2>2, <2>3, <2>4, <1>2 DEF RequestsCurrent
<1>20. ReleaseKept'
  <2> SUFFICES ASSUME ~overtaken' PROVE ReleaseKept'
    BY DEF ReleaseKept
  <2>1. (row.gen = active.gen => row.release = active.release)'
    BY <1>2, <1>5 DEF NothingInvented, ReleaseKept
  <2>2. ASSUME NEW x \in Handlers PROVE Carried(api[x])'
    <3>1. CASE x = h
      BY <3>1, <1>3, <1>4 DEF Carried
    <3>2. CASE x # h /\ row'.release = row.release
      BY <3>2, <1>2, <1>4, <1>5 DEF Carried, ReleaseKept
    <3>3. CASE x # h /\ row'.release # row.release
      <4>1. x \notin Holding(h)
        BY <3>3, <1>5
      <4> QED BY <4>1, <3>3, <1>2, <1>4 DEF Holding, Carried, Keeping, Replacing
    <3> QED BY <3>1, <3>2, <3>3
  <2> QED BY <2>1, <2>2 DEF ReleaseKept
<1> QED BY <1>6, <1>7, <1>9, <1>11, <1>12, <1>13, <1>16, <1>17, <1>19, <1>20

\* A negative answer fails the operation; a first installation starts again.
LEMMA FailsStep ==
    ASSUME IndInv, NEW h \in Handlers, Fails(h)
    PROVE  IndInv'
<1>1. PICK n, o : n = [api[h] EXCEPT !.pc = "record", !.status = "failed"] /\ o = api[h].o
  OBVIOUS
<1> USE DEF IndInv, Serves, Polls
<1>2. /\ api[h] \in HandlerStates /\ api[h].pc = "project" /\ api[h].answer \in Negative
      /\ api' = [api EXCEPT ![h] = n]
      /\ UNCHANGED <<op, inbox, receipt, result, active, unsure, overtaken, used>>
  BY <1>1 DEF Fails, Settle, inHelper, helper, TypeOK, Negative, Ended
<1>3. /\ n \in HandlerStates /\ n.pc = "record" /\ n.kind = api[h].kind /\ n.o = o
      /\ n.status = "failed"
  BY <1>1, <1>2 DEF HandlerStates, Statuses
<1>4. /\ api' \in [Handlers -> HandlerStates] /\ api'[h] = n
      /\ \A x \in Handlers : x # h => api'[x] = api[x]
  BY <1>2, <1>3 DEF TypeOK
<1>5. row' \in Rows /\ row'.exists = row.exists /\ row'.release = row.release
      /\ row'.composite = row.composite
      /\ (row'.gen = row.gen \/ (row'.gen = 0 /\ api[h].kind = "install"))
  BY DEF Fails, TypeOK, Rows, States
<1>6. TypeOK'
  BY <1>2, <1>4, <1>5 DEF TypeOK, Rows
<1>7. HandlersOwn'
  BY <1>1, <1>2, <1>3, <1>4, <1>5 DEF HandlersOwn
<1>8. \A x : Unheard(x)' = Unheard(x)
  BY <1>2 DEF Unheard, Lost
<1>9. FreshIsUnused' /\ SentOnce'
  BY <1>1, <1>2, <1>3, <1>4, <1>8 DEF FreshIsUnused, SentOnce
<1>10. \A x : Dead(x) => Dead(x)'
  BY <1>2, <1>3, <1>4 DEF Dead, Lost
<1>11. HandlersTruthful'
  <2> SUFFICES ASSUME NEW x \in Handlers PROVE Truthful(api[x])'
    BY DEF HandlersTruthful
  <2>1. CASE x = h
    BY <2>1, <1>1, <1>2, <1>3, <1>4, <1>10 DEF Truthful, HandlersTruthful
  <2>2. CASE x # h
    BY <2>2, <1>2, <1>4, <1>10 DEF Truthful, HandlersTruthful
  <2> QED BY <2>1, <2>2
<1>12. RowsTruthful'
  BY <1>2, <1>10 DEF RowsTruthful
<1>13. NothingInvented'
  BY <1>2, <1>5 DEF NothingInvented, TypeOK, Results
<1>14. overtaken \/ row'.gen = row.gen
  BY <1>2, <1>5 DEF InOrder, Ordered
<1>15. InOrder'
  BY <1>2, <1>3, <1>4, <1>14 DEF InOrder, Ordered
<1>16. GenerationHasOrigin'
  BY <1>2, <1>14 DEF GenerationHasOrigin
<1>17. RequestsCurrent' /\ ReleaseKept'
  BY <1>2, <1>3, <1>4, <1>5, <1>14 DEF RequestsCurrent, Current, ReleaseKept, Carried
<1> QED BY <1>6, <1>7, <1>9, <1>11, <1>12, <1>13, <1>15, <1>16, <1>17

\* The status in hand is written over whatever the operations table says.
LEMMA RecordStep ==
    ASSUME IndInv, NEW h \in Handlers, Record(h)
    PROVE  IndInv'
<1>1. PICK o, status : o = api[h].o /\ status = api[h].status
  OBVIOUS
<1> USE DEF IndInv, Serves, Polls
<1>2. /\ api[h].pc = "record" /\ o \in Operations /\ status \in Statuses
      /\ op' = [op EXCEPT ![o].status = status] /\ api' = [api EXCEPT ![h] = Idle]
      /\ UNCHANGED <<row, inbox, receipt, result, active, unsure, overtaken, used>>
  BY <1>1 DEF Record, inHelper, helper, TypeOK, HandlersOwn, HandlerStates
<1>3. /\ op' \in [Operations -> [kind : {"none"} \cup Lifecycle \cup Checking, status : Statuses]]
      /\ op'[o].status = status
      /\ \A x \in Operations : op'[x].kind = op[x].kind /\ (x # o => op'[x] = op[x])
  BY <1>2 DEF TypeOK
<1>4. /\ api' \in [Handlers -> HandlerStates] /\ api'[h] = Idle
      /\ \A x \in Handlers : x # h => api'[x] = api[x]
  BY <1>2 DEF TypeOK, Idle, HandlerStates, Releases, Answers, Statuses
<1>5. /\ status # "none"
      /\ status \in {"succeeded", "pending"} => receipt[o] = "succeeded"
      /\ status = "failed" /\ op[o].kind \in Lifecycle => Dead(o)
  BY <1>1, <1>2 DEF HandlersTruthful, Truthful
<1>6. TypeOK'
  BY <1>2, <1>3, <1>4 DEF TypeOK
<1>7. HandlersOwn'
  BY <1>2, <1>3, <1>4 DEF HandlersOwn, Idle, Replacing
<1>8. \A x : Unheard(x)' = Unheard(x)
  BY <1>2 DEF Unheard, Lost
<1>9. FreshIsUnused' /\ SentOnce'
  BY <1>2, <1>3, <1>4, <1>5, <1>8 DEF FreshIsUnused, SentOnce, Idle
<1>10. \A x : Dead(x) => Dead(x)'
  BY <1>2, <1>4 DEF Dead, Lost, Idle
<1>11. HandlersTruthful'
  <2> SUFFICES ASSUME NEW x \in Handlers PROVE Truthful(api[x])'
    BY DEF HandlersTruthful
  <2>1. CASE x = h \/ ~Serves(x)
    BY <2>1, <1>4 DEF Truthful, HandlersOwn, Idle
  <2>2. CASE x # h /\ Serves(x)
    <3>1. api'[x] = api[x] /\ api[x].o \in Operations /\ Truthful(api[x])
      BY <2>2, <1>4 DEF HandlersOwn, HandlersTruthful
    <3> QED BY <3>1, <1>2, <1>3, <1>10 DEF Truthful
  <2> QED BY <2>1, <2>2
<1>12. RowsTruthful'
  BY <1>2, <1>3, <1>5, <1>10 DEF RowsTruthful
<1>13. NothingInvented' /\ GenerationHasOrigin'
  BY <1>2, <1>3 DEF NothingInvented, GenerationHasOrigin
<1>14. InOrder'
  <2> SUFFICES ASSUME ~overtaken PROVE InOrder'
    BY <1>2 DEF InOrder
  <2>1. ASSUME NEW x \in Handlers PROVE Ordered(api[x])'
    <3>1. CASE x = h \/ ~Serves(x)
      BY <3>1, <1>4 DEF Ordered, HandlersOwn, Idle, Replacing
    <3>2. CASE x # h /\ Serves(x)
      <4>1. api'[x] = api[x] /\ api[x].o \in Operations /\ Ordered(api[x])
        BY <3>2, <1>4 DEF HandlersOwn, InOrder
      <4> QED BY <4>1, <1>2, <1>3 DEF Ordered
    <3> QED BY <3>1, <3>2
  <2>2. status = "succeeded" /\ op[o].kind \in Lifecycle => row.gen >= result[o].gen
    BY <1>1, <1>2 DEF InOrder, Ordered
  <2> QED BY <2>1, <2>2, <1>2, <1>3 DEF InOrder
<1>15. RequestsCurrent'
  <2>1. ASSUME NEW x \in Operations, NEW g, NEW e, Current(x, g, e) PROVE Current(x, g, e)'
    BY <2>1, <1>2, <1>3 DEF Current
  <2>2. ASSUME NEW x \in Handlers, api'[x].pc = "send"
        PROVE  /\ api'[x].gen <= active.gen + 1
               /\ overtaken \/ Current(api[x].o, api[x].gen, api[x].release)'
    <3>1. x # h /\ api'[x] = api[x] /\ api[x].o \in Operations
      BY <2>2, <1>4 DEF HandlersOwn, Idle
    <3> QED BY <3>1, <2>1, <2>2 DEF RequestsCurrent
  <2>3. \A q \in inbox : overtaken \/ Current(q.o, q.gen, q.release)'
    BY <2>1 DEF RequestsCurrent, TypeOK
  <2>4. ASSUME NEW x \in Operations, receipt[x] = "executing"
        PROVE  overtaken \/ Current(x, result[x].gen, result[x].release)'
    BY <2>1, <2>4, <1>2 DEF RequestsCurrent
  <2> QED BY <2>2, <2>3, <2>4, <1>2 DEF RequestsCurrent
<1>16. ReleaseKept'
  BY <1>2, <1>4 DEF ReleaseKept, Carried, Idle, Keeping
<1> QED BY <1>6, <1>7, <1>9, <1>11, <1>12, <1>13, <1>14, <1>15, <1>16

\* The API dies; only the databases and the messages remain.
LEMMA CrashStep ==
    ASSUME IndInv, Crash
    PROVE  IndInv'
<1> USE DEF IndInv, Serves, Polls
<1>1. /\ api' = [h \in Handlers |-> Idle] /\ Counted
      /\ UNCHANGED <<row, op, inbox, receipt, result, active, unsure, overtaken>>
  BY FaultCounted DEF Crash, inHelper, helper, control
<1>2. Idle \in HandlerStates
  BY DEF Idle, HandlerStates, Releases, Answers, Statuses
<1>3. TypeOK'
  BY <1>1, <1>2 DEF TypeOK, Counted
<1>4. HandlersOwn' /\ FreshIsUnused' /\ SentOnce'
  BY <1>1 DEF HandlersOwn, FreshIsUnused, SentOnce, Unheard, Lost, Idle, Replacing
<1>5. \A x : Dead(x) => Dead(x)'
  BY <1>1 DEF Dead, Lost, Idle
<1>6. HandlersTruthful' /\ RowsTruthful'
  BY <1>1, <1>5 DEF HandlersTruthful, Truthful, RowsTruthful, Idle
<1>7. NothingInvented' /\ GenerationHasOrigin' /\ InOrder'
  BY <1>1 DEF NothingInvented, GenerationHasOrigin, InOrder, Ordered, Idle, Replacing
<1>8. RequestsCurrent' /\ ReleaseKept'
  BY <1>1 DEF RequestsCurrent, Current, ReleaseKept, Carried, Keeping, Idle
<1> QED BY <1>3, <1>4, <1>6, <1>7, <1>8

-----------------------------------------------------------------------------
(* The theorems.                                                           *)

\* Both initial hosts satisfy the inductive invariant.
LEMMA InitInv == Init => IndInv
<1> SUFFICES ASSUME Init PROVE IndInv
  OBVIOUS
<1> USE DEF Init, Serves, Polls
<1>1. Idle \in HandlerStates /\ NoResult \in Results
  BY DEF Idle, HandlerStates, NoResult, Results, States, Releases, Answers, Statuses
<1>2. row \in Rows /\ active \in Results
  <2>1. ASSUME NEW b \in BOOLEAN, NEW c \in BOOLEAN, NEW g \in Nat, NEW s \in States
        PROVE  [exists |-> b, composite |-> c, gen |-> g, release |-> 1, desired |-> s,
                runtime |-> s] \in Rows
    BY DEF Rows, Releases
  <2>2. [gen |-> 1, release |-> 1, state |-> "running", projects |-> TRUE] \in Results
    BY DEF Results, States, Releases
  <2>3. "none" \in States /\ "running" \in States
    BY DEF States
  <2> QED BY <1>1, <2>1, <2>2, <2>3
<1>3. TypeOK
  BY <1>1, <1>2 DEF TypeOK, Rows, Statuses
<1>4. HandlersOwn /\ FreshIsUnused /\ SentOnce
  BY DEF HandlersOwn, FreshIsUnused, SentOnce, Unheard, Lost, Idle, Replacing
<1>5. HandlersTruthful /\ RowsTruthful /\ InOrder
  BY DEF HandlersTruthful, Truthful, RowsTruthful, InOrder, Ordered, Idle, Replacing
<1>6. NothingInvented /\ GenerationHasOrigin
  BY DEF NothingInvented, GenerationHasOrigin, NoResult
<1>7. RequestsCurrent /\ ReleaseKept
  BY DEF RequestsCurrent, ReleaseKept, Carried, NoResult, Idle, Keeping
<1> QED BY <1>3, <1>4, <1>5, <1>6, <1>7 DEF IndInv

\* Every step of a handler, of the helper, and every fault keeps the inductive
\* invariant.
LEMMA NextStep ==
    ASSUME IndInv, [Next]_vars
    PROVE  IndInv'
<1>1. ASSUME NEW h \in Handlers, Serve(h) PROVE IndInv'
  BY <1>1, RequestStep, InstallUnsavedStep, PollStep, UnreachedStep, SendStep, WriteFailsStep,
     TakeStep, LookupStep, ProjectsStep, UnprojectedStep, FailsStep, ContinuesStep, GivesUpStep,
     RecordStep DEF Serve
<1>2. CASE HelperBegins \/ HelperRejects
  BY <1>2, HelperReadsStep
<1>3. CASE Crash
  BY <1>3, CrashStep
<1>4. ASSUME NEW o \in Operations,
             HelperSucceeds(o) \/ HelperFails(o) \/ HelperCannotRecord(o) \/ HelperResolves(o)
      PROVE  IndInv'
  BY <1>4, HelperCommitsStep, HelperGivesUpStep
<1>5. CASE UNCHANGED vars
  BY <1>5 DEF vars, control, helper, IndInv, TypeOK, HandlersOwn, FreshIsUnused, SentOnce,
              HandlersTruthful, RowsTruthful, NothingInvented, RequestsCurrent, Current, ReleaseKept,
              Carried, InOrder, GenerationHasOrigin, Serves, Polls, Unheard, Lost, Truthful, Dead,
              Ordered
<1> QED BY <1>1, <1>2, <1>3, <1>4, <1>5 DEF Next

\* The inductive invariant holds in every behaviour.
THEOREM Invariance == Spec => []IndInv
<1>1. IndInv /\ [Next]_vars => IndInv'
  BY NextStep
<1> QED BY InitInv, <1>1, PTL DEF Spec

\* Databases, handlers and messages have their types.
THEOREM TypeCorrect == Spec => []TypeOK
<1>1. IndInv => TypeOK
  BY DEF IndInv
<1> QED BY Invariance, <1>1, PTL

\* The status the API shows is true of the helper, for any number of requests at
\* once and whatever answers are lost, late or overtaken by a crash: succeeded means
\* committed, and a failed lifecycle operation is not on its way, not running and not
\* committed, unless the helper itself could not tell.
THEOREM StatusHolds == Spec => []StatusIsTrue
<1>1. IndInv => StatusIsTrue
  BY DEF IndInv, RowsTruthful, StatusIsTrue, Dead
<1> QED BY Invariance, <1>1, PTL

\* A committed generation that the row does not show is owed by an operation that is
\* not settled: a settled one would have been projected, and not been taken back.
LEMMA OwedByUnsettled == IndInv => CommittedIsOwed
<1> SUFFICES ASSUME IndInv PROVE CommittedIsOwed
  OBVIOUS
<1> USE DEF IndInv
<1>1. CASE row.gen = active.gen \/ overtaken \/ unsure # {}
  BY <1>1 DEF CommittedIsOwed, NothingInvented, ReleaseKept, TypeOK
<1>2. CASE row.gen # active.gen /\ ~overtaken /\ unsure = {}
  <2>1. PICK o \in Operations : op[o].kind \in Lifecycle /\ receipt[o] = "succeeded"
                                /\ result[o].gen = active.gen
    BY <1>2 DEF GenerationHasOrigin
  <2>2. op[o].status # "succeeded"
    BY <1>2, <2>1 DEF InOrder, NothingInvented, TypeOK, Results
  <2>3. op[o].status # "failed"
    BY <1>2, <2>1 DEF RowsTruthful, Dead
  <2>4. op[o].status # "none"
    BY <2>1 DEF FreshIsUnused, Unheard
  <2>5. op[o].status \in {"accepted", "pending"}
    BY <2>2, <2>3, <2>4 DEF TypeOK, Statuses
  <2> QED BY <1>2, <2>1, <2>5 DEF CommittedIsOwed, NothingInvented
<1> QED BY <1>1, <1>2

\* The control row never shows a generation the helper has not committed; a
\* committed one that it shows has the release it was committed with, and one that
\* it does not show yet is owed by an unsettled operation.  A recreation of an
\* application with components keeps the release without writing it, so there the
\* release is right unless a projection was overtaken.
THEOREM OwedHolds == Spec => []CommittedIsOwed
<1>1. IndInv => CommittedIsOwed
  BY OwedByUnsettled
<1> QED BY Invariance, <1>1, PTL

\* Only a projection moves the row, and it moves it back only when overtaken.
LEMMA RowStep ==
    ASSUME IndInv, [Next]_vars
    PROVE  overtaken' \/ row'.gen >= row.gen
<1>1. row.gen \in Nat /\ row \in Rows
  BY DEF IndInv, TypeOK, Rows
<1>2. ASSUME NEW h \in Handlers, Install(h) PROVE row'.gen >= row.gen
  BY <1>2 DEF Install, IndInv, NothingInvented
<1>3. ASSUME NEW h \in Handlers, Projects(h) PROVE overtaken' \/ row'.gen >= row.gen
  BY <1>1, <1>3, ProjectsWrites DEF Rows
<1>4. ASSUME NEW h \in Handlers, Fails(h) PROVE overtaken' \/ row'.gen >= row.gen
  <2>1. overtaken' = overtaken /\ api[h].pc = "project"
    BY <1>4 DEF Fails
  <2>2. api[h].kind = "install" => overtaken \/ row.gen = 0
    BY <2>1 DEF IndInv, InOrder, Ordered
  <2>3. row'.gen = row.gen \/ (row'.gen = 0 /\ api[h].kind = "install")
    BY <1>1, <1>4 DEF Fails, Rows
  <2> QED BY <1>1, <2>1, <2>2, <2>3
<1>5. ASSUME NEW h \in Handlers, Serve(h), ~Install(h), ~Projects(h), ~Fails(h) PROVE row' = row
  BY <1>5 DEF Serve, InstallUnsaved, Replace, Update, NextGeneration, Reconcile, Repair, Recreate,
              Poll, Operate, Refuse, Send, DialFails, WriteFails, LoseAnswer, TakeAnswer,
              TakeRecoveryRequired, Lookup, LookupFails, ProjectionRefused, ProjectionFails,
              Continues, PollLearnsNothing, Record, RecordFails, control
<1>6. CASE ~\E h \in Handlers : Serve(h)
  <2>1. CASE HelperBegins \/ HelperRejects \/ Crash
    <3>1. row' = row
      BY <2>1 DEF HelperBegins, HelperRejects, Crash, control
    <3> QED BY <3>1, <1>1
  <2>2. ASSUME NEW o \in Operations,
               HelperSucceeds(o) \/ HelperFails(o) \/ HelperCannotRecord(o) \/ HelperResolves(o)
        PROVE  row'.gen >= row.gen
    BY <2>2, <1>1 DEF HelperSucceeds, HelperFails, HelperCannotRecord, HelperResolves, control
  <2>3. CASE UNCHANGED vars
    BY <2>3, <1>1 DEF vars, control
  <2> QED BY <2>1, <2>2, <2>3, <1>6 DEF Next
<1> QED BY <1>1, <1>2, <1>3, <1>4, <1>5, <1>6

\* Results projected late, twice or out of order never take the row back to an older
\* generation, unless a projection was overtaken.
THEOREM NeverBack == Spec => GenerationNeverBack
<1>1. IndInv /\ [Next]_vars => [overtaken' \/ row'.gen >= row.gen]_vars
  BY RowStep
<1> QED BY Invariance, <1>1, PTL DEF Spec, GenerationNeverBack
=============================================================================
