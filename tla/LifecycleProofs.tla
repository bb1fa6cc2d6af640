---------------------------- MODULE LifecycleProofs ----------------------------
(***************************************************************************)
(* Proofs about ApplicationLifecycle for any number of workers, requests,  *)
(* attempts and any budget of events: types; a job in BullMQ always has    *)
(* its row in application_jobs (JobHasRow); a row is executed by one call  *)
(* at a time (ExclusiveClaim); the rows are a history (AttemptsAreHistory) *)
(* and review_reason goes with the status (ReviewReasonMatchesStatus);     *)
(* requests, workers and recovery together implement the business          *)
(* workflow: every step of theirs is a step of ApplicationWorkflow or      *)
(* leaves the business state alone.  Then what the code promises under     *)
(* conditions, which are named: a completed send row has its mail, there   *)
(* is one mail, and what a worker works on is watched by the dashboard.    *)
(***************************************************************************)
EXTENDS UiStatus, SequenceTheorems, TLAPS

-----------------------------------------------------------------------------
(* What the writes of ApplicationStore do to the job rows.                 *)

JobsType == [Types -> Seq(RowStatus)]

(***************************************************************************)
(* transitionJobState keeps the number of rows and touches one of them.    *)
(***************************************************************************)
LEMMA CasJobEffect ==
  ASSUME NEW type \in Types, NEW row \in Nat, NEW expected, NEW next \in RowStatus,
         jobs \in JobsType,
         CasJob(type, row, expected, next)
  PROVE  /\ jobs' \in JobsType
         /\ \A t \in Types : Len(jobs'[t]) = Len(jobs[t])
         /\ \A t \in Types : \A i \in 1..Len(jobs[t]) :
              jobs'[t][i] = IF t = type /\ i = row
                              THEN RowAfterCas(jobs[t][i], expected, next)
                              ELSE jobs[t][i]
<1> DEFINE s == jobs[type]
           e == RowAfterCas(s[row], expected, next)
           z == [s EXCEPT ![row] = e]
<1>1. s \in Seq(RowStatus) /\ jobs' = [jobs EXCEPT ![type] = z]
  BY DEF CasJob, JobsType
<1>2. z \in Seq(RowStatus) /\ Len(z) = Len(s)
      /\ \A i \in 1..Len(s) : z[i] = IF i = row THEN e ELSE s[i]
  <2>1. CASE row \in 1..Len(s)
    <3>1. e \in RowStatus
      BY <1>1, <2>1 DEF RowAfterCas
    <3> QED
      BY <1>1, <2>1, <3>1, ExceptSeq
  <2>2. CASE row \notin 1..Len(s)
    <3>1. z = s
      BY <1>1, <2>2, LenProperties
    <3> QED
      BY <1>1, <2>2, <3>1
  <2> QED
    BY <2>1, <2>2
<1> QED
  BY <1>1, <1>2 DEF JobsType

(***************************************************************************)
(* createJob adds one queued row behind the others.                        *)
(***************************************************************************)
LEMMA CreateJobEffect ==
  ASSUME NEW type \in Types, jobs \in JobsType, CreateJob(type)
  PROVE  /\ jobs' \in JobsType
         /\ Len(jobs'[type]) = Len(jobs[type]) + 1
         /\ \A t \in Types \ {type} : Len(jobs'[t]) = Len(jobs[t])
         /\ \A t \in Types : \A i \in 1..Len(jobs[t]) : jobs'[t][i] = jobs[t][i]
<1>1. jobs[type] \in Seq(RowStatus) /\ "queued" \in RowStatus
  BY DEF JobsType, RowStatus
<1>2. Append(jobs[type], "queued") \in Seq(RowStatus)
  BY <1>1
<1> QED
  BY <1>1, <1>2 DEF CreateJob, JobsType

-----------------------------------------------------------------------------
(* Type correctness, one operator at a time.                               *)

BullType == [Types -> Bull]

RunsType == [Types -> [Workers -> Runner]]

ReqsType == [Requests -> Request]

LEMMA SpendType ==
  ASSUME NEW kind \in Kinds, spent \in [Kinds -> Nat], Spend(kind)
  PROVE  spent' \in [Kinds -> Nat]
  BY DEF Spend

LEMMA CasAppType ==
  ASSUME app \in App, NEW expected, NEW next \in AppStatus, NEW review \in BOOLEAN,
         CasApp(expected, next, review)
  PROVE  app' \in App
  BY DEF CasApp, App

LEMMA EnqueueType ==
  ASSUME bull \in BullType, NEW type \in Types, Enqueue(type)
  PROVE  bull' \in BullType
<1>1. NewJob = [state |-> "waiting", made |-> 0, stalls |-> 0, owner |-> NoWorker]
  BY DEF NewJob, NoJob
<1>2. NewJob \in Bull
  BY <1>1 DEF Bull, BullState
<1> QED
  BY <1>2 DEF Enqueue, BullType

LEMMA TakeJobType ==
  ASSUME bull \in BullType, NEW type \in Types, NEW w \in Workers, TakeJob(type, w)
  PROVE  bull' \in BullType
  BY DEF TakeJob, BullType, Bull, BullState

LEMMA AfterFailureType ==
  ASSUME NEW job \in Bull, NEW type, NEW recoverable
  PROVE  AfterFailure(job, type, recoverable) \in Bull
<1> DEFINE next == IF recoverable /\ job.made + 1 < MaxAttempts[type]
                     THEN "waiting" ELSE "failed"
<1>1. next \in BullState
  BY DEF BullState
<1>2. job.made + 1 \in Nat
  BY DEF Bull
<1>3. [job EXCEPT !.state = next, !.made = job.made + 1, !.owner = NoWorker] \in Bull
  <2> HIDE DEF next
  <2> QED
    BY <1>1, <1>2 DEF Bull
<1> QED
  BY <1>3 DEF AfterFailure

LEMMA FinishJobType ==
  ASSUME bull \in BullType, NEW type \in Types, NEW w \in Workers,
         NEW outcome \in Outcome, FinishJob(type, w, outcome)
  PROVE  bull' \in BullType
<1>1. bull[type] \in Bull
  BY DEF BullType
<1>2. AfterCompletion(bull[type], type) \in Bull
  BY <1>1 DEF AfterCompletion, Bull, BullState, NoJob
<1>3. AfterFailure(bull[type], type, outcome = "transient") \in Bull
  BY <1>1, AfterFailureType
<1> QED
  BY <1>1, <1>2, <1>3 DEF FinishJob, BullType

LEMMA StallJobType ==
  ASSUME bull \in BullType, NEW type \in Types, StallJob(type)
  PROVE  bull' \in BullType
<1>1. bull[type] \in Bull
  BY DEF BullType
<1>2. AfterFailure(bull[type], type, FALSE) \in Bull
  BY <1>1, AfterFailureType
<1>3. [bull[type] EXCEPT !.state = "waiting", !.stalls = 1, !.owner = NoWorker] \in Bull
  BY <1>1 DEF Bull, BullState
<1> QED
  BY <1>1, <1>2, <1>3 DEF StallJob, BullType

LEMMA ExpireJobType ==
  ASSUME bull \in BullType, ExpireJob
  PROVE  bull' \in BullType
  BY DEF ExpireJob, BullType, Bull, BullState, NoJob, Types

(***************************************************************************)
(* Every step of a call is a Goto or an EndWith: only pc and outcome move. *)
(***************************************************************************)
PcsAfterClaim == {"work", "enqueue", "mark", "finish", "requeue", "failrow", "failapp"}

LEMMA NewCallType ==
  ASSUME run \in RunsType, NEW type \in Types, NEW w \in Workers, NEW call \in Runner,
         run' = [run EXCEPT ![type][w] = call]
  PROVE  run' \in RunsType
  BY DEF RunsType

LEMMA GotoType ==
  ASSUME run \in RunsType, NEW type \in Types, NEW w \in Workers,
         NEW pc \in PcsAfterClaim, Goto(type, w, pc)
  PROVE  run' \in RunsType
<1> DEFINE call == [run[type][w] EXCEPT !.pc = pc]
<1>1. run[type][w] \in Runner
  BY DEF RunsType
<1>2. call \in Runner
  BY <1>1 DEF Runner, PcsAfterClaim
<1>3. run' = [run EXCEPT ![type][w] = call]
  BY DEF Goto
<1> HIDE DEF call
<1> QED
  BY <1>2, <1>3, NewCallType

LEMMA EndWithType ==
  ASSUME run \in RunsType, NEW type \in Types, NEW w \in Workers,
         NEW outcome \in Outcome, EndWith(type, w, outcome)
  PROVE  run' \in RunsType
<1> DEFINE call == [run[type][w] EXCEPT !.pc = "settle", !.outcome = outcome]
<1>1. run[type][w] \in Runner
  BY DEF RunsType
<1>2. call \in Runner
  BY <1>1 DEF Runner
<1>3. run' = [run EXCEPT ![type][w] = call]
  BY DEF EndWith, RunsType
<1> HIDE DEF call
<1> QED
  BY <1>2, <1>3, NewCallType

LEMMA CatchType ==
  ASSUME run \in RunsType, NEW type \in Types, NEW w \in Workers,
         NEW recoverable \in BOOLEAN, Catch(type, w, recoverable)
  PROVE  run' \in RunsType
<1>1. CASE Goto(type, w, "failrow")
  BY <1>1, GotoType DEF PcsAfterClaim
<1>2. CASE Goto(type, w, "requeue")
  BY <1>2, GotoType DEF PcsAfterClaim
<1>3. CASE EndWith(type, w, "transient")
  BY <1>3, EndWithType DEF Outcome
<1> QED
  BY <1>1, <1>2, <1>3 DEF Catch

LEMMA CallTypes ==
  ASSUME app \in App, jobs \in JobsType, bull \in BullType
  PROVE  /\ Idle \in Runner
         /\ \A type \in Types : Loaded(type) \in Runner
         /\ \A outcome \in Outcome : Rejected(outcome) \in Runner
         /\ SendEntry \in Runner
<1>1. Idle \in Runner
  BY DEF Idle, Runner, AppStatus, Outcome
<1>2. \A type \in Types : Loaded(type) \in Runner
  <2> SUFFICES ASSUME NEW type \in Types PROVE Loaded(type) \in Runner
    OBVIOUS
  <2>1. Len(jobs[type]) \in Nat
    BY DEF JobsType
  <2>2. bull[type].made \in Nat /\ app.status \in AppStatus /\ app.subject \in BOOLEAN
    BY DEF BullType, Bull, App
  <2> QED
    BY <2>1, <2>2 DEF Loaded, LatestRow, Runner, Outcome
<1>3. \A outcome \in Outcome : Rejected(outcome) \in Runner
  BY <1>1 DEF Rejected, Runner
<1> QED
  BY <1>1, <1>2, <1>3 DEF SendEntry, Types, Outcome

-----------------------------------------------------------------------------
(* Every step of the worker replicas keeps the types.                      *)

(* A row is left alone, or completed when it was being processed. *)
KeptOrCompleted(old, new) == new = old \/ (old = "processing" /\ new = "completed")

LEMMA ProcessCommitEffect ==
  ASSUME NEW w \in Workers, NEW next \in {"generated", "needs_review"},
         NEW sendNow \in BOOLEAN,
         app \in App, jobs \in JobsType, run \in RunsType,
         ProcessCommit(w, next, sendNow)
  PROVE  /\ app' \in App
         /\ run' \in RunsType
         /\ jobs' \in JobsType
         /\ \A t \in Types : Len(jobs'[t]) >= Len(jobs[t])
         /\ Len(jobs'["send_email"]) > 0 \/ ~sendNow
         /\ \A t \in Types : \A i \in 1..Len(jobs[t]) :
              KeptOrCompleted(jobs[t][i], jobs'[t][i])
         /\ Len(jobs'["ai_process"]) = Len(jobs["ai_process"])
<1> DEFINE row == run["ai_process"][w].row
           done == [jobs EXCEPT !["ai_process"][row] =
                      RowAfterCas(@, {"processing"}, "completed")]
           sent == [done EXCEPT !["send_email"] = Append(@, "queued")]
<1>1. "ai_process" \in Types /\ "send_email" \in Types /\ "ai_process" # "send_email"
  BY DEF Types
<1>2. row \in Nat
  BY <1>1 DEF RunsType, Runner
<1>3. /\ done \in JobsType
      /\ \A t \in Types : Len(done[t]) = Len(jobs[t])
      /\ \A t \in Types : \A i \in 1..Len(jobs[t]) :
           KeptOrCompleted(jobs[t][i], done[t][i])
  <2> DEFINE s == jobs["ai_process"]
             e == RowAfterCas(s[row], {"processing"}, "completed")
             z == [s EXCEPT ![row] = e]
  <2>1. s \in Seq(RowStatus) /\ done = [jobs EXCEPT !["ai_process"] = z]
    BY <1>1 DEF JobsType
  <2>2. z \in Seq(RowStatus) /\ Len(z) = Len(s)
        /\ \A i \in 1..Len(s) : KeptOrCompleted(s[i], z[i])
    <3>1. CASE row \in 1..Len(s)
      <4>1. e \in RowStatus
        BY <2>1, <3>1 DEF RowAfterCas, RowStatus
      <4>2. KeptOrCompleted(s[row], e)
        BY DEF RowAfterCas, KeptOrCompleted
      <4> QED
        BY <2>1, <3>1, <4>1, <4>2, ExceptSeq DEF KeptOrCompleted
    <3>2. CASE row \notin 1..Len(s)
      <4>1. z = s
        BY <2>1, <3>2, LenProperties
      <4> QED
        BY <2>1, <4>1 DEF KeptOrCompleted
    <3> QED
      BY <3>1, <3>2
  <2> HIDE DEF z, done
  <2> QED
    BY <1>1, <2>1, <2>2 DEF JobsType, KeptOrCompleted
<1>4. /\ sent \in JobsType
      /\ Len(sent["send_email"]) = Len(jobs["send_email"]) + 1
      /\ Len(sent["ai_process"]) = Len(jobs["ai_process"])
      /\ \A t \in Types : \A i \in 1..Len(jobs[t]) : sent[t][i] = done[t][i]
  <2> HIDE DEF done
  <2>1. done["send_email"] \in Seq(RowStatus) /\ "queued" \in RowStatus
    BY <1>1, <1>3 DEF JobsType, RowStatus
  <2>2. Append(done["send_email"], "queued") \in Seq(RowStatus)
    BY <2>1
  <2> QED
    BY <1>1, <1>3, <2>1, <2>2 DEF JobsType
<1>5. (sendNow => jobs' = sent) /\ (~sendNow => jobs' = done)
  BY DEF ProcessCommit
<1>6. app' \in App
  BY DEF ProcessCommit, App, AppStatus
<1>7. run' \in RunsType
  BY <1>1, GotoType, EndWithType DEF ProcessCommit, PcsAfterClaim, Outcome
<1>8. \A t \in Types : Len(jobs[t]) \in Nat
  BY DEF JobsType
<1> HIDE DEF done, sent
<1>9. CASE sendNow
  <2>1. jobs' = sent
    BY <1>5, <1>9
  <2>2. \A t \in Types : Len(sent[t]) >= Len(jobs[t])
    BY <1>4, <1>8 DEF Types
  <2>3. Len(sent["send_email"]) > 0 /\ Len(sent["ai_process"]) = Len(jobs["ai_process"])
    BY <1>1, <1>4, <1>8
  <2>4. \A t \in Types : \A i \in 1..Len(jobs[t]) : KeptOrCompleted(jobs[t][i], sent[t][i])
    BY <1>3, <1>4
  <2> QED
    BY <1>4, <1>6, <1>7, <2>1, <2>2, <2>3, <2>4
<1>10. CASE ~sendNow
  <2>1. jobs' = done
    BY <1>5, <1>10
  <2>2. \A t \in Types : Len(done[t]) >= Len(jobs[t])
    BY <1>3, <1>8
  <2> QED
    BY <1>1, <1>3, <1>6, <1>7, <1>10, <2>1, <2>2
<1> QED
  BY <1>9, <1>10

(* The conjuncts of TypeOK, as the steps below establish them. *)
LEMMA TypeOKByParts ==
  TypeOK <=> /\ app \in App /\ jobs \in JobsType /\ spent \in [Kinds -> Nat]
             /\ bull \in BullType /\ run \in RunsType /\ mails \in Nat
             /\ reqs \in ReqsType /\ rec \in Sweep
  BY DEF TypeOK, StoreTypeOK, BullTypeOK, RunTypeOK, ReqTypeOK, RecTypeOK,
         JobsType, BullType, RunsType, ReqsType

LEMMA TypeOKNext ==
  ASSUME app' \in App, jobs' \in JobsType, spent' \in [Kinds -> Nat],
         bull' \in BullType, run' \in RunsType, mails' \in Nat,
         reqs' \in ReqsType, rec' \in Sweep
  PROVE  TypeOK'
  BY DEF TypeOK, StoreTypeOK, BullTypeOK, RunTypeOK, ReqTypeOK, RecTypeOK,
         JobsType, BullType, RunsType, ReqsType

LEMMA WorkersKeepTypes ==
  ASSUME TypeOK, WorkersAct
  PROVE  TypeOK'
<1>1. "ai_process" \in Types /\ "send_email" \in Types
  BY DEF Types
<1>2. Outcome = {"ok", "transient", "permanent"} /\ {"failed", "sent"} \subseteq AppStatus
      /\ {"queued", "processing", "completed", "failed"} \subseteq RowStatus
      /\ {"crash", "stall", "drop", "transient", "permanent", "unclassified",
          "fault", "expire"} \subseteq Kinds
  BY DEF Outcome, AppStatus, RowStatus, Kinds
<1>3. /\ app \in App /\ jobs \in JobsType /\ spent \in [Kinds -> Nat]
      /\ bull \in BullType /\ run \in RunsType /\ mails \in Nat
      /\ reqs \in ReqsType /\ rec \in Sweep
  BY TypeOKByParts
<1>4. /\ app.review \in BOOLEAN
      /\ \A type \in Types, w \in Workers :
           run[type][w].row \in Nat /\ run[type][w].outcome \in Outcome
  BY <1>3 DEF App, RunsType, Runner
<1>5. reqs' = reqs /\ rec' = rec
  BY DEF WorkersAct
<1>6. ASSUME NEW type \in Types, NEW w \in Workers, ClaimWins(type, w) PROVE TypeOK'
  BY <1>1, <1>2, <1>3, <1>4, <1>5, <1>6, TypeOKNext, CasJobEffect, GotoType
     DEF ClaimWins, PcsAfterClaim
<1>7. ASSUME NEW type \in Types, NEW w \in Workers, ClaimLost(type, w) PROVE TypeOK'
  BY <1>1, <1>2, <1>3, <1>4, <1>5, <1>7, TypeOKNext, EndWithType
     DEF ClaimLost
<1>8. ASSUME NEW type \in Types, NEW w \in Workers, ClaimThenFault(type, w) PROVE TypeOK'
  BY <1>1, <1>2, <1>3, <1>4, <1>5, <1>8, TypeOKNext,
     CasJobEffect, EndWithType, SpendType
     DEF ClaimThenFault
<1>9. ASSUME NEW type \in Types, NEW w \in Workers, FailRow(type, w) PROVE TypeOK'
  BY <1>1, <1>2, <1>3, <1>4, <1>5, <1>9, TypeOKNext, CasJobEffect, GotoType
     DEF FailRow, PcsAfterClaim
<1>10. ASSUME NEW type \in Types, NEW w \in Workers, FailApp(type, w) PROVE TypeOK'
  BY <1>1, <1>2, <1>3, <1>4, <1>5, <1>10, TypeOKNext, CasAppType, EndWithType
     DEF FailApp
<1>11. ASSUME NEW type \in Types, NEW w \in Workers, Settle(type, w) PROVE TypeOK'
  BY <1>1, <1>2, <1>3, <1>4, <1>5, <1>11, TypeOKNext, FinishJobType, NewCallType, CallTypes
     DEF Settle
<1>12. ASSUME NEW w \in Workers, ProcessLoad(w) PROVE TypeOK'
  BY <1>1, <1>2, <1>3, <1>4, <1>5, <1>12, TypeOKNext, TakeJobType, NewCallType, CallTypes
     DEF ProcessLoad
<1>13. ASSUME NEW w \in Workers, ProcessFails(w) PROVE TypeOK'
  BY <1>1, <1>2, <1>3, <1>4, <1>5, <1>13, TypeOKNext, SpendType, CatchType
     DEF ProcessFails, Fails
<1>14. ASSUME NEW w \in Workers, ProcessConflict(w) PROVE TypeOK'
  BY <1>1, <1>2, <1>3, <1>4, <1>5, <1>14, TypeOKNext, CatchType
     DEF ProcessConflict
<1>15. ASSUME NEW w \in Workers, ProcessEnqueuesSend(w) PROVE TypeOK'
  BY <1>1, <1>2, <1>3, <1>4, <1>5, <1>15, TypeOKNext, EnqueueType, EndWithType
     DEF ProcessEnqueuesSend
<1>16. ASSUME NEW w \in Workers, ProcessEnqueueFault(w) PROVE TypeOK'
  BY <1>1, <1>2, <1>3, <1>4, <1>5, <1>16, TypeOKNext, SpendType, CatchType
     DEF ProcessEnqueueFault
<1>17. ASSUME NEW w \in Workers, SendLoad(w) PROVE TypeOK'
  BY <1>1, <1>2, <1>3, <1>4, <1>5, <1>17, TypeOKNext, TakeJobType, NewCallType, CallTypes
     DEF SendLoad
<1>18. ASSUME NEW w \in Workers, SendRejects(w) PROVE TypeOK'
  BY <1>1, <1>2, <1>3, <1>4, <1>5, <1>18, TypeOKNext, CatchType
     DEF SendRejects
<1>19. ASSUME NEW w \in Workers, SendFails(w) PROVE TypeOK'
  BY <1>1, <1>2, <1>3, <1>4, <1>5, <1>19, TypeOKNext, SpendType, CatchType
     DEF SendFails, Fails
<1>20. ASSUME NEW w \in Workers, Deliver(w) PROVE TypeOK'
  BY <1>1, <1>2, <1>3, <1>4, <1>5, <1>20, TypeOKNext, GotoType
     DEF Deliver, PcsAfterClaim
<1>21. ASSUME NEW w \in Workers, DeliverThenFault(w) PROVE TypeOK'
  <2>1. mails' \in Nat
    BY <1>3, <1>21 DEF DeliverThenFault
  <2>2. spent' \in [Kinds -> Nat] /\ run' \in RunsType
    BY <1>1, <1>2, <1>3, <1>21, SpendType, CatchType DEF DeliverThenFault
  <2> QED
    BY <1>3, <1>5, <1>21, <2>1, <2>2, TypeOKNext DEF DeliverThenFault
<1>22. ASSUME NEW w \in Workers, MarkSent(w) PROVE TypeOK'
  BY <1>1, <1>2, <1>3, <1>4, <1>5, <1>22, TypeOKNext, CasAppType, GotoType, CatchType
     DEF MarkSent, PcsAfterClaim
<1>23. ASSUME NEW w \in Workers, MarkSentFault(w) PROVE TypeOK'
  BY <1>1, <1>2, <1>3, <1>4, <1>5, <1>23, TypeOKNext, CasAppType, SpendType, CatchType
     DEF MarkSentFault
<1>24. ASSUME NEW w \in Workers, FinishSend(w) PROVE TypeOK'
  <2>1. jobs' \in JobsType
    <3>1. run["send_email"][w].row \in Nat /\ "completed" \in RowStatus
      BY <1>1, <1>2, <1>4
    <3>2. CasJob("send_email", run["send_email"][w].row, {"processing"}, "completed")
      BY <1>24 DEF FinishSend
    <3> QED
      BY <1>1, <1>3, <3>1, <3>2, CasJobEffect
  <2>2. run' \in RunsType /\ spent' \in [Kinds -> Nat]
    <3>1. CASE EndWith("send_email", w, "ok") /\ UNCHANGED spent
      BY <1>1, <1>2, <1>3, <3>1, EndWithType
    <3>2. CASE Spend("fault") /\ Catch("send_email", w, TRUE)
      BY <1>1, <1>2, <1>3, <3>2, SpendType, CatchType
    <3> QED
      BY <1>24, <3>1, <3>2 DEF FinishSend
  <2> QED
    BY <1>3, <1>5, <1>24, <2>1, <2>2, TypeOKNext DEF FinishSend
<1>25. ASSUME NEW w \in Workers, Requeue(w) PROVE TypeOK'
  BY <1>1, <1>2, <1>3, <1>4, <1>5, <1>25, TypeOKNext, CasJobEffect, EndWithType
     DEF Requeue
<1>26. ASSUME NEW w \in Workers, ProcessNeedsReview(w) \/ ProcessGenerates(w) PROVE TypeOK'
  <2>1. PICK next \in {"generated", "needs_review"}, sendNow \in BOOLEAN :
          ProcessCommit(w, next, sendNow)
    BY <1>26 DEF ProcessNeedsReview, ProcessGenerates
  <2>2. spent' = spent /\ bull' = bull /\ mails' = mails
    BY <2>1 DEF ProcessCommit
  <2> QED
    BY <1>3, <1>5, <2>1, <2>2, ProcessCommitEffect, TypeOKNext
<1>27. ASSUME NEW w \in Workers, WorkerCrash(w) PROVE TypeOK'
  <2>1. run' \in RunsType
    BY <1>3, <1>27, CallTypes DEF WorkerCrash, RunsType
  <2> QED
    BY <1>2, <1>3, <1>5, <1>27, <2>1, SpendType, TypeOKNext DEF WorkerCrash
<1>28. ASSUME NEW type \in Types, LockExpires(type) PROVE TypeOK'
  BY <1>2, <1>3, <1>5, <1>28, StallJobType, SpendType, TypeOKNext DEF LockExpires
<1>29. ASSUME FinishedJobExpires PROVE TypeOK'
  BY <1>2, <1>3, <1>5, <1>29, ExpireJobType, SpendType, TypeOKNext DEF FinishedJobExpires
<1>30. ASSUME NEW type \in Types, NEW w \in Workers, PersistFault(type, w) PROVE TypeOK'
  BY <1>1, <1>2, <1>3, <1>4, <1>5, <1>30, TypeOKNext, SpendType, GotoType, EndWithType, CasAppType
     DEF PersistFault, PcsAfterClaim
<1>31. ASSUME NEW type \in Types, NEW w \in Workers, CatchFault(type, w) PROVE TypeOK'
  BY <1>1, <1>2, <1>3, <1>5, <1>31, TypeOKNext, SpendType, EndWithType DEF CatchFault
<1>32. ASSUME NEW w \in Workers, ProcessFailsUnclassified(w) PROVE TypeOK'
  BY <1>1, <1>2, <1>3, <1>5, <1>32, TypeOKNext, SpendType, GotoType, EndWithType
     DEF ProcessFailsUnclassified, PcsAfterClaim
<1>33. ASSUME NEW type \in Types, NEW w \in Workers, SharedStep(type, w) PROVE TypeOK'
  BY <1>6, <1>7, <1>9, <1>10, <1>11, <1>33 DEF SharedStep
<1>34. ASSUME NEW w \in Workers, ProcessStep(w) \/ SendStep(w) PROVE TypeOK'
  BY <1>1, <1>12, <1>14, <1>15, <1>17, <1>18, <1>20, <1>22, <1>24, <1>25, <1>26, <1>33, <1>34
     DEF ProcessStep, SendStep
<1>35. ASSUME NEW w \in Workers, WorkerTrouble(w) PROVE TypeOK'
  BY <1>8, <1>13, <1>16, <1>19, <1>21, <1>23, <1>27, <1>30, <1>31, <1>32, <1>35
     DEF WorkerTrouble
<1> QED
  BY <1>28, <1>29, <1>34, <1>35 DEF WorkersAct, WorkerNext

(***************************************************************************)
(* Every step of a request keeps the types.                                *)
(***************************************************************************)
RequestPcs == {"idle", "check", "count", "continue", "reopen", "sendcheck", "create", "enqueue"}

LEMMA RequestMoves ==
  ASSUME reqs \in ReqsType, app \in App, NEW r \in Requests,
         NEW pc \in RequestPcs, NEW type \in Types,
         \/ Proceed(r, pc, type)
         \/ Advance(r, pc)
         \/ Done(r)
  PROVE  reqs' \in ReqsType
<1>1. CASE Proceed(r, pc, type)
  BY <1>1 DEF Proceed, ReqsType, Request, RequestPcs, App
<1>2. CASE Advance(r, pc)
  <2> DEFINE next == [reqs[r] EXCEPT !.pc = pc]
  <2>1. next \in Request
    BY DEF ReqsType, Request, RequestPcs
  <2> QED
    BY <1>2, <2>1 DEF Advance, ReqsType
<1>3. CASE Done(r)
  <2>1. NoRequest \in Request
    BY DEF NoRequest, Request, Types, AppStatus
  <2> QED
    BY <1>3, <2>1 DEF Done, ReqsType
<1> QED
  BY <1>1, <1>2, <1>3

LEMMA RequestsKeepTypes ==
  ASSUME TypeOK, RequestsAct
  PROVE  TypeOK'
<1>1. /\ {"idle", "check", "count", "continue", "reopen", "sendcheck", "create", "enqueue"}
           \subseteq RequestPcs
      /\ {"ai_process", "send_email"} \subseteq Types
      /\ {"generated", "cancelled", "draft"} \subseteq AppStatus
      /\ {"retry", "continue", "send", "cancel", "drop"} \subseteq Kinds
  BY DEF RequestPcs, Types, AppStatus, Kinds
<1>2. /\ app \in App /\ jobs \in JobsType /\ spent \in [Kinds -> Nat]
      /\ bull \in BullType /\ run \in RunsType /\ mails \in Nat
      /\ reqs \in ReqsType /\ rec \in Sweep
  BY TypeOKByParts
<1>3. \A r \in Requests : reqs[r].type \in Types
  BY <1>2 DEF ReqsType, Request
<1>4. run' = run /\ mails' = mails /\ rec' = rec
  BY DEF RequestsAct
<1>5. ASSUME NEW r \in Requests, RetryRead(r) PROVE TypeOK'
  <2>1. RetryTarget \in Types
    BY <1>1 DEF RetryTarget
  <2> QED
    BY <1>1, <1>2, <1>4, <1>5, <2>1, TypeOKNext, SpendType, RequestMoves DEF RetryRead
<1>6. ASSUME NEW r \in Requests, RetryCheck(r) PROVE TypeOK'
  BY <1>1, <1>2, <1>4, <1>6, TypeOKNext, RequestMoves DEF RetryCheck
<1>7. ASSUME NEW r \in Requests, RetryReopen(r) PROVE TypeOK'
  <2>1. app' \in App
    BY <1>1, <1>2, <1>7, CasAppType DEF RetryReopen
  <2>2. reqs' \in ReqsType
    BY <1>1, <1>2, <1>7, RequestMoves DEF RetryReopen
  <2> QED
    BY <1>2, <1>4, <1>7, <2>1, <2>2, TypeOKNext DEF RetryReopen
<1>17. ASSUME NEW r \in Requests, RetryCount(r) PROVE TypeOK'
  <2>1. app' \in App
    BY <1>2, <1>17 DEF RetryCount, App
  <2>2. reqs' \in ReqsType
    BY <1>1, <1>2, <1>17, RequestMoves DEF RetryCount
  <2> QED
    BY <1>2, <1>4, <1>17, <2>1, <2>2, TypeOKNext DEF RetryCount
<1>8. ASSUME NEW r \in Requests, CreateRow(r) PROVE TypeOK'
  BY <1>1, <1>2, <1>3, <1>4, <1>8, TypeOKNext, CreateJobEffect, RequestMoves DEF CreateRow
<1>9. ASSUME NEW r \in Requests, EnqueueRow(r) PROVE TypeOK'
  BY <1>1, <1>2, <1>3, <1>4, <1>9, TypeOKNext, EnqueueType, RequestMoves DEF EnqueueRow
<1>10. ASSUME NEW r \in Requests, ContinueCheck(r) PROVE TypeOK'
  BY <1>1, <1>2, <1>4, <1>10, TypeOKNext, SpendType, RequestMoves DEF ContinueCheck
<1>11. ASSUME NEW r \in Requests, ContinueCommit(r) PROVE TypeOK'
  BY <1>1, <1>2, <1>4, <1>11, TypeOKNext, CasAppType, CreateJobEffect, RequestMoves
     DEF ContinueCommit
<1>12. ASSUME NEW r \in Requests, ContinueConflict(r) PROVE TypeOK'
  BY <1>1, <1>2, <1>4, <1>12, TypeOKNext, RequestMoves DEF ContinueConflict
<1>13. ASSUME NEW r \in Requests, SendRead(r) PROVE TypeOK'
  BY <1>1, <1>2, <1>4, <1>13, TypeOKNext, SpendType, RequestMoves DEF SendRead
<1>14. ASSUME NEW r \in Requests, SendCheck(r) PROVE TypeOK'
  BY <1>1, <1>2, <1>4, <1>14, TypeOKNext, RequestMoves DEF SendCheck
<1>15. ASSUME NEW r \in Requests, RequestDies(r) PROVE TypeOK'
  BY <1>1, <1>2, <1>4, <1>15, TypeOKNext, SpendType, RequestMoves DEF RequestDies
<1>16. ASSUME Cancel PROVE TypeOK'
  BY <1>1, <1>2, <1>4, <1>16, TypeOKNext, SpendType, CasAppType DEF Cancel
<1> QED
  BY <1>5, <1>6, <1>7, <1>8, <1>9, <1>10, <1>11, <1>12, <1>13, <1>14, <1>15, <1>16, <1>17
     DEF RequestsAct, CommandNext, RequestStep

(***************************************************************************)
(* Every step of a recovery sweep keeps the types.                         *)
(***************************************************************************)
SweepPcs == {"idle", "inspect", "sync", "enqueue", "failrow", "failapp", "reset", "create"}

LEMMA SweepMoves ==
  ASSUME rec \in Sweep, NEW pc \in SweepPcs, RecGoto(pc) \/ RecDone
  PROVE  rec' \in Sweep
<1>1. CASE RecGoto(pc)
  BY <1>1 DEF RecGoto, Sweep, SweepPcs
<1>2. CASE RecDone
  BY <1>2 DEF RecDone, NoSweep, Sweep, Types, RowStatus
<1> QED
  BY <1>1, <1>2

LEMMA VerdictType == Verdict \in SweepPcs
  BY DEF Verdict, QueuedVerdict, ProcessingVerdict, SweepPcs

LEMMA RecoveryKeepsTypes ==
  ASSUME TypeOK, RecoveryActs
  PROVE  TypeOK'
<1>1. /\ {"idle", "failapp", "create", "enqueue"} \subseteq SweepPcs
      /\ "failed" \in AppStatus
      /\ {"completed", "failed", "retrying"} \subseteq RowStatus
      /\ "abort" \in Kinds
  BY DEF SweepPcs, AppStatus, RowStatus, Kinds
<1>2. /\ app \in App /\ jobs \in JobsType /\ spent \in [Kinds -> Nat]
      /\ bull \in BullType /\ run \in RunsType /\ mails \in Nat
      /\ reqs \in ReqsType /\ rec \in Sweep
  BY TypeOKByParts
<1>3. rec.type \in Types /\ rec.row \in Nat /\ app.review \in BOOLEAN
  BY <1>2 DEF Sweep, App
<1>4. run' = run /\ mails' = mails /\ reqs' = reqs
  BY DEF RecoveryActs
<1>5. ASSUME NEW type \in Types, RecPick(type) PROVE TypeOK'
  <2>1. LatestRow(type) \in Nat
    BY <1>2 DEF LatestRow, JobsType
  <2>2. jobs[type][LatestRow(type)] \in RowStatus
    BY <1>5 DEF RecPick, RowStatus
  <2>3. rec' \in Sweep
    BY <1>5, <2>1, <2>2 DEF RecPick, Sweep
  <2> QED
    BY <1>2, <1>4, <1>5, <2>3, TypeOKNext DEF RecPick
<1>6. ASSUME RecInspect PROVE TypeOK'
  BY <1>1, <1>2, <1>4, <1>6, TypeOKNext, SweepMoves, VerdictType DEF RecInspect
<1>7. ASSUME RecSync PROVE TypeOK'
  BY <1>1, <1>2, <1>3, <1>4, <1>7, TypeOKNext, SweepMoves, CasJobEffect DEF RecSync
<1>8. ASSUME RecEnqueue PROVE TypeOK'
  BY <1>1, <1>2, <1>3, <1>4, <1>8, TypeOKNext, SweepMoves, EnqueueType DEF RecEnqueue
<1>9. ASSUME RecFailRow PROVE TypeOK'
  BY <1>1, <1>2, <1>3, <1>4, <1>9, TypeOKNext, SweepMoves, CasJobEffect DEF RecFailRow
<1>10. ASSUME RecFailApp PROVE TypeOK'
  BY <1>1, <1>2, <1>3, <1>4, <1>10, TypeOKNext, SweepMoves, CasAppType DEF RecFailApp
<1>11. ASSUME RecReset PROVE TypeOK'
  BY <1>1, <1>2, <1>3, <1>4, <1>11, TypeOKNext, SweepMoves, CasJobEffect DEF RecReset
<1>12. ASSUME RecCreate PROVE TypeOK'
  BY <1>1, <1>2, <1>3, <1>4, <1>12, TypeOKNext, SweepMoves, CreateJobEffect DEF RecCreate
<1>13. ASSUME RecAborts PROVE TypeOK'
  BY <1>1, <1>2, <1>4, <1>13, TypeOKNext, SweepMoves, SpendType DEF RecAborts
<1> QED
  BY <1>5, <1>6, <1>7, <1>8, <1>9, <1>10, <1>11, <1>12, <1>13
     DEF RecoveryActs, RecoveryNext, RecoveryStep

-----------------------------------------------------------------------------

LEMMA InitTypes == Init => TypeOK
<1> SUFFICES ASSUME Init PROVE TypeOK
  OBVIOUS
<1>1. app \in App
  <2>1. PICK s \in BOOLEAN :
          app = [status |-> "draft", review |-> FALSE, subject |-> s, retries |-> 0]
    BY DEF Init
  <2> QED
    BY <2>1 DEF App, AppStatus
<1>2. jobs \in JobsType
  <2>1. <<"queued">> \in Seq(RowStatus) /\ <<>> \in Seq(RowStatus)
    BY DEF RowStatus
  <2> QED
    BY <2>1 DEF Init, JobsType
<1>3. spent \in [Kinds -> Nat] /\ mails \in Nat
  BY DEF Init
<1>4. bull \in BullType
  BY DEF Init, BullType, Bull, NoJob, BullState
<1>5. run \in RunsType
  BY DEF Init, RunsType, Idle, Runner, AppStatus, Outcome
<1>6. reqs \in ReqsType
  <2>1. NoRequest \in Request /\ [NoRequest EXCEPT !.pc = "enqueue"] \in Request
    BY DEF NoRequest, Request, Types, AppStatus
  <2> QED
    BY <2>1 DEF Init, ReqsType
<1>7. rec \in Sweep
  BY DEF Init, NoSweep, Sweep, Types, RowStatus
<1> QED
  BY <1>1, <1>2, <1>3, <1>4, <1>5, <1>6, <1>7, TypeOKByParts

(***************************************************************************)
(* Rows, jobs, calls, requests and the sweep keep their types whatever the *)
(* number of workers and requests and however often things fail.           *)
(***************************************************************************)
THEOREM TypeCorrect == Spec => []TypeOK
<1>1. TypeOK /\ [Next]_vars => TypeOK'
  <2> SUFFICES ASSUME TypeOK, [Next]_vars PROVE TypeOK'
    OBVIOUS
  <2>1. CASE UNCHANGED vars
    BY <2>1, TypeOKByParts, TypeOKNext DEF vars
  <2> QED
    BY <2>1, WorkersKeepTypes, RequestsKeepTypes, RecoveryKeepsTypes DEF Next
<1> QED
  BY <1>1, InitTypes, PTL DEF Spec

-----------------------------------------------------------------------------
(* What a step does to the job rows.                                       *)

RowsGrow == \A t \in Types : Len(jobs'[t]) >= Len(jobs[t])

(* No row that exists is put back to queued, and no row disappears. *)
NoRowQueued ==
  /\ RowsGrow
  /\ \A t \in Types : \A i \in 1..Len(jobs[t]) :
       jobs'[t][i] = "queued" => jobs[t][i] = "queued"

LEMMA RowsUnchanged ==
  ASSUME jobs \in JobsType, jobs' = jobs
  PROVE  NoRowQueued
<1>1. \A t \in Types : Len(jobs[t]) \in Nat
  BY DEF JobsType
<1> QED
  BY <1>1 DEF NoRowQueued, RowsGrow

LEMMA CasQueuesNoRow ==
  ASSUME NEW type \in Types, NEW row \in Nat, NEW expected,
         NEW next \in RowStatus \ {"queued"},
         jobs \in JobsType, CasJob(type, row, expected, next)
  PROVE  NoRowQueued
<1>1. \A t \in Types : Len(jobs[t]) \in Nat
  BY DEF JobsType
<1>2. /\ \A t \in Types : Len(jobs'[t]) = Len(jobs[t])
      /\ \A t \in Types : \A i \in 1..Len(jobs[t]) :
           jobs'[t][i] = IF t = type /\ i = row
                           THEN RowAfterCas(jobs[t][i], expected, next)
                           ELSE jobs[t][i]
  BY CasJobEffect
<1> QED
  BY <1>1, <1>2 DEF NoRowQueued, RowsGrow, RowAfterCas

LEMMA CreateQueuesNoOldRow ==
  ASSUME NEW type \in Types, jobs \in JobsType, CreateJob(type)
  PROVE  NoRowQueued /\ Len(jobs'[type]) > 0
<1>1. \A t \in Types : Len(jobs[t]) \in Nat
  BY DEF JobsType
<1>2. /\ Len(jobs'[type]) = Len(jobs[type]) + 1
      /\ \A t \in Types \ {type} : Len(jobs'[t]) = Len(jobs[t])
      /\ \A t \in Types : \A i \in 1..Len(jobs[t]) : jobs'[t][i] = jobs[t][i]
  BY CreateJobEffect
<1>3. \A t \in Types : Len(jobs'[t]) >= Len(jobs[t])
  BY <1>1, <1>2
<1>4. Len(jobs'[type]) > 0
  BY <1>1, <1>2
<1> QED
  BY <1>2, <1>3, <1>4 DEF NoRowQueued, RowsGrow

LEMMA ProcessCommitQueuesNoOldRow ==
  ASSUME NEW w \in Workers, TypeOK, ProcessNeedsReview(w) \/ ProcessGenerates(w)
  PROVE  NoRowQueued
<1>1. PICK next \in {"generated", "needs_review"}, sendNow \in BOOLEAN :
        ProcessCommit(w, next, sendNow)
  BY DEF ProcessNeedsReview, ProcessGenerates
<1>2. /\ \A t \in Types : Len(jobs'[t]) >= Len(jobs[t])
      /\ \A t \in Types : \A i \in 1..Len(jobs[t]) :
           KeptOrCompleted(jobs[t][i], jobs'[t][i])
  BY <1>1, TypeOKByParts, ProcessCommitEffect
<1> QED
  BY <1>2 DEF NoRowQueued, RowsGrow, KeptOrCompleted

(***************************************************************************)
(* Recovery and the requests write no "queued" over an existing row.       *)
(***************************************************************************)
LEMMA RequestsQueueNoOldRow ==
  ASSUME TypeOK, RequestsAct
  PROVE  NoRowQueued
<1>1. jobs \in JobsType /\ "send_email" \in Types
      /\ \A r \in Requests : reqs[r].type \in Types
  BY TypeOKByParts DEF ReqsType, Request, Types
<1>2. ASSUME NEW r \in Requests, CreateRow(r) PROVE NoRowQueued
  BY <1>1, <1>2, CreateQueuesNoOldRow DEF CreateRow
<1>3. ASSUME NEW r \in Requests, ContinueCommit(r) PROVE NoRowQueued
  BY <1>1, <1>3, CreateQueuesNoOldRow DEF ContinueCommit
<1>4. ASSUME jobs' = jobs PROVE NoRowQueued
  BY <1>1, <1>4, RowsUnchanged
<1> QED
  BY <1>2, <1>3, <1>4
     DEF RequestsAct, CommandNext, RequestStep, RetryRead, RetryCheck, RetryCount, RetryReopen,
         EnqueueRow, ContinueCheck, ContinueConflict, SendRead, SendCheck, RequestDies,
         Cancel

LEMMA RecoveryQueuesNoOldRow ==
  ASSUME TypeOK, RecoveryActs
  PROVE  NoRowQueued
<1>1. jobs \in JobsType /\ rec.type \in Types /\ rec.row \in Nat
      /\ {"completed", "failed", "retrying"} \subseteq RowStatus \ {"queued"}
  BY TypeOKByParts DEF Sweep, RowStatus
<1>2. CASE RecSync
  BY <1>1, <1>2, CasQueuesNoRow DEF RecSync
<1>3. CASE RecFailRow
  BY <1>1, <1>3, CasQueuesNoRow DEF RecFailRow
<1>4. CASE RecReset
  BY <1>1, <1>4, CasQueuesNoRow DEF RecReset
<1>5. CASE RecCreate
  BY <1>1, <1>5, CreateQueuesNoOldRow DEF RecCreate
<1>6. CASE jobs' = jobs
  BY <1>1, <1>6, RowsUnchanged
<1> QED
  BY <1>2, <1>3, <1>4, <1>5, <1>6
     DEF RecoveryActs, RecoveryNext, RecoveryStep, RecPick, RecInspect, RecEnqueue,
         RecFailApp, RecAborts

(***************************************************************************)
(* The workers do so in one place, the requeue of a failed send.           *)
(***************************************************************************)
LEMMA WorkersQueueNoOldRow ==
  ASSUME TypeOK, WorkersAct, \A w \in Workers : ~Requeue(w)
  PROVE  NoRowQueued
<1>1. /\ jobs \in JobsType
      /\ "send_email" \in Types /\ "ai_process" \in Types
      /\ {"processing", "completed", "failed"} \subseteq RowStatus \ {"queued"}
      /\ \A type \in Types, w \in Workers : run[type][w].row \in Nat
  BY TypeOKByParts DEF RunsType, Runner, RowStatus, Types
<1>2. ASSUME NEW type \in Types, NEW w \in Workers,
             ClaimWins(type, w) \/ ClaimThenFault(type, w)
      PROVE  NoRowQueued
  <2>1. CasJob(type, run[type][w].row, {"queued"}, "processing")
    BY <1>2 DEF ClaimWins, ClaimThenFault
  <2> QED
    BY <1>1, <2>1, CasQueuesNoRow
<1>3. ASSUME NEW type \in Types, NEW w \in Workers, FailRow(type, w) PROVE NoRowQueued
  <2>1. CasJob(type, run[type][w].row, ActiveRow, "failed")
    BY <1>3 DEF FailRow
  <2> QED
    BY <1>1, <2>1, CasQueuesNoRow
<1>4. ASSUME NEW w \in Workers, FinishSend(w) PROVE NoRowQueued
  <2>1. CasJob("send_email", run["send_email"][w].row, {"processing"}, "completed")
    BY <1>4 DEF FinishSend
  <2> QED
    BY <1>1, <2>1, CasQueuesNoRow
<1>5. ASSUME NEW w \in Workers, ProcessNeedsReview(w) \/ ProcessGenerates(w)
      PROVE  NoRowQueued
  BY <1>5, ProcessCommitQueuesNoOldRow
<1>6. ASSUME jobs' = jobs PROVE NoRowQueued
  BY <1>1, <1>6, RowsUnchanged
<1>7. ASSUME NEW type \in Types, NEW w \in Workers, SharedStep(type, w) PROVE NoRowQueued
  BY <1>2, <1>3, <1>6, <1>7 DEF SharedStep, ClaimLost, FailApp, Settle
<1>8. ASSUME NEW w \in Workers, ProcessStep(w) PROVE NoRowQueued
  BY <1>1, <1>5, <1>6, <1>7, <1>8
     DEF ProcessStep, ProcessLoad, ProcessConflict, ProcessEnqueuesSend
<1>9. ASSUME NEW w \in Workers, SendStep(w) PROVE NoRowQueued
  BY <1>1, <1>4, <1>6, <1>7, <1>9
     DEF SendStep, SendLoad, SendRejects, Deliver, MarkSent
<1>10. ASSUME NEW w \in Workers, WorkerTrouble(w) PROVE NoRowQueued
  BY <1>2, <1>6, <1>10
     DEF WorkerTrouble, PersistFault, CatchFault, ProcessFails, ProcessFailsUnclassified,
         ProcessEnqueueFault, SendFails, DeliverThenFault, MarkSentFault, WorkerCrash
<1>11. ASSUME (\E type \in Types : LockExpires(type)) \/ FinishedJobExpires
       PROVE  NoRowQueued
  BY <1>6, <1>11 DEF LockExpires, FinishedJobExpires
<1> QED
  BY <1>8, <1>9, <1>10, <1>11 DEF WorkersAct, WorkerNext

(* Rows are only ever added. *)
LEMMA RowsOnlyGrow ==
  ASSUME TypeOK, Next
  PROVE  RowsGrow
<1>1. ASSUME NEW w \in Workers, Requeue(w) PROVE RowsGrow
  <2>1. /\ jobs \in JobsType /\ "send_email" \in Types /\ "queued" \in RowStatus
        /\ run["send_email"][w].row \in Nat
    BY TypeOKByParts DEF RunsType, Runner, RowStatus, Types
  <2>2. \A t \in Types : Len(jobs'[t]) = Len(jobs[t])
    BY <1>1, <2>1, CasJobEffect DEF Requeue
  <2> QED
    BY <2>1, <2>2 DEF RowsGrow, JobsType
<1> QED
  BY <1>1, RequestsQueueNoOldRow, RecoveryQueuesNoOldRow, WorkersQueueNoOldRow
     DEF Next, NoRowQueued

-----------------------------------------------------------------------------
(* What a step does to the calls of the workers.                           *)

OthersKeepTheirCall(type, w) ==
  \A t \in Types, v \in Workers : t # type \/ v # w => run'[t][v] = run[t][v]

LEMMA NewCallEffect ==
  ASSUME run \in RunsType, NEW type \in Types, NEW w \in Workers, NEW call,
         run' = [run EXCEPT ![type][w] = call]
  PROVE  run'[type][w] = call /\ OthersKeepTheirCall(type, w)
  BY DEF RunsType, OthersKeepTheirCall

LEMMA GotoEffect ==
  ASSUME run \in RunsType, NEW type \in Types, NEW w \in Workers, NEW pc,
         Goto(type, w, pc)
  PROVE  /\ run'[type][w].pc = pc
         /\ run'[type][w].row = run[type][w].row
         /\ OthersKeepTheirCall(type, w)
<1> DEFINE call == [run[type][w] EXCEPT !.pc = pc]
<1>1. run[type][w] \in Runner
  BY DEF RunsType
<1>2. call.pc = pc /\ call.row = run[type][w].row
  BY <1>1 DEF Runner
<1>3. run' = [run EXCEPT ![type][w] = call]
  BY DEF Goto
<1> HIDE DEF call
<1>4. run'[type][w] = call /\ OthersKeepTheirCall(type, w)
  BY <1>3, NewCallEffect
<1> QED
  BY <1>2, <1>4

LEMMA EndWithEffect ==
  ASSUME run \in RunsType, NEW type \in Types, NEW w \in Workers, NEW outcome,
         EndWith(type, w, outcome)
  PROVE  run'[type][w].pc = "settle" /\ OthersKeepTheirCall(type, w)
<1> DEFINE call == [run[type][w] EXCEPT !.pc = "settle", !.outcome = outcome]
<1>1. run[type][w] \in Runner
  BY DEF RunsType
<1>2. call.pc = "settle"
  BY <1>1 DEF Runner
<1>3. run' = [run EXCEPT ![type][w] = call]
  BY DEF EndWith, RunsType
<1> HIDE DEF call
<1>4. run'[type][w] = call /\ OthersKeepTheirCall(type, w)
  BY <1>3, NewCallEffect
<1> QED
  BY <1>2, <1>4

LEMMA CatchEffect ==
  ASSUME run \in RunsType, NEW type \in Types, NEW w \in Workers, NEW recoverable \in BOOLEAN,
         Catch(type, w, recoverable)
  PROVE  /\ OthersKeepTheirCall(type, w)
         /\ \/ run'[type][w].pc = "settle"
            \/ /\ run'[type][w].pc \in {"failrow", "requeue"}
               /\ run'[type][w].row = run[type][w].row
<1>1. CASE Goto(type, w, "failrow")
  BY <1>1, GotoEffect
<1>2. CASE Goto(type, w, "requeue")
  BY <1>2, GotoEffect
<1>3. CASE EndWith(type, w, "transient")
  BY <1>3, EndWithEffect
<1> QED
  BY <1>1, <1>2, <1>3 DEF Catch

(***************************************************************************)
(* No call gets to its claim or past it, and none changes its row.         *)
(***************************************************************************)
NoNewClaim ==
  \A t \in Types, v \in Workers :
    /\ run'[t][v].pc = "claim" => run'[t][v] = run[t][v]
    /\ Executing(t, v)' => Executing(t, v) /\ run'[t][v].row = run[t][v].row

(* A call that goes on after its claim, or that ends. *)
LEMMA CallGoesOn ==
  ASSUME NEW type \in Types, NEW w \in Workers, OthersKeepTheirCall(type, w),
         \/ run'[type][w].pc \in {"idle", "settle"}
         \/ /\ Executing(type, w)
            /\ run'[type][w].pc # "claim"
            /\ run'[type][w].row = run[type][w].row
  PROVE  NoNewClaim
  BY DEF OthersKeepTheirCall, NoNewClaim, Executing

LEMMA CatchGoesOn ==
  ASSUME run \in RunsType, NEW type \in Types, NEW w \in Workers, NEW recoverable \in BOOLEAN,
         Executing(type, w), Catch(type, w, recoverable)
  PROVE  NoNewClaim
  BY CatchEffect, CallGoesOn

LEMMA EndGoesOn ==
  ASSUME run \in RunsType, NEW type \in Types, NEW w \in Workers, NEW outcome,
         EndWith(type, w, outcome)
  PROVE  NoNewClaim
  BY EndWithEffect, CallGoesOn

LEMMA GotoGoesOn ==
  ASSUME run \in RunsType, NEW type \in Types, NEW w \in Workers,
         NEW pc \in PcsAfterClaim, Executing(type, w), Goto(type, w, pc)
  PROVE  NoNewClaim
  BY GotoEffect, CallGoesOn DEF PcsAfterClaim

(***************************************************************************)
(* Only the first reads of a processor and the won claim are more than     *)
(* that.                                                                   *)
(***************************************************************************)
LEMMA SharedStepClaimsNothing ==
  ASSUME TypeOK, NEW type \in Types, NEW w \in Workers,
         SharedStep(type, w), ~ClaimWins(type, w)
  PROVE  NoNewClaim
<1>1. run \in RunsType
  BY TypeOKByParts
<1>2. CASE ClaimLost(type, w)
  BY <1>1, <1>2, EndGoesOn DEF ClaimLost
<1>3. CASE FailRow(type, w)
  BY <1>1, <1>3, GotoGoesOn DEF FailRow, At, Executing, PcsAfterClaim
<1>4. CASE FailApp(type, w)
  BY <1>1, <1>4, EndGoesOn DEF FailApp
<1>5. CASE Settle(type, w)
  <2>1. run'[type][w] = Idle /\ OthersKeepTheirCall(type, w)
    BY <1>1, <1>5, NewCallEffect DEF Settle
  <2> QED
    BY <2>1, CallGoesOn DEF Idle
<1> QED
  BY <1>2, <1>3, <1>4, <1>5 DEF SharedStep

LEMMA ProcessStepClaimsNothing ==
  ASSUME TypeOK, NEW w \in Workers, ProcessStep(w),
         ~ClaimWins("ai_process", w), ~ProcessLoad(w)
  PROVE  NoNewClaim
<1>1. run \in RunsType /\ "ai_process" \in Types
  BY TypeOKByParts DEF Types
<1>2. CASE SharedStep("ai_process", w)
  BY <1>1, <1>2, SharedStepClaimsNothing
<1>3. CASE ProcessConflict(w)
  BY <1>1, <1>3, CatchGoesOn DEF ProcessConflict, At, Executing
<1>4. CASE ProcessNeedsReview(w) \/ ProcessGenerates(w)
  <2>1. PICK next \in {"generated", "needs_review"}, sendNow \in BOOLEAN :
          ProcessCommit(w, next, sendNow)
    BY <1>4 DEF ProcessNeedsReview, ProcessGenerates
  <2>2. Executing("ai_process", w)
    BY <2>1 DEF ProcessCommit, At, Executing
  <2>3. Goto("ai_process", w, "enqueue") \/ EndWith("ai_process", w, "ok")
    BY <2>1 DEF ProcessCommit
  <2> QED
    BY <1>1, <2>2, <2>3, GotoGoesOn, EndGoesOn DEF PcsAfterClaim
<1>5. CASE ProcessEnqueuesSend(w)
  BY <1>1, <1>5, EndGoesOn DEF ProcessEnqueuesSend
<1> QED
  BY <1>2, <1>3, <1>4, <1>5 DEF ProcessStep

LEMMA SendStepClaimsNothing ==
  ASSUME TypeOK, NEW w \in Workers, SendStep(w),
         ~ClaimWins("send_email", w), ~SendLoad(w)
  PROVE  NoNewClaim
<1>1. run \in RunsType /\ "send_email" \in Types
  BY TypeOKByParts DEF Types
<1>2. CASE SharedStep("send_email", w)
  BY <1>1, <1>2, SharedStepClaimsNothing
<1>3. CASE SendRejects(w)
  BY <1>1, <1>3, CatchGoesOn DEF SendRejects, At, Executing
<1>4. CASE Deliver(w)
  BY <1>1, <1>4, GotoGoesOn DEF Deliver, MaySend, At, Executing, PcsAfterClaim
<1>5. CASE MarkSent(w)
  <2>1. Executing("send_email", w)
    BY <1>5 DEF MarkSent, At, Executing
  <2>2. Goto("send_email", w, "finish") \/ Catch("send_email", w, TRUE)
    BY <1>5 DEF MarkSent
  <2> QED
    BY <1>1, <2>1, <2>2, GotoGoesOn, CatchGoesOn DEF PcsAfterClaim
<1>6. CASE FinishSend(w)
  <2>1. Executing("send_email", w)
    BY <1>6 DEF FinishSend, At, Executing
  <2>2. EndWith("send_email", w, "ok") \/ Catch("send_email", w, TRUE)
    BY <1>6 DEF FinishSend
  <2> QED
    BY <1>1, <2>1, <2>2, EndGoesOn, CatchGoesOn
<1>7. CASE Requeue(w)
  BY <1>1, <1>7, EndGoesOn DEF Requeue
<1> QED
  BY <1>2, <1>3, <1>4, <1>5, <1>6, <1>7 DEF SendStep

LEMMA TroubleClaimsNothing ==
  ASSUME TypeOK, NEW w \in Workers, WorkerTrouble(w)
  PROVE  NoNewClaim
<1>1. run \in RunsType /\ "ai_process" \in Types /\ "send_email" \in Types
  BY TypeOKByParts DEF Types
<1>2. ASSUME NEW type \in Types, ClaimThenFault(type, w) PROVE NoNewClaim
  BY <1>1, <1>2, EndGoesOn DEF ClaimThenFault
<1>3. CASE ProcessFails(w)
  BY <1>1, <1>3, CatchGoesOn DEF ProcessFails, Fails, At, Executing
<1>4. CASE ProcessEnqueueFault(w)
  BY <1>1, <1>4, CatchGoesOn DEF ProcessEnqueueFault, At, Executing
<1>5. CASE SendFails(w)
  BY <1>1, <1>5, CatchGoesOn DEF SendFails, MaySend, Fails, At, Executing
<1>6. CASE DeliverThenFault(w)
  BY <1>1, <1>6, CatchGoesOn DEF DeliverThenFault, MaySend, At, Executing
<1>7. CASE MarkSentFault(w)
  BY <1>1, <1>7, CatchGoesOn DEF MarkSentFault, At, Executing
<1>8. CASE WorkerCrash(w)
  <2>1. \A t \in Types, v \in Workers : run'[t][v] = IF v = w THEN Idle ELSE run[t][v]
    BY <1>1, <1>8 DEF WorkerCrash, RunsType
  <2> QED
    BY <2>1 DEF NoNewClaim, Executing, Idle
<1>9. ASSUME NEW type \in Types, PersistFault(type, w) PROVE NoNewClaim
  <2>1. CASE At(type, w, "failrow") /\ Goto(type, w, "failapp")
    BY <1>1, <2>1, GotoGoesOn DEF At, Executing, PcsAfterClaim
  <2>2. CASE At(type, w, "failapp") /\ EndWith(type, w, "permanent")
    BY <1>1, <2>2, EndGoesOn
  <2>3. CASE EndWith(type, w, "transient")
    BY <1>1, <2>3, EndGoesOn
  <2> QED
    BY <1>9, <2>1, <2>2, <2>3 DEF PersistFault
<1>10. ASSUME NEW type \in Types, CatchFault(type, w) PROVE NoNewClaim
  BY <1>1, <1>10, EndGoesOn DEF CatchFault
<1>11. CASE ProcessFailsUnclassified(w)
  <2>1. CASE EndWith("ai_process", w, "permanent")
    BY <1>1, <2>1, EndGoesOn
  <2>2. CASE At("ai_process", w, "work") /\ Goto("ai_process", w, "failrow")
    BY <1>1, <2>2, GotoGoesOn DEF At, Executing, PcsAfterClaim
  <2> QED
    BY <1>11, <2>1, <2>2 DEF ProcessFailsUnclassified
<1> QED
  BY <1>2, <1>3, <1>4, <1>5, <1>6, <1>7, <1>8, <1>9, <1>10, <1>11 DEF WorkerTrouble

LEMMA CallsUnchanged ==
  ASSUME run' = run
  PROVE  NoNewClaim
  BY DEF NoNewClaim, Executing

-----------------------------------------------------------------------------
(* Database before queue.                                                  *)

(***************************************************************************)
(* A step that puts no job into an empty queue and brings nobody to an     *)
(* enqueue without a row.                                                  *)
(***************************************************************************)
LEMMA JobHasRowKept ==
  ASSUME TypeOK, JobHasRow, RowsGrow,
         \A type \in Types :
           bull'[type].state # "none"
             => bull[type].state # "none" \/ Len(jobs'[type]) > 0,
         \A r \in Requests :
           reqs'[r].pc = "enqueue"
             => \/ reqs'[r] = reqs[r]
                \/ reqs'[r].type \in Types /\ Len(jobs'[reqs'[r].type]) > 0,
         \A w \in Workers :
           run'["ai_process"][w].pc = "enqueue"
             => run["ai_process"][w].pc = "enqueue" \/ Len(jobs'["send_email"]) > 0,
         rec'.pc = "idle" \/ (rec.pc # "idle" /\ rec'.type = rec.type)
           \/ (rec'.type \in Types /\ Len(jobs'[rec'.type]) > 0)
  PROVE  JobHasRow'
<1>1. \A type \in Types : Len(jobs[type]) \in Nat
  BY TypeOKByParts DEF JobsType
<1>2. "send_email" \in Types /\ rec.type \in Types /\ \A r \in Requests : reqs[r].type \in Types
  BY TypeOKByParts DEF Types, Sweep, ReqsType, Request
<1>3. ASSUME NEW type \in Types, Len(jobs[type]) > 0 PROVE Len(jobs'[type]) > 0
  BY <1>1, <1>3, SMT DEF RowsGrow
<1> QED
  BY <1>2, <1>3 DEF JobHasRow, LatestRow, At, RecAt

(* No process worker gets to its enqueue. *)
NoNewEnqueue ==
  \A v \in Workers :
    run'["ai_process"][v].pc = "enqueue" => run["ai_process"][v].pc = "enqueue"

LEMMA CallWithoutEnqueue ==
  ASSUME run \in RunsType, NEW type \in Types, NEW w \in Workers,
         \/ \E pc \in PcsAfterClaim : Goto(type, w, pc) /\ (pc # "enqueue" \/ type # "ai_process")
         \/ \E outcome \in Outcome : EndWith(type, w, outcome)
         \/ \E recoverable \in BOOLEAN : Catch(type, w, recoverable)
         \/ \E call \in Runner : /\ run' = [run EXCEPT ![type][w] = call]
                                 /\ call.pc # "enqueue"
  PROVE  NoNewEnqueue
<1>0. "ai_process" \in Types
  BY DEF Types
<1>1. ASSUME NEW pc \in PcsAfterClaim, Goto(type, w, pc), pc # "enqueue" \/ type # "ai_process"
      PROVE  NoNewEnqueue
  BY <1>0, <1>1, GotoEffect DEF OthersKeepTheirCall, NoNewEnqueue
<1>2. ASSUME NEW outcome \in Outcome, EndWith(type, w, outcome) PROVE NoNewEnqueue
  BY <1>0, <1>2, EndWithEffect DEF OthersKeepTheirCall, NoNewEnqueue
<1>3. ASSUME NEW recoverable \in BOOLEAN, Catch(type, w, recoverable) PROVE NoNewEnqueue
  BY <1>0, <1>3, CatchEffect DEF OthersKeepTheirCall, NoNewEnqueue
<1>4. ASSUME NEW call \in Runner, run' = [run EXCEPT ![type][w] = call], call.pc # "enqueue"
      PROVE  NoNewEnqueue
  BY <1>0, <1>4, NewCallEffect DEF OthersKeepTheirCall, NoNewEnqueue
<1> QED
  BY <1>1, <1>2, <1>3, <1>4

LEMMA NoWorkerGetsToEnqueue ==
  ASSUME TypeOK, WorkersAct,
         \A w \in Workers : ~ProcessNeedsReview(w) /\ ~ProcessGenerates(w)
  PROVE  NoNewEnqueue
<1>1. /\ run \in RunsType /\ "ai_process" \in Types /\ "send_email" \in Types
      /\ "send_email" # "ai_process"
      /\ {"ok", "transient", "permanent"} \subseteq Outcome
      /\ {"work", "mark", "finish", "failrow", "failapp"} \subseteq PcsAfterClaim
  BY TypeOKByParts DEF Types, Outcome, PcsAfterClaim
<1>2. /\ Idle \in Runner /\ \A type \in Types : Loaded(type) \in Runner
      /\ \A outcome \in Outcome : Rejected(outcome) \in Runner /\ SendEntry \in Runner
  BY TypeOKByParts, CallTypes
<1>3. /\ Idle.pc # "enqueue" /\ \A type \in Types : Loaded(type).pc # "enqueue"
      /\ \A outcome \in Outcome : Rejected(outcome).pc # "enqueue"
  BY DEF Idle, Loaded, Rejected
<1>4. SendEntry.pc # "enqueue"
  BY <1>1, <1>3 DEF SendEntry
<1>5. ASSUME NEW type \in Types, NEW w \in Workers, SharedStep(type, w) PROVE NoNewEnqueue
  <2>1. CASE ClaimWins(type, w)
    BY <1>1, <2>1, CallWithoutEnqueue DEF ClaimWins
  <2>2. CASE ClaimLost(type, w)
    BY <1>1, <2>2, CallWithoutEnqueue DEF ClaimLost
  <2>3. CASE FailRow(type, w)
    BY <1>1, <2>3, CallWithoutEnqueue DEF FailRow
  <2>4. CASE FailApp(type, w)
    BY <1>1, <2>4, CallWithoutEnqueue DEF FailApp
  <2>5. CASE Settle(type, w)
    BY <1>1, <1>2, <1>3, <2>5, CallWithoutEnqueue DEF Settle
  <2> QED
    BY <1>5, <2>1, <2>2, <2>3, <2>4, <2>5 DEF SharedStep
<1>6. ASSUME NEW w \in Workers, ProcessStep(w) PROVE NoNewEnqueue
  <2>1. CASE ProcessLoad(w)
    <3>1. run' = [run EXCEPT !["ai_process"][w] = Loaded("ai_process")]
          \/ run' = [run EXCEPT !["ai_process"][w] = Rejected("transient")]
      BY <2>1 DEF ProcessLoad
    <3> QED
      BY <1>1, <1>2, <1>3, <3>1, CallWithoutEnqueue
  <2>2. CASE ProcessConflict(w)
    BY <1>1, <2>2, CallWithoutEnqueue DEF ProcessConflict
  <2>3. CASE ProcessEnqueuesSend(w)
    BY <1>1, <2>3, CallWithoutEnqueue DEF ProcessEnqueuesSend
  <2> QED
    BY <1>1, <1>5, <1>6, <2>1, <2>2, <2>3 DEF ProcessStep
<1>7. ASSUME NEW w \in Workers, SendStep(w) PROVE NoNewEnqueue
  <2>1. CASE SendLoad(w)
    BY <1>1, <1>2, <1>4, <2>1, CallWithoutEnqueue DEF SendLoad
  <2>2. CASE SendRejects(w)
    BY <1>1, <2>2, CallWithoutEnqueue DEF SendRejects
  <2>3. CASE Deliver(w)
    BY <1>1, <2>3, CallWithoutEnqueue DEF Deliver
  <2>4. CASE MarkSent(w)
    BY <1>1, <2>4, CallWithoutEnqueue DEF MarkSent
  <2>5. CASE FinishSend(w)
    BY <1>1, <2>5, CallWithoutEnqueue DEF FinishSend
  <2>6. CASE Requeue(w)
    BY <1>1, <2>6, CallWithoutEnqueue DEF Requeue
  <2> QED
    BY <1>1, <1>5, <1>7, <2>1, <2>2, <2>3, <2>4, <2>5, <2>6 DEF SendStep
<1>8. ASSUME NEW w \in Workers, WorkerTrouble(w) PROVE NoNewEnqueue
  <2>1. ASSUME NEW type \in Types, ClaimThenFault(type, w) PROVE NoNewEnqueue
    BY <1>1, <2>1, CallWithoutEnqueue DEF ClaimThenFault
  <2>2. ASSUME ProcessFails(w) \/ ProcessEnqueueFault(w) PROVE NoNewEnqueue
    BY <1>1, <2>2, CallWithoutEnqueue DEF ProcessFails, Fails, ProcessEnqueueFault
  <2>3. ASSUME SendFails(w) \/ DeliverThenFault(w) \/ MarkSentFault(w) PROVE NoNewEnqueue
    BY <1>1, <2>3, CallWithoutEnqueue DEF SendFails, Fails, DeliverThenFault, MarkSentFault
  <2>4. CASE WorkerCrash(w)
    BY <1>1, <1>3, <2>4 DEF WorkerCrash, RunsType, NoNewEnqueue
  <2>5. ASSUME NEW type \in Types, PersistFault(type, w) \/ CatchFault(type, w)
        PROVE  NoNewEnqueue
    <3>1. CASE Goto(type, w, "failapp")
      BY <1>1, <3>1, CallWithoutEnqueue DEF PcsAfterClaim
    <3>2. ASSUME NEW outcome \in Outcome, EndWith(type, w, outcome) PROVE NoNewEnqueue
      BY <1>1, <3>2, CallWithoutEnqueue
    <3>3. "permanent" \in Outcome /\ "transient" \in Outcome
      BY DEF Outcome
    <3> QED
      BY <2>5, <3>1, <3>2, <3>3 DEF PersistFault, CatchFault
  <2>6. CASE ProcessFailsUnclassified(w)
    BY <1>1, <2>6, CallWithoutEnqueue DEF ProcessFailsUnclassified
  <2> QED
    BY <1>8, <2>1, <2>2, <2>3, <2>4, <2>5, <2>6 DEF WorkerTrouble
<1>9. ASSUME run' = run PROVE NoNewEnqueue
  BY <1>9 DEF NoNewEnqueue
<1> QED
  BY <1>6, <1>7, <1>8, <1>9 DEF WorkersAct, WorkerNext, LockExpires, FinishedJobExpires

(* Only an enqueue puts a job into an empty queue. *)
NoQueueFills == \A t \in Types : bull[t].state = "none" => bull'[t].state = "none"

LEMMA QueuesFill ==
  ASSUME bull \in BullType, NEW type \in Types
  PROVE  /\ \A w \in Workers, outcome \in Outcome : FinishJob(type, w, outcome) => NoQueueFills
         /\ \A w \in Workers : TakeJob(type, w) => NoQueueFills
         /\ StallJob(type) => NoQueueFills
         /\ ExpireJob => NoQueueFills
         /\ Enqueue(type) => \A t \in Types \ {type} : bull'[t] = bull[t]
  BY DEF FinishJob, TakeJob, StallJob, ExpireJob, Enqueue, BullType, NoQueueFills

LEMMA WorkersFillQueues ==
  ASSUME TypeOK, WorkersAct, \A w \in Workers : ~ProcessEnqueuesSend(w)
  PROVE  NoQueueFills
<1>1. /\ bull \in BullType /\ "ai_process" \in Types /\ "send_email" \in Types
      /\ \A type \in Types, w \in Workers : run[type][w].outcome \in Outcome
  BY TypeOKByParts DEF Types, RunsType, Runner
<1>2. ASSUME bull' = bull PROVE NoQueueFills
  BY <1>2 DEF NoQueueFills
<1>3. ASSUME NEW type \in Types, NEW w \in Workers, SharedStep(type, w) PROVE NoQueueFills
  BY <1>1, <1>2, <1>3, QueuesFill
     DEF SharedStep, ClaimWins, ClaimLost, FailRow, FailApp, Settle
<1>4. ASSUME NEW w \in Workers, ProcessStep(w) PROVE NoQueueFills
  BY <1>1, <1>2, <1>3, <1>4, QueuesFill
     DEF ProcessStep, ProcessLoad, ProcessConflict, ProcessNeedsReview, ProcessGenerates,
         ProcessCommit
<1>5. ASSUME NEW w \in Workers, SendStep(w) PROVE NoQueueFills
  BY <1>1, <1>2, <1>3, <1>5, QueuesFill
     DEF SendStep, SendLoad, SendRejects, Deliver, MarkSent, FinishSend, Requeue
<1>6. ASSUME NEW w \in Workers, WorkerTrouble(w) PROVE NoQueueFills
  BY <1>2, <1>6
     DEF WorkerTrouble, ClaimThenFault, PersistFault, CatchFault, ProcessFails,
         ProcessFailsUnclassified, ProcessEnqueueFault, SendFails, DeliverThenFault,
         MarkSentFault, WorkerCrash
<1>7. ASSUME NEW type \in Types, LockExpires(type) PROVE NoQueueFills
  BY <1>1, <1>7, QueuesFill DEF LockExpires
<1>8. ASSUME FinishedJobExpires PROVE NoQueueFills
  BY <1>1, <1>8, QueuesFill DEF FinishedJobExpires
<1> QED
  BY <1>4, <1>5, <1>6, <1>7, <1>8 DEF WorkersAct, WorkerNext

LEMMA WorkersKeepJobHasRow ==
  ASSUME TypeOK, JobHasRow, WorkersAct
  PROVE  JobHasRow'
<1>1. /\ bull \in BullType /\ run \in RunsType /\ jobs \in JobsType
      /\ "ai_process" \in Types /\ "send_email" \in Types
      /\ \A type \in Types : Len(jobs[type]) \in Nat
  BY TypeOKByParts DEF Types, JobsType
<1>2. RowsGrow /\ reqs' = reqs /\ rec' = rec
  BY RowsOnlyGrow DEF Next, WorkersAct
<1>3. \A type \in Types :
        bull'[type].state # "none" => bull[type].state # "none" \/ Len(jobs'[type]) > 0
  <2>1. ASSUME NEW w \in Workers, ProcessEnqueuesSend(w) PROVE <1>3
    <3>1. Len(jobs["send_email"]) > 0 /\ jobs' = jobs
      BY <2>1 DEF ProcessEnqueuesSend, JobHasRow, LatestRow
    <3>2. \A t \in Types \ {"send_email"} : bull'[t] = bull[t]
      BY <1>1, <2>1, QueuesFill DEF ProcessEnqueuesSend
    <3> QED
      BY <3>1, <3>2
  <2> QED
    BY <2>1, WorkersFillQueues DEF NoQueueFills
<1>4. \A w \in Workers :
        run'["ai_process"][w].pc = "enqueue"
          => run["ai_process"][w].pc = "enqueue" \/ Len(jobs'["send_email"]) > 0
  <2>1. ASSUME NEW w \in Workers, NEW sendNow \in BOOLEAN,
               NEW next \in {"generated", "needs_review"}, ProcessCommit(w, next, sendNow)
        PROVE  <1>4
    <3>1. CASE sendNow
      BY <1>1, <2>1, <3>1, TypeOKByParts, ProcessCommitEffect
    <3>2. CASE ~sendNow
      <4>1. EndWith("ai_process", w, "ok")
        BY <2>1, <3>2 DEF ProcessCommit
      <4> QED
        BY <1>1, <4>1, CallWithoutEnqueue DEF NoNewEnqueue, Outcome
    <3> QED
      BY <3>1, <3>2
  <2>2. ASSUME NEW w \in Workers, ProcessNeedsReview(w) \/ ProcessGenerates(w) PROVE <1>4
    BY <2>1, <2>2 DEF ProcessNeedsReview, ProcessGenerates
  <2> QED
    BY <2>2, NoWorkerGetsToEnqueue DEF NoNewEnqueue
<1> QED
  BY <1>2, <1>3, <1>4, JobHasRowKept

(***************************************************************************)
(* What makes JobHasRow inductive: the transaction of continue creates a   *)
(* send row, and its request goes on to enqueue a send job.                *)
(***************************************************************************)
ContinueOrdersSend == \A r \in Requests : reqs[r].pc = "continue" => reqs[r].type = "send_email"

LEMMA RequestsKeepJobHasRow ==
  ASSUME TypeOK, JobHasRow, ContinueOrdersSend, RequestsAct
  PROVE  JobHasRow'
<1>1. /\ bull \in BullType /\ reqs \in ReqsType /\ "send_email" \in Types
      /\ \A r \in Requests : reqs[r].type \in Types /\ reqs[r] \in Request
      /\ jobs \in JobsType
  BY TypeOKByParts DEF Types, ReqsType, Request
<1>2. RowsGrow /\ run' = run /\ rec' = rec
  BY RowsOnlyGrow DEF Next, RequestsAct
<1>3. \A type \in Types :
        bull'[type].state # "none" => bull[type].state # "none" \/ Len(jobs'[type]) > 0
  <2>1. ASSUME NEW r \in Requests, EnqueueRow(r) PROVE <1>3
    <3>1. Len(jobs[reqs[r].type]) > 0 /\ jobs' = jobs
      BY <2>1 DEF EnqueueRow, JobHasRow, LatestRow
    <3>2. \A t \in Types \ {reqs[r].type} : bull'[t] = bull[t]
      BY <1>1, <2>1, QueuesFill DEF EnqueueRow
    <3> QED
      BY <3>1, <3>2
  <2>2. ASSUME bull' = bull PROVE <1>3
    BY <2>2
  <2> QED
    BY <2>1, <2>2
       DEF RequestsAct, CommandNext, RequestStep, RetryRead, RetryCheck, RetryCount, RetryReopen,
           CreateRow, ContinueCheck, ContinueCommit, ContinueConflict, SendRead,
           SendCheck, RequestDies, Cancel
<1>4. \A q \in Requests :
        reqs'[q].pc = "enqueue"
          => \/ reqs'[q] = reqs[q]
             \/ reqs'[q].type \in Types /\ Len(jobs'[reqs'[q].type]) > 0
  <2>1. ASSUME NEW r \in Requests, NEW pc \in RequestPcs \ {"enqueue"}, NEW type,
               Proceed(r, pc, type) \/ Advance(r, pc) \/ Done(r)
        PROVE  <1>4
    BY <1>1, <2>1 DEF Proceed, Advance, Done, NoRequest, ReqsType, Request
  <2>2. ASSUME NEW r \in Requests, CreateRow(r) PROVE <1>4
    <3>1. Len(jobs'[reqs[r].type]) > 0
      BY <1>1, <2>2, CreateQueuesNoOldRow DEF CreateRow
    <3>2. reqs'[r].type = reqs[r].type /\ \A q \in Requests \ {r} : reqs'[q] = reqs[q]
      BY <1>1, <2>2 DEF CreateRow, Advance, ReqsType, Request
    <3> QED
      BY <1>1, <3>1, <3>2
  <2>3. ASSUME NEW r \in Requests, ContinueCommit(r) PROVE <1>4
    <3>1. Len(jobs'["send_email"]) > 0 /\ reqs[r].type = "send_email"
      BY <1>1, <2>3, CreateQueuesNoOldRow DEF ContinueCommit, ContinueOrdersSend
    <3>2. reqs'[r].type = reqs[r].type /\ \A q \in Requests \ {r} : reqs'[q] = reqs[q]
      BY <1>1, <2>3 DEF ContinueCommit, Advance, ReqsType, Request
    <3> QED
      BY <1>1, <3>1, <3>2
  <2>4. ASSUME reqs' = reqs PROVE <1>4
    BY <2>4
  <2>5. {"check", "count", "continue", "reopen", "sendcheck", "create"} \subseteq RequestPcs \ {"enqueue"}
    BY DEF RequestPcs
  <2>6. ASSUME NEW r \in Requests, RequestStep(r) PROVE <1>4
    BY <2>1, <2>2, <2>3, <2>5, <2>6
       DEF RequestStep, RetryCheck, RetryCount, RetryReopen, SendCheck, EnqueueRow, ContinueConflict
  <2>7. ASSUME NEW r \in Requests, RetryRead(r) \/ ContinueCheck(r) \/ SendRead(r) PROVE <1>4
    BY <2>1, <2>5, <2>7 DEF RetryRead, ContinueCheck, SendRead
  <2> QED
    BY <2>1, <2>4, <2>5, <2>6, <2>7 DEF RequestsAct, CommandNext, RequestDies, Cancel
<1> QED
  BY <1>2, <1>3, <1>4, JobHasRowKept

LEMMA RequestsKeepContinue ==
  ASSUME TypeOK, ContinueOrdersSend, RequestsAct
  PROVE  ContinueOrdersSend'
<1>1. reqs \in ReqsType
  BY TypeOKByParts
<1>2. ASSUME NEW r \in Requests, NEW pc \in RequestPcs \ {"continue"}, NEW type,
             Proceed(r, pc, type) \/ Advance(r, pc) \/ Done(r)
      PROVE  ContinueOrdersSend'
  BY <1>1, <1>2 DEF Proceed, Advance, Done, NoRequest, ReqsType, Request, ContinueOrdersSend
<1>3. {"check", "count", "reopen", "sendcheck", "create", "enqueue"} \subseteq RequestPcs \ {"continue"}
  BY DEF RequestPcs
<1>4. ASSUME NEW r \in Requests, RequestStep(r) PROVE ContinueOrdersSend'
  BY <1>2, <1>3, <1>4
     DEF RequestStep, RetryCheck, RetryCount, RetryReopen, SendCheck, CreateRow, EnqueueRow,
         ContinueCommit, ContinueConflict
<1>5. ASSUME NEW r \in Requests, RetryRead(r) \/ SendRead(r) PROVE ContinueOrdersSend'
  BY <1>2, <1>3, <1>5 DEF RetryRead, SendRead
<1>6. ASSUME NEW r \in Requests, ContinueCheck(r) PROVE ContinueOrdersSend'
  BY <1>1, <1>6 DEF ContinueCheck, Proceed, ReqsType, Request, ContinueOrdersSend
<1>7. ASSUME reqs' = reqs PROVE ContinueOrdersSend'
  BY <1>7 DEF ContinueOrdersSend
<1> QED
  BY <1>2, <1>3, <1>4, <1>5, <1>6, <1>7 DEF RequestsAct, CommandNext, RequestDies, Cancel

LEMMA RecoveryKeepsJobHasRow ==
  ASSUME TypeOK, JobHasRow, RecoveryActs
  PROVE  JobHasRow'
<1>1. bull \in BullType /\ rec \in Sweep /\ rec.type \in Types
  BY TypeOKByParts DEF Sweep
<1>2. RowsGrow /\ run' = run /\ reqs' = reqs
  BY RowsOnlyGrow DEF Next, RecoveryActs
<1>3. \A type \in Types :
        bull'[type].state # "none" => bull[type].state # "none" \/ Len(jobs'[type]) > 0
  <2>1. CASE RecEnqueue
    <3>1. Len(jobs[rec.type]) > 0 /\ jobs' = jobs
      BY <2>1 DEF RecEnqueue, RecAt, JobHasRow, LatestRow
    <3>2. \A t \in Types \ {rec.type} : bull'[t] = bull[t]
      BY <1>1, <2>1, QueuesFill DEF RecEnqueue
    <3> QED
      BY <3>1, <3>2
  <2>2. CASE bull' = bull
    BY <2>2
  <2> QED
    BY <2>1, <2>2
       DEF RecoveryActs, RecoveryNext, RecoveryStep, RecPick, RecInspect, RecSync,
           RecFailRow, RecFailApp, RecReset, RecCreate, RecAborts
<1>4. \/ rec'.pc = "idle"
      \/ rec.pc # "idle" /\ rec'.type = rec.type
      \/ rec'.type \in Types /\ Len(jobs'[rec'.type]) > 0
  <2>1. ASSUME NEW type \in Types, RecPick(type) PROVE <1>4
    BY <2>1 DEF RecPick, LatestRow
  <2>2. ASSUME NEW pc, RecGoto(pc) PROVE rec'.type = rec.type
    BY <1>1, <2>2 DEF RecGoto, Sweep
  <2>3. ASSUME RecDone PROVE rec'.pc = "idle"
    BY <2>3 DEF RecDone, NoSweep
  <2>4. ASSUME RecoveryStep PROVE <1>4
    BY <2>2, <2>3, <2>4
       DEF RecoveryStep, RecInspect, RecSync, RecEnqueue, RecFailRow, RecFailApp,
           RecReset, RecCreate, RecAt
  <2> QED
    BY <2>1, <2>3, <2>4 DEF RecoveryActs, RecoveryNext, RecAborts
<1> QED
  BY <1>2, <1>3, <1>4, JobHasRowKept

(***************************************************************************)
(* A job that BullMQ holds, or that somebody is about to enqueue, has its  *)
(* row in application_jobs.                                                *)
(***************************************************************************)
THEOREM JobsHaveRows == Spec => []JobHasRow
<1>1. Init => JobHasRow /\ ContinueOrdersSend
  <2> SUFFICES ASSUME Init PROVE JobHasRow /\ ContinueOrdersSend
    OBVIOUS
  <2>1. Len(jobs["ai_process"]) = 1
    BY DEF Init, Types
  <2>2. \A type \in Types : bull[type].state = "none"
    BY DEF Init, NoJob
  <2>3. \A r \in Requests : reqs[r].pc # "continue" /\ reqs[r].type = "ai_process"
    BY DEF Init, NoRequest
  <2>4. /\ \A w \in Workers : run["ai_process"][w].pc = "idle"
        /\ rec.pc = "idle"
    BY DEF Init, Idle, NoSweep, Types
  <2> QED
    BY <2>1, <2>2, <2>3, <2>4 DEF JobHasRow, ContinueOrdersSend, LatestRow, At, RecAt
<1>2. /\ TypeOK /\ JobHasRow /\ ContinueOrdersSend /\ [Next]_vars
      => JobHasRow' /\ ContinueOrdersSend'
  <2> SUFFICES ASSUME TypeOK, JobHasRow, ContinueOrdersSend, [Next]_vars
               PROVE  JobHasRow' /\ ContinueOrdersSend'
    OBVIOUS
  <2>1. CASE WorkersAct
    BY <2>1, WorkersKeepJobHasRow DEF WorkersAct, ContinueOrdersSend
  <2>2. CASE RequestsAct
    BY <2>2, RequestsKeepJobHasRow, RequestsKeepContinue
  <2>3. CASE RecoveryActs
    BY <2>3, RecoveryKeepsJobHasRow DEF RecoveryActs, ContinueOrdersSend
  <2>4. CASE UNCHANGED vars
    BY <2>4 DEF vars, JobHasRow, ContinueOrdersSend, LatestRow, At, RecAt
  <2> QED
    BY <2>1, <2>2, <2>3, <2>4 DEF Next
<1> QED
  BY <1>1, <1>2, TypeCorrect, PTL DEF Spec

-----------------------------------------------------------------------------
(* One call at a time executes a row.                                      *)

(***************************************************************************)
(* What makes ExclusiveClaim inductive: the row that a call claims exists, *)
(* and while it executes that row nobody else can find it queued.          *)
(***************************************************************************)
CalledRowExists ==
  \A type \in Types, w \in Workers :
    run[type][w].pc = "claim" \/ Executing(type, w)
      => run[type][w].row \in 1..Len(jobs[type])

ExecutedRowIsNotQueued ==
  \A type \in Types, w \in Workers :
    Executing(type, w) => jobs[type][run[type][w].row] # "queued"

ClaimInv == CalledRowExists /\ ExecutedRowIsNotQueued /\ ExclusiveClaim

LEMMA CalledRowStaysWithRows ==
  ASSUME TypeOK, RowsGrow, NEW type \in Types, NEW row \in 1..Len(jobs[type])
  PROVE  row \in 1..Len(jobs'[type])
<1>1. Len(jobs[type]) \in Nat
  BY TypeOKByParts DEF JobsType
<1> QED
  BY <1>1 DEF RowsGrow

(* A step that claims no row and puts none back to queued. *)
LEMMA QuietStep ==
  ASSUME TypeOK, ClaimInv, NoNewClaim, NoRowQueued
  PROVE  ClaimInv'
<1>1. CalledRowExists'
  BY CalledRowStaysWithRows DEF ClaimInv, CalledRowExists, NoNewClaim, NoRowQueued
<1>2. ExecutedRowIsNotQueued'
  BY DEF ClaimInv, CalledRowExists, ExecutedRowIsNotQueued, NoNewClaim, NoRowQueued
<1>3. ExclusiveClaim'
  BY DEF ClaimInv, ExclusiveClaim, NoNewClaim
<1> QED
  BY <1>1, <1>2, <1>3 DEF ClaimInv

(* The first reads of a processor: the row behind the job exists. *)
LEMMA LoadKeepsClaims ==
  ASSUME TypeOK, JobHasRow, ClaimInv, NEW type \in Types, NEW w \in Workers,
         TakeJob(type, w), jobs' = jobs, NEW call,
         run' = [run EXCEPT ![type][w] = call],
         call = Loaded(type) \/ call.pc = "settle"
  PROVE  ClaimInv'
<1>1. /\ run \in RunsType /\ jobs \in JobsType
      /\ Len(jobs[type]) \in Nat
  BY TypeOKByParts DEF JobsType
<1>2. run'[type][w] = call /\ OthersKeepTheirCall(type, w)
  BY <1>1, NewCallEffect
<1>3. Len(jobs[type]) > 0
  BY DEF TakeJob, JobHasRow, LatestRow
<1>4. call.pc = "settle" \/ (call.pc = "claim" /\ call.row \in 1..Len(jobs[type]))
  BY <1>1, <1>3 DEF Loaded, LatestRow
<1>5. \A t \in Types, v \in Workers :
        Executing(t, v)' => Executing(t, v) /\ run'[t][v] = run[t][v]
  BY <1>2, <1>4 DEF OthersKeepTheirCall, Executing
<1>6. \A t \in Types, v \in Workers :
        run'[t][v].pc = "claim" => run'[t][v] = run[t][v] \/ (t = type /\ v = w)
  BY <1>2 DEF OthersKeepTheirCall
<1>7. CalledRowExists'
  BY <1>2, <1>4, <1>5, <1>6 DEF ClaimInv, CalledRowExists
<1>8. ExecutedRowIsNotQueued'
  BY <1>5 DEF ClaimInv, ExecutedRowIsNotQueued
<1>9. ExclusiveClaim'
  BY <1>5 DEF ClaimInv, ExclusiveClaim
<1> QED
  BY <1>7, <1>8, <1>9 DEF ClaimInv

(* The won claim: nobody executes a row that is queued. *)
LEMMA ClaimKeepsClaims ==
  ASSUME TypeOK, ClaimInv, NEW type \in Types, NEW w \in Workers, ClaimWins(type, w)
  PROVE  ClaimInv'
<1> DEFINE row == run[type][w].row
<1>1. /\ run \in RunsType /\ jobs \in JobsType /\ row \in Nat
      /\ "processing" \in RowStatus /\ "processing" \in RowStatus \ {"queued"}
  BY TypeOKByParts DEF RunsType, Runner, RowStatus
<1>2. row \in 1..Len(jobs[type]) /\ jobs[type][row] = "queued"
  BY DEF ClaimWins, At, RowIsQueued, ClaimInv, CalledRowExists
<1>3. CasJob(type, row, {"queued"}, "processing")
  BY DEF ClaimWins
<1>4. NoRowQueued
  BY <1>1, <1>3, CasQueuesNoRow
<1>5. jobs'[type][row] = "processing"
  <2>1. jobs'[type][row] = RowAfterCas(jobs[type][row], {"queued"}, "processing")
    BY <1>1, <1>2, <1>3, CasJobEffect
  <2> QED
    BY <1>2, <2>1 DEF RowAfterCas
<1>6. /\ run'[type][w].pc = "work" /\ run'[type][w].row = row
      /\ OthersKeepTheirCall(type, w)
  BY <1>1, GotoEffect DEF ClaimWins
<1>7. \A v \in Workers : ~(Executing(type, v) /\ run[type][v].row = row)
  BY <1>2 DEF ClaimInv, ExecutedRowIsNotQueued
<1>8. \A t \in Types, v \in Workers :
        /\ run'[t][v].pc = "claim" => run'[t][v] = run[t][v]
        /\ Executing(t, v)' => \/ t = type /\ v = w
                               \/ Executing(t, v) /\ run'[t][v] = run[t][v]
  BY <1>6 DEF OthersKeepTheirCall, Executing
<1> HIDE DEF row
<1>9. CalledRowExists'
  BY <1>2, <1>4, <1>6, <1>8, CalledRowStaysWithRows
     DEF ClaimInv, CalledRowExists, NoRowQueued
<1>10. ExecutedRowIsNotQueued'
  BY <1>4, <1>5, <1>6, <1>8
     DEF ClaimInv, CalledRowExists, ExecutedRowIsNotQueued, NoRowQueued
<1>11. ExclusiveClaim'
  BY <1>6, <1>7, <1>8 DEF ClaimInv, ExclusiveClaim
<1> QED
  BY <1>9, <1>10, <1>11 DEF ClaimInv

(* The requeue: whoever executes the row is the one who gives it back. *)
LEMMA RequeueKeepsClaims ==
  ASSUME TypeOK, ClaimInv, NEW w \in Workers, Requeue(w)
  PROVE  ClaimInv'
<1> DEFINE row == run["send_email"][w].row
<1>1. /\ run \in RunsType /\ jobs \in JobsType /\ row \in Nat
      /\ "queued" \in RowStatus /\ "send_email" \in Types
  BY TypeOKByParts DEF RunsType, Runner, RowStatus, Types
<1>2. CasJob("send_email", row, {"processing"}, "queued")
  BY DEF Requeue
<1>3. RowsGrow
  <2>1. \A t \in Types : Len(jobs'[t]) = Len(jobs[t])
    BY <1>1, <1>2, CasJobEffect
  <2> QED
    BY <1>1, <2>1 DEF RowsGrow, JobsType
<1>4. \A t \in Types : \A i \in 1..Len(jobs[t]) :
        t # "send_email" \/ i # row => jobs'[t][i] = jobs[t][i]
  BY <1>1, <1>2, CasJobEffect
<1>5. run'["send_email"][w].pc = "settle" /\ OthersKeepTheirCall("send_email", w)
  BY <1>1, EndWithEffect DEF Requeue
<1>6. NoNewClaim
  BY <1>1, <1>5, CallGoesOn
<1>7. \A v \in Workers \ {w} :
        ~(Executing("send_email", v) /\ run["send_email"][v].row = row)
  BY <1>1 DEF ClaimInv, ExclusiveClaim, Requeue, At, Executing
<1>8. ~Executing("send_email", w)'
  BY <1>5 DEF Executing
<1> HIDE DEF row
<1>9. CalledRowExists'
  BY <1>3, <1>6, CalledRowStaysWithRows DEF ClaimInv, CalledRowExists, NoNewClaim
<1>10. ExecutedRowIsNotQueued'
  BY <1>4, <1>6, <1>7, <1>8
     DEF ClaimInv, CalledRowExists, ExecutedRowIsNotQueued, NoNewClaim
<1>11. ExclusiveClaim'
  BY <1>6 DEF ClaimInv, ExclusiveClaim, NoNewClaim
<1> QED
  BY <1>9, <1>10, <1>11 DEF ClaimInv

LEMMA WorkersKeepClaims ==
  ASSUME TypeOK, JobHasRow, ClaimInv, WorkersAct
  PROVE  ClaimInv'
<1>1. "ai_process" \in Types /\ "send_email" \in Types
  BY DEF Types
<1>2. ASSUME NEW type \in Types, NEW w \in Workers, ClaimWins(type, w) PROVE ClaimInv'
  BY <1>2, ClaimKeepsClaims
<1>3. ASSUME NEW w \in Workers, Requeue(w) PROVE ClaimInv'
  BY <1>3, RequeueKeepsClaims
<1>4. ASSUME NEW w \in Workers, ProcessLoad(w) PROVE ClaimInv'
  <2>1. /\ TakeJob("ai_process", w) /\ jobs' = jobs
        /\ \/ run' = [run EXCEPT !["ai_process"][w] = Loaded("ai_process")]
           \/ run' = [run EXCEPT !["ai_process"][w] = Rejected("transient")]
    BY <1>4 DEF ProcessLoad
  <2>2. Rejected("transient").pc = "settle"
    BY DEF Rejected, Idle
  <2> QED
    BY <1>1, <2>1, <2>2, LoadKeepsClaims
<1>5. ASSUME NEW w \in Workers, SendLoad(w) PROVE ClaimInv'
  <2>1. /\ TakeJob("send_email", w) /\ jobs' = jobs
        /\ run' = [run EXCEPT !["send_email"][w] = SendEntry]
    BY <1>5 DEF SendLoad
  <2>2. SendEntry = Loaded("send_email") \/ SendEntry.pc = "settle"
    BY DEF SendEntry, Rejected, Idle
  <2> QED
    BY <1>1, <2>1, <2>2, LoadKeepsClaims
<1>6. ASSUME NoNewClaim, \A w \in Workers : ~Requeue(w) PROVE ClaimInv'
  BY <1>6, WorkersQueueNoOldRow, QuietStep
<1>7. ASSUME NEW w \in Workers, ProcessStep(w) PROVE ClaimInv'
  BY <1>1, <1>2, <1>3, <1>4, <1>6, <1>7, ProcessStepClaimsNothing
<1>8. ASSUME NEW w \in Workers, SendStep(w) PROVE ClaimInv'
  BY <1>1, <1>2, <1>3, <1>5, <1>6, <1>8, SendStepClaimsNothing
<1>9. ASSUME NEW w \in Workers, WorkerTrouble(w) PROVE ClaimInv'
  BY <1>3, <1>6, <1>9, TroubleClaimsNothing
<1>10. ASSUME run' = run PROVE ClaimInv'
  BY <1>3, <1>6, <1>10, CallsUnchanged
<1> QED
  BY <1>7, <1>8, <1>9, <1>10 DEF WorkersAct, WorkerNext, LockExpires, FinishedJobExpires

(* The claims are in order in every reachable state. *)
LEMMA ClaimInvHolds == Spec => []ClaimInv
<1>1. Init => ClaimInv
  <2> SUFFICES ASSUME Init PROVE ClaimInv
    OBVIOUS
  <2>1. \A type \in Types, w \in Workers : run[type][w].pc = "idle"
    BY DEF Init, Idle
  <2> QED
    BY <2>1
       DEF ClaimInv, CalledRowExists, ExecutedRowIsNotQueued, ExclusiveClaim, Executing
<1>2. TypeOK /\ JobHasRow /\ ClaimInv /\ [Next]_vars => ClaimInv'
  <2> SUFFICES ASSUME TypeOK, JobHasRow, ClaimInv, [Next]_vars PROVE ClaimInv'
    OBVIOUS
  <2>1. CASE WorkersAct
    BY <2>1, WorkersKeepClaims
  <2>2. CASE RequestsAct
    BY <2>2, RequestsQueueNoOldRow, CallsUnchanged, QuietStep DEF RequestsAct
  <2>3. CASE RecoveryActs
    BY <2>3, RecoveryQueuesNoOldRow, CallsUnchanged, QuietStep DEF RecoveryActs
  <2>4. CASE UNCHANGED vars
    BY <2>4, TypeOKByParts, RowsUnchanged, CallsUnchanged, QuietStep DEF vars
  <2> QED
    BY <2>1, <2>2, <2>3, <2>4 DEF Next
<1> QED
  BY <1>1, <1>2, TypeCorrect, JobsHaveRows, PTL DEF Spec

(***************************************************************************)
(* No two calls execute the same job row, however often BullMQ delivers    *)
(* the job, locks expire, processes die and recovery intervenes.           *)
(***************************************************************************)
THEOREM ClaimsAreExclusive == Spec => []ExclusiveClaim
<1>1. ClaimInv => ExclusiveClaim
  BY DEF ClaimInv
<1> QED
  BY <1>1, ClaimInvHolds, PTL

-----------------------------------------------------------------------------
(* The job rows.                                                           *)

HistoryKept ==
  \A t \in Types : \A i \in 1..Len(jobs[t]) :
    jobs[t][i] \notin ActiveRow => jobs'[t][i] = jobs[t][i]

LEMMA HistoryUnchanged ==
  ASSUME jobs' = jobs
  PROVE  HistoryKept
  BY DEF HistoryKept

(* Every compare-and-swap expects an active row. *)
LEMMA CasKeepsHistory ==
  ASSUME NEW type \in Types, NEW row \in Nat, NEW expected \in SUBSET ActiveRow,
         NEW next \in RowStatus, jobs \in JobsType,
         CasJob(type, row, expected, next)
  PROVE  HistoryKept
<1>1. \A t \in Types : \A i \in 1..Len(jobs[t]) :
        jobs'[t][i] = IF t = type /\ i = row
                        THEN RowAfterCas(jobs[t][i], expected, next)
                        ELSE jobs[t][i]
  BY CasJobEffect
<1> QED
  BY <1>1 DEF HistoryKept, RowAfterCas

LEMMA CreateKeepsHistory ==
  ASSUME NEW type \in Types, jobs \in JobsType, CreateJob(type)
  PROVE  HistoryKept
  BY CreateJobEffect DEF HistoryKept

LEMMA WorkersKeepHistory ==
  ASSUME TypeOK, WorkersAct
  PROVE  HistoryKept
<1>1. /\ jobs \in JobsType
      /\ "send_email" \in Types /\ "ai_process" \in Types
      /\ {"queued", "processing", "completed", "failed"} \subseteq RowStatus
      /\ {"queued"} \in SUBSET ActiveRow /\ {"processing"} \in SUBSET ActiveRow
      /\ \A type \in Types, w \in Workers : run[type][w].row \in Nat
  BY TypeOKByParts DEF RunsType, Runner, RowStatus, ActiveRow, Types
<1>2. ASSUME NEW type \in Types, NEW w \in Workers,
             ClaimWins(type, w) \/ ClaimThenFault(type, w)
      PROVE  HistoryKept
  <2>1. CasJob(type, run[type][w].row, {"queued"}, "processing")
    BY <1>2 DEF ClaimWins, ClaimThenFault
  <2> QED
    BY <1>1, <2>1, CasKeepsHistory
<1>3. ASSUME NEW type \in Types, NEW w \in Workers, FailRow(type, w) PROVE HistoryKept
  <2>1. CasJob(type, run[type][w].row, ActiveRow, "failed")
    BY <1>3 DEF FailRow
  <2> QED
    BY <1>1, <2>1, CasKeepsHistory
<1>4. ASSUME NEW w \in Workers, FinishSend(w) PROVE HistoryKept
  <2>1. CasJob("send_email", run["send_email"][w].row, {"processing"}, "completed")
    BY <1>4 DEF FinishSend
  <2> QED
    BY <1>1, <2>1, CasKeepsHistory
<1>5. ASSUME NEW w \in Workers, Requeue(w) PROVE HistoryKept
  <2>1. CasJob("send_email", run["send_email"][w].row, {"processing"}, "queued")
    BY <1>5 DEF Requeue
  <2> QED
    BY <1>1, <2>1, CasKeepsHistory
<1>6. ASSUME NEW w \in Workers, ProcessNeedsReview(w) \/ ProcessGenerates(w)
      PROVE  HistoryKept
  <2>1. PICK next \in {"generated", "needs_review"}, sendNow \in BOOLEAN :
          ProcessCommit(w, next, sendNow)
    BY <1>6 DEF ProcessNeedsReview, ProcessGenerates
  <2>2. \A t \in Types : \A i \in 1..Len(jobs[t]) :
          KeptOrCompleted(jobs[t][i], jobs'[t][i])
    BY <2>1, TypeOKByParts, ProcessCommitEffect
  <2> QED
    BY <2>2 DEF HistoryKept, KeptOrCompleted, ActiveRow
<1>7. ASSUME jobs' = jobs PROVE HistoryKept
  BY <1>7, HistoryUnchanged
<1>8. ASSUME NEW type \in Types, NEW w \in Workers, SharedStep(type, w) PROVE HistoryKept
  BY <1>2, <1>3, <1>7, <1>8 DEF SharedStep, ClaimLost, FailApp, Settle
<1>9. ASSUME NEW w \in Workers, ProcessStep(w) PROVE HistoryKept
  BY <1>1, <1>6, <1>7, <1>8, <1>9
     DEF ProcessStep, ProcessLoad, ProcessConflict, ProcessEnqueuesSend
<1>10. ASSUME NEW w \in Workers, SendStep(w) PROVE HistoryKept
  BY <1>1, <1>4, <1>5, <1>7, <1>8, <1>10
     DEF SendStep, SendLoad, SendRejects, Deliver, MarkSent
<1>11. ASSUME NEW w \in Workers, WorkerTrouble(w) PROVE HistoryKept
  BY <1>2, <1>7, <1>11
     DEF WorkerTrouble, PersistFault, CatchFault, ProcessFails, ProcessFailsUnclassified,
         ProcessEnqueueFault, SendFails, DeliverThenFault, MarkSentFault, WorkerCrash
<1>12. ASSUME (\E type \in Types : LockExpires(type)) \/ FinishedJobExpires
       PROVE  HistoryKept
  BY <1>7, <1>12 DEF LockExpires, FinishedJobExpires
<1> QED
  BY <1>9, <1>10, <1>11, <1>12 DEF WorkersAct, WorkerNext

LEMMA RequestsKeepHistory ==
  ASSUME TypeOK, RequestsAct
  PROVE  HistoryKept
<1>1. jobs \in JobsType /\ "send_email" \in Types
      /\ \A r \in Requests : reqs[r].type \in Types
  BY TypeOKByParts DEF ReqsType, Request, Types
<1>2. ASSUME NEW r \in Requests, CreateRow(r) PROVE HistoryKept
  BY <1>1, <1>2, CreateKeepsHistory DEF CreateRow
<1>3. ASSUME NEW r \in Requests, ContinueCommit(r) PROVE HistoryKept
  BY <1>1, <1>3, CreateKeepsHistory DEF ContinueCommit
<1>4. ASSUME jobs' = jobs PROVE HistoryKept
  BY <1>4, HistoryUnchanged
<1> QED
  BY <1>2, <1>3, <1>4
     DEF RequestsAct, CommandNext, RequestStep, RetryRead, RetryCheck, RetryCount,
         RetryReopen, EnqueueRow, ContinueCheck, ContinueConflict, SendRead, SendCheck,
         RequestDies, Cancel

LEMMA RecoveryKeepsHistory ==
  ASSUME TypeOK, RecoveryActs
  PROVE  HistoryKept
<1>1. /\ jobs \in JobsType /\ rec.type \in Types /\ rec.row \in Nat
      /\ {"completed", "failed", "retrying"} \subseteq RowStatus
      /\ {"processing"} \in SUBSET ActiveRow
  BY TypeOKByParts DEF Sweep, RowStatus, ActiveRow
<1>2. CASE RecSync
  BY <1>1, <1>2, CasKeepsHistory DEF RecSync
<1>3. CASE RecFailRow
  BY <1>1, <1>3, CasKeepsHistory DEF RecFailRow
<1>4. CASE RecReset
  BY <1>1, <1>4, CasKeepsHistory DEF RecReset
<1>5. CASE RecCreate
  BY <1>1, <1>5, CreateKeepsHistory DEF RecCreate
<1>6. CASE jobs' = jobs
  BY <1>6, HistoryUnchanged
<1> QED
  BY <1>2, <1>3, <1>4, <1>5, <1>6
     DEF RecoveryActs, RecoveryNext, RecoveryStep, RecPick, RecInspect, RecEnqueue,
         RecFailApp, RecAborts

(***************************************************************************)
(* No step of anybody removes a row or rewrites one that has ended.        *)
(***************************************************************************)
THEOREM AttemptsStayHistory == Spec => AttemptsAreHistory
<1>1. TypeOK /\ [Next]_vars
      => [\A type \in Types : \A i \in DOMAIN jobs[type] :
            /\ i \in DOMAIN jobs'[type]
            /\ jobs[type][i] \notin ActiveRow => jobs'[type][i] = jobs[type][i]]_vars
  <2> SUFFICES ASSUME TypeOK, Next, NEW type \in Types, NEW i \in DOMAIN jobs[type]
               PROVE  /\ i \in DOMAIN jobs'[type]
                      /\ jobs[type][i] \notin ActiveRow => jobs'[type][i] = jobs[type][i]
    OBVIOUS
  <2>1. i \in 1..Len(jobs[type]) /\ Len(jobs[type]) \in Nat
    BY TypeOKByParts DEF JobsType
  <2>2. TypeOK'
    BY WorkersKeepTypes, RequestsKeepTypes, RecoveryKeepsTypes DEF Next
  <2>3. DOMAIN jobs'[type] = 1..Len(jobs'[type])
    <3>1. jobs' \in JobsType
      BY <2>2 DEF TypeOK, StoreTypeOK, JobsType
    <3> QED
      BY <3>1 DEF JobsType
  <2>4. i \in 1..Len(jobs'[type])
    BY <2>1, RowsOnlyGrow, CalledRowStaysWithRows
  <2>5. HistoryKept
    BY WorkersKeepHistory, RequestsKeepHistory, RecoveryKeepsHistory DEF Next
  <2> QED
    BY <2>1, <2>3, <2>4, <2>5 DEF HistoryKept
<1> QED
  BY <1>1, TypeCorrect, PTL DEF Spec, AttemptsAreHistory

-----------------------------------------------------------------------------
(* The review reason.                                                      *)

(***************************************************************************)
(* A compare-and-swap keeps status and reason together when it leads out   *)
(* of needs_review and clears the reason, or leads past needs_review and   *)
(* leaves the reason as it is.                                             *)
(***************************************************************************)
LEMMA CasKeepsReview ==
  ASSUME NEW expected, NEW next \in AppStatus, NEW review \in BOOLEAN, app \in App,
         ReviewReasonMatchesStatus, next # "needs_review",
         review = FALSE \/ ("needs_review" \notin expected /\ review = app.review),
         CasApp(expected, next, review)
  PROVE  ReviewReasonMatchesStatus'
<1>1. CASE app.status \notin expected
  BY <1>1 DEF CasApp, ReviewReasonMatchesStatus
<1>2. CASE app.status \in expected
  <2>1. app'.status = next /\ app'.review = review
    BY <1>2 DEF CasApp, App
  <2>2. review = FALSE
    BY <1>2 DEF ReviewReasonMatchesStatus
  <2> QED
    BY <2>1, <2>2 DEF ReviewReasonMatchesStatus
<1> QED
  BY <1>1, <1>2

LEMMA ReviewUnchanged ==
  ASSUME ReviewReasonMatchesStatus, app' = app
  PROVE  ReviewReasonMatchesStatus'
  BY DEF ReviewReasonMatchesStatus

LEMMA WorkersKeepReview ==
  ASSUME TypeOK, ReviewReasonMatchesStatus, WorkersAct
  PROVE  ReviewReasonMatchesStatus'
<1>1. app \in App /\ app.review \in BOOLEAN /\ {"failed", "sent"} \subseteq AppStatus
  BY TypeOKByParts DEF App, AppStatus
<1>2. ASSUME NEW type \in Types, NEW w \in Workers, FailApp(type, w)
      PROVE  ReviewReasonMatchesStatus'
  BY <1>1, <1>2, CasKeepsReview DEF FailApp
<1>3. ASSUME NEW w \in Workers, ProcessNeedsReview(w) \/ ProcessGenerates(w)
      PROVE  ReviewReasonMatchesStatus'
  <2>1. PICK next \in {"generated", "needs_review"}, sendNow \in BOOLEAN :
          ProcessCommit(w, next, sendNow)
    BY <1>3 DEF ProcessNeedsReview, ProcessGenerates
  <2>2. app'.status = next /\ app'.review = (next = "needs_review")
    BY <1>1, <2>1 DEF ProcessCommit, App
  <2> QED
    BY <2>2 DEF ReviewReasonMatchesStatus
<1>4. ASSUME NEW w \in Workers, MarkSent(w) \/ MarkSentFault(w)
      PROVE  ReviewReasonMatchesStatus'
  <2>1. CasApp({"generated"}, "sent", app.review) \/ app' = app
    BY <1>4 DEF MarkSent, MarkSentFault
  <2> QED
    BY <1>1, <2>1, CasKeepsReview, ReviewUnchanged
<1>5. ASSUME app' = app PROVE ReviewReasonMatchesStatus'
  BY <1>5, ReviewUnchanged
<1>6. ASSUME NEW type \in Types, NEW w \in Workers, SharedStep(type, w)
      PROVE  ReviewReasonMatchesStatus'
  BY <1>2, <1>5, <1>6 DEF SharedStep, ClaimWins, ClaimLost, FailRow, Settle
<1>7. "send_email" \in Types /\ "ai_process" \in Types
  BY DEF Types
<1>8. ASSUME NEW w \in Workers, ProcessStep(w) PROVE ReviewReasonMatchesStatus'
  BY <1>3, <1>5, <1>6, <1>7, <1>8
     DEF ProcessStep, ProcessLoad, ProcessConflict, ProcessEnqueuesSend
<1>9. ASSUME NEW w \in Workers, SendStep(w) PROVE ReviewReasonMatchesStatus'
  BY <1>4, <1>5, <1>6, <1>7, <1>9
     DEF SendStep, SendLoad, SendRejects, Deliver, FinishSend, Requeue
<1>10. ASSUME NEW w \in Workers, WorkerTrouble(w) PROVE ReviewReasonMatchesStatus'
  <2>1. ASSUME NEW type \in Types, PersistFault(type, w) PROVE ReviewReasonMatchesStatus'
    <3>1. CasApp(FailableFrom(type), "failed", FALSE) \/ app' = app
      BY <2>1 DEF PersistFault
    <3> QED
      BY <1>1, <3>1, CasKeepsReview, ReviewUnchanged
  <2> QED
    BY <1>4, <1>5, <1>10, <2>1
       DEF WorkerTrouble, ClaimThenFault, CatchFault, ProcessFails,
           ProcessFailsUnclassified, ProcessEnqueueFault, SendFails, DeliverThenFault, WorkerCrash
<1>11. ASSUME (\E type \in Types : LockExpires(type)) \/ FinishedJobExpires
       PROVE  ReviewReasonMatchesStatus'
  BY <1>5, <1>11 DEF LockExpires, FinishedJobExpires
<1> QED
  BY <1>8, <1>9, <1>10, <1>11 DEF WorkersAct, WorkerNext

LEMMA RequestsKeepReview ==
  ASSUME TypeOK, ReviewReasonMatchesStatus, RequestsAct
  PROVE  ReviewReasonMatchesStatus'
<1>1. app \in App /\ {"draft", "generated", "cancelled"} \subseteq AppStatus
  BY TypeOKByParts DEF AppStatus
<1>2. ASSUME NEW r \in Requests, RetryCount(r) PROVE ReviewReasonMatchesStatus'
  <2>1. app'.status = app.status /\ app'.review = app.review
    BY <1>1, <1>2 DEF RetryCount, App
  <2> QED
    BY <2>1 DEF ReviewReasonMatchesStatus
<1>3. ASSUME NEW r \in Requests, RetryReopen(r) PROVE ReviewReasonMatchesStatus'
  <2>1. CasApp({"failed"}, "draft", FALSE) \/ app' = app
    BY <1>3 DEF RetryReopen
  <2> QED
    BY <1>1, <2>1, CasKeepsReview, ReviewUnchanged
<1>4. ASSUME NEW r \in Requests, ContinueCommit(r) PROVE ReviewReasonMatchesStatus'
  BY <1>1, <1>4, CasKeepsReview DEF ContinueCommit
<1>5. ASSUME Cancel PROVE ReviewReasonMatchesStatus'
  BY <1>1, <1>5, CasKeepsReview DEF Cancel
<1>6. ASSUME app' = app PROVE ReviewReasonMatchesStatus'
  BY <1>6, ReviewUnchanged
<1> QED
  BY <1>2, <1>3, <1>4, <1>5, <1>6
     DEF RequestsAct, CommandNext, RequestStep, RetryRead, RetryCheck, CreateRow,
         EnqueueRow, ContinueCheck, ContinueConflict, SendRead, SendCheck, RequestDies

LEMMA RecoveryKeepsReview ==
  ASSUME TypeOK, ReviewReasonMatchesStatus, RecoveryActs
  PROVE  ReviewReasonMatchesStatus'
<1>1. app \in App /\ app.review \in BOOLEAN /\ "failed" \in AppStatus
  BY TypeOKByParts DEF App, AppStatus
<1>2. CASE RecFailApp
  BY <1>1, <1>2, CasKeepsReview DEF RecFailApp
<1>3. CASE app' = app
  BY <1>3, ReviewUnchanged
<1> QED
  BY <1>2, <1>3
     DEF RecoveryActs, RecoveryNext, RecoveryStep, RecPick, RecInspect, RecSync,
         RecEnqueue, RecFailRow, RecReset, RecCreate, RecAborts

(***************************************************************************)
(* An application has a review reason exactly while it needs review.       *)
(***************************************************************************)
THEOREM ReviewReasonIsExact == Spec => []ReviewReasonMatchesStatus
<1>1. Init => ReviewReasonMatchesStatus
  BY DEF Init, ReviewReasonMatchesStatus
<1>2. TypeOK /\ ReviewReasonMatchesStatus /\ [Next]_vars => ReviewReasonMatchesStatus'
  <2> SUFFICES ASSUME TypeOK, ReviewReasonMatchesStatus, [Next]_vars
               PROVE  ReviewReasonMatchesStatus'
    OBVIOUS
  <2>1. CASE UNCHANGED vars
    BY <2>1, ReviewUnchanged DEF vars
  <2> QED
    BY <2>1, WorkersKeepReview, RequestsKeepReview, RecoveryKeepsReview DEF Next
<1> QED
  BY <1>1, <1>2, TypeCorrect, PTL DEF Spec

-----------------------------------------------------------------------------
(* The business state of the implementation, and single moves of it.       *)

Ordered == jobs["send_email"] # <<>>

WorkflowStep == [Workflow!Next]_(Workflow!vars)

BusinessKept ==
  /\ app'.status = app.status
  /\ app'.subject = app.subject
  /\ Ordered' = Ordered
  /\ mails' = mails

LEMMA KeptIsStutter ==
  ASSUME BusinessKept
  PROVE  WorkflowStep
  BY DEF BusinessKept, Ordered, WorkflowStep, Workflow!vars

(* A compare-and-swap of the status along an arrow of the workflow. *)
Arrow(expected, next) ==
  \/ expected \subseteq {"draft", "generated"} /\ next = "failed"
  \/ expected \subseteq {"failed"} /\ next = "draft"
  \/ expected \subseteq Cancellable /\ next = "cancelled"
  \/ expected \subseteq {"generated"} /\ next = "sent" /\ mails > 0

LEMMA CasIsStep ==
  ASSUME app \in App, NEW expected, NEW next, NEW review, Arrow(expected, next),
         CasApp(expected, next, review), Ordered' = Ordered, mails' = mails
  PROVE  WorkflowStep
<1>1. CASE app.status \notin expected
  BY <1>1, KeptIsStutter DEF CasApp, BusinessKept
<1>2. CASE app.status \in expected
  <2>1. app'.status = next /\ app'.subject = app.subject
    BY <1>2 DEF CasApp, App
  <2>2. CASE expected \subseteq {"draft", "generated"} /\ next = "failed"
    <3>1. Workflow!Fail
      BY <1>2, <2>1, <2>2 DEF Workflow!Fail, Workflow!Become, Ordered
    <3> QED
      BY <3>1 DEF WorkflowStep, Workflow!Next
  <2>3. CASE expected \subseteq {"failed"} /\ next = "draft"
    <3>1. Workflow!Reopen
      BY <1>2, <2>1, <2>3 DEF Workflow!Reopen, Workflow!Become, Ordered
    <3> QED
      BY <3>1 DEF WorkflowStep, Workflow!Next
  <2>4. CASE expected \subseteq Cancellable /\ next = "cancelled"
    <3>1. Workflow!Cancel
      BY <1>2, <2>1, <2>4 DEF Workflow!Cancel, Workflow!Become, Ordered, Cancellable
    <3> QED
      BY <3>1 DEF WorkflowStep, Workflow!Next
  <2>5. CASE expected \subseteq {"generated"} /\ next = "sent" /\ mails > 0
    <3>1. Workflow!Finish
      BY <1>2, <2>1, <2>5 DEF Workflow!Finish, Workflow!Become, Ordered
    <3> QED
      BY <3>1 DEF WorkflowStep, Workflow!Next
  <2> QED
    BY <2>2, <2>3, <2>4, <2>5 DEF Arrow
<1> QED
  BY <1>1, <1>2

(* A send is ordered once its first row exists. *)
LEMMA OrderedByLength ==
  ASSUME jobs \in JobsType
  PROVE  Ordered <=> Len(jobs["send_email"]) > 0
<1>1. jobs["send_email"] \in Seq(RowStatus)
  BY DEF JobsType, Types
<1> QED
  BY <1>1, EmptySeq DEF Ordered

LEMMA CasKeepsOrdered ==
  ASSUME NEW type \in Types, NEW row \in Nat, NEW expected, NEW next \in RowStatus,
         jobs \in JobsType, CasJob(type, row, expected, next)
  PROVE  Ordered' = Ordered
<1>1. jobs' \in JobsType /\ Len(jobs'["send_email"]) = Len(jobs["send_email"])
  BY CasJobEffect DEF Types
<1>2. Ordered' <=> Len(jobs'["send_email"]) > 0
  BY <1>1, EmptySeq DEF Ordered, JobsType, Types
<1> QED
  BY <1>1, <1>2, OrderedByLength DEF Ordered

LEMMA CreateOrders ==
  ASSUME NEW type \in Types, jobs \in JobsType, CreateJob(type)
  PROVE  IF type = "send_email" THEN Ordered' = TRUE ELSE Ordered' = Ordered
<1>1. CASE type = "send_email"
  <2>1. jobs' \in JobsType /\ Len(jobs'["send_email"]) = Len(jobs["send_email"]) + 1
    BY <1>1, CreateJobEffect
  <2>2. Len(jobs["send_email"]) \in Nat
    BY DEF JobsType, Types
  <2>3. jobs'["send_email"] # <<>>
    BY <2>1, <2>2
  <2> QED
    BY <1>1, <2>3 DEF Ordered
<1>2. CASE type # "send_email"
  <2>1. jobs'["send_email"] = jobs["send_email"]
    BY <1>2 DEF CreateJob, JobsType, Types
  <2> QED
    BY <1>2, <2>1 DEF Ordered
<1> QED
  BY <1>1, <1>2

-----------------------------------------------------------------------------
(***************************************************************************)
(* What the steps rely on: the request that will order a send has seen an  *)
(* email, and the call that will mark an application sent has mailed it.   *)
(***************************************************************************)
BeforeCreate == {"check", "count", "reopen", "sendcheck", "create"}

SendRequestIsPrepared ==
  \A r \in Requests :
    reqs[r].type = "send_email" /\ reqs[r].pc \in BeforeCreate => app.subject

MarkedMeansMailed ==
  \A w \in Workers : run["send_email"][w].pc = "mark" => mails > 0

WorkflowInv == SendRequestIsPrepared /\ MarkedMeansMailed

(* An email that is there stays there. *)
SubjectStays == app.subject => app'.subject

LEMMA CasKeepsSubject ==
  ASSUME app \in App, NEW expected, NEW next, NEW review, CasApp(expected, next, review)
  PROVE  SubjectStays
  BY DEF CasApp, App, SubjectStays

(* Only a delivery leads to the bookkeeping of a sent mail. *)
NoNewMark ==
  \A w \in Workers :
    run'["send_email"][w].pc = "mark" => run["send_email"][w].pc = "mark"

LEMMA CallWithoutMark ==
  ASSUME run \in RunsType, NEW type \in Types, NEW w \in Workers,
         \/ \E pc \in PcsAfterClaim \ {"mark"} : Goto(type, w, pc)
         \/ \E outcome \in Outcome : EndWith(type, w, outcome)
         \/ \E recoverable \in BOOLEAN : Catch(type, w, recoverable)
         \/ \E call \in Runner : /\ run' = [run EXCEPT ![type][w] = call]
                                 /\ call.pc # "mark"
  PROVE  NoNewMark
<1>0. "send_email" \in Types
  BY DEF Types
<1>1. ASSUME NEW pc \in PcsAfterClaim \ {"mark"}, Goto(type, w, pc) PROVE NoNewMark
  BY <1>0, <1>1, GotoEffect DEF OthersKeepTheirCall, NoNewMark
<1>2. ASSUME NEW outcome \in Outcome, EndWith(type, w, outcome) PROVE NoNewMark
  BY <1>0, <1>2, EndWithEffect DEF OthersKeepTheirCall, NoNewMark
<1>3. ASSUME NEW recoverable \in BOOLEAN, Catch(type, w, recoverable) PROVE NoNewMark
  BY <1>0, <1>3, CatchEffect DEF OthersKeepTheirCall, NoNewMark
<1>4. ASSUME NEW call \in Runner, run' = [run EXCEPT ![type][w] = call], call.pc # "mark"
      PROVE  NoNewMark
  BY <1>0, <1>4, NewCallEffect DEF OthersKeepTheirCall, NoNewMark
<1> QED
  BY <1>1, <1>2, <1>3, <1>4

(***************************************************************************)
(* What each step of a worker does: a step of the workflow, that counts    *)
(* the mail before the call gets to its bookkeeping and keeps the email.   *)
(***************************************************************************)
WorkerStepOK ==
  /\ WorkflowStep
  /\ NoNewMark \/ mails' > 0
  /\ mails' \in Nat /\ mails' >= mails
  /\ SubjectStays

LEMMA KeptIsOK ==
  ASSUME TypeOK, BusinessKept, NoNewMark
  PROVE  WorkerStepOK
<1>1. mails \in Nat
  BY TypeOKByParts
<1> QED
  BY <1>1, KeptIsStutter DEF BusinessKept, WorkerStepOK, SubjectStays

LEMMA CasIsOK ==
  ASSUME TypeOK, NoNewMark, NEW expected, NEW next, NEW review, Arrow(expected, next),
         CasApp(expected, next, review), jobs' = jobs, mails' = mails
  PROVE  WorkerStepOK
<1>1. mails \in Nat /\ app \in App /\ Ordered' = Ordered
  BY TypeOKByParts DEF Ordered
<1> QED
  BY <1>1, CasIsStep, CasKeepsSubject DEF WorkerStepOK

(* The mail goes out: the row being executed shows that it was ordered. *)
LEMMA DeliveryIsOK ==
  ASSUME TypeOK, ClaimInv, NEW w \in Workers, MaySend(w),
         app' = app, jobs' = jobs, mails' = mails + 1
  PROVE  WorkerStepOK
<1>1. mails \in Nat /\ jobs \in JobsType
  BY TypeOKByParts
<1>2. run["send_email"][w].row \in 1..Len(jobs["send_email"])
  BY DEF MaySend, At, Executing, ClaimInv, CalledRowExists, Types
<1>3. Len(jobs["send_email"]) > 0
  BY <1>1, <1>2 DEF JobsType, Types
<1>4. Ordered
  BY <1>1, <1>3, OrderedByLength
<1>5. Workflow!Deliver
  BY <1>4 DEF Workflow!Deliver, Ordered
<1>6. WorkflowStep
  BY <1>5 DEF WorkflowStep, Workflow!Next
<1> QED
  BY <1>1, <1>6 DEF WorkerStepOK, SubjectStays

(* The transaction of the process worker: generated, or held for review. *)
LEMMA ProcessCommitIsOK ==
  ASSUME TypeOK, NEW w \in Workers, NEW next \in {"generated", "needs_review"},
         NEW sendNow \in BOOLEAN, ProcessCommit(w, next, sendNow),
         next = "needs_review" => ~sendNow
  PROVE  WorkerStepOK
<1>1. /\ app \in App /\ jobs \in JobsType /\ run \in RunsType /\ mails \in Nat
  BY TypeOKByParts
<1>2. /\ app.status = "draft" /\ app'.status = next /\ app'.subject = TRUE
      /\ mails' = mails
  BY <1>1 DEF ProcessCommit, App
<1>3. "ai_process" \in Types /\ "send_email" \in Types
      /\ {"enqueue"} \subseteq PcsAfterClaim \ {"mark"} /\ "ok" \in Outcome
  BY DEF Types, PcsAfterClaim, Outcome
<1>4. NoNewMark
  BY <1>1, <1>3, CallWithoutMark DEF ProcessCommit
<1>5. jobs["send_email"] \in Seq(RowStatus)
  BY <1>1, <1>3 DEF JobsType
<1>6. IF sendNow THEN Ordered' = TRUE ELSE Ordered' = Ordered
  <2>1. CASE sendNow
    <3>1. jobs'["send_email"] = Append(jobs["send_email"], "queued")
      BY <1>1, <2>1 DEF ProcessCommit, JobsType, Types
    <3>2. Append(jobs["send_email"], "queued") # <<>>
      BY <1>5
    <3> QED
      BY <2>1, <3>1, <3>2 DEF Ordered
  <2>2. CASE ~sendNow
    <3>1. jobs'["send_email"] = jobs["send_email"]
      BY <1>1, <2>2 DEF ProcessCommit, JobsType, Types
    <3> QED
      BY <2>2, <3>1 DEF Ordered
  <2> QED
    BY <2>1, <2>2
<1>7. CASE next = "generated"
  <2>1. Workflow!Generate
    BY <1>2, <1>6, <1>7 DEF Workflow!Generate, Workflow!Become, Ordered
  <2>2. WorkflowStep
    BY <2>1 DEF WorkflowStep, Workflow!Next
  <2> QED
    BY <1>1, <1>2, <1>4, <2>2 DEF WorkerStepOK, SubjectStays
<1>8. CASE next = "needs_review"
  <2>1. Workflow!Hold
    BY <1>2, <1>6, <1>8 DEF Workflow!Hold, Workflow!Become, Ordered
  <2>2. WorkflowStep
    BY <2>1 DEF WorkflowStep, Workflow!Next
  <2> QED
    BY <1>1, <1>2, <1>4, <2>2 DEF WorkerStepOK, SubjectStays
<1> QED
  BY <1>7, <1>8

LEMMA WorkersFollowWorkflow ==
  ASSUME TypeOK, ClaimInv, MarkedMeansMailed, WorkersAct
  PROVE  WorkerStepOK
<1>1. /\ app \in App /\ jobs \in JobsType /\ run \in RunsType
      /\ "ai_process" \in Types /\ "send_email" \in Types
      /\ {"ok", "transient", "permanent"} \subseteq Outcome
      /\ {"work", "enqueue", "finish", "failrow", "failapp"} \subseteq PcsAfterClaim \ {"mark"}
      /\ {"queued", "processing", "completed", "failed"} \subseteq RowStatus
  BY TypeOKByParts DEF Types, Outcome, PcsAfterClaim, RowStatus
<1>2. \A type \in Types, w \in Workers : run[type][w].row \in Nat
                                         /\ run[type][w].outcome \in Outcome
  BY <1>1 DEF RunsType, Runner
<1>3. /\ Idle \in Runner /\ \A type \in Types : Loaded(type) \in Runner
      /\ \A outcome \in Outcome : Rejected(outcome) \in Runner /\ SendEntry \in Runner
  BY TypeOKByParts, CallTypes
<1>4. /\ Idle.pc # "mark" /\ \A type \in Types : Loaded(type).pc # "mark"
      /\ \A outcome \in Outcome : Rejected(outcome).pc # "mark"
  BY DEF Idle, Loaded, Rejected
<1>5. SendEntry.pc # "mark"
  BY <1>1, <1>4 DEF SendEntry
<1>6. ASSUME app' = app, jobs' = jobs, mails' = mails, NoNewMark PROVE WorkerStepOK
  BY <1>6, KeptIsOK DEF BusinessKept, Ordered
<1>7. ASSUME app' = app, mails' = mails, NoNewMark, NEW type \in Types, NEW row \in Nat,
             NEW expected, NEW next \in RowStatus, CasJob(type, row, expected, next)
      PROVE  WorkerStepOK
  BY <1>1, <1>7, CasKeepsOrdered, KeptIsOK DEF BusinessKept
<1>8. ASSUME NEW type \in Types, NEW w \in Workers, SharedStep(type, w) PROVE WorkerStepOK
  <2>1. CASE ClaimWins(type, w)
    BY <1>1, <1>2, <1>7, <2>1, CallWithoutMark DEF ClaimWins
  <2>2. CASE ClaimLost(type, w)
    BY <1>1, <1>6, <2>2, CallWithoutMark DEF ClaimLost
  <2>3. CASE FailRow(type, w)
    BY <1>1, <1>2, <1>7, <2>3, CallWithoutMark DEF FailRow
  <2>4. CASE FailApp(type, w)
    <3>1. Arrow(FailableFrom(type), "failed")
      BY DEF Arrow, FailableFrom
    <3>2. NoNewMark
      BY <1>1, <2>4, CallWithoutMark DEF FailApp
    <3> QED
      BY <2>4, <3>1, <3>2, CasIsOK DEF FailApp
  <2>5. CASE Settle(type, w)
    BY <1>1, <1>3, <1>4, <1>6, <2>5, CallWithoutMark DEF Settle
  <2> QED
    BY <1>8, <2>1, <2>2, <2>3, <2>4, <2>5 DEF SharedStep
<1>9. ASSUME NEW w \in Workers, ProcessStep(w) PROVE WorkerStepOK
  <2>1. CASE ProcessLoad(w)
    <3>1. run' = [run EXCEPT !["ai_process"][w] = Loaded("ai_process")]
          \/ run' = [run EXCEPT !["ai_process"][w] = Rejected("transient")]
      BY <2>1 DEF ProcessLoad
    <3>2. NoNewMark
      BY <1>1, <1>3, <1>4, <3>1, CallWithoutMark
    <3> QED
      BY <1>6, <2>1, <3>2 DEF ProcessLoad
  <2>2. CASE ProcessConflict(w)
    BY <1>1, <1>6, <2>2, CallWithoutMark DEF ProcessConflict
  <2>3. CASE ProcessNeedsReview(w)
    BY <2>3, ProcessCommitIsOK DEF ProcessNeedsReview
  <2>4. CASE ProcessGenerates(w)
    BY <2>4, ProcessCommitIsOK DEF ProcessGenerates
  <2>5. CASE ProcessEnqueuesSend(w)
    BY <1>1, <1>6, <2>5, CallWithoutMark DEF ProcessEnqueuesSend
  <2> QED
    BY <1>1, <1>8, <1>9, <2>1, <2>2, <2>3, <2>4, <2>5 DEF ProcessStep
<1>10. ASSUME NEW w \in Workers, At("send_email", w, "mark"),
              \E recoverable \in BOOLEAN :
                \/ Goto("send_email", w, "finish")
                \/ Catch("send_email", w, recoverable),
              CasApp({"generated"}, "sent", app.review) \/ app' = app,
              jobs' = jobs, mails' = mails
       PROVE  WorkerStepOK
  <2>1. Arrow({"generated"}, "sent")
    BY <1>10 DEF Arrow, MarkedMeansMailed, At
  <2>2. NoNewMark
    BY <1>1, <1>10, CallWithoutMark
  <2> QED
    BY <1>6, <1>10, <2>1, <2>2, CasIsOK
<1>11. ASSUME NEW w \in Workers, SendStep(w) PROVE WorkerStepOK
  <2>1. CASE SendLoad(w)
    BY <1>1, <1>3, <1>5, <1>6, <2>1, CallWithoutMark DEF SendLoad
  <2>2. CASE SendRejects(w)
    BY <1>1, <1>6, <2>2, CallWithoutMark DEF SendRejects
  <2>3. CASE Deliver(w)
    BY <2>3, DeliveryIsOK DEF Deliver
  <2>4. CASE MarkSent(w)
    BY <1>10, <2>4 DEF MarkSent
  <2>5. CASE FinishSend(w)
    BY <1>1, <1>2, <1>7, <2>5, CallWithoutMark DEF FinishSend
  <2>6. CASE Requeue(w)
    BY <1>1, <1>2, <1>7, <2>6, CallWithoutMark DEF Requeue
  <2> QED
    BY <1>1, <1>8, <1>11, <2>1, <2>2, <2>3, <2>4, <2>5, <2>6 DEF SendStep
<1>12. ASSUME NEW w \in Workers, WorkerTrouble(w) PROVE WorkerStepOK
  <2>1. ASSUME NEW type \in Types, ClaimThenFault(type, w) PROVE WorkerStepOK
    BY <1>1, <1>2, <1>7, <2>1, CallWithoutMark DEF ClaimThenFault
  <2>2. ASSUME NEW type \in Types, PersistFault(type, w) PROVE WorkerStepOK
    <3>1. NoNewMark
      <4>1. CASE Goto(type, w, "failapp")
        BY <1>1, <4>1, CallWithoutMark
      <4>2. ASSUME NEW outcome \in Outcome, EndWith(type, w, outcome) PROVE NoNewMark
        BY <1>1, <4>2, CallWithoutMark
      <4> QED
        BY <1>1, <2>2, <4>1, <4>2 DEF PersistFault
    <3>2. Arrow(FailableFrom(type), "failed")
      BY DEF Arrow, FailableFrom
    <3>3. CasApp(FailableFrom(type), "failed", FALSE) \/ app' = app
      BY <2>2 DEF PersistFault
    <3>4. jobs' = jobs /\ mails' = mails
      BY <2>2 DEF PersistFault
    <3> QED
      BY <1>6, <3>1, <3>2, <3>3, <3>4, CasIsOK
  <2>3. ASSUME NEW type \in Types, CatchFault(type, w) PROVE WorkerStepOK
    BY <1>1, <1>6, <2>3, CallWithoutMark DEF CatchFault
  <2>4. ASSUME ProcessFails(w) \/ ProcessEnqueueFault(w) PROVE WorkerStepOK
    BY <1>1, <1>6, <2>4, CallWithoutMark DEF ProcessFails, Fails, ProcessEnqueueFault
  <2>5. CASE ProcessFailsUnclassified(w)
    BY <1>1, <1>6, <2>5, CallWithoutMark DEF ProcessFailsUnclassified
  <2>6. CASE SendFails(w)
    BY <1>1, <1>6, <2>6, CallWithoutMark DEF SendFails, Fails
  <2>7. CASE DeliverThenFault(w)
    BY <2>7, DeliveryIsOK DEF DeliverThenFault
  <2>8. CASE MarkSentFault(w)
    BY <1>10, <2>8 DEF MarkSentFault
  <2>9. CASE WorkerCrash(w)
    <3>1. NoNewMark
      BY <1>1, <1>4, <2>9 DEF WorkerCrash, RunsType, NoNewMark
    <3> QED
      BY <1>6, <2>9, <3>1 DEF WorkerCrash
  <2> QED
    BY <1>12, <2>1, <2>2, <2>3, <2>4, <2>5, <2>6, <2>7, <2>8, <2>9 DEF WorkerTrouble
<1>13. ASSUME (\E type \in Types : LockExpires(type)) \/ FinishedJobExpires
       PROVE  WorkerStepOK
  <2>1. app' = app /\ jobs' = jobs /\ mails' = mails /\ run' = run
    BY <1>13 DEF LockExpires, FinishedJobExpires
  <2> QED
    BY <1>6, <2>1 DEF NoNewMark
<1> QED
  BY <1>9, <1>11, <1>12, <1>13 DEF WorkersAct, WorkerNext

-----------------------------------------------------------------------------
(* Requests and the recovery job.                                          *)

LEMMA RequestsFollowWorkflow ==
  ASSUME TypeOK, SendRequestIsPrepared, RequestsAct
  PROVE  WorkflowStep /\ SubjectStays
<1>1. /\ app \in App /\ jobs \in JobsType /\ reqs \in ReqsType
      /\ \A r \in Requests : reqs[r].type \in Types
      /\ mails' = mails /\ "send_email" \in Types
  BY TypeOKByParts DEF RequestsAct, ReqsType, Request, Types
<1>2. ASSUME app' = app, jobs' = jobs PROVE WorkflowStep /\ SubjectStays
  BY <1>1, <1>2, KeptIsStutter DEF BusinessKept, Ordered, SubjectStays
<1>3. ASSUME NEW r \in Requests, RetryCount(r) PROVE WorkflowStep /\ SubjectStays
  <2>1. /\ app'.status = app.status /\ app'.subject = app.subject /\ jobs' = jobs
    BY <1>1, <1>3 DEF RetryCount, App
  <2> QED
    BY <1>1, <2>1, KeptIsStutter DEF BusinessKept, Ordered, SubjectStays
<1>4. ASSUME NEW r \in Requests, RetryReopen(r) PROVE WorkflowStep /\ SubjectStays
  <2>1. CASE CasApp({"failed"}, "draft", FALSE)
    <3>1. Arrow({"failed"}, "draft") /\ Ordered' = Ordered
      BY <1>4 DEF Arrow, Ordered, RetryReopen
    <3> QED
      BY <1>1, <2>1, <3>1, CasIsStep, CasKeepsSubject
  <2>2. CASE app' = app
    BY <1>2, <1>4, <2>2 DEF RetryReopen
  <2> QED
    BY <1>4, <2>1, <2>2 DEF RetryReopen
<1>5. ASSUME Cancel PROVE WorkflowStep /\ SubjectStays
  <2>1. Arrow(Cancellable, "cancelled") /\ Ordered' = Ordered
    BY <1>5 DEF Arrow, Ordered, Cancel
  <2> QED
    BY <1>1, <1>5, <2>1, CasIsStep, CasKeepsSubject DEF Cancel
<1>6. ASSUME NEW r \in Requests, CreateRow(r) PROVE WorkflowStep /\ SubjectStays
  <2>1. app' = app
    BY <1>6 DEF CreateRow
  <2>2. IF reqs[r].type = "send_email" THEN Ordered' = TRUE ELSE Ordered' = Ordered
    BY <1>1, <1>6, CreateOrders DEF CreateRow
  <2>3. CASE reqs[r].type = "send_email"
    <3>1. app.subject
      BY <1>6, <2>3 DEF SendRequestIsPrepared, BeforeCreate, CreateRow
    <3>2. Workflow!Order
      BY <1>1, <2>1, <2>2, <2>3, <3>1 DEF Workflow!Order, Ordered
    <3> QED
      BY <2>1, <3>2 DEF WorkflowStep, Workflow!Next, SubjectStays
  <2>4. CASE reqs[r].type # "send_email"
    BY <1>1, <2>1, <2>2, <2>4, KeptIsStutter DEF BusinessKept, SubjectStays
  <2> QED
    BY <2>3, <2>4
<1>7. ASSUME NEW r \in Requests, ContinueCommit(r) PROVE WorkflowStep /\ SubjectStays
  <2>1. /\ app.status = "needs_review" /\ app'.status = "generated"
        /\ app'.subject = app.subject
    BY <1>1, <1>7 DEF ContinueCommit, CasApp, App
  <2>2. Ordered' = TRUE
    BY <1>1, <1>7, CreateOrders DEF ContinueCommit
  <2>3. Workflow!Release
    BY <1>1, <2>1, <2>2 DEF Workflow!Release, Workflow!Become, Ordered
  <2> QED
    BY <2>1, <2>3 DEF WorkflowStep, Workflow!Next, SubjectStays
<1> QED
  BY <1>2, <1>3, <1>4, <1>5, <1>6, <1>7
     DEF RequestsAct, CommandNext, RequestStep, RetryRead, RetryCheck, EnqueueRow,
         ContinueCheck, ContinueConflict, SendRead, SendCheck, RequestDies

(* A request gets to its row with an email at hand, and keeps its type. *)
LEMMA RequestsStayPrepared ==
  ASSUME TypeOK, SendRequestIsPrepared, SubjectStays, RequestsAct
  PROVE  SendRequestIsPrepared'
<1>1. reqs \in ReqsType
  BY TypeOKByParts
<1>2. ASSUME reqs' = reqs PROVE SendRequestIsPrepared'
  BY <1>2 DEF SendRequestIsPrepared, SubjectStays
<1>3. ASSUME NEW r \in Requests, NEW next,
             reqs' = [reqs EXCEPT ![r] = next],
             next.type = "send_email" /\ next.pc \in BeforeCreate => app.subject
      PROVE  SendRequestIsPrepared'
  BY <1>1, <1>3 DEF SendRequestIsPrepared, SubjectStays, ReqsType
<1>4. ASSUME NEW r \in Requests, Done(r) PROVE SendRequestIsPrepared'
  <2>1. NoRequest.pc \notin BeforeCreate
    BY DEF NoRequest, BeforeCreate
  <2> QED
    BY <1>3, <1>4, <2>1 DEF Done
<1>5. ASSUME NEW r \in Requests, NEW pc, Advance(r, pc),
             pc \in BeforeCreate => reqs[r].pc \in BeforeCreate
      PROVE  SendRequestIsPrepared'
  <2> DEFINE next == [reqs[r] EXCEPT !.pc = pc]
  <2>1. reqs' = [reqs EXCEPT ![r] = next]
    BY <1>5 DEF Advance
  <2>2. next.pc = pc /\ next.type = reqs[r].type
    BY <1>1 DEF ReqsType, Request
  <2>3. next.type = "send_email" /\ next.pc \in BeforeCreate => app.subject
    BY <1>5, <2>2 DEF SendRequestIsPrepared
  <2> HIDE DEF next
  <2> QED
    BY <1>3, <2>1, <2>3
<1>6. ASSUME NEW r \in Requests, NEW pc, NEW type, Proceed(r, pc, type),
             type = "send_email" /\ pc \in BeforeCreate => app.subject
      PROVE  SendRequestIsPrepared'
  <2> DEFINE next == [pc |-> pc, type |-> type, seen |-> app.status]
  <2>1. next.type = type /\ next.pc = pc
    OBVIOUS
  <2>2. reqs' = [reqs EXCEPT ![r] = next]
    BY <1>6 DEF Proceed
  <2> HIDE DEF next
  <2> QED
    BY <1>3, <1>6, <2>1, <2>2
<1>7. ASSUME NEW r \in Requests, RequestStep(r) PROVE SendRequestIsPrepared'
  BY <1>4, <1>5, <1>7
     DEF RequestStep, RetryCheck, RetryCount, RetryReopen, SendCheck, CreateRow,
         EnqueueRow, ContinueCommit, ContinueConflict, BeforeCreate
<1>8. ASSUME NEW r \in Requests, RetryRead(r) PROVE SendRequestIsPrepared'
  <2>1. RetryTarget = "send_email" => app.subject
    BY DEF RetryTarget
  <2> QED
    BY <1>6, <1>8, <2>1 DEF RetryRead
<1>9. ASSUME NEW r \in Requests, ContinueCheck(r) PROVE SendRequestIsPrepared'
  BY <1>6, <1>9 DEF ContinueCheck, BeforeCreate
<1>10. ASSUME NEW r \in Requests, SendRead(r) PROVE SendRequestIsPrepared'
  BY <1>6, <1>10 DEF SendRead
<1> QED
  BY <1>2, <1>4, <1>7, <1>8, <1>9, <1>10
     DEF RequestsAct, CommandNext, RequestDies, Cancel

LEMMA RecoveryFollowsWorkflow ==
  ASSUME TypeOK, JobHasRow, RecoveryActs
  PROVE  WorkflowStep /\ SubjectStays
<1>1. /\ app \in App /\ jobs \in JobsType /\ rec.type \in Types /\ rec.row \in Nat
      /\ mails' = mails /\ {"completed", "failed", "retrying"} \subseteq RowStatus
  BY TypeOKByParts DEF RecoveryActs, Sweep, RowStatus
<1>2. ASSUME app' = app, Ordered' = Ordered PROVE WorkflowStep /\ SubjectStays
  BY <1>1, <1>2, KeptIsStutter DEF BusinessKept, SubjectStays
<1>3. ASSUME app' = app, jobs' = jobs PROVE WorkflowStep /\ SubjectStays
  BY <1>2, <1>3 DEF Ordered
<1>4. ASSUME RecSync \/ RecFailRow \/ RecReset PROVE WorkflowStep /\ SubjectStays
  BY <1>1, <1>2, <1>4, CasKeepsOrdered DEF RecSync, RecFailRow, RecReset
<1>5. ASSUME RecFailApp PROVE WorkflowStep /\ SubjectStays
  <2>1. Arrow({"draft", "generated"}, "failed") /\ Ordered' = Ordered
    BY <1>5 DEF Arrow, Ordered, RecFailApp
  <2> QED
    BY <1>1, <1>5, <2>1, CasIsStep, CasKeepsSubject DEF RecFailApp
<1>6. ASSUME RecCreate PROVE WorkflowStep /\ SubjectStays
  <2>1. LatestRow(rec.type) > 0
    BY <1>6 DEF RecCreate, RecAt, JobHasRow
  <2>2. rec.type = "send_email" => Ordered
    BY <1>1, <2>1, OrderedByLength DEF LatestRow
  <2>3. Ordered' = Ordered
    BY <1>1, <1>6, <2>2, CreateOrders DEF RecCreate, Ordered
  <2> QED
    BY <1>2, <1>6, <2>3 DEF RecCreate
<1> QED
  BY <1>3, <1>4, <1>5, <1>6
     DEF RecoveryActs, RecoveryNext, RecoveryStep, RecPick, RecInspect, RecEnqueue, RecAborts

-----------------------------------------------------------------------------
(* The invariant the simulation rests on, and the simulation.              *)

LEMMA StepFollowsWorkflow ==
  ASSUME TypeOK, JobHasRow, ClaimInv, WorkflowInv, [Next]_vars
  PROVE  WorkflowStep /\ WorkflowInv'
<1>1. SendRequestIsPrepared /\ MarkedMeansMailed /\ mails \in Nat
  BY TypeOKByParts DEF WorkflowInv
<1>2. CASE WorkersAct
  <2>1. WorkerStepOK
    BY <1>1, <1>2, WorkersFollowWorkflow
  <2>2. SendRequestIsPrepared'
    BY <1>1, <1>2, <2>1 DEF WorkersAct, SendRequestIsPrepared, WorkerStepOK, SubjectStays
  <2>3. MarkedMeansMailed'
    BY <1>1, <2>1 DEF WorkerStepOK, MarkedMeansMailed, NoNewMark
  <2> QED
    BY <2>1, <2>2, <2>3 DEF WorkerStepOK, WorkflowInv
<1>3. CASE RequestsAct
  <2>1. MarkedMeansMailed'
    BY <1>1, <1>3 DEF RequestsAct, MarkedMeansMailed
  <2> QED
    BY <1>1, <1>3, <2>1, RequestsFollowWorkflow, RequestsStayPrepared DEF WorkflowInv
<1>4. CASE RecoveryActs
  <2>1. WorkflowStep /\ SubjectStays
    BY <1>4, RecoveryFollowsWorkflow
  <2>2. WorkflowInv'
    BY <1>1, <1>4, <2>1
       DEF RecoveryActs, WorkflowInv, MarkedMeansMailed, SendRequestIsPrepared, SubjectStays
  <2> QED
    BY <2>1, <2>2
<1>5. CASE UNCHANGED vars
  <2>1. BusinessKept
    BY <1>5 DEF vars, BusinessKept, Ordered
  <2>2. WorkflowInv'
    BY <1>1, <1>5 DEF vars, WorkflowInv, MarkedMeansMailed, SendRequestIsPrepared
  <2> QED
    BY <2>1, <2>2, KeptIsStutter
<1> QED
  BY <1>2, <1>3, <1>4, <1>5 DEF Next

LEMMA InitFollowsWorkflow == Init => Workflow!Init /\ WorkflowInv
<1> SUFFICES ASSUME Init PROVE Workflow!Init /\ WorkflowInv
  OBVIOUS
<1>1. PICK s \in BOOLEAN :
        app = [status |-> "draft", review |-> FALSE, subject |-> s, retries |-> 0]
  BY DEF Init
<1>2. jobs["send_email"] = <<>> /\ mails = 0
  BY DEF Init, Types
<1>3. Workflow!Init
  BY <1>1, <1>2 DEF Workflow!Init
<1>4. \A r \in Requests : reqs[r].pc \notin BeforeCreate
  BY DEF Init, NoRequest, BeforeCreate
<1>5. \A w \in Workers : run["send_email"][w].pc = "idle"
  BY DEF Init, Idle, Types
<1> QED
  BY <1>3, <1>4, <1>5 DEF WorkflowInv, SendRequestIsPrepared, MarkedMeansMailed

(***************************************************************************)
(* Requests, workers and recovery together, with every failure the model   *)
(* has, implement the business workflow.                                   *)
(***************************************************************************)
THEOREM LifecycleIsWorkflow == Spec => ImplementsWorkflow
<1>1. /\ TypeOK /\ JobHasRow /\ ClaimInv /\ WorkflowInv /\ [Next]_vars
      => WorkflowStep /\ WorkflowInv'
  BY StepFollowsWorkflow
<1> QED
  BY <1>1, InitFollowsWorkflow, TypeCorrect, JobsHaveRows, ClaimInvHolds, PTL
     DEF Spec, ImplementsWorkflow, Workflow!Spec, WorkflowStep

(* A step uses up at most one unit of one budget. *)
LEMMA StepsSpend ==
  ASSUME TypeOK, [Next]_vars
  PROVE  spent' = spent \/ \E kind \in Kinds : Spend(kind)
<1>1. /\ {"retry", "continue", "send", "cancel", "crash", "stall", "drop", "abort",
          "transient", "permanent", "unclassified", "fault", "expire"} \subseteq Kinds
      /\ Types = {"ai_process", "send_email"}
  BY DEF Kinds, Types
<1> DEFINE Fact == spent' = spent \/ \E kind \in Kinds : Spend(kind)
<1>2. ASSUME NEW type \in Types, NEW w \in Workers, SharedStep(type, w) PROVE Fact
  BY <1>2 DEF SharedStep, ClaimWins, ClaimLost, FailRow, FailApp, Settle
<1>3. ASSUME NEW w \in Workers, ProcessStep(w) PROVE Fact
  BY <1>1, <1>2, <1>3
     DEF ProcessStep, ProcessLoad, ProcessConflict, ProcessNeedsReview, ProcessGenerates,
         ProcessCommit, ProcessEnqueuesSend
<1>4. ASSUME NEW w \in Workers, SendStep(w) PROVE Fact
  BY <1>1, <1>2, <1>4
     DEF SendStep, SendLoad, SendRejects, Deliver, MarkSent, FinishSend, Requeue
<1>5. ASSUME NEW w \in Workers, WorkerTrouble(w) PROVE Fact
  BY <1>1, <1>5
     DEF WorkerTrouble, ClaimThenFault, PersistFault, CatchFault, ProcessFails, SendFails,
         Fails, ProcessFailsUnclassified, ProcessEnqueueFault, DeliverThenFault,
         MarkSentFault, WorkerCrash
<1>6. ASSUME NEW type \in Types, LockExpires(type) PROVE Fact
  BY <1>1, <1>6 DEF LockExpires
<1>7. ASSUME FinishedJobExpires PROVE Fact
  BY <1>1, <1>7 DEF FinishedJobExpires
<1>8. ASSUME RequestsAct PROVE Fact
  BY <1>1, <1>8
     DEF RequestsAct, CommandNext, RequestStep, RetryCheck, RetryCount, RetryReopen,
         SendCheck, CreateRow, EnqueueRow, ContinueCommit, ContinueConflict, RequestDies,
         RetryRead, ContinueCheck, SendRead, Cancel
<1>9. ASSUME RecoveryActs PROVE Fact
  BY <1>1, <1>9
     DEF RecoveryActs, RecoveryNext, RecoveryStep, RecPick, RecInspect, RecSync, RecEnqueue,
         RecFailRow, RecFailApp, RecReset, RecCreate, RecAborts
<1>10. CASE UNCHANGED vars
  BY <1>10 DEF vars
<1> QED
  BY <1>3, <1>4, <1>5, <1>6, <1>7, <1>8, <1>9, <1>10 DEF Next, WorkersAct, WorkerNext

(* What has been used up stays used up. *)
LEMMA SpentGrows ==
  ASSUME TypeOK, [Next]_vars
  PROVE  \A kind \in Kinds : spent[kind] \in Nat /\ spent'[kind] \in Nat
                             /\ spent[kind] <= spent'[kind]
<1>1. spent \in [Kinds -> Nat]
  BY TypeOKByParts
<1>2. CASE spent' = spent
  BY <1>1, <1>2
<1>3. ASSUME NEW kind \in Kinds, Spend(kind)
      PROVE  \A k \in Kinds : spent[k] \in Nat /\ spent'[k] \in Nat /\ spent[k] <= spent'[k]
  BY <1>1, <1>3 DEF Spend
<1> QED
  BY <1>2, <1>3, StepsSpend

(* What was never used is not used by this step either, if it is unused after it. *)
LEMMA UnusedIsNotSpent ==
  ASSUME TypeOK, [Next]_vars, NEW kind \in Kinds, spent'[kind] = 0
  PROVE  spent[kind] = 0 /\ ~Spend(kind)
<1>1. spent \in [Kinds -> Nat]
  BY TypeOKByParts
<1>2. spent[kind] = 0
  BY SpentGrows
<1>3. ASSUME Spend(kind) PROVE FALSE
  BY <1>1, <1>3 DEF Spend
<1> QED
  BY <1>2, <1>3

-----------------------------------------------------------------------------
(* The lock of a job is held by the call that runs it.                     *)

Live(type, w) == run[type][w].pc # "idle"

CallsHoldLocks ==
  \A type \in Types, w \in Workers :
    Live(type, w) => bull[type].state = "active" /\ bull[type].owner = w

HeldInv == spent["stall"] = 0 => CallsHoldLocks

(* A step inside a call: BullMQ learns nothing of it. *)
InsideCall(type, w) ==
  /\ Live(type, w) /\ Live(type, w)'
  /\ OthersKeepTheirCall(type, w)
  /\ bull' = bull \/ Enqueue("send_email")

BeginsCall(type, w) == TakeJob(type, w) /\ OthersKeepTheirCall(type, w)

LEMMA WorkerShapes ==
  ASSUME TypeOK, WorkersAct
  PROVE  \/ \E type \in Types, w \in Workers :
              InsideCall(type, w) \/ BeginsCall(type, w) \/ Settle(type, w)
         \/ \E type \in Types : LockExpires(type)
         \/ FinishedJobExpires
         \/ \E w \in Workers : WorkerCrash(w)
<1>1. /\ run \in RunsType /\ "ai_process" \in Types /\ "send_email" \in Types
      /\ Types = {"ai_process", "send_email"}
      /\ {"ok", "transient", "permanent"} \subseteq Outcome
      /\ {"work", "enqueue", "mark", "finish", "failrow", "failapp"} \subseteq PcsAfterClaim
  BY TypeOKByParts DEF Types, Outcome, PcsAfterClaim
<1> DEFINE Fact == \E type \in Types, w \in Workers :
              InsideCall(type, w) \/ BeginsCall(type, w) \/ Settle(type, w)
<1>2. ASSUME NEW type \in Types, NEW w \in Workers, NEW pc \in PcsAfterClaim,
             Live(type, w), Goto(type, w, pc), bull' = bull \/ Enqueue("send_email")
      PROVE  InsideCall(type, w)
  <2>1. run'[type][w].pc = pc /\ OthersKeepTheirCall(type, w)
    BY <1>1, <1>2, GotoEffect
  <2> QED
    BY <1>2, <2>1 DEF InsideCall, Live, PcsAfterClaim
<1>3. ASSUME NEW type \in Types, NEW w \in Workers, NEW outcome,
             Live(type, w), EndWith(type, w, outcome), bull' = bull \/ Enqueue("send_email")
      PROVE  InsideCall(type, w)
  <2>1. run'[type][w].pc = "settle" /\ OthersKeepTheirCall(type, w)
    BY <1>1, <1>3, EndWithEffect
  <2> QED
    BY <1>3, <2>1 DEF InsideCall, Live
<1>4. ASSUME NEW type \in Types, NEW w \in Workers, NEW recoverable \in BOOLEAN,
             Live(type, w), Catch(type, w, recoverable), bull' = bull
      PROVE  InsideCall(type, w)
  <2>1. run'[type][w].pc # "idle" /\ OthersKeepTheirCall(type, w)
    BY <1>1, <1>4, CatchEffect
  <2> QED
    BY <1>4, <2>1 DEF InsideCall, Live
<1>5. ASSUME NEW type \in Types, NEW w \in Workers, SharedStep(type, w)
      PROVE  InsideCall(type, w) \/ Settle(type, w)
  BY <1>1, <1>2, <1>3, <1>5
     DEF SharedStep, ClaimWins, ClaimLost, FailRow, FailApp, At, Live
<1>6. ASSUME NEW w \in Workers, NEW type \in Types, NEW call, TakeJob(type, w),
             run' = [run EXCEPT ![type][w] = call]
      PROVE  BeginsCall(type, w)
  BY <1>1, <1>6, NewCallEffect DEF BeginsCall
<1>7. ASSUME NEW w \in Workers, ProcessLoad(w) \/ SendLoad(w) PROVE Fact
  BY <1>1, <1>6, <1>7 DEF ProcessLoad, SendLoad
<1>8. ASSUME NEW w \in Workers, NEW next, NEW sendNow \in BOOLEAN, ProcessCommit(w, next, sendNow)
      PROVE  InsideCall("ai_process", w)
  BY <1>1, <1>2, <1>3, <1>8 DEF ProcessCommit, At, Live
<1>9. ASSUME NEW w \in Workers, ProcessStep(w) PROVE Fact
  <2>1. CASE ProcessConflict(w)
    BY <1>1, <1>4, <2>1 DEF ProcessConflict, At, Live
  <2>2. CASE ProcessEnqueuesSend(w)
    BY <1>1, <1>3, <2>2 DEF ProcessEnqueuesSend, At, Live
  <2> QED
    BY <1>1, <1>5, <1>7, <1>8, <1>9, <2>1, <2>2
       DEF ProcessStep, ProcessNeedsReview, ProcessGenerates
<1>10. ASSUME NEW w \in Workers, SendStep(w) PROVE Fact
  <2>1. CASE SendRejects(w)
    BY <1>1, <1>4, <2>1 DEF SendRejects, At, Live
  <2>2. CASE Deliver(w)
    BY <1>1, <1>2, <2>2 DEF Deliver, MaySend, At, Live
  <2>3. CASE MarkSent(w)
    BY <1>1, <1>2, <1>4, <2>3 DEF MarkSent, At, Live
  <2>4. CASE FinishSend(w)
    BY <1>1, <1>3, <1>4, <2>4 DEF FinishSend, At, Live
  <2>5. CASE Requeue(w)
    BY <1>1, <1>3, <2>5 DEF Requeue, At, Live
  <2> QED
    BY <1>1, <1>5, <1>7, <1>10, <2>1, <2>2, <2>3, <2>4, <2>5 DEF SendStep
<1>11. ASSUME NEW w \in Workers, WorkerTrouble(w) PROVE Fact \/ WorkerCrash(w)
  <2>1. ASSUME NEW type \in Types, ClaimThenFault(type, w) PROVE Fact
    BY <1>1, <1>3, <2>1 DEF ClaimThenFault, At, Live
  <2>2. ASSUME NEW type \in Types, PersistFault(type, w) PROVE Fact
    BY <1>1, <1>2, <1>3, <2>2 DEF PersistFault, At, Live
  <2>3. ASSUME NEW type \in Types, CatchFault(type, w) PROVE Fact
    BY <1>1, <1>3, <2>3 DEF CatchFault, Live
  <2>4. CASE ProcessFails(w)
    BY <1>1, <1>4, <2>4 DEF ProcessFails, Fails, At, Live
  <2>5. CASE ProcessFailsUnclassified(w)
    BY <1>1, <1>2, <1>3, <2>5 DEF ProcessFailsUnclassified, At, Live
  <2>6. CASE ProcessEnqueueFault(w)
    BY <1>1, <1>4, <2>6 DEF ProcessEnqueueFault, At, Live
  <2>7. CASE SendFails(w)
    BY <1>1, <1>4, <2>7 DEF SendFails, Fails, MaySend, At, Live
  <2>8. CASE DeliverThenFault(w)
    BY <1>1, <1>4, <2>8 DEF DeliverThenFault, MaySend, At, Live
  <2>9. CASE MarkSentFault(w)
    BY <1>1, <1>4, <2>9 DEF MarkSentFault, At, Live
  <2> QED
    BY <1>11, <2>1, <2>2, <2>3, <2>4, <2>5, <2>6, <2>7, <2>8, <2>9 DEF WorkerTrouble
<1> QED
  BY <1>9, <1>10, <1>11 DEF WorkersAct, WorkerNext

(* An enqueue leaves every job that exists alone. *)
LEMMA EnqueueEffect ==
  ASSUME bull \in BullType, NEW type \in Types, Enqueue(type)
  PROVE  /\ \A t \in Types : bull[t].state # "none" => bull'[t] = bull[t]
         /\ \A t \in Types \ {type} : bull'[t] = bull[t]
         /\ bull[type].state = "none" => bull'[type].state = "waiting"
  BY DEF Enqueue, BullType, NewJob, NoJob

(* Requests and recovery take no job and end none. *)
JobsKept == \A t \in Types : bull[t].state # "none" => bull'[t] = bull[t]

LEMMA RequestsKeepJobs ==
  ASSUME TypeOK, RequestsAct
  PROVE  JobsKept /\ run' = run
<1>1. bull \in BullType /\ \A r \in Requests : reqs[r].type \in Types
  BY TypeOKByParts DEF ReqsType, Request
<1>2. ASSUME NEW r \in Requests, EnqueueRow(r) PROVE JobsKept
  BY <1>1, <1>2, EnqueueEffect DEF EnqueueRow, JobsKept
<1>3. ASSUME bull' = bull PROVE JobsKept
  BY <1>3 DEF JobsKept
<1>4. CASE UNCHANGED bull
  BY <1>3, <1>4 DEF RequestsAct
<1> QED
  BY <1>2, <1>4
     DEF RequestsAct, CommandNext, RequestStep, RetryCheck, RetryCount, RetryReopen,
         SendCheck, CreateRow, ContinueCommit, ContinueConflict, RequestDies,
         RetryRead, ContinueCheck, SendRead, Cancel

LEMMA RecoveryKeepsJobs ==
  ASSUME TypeOK, RecoveryActs
  PROVE  JobsKept /\ run' = run
<1>1. bull \in BullType /\ rec.type \in Types
  BY TypeOKByParts DEF Sweep
<1>2. ASSUME RecEnqueue PROVE JobsKept
  BY <1>1, <1>2, EnqueueEffect DEF RecEnqueue, JobsKept
<1>3. ASSUME bull' = bull PROVE JobsKept
  BY <1>3 DEF JobsKept
<1>4. CASE UNCHANGED bull
  BY <1>3, <1>4 DEF RecoveryActs
<1> QED
  BY <1>2, <1>4
     DEF RecoveryActs, RecoveryNext, RecoveryStep, RecPick, RecInspect, RecSync,
         RecFailRow, RecFailApp, RecReset, RecCreate, RecAborts

LEMMA SettleEffect ==
  ASSUME run \in RunsType, bull \in BullType, NEW type \in Types, NEW w \in Workers,
         Settle(type, w)
  PROVE  /\ run'[type][w] = Idle /\ OthersKeepTheirCall(type, w)
         /\ \A t \in Types \ {type} : bull'[t] = bull[t]
  BY NewCallEffect DEF Settle, FinishJob, BullType

LEMMA LocksStayHeld ==
  ASSUME TypeOK, HeldInv, [Next]_vars
  PROVE  HeldInv'
<1> SUFFICES ASSUME spent'["stall"] = 0 PROVE CallsHoldLocks'
  BY DEF HeldInv
<1>1. /\ run \in RunsType /\ bull \in BullType /\ "send_email" \in Types
      /\ "stall" \in Kinds
  BY TypeOKByParts DEF Types, Kinds
<1>2. CallsHoldLocks /\ ~Spend("stall")
  BY <1>1, UnusedIsNotSpent DEF HeldInv
<1>3. ASSUME JobsKept, run' = run PROVE CallsHoldLocks'
  <2> SUFFICES ASSUME NEW t \in Types, NEW v \in Workers, Live(t, v)'
               PROVE  bull'[t].state = "active" /\ bull'[t].owner = v
    BY DEF CallsHoldLocks
  <2>1. Live(t, v)
    BY <1>3 DEF Live
  <2>2. bull[t].state = "active" /\ bull[t].owner = v
    BY <1>2, <2>1 DEF CallsHoldLocks
  <2> QED
    BY <1>3, <2>2 DEF JobsKept
<1>4. ASSUME NEW type \in Types, NEW w \in Workers, InsideCall(type, w) PROVE CallsHoldLocks'
  <2>1. JobsKept
    BY <1>1, <1>4, EnqueueEffect DEF InsideCall, JobsKept
  <2> SUFFICES ASSUME NEW t \in Types, NEW v \in Workers, Live(t, v)'
               PROVE  bull'[t].state = "active" /\ bull'[t].owner = v
    BY DEF CallsHoldLocks
  <2>2. Live(t, v)
    BY <1>4 DEF InsideCall, OthersKeepTheirCall, Live
  <2>3. bull[t].state = "active" /\ bull[t].owner = v
    BY <1>2, <2>2 DEF CallsHoldLocks
  <2> QED
    BY <2>1, <2>3 DEF JobsKept
<1>5. ASSUME NEW type \in Types, NEW w \in Workers, BeginsCall(type, w) PROVE CallsHoldLocks'
  <2>1. /\ bull[type].state = "waiting"
        /\ bull'[type].state = "active" /\ bull'[type].owner = w
        /\ \A t \in Types \ {type} : bull'[t] = bull[t]
    BY <1>1, <1>5 DEF BeginsCall, TakeJob, BullType, Bull
  <2>2. \A v \in Workers : ~Live(type, v)
    BY <1>2, <2>1 DEF CallsHoldLocks
  <2> QED
    BY <1>2, <1>5, <2>1, <2>2 DEF CallsHoldLocks, BeginsCall, OthersKeepTheirCall, Live
<1>6. ASSUME NEW type \in Types, NEW w \in Workers, Settle(type, w) PROVE CallsHoldLocks'
  <2>1. /\ run'[type][w].pc = "idle" /\ OthersKeepTheirCall(type, w)
        /\ \A t \in Types \ {type} : bull'[t] = bull[t]
    BY <1>1, <1>6, SettleEffect DEF Idle
  <2>2. \A v \in Workers \ {w} : ~Live(type, v)
    BY <1>2, <1>6 DEF CallsHoldLocks, Settle, At, Live
  <2> QED
    BY <1>2, <2>1, <2>2 DEF CallsHoldLocks, OthersKeepTheirCall, Live
<1>7. ASSUME NEW type \in Types, LockExpires(type) PROVE CallsHoldLocks'
  <2>1. /\ run' = run /\ At(type, bull[type].owner, "idle")
        /\ \A t \in Types \ {type} : bull'[t] = bull[t]
    BY <1>1, <1>2, <1>7 DEF LockExpires, StallJob, BullType
  <2>2. \A v \in Workers : ~Live(type, v)
    BY <1>2, <2>1 DEF CallsHoldLocks, At, Live
  <2> QED
    BY <1>2, <2>1, <2>2 DEF CallsHoldLocks, Live
<1>8. ASSUME FinishedJobExpires PROVE CallsHoldLocks'
  <2>1. /\ run' = run /\ \A v \in Workers : ~Live("send_email", v)
        /\ \A t \in Types \ {"send_email"} : bull'[t] = bull[t]
    BY <1>1, <1>8 DEF FinishedJobExpires, ExpireJob, BullType, At, Live
  <2> QED
    BY <1>2, <2>1 DEF CallsHoldLocks, Live
<1>9. ASSUME NEW w \in Workers, WorkerCrash(w) PROVE CallsHoldLocks'
  <2>1. /\ bull' = bull
        /\ \A t \in Types, v \in Workers :
             run'[t][v] = IF v = w THEN Idle ELSE run[t][v]
    BY <1>1, <1>9 DEF WorkerCrash, RunsType
  <2> QED
    BY <1>2, <2>1 DEF CallsHoldLocks, Live, Idle
<1>10. CASE UNCHANGED vars
  BY <1>3, <1>10 DEF vars, JobsKept
<1> QED
  BY <1>3, <1>4, <1>5, <1>6, <1>7, <1>8, <1>9, <1>10, WorkerShapes, RequestsKeepJobs,
     RecoveryKeepsJobs DEF Next

-----------------------------------------------------------------------------
(* The send job and who writes its rows.                                   *)

Rows == jobs["send_email"]

Sender(w) == run["send_email"][w]

SendJob == bull["send_email"]

(* BullMQ has closed the send job: nobody takes it any more. *)
Over == SendJob.state \in {"completed", "failed"}

(* The rows that exist are left alone, the ones that are added are queued. *)
RowsOnlyAdded ==
  /\ DOMAIN Rows \subseteq DOMAIN Rows'
  /\ \A i \in DOMAIN Rows' : Rows'[i] = IF i \in DOMAIN Rows THEN Rows[i] ELSE "queued"

(* The steps of the send worker that write its row. *)
SendRowStep(w) ==
  \/ ClaimWins("send_email", w) \/ ClaimThenFault("send_email", w)
  \/ FailRow("send_email", w) \/ FinishSend(w) \/ Requeue(w)

LEMMA SendRowIsCalled ==
  ASSUME NEW w \in Workers, SendRowStep(w)
  PROVE  Live("send_email", w)
  BY DEF SendRowStep, ClaimWins, ClaimThenFault, FailRow, FinishSend, Requeue, At, Live

LEMMA RowsLeftAlone ==
  ASSUME Rows' = Rows
  PROVE  RowsOnlyAdded
  BY DEF RowsOnlyAdded

LEMMA AppendAddsRow ==
  ASSUME jobs \in JobsType, Rows' = Append(Rows, "queued")
  PROVE  RowsOnlyAdded /\ Len(Rows') = Len(Rows) + 1
<1>1. Rows \in Seq(RowStatus) /\ "queued" \in RowStatus
  BY DEF Rows, JobsType, Types, RowStatus
<1>2. /\ Append(Rows, "queued") \in Seq(RowStatus)
      /\ Len(Append(Rows, "queued")) = Len(Rows) + 1
      /\ DOMAIN Append(Rows, "queued") = 1..(Len(Rows) + 1)
      /\ DOMAIN Rows = 1..Len(Rows) /\ Len(Rows) \in Nat
      /\ \A i \in 1..Len(Rows) : Append(Rows, "queued")[i] = Rows[i]
      /\ Append(Rows, "queued")[Len(Rows) + 1] = "queued"
  BY <1>1
<1> HIDE DEF Rows
<1> QED
  BY <1>2 DEF RowsOnlyAdded

LEMMA CreateAddsRow ==
  ASSUME jobs \in JobsType, NEW type \in Types, CreateJob(type)
  PROVE  RowsOnlyAdded
<1>1. CASE type = "send_email"
  <2>1. Rows' = Append(Rows, "queued")
    BY <1>1 DEF CreateJob, JobsType, Rows
  <2> QED
    BY <2>1, AppendAddsRow
<1>2. CASE type # "send_email"
  <2>1. Rows' = Rows
    BY <1>2 DEF CreateJob, JobsType, Rows, Types
  <2> QED
    BY <2>1, RowsLeftAlone
<1> QED
  BY <1>1, <1>2

LEMMA OtherRowsWritten ==
  ASSUME jobs \in JobsType, NEW type \in Types, type # "send_email", NEW row, NEW expected,
         NEW next, CasJob(type, row, expected, next)
  PROVE  RowsOnlyAdded
<1>1. Rows' = Rows
  BY DEF CasJob, JobsType, Rows, Types
<1> QED
  BY <1>1, RowsLeftAlone

LEMMA CommitOnRows ==
  ASSUME jobs \in JobsType, NEW w, NEW next, NEW sendNow \in BOOLEAN,
         ProcessCommit(w, next, sendNow)
  PROVE  Rows' = IF sendNow THEN Append(Rows, "queued") ELSE Rows
<1> DEFINE row == run["ai_process"][w].row
           done == [jobs EXCEPT !["ai_process"][row] =
                      RowAfterCas(@, {"processing"}, "completed")]
<1>1. done["send_email"] = Rows
  BY DEF JobsType, Rows, Types
<1>2. /\ DOMAIN done = Types /\ "send_email" \in Types
      /\ jobs' = IF sendNow THEN [done EXCEPT !["send_email"] = Append(@, "queued")] ELSE done
  BY DEF ProcessCommit, JobsType, Types
<1> HIDE DEF done
<1> QED
  BY <1>1, <1>2 DEF Rows

LEMMA WorkersOnRows ==
  ASSUME TypeOK, WorkersAct
  PROVE  RowsOnlyAdded \/ \E w \in Workers : SendRowStep(w)
<1>1. jobs \in JobsType /\ Types = {"ai_process", "send_email"}
  BY TypeOKByParts DEF Types
<1>2. ASSUME UNCHANGED jobs PROVE RowsOnlyAdded
  BY <1>2, RowsLeftAlone DEF Rows
<1>3. ASSUME NEW type \in Types, NEW w \in Workers, SharedStep(type, w) \/ ClaimThenFault(type, w)
      PROVE  RowsOnlyAdded \/ SendRowStep(w)
  <2>1. CASE type = "send_email"
    BY <1>2, <1>3, <2>1 DEF SharedStep, ClaimLost, FailApp, Settle, SendRowStep
  <2>2. CASE type # "send_email"
    BY <1>1, <1>2, <1>3, <2>2, OtherRowsWritten
       DEF SharedStep, ClaimWins, ClaimLost, FailRow, FailApp, Settle, ClaimThenFault
  <2> QED
    BY <2>1, <2>2
<1>4. ASSUME NEW w \in Workers, NEW next, NEW sendNow \in BOOLEAN, ProcessCommit(w, next, sendNow)
      PROVE  RowsOnlyAdded
  <2>1. CASE sendNow
    BY <1>1, <1>4, <2>1, CommitOnRows, AppendAddsRow
  <2>2. CASE ~sendNow
    BY <1>1, <1>4, <2>2, CommitOnRows, RowsLeftAlone
  <2> QED
    BY <2>1, <2>2
<1>5. ASSUME NEW w \in Workers, ProcessStep(w)
      PROVE  RowsOnlyAdded \/ SendRowStep(w)
  BY <1>1, <1>2, <1>4, <1>3, <1>5
     DEF ProcessStep, ProcessLoad, ProcessConflict, ProcessNeedsReview, ProcessGenerates,
         ProcessEnqueuesSend
<1>6. ASSUME NEW w \in Workers, SendStep(w)
      PROVE  RowsOnlyAdded \/ SendRowStep(w)
  BY <1>1, <1>2, <1>3, <1>6 DEF SendStep, SendLoad, SendRejects, Deliver, MarkSent, SendRowStep
<1>7. ASSUME NEW w \in Workers, WorkerTrouble(w)
      PROVE  RowsOnlyAdded \/ SendRowStep(w)
  BY <1>2, <1>3, <1>7
     DEF WorkerTrouble, PersistFault, CatchFault, ProcessFails, ProcessFailsUnclassified,
         ProcessEnqueueFault, SendFails, DeliverThenFault, MarkSentFault, WorkerCrash
<1>8. ASSUME (\E type \in Types : LockExpires(type)) \/ FinishedJobExpires PROVE RowsOnlyAdded
  BY <1>2, <1>8 DEF LockExpires, FinishedJobExpires
<1> QED
  BY <1>5, <1>6, <1>7, <1>8 DEF WorkersAct, WorkerNext

LEMMA RequestsOnRows ==
  ASSUME TypeOK, RequestsAct
  PROVE  RowsOnlyAdded
<1>1. jobs \in JobsType /\ "send_email" \in Types /\ \A r \in Requests : reqs[r].type \in Types
  BY TypeOKByParts DEF Types, ReqsType, Request
<1>2. ASSUME UNCHANGED jobs PROVE RowsOnlyAdded
  BY <1>2, RowsLeftAlone DEF Rows
<1>3. ASSUME NEW r \in Requests, ContinueCommit(r) \/ CreateRow(r) PROVE RowsOnlyAdded
  BY <1>1, <1>3, CreateAddsRow DEF ContinueCommit, CreateRow
<1> QED
  BY <1>2, <1>3
     DEF RequestsAct, CommandNext, RequestStep, RetryCheck, RetryCount, RetryReopen,
         SendCheck, EnqueueRow, ContinueConflict, RequestDies,
         RetryRead, ContinueCheck, SendRead, Cancel

(* What recovery writes to a row of the send job. *)
SweepSyncs == rec.pc = "sync" /\ CasJob("send_email", rec.row, ActiveRow, "completed")

SweepCloses ==
  \/ rec.pc = "failrow" /\ CasJob("send_email", rec.row, {"processing"}, "failed")
  \/ rec.pc = "reset" /\ CasJob("send_email", rec.row, {"processing"}, "retrying")

SweepWrites == rec.type = "send_email" /\ (SweepSyncs \/ SweepCloses)

LEMMA RecoveryOnRows ==
  ASSUME TypeOK, RecoveryActs
  PROVE  RowsOnlyAdded \/ SweepWrites
<1>1. jobs \in JobsType /\ rec.type \in Types
  BY TypeOKByParts DEF Sweep
<1>2. ASSUME UNCHANGED jobs PROVE RowsOnlyAdded
  BY <1>2, RowsLeftAlone DEF Rows
<1>3. ASSUME NEW expected, NEW next, CasJob(rec.type, rec.row, expected, next)
      PROVE  RowsOnlyAdded \/ rec.type = "send_email"
  BY <1>1, <1>3, OtherRowsWritten
<1>4. ASSUME RecCreate PROVE RowsOnlyAdded
  BY <1>1, <1>4, CreateAddsRow DEF RecCreate
<1>5. ASSUME RecSync \/ RecFailRow \/ RecReset
      PROVE  RowsOnlyAdded \/ SweepWrites
  BY <1>3, <1>5 DEF RecSync, RecFailRow, RecReset, RecAt, SweepSyncs, SweepCloses, SweepWrites
<1> QED
  BY <1>2, <1>4, <1>5
     DEF RecoveryActs, RecoveryNext, RecoveryStep, RecPick, RecInspect, RecEnqueue,
         RecFailApp, RecAborts

LEMMA WhoWritesRows ==
  ASSUME TypeOK, [Next]_vars
  PROVE  RowsOnlyAdded \/ SweepWrites \/ \E w \in Workers : SendRowStep(w)
<1>1. CASE UNCHANGED vars
  BY <1>1, RowsLeftAlone DEF vars, Rows
<1> QED
  BY <1>1, WorkersOnRows, RequestsOnRows, RecoveryOnRows
     DEF Next

(* A job that BullMQ has closed stays closed until its retention is over. *)
LEMMA ClosedJobStays ==
  ASSUME TypeOK, [Next]_vars, spent'["expire"] = 0
  PROVE  /\ Over => SendJob' = SendJob
         /\ SendJob.state # "none" => SendJob'.state # "none"
<1>1. /\ bull \in BullType /\ run \in RunsType /\ "send_email" \in Types /\ "expire" \in Kinds
      /\ Types = {"ai_process", "send_email"}
  BY TypeOKByParts DEF Types, Kinds
<1> DEFINE Fact == /\ Over => SendJob' = SendJob
                   /\ SendJob.state # "none" => SendJob'.state # "none"
<1>2. ASSUME SendJob' = SendJob PROVE Fact
  BY <1>2 DEF Over
<1>3. ASSUME JobsKept PROVE Fact
  BY <1>1, <1>3 DEF JobsKept, SendJob, Over
<1>4. ASSUME NEW type \in Types, NEW w \in Workers, InsideCall(type, w) PROVE Fact
  <2>1. JobsKept
    BY <1>1, <1>4, EnqueueEffect DEF InsideCall, JobsKept
  <2> QED
    BY <2>1, <1>3
<1>5. ASSUME NEW type \in Types, NEW w \in Workers, BeginsCall(type, w) PROVE Fact
  BY <1>1, <1>5 DEF BeginsCall, TakeJob, BullType, Bull, SendJob, Over
<1>6. ASSUME NEW type \in Types, NEW w \in Workers, Settle(type, w) PROVE Fact
  <2>1. CASE type # "send_email"
    BY <1>1, <1>2, <1>6, <2>1, SettleEffect DEF SendJob
  <2>2. CASE type = "send_email"
    BY <1>1, <1>6, <2>2
       DEF Settle, FinishJob, AfterCompletion, AfterFailure, BullType, Bull, SendJob, Over
  <2> QED
    BY <2>1, <2>2
<1>7. ASSUME NEW type \in Types, LockExpires(type) PROVE Fact
  BY <1>1, <1>7 DEF LockExpires, StallJob, AfterFailure, BullType, Bull, SendJob, Over
<1>8. ~FinishedJobExpires
  BY <1>1, UnusedIsNotSpent DEF FinishedJobExpires
<1>9. ASSUME NEW w \in Workers, WorkerCrash(w) PROVE Fact
  BY <1>2, <1>9 DEF WorkerCrash, SendJob
<1>10. CASE UNCHANGED vars
  BY <1>2, <1>10 DEF vars, SendJob
<1> QED
  BY <1>3, <1>4, <1>5, <1>6, <1>7, <1>8, <1>9, <1>10, WorkerShapes, RequestsKeepJobs,
     RecoveryKeepsJobs DEF Next

-----------------------------------------------------------------------------
(* As long as no lock is lost under a live worker and no retention runs out. *)

Steady == spent["stall"] = 0 /\ spent["expire"] = 0

(* A row is claimed only after its job was enqueued. *)
FreshRows == SendJob.state = "none" => \A i \in DOMAIN Rows : Rows[i] = "queued"

(* What recovery has seen of the send job still holds when it writes. *)
SweepIsCurrent ==
  rec.type = "send_email" =>
    /\ rec.pc = "sync" => SendJob.state = "completed"
    /\ rec.pc \in {"failrow", "reset", "create"} => Over
    /\ rec.pc # "idle" /\ rec.status # "queued" => SendJob.state # "none"

SteadyInv == Steady => FreshRows /\ SweepIsCurrent

LEMMA SteadyBefore ==
  ASSUME TypeOK, [Next]_vars, Steady'
  PROVE  Steady
<1>1. "stall" \in Kinds /\ "expire" \in Kinds
  BY DEF Kinds
<1> QED
  BY <1>1, UnusedIsNotSpent DEF Steady

LEMMA StaysSteady ==
  ASSUME TypeOK, HeldInv, SteadyInv, [Next]_vars
  PROVE  SteadyInv'
<1> SUFFICES ASSUME Steady' PROVE (FreshRows /\ SweepIsCurrent)'
  BY DEF SteadyInv
<1>1. /\ Steady /\ FreshRows /\ SweepIsCurrent /\ CallsHoldLocks
      /\ "send_email" \in Types /\ spent'["expire"] = 0
  BY SteadyBefore DEF SteadyInv, HeldInv, Steady, Types
<1>2. /\ Over => SendJob' = SendJob
      /\ SendJob.state # "none" => SendJob'.state # "none"
  BY <1>1, ClosedJobStays
<1>3. FreshRows'
  <2> SUFFICES ASSUME SendJob'.state = "none" PROVE \A i \in DOMAIN Rows' : Rows'[i] = "queued"
    BY DEF FreshRows
  <2>1. SendJob.state = "none"
    BY <1>2
  <2>2. ~SweepWrites /\ \A w \in Workers : ~Live("send_email", w)
    BY <1>1, <2>1 DEF SweepIsCurrent, SweepWrites, SweepSyncs, SweepCloses, Over, CallsHoldLocks, SendJob
  <2>3. \A w \in Workers : ~SendRowStep(w)
    BY <2>2, SendRowIsCalled
  <2> QED
    BY <1>1, <2>1, <2>2, <2>3, WhoWritesRows DEF FreshRows, RowsOnlyAdded
<1>4. ASSUME rec' = rec PROVE SweepIsCurrent'
  BY <1>1, <1>2, <1>4 DEF SweepIsCurrent, Over
<1>5. ASSUME RecDone PROVE SweepIsCurrent'
  BY <1>5 DEF RecDone, NoSweep, SweepIsCurrent
<1>6. ASSUME RecoveryActs PROVE SweepIsCurrent'
  <2>1. rec \in Sweep /\ jobs \in JobsType
    BY TypeOKByParts
  <2>2. ASSUME NEW type \in Types, RecPick(type) PROVE SweepIsCurrent'
    <3>1. /\ rec'.type = type /\ rec'.pc = "inspect" /\ SendJob' = SendJob
          /\ rec'.status = jobs[type][Len(jobs[type])] /\ Len(jobs[type]) > 0
      BY <1>6, <2>2 DEF RecPick, LatestRow, SendJob
    <3>2. rec'.type = "send_email" /\ rec'.status # "queued" => SendJob.state # "none"
      <4> SUFFICES ASSUME type = "send_email", rec'.status # "queued", SendJob.state = "none"
                   PROVE  FALSE
        BY <3>1
      <4>1. Len(Rows) \in DOMAIN Rows /\ Rows[Len(Rows)] # "queued"
        BY <2>1, <3>1 DEF Rows, JobsType
      <4> QED
        BY <1>1, <4>1 DEF FreshRows
    <3> QED
      BY <3>1, <3>2 DEF SweepIsCurrent
  <2>3. ASSUME RecInspect PROVE SweepIsCurrent'
    <3>1. CASE Verdict = "idle"
      BY <1>5, <2>3, <3>1 DEF RecInspect
    <3>2. CASE Verdict # "idle"
      <4>1. /\ rec' = [rec EXCEPT !.pc = Verdict] /\ SendJob' = SendJob
            /\ RecAt("inspect")
        BY <2>3, <3>2 DEF RecInspect, RecGoto, SendJob
      <4>2. /\ rec'.type = rec.type /\ rec'.pc = Verdict /\ rec'.status = rec.status
        BY <2>1, <4>1 DEF Sweep
      <4>3. rec.type = "send_email" /\ Verdict = "sync" => SendJob.state = "completed"
        BY DEF Verdict, QueuedVerdict, ProcessingVerdict, SendJob
      <4>5. rec.status \in RowStatus /\ SendJob.state \in BullState
        BY <2>1, <1>1, TypeOKByParts DEF Sweep, BullType, Bull, SendJob
      <4>6. rec.status = "queued" => Verdict \notin {"failrow", "reset", "create"}
        BY DEF Verdict, QueuedVerdict
      <4>7. rec.type = "send_email" /\ rec.status # "queued" => SendJob.state # "none"
        BY <1>1, <4>1 DEF SweepIsCurrent, RecAt
      <4>8. rec.type = "send_email" /\ Verdict \in {"failrow", "reset", "create"} => Over
        BY <4>5, <4>6, <4>7
           DEF Verdict, ProcessingVerdict, TerminalFailure, InFlight, SendJob, Over, BullState
      <4> QED
        BY <4>1, <4>2, <4>3, <4>7, <4>8 DEF SweepIsCurrent, Over
    <3> QED
      BY <3>1, <3>2
  <2>4. ASSUME RecGoto("failapp") \/ RecGoto("enqueue"), UNCHANGED bull, rec.pc # "idle"
        PROVE  SweepIsCurrent'
    BY <1>1, <1>2, <2>1, <2>4 DEF RecGoto, SweepIsCurrent, Sweep, SendJob, Over
  <2>5. ASSUME RecReset PROVE SweepIsCurrent'
    BY <1>1, <1>2, <2>1, <2>5 DEF RecReset, RecAt, RecGoto, SweepIsCurrent, Sweep, SendJob, Over
  <2> QED
    BY <1>5, <1>6, <2>2, <2>3, <2>4, <2>5
       DEF RecoveryActs, RecoveryNext, RecoveryStep, RecSync, RecEnqueue, RecFailRow,
           RecFailApp, RecCreate, RecAborts, RecAt
<1>7. SweepIsCurrent'
  BY <1>4, <1>6 DEF Next, WorkersAct, RequestsAct, vars
<1> QED
  BY <1>3, <1>7

-----------------------------------------------------------------------------
(* What a step does to the send side: by whom it is taken.                 *)

ProcessTrouble(w) ==
  \/ ClaimThenFault("ai_process", w) \/ PersistFault("ai_process", w)
  \/ CatchFault("ai_process", w) \/ ProcessFails(w) \/ ProcessFailsUnclassified(w)
  \/ ProcessEnqueueFault(w)

SendTrouble(w) ==
  \/ ClaimThenFault("send_email", w) \/ PersistFault("send_email", w)
  \/ CatchFault("send_email", w) \/ SendFails(w) \/ DeliverThenFault(w) \/ MarkSentFault(w)

LEMMA WorkersByQueue ==
  ASSUME WorkersAct
  PROVE  \/ \E w \in Workers : ProcessStep(w) \/ ProcessTrouble(w)
         \/ \E w \in Workers : SendStep(w) \/ SendTrouble(w)
         \/ \E w \in Workers : WorkerCrash(w)
         \/ \E type \in Types : LockExpires(type)
         \/ FinishedJobExpires
<1>1. Types = {"ai_process", "send_email"}
  BY DEF Types
<1>2. ASSUME NEW w \in Workers, WorkerTrouble(w)
      PROVE  ProcessTrouble(w) \/ SendTrouble(w) \/ WorkerCrash(w)
  BY <1>1, <1>2 DEF WorkerTrouble, ProcessTrouble, SendTrouble
<1> QED
  BY <1>2 DEF WorkersAct, WorkerNext

SenderKept == run'["send_email"] = run["send_email"]

(* What the process worker makes of a draft. *)
DraftProcessed == app.status = "draft" /\ app'.status \in {"generated", "needs_review", "failed"}

LEMMA ProcessCallKeepsSender ==
  ASSUME run \in RunsType, NEW w \in Workers, OthersKeepTheirCall("ai_process", w),
         run' \in RunsType
  PROVE  SenderKept
  BY DEF OthersKeepTheirCall, SenderKept, RunsType, Types

LEMMA ProcessOnSend ==
  ASSUME TypeOK, TypeOK', NEW w \in Workers, ProcessStep(w) \/ ProcessTrouble(w)
  PROVE  /\ SenderKept /\ mails' = mails /\ app'.retries = app.retries
         /\ \/ SendJob' = SendJob /\ Rows' = Rows
               /\ (app'.status = app.status \/ DraftProcessed)
            \/ SendJob' = SendJob /\ Rows' = Append(Rows, "queued")
               /\ app.status = "draft" /\ app'.status = "generated"
            \/ Enqueue("send_email") /\ Rows' = Rows /\ app' = app
<1>1. /\ run \in RunsType /\ run' \in RunsType /\ jobs \in JobsType /\ bull \in BullType
      /\ app \in App /\ "ai_process" \in Types /\ "send_email" \in Types
  BY TypeOKByParts DEF Types, TypeOK, RunTypeOK, RunsType
<1> DEFINE Fact == /\ SenderKept /\ mails' = mails /\ app'.retries = app.retries
                   /\ \/ SendJob' = SendJob /\ Rows' = Rows
                         /\ (app'.status = app.status \/ DraftProcessed)
                      \/ SendJob' = SendJob /\ Rows' = Append(Rows, "queued")
                         /\ app.status = "draft" /\ app'.status = "generated"
                      \/ Enqueue("send_email") /\ Rows' = Rows /\ app' = app
<1>2. ASSUME NEW pc, Goto("ai_process", w, pc) PROVE SenderKept
  BY <1>1, <1>2, GotoEffect, ProcessCallKeepsSender
<1>3. ASSUME NEW outcome, EndWith("ai_process", w, outcome) PROVE SenderKept
  BY <1>1, <1>3, EndWithEffect, ProcessCallKeepsSender
<1>4. ASSUME NEW recoverable \in BOOLEAN, Catch("ai_process", w, recoverable) PROVE SenderKept
  BY <1>1, <1>4, CatchEffect, ProcessCallKeepsSender
<1>5. ASSUME NEW call, run' = [run EXCEPT !["ai_process"][w] = call] PROVE SenderKept
  BY <1>1, <1>5, NewCallEffect, ProcessCallKeepsSender
<1>6. ASSUME NEW row, NEW expected, NEW next, CasJob("ai_process", row, expected, next)
      PROVE  Rows' = Rows
  BY <1>1, <1>6 DEF CasJob, JobsType, Rows
<1>7. ASSUME UNCHANGED jobs PROVE Rows' = Rows
  BY <1>7 DEF Rows
<1>8. ASSUME UNCHANGED bull PROVE SendJob' = SendJob
  BY <1>8 DEF SendJob
<1>9. ASSUME CasApp({"draft"}, "failed", FALSE)
      PROVE  app'.retries = app.retries /\ (app'.status = app.status \/ DraftProcessed)
  BY <1>1, <1>9 DEF CasApp, App, DraftProcessed
<1>10. ASSUME NEW type, type = "ai_process" PROVE FailableFrom(type) = {"draft"}
  BY <1>10 DEF FailableFrom
<1>11. ASSUME ClaimWins("ai_process", w) \/ ClaimThenFault("ai_process", w) PROVE Fact
  BY <1>2, <1>3, <1>6, <1>8, <1>11 DEF ClaimWins, ClaimThenFault
<1>12. ASSUME ClaimLost("ai_process", w) \/ FailRow("ai_process", w) PROVE Fact
  BY <1>2, <1>3, <1>6, <1>7, <1>8, <1>12 DEF ClaimLost, FailRow
<1>13. ASSUME FailApp("ai_process", w) PROVE Fact
  BY <1>3, <1>7, <1>8, <1>9, <1>10, <1>13 DEF FailApp
<1>14. ASSUME PersistFault("ai_process", w) PROVE Fact
  BY <1>2, <1>3, <1>7, <1>8, <1>9, <1>10, <1>14 DEF PersistFault
<1>15. ASSUME CatchFault("ai_process", w) PROVE Fact
  BY <1>3, <1>7, <1>8, <1>15 DEF CatchFault
<1>16. ASSUME Settle("ai_process", w) PROVE Fact
  <2>1. SendJob' = SendJob
    BY <1>1, <1>16, SettleEffect DEF SendJob
  <2> QED
    BY <1>5, <1>7, <1>16, <2>1 DEF Settle
<1>17. ASSUME ProcessLoad(w) PROVE Fact
  <2>1. SendJob' = SendJob
    BY <1>1, <1>17 DEF ProcessLoad, TakeJob, BullType, SendJob
  <2> QED
    BY <1>5, <1>7, <1>17, <2>1 DEF ProcessLoad
<1>18. ASSUME ProcessFails(w) \/ ProcessConflict(w) \/ ProcessEnqueueFault(w) PROVE Fact
  BY <1>4, <1>7, <1>8, <1>18 DEF ProcessFails, Fails, ProcessConflict, ProcessEnqueueFault
<1>19. ASSUME ProcessFailsUnclassified(w) PROVE Fact
  BY <1>2, <1>3, <1>7, <1>8, <1>19 DEF ProcessFailsUnclassified
<1>20. ASSUME ProcessEnqueuesSend(w) PROVE Fact
  BY <1>3, <1>7, <1>20 DEF ProcessEnqueuesSend
<1>21. ASSUME NEW next \in {"generated", "needs_review"}, NEW sendNow \in BOOLEAN,
              sendNow => next = "generated", ProcessCommit(w, next, sendNow)
       PROVE  Fact
  <2>1. app' = [app EXCEPT !.status = next, !.subject = TRUE, !.review = (next = "needs_review")]
    BY <1>21 DEF ProcessCommit
  <2>2. app'.status = next /\ app'.retries = app.retries
    BY <1>1, <2>1 DEF App
  <2>3. Rows' = IF sendNow THEN Append(Rows, "queued") ELSE Rows
    BY <1>1, <1>21, CommitOnRows
  <2>4. SenderKept /\ app.status = "draft" /\ SendJob' = SendJob /\ mails' = mails
    BY <1>2, <1>3, <1>8, <1>21 DEF ProcessCommit
  <2> QED
    BY <1>21, <2>2, <2>3, <2>4 DEF DraftProcessed
<1>22. ASSUME ProcessNeedsReview(w) \/ ProcessGenerates(w) PROVE Fact
  BY <1>21, <1>22 DEF ProcessNeedsReview, ProcessGenerates
<1> QED
  BY <1>11, <1>12, <1>13, <1>14, <1>15, <1>16, <1>17, <1>18, <1>19, <1>20, <1>22
     DEF ProcessStep, SharedStep, ProcessTrouble

-----------------------------------------------------------------------------
(* The calls of the send worker.                                           *)

LEMMA CallGets ==
  ASSUME run \in RunsType, NEW w \in Workers
  PROVE  /\ \A pc : Goto("send_email", w, pc) => run'["send_email"][w] = [Sender(w) EXCEPT !.pc = pc]
         /\ \A outcome : EndWith("send_email", w, outcome)
              => run'["send_email"][w] = [Sender(w) EXCEPT !.pc = "settle", !.outcome = outcome]
  BY DEF Goto, EndWith, RunsType, Sender, Types

LEMMA SenderGoes ==
  ASSUME run \in RunsType, NEW w \in Workers, NEW pc, Goto("send_email", w, pc)
  PROVE  /\ Sender(w)'.pc = pc /\ Sender(w)'.row = Sender(w).row
         /\ Sender(w)'.seen = Sender(w).seen /\ Sender(w)'.outcome = Sender(w).outcome
         /\ OthersKeepTheirCall("send_email", w)
<1>1. Sender(w)' = [Sender(w) EXCEPT !.pc = pc] /\ Sender(w) \in Runner
  BY CallGets DEF Sender, RunsType, Types
<1>2. OthersKeepTheirCall("send_email", w)
  BY GotoEffect DEF Types
<1> HIDE DEF Sender
<1> QED
  BY <1>1, <1>2 DEF Runner

LEMMA SenderEnds ==
  ASSUME run \in RunsType, NEW w \in Workers, NEW outcome, EndWith("send_email", w, outcome)
  PROVE  /\ Sender(w)'.pc = "settle" /\ Sender(w)'.outcome = outcome
         /\ Sender(w)'.row = Sender(w).row /\ Sender(w)'.seen = Sender(w).seen
         /\ OthersKeepTheirCall("send_email", w)
<1>1. Sender(w)' = [Sender(w) EXCEPT !.pc = "settle", !.outcome = outcome] /\ Sender(w) \in Runner
  BY CallGets DEF Sender, RunsType, Types
<1>2. OthersKeepTheirCall("send_email", w)
  BY EndWithEffect DEF Types
<1> HIDE DEF Sender
<1> QED
  BY <1>1, <1>2 DEF Runner

(* Its catch block goes on to put the row back or to fail it. *)
LEMMA SenderCatches ==
  ASSUME run \in RunsType, NEW w \in Workers, NEW recoverable, Catch("send_email", w, recoverable)
  PROVE  /\ Sender(w)'.pc \in {"failrow", "requeue"} /\ Sender(w)'.row = Sender(w).row
         /\ OthersKeepTheirCall("send_email", w)
<1>1. Goto("send_email", w, "failrow") \/ Goto("send_email", w, "requeue")
  BY DEF Catch
<1> QED
  BY <1>1, SenderGoes

LEMMA RowWritten ==
  ASSUME jobs \in JobsType, NEW row \in Nat, NEW expected, NEW next \in RowStatus,
         CasJob("send_email", row, expected, next)
  PROVE  /\ DOMAIN Rows' = DOMAIN Rows /\ Len(Rows') = Len(Rows)
         /\ \A i \in DOMAIN Rows :
              Rows'[i] = IF i = row THEN RowAfterCas(Rows[i], expected, next) ELSE Rows[i]
<1>1. "send_email" \in Types
  BY DEF Types
<1>2. jobs' \in JobsType /\ Len(Rows') = Len(Rows)
      /\ \A i \in 1..Len(Rows) :
           Rows'[i] = IF i = row THEN RowAfterCas(Rows[i], expected, next) ELSE Rows[i]
  BY <1>1, CasJobEffect DEF Rows
<1>3. DOMAIN Rows = 1..Len(Rows) /\ DOMAIN Rows' = 1..Len(Rows')
  BY <1>1, <1>2 DEF Rows, JobsType
<1> QED
  BY <1>2, <1>3

(* With every lock held by a live call there is one such call per job. *)
LEMMA OneSender ==
  ASSUME CallsHoldLocks, NEW w \in Workers, Live("send_email", w)
  PROVE  /\ SendJob.state = "active" /\ ~Over
         /\ \A v \in Workers \ {w} : ~Live("send_email", v)
  BY DEF CallsHoldLocks, SendJob, Over, Types

-----------------------------------------------------------------------------
(* A completed send row means a mail, while no lock is lost, no statement  *)
(* fails and no worker dies.                                               *)

Calm == Steady /\ spent["fault"] = 0 /\ spent["crash"] = 0

(* A row that is neither queued nor closed is in the hands of a call. *)
InHand(i) ==
  \E w \in Workers :
    \/ Sender(w).pc \in {"work", "requeue", "failrow", "failapp"} /\ Sender(w).row = i
    \/ Sender(w).pc = "settle" /\ Sender(w).outcome = "permanent"

NothingSent ==
  /\ SendJob.state # "completed"
  /\ app.status # "sent"
  /\ \A w \in Workers : /\ Sender(w).pc \notin {"mark", "finish"}
                        /\ Sender(w).pc = "settle" => Sender(w).outcome # "ok"
                        /\ Sender(w).pc \in {"work", "requeue", "failrow"}
                             => Rows[Sender(w).row] = "processing"

RowsUnsent ==
  \A i \in DOMAIN Rows : /\ Rows[i] # "completed"
                         /\ Rows[i] = "queued" \/ Over \/ InHand(i)

UnmailedInv == Calm /\ mails = 0 => NothingSent /\ RowsUnsent

LEMMA CalmBefore ==
  ASSUME TypeOK, [Next]_vars, Calm'
  PROVE  /\ Calm /\ ~Spend("fault") /\ ~Spend("crash") /\ ~Spend("stall") /\ ~Spend("expire")
<1>1. {"fault", "crash", "stall", "expire"} \subseteq Kinds
  BY DEF Kinds
<1> QED
  BY <1>1, UnusedIsNotSpent DEF Calm, Steady

(* Steps that leave the calls of the send worker alone. *)
LEMMA UnmailedApart ==
  ASSUME TypeOK, NothingSent, RowsUnsent, CallsHoldLocks, SweepIsCurrent,
         SenderKept, app'.status = "sent" => app.status = "sent",
         Over => SendJob' = SendJob, SendJob'.state = "completed" => SendJob.state = "completed",
         RowsOnlyAdded \/ SweepWrites,
         CalledRowExists
  PROVE  NothingSent' /\ RowsUnsent'
<1>1. jobs \in JobsType /\ (Over => Over')
  BY TypeOKByParts DEF Over
<1>2. \A w \in Workers : Sender(w)' = Sender(w)
  BY DEF SenderKept, Sender
<1>3. \A i : InHand(i) => InHand(i)'
  BY <1>2 DEF InHand
<1>4. CASE RowsOnlyAdded
  <2>1. RowsUnsent'
    <3> SUFFICES ASSUME NEW i \in DOMAIN Rows'
                 PROVE  Rows'[i] # "completed" /\ (Rows'[i] = "queued" \/ Over' \/ InHand(i)')
      BY DEF RowsUnsent
    <3> QED
      BY <1>1, <1>3, <1>4 DEF RowsUnsent, RowsOnlyAdded
  <2>2. ASSUME NEW w \in Workers, Sender(w).pc \in {"work", "requeue", "failrow"}
        PROVE  Rows'[Sender(w).row] = "processing"
    <3>1. Rows[Sender(w).row] = "processing" /\ Sender(w).row \in DOMAIN Rows
      BY <1>1, <2>2 DEF NothingSent, CalledRowExists, Executing, Sender, Rows, Types, JobsType
    <3> QED
      BY <1>4, <3>1 DEF RowsOnlyAdded
  <2> QED
    BY <1>2, <2>1, <2>2 DEF NothingSent
<1>5. CASE SweepWrites
  <2>1. Over /\ Over'
    BY <1>1, <1>5 DEF SweepWrites, SweepSyncs, SweepCloses, SweepIsCurrent, Over, NothingSent
  <2>2. \A w \in Workers : Sender(w).pc = "idle"
    BY <2>1, OneSender DEF Live, Sender
  <2>3. RowsUnsent'
    <3>1. rec.row \in Nat /\ {"failed", "retrying"} \subseteq RowStatus
      BY TypeOKByParts DEF Sweep, RowStatus
    <3>2. SweepCloses
      BY <1>5 DEF SweepWrites, SweepSyncs, SweepIsCurrent, NothingSent
    <3>3. CasJob("send_email", rec.row, {"processing"}, "failed")
          \/ CasJob("send_email", rec.row, {"processing"}, "retrying")
      BY <3>2 DEF SweepCloses
    <3> QED
      BY <1>1, <2>1, <3>1, <3>3, RowWritten DEF RowsUnsent, RowAfterCas
  <2> QED
    BY <1>2, <2>2, <2>3 DEF NothingSent
<1> QED
  BY <1>4, <1>5

(* The calls of the send worker, when nothing is out yet. *)
LEMMA UnmailedCalls ==
  ASSUME TypeOK, TypeOK', NothingSent, RowsUnsent, CallsHoldLocks, CalledRowExists,
         NEW w \in Workers, SendStep(w) \/ SendTrouble(w), ~Spend("fault"), mails' = 0
  PROVE  NothingSent' /\ RowsUnsent'
<1>1. /\ jobs \in JobsType /\ run \in RunsType /\ bull \in BullType /\ app \in App
      /\ mails \in Nat /\ "send_email" \in Types /\ SendJob.state \in BullState
      /\ \A v \in Workers : Sender(v).row \in Nat
      /\ {"failed", "processing", "queued"} \subseteq RowStatus
  BY TypeOKByParts DEF Types, BullType, Bull, SendJob, RunsType, Runner, Sender, RowStatus
<1>2. \A v \in Workers : Sender(v).pc \in {"claim", "work", "requeue", "failrow"}
                           => Sender(v).row \in DOMAIN Rows
  BY <1>1 DEF CalledRowExists, Executing, Sender, Rows, JobsType
<1>3. ASSUME NEW type, type = "send_email", OthersKeepTheirCall(type, w)
      PROVE  \A v \in Workers \ {w} : Sender(v)' = Sender(v)
  BY <1>3, <1>1 DEF OthersKeepTheirCall, Sender
<1>4. ASSUME Sender(w).pc # "idle"
      PROVE  /\ ~Over /\ \A v \in Workers \ {w} : Sender(v).pc = "idle"
  BY <1>4, OneSender DEF Live, Sender
<1>5. ASSUME UNCHANGED <<jobs, bull>> PROVE Rows' = Rows /\ SendJob' = SendJob
  BY <1>5 DEF Rows, SendJob
(* What is left to show when the call goes on with its row. *)
<1>6. ASSUME Sender(w).pc # "idle", OthersKeepTheirCall("send_email", w),
             SendJob' = SendJob, app'.status # "sent",
             Sender(w)'.pc \notin {"mark", "finish"},
             Sender(w)'.pc = "settle" => Sender(w)'.outcome # "ok",
             Sender(w)'.pc \in {"work", "requeue", "failrow"} => Rows'[Sender(w)'.row] = "processing",
             RowsUnsent'
      PROVE  NothingSent' /\ RowsUnsent'
  <2>1. \A v \in Workers \ {w} : Sender(v)'.pc = "idle"
    BY <1>3, <1>4, <1>6
  <2> QED
    BY <1>6, <2>1 DEF NothingSent
<1>7. ASSUME Sender(w).pc = "claim" \/ (Sender(w).pc = "settle" /\ Sender(w).outcome = "transient")
      PROVE  \A i \in DOMAIN Rows : Rows[i] = "queued"
  BY <1>4, <1>7 DEF RowsUnsent, InHand
<1>8. ASSUME Sender(w).pc \in {"work", "requeue", "failrow", "failapp"}
      PROVE  \A i \in DOMAIN Rows \ {Sender(w).row} : Rows[i] = "queued"
  BY <1>4, <1>8 DEF RowsUnsent, InHand
<1>9. ASSUME Rows' = Rows, RowsUnsent,
             \A i \in DOMAIN Rows : Rows[i] = "queued" \/ InHand(i)'
      PROVE  RowsUnsent'
  BY <1>9 DEF RowsUnsent
<1>10. ASSUME ClaimWins("send_email", w) PROVE NothingSent' /\ RowsUnsent'
  <2>1. /\ Sender(w).pc = "claim" /\ app' = app
        /\ CasJob("send_email", Sender(w).row, {"queued"}, "processing")
        /\ Rows[Sender(w).row] = "queued" /\ SendJob' = SendJob
    BY <1>5, <1>10 DEF ClaimWins, At, Sender, RowIsQueued, Rows, SendJob
  <2>2. /\ Sender(w)'.pc = "work" /\ Sender(w)'.row = Sender(w).row
        /\ OthersKeepTheirCall("send_email", w)
    BY <1>1, <1>10, SenderGoes DEF ClaimWins
  <2>3. /\ DOMAIN Rows' = DOMAIN Rows
        /\ \A i \in DOMAIN Rows :
             Rows'[i] = IF i = Sender(w).row THEN RowAfterCas(Rows[i], {"queued"}, "processing")
                        ELSE Rows[i]
    BY <1>1, <2>1, RowWritten
  <2>4. Rows'[Sender(w).row] = "processing"
    BY <1>2, <2>1, <2>3 DEF RowAfterCas
  <2>5. \A i : i = Sender(w).row => InHand(i)'
    BY <2>2 DEF InHand
  <2>6. RowsUnsent'
    BY <1>7, <2>1, <2>3, <2>4, <2>5 DEF RowsUnsent
  <2> QED
    BY <1>6, <2>1, <2>2, <2>4, <2>6 DEF NothingSent
<1>11. ASSUME ClaimLost("send_email", w) PROVE FALSE
  <2>1. Sender(w).pc = "claim" /\ Rows[Sender(w).row] # "queued"
    BY <1>11 DEF ClaimLost, At, Sender, RowIsQueued, Rows
  <2> QED
    BY <1>2, <1>7, <2>1
<1>12. ASSUME FailRow("send_email", w) PROVE NothingSent' /\ RowsUnsent'
  <2>1. /\ Sender(w).pc = "failrow" /\ app' = app /\ SendJob' = SendJob
        /\ CasJob("send_email", Sender(w).row, ActiveRow, "failed")
        /\ Rows[Sender(w).row] = "processing"
    BY <1>5, <1>12 DEF FailRow, At, Sender, SendJob, NothingSent
  <2>2. /\ Sender(w)'.pc = "failapp" /\ Sender(w)'.row = Sender(w).row
        /\ OthersKeepTheirCall("send_email", w)
    BY <1>1, <1>12, SenderGoes DEF FailRow
  <2>3. /\ DOMAIN Rows' = DOMAIN Rows
        /\ \A i \in DOMAIN Rows :
             Rows'[i] = IF i = Sender(w).row THEN RowAfterCas(Rows[i], ActiveRow, "failed")
                        ELSE Rows[i]
    BY <1>1, <2>1, RowWritten
  <2>4. (\A i : i = Sender(w).row => InHand(i)') /\ Rows'[Sender(w).row] = "failed"
    BY <1>2, <2>1, <2>2, <2>3 DEF InHand, RowAfterCas, ActiveRow
  <2>5. RowsUnsent'
    BY <1>8, <2>1, <2>3, <2>4 DEF RowsUnsent
  <2> QED
    BY <1>6, <2>1, <2>2, <2>5 DEF NothingSent
<1>13. ASSUME FailApp("send_email", w) PROVE NothingSent' /\ RowsUnsent'
  <2>1. /\ Sender(w).pc = "failapp" /\ SendJob' = SendJob /\ Rows' = Rows
        /\ CasApp({"draft", "generated"}, "failed", FALSE)
    BY <1>5, <1>13 DEF FailApp, At, Sender, FailableFrom
  <2>2. /\ Sender(w)'.pc = "settle" /\ Sender(w)'.outcome = "permanent"
        /\ OthersKeepTheirCall("send_email", w)
    BY <1>1, <1>13, SenderEnds DEF FailApp
  <2>3. \A i \in DOMAIN Rows : InHand(i)'
    BY <2>2 DEF InHand
  <2>4. app'.status # "sent"
    BY <1>1, <2>1 DEF CasApp, App, NothingSent
  <2>5. RowsUnsent'
    BY <1>9, <2>1, <2>3
  <2> QED
    BY <1>6, <2>1, <2>2, <2>4, <2>5 DEF NothingSent
<1>14. ASSUME Settle("send_email", w) PROVE NothingSent' /\ RowsUnsent'
  <2>1. /\ Sender(w).pc = "settle" /\ app' = app /\ Rows' = Rows
        /\ Sender(w).outcome \in {"transient", "permanent"}
        /\ FinishJob("send_email", w, Sender(w).outcome)
    <3>1. Sender(w).pc = "settle" /\ app' = app /\ Rows' = Rows
          /\ FinishJob("send_email", w, Sender(w).outcome)
      BY <1>14 DEF Settle, At, Sender, Rows
    <3>2. Sender(w).outcome \in Outcome
      BY <1>1 DEF RunsType, Runner, Sender
    <3> QED
      BY <3>1, <3>2 DEF NothingSent, Outcome
  <2>2. /\ Sender(w)'.pc = "idle" /\ OthersKeepTheirCall("send_email", w)
    BY <1>1, <1>14, SettleEffect DEF Sender, Idle
  <2>3. /\ SendJob.state = "active" /\ SendJob.owner = w
        /\ SendJob'.state \in {"waiting", "failed"}
        /\ Sender(w).outcome = "permanent" => SendJob'.state = "failed"
    <3>1. SendJob.state = "active" /\ SendJob.owner = w
      BY <2>1 DEF CallsHoldLocks, Live, Sender, SendJob, Types
    <3>2. bull' = [bull EXCEPT !["send_email"] =
                     AfterFailure(SendJob, "send_email", Sender(w).outcome = "transient")]
      BY <2>1, <3>1 DEF FinishJob, SendJob
    <3>3. SendJob' = AfterFailure(SendJob, "send_email", Sender(w).outcome = "transient")
      BY <1>1, <3>2 DEF BullType, SendJob
    <3>4. SendJob \in Bull
      BY <1>1 DEF BullType, SendJob
    <3>5. SendJob'.state = IF Sender(w).outcome = "transient"
                              /\ SendJob.made + 1 < MaxAttempts["send_email"]
                             THEN "waiting" ELSE "failed"
      <4> HIDE DEF SendJob
      <4> QED
        BY <3>3, <3>4 DEF AfterFailure, Bull
    <3> QED
      BY <3>1, <3>5
  <2>4. \A v \in Workers : Sender(v)'.pc = "idle"
    BY <1>3, <1>4, <2>1, <2>2
  <2>5. RowsUnsent'
    <3>1. CASE Sender(w).outcome = "permanent"
      BY <2>1, <2>3, <3>1 DEF RowsUnsent, Over
    <3>2. CASE Sender(w).outcome = "transient"
      BY <1>7, <2>1, <3>2 DEF RowsUnsent
    <3> QED
      BY <2>1, <3>1, <3>2
  <2> QED
    BY <2>1, <2>3, <2>4, <2>5 DEF NothingSent
<1>15. ASSUME SendLoad(w) PROVE NothingSent' /\ RowsUnsent'
  <2>1. /\ Rows' = Rows /\ app' = app /\ SendJob.state = "waiting"
        /\ SendJob'.state = "active"
        /\ run' = [run EXCEPT !["send_email"][w] = SendEntry]
    BY <1>1, <1>15 DEF SendLoad, TakeJob, BullType, Bull, Rows, SendJob
  <2>2. Sender(w)' = SendEntry /\ OthersKeepTheirCall("send_email", w)
    BY <1>1, <2>1, NewCallEffect DEF Sender
  <2>3. \A v \in Workers : Sender(v).pc = "idle"
    BY <2>1 DEF CallsHoldLocks, Live, Sender, SendJob, Types
  <2>4. \A i \in DOMAIN Rows : Rows[i] = "queued"
    BY <2>1, <2>3 DEF RowsUnsent, InHand, Over
  <2>5. ~HasCompletedSendJob
    BY <2>4 DEF HasCompletedSendJob, RowsOf, Rows
  <2>6. SendEntry.pc = "claim" \/ (SendEntry.pc = "settle" /\ SendEntry.outcome = "permanent")
    BY <2>5 DEF SendEntry, Loaded, Rejected, Idle, NothingSent
  <2>7. \A v \in Workers \ {w} : Sender(v)'.pc = "idle"
    BY <1>3, <2>2, <2>3
  <2>8. RowsUnsent'
    BY <2>1, <2>4 DEF RowsUnsent
  <2> QED
    BY <2>1, <2>2, <2>6, <2>7, <2>8 DEF NothingSent
<1>16. ASSUME SendRejects(w) \/ SendFails(w) PROVE NothingSent' /\ RowsUnsent'
  <2>1. /\ Sender(w).pc = "work" /\ Rows' = Rows /\ SendJob' = SendJob /\ app' = app
        /\ Rows[Sender(w).row] = "processing"
    BY <1>5, <1>16 DEF SendRejects, SendFails, MaySend, At, Sender, NothingSent
  <2>2. /\ Sender(w)'.pc \in {"failrow", "requeue"} /\ Sender(w)'.row = Sender(w).row
        /\ OthersKeepTheirCall("send_email", w)
    BY <1>1, <1>16, SenderCatches DEF SendRejects, SendFails, Fails
  <2>3. \A i : i = Sender(w).row => InHand(i)'
    BY <2>2 DEF InHand
  <2>4. RowsUnsent'
    BY <1>8, <1>9, <2>1, <2>3
  <2> QED
    BY <1>6, <2>1, <2>2, <2>4 DEF NothingSent
<1>17. ASSUME Requeue(w) PROVE NothingSent' /\ RowsUnsent'
  <2>1. /\ Sender(w).pc = "requeue" /\ app' = app /\ SendJob' = SendJob
        /\ CasJob("send_email", Sender(w).row, {"processing"}, "queued")
        /\ Rows[Sender(w).row] = "processing"
    BY <1>5, <1>17 DEF Requeue, At, Sender, SendJob, NothingSent
  <2>2. /\ Sender(w)'.pc = "settle" /\ Sender(w)'.outcome = "transient"
        /\ OthersKeepTheirCall("send_email", w)
    BY <1>1, <1>17, SenderEnds DEF Requeue
  <2>3. /\ DOMAIN Rows' = DOMAIN Rows
        /\ \A i \in DOMAIN Rows :
             Rows'[i] = IF i = Sender(w).row THEN RowAfterCas(Rows[i], {"processing"}, "queued")
                        ELSE Rows[i]
    BY <1>1, <2>1, RowWritten
  <2>4. RowsUnsent'
    BY <1>8, <2>1, <2>3 DEF RowsUnsent, RowAfterCas
  <2> QED
    BY <1>6, <2>1, <2>2, <2>4 DEF NothingSent
<1>18. ~Deliver(w) /\ ~MarkSent(w) /\ ~FinishSend(w)
  <2>1. ~Deliver(w)
    BY <1>1 DEF Deliver
  <2>2. ~MarkSent(w) /\ ~FinishSend(w)
    BY DEF MarkSent, FinishSend, At, NothingSent, Sender
  <2> QED
    BY <2>1, <2>2
<1>19. ~SendTrouble(w) \/ SendFails(w)
  BY DEF SendTrouble, ClaimThenFault, PersistFault, CatchFault, DeliverThenFault, MarkSentFault
<1> QED
  BY <1>10, <1>11, <1>12, <1>13, <1>14, <1>15, <1>16, <1>17, <1>18, <1>19
     DEF SendStep, SharedStep

LEMMA MailsGrow ==
  ASSUME TypeOK, [Next]_vars
  PROVE  mails' = mails \/ \E w \in Workers : (Deliver(w) \/ DeliverThenFault(w)) /\ mails' = mails + 1
<1>1. ASSUME NEW w \in Workers, ProcessStep(w) \/ SendStep(w)
      PROVE  mails' = mails \/ (Deliver(w) /\ mails' = mails + 1)
  BY <1>1
     DEF ProcessStep, SendStep, SharedStep, ClaimWins, ClaimLost, FailRow, FailApp, Settle,
         ProcessLoad, ProcessConflict, ProcessNeedsReview, ProcessGenerates, ProcessCommit,
         ProcessEnqueuesSend, SendLoad, SendRejects, Deliver, MarkSent, FinishSend, Requeue
<1>2. ASSUME NEW w \in Workers, WorkerTrouble(w)
      PROVE  mails' = mails \/ (DeliverThenFault(w) /\ mails' = mails + 1)
  BY <1>2
     DEF WorkerTrouble, ClaimThenFault, PersistFault, CatchFault, ProcessFails,
         ProcessFailsUnclassified, ProcessEnqueueFault, SendFails, DeliverThenFault,
         MarkSentFault, WorkerCrash
<1>3. ASSUME (\E type \in Types : LockExpires(type)) \/ FinishedJobExpires PROVE mails' = mails
  BY <1>3 DEF LockExpires, FinishedJobExpires
<1> QED
  BY <1>1, <1>2, <1>3 DEF Next, WorkersAct, WorkerNext, RequestsAct, RecoveryActs, vars

LEMMA RequestsOnSend ==
  ASSUME TypeOK, RequestsAct
  PROVE  /\ SenderKept /\ mails' = mails /\ rec' = rec
         /\ app'.status = "sent" => app.status = "sent"
<1>1. app \in App
  BY TypeOKByParts
<1>2. ASSUME NEW expected, NEW next \in {"draft", "generated", "cancelled"},
             CasApp(expected, next, FALSE)
      PROVE  app'.status = "sent" => app.status = "sent"
  BY <1>1, <1>2 DEF CasApp, App
<1>3. ASSUME NEW r \in Requests, RetryCount(r) PROVE app'.status = app.status
  BY <1>1, <1>3 DEF RetryCount, App
<1> QED
  BY <1>2, <1>3
     DEF RequestsAct, CommandNext, RequestStep, RetryCheck, RetryReopen, CreateRow, EnqueueRow,
         SendCheck, ContinueConflict, RequestDies, ContinueCommit,
         RetryRead, ContinueCheck, SendRead, Cancel, SenderKept

LEMMA RecoveryOnSend ==
  ASSUME TypeOK, RecoveryActs
  PROVE  /\ SenderKept /\ mails' = mails /\ reqs' = reqs
         /\ app'.status = app.status
            \/ (RecFailApp /\ app.status \in {"draft", "generated"} /\ app'.status = "failed")
<1>1. app \in App
  BY TypeOKByParts
<1>2. ASSUME RecFailApp
      PROVE  app'.status = app.status
             \/ (app.status \in {"draft", "generated"} /\ app'.status = "failed")
  BY <1>1, <1>2 DEF RecFailApp, CasApp, App
<1> QED
  BY <1>2
     DEF RecoveryActs, RecoveryNext, RecoveryStep, RecPick, RecInspect, RecSync, RecEnqueue,
         RecFailRow, RecReset, RecCreate, RecAborts, SenderKept

LEMMA StaysUnmailed ==
  ASSUME TypeOK, TypeOK', HeldInv, SteadyInv, ClaimInv, UnmailedInv, [Next]_vars
  PROVE  UnmailedInv'
<1> SUFFICES ASSUME Calm', mails' = 0 PROVE NothingSent' /\ RowsUnsent'
  BY DEF UnmailedInv
<1>1. /\ bull \in BullType /\ jobs \in JobsType /\ run \in RunsType /\ mails \in Nat
      /\ "send_email" \in Types
  BY TypeOKByParts DEF Types
<1>2. Calm /\ ~Spend("fault") /\ ~Spend("crash") /\ ~Spend("stall") /\ ~Spend("expire")
  BY CalmBefore
<1>3. mails = 0
  BY <1>1, MailsGrow
<1>4. NothingSent /\ RowsUnsent /\ CallsHoldLocks /\ SweepIsCurrent /\ CalledRowExists
  BY <1>2, <1>3 DEF UnmailedInv, HeldInv, SteadyInv, ClaimInv, Calm, Steady
<1>5. spent'["expire"] = 0 /\ (Over => SendJob' = SendJob)
  BY ClosedJobStays DEF Calm, Steady
<1>6. ASSUME JobsKept PROVE SendJob'.state = "completed" => SendJob.state = "completed"
                            \/ SendJob.state = "none"
  BY <1>1, <1>6 DEF JobsKept, SendJob
<1>7. ASSUME NEW type \in Types, Enqueue(type)
      PROVE  SendJob'.state = "completed" => SendJob.state = "completed"
  BY <1>1, <1>7 DEF Enqueue, NewJob, NoJob, BullType, SendJob
<1>8. CASE \E w \in Workers : ProcessStep(w) \/ ProcessTrouble(w)
  <2>1. PICK w \in Workers : ProcessStep(w) \/ ProcessTrouble(w)
    BY <1>8
  <2>2. RowsOnlyAdded
    BY <1>1, <2>1, ProcessOnSend, RowsLeftAlone, AppendAddsRow
  <2>3. /\ SenderKept
        /\ app'.status = "sent" => app.status = "sent"
        /\ SendJob'.state = "completed" => SendJob.state = "completed"
    BY <1>1, <1>7, <2>1, ProcessOnSend DEF DraftProcessed
  <2> QED
    BY <1>4, <1>5, <2>2, <2>3, UnmailedApart
<1>9. CASE \E w \in Workers : SendStep(w) \/ SendTrouble(w)
  BY <1>2, <1>4, <1>9, UnmailedCalls
<1>10. ASSUME NEW type \in Types, LockExpires(type) PROVE NothingSent' /\ RowsUnsent'
  <2>1. /\ SenderKept /\ app' = app /\ RowsOnlyAdded
    BY <1>10, RowsLeftAlone DEF LockExpires, SenderKept, Rows
  <2>2. SendJob'.state = "completed" => SendJob.state = "completed"
    BY <1>1, <1>10 DEF LockExpires, StallJob, AfterFailure, BullType, Bull, SendJob
  <2> QED
    BY <1>4, <1>5, <2>1, <2>2, UnmailedApart
<1>11. CASE RequestsAct
  <2>1. RowsOnlyAdded
    BY <1>11, RequestsOnRows
  <2>2. SendJob'.state = "completed" => SendJob.state = "completed"
    <3>1. \A r \in Requests : reqs[r].type \in Types
      BY TypeOKByParts DEF ReqsType, Request
    <3>2. UNCHANGED bull \/ \E type \in Types : Enqueue(type)
      BY <1>11, <3>1
         DEF RequestsAct, CommandNext, RequestStep, RetryCheck, RetryCount, RetryReopen,
             SendCheck, CreateRow, EnqueueRow, ContinueCommit, ContinueConflict, RequestDies,
             RetryRead, ContinueCheck, SendRead, Cancel
    <3> QED
      BY <1>7, <3>2 DEF SendJob
  <2>3. SenderKept /\ (app'.status = "sent" => app.status = "sent")
    BY <1>11, RequestsOnSend
  <2> QED
    BY <1>4, <1>5, <2>1, <2>2, <2>3, UnmailedApart
<1>12. CASE RecoveryActs
  <2>1. RowsOnlyAdded \/ SweepWrites
    BY <1>12, RecoveryOnRows
  <2>2. SendJob'.state = "completed" => SendJob.state = "completed"
    <3>1. rec.type \in Types
      BY TypeOKByParts DEF Sweep
    <3>2. UNCHANGED bull \/ \E type \in Types : Enqueue(type)
      BY <1>12, <3>1
         DEF RecoveryActs, RecoveryNext, RecoveryStep, RecPick, RecInspect, RecSync, RecEnqueue,
             RecFailRow, RecFailApp, RecReset, RecCreate, RecAborts
    <3> QED
      BY <1>7, <3>2 DEF SendJob
  <2>3. SenderKept /\ (app'.status = "sent" => app.status = "sent")
    BY <1>12, RecoveryOnSend
  <2> QED
    BY <1>4, <1>5, <2>1, <2>2, <2>3, UnmailedApart
<1>13. CASE UNCHANGED vars
  <2>1. /\ SenderKept /\ app' = app /\ RowsOnlyAdded /\ SendJob' = SendJob
    BY <1>13, RowsLeftAlone DEF vars, SenderKept, Rows, SendJob
  <2> QED
    BY <1>4, <1>5, <2>1, UnmailedApart
<1>14. ~(\E w \in Workers : WorkerCrash(w)) /\ ~FinishedJobExpires
  BY <1>2 DEF WorkerCrash, FinishedJobExpires
<1> QED
  BY <1>8, <1>9, <1>10, <1>11, <1>12, <1>13, <1>14, WorkersByQueue DEF Next

LEMMA SideInvariantsHold == Spec => [](HeldInv /\ SteadyInv)
<1>1. Init => HeldInv /\ SteadyInv
  <2> SUFFICES ASSUME Init PROVE CallsHoldLocks /\ FreshRows /\ SweepIsCurrent
    BY DEF HeldInv, SteadyInv
  <2>1. /\ \A type \in Types, w \in Workers : run[type][w].pc = "idle"
        /\ Rows = <<>> /\ rec.type = "ai_process"
    BY DEF Init, Idle, Rows, NoSweep, Types
  <2> QED
    BY <2>1 DEF CallsHoldLocks, Live, FreshRows, SweepIsCurrent
<1>2. TypeOK /\ HeldInv /\ SteadyInv /\ [Next]_vars => HeldInv' /\ SteadyInv'
  BY LocksStayHeld, StaysSteady
<1> QED
  BY <1>1, <1>2, TypeCorrect, PTL DEF Spec

LEMMA UnmailedInvHolds == Spec => []UnmailedInv
<1>1. Init => UnmailedInv
  <2> SUFFICES ASSUME Init PROVE NothingSent /\ RowsUnsent
    BY DEF UnmailedInv
  <2>1. /\ \A w \in Workers : Sender(w).pc = "idle"
        /\ Rows = <<>> /\ SendJob.state = "none" /\ app.status = "draft"
    BY DEF Init, Idle, Rows, Sender, SendJob, NoJob, Types
  <2> QED
    BY <2>1 DEF NothingSent, RowsUnsent
<1>2. TypeOK /\ TypeOK' /\ HeldInv /\ SteadyInv /\ ClaimInv /\ UnmailedInv /\ [Next]_vars
      => UnmailedInv'
  BY StaysUnmailed
<1> QED
  BY <1>1, <1>2, TypeCorrect, SideInvariantsHold, ClaimInvHolds, PTL DEF Spec

(***************************************************************************)
(* While no replica dies or loses a lock, no statement fails and no job    *)
(* outlives its retention, a completed send row has its mail: whatever     *)
(* requests, refusals, lost enqueues, retries and recovery sweeps do.      *)
(***************************************************************************)
THEOREM CompletedMeansMailedWhenCalm == Spec => [](Calm => CompletedSendMeansMailed)
<1>1. TypeOK /\ UnmailedInv => (Calm => CompletedSendMeansMailed)
  <2> SUFFICES ASSUME TypeOK, UnmailedInv, Calm, HasCompletedSendJob, mails = 0 PROVE FALSE
    BY TypeOKByParts DEF CompletedSendMeansMailed
  <2> QED
    BY DEF UnmailedInv, RowsUnsent, HasCompletedSendJob, RowsOf, Rows
<1> QED
  BY <1>1, UnmailedInvHolds, TypeCorrect, PTL

-----------------------------------------------------------------------------
(* Without a retry an application never becomes a draft again.             *)

(* The mail may have been ordered: the application is past its review. *)
Open(status) == status \notin {"draft", "needs_review"}

NoRetry == spent["retry"] = 0

OrdersInOrder ==
  /\ Rows # <<>> => Open(app.status)
  /\ \A r \in Requests :
       /\ reqs[r].pc \notin {"check", "count", "reopen"}
       /\ reqs[r].pc \in {"sendcheck", "create"}
            => reqs[r].type = "send_email" /\ Open(app.status)

OrdersInv == NoRetry => OrdersInOrder

LEMMA SendOnApp ==
  ASSUME TypeOK, NEW w \in Workers, SendStep(w) \/ SendTrouble(w)
  PROVE  app'.status = app.status \/ app'.status \in {"failed", "sent"}
<1>1. app \in App
  BY TypeOKByParts
<1>2. ASSUME NEW expected, NEW next \in {"failed", "sent"}, NEW review, CasApp(expected, next, review)
      PROVE  app'.status = app.status \/ app'.status \in {"failed", "sent"}
  BY <1>1, <1>2 DEF CasApp, App
<1> QED
  BY <1>2
     DEF SendStep, SendTrouble, SharedStep, ClaimWins, ClaimLost, FailRow, FailApp, Settle,
         SendLoad, SendRejects, Deliver, MarkSent, FinishSend, Requeue, ClaimThenFault,
         PersistFault, CatchFault, SendFails, DeliverThenFault, MarkSentFault

(* Which way the status can go: a mail is ordered once, from a draft or a review. *)
LEMMA StatusMoves ==
  ASSUME TypeOK, TypeOK', OrdersInOrder, [Next]_vars
  PROVE  \/ app'.status = app.status
         \/ app'.status \in {"failed", "sent", "cancelled"}
         \/ ~Open(app.status) /\ app'.status \in {"generated", "needs_review"}
<1>1. app \in App
  BY TypeOKByParts
<1> DEFINE Fact == \/ app'.status = app.status
                   \/ app'.status \in {"failed", "sent", "cancelled"}
                   \/ ~Open(app.status) /\ app'.status \in {"generated", "needs_review"}
<1>2. CASE RequestsAct
  <2>1. ASSUME NEW r \in Requests, RequestStep(r) PROVE Fact
    <3>1. ~RetryCheck(r) /\ ~RetryCount(r) /\ ~RetryReopen(r)
      BY DEF RetryCheck, RetryCount, RetryReopen, OrdersInOrder
    <3>2. ASSUME ContinueCommit(r) PROVE Fact
      BY <1>1, <3>2 DEF ContinueCommit, CasApp, App, Open
    <3> QED
      BY <2>1, <3>1, <3>2
         DEF RequestStep, SendCheck, CreateRow, EnqueueRow, ContinueConflict
  <2>2. ASSUME Cancel PROVE Fact
    BY <1>1, <2>2 DEF Cancel, CasApp, App
  <2> QED
    BY <1>2, <2>1, <2>2
       DEF RequestsAct, CommandNext, RequestDies, RetryRead, ContinueCheck, SendRead
<1>3. CASE WorkersAct
  <2>1. ASSUME NEW w \in Workers, ProcessStep(w) \/ ProcessTrouble(w) PROVE Fact
    BY <2>1, ProcessOnSend DEF DraftProcessed, Open
  <2>2. ASSUME NEW w \in Workers, SendStep(w) \/ SendTrouble(w) PROVE Fact
    BY <2>2, SendOnApp
  <2>3. ASSUME \/ \E w \in Workers : WorkerCrash(w)
               \/ \E type \in Types : LockExpires(type)
               \/ FinishedJobExpires
        PROVE  Fact
    BY <2>3 DEF WorkerCrash, LockExpires, FinishedJobExpires
  <2> QED
    BY <1>3, <2>1, <2>2, <2>3, WorkersByQueue
<1>4. CASE RecoveryActs
  BY <1>4, RecoveryOnSend
<1>5. CASE UNCHANGED vars
  BY <1>5 DEF vars
<1> QED
  BY <1>2, <1>3, <1>4, <1>5 DEF Next

RowAdded == Rows' = Append(Rows, "queued")

(* Who adds a send row, and in which state of the application. *)
LEMMA WhoAddsRows ==
  ASSUME TypeOK, TypeOK', [Next]_vars
  PROVE  \/ Len(Rows') = Len(Rows)
         \/ /\ RowAdded
            /\ \/ ~Open(app.status) /\ app'.status = "generated" /\ rec' = rec /\ SenderKept
               \/ \E r \in Requests : CreateRow(r) /\ reqs[r].type = "send_email"
               \/ RecCreate /\ rec.type = "send_email"
<1>1. /\ jobs \in JobsType /\ rec.type \in Types /\ app \in App /\ rec.row \in Nat
      /\ \A r \in Requests : reqs[r].type \in Types
      /\ "send_email" \in Types /\ Types = {"ai_process", "send_email"}
      /\ {"queued", "processing", "completed", "failed", "retrying"} \subseteq RowStatus
      /\ \A w \in Workers : run["send_email"][w].row \in Nat
  BY TypeOKByParts DEF Types, Sweep, ReqsType, Request, RowStatus, RunsType, Runner
<1> DEFINE Fact ==
      \/ Len(Rows') = Len(Rows)
      \/ /\ RowAdded
         /\ \/ ~Open(app.status) /\ app'.status = "generated" /\ rec' = rec /\ SenderKept
            \/ \E r \in Requests : CreateRow(r) /\ reqs[r].type = "send_email"
            \/ RecCreate /\ rec.type = "send_email"
<1>2. ASSUME UNCHANGED jobs PROVE Len(Rows') = Len(Rows)
  BY <1>2 DEF Rows
<1>3. ASSUME NEW row \in Nat, NEW expected, NEW next \in RowStatus,
             CasJob("send_email", row, expected, next)
      PROVE  Len(Rows') = Len(Rows)
  BY <1>1, <1>3, RowWritten
<1>4. ASSUME NEW type \in Types, CreateJob(type)
      PROVE  Len(Rows') = Len(Rows) \/ (type = "send_email" /\ RowAdded)
  BY <1>1, <1>4 DEF CreateJob, JobsType, Rows, RowAdded
<1>5. CASE WorkersAct
  <2>1. ASSUME NEW w \in Workers, ProcessStep(w) \/ ProcessTrouble(w) PROVE Fact
    BY <1>5, <2>1, ProcessOnSend DEF RowAdded, Open, WorkersAct
  <2>2. ASSUME NEW w \in Workers, SendStep(w) \/ SendTrouble(w) PROVE Len(Rows') = Len(Rows)
    <3>1. ASSUME SendRowStep(w) PROVE Len(Rows') = Len(Rows)
      BY <1>1, <1>3, <3>1
         DEF SendRowStep, ClaimWins, ClaimThenFault, FailRow, FinishSend, Requeue
    <3> QED
      BY <1>2, <2>2, <3>1
         DEF SendStep, SendTrouble, SharedStep, SendRowStep, ClaimLost, FailApp, Settle,
             SendLoad, SendRejects, Deliver, MarkSent,
             PersistFault, CatchFault, SendFails, DeliverThenFault, MarkSentFault
  <2>3. ASSUME \/ \E w \in Workers : WorkerCrash(w)
               \/ \E type \in Types : LockExpires(type)
               \/ FinishedJobExpires
        PROVE  Len(Rows') = Len(Rows)
    BY <1>2, <2>3 DEF WorkerCrash, LockExpires, FinishedJobExpires
  <2> QED
    BY <1>5, <2>1, <2>2, <2>3, WorkersByQueue
<1>6. CASE RequestsAct
  <2>1. ASSUME NEW r \in Requests, ContinueCommit(r) PROVE Fact
    <3>1. RowAdded
      BY <1>1, <2>1 DEF ContinueCommit, CreateJob, JobsType, Rows, RowAdded
    <3>2. ~Open(app.status) /\ app'.status = "generated"
      BY <1>1, <2>1 DEF ContinueCommit, CasApp, App, Open
    <3> QED
      BY <1>6, <3>1, <3>2 DEF RequestsAct, SenderKept
  <2>2. ASSUME NEW r \in Requests, CreateRow(r) PROVE Fact
    BY <1>1, <1>4, <2>2 DEF CreateRow
  <2> QED
    BY <1>2, <1>6, <2>1, <2>2
       DEF RequestsAct, CommandNext, RequestStep, RetryCheck, RetryCount, RetryReopen,
           SendCheck, EnqueueRow, ContinueConflict, RequestDies,
           RetryRead, ContinueCheck, SendRead, Cancel
<1>7. CASE RecoveryActs
  <2>1. ASSUME RecCreate PROVE Fact
    BY <1>1, <1>4, <2>1 DEF RecCreate
  <2>2. ASSUME NEW expected, NEW next \in RowStatus, CasJob(rec.type, rec.row, expected, next)
        PROVE  Len(Rows') = Len(Rows)
    <3>1. CASE rec.type = "send_email"
      BY <1>1, <1>3, <2>2, <3>1
    <3>2. CASE rec.type # "send_email"
      BY <1>1, <2>2, <3>2 DEF CasJob, JobsType, Rows
    <3> QED
      BY <3>1, <3>2
  <2>3. ASSUME RecSync \/ RecFailRow \/ RecReset PROVE Len(Rows') = Len(Rows)
    BY <1>1, <2>2, <2>3 DEF RecSync, RecFailRow, RecReset
  <2> QED
    BY <1>2, <1>7, <2>1, <2>3
       DEF RecoveryActs, RecoveryNext, RecoveryStep, RecPick, RecInspect, RecEnqueue,
           RecFailApp, RecAborts
<1>8. CASE UNCHANGED vars
  BY <1>2, <1>8 DEF vars
<1> QED
  BY <1>5, <1>6, <1>7, <1>8 DEF Next

LEMMA NoRetryBefore ==
  ASSUME TypeOK, [Next]_vars, NoRetry'
  PROVE  NoRetry /\ ~Spend("retry")
<1>1. "retry" \in Kinds
  BY DEF Kinds
<1> QED
  BY <1>1, UnusedIsNotSpent DEF NoRetry

LEMMA RowsEmpty ==
  ASSUME jobs \in JobsType, jobs' \in JobsType
  PROVE  /\ Rows = <<>> <=> Len(Rows) = 0
         /\ Rows' = <<>> <=> Len(Rows') = 0
  BY DEF Rows, JobsType, Types

LEMMA StaysInOrder ==
  ASSUME TypeOK, TypeOK', JobHasRow, OrdersInv, [Next]_vars
  PROVE  OrdersInv'
<1> SUFFICES ASSUME NoRetry' PROVE OrdersInOrder'
  BY DEF OrdersInv
<1>1. OrdersInOrder /\ ~Spend("retry")
  BY NoRetryBefore DEF OrdersInv
<1>2. /\ jobs \in JobsType /\ jobs' \in JobsType /\ reqs \in ReqsType
  BY TypeOKByParts DEF TypeOK, StoreTypeOK, JobsType
<1>3. Open(app.status) => Open(app'.status)
  BY <1>1, StatusMoves DEF Open
<1>4. Rows' # <<>> => Open(app'.status)
  <2>1. CASE Len(Rows') = Len(Rows)
    BY <1>1, <1>2, <1>3, <2>1, RowsEmpty DEF OrdersInOrder
  <2>2. CASE ~Open(app.status) /\ app'.status = "generated"
    BY <2>2 DEF Open
  <2>3. CASE \E r \in Requests : CreateRow(r) /\ reqs[r].type = "send_email"
    BY <1>1, <1>3, <2>3 DEF OrdersInOrder, CreateRow
  <2>4. CASE RecCreate /\ rec.type = "send_email"
    <3>1. Len(Rows) > 0
      BY <2>4 DEF RecCreate, RecAt, JobHasRow, LatestRow, Rows
    <3> QED
      BY <1>1, <1>2, <1>3, <3>1, RowsEmpty DEF OrdersInOrder
  <2> QED
    BY <2>1, <2>2, <2>3, <2>4, WhoAddsRows
<1>5. ASSUME NEW q \in Requests
      PROVE  /\ reqs'[q].pc \notin {"check", "count", "reopen"}
             /\ reqs'[q].pc \in {"sendcheck", "create"}
                  => reqs'[q].type = "send_email" /\ Open(app'.status)
  <2> DEFINE Fact == /\ reqs'[q].pc \notin {"check", "count", "reopen"}
                     /\ reqs'[q].pc \in {"sendcheck", "create"}
                          => reqs'[q].type = "send_email" /\ Open(app'.status)
  <2>1. ASSUME reqs'[q] = reqs[q] PROVE Fact
    BY <1>1, <1>3, <2>1 DEF OrdersInOrder
  <2>2. ASSUME NEW r \in Requests, Done(r) PROVE Fact
    BY <1>2, <2>1, <2>2 DEF Done, ReqsType, NoRequest
  <2>3. ASSUME NEW r \in Requests, Advance(r, "enqueue") PROVE Fact
    BY <1>2, <2>1, <2>3 DEF Advance, ReqsType, Request
  <2>4. ASSUME NEW r \in Requests, SendCheck(r) PROVE Fact
    <3>1. /\ reqs[r].type = "send_email" /\ Open(app'.status)
      BY <1>1, <1>3, <2>4 DEF SendCheck, OrdersInOrder
    <3>2. CASE Advance(r, "create")
      BY <1>2, <2>1, <3>1, <3>2 DEF Advance, ReqsType, Request
    <3> QED
      BY <2>2, <2>4, <3>2 DEF SendCheck
  <2>5. ASSUME NEW r \in Requests, SendRead(r) PROVE Fact
    BY <1>2, <1>3, <2>1, <2>5 DEF SendRead, Proceed, ReqsType, Request, Open
  <2>6. ASSUME NEW r \in Requests, ContinueCheck(r) PROVE Fact
    BY <1>2, <2>1, <2>6 DEF ContinueCheck, Proceed, ReqsType, Request
  <2>7. \A r \in Requests : ~RetryCheck(r) /\ ~RetryCount(r) /\ ~RetryReopen(r) /\ ~RetryRead(r)
    BY <1>1 DEF RetryCheck, RetryCount, RetryReopen, RetryRead, OrdersInOrder
  <2>8. CASE RequestsAct
    BY <2>1, <2>2, <2>3, <2>4, <2>5, <2>6, <2>7, <2>8
       DEF RequestsAct, CommandNext, RequestStep, CreateRow, EnqueueRow, ContinueCommit,
           ContinueConflict, RequestDies, Cancel
  <2> QED
    BY <2>1, <2>8 DEF Next, WorkersAct, RecoveryActs, vars
<1> QED
  BY <1>4, <1>5 DEF OrdersInOrder

-----------------------------------------------------------------------------
(* A call and its row.                                                     *)

LEMMA WhoMovesSender ==
  ASSUME TypeOK, TypeOK', [Next]_vars, NEW w \in Workers
  PROVE  \/ Sender(w)' = Sender(w)
         \/ Sender(w)' = Idle /\ Spend("crash")
         \/ SendStep(w) \/ SendTrouble(w)
<1>1. run \in RunsType /\ "send_email" \in Types
  BY TypeOKByParts DEF Types
<1>2. ASSUME SenderKept PROVE Sender(w)' = Sender(w)
  BY <1>2 DEF SenderKept, Sender
<1>3. ASSUME NEW v \in Workers, v # w, SendStep(v) \/ SendTrouble(v) PROVE Sender(w)' = Sender(w)
  <2>1. ASSUME OthersKeepTheirCall("send_email", v) PROVE Sender(w)' = Sender(w)
    BY <1>1, <1>3, <2>1 DEF OthersKeepTheirCall, Sender
  <2>2. ASSUME NEW pc, Goto("send_email", v, pc) PROVE Sender(w)' = Sender(w)
    BY <1>1, <2>1, <2>2, SenderGoes
  <2>3. ASSUME NEW outcome, EndWith("send_email", v, outcome) PROVE Sender(w)' = Sender(w)
    BY <1>1, <2>1, <2>3, SenderEnds
  <2>4. ASSUME NEW recoverable, Catch("send_email", v, recoverable) PROVE Sender(w)' = Sender(w)
    BY <1>1, <2>1, <2>4, SenderCatches
  <2>5. ASSUME NEW call, run' = [run EXCEPT !["send_email"][v] = call] PROVE Sender(w)' = Sender(w)
    BY <1>1, <2>1, <2>5, NewCallEffect
  <2>6. ASSUME SendStep(v) PROVE Sender(w)' = Sender(w)
    BY <2>2, <2>3, <2>4, <2>5, <2>6
       DEF SendStep, SharedStep, ClaimWins, ClaimLost, FailRow, FailApp, Settle,
           SendLoad, SendRejects, Deliver, MarkSent, FinishSend, Requeue
  <2>7. ASSUME SendTrouble(v) PROVE Sender(w)' = Sender(w)
    BY <2>2, <2>3, <2>4, <2>7
       DEF SendTrouble, ClaimThenFault, PersistFault, CatchFault, SendFails, Fails,
           DeliverThenFault, MarkSentFault
  <2> QED
    BY <1>3, <2>6, <2>7
<1>4. ASSUME NEW v \in Workers, WorkerCrash(v)
      PROVE  Sender(w)' = Sender(w) \/ (Sender(w)' = Idle /\ Spend("crash"))
  BY <1>1, <1>4 DEF WorkerCrash, Sender, RunsType
<1>5. CASE WorkersAct
  <2>1. ASSUME NEW v \in Workers, ProcessStep(v) \/ ProcessTrouble(v) PROVE SenderKept
    BY <2>1, ProcessOnSend
  <2>2. ASSUME (\E type \in Types : LockExpires(type)) \/ FinishedJobExpires PROVE SenderKept
    BY <2>2 DEF LockExpires, FinishedJobExpires, SenderKept
  <2> QED
    BY <1>2, <1>3, <1>4, <1>5, <2>1, <2>2, WorkersByQueue
<1>6. CASE RequestsAct \/ RecoveryActs \/ UNCHANGED vars
  BY <1>2, <1>6 DEF RequestsAct, RecoveryActs, vars, SenderKept
<1> QED
  BY <1>5, <1>6 DEF Next

(* The row of a running call is written by nobody else. *)
LEMMA CalledRowIsOwn ==
  ASSUME TypeOK, [Next]_vars, CallsHoldLocks, SweepIsCurrent, CalledRowExists,
         NEW w \in Workers, Sender(w).pc \in {"claim", "work", "mark"}, ~SendRowStep(w)
  PROVE  Sender(w).row \in DOMAIN Rows /\ Rows'[Sender(w).row] = Rows[Sender(w).row]
<1>1. jobs \in JobsType /\ "send_email" \in Types
  BY TypeOKByParts DEF Types
<1>2. Sender(w).row \in DOMAIN Rows
  BY <1>1 DEF CalledRowExists, Executing, Sender, Rows, JobsType
<1>3. ~Over /\ \A v \in Workers \ {w} : ~Live("send_email", v)
  BY OneSender DEF Live, Sender
<1>4. ~SweepWrites /\ \A v \in Workers : ~SendRowStep(v)
  BY <1>3, SendRowIsCalled
     DEF SweepWrites, SweepSyncs, SweepCloses, SweepIsCurrent, Over
<1> QED
  BY <1>2, <1>4, WhoWritesRows DEF RowsOnlyAdded

(***************************************************************************)
(* The row of a call that is sending is "processing", so nobody claims it  *)
(* should the call die.                                                    *)
(***************************************************************************)
SendingIsProcessing ==
  \A w \in Workers : Sender(w).pc \in {"work", "mark"} => Rows[Sender(w).row] = "processing"

WorkInv == Steady => SendingIsProcessing

(* How a call gets to work and to mark. *)
LEMMA SendingBegins ==
  ASSUME TypeOK, TypeOK', NEW w \in Workers, SendStep(w) \/ SendTrouble(w),
         Sender(w)'.pc \in {"claim", "work", "mark"}
  PROVE  \/ ClaimWins("send_email", w) /\ Sender(w)'.pc = "work"
         \/ Deliver(w) /\ Sender(w)'.pc = "mark"
         \/ SendLoad(w) /\ Sender(w)'.pc = "claim"
<1>1. run \in RunsType /\ "send_email" \in Types
  BY TypeOKByParts DEF Types
<1>2. ASSUME NEW pc \in {"finish", "failapp"}, Goto("send_email", w, pc) PROVE FALSE
  BY <1>1, <1>2, SenderGoes
<1>3. ASSUME NEW outcome, EndWith("send_email", w, outcome) PROVE FALSE
  BY <1>1, <1>3, SenderEnds
<1>4. ASSUME NEW recoverable, Catch("send_email", w, recoverable) PROVE FALSE
  BY <1>1, <1>4, SenderCatches
<1>5. ASSUME ClaimWins("send_email", w) PROVE Sender(w)'.pc = "work"
  BY <1>1, <1>5, SenderGoes DEF ClaimWins
<1>6. ASSUME Deliver(w) PROVE Sender(w)'.pc = "mark"
  BY <1>1, <1>6, SenderGoes DEF Deliver
<1>7. ASSUME SendLoad(w) PROVE Sender(w)'.pc = "claim"
  <2>1. Sender(w)' = SendEntry
    BY <1>1, <1>7, NewCallEffect DEF SendLoad, Sender
  <2> QED
    BY <2>1 DEF SendEntry, Rejected, Loaded, Idle
<1>8. ASSUME Settle("send_email", w) PROVE FALSE
  BY <1>1, <1>8, SettleEffect, TypeOKByParts DEF Sender, Idle
<1>9. ASSUME SendStep(w)
      PROVE  ClaimWins("send_email", w) \/ Deliver(w) \/ SendLoad(w)
  BY <1>2, <1>3, <1>4, <1>8, <1>9
     DEF SendStep, SharedStep, ClaimLost, FailRow, FailApp, SendRejects, MarkSent,
         FinishSend, Requeue
<1>10. ~SendTrouble(w)
  BY <1>2, <1>3, <1>4
     DEF SendTrouble, ClaimThenFault, PersistFault, CatchFault, SendFails, Fails,
         DeliverThenFault, MarkSentFault
<1> QED
  BY <1>5, <1>6, <1>7, <1>9, <1>10

LEMMA StaysSending ==
  ASSUME TypeOK, TypeOK', HeldInv, SteadyInv, ClaimInv, WorkInv, [Next]_vars
  PROVE  WorkInv'
<1> SUFFICES ASSUME Steady', NEW w \in Workers, Sender(w)'.pc \in {"work", "mark"}
             PROVE  Rows'[Sender(w)'.row] = "processing"
  BY DEF WorkInv, SendingIsProcessing
<1>1. /\ Steady /\ CallsHoldLocks /\ SweepIsCurrent /\ CalledRowExists /\ SendingIsProcessing
      /\ jobs \in JobsType /\ run \in RunsType /\ "send_email" \in Types
      /\ \A v \in Workers : Sender(v).row \in Nat
      /\ "processing" \in RowStatus
  BY SteadyBefore, TypeOKByParts
     DEF HeldInv, SteadyInv, WorkInv, ClaimInv, Steady, Types, RunsType, Runner, Sender, RowStatus
<1>2. ASSUME ClaimWins("send_email", w) PROVE Rows'[Sender(w)'.row] = "processing"
  <2>1. /\ Sender(w).pc = "claim" /\ Rows[Sender(w).row] = "queued"
        /\ CasJob("send_email", Sender(w).row, {"queued"}, "processing")
        /\ Sender(w)'.row = Sender(w).row
    BY <1>1, <1>2, SenderGoes DEF ClaimWins, At, Sender, RowIsQueued, Rows
  <2>2. Sender(w).row \in DOMAIN Rows
    BY <1>1, <2>1 DEF CalledRowExists, Sender, Rows, JobsType
  <2> QED
    BY <1>1, <2>1, <2>2, RowWritten DEF RowAfterCas
<1>3. ASSUME Deliver(w) PROVE Rows'[Sender(w)'.row] = "processing"
  <2>1. Sender(w).pc = "work" /\ Sender(w)'.row = Sender(w).row /\ Rows' = Rows
    BY <1>1, <1>3, SenderGoes DEF Deliver, MaySend, At, Sender, Rows
  <2> QED
    BY <1>1, <2>1 DEF SendingIsProcessing
<1>4. ASSUME Sender(w)' = Sender(w), ~SendStep(w), ~SendTrouble(w)
      PROVE  Rows'[Sender(w)'.row] = "processing"
  <2>1. ~SendRowStep(w)
    BY <1>4 DEF SendRowStep, SendStep, SharedStep, SendTrouble
  <2> QED
    BY <1>1, <1>4, <2>1, CalledRowIsOwn DEF SendingIsProcessing
<1>5. Sender(w)' # Idle
  BY DEF Idle
<1>6. CASE SendStep(w) \/ SendTrouble(w)
  BY <1>2, <1>3, <1>6, SendingBegins
<1> QED
  BY <1>4, <1>5, <1>6, WhoMovesSender

-----------------------------------------------------------------------------
(* With one manual send at most, a row that is at work stays the latest.   *)

SendsOnce == Steady /\ NoRetry /\ spent["send"] <= 1

Ordering(r) == reqs[r].pc \in {"sendcheck", "create"}

NoActiveSend == \A i \in DOMAIN Rows : Rows[i] \notin ActiveRow

OneOrder ==
  /\ \A r \in Requests : /\ Ordering(r) => spent["send"] > 0
                         /\ reqs[r].pc = "create" => Over \/ NoActiveSend
                         /\ \A q \in Requests : Ordering(r) /\ Ordering(q) => r = q
  /\ \A w \in Workers :
       Sender(w).pc \in {"claim", "work", "mark"} /\ Rows[Sender(w).row] \in ActiveRow
         => Sender(w).row = Len(Rows)

SingleInv == SendsOnce => OneOrder

LEMMA SendsOnceBefore ==
  ASSUME TypeOK, [Next]_vars, SendsOnce'
  PROVE  /\ SendsOnce /\ spent["send"] \in Nat /\ spent'["send"] \in Nat
         /\ spent["send"] <= spent'["send"]
         /\ Spend("send") => spent["send"] = 0 /\ spent'["send"] = 1
<1>1. "send" \in Kinds /\ spent \in [Kinds -> Nat]
  BY TypeOKByParts DEF Kinds
<1>2. /\ Steady /\ NoRetry
  BY SteadyBefore, NoRetryBefore DEF SendsOnce
<1>3. /\ spent["send"] \in Nat /\ spent'["send"] \in Nat /\ spent["send"] <= spent'["send"]
      /\ spent'["send"] <= 1
  BY <1>1, SpentGrows DEF SendsOnce
<1>4. Spend("send") => spent'["send"] = spent["send"] + 1
  BY <1>1 DEF Spend
<1> QED
  BY <1>2, <1>3, <1>4 DEF SendsOnce

(* How a request gets to order a send. *)
LEMMA OrderBegins ==
  ASSUME TypeOK, OrdersInOrder, [Next]_vars, ~Spend("retry"), NEW r \in Requests, Ordering(r)'
  PROVE  \/ reqs'[r] = reqs[r] /\ Ordering(r)
         \/ SendRead(r) /\ reqs'[r].pc = "sendcheck"
         \/ SendCheck(r) /\ ~HasActiveJob("send_email") /\ Ordering(r)
<1> DEFINE Fact == \/ reqs'[r] = reqs[r] /\ Ordering(r)
                   \/ SendRead(r) /\ reqs'[r].pc = "sendcheck"
                   \/ SendCheck(r) /\ ~HasActiveJob("send_email") /\ Ordering(r)
<1>1. reqs \in ReqsType
  BY TypeOKByParts
<1>2. ASSUME reqs'[r] = reqs[r] PROVE Fact
  BY <1>2 DEF Ordering
<1>3. ASSUME NEW q \in Requests, Done(q) PROVE Fact
  BY <1>1, <1>2, <1>3 DEF Done, ReqsType, NoRequest, Ordering
<1>4. ASSUME NEW q \in Requests, Advance(q, "enqueue") PROVE Fact
  BY <1>1, <1>2, <1>4 DEF Advance, ReqsType, Request, Ordering
<1>5. ASSUME NEW q \in Requests, SendCheck(q) PROVE Fact
  <2>1. CASE q = r
    BY <1>3, <1>5, <2>1 DEF SendCheck, Ordering
  <2>2. CASE q # r
    BY <1>1, <1>2, <1>3, <1>5, <2>2 DEF SendCheck, Advance, ReqsType
  <2> QED
    BY <2>1, <2>2
<1>6. ASSUME NEW q \in Requests, SendRead(q) PROVE Fact
  BY <1>1, <1>2, <1>6 DEF SendRead, Proceed, ReqsType
<1>7. ASSUME NEW q \in Requests, ContinueCheck(q) PROVE Fact
  BY <1>1, <1>2, <1>7 DEF ContinueCheck, Proceed, ReqsType, Ordering
<1>8. \A q \in Requests : ~RetryCheck(q) /\ ~RetryCount(q) /\ ~RetryReopen(q) /\ ~RetryRead(q)
  BY DEF RetryCheck, RetryCount, RetryReopen, RetryRead, OrdersInOrder
<1>9. CASE RequestsAct
  BY <1>2, <1>3, <1>4, <1>5, <1>6, <1>7, <1>8, <1>9
     DEF RequestsAct, CommandNext, RequestStep, CreateRow, EnqueueRow, ContinueCommit,
         ContinueConflict, RequestDies, Cancel
<1> QED
  BY <1>2, <1>9 DEF Next, WorkersAct, RecoveryActs, vars

LEMMA HistoryStays ==
  ASSUME TypeOK, [Next]_vars
  PROVE  \A i \in DOMAIN Rows : Rows[i] \notin ActiveRow => Rows'[i] \notin ActiveRow
<1>1. HistoryKept
  BY WorkersKeepHistory, RequestsKeepHistory, RecoveryKeepsHistory, HistoryUnchanged
     DEF Next, vars
<1>2. jobs \in JobsType /\ "send_email" \in Types
  BY TypeOKByParts DEF Types
<1>3. DOMAIN Rows = 1..Len(Rows)
  BY <1>2 DEF Rows, JobsType
<1>4. \A i \in 1..Len(Rows) : Rows[i] \notin ActiveRow => Rows'[i] = Rows[i]
  BY <1>1, <1>2 DEF HistoryKept, Rows
<1> QED
  BY <1>3, <1>4

LEMMA StaysSingle ==
  ASSUME TypeOK, TypeOK', HeldInv, SteadyInv, ClaimInv, OrdersInv, SingleInv, [Next]_vars
  PROVE  SingleInv'
<1> SUFFICES ASSUME SendsOnce' PROVE OneOrder'
  BY DEF SingleInv
<1>1. /\ SendsOnce /\ OneOrder /\ spent["send"] \in Nat /\ spent'["send"] \in Nat
      /\ spent["send"] <= spent'["send"]
      /\ Spend("send") => spent["send"] = 0 /\ spent'["send"] = 1
  BY SendsOnceBefore DEF SingleInv
<1>2. /\ CallsHoldLocks /\ SweepIsCurrent /\ CalledRowExists /\ OrdersInOrder
      /\ ~Spend("retry") /\ spent'["expire"] = 0
  BY <1>1, NoRetryBefore DEF HeldInv, SteadyInv, ClaimInv, OrdersInv, SendsOnce, Steady
<1>3. /\ jobs \in JobsType /\ jobs' \in JobsType /\ run \in RunsType
      /\ "send_email" \in Types /\ reqs \in ReqsType
  BY TypeOKByParts DEF Types, TypeOK, StoreTypeOK, JobsType
<1>4. DOMAIN Rows = 1..Len(Rows) /\ DOMAIN Rows' = 1..Len(Rows') /\ Len(Rows) \in Nat
  BY <1>3 DEF Rows, JobsType
<1>5. Over => Over'
  BY <1>2, ClosedJobStays DEF Over
<1>6. ~HasActiveJob("send_email") => NoActiveSend
  BY DEF HasActiveJob, RowsOf, NoActiveSend, Rows
<1>7. \A i \in DOMAIN Rows : Rows[i] \notin ActiveRow => Rows'[i] \notin ActiveRow
  BY HistoryStays
<1>8. ASSUME NEW r \in Requests, Ordering(r)' PROVE spent'["send"] > 0
  <2>1. CASE Ordering(r)
    BY <1>1, <2>1 DEF OneOrder
  <2>2. CASE SendRead(r)
    BY <1>1, <2>2 DEF SendRead
  <2> QED
    BY <1>2, <1>8, <2>1, <2>2, OrderBegins
<1>9. ASSUME NEW r \in Requests, NEW q \in Requests, Ordering(r)', Ordering(q)' PROVE r = q
  <2>1. CASE Ordering(r) /\ Ordering(q)
    BY <1>1, <2>1 DEF OneOrder
  <2>2. ASSUME NEW p \in Requests, NEW o \in Requests, SendRead(p), Ordering(o) PROVE FALSE
    BY <1>1, <2>2 DEF OneOrder, SendRead
  <2>3. CASE SendRead(r) /\ SendRead(q)
    <3>1. reqs[r].pc = "idle" /\ reqs[q].pc = "idle"
      BY <2>3 DEF SendRead, Free
    <3>2. r # q => reqs'[q] = reqs[q]
      BY <1>3, <2>3 DEF SendRead, Proceed, ReqsType
    <3> QED
      BY <1>9, <3>1, <3>2 DEF Ordering
  <2> QED
    BY <1>2, <1>9, <2>1, <2>2, <2>3, OrderBegins
<1>10. ASSUME NEW r \in Requests, reqs'[r].pc = "create" PROVE Over' \/ NoActiveSend'
  <2>1. Ordering(r)'
    BY <1>10 DEF Ordering
  <2>2. CASE SendCheck(r) /\ ~HasActiveJob("send_email")
    <3>1. Rows' = Rows
      BY <2>2 DEF SendCheck, Rows
    <3> QED
      BY <1>6, <2>2, <3>1 DEF NoActiveSend
  <2>3. CASE reqs'[r] = reqs[r] /\ Ordering(r)
    <3>1. Over \/ NoActiveSend
      BY <1>1, <1>10, <2>3 DEF OneOrder
    <3>2. ASSUME NoActiveSend, Len(Rows') = Len(Rows) PROVE NoActiveSend'
      BY <1>4, <1>7, <3>2 DEF NoActiveSend
    <3>3. ASSUME NEW q \in Requests, CreateRow(q), reqs[q].type = "send_email" PROVE FALSE
      <4>1. q = r
        BY <1>1, <2>3, <3>3 DEF OneOrder, CreateRow, Ordering
      <4>2. reqs'[r].pc = "enqueue"
        BY <1>3, <3>3, <4>1 DEF CreateRow, Advance, ReqsType, Request
      <4> QED
        BY <1>10, <4>2
    <3>4. ASSUME RecCreate, rec.type = "send_email" PROVE Over'
      BY <1>2, <1>5, <3>4 DEF RecCreate, RecAt, SweepIsCurrent
    <3>5. Open(app.status)
      BY <1>2, <2>3 DEF OrdersInOrder, Ordering
    <3> QED
      BY <1>5, <3>1, <3>2, <3>3, <3>4, <3>5, WhoAddsRows
  <2> QED
    BY <1>2, <1>10, <2>1, <2>2, <2>3, OrderBegins
<1>11. ASSUME NEW w \in Workers, Sender(w)'.pc \in {"claim", "work", "mark"},
              Rows'[Sender(w)'.row] \in ActiveRow
       PROVE  Sender(w)'.row = Len(Rows')
  <2>1. Sender(w)' # Idle
    BY <1>11 DEF Idle
  <2>2. ASSUME ClaimWins("send_email", w) PROVE Sender(w)'.row = Len(Rows')
    <3>1. /\ Sender(w).pc = "claim" /\ Rows[Sender(w).row] = "queued"
          /\ CasJob("send_email", Sender(w).row, {"queued"}, "processing")
          /\ Sender(w)'.row = Sender(w).row
      BY <1>3, <2>2, SenderGoes DEF ClaimWins, At, Sender, RowIsQueued, Rows
    <3>2. Sender(w).row = Len(Rows)
      BY <1>1, <3>1 DEF OneOrder, ActiveRow
    <3>3. Len(Rows') = Len(Rows)
      BY <1>3, <3>1, RowWritten DEF RunsType, Runner, Sender, RowStatus
    <3> QED
      BY <3>1, <3>2, <3>3
  <2>3. ASSUME Deliver(w) PROVE Sender(w)'.row = Len(Rows')
    <3>1. Sender(w).pc = "work" /\ Sender(w)'.row = Sender(w).row /\ Rows' = Rows
      BY <1>3, <2>3, SenderGoes DEF Deliver, MaySend, At, Sender, Rows
    <3> QED
      BY <1>1, <1>11, <3>1 DEF OneOrder
  <2>4. ASSUME SendLoad(w) PROVE Sender(w)'.row = Len(Rows')
    <3>1. Sender(w)' = SendEntry /\ Rows' = Rows
      BY <1>3, <2>4, NewCallEffect DEF SendLoad, Sender, Rows
    <3>2. Sender(w)' = Loaded("send_email")
      BY <1>11, <3>1 DEF SendEntry, Rejected, Idle
    <3> QED
      BY <3>1, <3>2 DEF Loaded, LatestRow, Rows
  <2>5. ASSUME Sender(w)' = Sender(w), ~SendStep(w), ~SendTrouble(w)
        PROVE  Sender(w)'.row = Len(Rows')
    <3>1. ~SendRowStep(w)
      BY <2>5 DEF SendRowStep, SendStep, SharedStep, SendTrouble
    <3>2. Sender(w).row \in DOMAIN Rows /\ Rows[Sender(w).row] \in ActiveRow
      BY <1>2, <1>11, <2>5, <3>1, CalledRowIsOwn
    <3>3. Sender(w).row = Len(Rows) /\ ~NoActiveSend
      BY <1>1, <1>11, <2>5, <3>2 DEF OneOrder, NoActiveSend
    <3>4. ~Over
      BY <1>2, <1>11, <2>5, OneSender DEF Live, Sender
    <3>5. Open(app.status)
      BY <1>2, <1>3, <1>4, <3>2, RowsEmpty DEF OrdersInOrder
    <3>6. ~(\E r \in Requests : CreateRow(r)) /\ ~(RecCreate /\ rec.type = "send_email")
      BY <1>1, <1>2, <3>3, <3>4 DEF CreateRow, OneOrder, RecCreate, RecAt, SweepIsCurrent
    <3> QED
      BY <2>5, <3>3, <3>5, <3>6, WhoAddsRows
  <2> QED
    BY <1>11, <2>1, <2>2, <2>3, <2>4, <2>5, SendingBegins, WhoMovesSender
<1> QED
  BY <1>8, <1>9, <1>10, <1>11 DEF OneOrder

LEMMA WhoCrashes ==
  ASSUME TypeOK, [Next]_vars
  PROVE  spent'["crash"] = spent["crash"] \/ \E w \in Workers : WorkerCrash(w)
<1>1. spent \in [Kinds -> Nat]
  BY TypeOKByParts
<1> DEFINE Same == spent'["crash"] = spent["crash"]
<1>2. ASSUME NEW kind \in Kinds \ {"crash"}, Spend(kind) PROVE Same
  BY <1>1, <1>2 DEF Spend, Kinds
<1>3. /\ {"retry", "continue", "send", "cancel", "stall", "drop", "abort",
          "transient", "permanent", "unclassified", "fault", "expire"} \subseteq Kinds \ {"crash"}
      /\ Types = {"ai_process", "send_email"}
  BY DEF Kinds, Types
<1>4. ASSUME UNCHANGED spent PROVE Same
  BY <1>4
<1>5. ASSUME NEW type \in Types, NEW w \in Workers, SharedStep(type, w) PROVE Same
  BY <1>5 DEF SharedStep, ClaimWins, ClaimLost, FailRow, FailApp, Settle
<1>6. ASSUME NEW w \in Workers, ProcessStep(w) PROVE Same
  BY <1>3, <1>5, <1>6
     DEF ProcessStep, ProcessLoad, ProcessConflict, ProcessNeedsReview, ProcessGenerates,
         ProcessCommit, ProcessEnqueuesSend
<1>7. ASSUME NEW w \in Workers, SendStep(w) PROVE Same
  BY <1>2, <1>3, <1>5, <1>7
     DEF SendStep, SendLoad, SendRejects, Deliver, MarkSent, FinishSend, Requeue
<1>8. ASSUME NEW w \in Workers, WorkerTrouble(w) PROVE Same \/ WorkerCrash(w)
  BY <1>2, <1>3, <1>8
     DEF WorkerTrouble, ClaimThenFault, PersistFault, CatchFault, ProcessFails, SendFails,
         Fails, ProcessFailsUnclassified, ProcessEnqueueFault, DeliverThenFault,
         MarkSentFault
<1>9. ASSUME (\E type \in Types : LockExpires(type)) \/ FinishedJobExpires PROVE Same
  BY <1>2, <1>3, <1>9 DEF LockExpires, FinishedJobExpires
<1>10. ASSUME RequestsAct PROVE Same
  BY <1>2, <1>3, <1>10
     DEF RequestsAct, CommandNext, RequestStep, RetryCheck, RetryCount, RetryReopen,
         SendCheck, CreateRow, EnqueueRow, ContinueCommit, ContinueConflict, RequestDies,
         RetryRead, ContinueCheck, SendRead, Cancel
<1>11. ASSUME RecoveryActs PROVE Same
  BY <1>2, <1>3, <1>11
     DEF RecoveryActs, RecoveryNext, RecoveryStep, RecPick, RecInspect, RecSync, RecEnqueue,
         RecFailRow, RecFailApp, RecReset, RecCreate, RecAborts
<1> QED
  BY <1>6, <1>7, <1>8, <1>9, <1>10, <1>11 DEF Next, WorkersAct, WorkerNext, vars

-----------------------------------------------------------------------------
(* One mail.                                                               *)

(***************************************************************************)
(* No lock is lost, no retention runs out, no statement fails and nobody   *)
(* retries; replicas may die, unless the user repeats the manual send.     *)
(***************************************************************************)
Quiet ==
  /\ Steady /\ NoRetry /\ spent["fault"] = 0
  /\ spent["crash"] = 0 \/ spent["send"] <= 1

(* A call that is allowed to deliver, or will be by its claim. *)
MayDeliver(w) ==
  /\ Sender(w).seen = "generated"
  /\ Sender(w).pc = "work" \/ (Sender(w).pc = "claim" /\ Rows[Sender(w).row] = "queued")

Marking == \E w \in Workers : Sender(w).pc = "mark"

(* The row of a delivery whose call died stands in the way of the next one. *)
LatestBlocks ==
  /\ Len(Rows) > 0 /\ Rows[Len(Rows)] = "processing"
  /\ \A w \in Workers : Sender(w).pc \in {"idle", "claim", "mark", "settle"}

Delivered ==
  /\ Open(app.status)
  /\ \A w \in Workers : ~MayDeliver(w)
  /\ app.status = "generated" =>
       /\ spent["crash"] = 0 => Marking
       /\ spent["crash"] > 0 => LatestBlocks

MailedInv == Quiet => mails <= 1 /\ (mails = 1 => Over \/ Delivered)

LEMMA QuietBefore ==
  ASSUME TypeOK, [Next]_vars, Quiet'
  PROVE  /\ Quiet /\ ~Spend("fault") /\ ~Spend("retry")
         /\ spent["crash"] \in Nat /\ spent'["crash"] \in Nat
         /\ spent["crash"] <= spent'["crash"]
         /\ spent'["crash"] > 0 => SendsOnce
<1>1. {"send", "crash", "fault"} \subseteq Kinds
  BY DEF Kinds
<1>2. /\ Steady /\ NoRetry /\ ~Spend("retry") /\ spent["fault"] = 0 /\ ~Spend("fault")
  BY <1>1, SteadyBefore, NoRetryBefore, UnusedIsNotSpent DEF Quiet
<1>3. /\ spent["crash"] \in Nat /\ spent'["crash"] \in Nat /\ spent["crash"] <= spent'["crash"]
      /\ spent["send"] \in Nat /\ spent'["send"] \in Nat /\ spent["send"] <= spent'["send"]
  BY <1>1, SpentGrows
<1>4. spent'["crash"] = 0 \/ spent'["send"] <= 1
  BY DEF Quiet
<1>5. spent["crash"] = 0 \/ spent["send"] <= 1
  BY <1>3, <1>4
<1> QED
  BY <1>2, <1>3, <1>4, <1>5 DEF Quiet, SendsOnce

(* The first delivery. *)
LEMMA DeliveryIsMarked ==
  ASSUME TypeOK, CallsHoldLocks, CalledRowExists, OrdersInOrder, SendingIsProcessing,
         spent["crash"] \in Nat, spent["crash"] > 0 => OneOrder, NEW w \in Workers, Deliver(w)
  PROVE  Delivered'
<1>1. /\ jobs \in JobsType /\ run \in RunsType /\ "send_email" \in Types
  BY TypeOKByParts DEF Types
<1>2. /\ Sender(w).pc = "work" /\ Rows' = Rows /\ app' = app /\ spent' = spent
  BY <1>1 DEF Deliver, MaySend, At, Sender, Rows
<1>3. /\ Sender(w)'.pc = "mark" /\ OthersKeepTheirCall("send_email", w)
  BY <1>1, SenderGoes DEF Deliver
<1>4. \A v \in Workers \ {w} : Sender(v)'.pc = "idle"
  BY <1>1, <1>2, <1>3, OneSender DEF OthersKeepTheirCall, Live, Sender
<1>5. Sender(w).row \in 1..Len(Rows) /\ Rows[Sender(w).row] = "processing" /\ Len(Rows) \in Nat
  BY <1>1, <1>2 DEF CalledRowExists, Executing, SendingIsProcessing, Sender, Rows, JobsType
<1>6. Open(app.status)
  BY <1>1, <1>5 DEF OrdersInOrder, Rows, JobsType
<1>7. \A v \in Workers : ~MayDeliver(v)'
  BY <1>3, <1>4 DEF MayDeliver
<1>8. Marking'
  BY <1>3 DEF Marking
<1>9. ASSUME spent["crash"] > 0 PROVE LatestBlocks'
  <2>1. Sender(w).row = Len(Rows)
    BY <1>2, <1>5, <1>9 DEF OneOrder, ActiveRow
  <2> QED
    BY <1>2, <1>3, <1>4, <1>5, <2>1 DEF LatestBlocks
<1> QED
  BY <1>2, <1>6, <1>7, <1>8, <1>9 DEF Delivered

(* While the latest row blocks and the status is generated, it goes on blocking. *)
LEMMA LatestGoesOnBlocking ==
  ASSUME TypeOK, TypeOK', [Next]_vars, CallsHoldLocks, SweepIsCurrent, CalledRowExists,
         OneOrder, ~Over, Open(app.status), app'.status = "generated", LatestBlocks,
         ~Spend("fault"), mails' = mails
  PROVE  LatestBlocks'
<1>1. /\ jobs \in JobsType /\ run \in RunsType /\ "send_email" \in Types /\ app \in App
      /\ bull \in BullType
  BY TypeOKByParts DEF Types
<1>2. DOMAIN Rows = 1..Len(Rows) /\ Len(Rows) \in Nat
  BY <1>1 DEF Rows, JobsType
<1>3. \A v \in Workers : ~ClaimWins("send_email", v)
  <2> SUFFICES ASSUME NEW v \in Workers, ClaimWins("send_email", v) PROVE FALSE
    OBVIOUS
  <2>1. Sender(v).pc = "claim" /\ Rows[Sender(v).row] = "queued"
    BY DEF ClaimWins, At, Sender, RowIsQueued, Rows
  <2>2. Sender(v).row = Len(Rows)
    BY <2>1 DEF OneOrder, ActiveRow
  <2> QED
    BY <2>1, <2>2 DEF LatestBlocks
<1>4. \A v \in Workers : ~SendRowStep(v)
  BY <1>3
     DEF SendRowStep, ClaimThenFault, FailRow, FinishSend, Requeue, At, Sender, LatestBlocks
<1>5. ~SweepWrites
  BY DEF SweepWrites, SweepSyncs, SweepCloses, SweepIsCurrent, Over
<1>6. Rows'[Len(Rows)] = "processing"
  BY <1>2, <1>4, <1>5, WhoWritesRows DEF RowsOnlyAdded, LatestBlocks
<1>7. ~NoActiveSend
  BY <1>2 DEF NoActiveSend, LatestBlocks, ActiveRow
<1>8. Len(Rows') = Len(Rows)
  <2>1. ~(\E r \in Requests : CreateRow(r)) /\ ~(RecCreate /\ rec.type = "send_email")
    BY <1>7 DEF CreateRow, OneOrder, RecCreate, RecAt, SweepIsCurrent
  <2> QED
    BY <2>1, WhoAddsRows
<1>9. ASSUME NEW w \in Workers PROVE Sender(w)'.pc \in {"idle", "claim", "mark", "settle"}
  <2>1. CASE Sender(w)' = Sender(w) \/ Sender(w)' = Idle
    BY <2>1 DEF LatestBlocks, Idle
  <2>2. ~MarkSent(w)
    BY <1>1 DEF MarkSent, CasApp, App, Open
  <2>3. CASE ClaimLost("send_email", w)
    BY <1>1, <2>3, SenderEnds DEF ClaimLost
  <2>4. CASE Settle("send_email", w)
    BY <1>1, <2>4, SettleEffect DEF Sender, Idle
  <2>5. CASE SendLoad(w)
    <3>1. Sender(w)' = SendEntry
      BY <1>1, <2>5, NewCallEffect DEF SendLoad, Sender
    <3> QED
      BY <3>1 DEF SendEntry, Rejected, Loaded, Idle
  <2>6. CASE SendStep(w)
    BY <1>3, <2>2, <2>3, <2>4, <2>5, <2>6
       DEF SendStep, SharedStep, FailRow, FailApp, SendRejects, Deliver, MaySend, FinishSend,
           Requeue, At, Sender, LatestBlocks
  <2>7. ~SendTrouble(w)
    BY DEF SendTrouble, ClaimThenFault, PersistFault, CatchFault, SendFails, MaySend,
           DeliverThenFault, MarkSentFault, At, Sender, LatestBlocks
  <2> QED
    BY <2>1, <2>6, <2>7, WhoMovesSender
<1> QED
  BY <1>6, <1>8, <1>9 DEF LatestBlocks

(* After the delivery no call gets permission for another. *)
LEMMA NobodyMayDeliver ==
  ASSUME TypeOK, TypeOK', [Next]_vars, CallsHoldLocks, SweepIsCurrent, CalledRowExists,
         ~Over, Delivered, spent["crash"] \in Nat, mails' = mails,
         NEW w \in Workers, MayDeliver(w)'
  PROVE  FALSE
<1>1. /\ jobs \in JobsType /\ run \in RunsType /\ "send_email" \in Types
      /\ bull \in BullType /\ mails \in Nat
  BY TypeOKByParts DEF Types
<1>2. Sender(w)'.pc \in {"claim", "work"} /\ Sender(w)'.seen = "generated"
  BY DEF MayDeliver
<1>3. CASE ClaimWins("send_email", w)
  <2>1. /\ Sender(w).pc = "claim" /\ Rows[Sender(w).row] = "queued"
        /\ Sender(w)'.seen = Sender(w).seen
    BY <1>1, <1>3, SenderGoes DEF ClaimWins, At, Sender, RowIsQueued, Rows
  <2> QED
    BY <1>2, <2>1 DEF Delivered, MayDeliver
<1>4. ~Deliver(w)
  BY <1>1 DEF Deliver
<1>5. CASE SendLoad(w)
  <2>1. Sender(w)' = SendEntry /\ Rows' = Rows /\ SendJob.state = "waiting"
    BY <1>1, <1>5, NewCallEffect DEF SendLoad, TakeJob, Sender, Rows, SendJob
  <2>2. Sender(w)' = Loaded("send_email")
    BY <1>2, <2>1 DEF SendEntry, Rejected, Idle
  <2>3. app.status = "generated" /\ Sender(w)'.row = Len(Rows) /\ Sender(w)'.pc = "claim"
    BY <1>2, <2>2 DEF Loaded, LatestRow, Rows
  <2>4. ~Marking
    BY <2>1 DEF Marking, CallsHoldLocks, Live, Sender, SendJob, Types
  <2>5. Rows[Len(Rows)] = "processing"
    BY <2>3, <2>4 DEF Delivered, LatestBlocks
  <2> QED
    BY <2>1, <2>3, <2>5 DEF MayDeliver
<1>6. CASE Sender(w)' = Sender(w) /\ ~SendStep(w) /\ ~SendTrouble(w)
  <2>1. ~SendRowStep(w)
    BY <1>6 DEF SendRowStep, SendStep, SharedStep, SendTrouble
  <2>2. Rows'[Sender(w).row] = Rows[Sender(w).row]
    BY <1>2, <1>6, <2>1, CalledRowIsOwn
  <2> QED
    BY <1>6, <2>2 DEF Delivered, MayDeliver
<1>7. Sender(w)' # Idle
  BY <1>2 DEF Idle
<1> QED
  BY <1>2, <1>3, <1>4, <1>5, <1>6, <1>7, SendingBegins, WhoMovesSender

LEMMA MarkingGoesOn ==
  ASSUME TypeOK, TypeOK', [Next]_vars, Open(app.status), app'.status = "generated", Marking,
         ~Spend("fault"), ~Spend("crash")
  PROVE  Marking'
<1>1. PICK w \in Workers : Sender(w).pc = "mark"
  BY DEF Marking
<1>2. app \in App
  BY TypeOKByParts
<1>3. ~MarkSent(w)
  <2> SUFFICES ASSUME MarkSent(w) PROVE FALSE
    OBVIOUS
  <2>1. app.status \in {"generated", "sent"} \/ app' = app
    BY DEF MarkSent, CasApp
  <2> QED
    BY <1>2, <2>1 DEF MarkSent, CasApp, App
<1>4. ~SendStep(w)
  BY <1>1, <1>3
     DEF SendStep, SharedStep, ClaimWins, ClaimLost, FailRow, FailApp, Settle, SendLoad,
         SendRejects, Deliver, MaySend, FinishSend, Requeue, At, Sender
<1>5. ~SendTrouble(w)
  BY <1>1
     DEF SendTrouble, ClaimThenFault, PersistFault, CatchFault, SendFails, MaySend,
         DeliverThenFault, MarkSentFault, At, Sender
<1>6. Sender(w)' = Sender(w)
  BY <1>4, <1>5, WhoMovesSender
<1> QED
  BY <1>1, <1>6 DEF Marking

(* The call that marks the application dies, or another one does meanwhile. *)
LEMMA CrashLeavesBlock ==
  ASSUME TypeOK, CallsHoldLocks, CalledRowExists, SendingIsProcessing, OneOrder,
         Marking, NEW v \in Workers, WorkerCrash(v)
  PROVE  LatestBlocks'
<1>1. PICK w \in Workers : Sender(w).pc = "mark"
  BY DEF Marking
<1>2. /\ jobs \in JobsType /\ run \in RunsType /\ "send_email" \in Types
  BY TypeOKByParts DEF Types
<1>3. Rows' = Rows
  BY DEF WorkerCrash, Rows
<1>4. Sender(w).row \in 1..Len(Rows) /\ Rows[Sender(w).row] = "processing" /\ Len(Rows) \in Nat
  BY <1>1, <1>2 DEF CalledRowExists, Executing, SendingIsProcessing, Sender, Rows, JobsType
<1>5. Sender(w).row = Len(Rows)
  BY <1>1, <1>4 DEF OneOrder, ActiveRow
<1>6. \A u \in Workers : Sender(u).pc \in {"idle", "mark"}
  BY <1>1, OneSender DEF Live, Sender
<1>7. \A u \in Workers : Sender(u)' = Sender(u) \/ Sender(u)' = Idle
  BY <1>2 DEF WorkerCrash, Sender, RunsType
<1> QED
  BY <1>3, <1>4, <1>5, <1>6, <1>7 DEF LatestBlocks, Idle

LEMMA StaysMailed ==
  ASSUME TypeOK, TypeOK', HeldInv, SteadyInv, ClaimInv, OrdersInv, SingleInv, WorkInv,
         MailedInv, [Next]_vars
  PROVE  MailedInv'
<1> SUFFICES ASSUME Quiet' PROVE mails' <= 1 /\ (mails' = 1 => Over' \/ Delivered')
  BY DEF MailedInv
<1>1. /\ Quiet /\ ~Spend("fault")
      /\ spent["crash"] \in Nat /\ spent'["crash"] \in Nat /\ spent["crash"] <= spent'["crash"]
      /\ spent'["crash"] > 0 => SendsOnce
  BY QuietBefore
<1>2. /\ CallsHoldLocks /\ SweepIsCurrent /\ CalledRowExists /\ OrdersInOrder
      /\ SendingIsProcessing /\ mails <= 1 /\ (mails = 1 => Over \/ Delivered)
      /\ spent'["expire"] = 0
  BY <1>1 DEF HeldInv, SteadyInv, ClaimInv, OrdersInv, WorkInv, MailedInv, Quiet, Steady
<1>3. spent'["crash"] > 0 => OneOrder
  BY <1>1 DEF SingleInv
<1>4. mails \in Nat /\ app \in App
  BY TypeOKByParts
<1>5. Over => Over'
  BY <1>2, ClosedJobStays DEF Over
<1>6. ASSUME NEW w \in Workers, Deliver(w) PROVE mails' = 1 /\ Delivered'
  <2>1. Sender(w).pc = "work" /\ MayDeliver(w) /\ mails' = mails + 1
    BY <1>6 DEF Deliver, MaySend, At, Sender, MayDeliver
  <2>2. ~Over
    BY <1>2, <2>1, OneSender DEF Live, Sender
  <2>3. mails # 1
    BY <1>2, <2>1, <2>2 DEF Delivered
  <2>4. Delivered'
    BY <1>1, <1>2, <1>3, <1>6, DeliveryIsMarked
  <2> QED
    BY <1>2, <1>4, <2>1, <2>3, <2>4
<1>7. ASSUME mails' = mails, mails = 1, ~Over PROVE Delivered'
  <2>1. Delivered
    BY <1>2, <1>7
  <2>2. /\ Open(app.status) /\ Open(app'.status)
        /\ app'.status = "generated" => app.status = "generated"
    BY <1>2, <2>1, StatusMoves DEF Delivered, Open
  <2>3. \A w \in Workers : ~MayDeliver(w)'
    BY <1>1, <1>2, <1>7, <2>1, NobodyMayDeliver
  <2>4. ASSUME app'.status = "generated", spent'["crash"] = 0 PROVE Marking'
    <3>1. spent["crash"] = 0 /\ ~Spend("crash")
      <4>1. "crash" \in Kinds
        BY DEF Kinds
      <4> QED
        BY <2>4, <4>1, UnusedIsNotSpent
    <3>2. Marking
      BY <2>1, <2>2, <2>4, <3>1 DEF Delivered
    <3> QED
      BY <1>1, <2>2, <2>4, <3>1, <3>2, MarkingGoesOn
  <2>5. ASSUME app'.status = "generated", spent'["crash"] > 0 PROVE LatestBlocks'
    <3>1. OneOrder
      BY <1>3, <2>5
    <3>2. CASE spent["crash"] = 0
      <4>1. Marking
        BY <2>1, <2>2, <2>5, <3>2 DEF Delivered
      <4>2. \E v \in Workers : WorkerCrash(v)
        BY <2>5, <3>2, WhoCrashes
      <4> QED
        BY <1>2, <3>1, <4>1, <4>2, CrashLeavesBlock
    <3>3. CASE spent["crash"] > 0
      <4>1. LatestBlocks
        BY <2>1, <2>2, <2>5, <3>3 DEF Delivered
      <4> QED
        BY <1>1, <1>2, <1>7, <2>2, <2>5, <3>1, <4>1, LatestGoesOnBlocking
    <3> QED
      BY <1>1, <3>2, <3>3
  <2> QED
    BY <1>1, <2>2, <2>3, <2>4, <2>5 DEF Delivered
<1>8. mails' = mails \/ \E w \in Workers : Deliver(w)
  <2>1. \A w \in Workers : ~DeliverThenFault(w)
    BY <1>1 DEF DeliverThenFault
  <2> QED
    BY <2>1, MailsGrow
<1> QED
  BY <1>2, <1>4, <1>5, <1>6, <1>7, <1>8

LEMMA OrdersHold == Spec => [](OrdersInv /\ SingleInv /\ WorkInv)
<1>1. Init => OrdersInv /\ SingleInv /\ WorkInv
  <2> SUFFICES ASSUME Init PROVE OrdersInOrder /\ OneOrder /\ SendingIsProcessing
    BY DEF OrdersInv, SingleInv, WorkInv
  <2>1. /\ Rows = <<>>
        /\ \A w \in Workers : Sender(w).pc = "idle"
        /\ \A r \in Requests : reqs[r].pc \in {"idle", "enqueue"}
    BY DEF Init, Idle, Rows, Sender, NoRequest, Types
  <2> QED
    BY <2>1 DEF OrdersInOrder, OneOrder, SendingIsProcessing, Ordering
<1>2. /\ TypeOK /\ TypeOK' /\ JobHasRow /\ HeldInv /\ SteadyInv /\ ClaimInv
      /\ OrdersInv /\ SingleInv /\ WorkInv /\ [Next]_vars
      => OrdersInv' /\ SingleInv' /\ WorkInv'
  BY StaysInOrder, StaysSingle, StaysSending
<1> QED
  BY <1>1, <1>2, TypeCorrect, JobsHaveRows, SideInvariantsHold, ClaimInvHolds, PTL DEF Spec

LEMMA MailedInvHolds == Spec => []MailedInv
<1>1. Init => MailedInv
  BY DEF Init, MailedInv
<1>2. /\ TypeOK /\ TypeOK' /\ HeldInv /\ SteadyInv /\ ClaimInv /\ OrdersInv /\ SingleInv
      /\ WorkInv /\ MailedInv /\ [Next]_vars
      => MailedInv'
  BY StaysMailed
<1> QED
  BY <1>1, <1>2, TypeCorrect, SideInvariantsHold, ClaimInvHolds, OrdersHold, PTL DEF Spec

(***************************************************************************)
(* The recipient gets one mail, however many workers deliver, requests     *)
(* order and sweeps repair: while no live worker loses its lock, no        *)
(* statement fails, no job outlives its retention and nobody retries, and  *)
(* replicas die only of an application whose mail was sent by hand at most *)
(* once.  Each of these conditions is needed.                              *)
(***************************************************************************)
THEOREM OneMailWhenQuiet == Spec => [](Quiet => AtMostOneMail)
<1>1. MailedInv => (Quiet => AtMostOneMail)
  BY DEF MailedInv, AtMostOneMail
<1> QED
  BY <1>1, MailedInvHolds, PTL

-----------------------------------------------------------------------------
(* The process job, its rows and its calls.                                *)

Drafts == jobs["ai_process"]

Maker(w) == run["ai_process"][w]

AiJob == bull["ai_process"]

MakersKept == run'["ai_process"] = run["ai_process"]

LEMMA MakerGoes ==
  ASSUME run \in RunsType, NEW w \in Workers, NEW pc, Goto("ai_process", w, pc)
  PROVE  /\ Maker(w)'.pc = pc /\ Maker(w)'.row = Maker(w).row /\ Maker(w)'.made = Maker(w).made
         /\ OthersKeepTheirCall("ai_process", w)
<1>1. Maker(w)' = [Maker(w) EXCEPT !.pc = pc] /\ Maker(w) \in Runner
  BY DEF Goto, Maker, RunsType, Types
<1>2. OthersKeepTheirCall("ai_process", w)
  BY GotoEffect DEF Types
<1> HIDE DEF Maker
<1> QED
  BY <1>1, <1>2 DEF Runner

LEMMA MakerEnds ==
  ASSUME run \in RunsType, NEW w \in Workers, NEW outcome, EndWith("ai_process", w, outcome)
  PROVE  /\ Maker(w)'.pc = "settle" /\ Maker(w)'.row = Maker(w).row
         /\ Maker(w)'.made = Maker(w).made
         /\ OthersKeepTheirCall("ai_process", w)
<1>1. Maker(w)' = [Maker(w) EXCEPT !.pc = "settle", !.outcome = outcome] /\ Maker(w) \in Runner
  BY DEF EndWith, Maker, RunsType, Types
<1>2. OthersKeepTheirCall("ai_process", w)
  BY EndWithEffect DEF Types
<1> HIDE DEF Maker
<1> QED
  BY <1>1, <1>2 DEF Runner

LEMMA MakerCatches ==
  ASSUME run \in RunsType, NEW w \in Workers, NEW recoverable, Catch("ai_process", w, recoverable)
  PROVE  /\ Maker(w)'.pc \in {"settle", "failrow"} /\ Maker(w)'.row = Maker(w).row
         /\ Maker(w)'.made = Maker(w).made
         /\ OthersKeepTheirCall("ai_process", w)
<1>1. Goto("ai_process", w, "failrow") \/ EndWith("ai_process", w, "transient")
  BY DEF Catch
<1> QED
  BY <1>1, MakerGoes, MakerEnds

(* A call goes from one point to the next, begins or ends. *)
LEMMA MakerSteps ==
  ASSUME TypeOK, NEW w \in Workers, ProcessStep(w) \/ ProcessTrouble(w)
  PROVE  /\ OthersKeepTheirCall("ai_process", w)
         /\ \/ /\ Maker(w)'.pc \notin {"claim", "idle"} /\ Maker(w)'.row = Maker(w).row
               /\ Maker(w)'.made = Maker(w).made
            \/ ProcessLoad(w) /\ Maker(w)' \in {Loaded("ai_process"), Rejected("transient")}
            \/ Settle("ai_process", w) /\ Maker(w)' = Idle
<1>1. run \in RunsType /\ "ai_process" \in Types
  BY TypeOKByParts DEF Types
<1> DEFINE Moves == /\ OthersKeepTheirCall("ai_process", w)
                    /\ Maker(w)'.pc \notin {"claim", "idle"} /\ Maker(w)'.row = Maker(w).row
                    /\ Maker(w)'.made = Maker(w).made
<1>2. ASSUME NEW pc \in PcsAfterClaim, Goto("ai_process", w, pc) PROVE Moves
  BY <1>1, <1>2, MakerGoes DEF PcsAfterClaim
<1>3. ASSUME NEW outcome, EndWith("ai_process", w, outcome) PROVE Moves
  BY <1>1, <1>3, MakerEnds
<1>4. ASSUME NEW recoverable, Catch("ai_process", w, recoverable) PROVE Moves
  BY <1>1, <1>4, MakerCatches
<1>5. {"work", "enqueue", "failrow", "failapp"} \subseteq PcsAfterClaim
  BY DEF PcsAfterClaim
<1>6. ASSUME ProcessLoad(w)
      PROVE  /\ OthersKeepTheirCall("ai_process", w)
             /\ Maker(w)' \in {Loaded("ai_process"), Rejected("transient")}
  BY <1>1, <1>6, NewCallEffect DEF ProcessLoad, Maker
<1>7. ASSUME Settle("ai_process", w)
      PROVE  OthersKeepTheirCall("ai_process", w) /\ Maker(w)' = Idle
  BY <1>1, <1>7, SettleEffect, TypeOKByParts DEF Maker
<1>8. ASSUME NEW next, NEW sendNow, ProcessCommit(w, next, sendNow) PROVE Moves
  BY <1>2, <1>3, <1>5, <1>8 DEF ProcessCommit
<1>9. ASSUME ProcessStep(w), ~ProcessLoad(w), ~Settle("ai_process", w) PROVE Moves
  BY <1>2, <1>3, <1>4, <1>5, <1>8, <1>9
     DEF ProcessStep, SharedStep, ClaimWins, ClaimLost, FailRow, FailApp, ProcessConflict,
         ProcessNeedsReview, ProcessGenerates, ProcessEnqueuesSend
<1>10. ASSUME ProcessTrouble(w) PROVE Moves
  BY <1>2, <1>3, <1>4, <1>5, <1>10
     DEF ProcessTrouble, ClaimThenFault, PersistFault, CatchFault, ProcessFails, Fails,
         ProcessFailsUnclassified, ProcessEnqueueFault
<1> QED
  BY <1>6, <1>7, <1>9, <1>10

(* The send worker leaves all of it alone. *)
LEMMA SendOnDrafts ==
  ASSUME TypeOK, TypeOK', NEW w \in Workers, SendStep(w) \/ SendTrouble(w)
  PROVE  MakersKept /\ AiJob' = AiJob /\ Drafts' = Drafts /\ app'.retries = app.retries
<1>1. /\ run \in RunsType /\ run' \in RunsType /\ jobs \in JobsType /\ bull \in BullType
      /\ app \in App /\ "ai_process" \in Types /\ "send_email" \in Types
  BY TypeOKByParts DEF Types, TypeOK, RunTypeOK, RunsType
<1> DEFINE Fact == MakersKept /\ AiJob' = AiJob /\ Drafts' = Drafts /\ app'.retries = app.retries
<1>2. ASSUME OthersKeepTheirCall("send_email", w) PROVE MakersKept
  BY <1>1, <1>2 DEF OthersKeepTheirCall, MakersKept, RunsType, Types
<1>3. ASSUME NEW pc, Goto("send_email", w, pc) PROVE MakersKept
  BY <1>1, <1>2, <1>3, GotoEffect
<1>4. ASSUME NEW outcome, EndWith("send_email", w, outcome) PROVE MakersKept
  BY <1>1, <1>2, <1>4, EndWithEffect
<1>5. ASSUME NEW recoverable, Catch("send_email", w, recoverable) PROVE MakersKept
  BY <1>1, <1>2, <1>5, SenderCatches
<1>6. ASSUME NEW row, NEW expected, NEW next, CasJob("send_email", row, expected, next)
      PROVE  Drafts' = Drafts
  BY <1>1, <1>6 DEF CasJob, JobsType, Drafts
<1>7. ASSUME UNCHANGED jobs PROVE Drafts' = Drafts
  BY <1>7 DEF Drafts
<1>8. ASSUME UNCHANGED bull PROVE AiJob' = AiJob
  BY <1>8 DEF AiJob
<1>9. ASSUME NEW expected, NEW next, NEW review, CasApp(expected, next, review)
      PROVE  app'.retries = app.retries
  BY <1>1, <1>9 DEF CasApp, App
<1>10. ASSUME Settle("send_email", w) PROVE Fact
  BY <1>1, <1>2, <1>7, <1>10, SettleEffect DEF Settle, AiJob
<1>11. ASSUME SendLoad(w) PROVE Fact
  <2>1. AiJob' = AiJob
    BY <1>1, <1>11 DEF SendLoad, TakeJob, BullType, AiJob
  <2> QED
    BY <1>1, <1>2, <1>7, <1>11, <2>1, NewCallEffect DEF SendLoad
<1>12. ASSUME SendStep(w), ~Settle("send_email", w), ~SendLoad(w) PROVE Fact
  BY <1>3, <1>4, <1>5, <1>6, <1>7, <1>8, <1>9, <1>12
     DEF SendStep, SharedStep, ClaimWins, ClaimLost, FailRow, FailApp, SendRejects, Deliver,
         MarkSent, FinishSend, Requeue
<1>13. ASSUME SendTrouble(w) PROVE Fact
  BY <1>3, <1>4, <1>5, <1>6, <1>7, <1>8, <1>9, <1>13
     DEF SendTrouble, ClaimThenFault, PersistFault, CatchFault, SendFails, Fails,
         DeliverThenFault, MarkSentFault
<1> QED
  BY <1>10, <1>11, <1>12, <1>13

LEMMA WhoMovesMaker ==
  ASSUME TypeOK, TypeOK', [Next]_vars, NEW w \in Workers
  PROVE  \/ Maker(w)' = Maker(w)
         \/ Maker(w)' = Idle
         \/ ProcessStep(w) \/ ProcessTrouble(w)
<1>1. run \in RunsType /\ "ai_process" \in Types
  BY TypeOKByParts DEF Types
<1>2. ASSUME MakersKept PROVE Maker(w)' = Maker(w)
  BY <1>2 DEF MakersKept, Maker
<1>3. ASSUME NEW v \in Workers, v # w, ProcessStep(v) \/ ProcessTrouble(v)
      PROVE  Maker(w)' = Maker(w)
  BY <1>1, <1>3, MakerSteps DEF OthersKeepTheirCall, Maker
<1>4. ASSUME NEW v \in Workers, WorkerCrash(v) PROVE Maker(w)' = Maker(w) \/ Maker(w)' = Idle
  BY <1>1, <1>4 DEF WorkerCrash, Maker, RunsType
<1>5. CASE WorkersAct
  <2>1. ASSUME NEW v \in Workers, SendStep(v) \/ SendTrouble(v) PROVE MakersKept
    BY <2>1, SendOnDrafts
  <2>2. ASSUME (\E type \in Types : LockExpires(type)) \/ FinishedJobExpires PROVE MakersKept
    BY <2>2 DEF LockExpires, FinishedJobExpires, MakersKept
  <2> QED
    BY <1>2, <1>3, <1>4, <1>5, <2>1, <2>2, WorkersByQueue
<1>6. CASE RequestsAct \/ RecoveryActs \/ UNCHANGED vars
  BY <1>2, <1>6 DEF RequestsAct, RecoveryActs, vars, MakersKept
<1> QED
  BY <1>5, <1>6 DEF Next

(* What a step can do to the process job. *)
LEMMA WhoMovesAiJob ==
  ASSUME TypeOK, TypeOK', [Next]_vars
  PROVE  \/ AiJob' = AiJob
         \/ \E r \in Requests : EnqueueRow(r) /\ reqs[r].type = "ai_process" /\ Enqueue("ai_process")
         \/ RecEnqueue /\ rec.type = "ai_process" /\ Enqueue("ai_process")
         \/ \E w \in Workers : ProcessLoad(w) /\ TakeJob("ai_process", w)
         \/ \E w \in Workers : Settle("ai_process", w)
         \/ LockExpires("ai_process")
<1>1. /\ bull \in BullType /\ "ai_process" \in Types /\ "send_email" \in Types
      /\ rec.type \in Types /\ \A r \in Requests : reqs[r].type \in Types
      /\ Types = {"ai_process", "send_email"}
  BY TypeOKByParts DEF Types, Sweep, ReqsType, Request
<1> DEFINE Fact ==
      \/ AiJob' = AiJob
      \/ \E r \in Requests : EnqueueRow(r) /\ reqs[r].type = "ai_process" /\ Enqueue("ai_process")
      \/ RecEnqueue /\ rec.type = "ai_process" /\ Enqueue("ai_process")
      \/ \E w \in Workers : ProcessLoad(w) /\ TakeJob("ai_process", w)
      \/ \E w \in Workers : Settle("ai_process", w)
      \/ LockExpires("ai_process")
<1>2. ASSUME UNCHANGED bull PROVE Fact
  BY <1>2 DEF AiJob
<1>3. ASSUME Enqueue("send_email") PROVE Fact
  BY <1>1, <1>3, EnqueueEffect DEF AiJob
<1>4. CASE RequestsAct
  <2>1. ASSUME NEW r \in Requests, EnqueueRow(r) PROVE Fact
    BY <1>1, <1>3, <2>1 DEF EnqueueRow
  <2> QED
    BY <1>2, <1>4, <2>1
       DEF RequestsAct, CommandNext, RequestStep, RetryCheck, RetryCount, RetryReopen,
           SendCheck, CreateRow, ContinueCommit, ContinueConflict, RequestDies,
           RetryRead, ContinueCheck, SendRead, Cancel
<1>5. CASE RecoveryActs
  <2>1. ASSUME RecEnqueue PROVE Fact
    BY <1>1, <1>3, <2>1 DEF RecEnqueue
  <2> QED
    BY <1>2, <1>5, <2>1
       DEF RecoveryActs, RecoveryNext, RecoveryStep, RecPick, RecInspect, RecSync,
           RecFailRow, RecFailApp, RecReset, RecCreate, RecAborts
<1>6. ASSUME NEW w \in Workers, ProcessStep(w) PROVE Fact
  BY <1>2, <1>3, <1>6
     DEF ProcessStep, SharedStep, ClaimWins, ClaimLost, FailRow, FailApp, ProcessLoad,
         ProcessConflict, ProcessNeedsReview, ProcessGenerates, ProcessCommit,
         ProcessEnqueuesSend
<1>7. ASSUME NEW w \in Workers, ProcessTrouble(w) PROVE Fact
  BY <1>2, <1>7
     DEF ProcessTrouble, ClaimThenFault, PersistFault, CatchFault, ProcessFails,
         ProcessFailsUnclassified, ProcessEnqueueFault
<1>8. ASSUME NEW w \in Workers, SendStep(w) \/ SendTrouble(w) PROVE Fact
  BY <1>8, SendOnDrafts
<1>9. ASSUME NEW w \in Workers, WorkerCrash(w) PROVE Fact
  BY <1>2, <1>9 DEF WorkerCrash
<1>10. ASSUME NEW type \in Types, LockExpires(type) PROVE Fact
  <2>1. CASE type = "send_email"
    BY <1>1, <1>10, <2>1 DEF LockExpires, StallJob, BullType, AiJob
  <2> QED
    BY <1>1, <1>10, <2>1
<1>11. ASSUME FinishedJobExpires PROVE Fact
  BY <1>1, <1>11 DEF FinishedJobExpires, ExpireJob, BullType, AiJob
<1>12. CASE WorkersAct
  BY <1>6, <1>7, <1>8, <1>9, <1>10, <1>11, <1>12, WorkersByQueue
<1> QED
  BY <1>2, <1>4, <1>5, <1>12 DEF Next, vars

(* BullMQ has had no completed or lost process job: it removes what completes. *)
LEMMA AiJobSettles ==
  ASSUME TypeOK, NEW w \in Workers, Settle("ai_process", w)
  PROVE  \/ AiJob' = AiJob
         \/ AiJob.state = "active" /\ AiJob' = NoJob
         \/ /\ AiJob.state = "active"
            /\ AiJob' = AfterFailure(AiJob, "ai_process", TRUE)
               \/ AiJob' = AfterFailure(AiJob, "ai_process", FALSE)
<1>1. bull \in BullType /\ "ai_process" \in Types
  BY TypeOKByParts DEF Types
<1>2. AfterCompletion(AiJob, "ai_process") = NoJob
  BY DEF AfterCompletion
<1>3. \/ bull' = bull
      \/ /\ AiJob.state = "active"
         /\ \/ bull' = [bull EXCEPT !["ai_process"] = AfterCompletion(AiJob, "ai_process")]
            \/ bull' = [bull EXCEPT !["ai_process"] = AfterFailure(AiJob, "ai_process", TRUE)]
            \/ bull' = [bull EXCEPT !["ai_process"] = AfterFailure(AiJob, "ai_process", FALSE)]
  BY DEF Settle, FinishJob, AiJob
<1> QED
  BY <1>1, <1>2, <1>3 DEF AiJob, BullType

LEMMA AiJobStalls ==
  ASSUME TypeOK, LockExpires("ai_process")
  PROVE  /\ AiJob.state = "active"
         /\ \/ AiJob'.state = "waiting" /\ AiJob'.made = AiJob.made
            \/ AiJob' = AfterFailure(AiJob, "ai_process", FALSE)
<1>1. bull \in BullType /\ "ai_process" \in Types
  BY TypeOKByParts DEF Types
<1>2. AiJob.state = "active" /\ AiJob \in Bull
  BY <1>1 DEF LockExpires, StallJob, AiJob, BullType
<1>3. \/ AiJob' = [AiJob EXCEPT !.state = "waiting", !.stalls = 1, !.owner = NoWorker]
      \/ AiJob' = AfterFailure(AiJob, "ai_process", FALSE)
  BY <1>1 DEF LockExpires, StallJob, AiJob, BullType
<1>4. ASSUME NEW job \in Bull
      PROVE  LET next == [job EXCEPT !.state = "waiting", !.stalls = 1, !.owner = NoWorker]
             IN  next.state = "waiting" /\ next.made = job.made
  BY DEF Bull
<1> QED
  BY <1>2, <1>3, <1>4

LEMMA FailureEnds ==
  ASSUME NEW job \in Bull, NEW recoverable \in BOOLEAN
  PROVE  LET next == AfterFailure(job, "ai_process", recoverable)
         IN  /\ next.state \in {"waiting", "failed"}
             /\ ~recoverable => next.state = "failed"
             /\ next.state = "waiting" => next.made < MaxAttempts["ai_process"]
  BY DEF AfterFailure, Bull

(* A process job that BullMQ delivers has an attempt left, and so has its call. *)
AttemptsLeft ==
  /\ InFlight("ai_process") => AiJob.made < MaxAttempts["ai_process"]
  /\ \A w \in Workers : Maker(w).made < MaxAttempts["ai_process"]

LEMMA AttemptsStay ==
  ASSUME TypeOK, TypeOK', AttemptsLeft, [Next]_vars
  PROVE  AttemptsLeft'
<1>1. /\ bull \in BullType /\ run \in RunsType /\ "ai_process" \in Types
      /\ MaxAttempts["ai_process"] \in Nat \ {0}
      /\ AiJob \in Bull
  BY TypeOKByParts, AttemptsAssumption DEF Types, BullType, AiJob
<1> DEFINE JobLeft == InFlight("ai_process") => AiJob.made < MaxAttempts["ai_process"]
<1>2. JobLeft'
  <2>1. CASE AiJob' = AiJob
    BY <2>1 DEF AttemptsLeft, InFlight, AiJob
  <2>2. CASE Enqueue("ai_process")
    <3>1. AiJob' = AiJob \/ AiJob' = NewJob
      BY <1>1, <2>2 DEF Enqueue, AiJob, BullType
    <3>2. NewJob.made = 0
      BY DEF NewJob, NoJob
    <3> QED
      BY <1>1, <2>1, <3>1, <3>2
  <2>3. ASSUME NEW w \in Workers, TakeJob("ai_process", w) PROVE JobLeft'
    <3>1. AiJob' = [AiJob EXCEPT !.state = "active", !.owner = w] /\ AiJob.state = "waiting"
      BY <1>1, <2>3 DEF TakeJob, AiJob, BullType
    <3>2. ASSUME NEW job \in Bull PROVE [job EXCEPT !.state = "active", !.owner = w].made = job.made
      BY DEF Bull
    <3> QED
      BY <1>1, <3>1, <3>2 DEF AttemptsLeft, InFlight, AiJob
  <2>4. ASSUME NEW recoverable \in BOOLEAN, AiJob' = AfterFailure(AiJob, "ai_process", recoverable)
        PROVE  JobLeft'
    BY <1>1, <2>4, FailureEnds DEF InFlight, AiJob
  <2>5. ASSUME NEW w \in Workers, Settle("ai_process", w) PROVE JobLeft'
    <3>1. NoJob.state = "none"
      BY DEF NoJob
    <3> QED
      BY <2>1, <2>4, <2>5, <3>1, AiJobSettles DEF InFlight, AiJob
  <2>6. ASSUME LockExpires("ai_process") PROVE JobLeft'
    BY <2>4, <2>6, AiJobStalls DEF AttemptsLeft, InFlight, AiJob
  <2> QED
    BY <2>1, <2>2, <2>3, <2>5, <2>6, WhoMovesAiJob
<1>3. ASSUME NEW w \in Workers PROVE Maker(w)'.made < MaxAttempts["ai_process"]
  <2>1. ASSUME ProcessLoad(w) PROVE AiJob.made < MaxAttempts["ai_process"]
    BY <2>1 DEF ProcessLoad, TakeJob, AttemptsLeft, InFlight
  <2>2. /\ Loaded("ai_process").made = AiJob.made
        /\ Rejected("transient").made = 0 /\ Idle.made = 0
    BY DEF Loaded, Rejected, Idle, AiJob
  <2>3. CASE Maker(w)' = Maker(w) \/ Maker(w)' = Idle
    BY <1>1, <2>2, <2>3 DEF AttemptsLeft
  <2>4. CASE ProcessStep(w) \/ ProcessTrouble(w)
    BY <1>1, <2>1, <2>2, <2>4, MakerSteps DEF AttemptsLeft
  <2> QED
    BY <2>3, <2>4, WhoMovesMaker
<1> QED
  BY <1>2, <1>3 DEF AttemptsLeft

(* Who writes the rows of the process job. *)
DraftsOnlyAdded ==
  /\ DOMAIN Drafts \subseteq DOMAIN Drafts'
  /\ \A i \in DOMAIN Drafts' : Drafts'[i] = IF i \in DOMAIN Drafts THEN Drafts[i] ELSE "queued"

DraftStep(w) ==
  \/ ClaimWins("ai_process", w) \/ ClaimThenFault("ai_process", w)
  \/ FailRow("ai_process", w)
  \/ ProcessNeedsReview(w) \/ ProcessGenerates(w)

SweepsDraft == rec.type = "ai_process" /\ rec.pc \in {"sync", "failrow", "reset"}

LEMMA DraftWritten ==
  ASSUME jobs \in JobsType, NEW row \in Nat, NEW expected, NEW next \in RowStatus,
         CasJob("ai_process", row, expected, next)
  PROVE  /\ DOMAIN Drafts' = DOMAIN Drafts /\ Len(Drafts') = Len(Drafts)
         /\ \A i \in DOMAIN Drafts :
              Drafts'[i] = IF i = row THEN RowAfterCas(Drafts[i], expected, next) ELSE Drafts[i]
<1>1. "ai_process" \in Types
  BY DEF Types
<1>2. jobs' \in JobsType /\ Len(Drafts') = Len(Drafts)
      /\ \A i \in 1..Len(Drafts) :
           Drafts'[i] = IF i = row THEN RowAfterCas(Drafts[i], expected, next) ELSE Drafts[i]
  BY <1>1, CasJobEffect DEF Drafts
<1>3. DOMAIN Drafts = 1..Len(Drafts) /\ DOMAIN Drafts' = 1..Len(Drafts')
  BY <1>1, <1>2 DEF Drafts, JobsType
<1> QED
  BY <1>2, <1>3

(* A call writes its own row only. *)
LEMMA DraftStepIsOwn ==
  ASSUME TypeOK, NEW w \in Workers, DraftStep(w)
  PROVE  /\ Live("ai_process", w)
         /\ DOMAIN Drafts' = DOMAIN Drafts
         /\ \A i \in DOMAIN Drafts : i # Maker(w).row => Drafts'[i] = Drafts[i]
<1>1. /\ jobs \in JobsType /\ Maker(w).row \in Nat /\ "ai_process" \in Types
      /\ "send_email" \in Types /\ {"processing", "failed"} \subseteq RowStatus
  BY TypeOKByParts DEF Types, RunsType, Runner, Maker, RowStatus
<1>2. Live("ai_process", w)
  BY DEF DraftStep, ClaimWins, ClaimThenFault, FailRow, ProcessNeedsReview, ProcessGenerates,
         ProcessCommit, At, Live
<1>3. ASSUME NEW expected, NEW next \in RowStatus, CasJob("ai_process", Maker(w).row, expected, next)
      PROVE  /\ DOMAIN Drafts' = DOMAIN Drafts
             /\ \A i \in DOMAIN Drafts : i # Maker(w).row => Drafts'[i] = Drafts[i]
  BY <1>1, <1>3, DraftWritten
<1>4. ASSUME NEW next, NEW sendNow \in BOOLEAN, ProcessCommit(w, next, sendNow)
      PROVE  /\ DOMAIN Drafts' = DOMAIN Drafts
             /\ \A i \in DOMAIN Drafts : i # Maker(w).row => Drafts'[i] = Drafts[i]
  <2> DEFINE row == run["ai_process"][w].row
             done == [jobs EXCEPT !["ai_process"][row] =
                        RowAfterCas(@, {"processing"}, "completed")]
  <2>1. /\ done["ai_process"] = [Drafts EXCEPT ![row] = RowAfterCas(@, {"processing"}, "completed")]
        /\ DOMAIN done = Types
    BY <1>1 DEF JobsType, Drafts
  <2>2. jobs' = IF sendNow THEN [done EXCEPT !["send_email"] = Append(@, "queued")] ELSE done
    BY <1>4 DEF ProcessCommit
  <2>3. Drafts' = done["ai_process"]
    <3> HIDE DEF done
    <3> QED
      BY <1>1, <2>1, <2>2 DEF Drafts, Types
  <2> QED
    BY <2>1, <2>3 DEF Maker
<1> QED
  BY <1>1, <1>2, <1>3, <1>4
     DEF DraftStep, ClaimWins, ClaimThenFault, FailRow, ProcessNeedsReview, ProcessGenerates, Maker

LEMMA WhoWritesDrafts ==
  ASSUME TypeOK, TypeOK', [Next]_vars
  PROVE  DraftsOnlyAdded \/ SweepsDraft \/ \E w \in Workers : DraftStep(w)
<1>1. /\ jobs \in JobsType /\ rec.type \in Types /\ \A r \in Requests : reqs[r].type \in Types
      /\ "ai_process" \in Types /\ "send_email" \in Types
  BY TypeOKByParts DEF Types, Sweep, ReqsType, Request
<1>2. ASSUME Drafts' = Drafts PROVE DraftsOnlyAdded
  BY <1>2 DEF DraftsOnlyAdded
<1>3. ASSUME UNCHANGED jobs PROVE DraftsOnlyAdded
  BY <1>2, <1>3 DEF Drafts
<1>4. ASSUME NEW type \in Types, CreateJob(type) PROVE DraftsOnlyAdded
  <2>1. CASE type = "ai_process"
    <3>1. Drafts' = Append(Drafts, "queued")
      BY <1>1, <1>4, <2>1 DEF CreateJob, JobsType, Drafts
    <3>2. Drafts \in Seq(RowStatus)
      BY <1>1 DEF Drafts, JobsType
    <3>3. /\ DOMAIN Append(Drafts, "queued") = 1..(Len(Drafts) + 1)
          /\ DOMAIN Drafts = 1..Len(Drafts) /\ Len(Drafts) \in Nat
          /\ \A i \in 1..Len(Drafts) : Append(Drafts, "queued")[i] = Drafts[i]
          /\ Append(Drafts, "queued")[Len(Drafts) + 1] = "queued"
      <4>1. "queued" \in RowStatus
        BY DEF RowStatus
      <4> QED
        BY <3>2, <4>1
    <3> HIDE DEF Drafts
    <3> QED
      BY <3>1, <3>3 DEF DraftsOnlyAdded
  <2>2. CASE type # "ai_process"
    BY <1>1, <1>2, <1>4, <2>2 DEF CreateJob, JobsType, Drafts
  <2> QED
    BY <2>1, <2>2
<1>5. CASE RequestsAct
  <2>1. ASSUME NEW r \in Requests, ContinueCommit(r) \/ CreateRow(r) PROVE DraftsOnlyAdded
    BY <1>1, <1>4, <2>1 DEF ContinueCommit, CreateRow
  <2> QED
    BY <1>3, <1>5, <2>1
       DEF RequestsAct, CommandNext, RequestStep, RetryCheck, RetryCount, RetryReopen,
           SendCheck, EnqueueRow, ContinueConflict, RequestDies,
           RetryRead, ContinueCheck, SendRead, Cancel
<1>6. CASE RecoveryActs
  <2>1. ASSUME NEW expected, NEW next, CasJob(rec.type, rec.row, expected, next)
        PROVE  DraftsOnlyAdded \/ rec.type = "ai_process"
    BY <1>1, <1>2, <2>1 DEF CasJob, JobsType, Drafts
  <2>2. ASSUME RecSync \/ RecFailRow \/ RecReset PROVE DraftsOnlyAdded \/ SweepsDraft
    BY <2>1, <2>2 DEF RecSync, RecFailRow, RecReset, RecAt, SweepsDraft
  <2>3. ASSUME RecCreate PROVE DraftsOnlyAdded
    BY <1>1, <1>4, <2>3 DEF RecCreate
  <2> QED
    BY <1>3, <1>6, <2>2, <2>3
       DEF RecoveryActs, RecoveryNext, RecoveryStep, RecPick, RecInspect, RecEnqueue,
           RecFailApp, RecAborts
<1>7. ASSUME NEW w \in Workers, ProcessStep(w) PROVE DraftsOnlyAdded \/ DraftStep(w)
  BY <1>1, <1>3, <1>7
     DEF ProcessStep, SharedStep, ClaimLost, FailApp, Settle, ProcessLoad, ProcessConflict,
         ProcessEnqueuesSend, DraftStep
<1>8. ASSUME NEW w \in Workers, ProcessTrouble(w) PROVE DraftsOnlyAdded \/ DraftStep(w)
  BY <1>3, <1>8
     DEF ProcessTrouble, PersistFault, CatchFault, ProcessFails, ProcessFailsUnclassified,
         ProcessEnqueueFault, DraftStep
<1>9. CASE WorkersAct
  <2>1. ASSUME NEW w \in Workers, SendStep(w) \/ SendTrouble(w) PROVE DraftsOnlyAdded
    BY <1>2, <2>1, SendOnDrafts
  <2>2. ASSUME \/ \E w \in Workers : WorkerCrash(w)
               \/ \E type \in Types : LockExpires(type)
               \/ FinishedJobExpires
        PROVE  DraftsOnlyAdded
    BY <1>3, <2>2 DEF WorkerCrash, LockExpires, FinishedJobExpires
  <2> QED
    BY <1>7, <1>8, <1>9, <2>1, <2>2, WorkersByQueue
<1> QED
  BY <1>3, <1>5, <1>6, <1>9 DEF Next, vars

(* Only a retry counts as one. *)
LEMMA RetriesKept ==
  ASSUME TypeOK, TypeOK', OrdersInOrder, [Next]_vars
  PROVE  app'.retries = app.retries
<1>1. app \in App
  BY TypeOKByParts
<1>2. ASSUME NEW expected, NEW next, NEW review, CasApp(expected, next, review)
      PROVE  app'.retries = app.retries
  BY <1>1, <1>2 DEF CasApp, App
<1>3. CASE RequestsAct
  <2>1. \A r \in Requests : ~RetryCount(r)
    BY DEF RetryCount, OrdersInOrder
  <2> QED
    BY <1>2, <1>3, <2>1
       DEF RequestsAct, CommandNext, RequestStep, RetryCheck, RetryReopen, CreateRow,
           SendCheck, EnqueueRow, ContinueCommit, ContinueConflict, RequestDies,
           RetryRead, ContinueCheck, SendRead, Cancel
<1>4. CASE RecoveryActs
  BY <1>2, <1>4
     DEF RecoveryActs, RecoveryNext, RecoveryStep, RecPick, RecInspect, RecSync, RecEnqueue,
         RecFailRow, RecFailApp, RecReset, RecCreate, RecAborts
<1>5. CASE WorkersAct
  <2>1. ASSUME \/ \E w \in Workers : WorkerCrash(w)
               \/ \E type \in Types : LockExpires(type)
               \/ FinishedJobExpires
        PROVE  app'.retries = app.retries
    BY <2>1 DEF WorkerCrash, LockExpires, FinishedJobExpires
  <2> QED
    BY <1>5, <2>1, WorkersByQueue, ProcessOnSend, SendOnDrafts
<1> QED
  BY <1>3, <1>4, <1>5 DEF Next, vars

-----------------------------------------------------------------------------
(***************************************************************************)
(* The first process job is enqueued by the request that created the       *)
(* application, and recovery touches its row only when no job runs it.     *)
(***************************************************************************)
Creating(r) == reqs[r].pc = "enqueue" /\ reqs[r].type = "ai_process"

DraftsFresh == \A i \in DOMAIN Drafts : Drafts[i] = "queued"

NotRetried == app.retries = 0 /\ ~rec.worn

DraftSweepIsCurrent ==
  rec.type = "ai_process" =>
    /\ rec.pc # "sync"
    /\ rec.pc \in {"reset", "create"} => AiJob.state = "none"
    /\ rec.pc = "failrow" => AiJob.state = "failed"

CreatorIsAlone ==
  \A r \in Requests : Creating(r) =>
    /\ AiJob.state = "none" /\ DraftsFresh
    /\ rec.type = "ai_process" => rec.pc = "idle"
    /\ \A q \in Requests : Creating(q) => q = r

DraftsInOrder ==
  /\ AiJob.state # "completed"
  /\ NotRetried
  /\ DraftSweepIsCurrent
  /\ CreatorIsAlone

DraftInv == Steady /\ NoRetry => DraftsInOrder

LEMMA ContinuesOrderSend == Spec => []ContinueOrdersSend
<1>1. Init => ContinueOrdersSend
  BY DEF Init, ContinueOrdersSend, NoRequest
<1>2. TypeOK /\ ContinueOrdersSend /\ [Next]_vars => ContinueOrdersSend'
  BY RequestsKeepContinue
     DEF Next, WorkersAct, RecoveryActs, vars, ContinueOrdersSend
<1> QED
  BY <1>1, <1>2, TypeCorrect, PTL DEF Spec

(* A failed process job stays, and one that is gone comes back by an enqueue. *)
LEMMA QuietAiJob ==
  ASSUME TypeOK, TypeOK', [Next]_vars
  PROVE  /\ AiJob.state = "failed" => AiJob' = AiJob
         /\ AiJob.state = "none" =>
              \/ AiJob' = AiJob
              \/ \E r \in Requests : EnqueueRow(r) /\ Creating(r)
              \/ RecEnqueue /\ rec.type = "ai_process"
         /\ AiJob.state # "completed" => AiJob'.state # "completed"
<1>1. bull \in BullType /\ "ai_process" \in Types /\ AiJob \in Bull
  BY TypeOKByParts DEF Types, BullType, AiJob
<1>2. ASSUME Enqueue("ai_process")
      PROVE  /\ AiJob.state # "none" => AiJob' = AiJob
             /\ AiJob' = AiJob \/ AiJob'.state = "waiting"
  BY <1>1, <1>2 DEF Enqueue, NewJob, NoJob, BullType, AiJob
<1>3. ASSUME NEW w \in Workers, TakeJob("ai_process", w)
      PROVE  AiJob.state = "waiting" /\ AiJob'.state = "active"
  BY <1>1, <1>3 DEF TakeJob, BullType, Bull, AiJob
<1>4. ASSUME NEW w \in Workers, Settle("ai_process", w)
      PROVE  AiJob' = AiJob \/ (AiJob.state = "active" /\ AiJob'.state # "completed")
  <2>1. NoJob.state = "none"
    BY DEF NoJob
  <2>2. \A recoverable \in BOOLEAN :
          AfterFailure(AiJob, "ai_process", recoverable).state \in {"waiting", "failed"}
    BY <1>1, FailureEnds
  <2> QED
    BY <1>4, <2>1, <2>2, AiJobSettles
<1>5. ASSUME LockExpires("ai_process")
      PROVE  AiJob.state = "active" /\ AiJob'.state # "completed"
  BY <1>1, <1>5, AiJobStalls, FailureEnds
<1>6. ASSUME NEW r \in Requests, EnqueueRow(r), reqs[r].type = "ai_process" PROVE Creating(r)
  BY <1>6 DEF EnqueueRow, Creating
<1> QED
  BY <1>2, <1>3, <1>4, <1>5, <1>6, WhoMovesAiJob

(* Nobody but the transaction that creates an application enqueues its process job. *)
LEMMA NoNewCreator ==
  ASSUME TypeOK, OrdersInOrder, ContinueOrdersSend, [Next]_vars, NEW r \in Requests, Creating(r)'
  PROVE  Creating(r) /\ ~EnqueueRow(r) /\ reqs'[r] = reqs[r]
<1>1. reqs \in ReqsType
  BY TypeOKByParts
<1> DEFINE Fact == Creating(r) /\ ~EnqueueRow(r) /\ reqs'[r] = reqs[r]
<1>2. ASSUME NEW q \in Requests, Done(q) PROVE q # r /\ reqs'[r] = reqs[r]
  BY <1>1, <1>2 DEF Done, ReqsType, NoRequest, Creating
<1>3. ASSUME NEW q \in Requests, NEW pc, Advance(q, pc), pc # "enqueue" \/ reqs[q].type = "send_email"
      PROVE  q # r /\ reqs'[r] = reqs[r]
  BY <1>1, <1>3 DEF Advance, ReqsType, Request, Creating
<1>4. ASSUME NEW q \in Requests, NEW pc, NEW type, Proceed(q, pc, type), pc # "enqueue"
      PROVE  q # r /\ reqs'[r] = reqs[r]
  BY <1>1, <1>4 DEF Proceed, ReqsType, Creating
<1>5. ASSUME reqs'[r] = reqs[r], ~EnqueueRow(r) PROVE Fact
  BY <1>5 DEF Creating
<1>6. ~EnqueueRow(r)
  BY <1>2 DEF EnqueueRow
<1>7. CASE RequestsAct
  <2>1. ASSUME NEW q \in Requests, RequestStep(q) PROVE reqs'[r] = reqs[r]
    <3>1. ~RetryCheck(q) /\ ~RetryCount(q) /\ ~RetryReopen(q)
      BY DEF RetryCheck, RetryCount, RetryReopen, OrdersInOrder
    <3>2. CASE CreateRow(q)
      BY <1>3, <3>2 DEF CreateRow, OrdersInOrder
    <3>3. CASE ContinueCommit(q)
      BY <1>3, <3>3 DEF ContinueCommit, ContinueOrdersSend
    <3>4. CASE SendCheck(q)
      BY <1>2, <1>3, <3>4 DEF SendCheck
    <3> QED
      BY <1>2, <2>1, <3>1, <3>2, <3>3, <3>4 DEF RequestStep, EnqueueRow, ContinueConflict
  <2> QED
    BY <1>2, <1>4, <1>5, <1>6, <1>7, <2>1
       DEF RequestsAct, CommandNext, RequestDies, RetryRead, ContinueCheck, SendRead, Cancel
<1> QED
  BY <1>5, <1>6, <1>7 DEF Next, WorkersAct, RecoveryActs, vars

(* How a sweep of the process job goes on. *)
LEMMA DraftSweepGoesOn ==
  ASSUME TypeOK, TypeOK', AiJob.state # "completed", NotRetried, DraftSweepIsCurrent,
         RecoveryActs
  PROVE  DraftSweepIsCurrent' /\ ~rec'.worn
<1>1. /\ rec \in Sweep /\ bull \in BullType /\ AiJob.state \in BullState
      /\ \A type \in Types : MaxAttempts[type] \in Nat \ {0}
      /\ app.retries = 0
  BY TypeOKByParts, AttemptsAssumption DEF BullType, Bull, AiJob, Types, NotRetried
<1> DEFINE Fact == DraftSweepIsCurrent' /\ ~rec'.worn
<1>2. ASSUME RecDone PROVE Fact
  BY <1>2 DEF RecDone, NoSweep, DraftSweepIsCurrent
<1>3. ASSUME NEW type \in Types, RecPick(type) PROVE Fact
  <2>1. rec'.pc = "inspect" /\ rec'.worn = (app.retries >= MaxAttempts[type])
    BY <1>3 DEF RecPick
  <2>2. ~(0 >= MaxAttempts[type])
    BY <1>1
  <2> QED
    BY <1>1, <2>1, <2>2 DEF DraftSweepIsCurrent
<1>4. ASSUME NEW pc, RecGoto(pc)
      PROVE  rec'.pc = pc /\ rec'.type = rec.type /\ ~rec'.worn
  BY <1>1, <1>4 DEF RecGoto, Sweep, NotRetried
<1>5. ASSUME RecInspect PROVE Fact
  <2>1. CASE Verdict = "idle"
    BY <1>2, <1>5, <2>1 DEF RecInspect
  <2>2. CASE Verdict # "idle"
    <3>1. /\ rec'.pc = Verdict /\ rec'.type = rec.type /\ ~rec'.worn /\ AiJob' = AiJob
      BY <1>4, <1>5, <2>2 DEF RecInspect, AiJob
    <3>2. ASSUME rec.type = "ai_process"
          PROVE  /\ Verdict # "sync"
                 /\ Verdict \in {"reset", "create"} => AiJob.state = "none"
                 /\ Verdict = "failrow" => AiJob.state = "failed"
      <4>1. QueuedVerdict \in {"idle", "enqueue"}
        BY <3>2 DEF QueuedVerdict, AiJob
      <4>2. /\ ProcessingVerdict \in {"idle", "failrow", "reset"}
            /\ ProcessingVerdict = "reset" => AiJob.state = "none"
            /\ ProcessingVerdict = "failrow" => AiJob.state = "failed"
        BY <1>1, <3>2
           DEF ProcessingVerdict, TerminalFailure, InFlight, AiJob, BullState, NotRetried
      <4> QED
        BY <4>1, <4>2 DEF Verdict
    <3> QED
      BY <3>1, <3>2 DEF DraftSweepIsCurrent
  <2> QED
    BY <2>1, <2>2
<1>6. ASSUME RecReset PROVE Fact
  BY <1>4, <1>6 DEF RecReset, RecAt, DraftSweepIsCurrent, AiJob
<1>7. ASSUME RecFailRow \/ RecCreate PROVE Fact
  BY <1>4, <1>7 DEF RecFailRow, RecCreate, DraftSweepIsCurrent
<1> QED
  BY <1>2, <1>3, <1>5, <1>6, <1>7
     DEF RecoveryActs, RecoveryNext, RecoveryStep, RecSync, RecEnqueue, RecFailApp, RecAborts

LEMMA StaysDrafting ==
  ASSUME TypeOK, TypeOK', JobHasRow, HeldInv, OrdersInv, ContinueOrdersSend, DraftInv, [Next]_vars
  PROVE  DraftInv'
<1> SUFFICES ASSUME Steady', NoRetry' PROVE DraftsInOrder'
  BY DEF DraftInv
<1>1. /\ Steady /\ NoRetry /\ DraftsInOrder /\ OrdersInOrder /\ CallsHoldLocks
      /\ jobs \in JobsType /\ rec \in Sweep /\ "ai_process" \in Types
  BY SteadyBefore, NoRetryBefore, TypeOKByParts DEF DraftInv, OrdersInv, HeldInv, Steady, Types
<1>2. /\ AiJob.state # "completed" /\ NotRetried /\ DraftSweepIsCurrent /\ CreatorIsAlone
  BY <1>1 DEF DraftsInOrder
<1>3. AiJob'.state # "completed"
  BY <1>2, QuietAiJob
<1>4. DraftSweepIsCurrent' /\ ~rec'.worn
  <2>1. CASE RecoveryActs
    BY <1>2, <2>1, DraftSweepGoesOn
  <2>2. CASE rec' = rec /\ ~RecEnqueue
    <3>1. ASSUME rec.type = "ai_process", rec.pc # "idle", AiJob.state = "none" PROVE AiJob' = AiJob
      <4>1. \A r \in Requests : ~Creating(r)
        BY <1>2, <3>1 DEF CreatorIsAlone
      <4> QED
        BY <2>2, <3>1, <4>1, QuietAiJob
    <3>2. AiJob.state = "failed" => AiJob' = AiJob
      BY QuietAiJob
    <3> QED
      BY <1>2, <2>2, <3>1, <3>2 DEF DraftSweepIsCurrent, NotRetried
  <2>3. CASE rec' = rec /\ RecEnqueue
    BY <1>2, <2>3 DEF RecEnqueue, RecAt, DraftSweepIsCurrent, NotRetried
  <2> QED
    BY <2>1, <2>2, <2>3 DEF Next, WorkersAct, RequestsAct, vars
<1>5. app'.retries = 0
  BY <1>1, <1>2, RetriesKept DEF NotRetried
<1>6. ASSUME NEW r \in Requests, Creating(r)'
      PROVE  /\ AiJob'.state = "none" /\ DraftsFresh'
             /\ rec'.type = "ai_process" => rec'.pc = "idle"
             /\ \A q \in Requests : Creating(q)' => q = r
  <2>1. /\ Creating(r) /\ ~EnqueueRow(r)
        /\ AiJob.state = "none" /\ DraftsFresh
        /\ (rec.type = "ai_process" => rec.pc = "idle")
        /\ \A q \in Requests : Creating(q) => q = r
    BY <1>1, <1>2, <1>6, NoNewCreator DEF CreatorIsAlone
  <2>2. AiJob'.state = "none"
    BY <2>1, QuietAiJob DEF RecEnqueue, RecAt
  <2>3. DraftsFresh'
    <3>1. \A w \in Workers : ~DraftStep(w)
      <4>1. \A w \in Workers : ~Live("ai_process", w)
        BY <1>1, <2>1 DEF CallsHoldLocks, AiJob
      <4> QED
        BY <4>1, DraftStepIsOwn
    <3>2. ~SweepsDraft
      BY <2>1 DEF SweepsDraft
    <3> QED
      BY <2>1, <3>1, <3>2, WhoWritesDrafts DEF DraftsOnlyAdded, DraftsFresh
  <2>4. rec'.type = "ai_process" => rec'.pc = "idle"
    <3>1. ASSUME NEW type \in Types, RecPick(type) PROVE rec'.type = "send_email"
      <4>1. CASE type = "ai_process"
        <5>1. EnqueuePending(type)
          BY <2>1, <4>1 DEF EnqueuePending, Creating
        <5>2. Len(Drafts) \in DOMAIN Drafts /\ Drafts[Len(Drafts)] = "processing"
          BY <1>1, <3>1, <4>1, <5>1 DEF RecPick, LatestRow, Drafts, JobsType
        <5> QED
          BY <2>1, <5>2 DEF DraftsFresh
      <4> QED
        BY <3>1, <4>1 DEF RecPick, Types
    <3>2. ASSUME RecDone PROVE rec'.pc = "idle"
      BY <3>2 DEF RecDone, NoSweep
    <3>3. ASSUME NEW pc, RecGoto(pc), rec.pc # "idle" PROVE rec'.type # "ai_process"
      BY <1>1, <2>1, <3>3 DEF RecGoto, Sweep
    <3>4. CASE RecoveryActs
      BY <3>1, <3>2, <3>3, <3>4
         DEF RecoveryActs, RecoveryNext, RecoveryStep, RecInspect, RecSync, RecEnqueue,
             RecFailRow, RecFailApp, RecReset, RecCreate, RecAborts, RecAt
    <3> QED
      BY <2>1, <3>4 DEF Next, WorkersAct, RequestsAct, vars
  <2>5. \A q \in Requests : Creating(q)' => q = r
    BY <1>1, <2>1, NoNewCreator
  <2> QED
    BY <2>2, <2>3, <2>4, <2>5
<1> QED
  BY <1>3, <1>4, <1>5, <1>6 DEF DraftsInOrder, CreatorIsAlone, NotRetried

(***************************************************************************)
(* The row of a call that makes a draft is the last one somebody touched,  *)
(* and the send row it leaves behind waits for its job to be enqueued.     *)
(***************************************************************************)
MakerIsLast ==
  \A w \in Workers : Maker(w).pc \in {"claim", "work", "failrow"} =>
    /\ \A i \in DOMAIN Drafts : i > Maker(w).row => Drafts[i] = "queued"
    /\ Maker(w).pc \in {"work", "failrow"} => Drafts[Maker(w).row] = "processing"

NobodySends ==
  /\ SendJob.state = "none"
  /\ rec.type = "send_email" => rec.pc = "idle"
  /\ \A r \in Requests : /\ reqs[r].pc # "create"
                         /\ reqs[r].pc = "enqueue" => reqs[r].type # "send_email"

SendIsNew == \A w \in Workers : Maker(w).pc = "enqueue" => NobodySends

MakerInv == Steady /\ NoRetry => MakerIsLast /\ SendIsNew

(* How a call gets to each of these points. *)
LEMMA MakerArrives ==
  ASSUME TypeOK, AttemptsLeft, NEW w \in Workers, ProcessStep(w) \/ ProcessTrouble(w),
         Maker(w)'.pc \in {"claim", "work", "failrow", "enqueue"}
  PROVE  \/ /\ ProcessLoad(w) /\ Maker(w)'.pc = "claim"
            /\ Maker(w)'.row = Len(Drafts) /\ Drafts' = Drafts
         \/ ClaimWins("ai_process", w) /\ Maker(w)'.pc = "work" /\ Maker(w)'.row = Maker(w).row
         \/ /\ Maker(w).pc = "work" /\ Maker(w)'.pc = "failrow" /\ Maker(w)'.row = Maker(w).row
            /\ Drafts' = Drafts
         \/ Maker(w)'.pc = "enqueue" /\ ProcessCommit(w, "generated", TRUE)
<1>1. run \in RunsType /\ "ai_process" \in Types
  BY TypeOKByParts DEF Types
<1> DEFINE Fact ==
         \/ /\ ProcessLoad(w) /\ Maker(w)'.pc = "claim"
            /\ Maker(w)'.row = Len(Drafts) /\ Drafts' = Drafts
         \/ ClaimWins("ai_process", w) /\ Maker(w)'.pc = "work" /\ Maker(w)'.row = Maker(w).row
         \/ /\ Maker(w).pc = "work" /\ Maker(w)'.pc = "failrow" /\ Maker(w)'.row = Maker(w).row
            /\ Drafts' = Drafts
         \/ Maker(w)'.pc = "enqueue" /\ ProcessCommit(w, "generated", TRUE)
<1>2. ASSUME NEW outcome, EndWith("ai_process", w, outcome) PROVE FALSE
  BY <1>1, <1>2, MakerEnds
<1>3. ASSUME Goto("ai_process", w, "failapp") PROVE FALSE
  BY <1>1, <1>3, MakerGoes
<1>4. ASSUME ProcessLoad(w) PROVE Fact
  <2>1. Maker(w)' = Loaded("ai_process") \/ Maker(w)' = Rejected("transient")
    BY <1>1, <1>4, NewCallEffect DEF ProcessLoad, Maker
  <2>2. /\ Loaded("ai_process").pc = "claim" /\ Loaded("ai_process").row = Len(Drafts)
        /\ Rejected("transient").pc = "settle"
    BY DEF Loaded, Rejected, Idle, LatestRow, Drafts
  <2> QED
    BY <1>4, <2>1, <2>2 DEF ProcessLoad, Drafts
<1>5. ASSUME ClaimWins("ai_process", w) PROVE Fact
  BY <1>1, <1>5, MakerGoes DEF ClaimWins
<1>6. ASSUME Maker(w).pc = "work", NEW recoverable, Catch("ai_process", w, recoverable), UNCHANGED jobs
      PROVE  Fact
  BY <1>1, <1>6, MakerCatches DEF Drafts
<1>7. ASSUME Maker(w).pc = "work", Goto("ai_process", w, "failrow"), UNCHANGED jobs PROVE Fact
  BY <1>1, <1>7, MakerGoes DEF Drafts
<1>8. ASSUME ProcessEnqueueFault(w) PROVE FALSE
  <2>1. WillBullMqRetry("ai_process", run["ai_process"][w].made)
    BY DEF AttemptsLeft, WillBullMqRetry, Maker
  <2>2. EndWith("ai_process", w, "transient")
    BY <1>8, <2>1 DEF ProcessEnqueueFault, Catch
  <2> QED
    BY <1>2, <2>2
<1>9. ASSUME NEW next, NEW sendNow \in BOOLEAN, ProcessCommit(w, next, sendNow),
             sendNow => next = "generated"
      PROVE  Fact
  <2>1. CASE sendNow
    <3>1. Goto("ai_process", w, "enqueue") /\ sendNow = TRUE /\ next = "generated"
      BY <1>9, <2>1 DEF ProcessCommit
    <3> QED
      BY <1>1, <1>9, <3>1, MakerGoes
  <2>2. CASE ~sendNow
    BY <1>2, <1>9, <2>2 DEF ProcessCommit
  <2> QED
    BY <2>1, <2>2
<1>10. ASSUME Settle("ai_process", w) PROVE FALSE
  BY <1>1, <1>10, SettleEffect, TypeOKByParts DEF Maker, Idle
<1>11. ASSUME ProcessStep(w) PROVE Fact
  BY <1>2, <1>3, <1>4, <1>5, <1>6, <1>9, <1>10, <1>11
     DEF ProcessStep, SharedStep, ClaimLost, FailRow, FailApp, ProcessConflict,
         ProcessNeedsReview, ProcessGenerates, ProcessEnqueuesSend, At, Maker
<1>12. ASSUME ProcessTrouble(w) PROVE Fact
  BY <1>2, <1>3, <1>6, <1>7, <1>8, <1>12
     DEF ProcessTrouble, ClaimThenFault, PersistFault, CatchFault, ProcessFails, Fails,
         ProcessFailsUnclassified, At, Maker
<1> QED
  BY <1>11, <1>12

(* Who starts a send job. *)
LEMMA WhoStartsSend ==
  ASSUME TypeOK, TypeOK', [Next]_vars, SendJob.state = "none"
  PROVE  \/ SendJob' = SendJob
         \/ \E r \in Requests : EnqueueRow(r) /\ reqs[r].type = "send_email"
         \/ RecEnqueue /\ rec.type = "send_email"
         \/ \E w \in Workers : ProcessStep(w) /\ Maker(w).pc = "enqueue"
<1>1. /\ bull \in BullType /\ "ai_process" \in Types /\ "send_email" \in Types
      /\ rec.type \in Types /\ \A r \in Requests : reqs[r].type \in Types
      /\ Types = {"ai_process", "send_email"}
  BY TypeOKByParts DEF Types, Sweep, ReqsType, Request
<1> DEFINE Fact ==
         \/ SendJob' = SendJob
         \/ \E r \in Requests : EnqueueRow(r) /\ reqs[r].type = "send_email"
         \/ RecEnqueue /\ rec.type = "send_email"
         \/ \E w \in Workers : ProcessStep(w) /\ Maker(w).pc = "enqueue"
<1>2. ASSUME UNCHANGED bull PROVE Fact
  BY <1>2 DEF SendJob
<1>3. ASSUME Enqueue("ai_process") PROVE Fact
  BY <1>1, <1>3, EnqueueEffect DEF SendJob
<1>4. CASE RequestsAct
  <2>1. ASSUME NEW r \in Requests, EnqueueRow(r) PROVE Fact
    BY <1>1, <1>3, <2>1 DEF EnqueueRow
  <2> QED
    BY <1>2, <1>4, <2>1
       DEF RequestsAct, CommandNext, RequestStep, RetryCheck, RetryCount, RetryReopen,
           SendCheck, CreateRow, ContinueCommit, ContinueConflict, RequestDies,
           RetryRead, ContinueCheck, SendRead, Cancel
<1>5. CASE RecoveryActs
  <2>1. ASSUME RecEnqueue PROVE Fact
    BY <1>1, <1>3, <2>1 DEF RecEnqueue
  <2> QED
    BY <1>2, <1>5, <2>1
       DEF RecoveryActs, RecoveryNext, RecoveryStep, RecPick, RecInspect, RecSync,
           RecFailRow, RecFailApp, RecReset, RecCreate, RecAborts
<1>6. ASSUME NEW w \in Workers, ProcessStep(w) PROVE Fact
  <2>1. ASSUME ProcessLoad(w) PROVE SendJob' = SendJob
    BY <1>1, <2>1 DEF ProcessLoad, TakeJob, BullType, SendJob
  <2>2. ASSUME Settle("ai_process", w) PROVE SendJob' = SendJob
    BY <1>1, <2>2, SettleEffect, TypeOKByParts DEF SendJob
  <2>3. ASSUME ProcessEnqueuesSend(w) PROVE Fact
    BY <1>6, <2>3 DEF ProcessEnqueuesSend, At, Maker
  <2> QED
    BY <1>2, <1>6, <2>1, <2>2, <2>3
       DEF ProcessStep, SharedStep, ClaimWins, ClaimLost, FailRow, FailApp,
           ProcessConflict, ProcessNeedsReview, ProcessGenerates, ProcessCommit
<1>7. ASSUME NEW w \in Workers, ProcessTrouble(w) PROVE Fact
  BY <1>2, <1>7
     DEF ProcessTrouble, ClaimThenFault, PersistFault, CatchFault, ProcessFails,
         ProcessFailsUnclassified, ProcessEnqueueFault
<1>8. ASSUME NEW w \in Workers, SendStep(w) PROVE Fact
  <2>1. ~SendLoad(w)
    BY DEF SendLoad, TakeJob, SendJob
  <2>2. ASSUME Settle("send_email", w) PROVE bull' = bull
    BY <2>2 DEF Settle, FinishJob, SendJob
  <2> QED
    BY <1>2, <1>8, <2>1, <2>2
       DEF SendStep, SharedStep, ClaimWins, ClaimLost, FailRow, FailApp, SendRejects, Deliver,
           MarkSent, FinishSend, Requeue
<1>9. ASSUME NEW w \in Workers, SendTrouble(w) PROVE Fact
  BY <1>2, <1>9
     DEF SendTrouble, ClaimThenFault, PersistFault, CatchFault, SendFails,
         DeliverThenFault, MarkSentFault
<1>10. ASSUME NEW w \in Workers, WorkerCrash(w) PROVE Fact
  BY <1>2, <1>10 DEF WorkerCrash
<1>11. ASSUME NEW type \in Types, LockExpires(type) PROVE Fact
  BY <1>1, <1>11 DEF LockExpires, StallJob, BullType, SendJob
<1>12. ~FinishedJobExpires
  BY DEF FinishedJobExpires, ExpireJob, SendJob
<1>13. CASE WorkersAct
  BY <1>6, <1>7, <1>8, <1>9, <1>10, <1>11, <1>12, <1>13, WorkersByQueue
<1> QED
  BY <1>2, <1>4, <1>5, <1>13 DEF Next, vars

LEMMA OneMaker ==
  ASSUME CallsHoldLocks, NEW w \in Workers, Live("ai_process", w)
  PROVE  /\ AiJob.state = "active"
         /\ \A v \in Workers \ {w} : ~Live("ai_process", v)
  BY DEF CallsHoldLocks, AiJob, Types

(* Its rows while a call goes on that does not step. *)
LEMMA MakerWaits ==
  ASSUME TypeOK, TypeOK', [Next]_vars, CallsHoldLocks, DraftSweepIsCurrent,
         NEW w \in Workers, Live("ai_process", w), ~DraftStep(w)
  PROVE  DraftsOnlyAdded
<1>1. /\ AiJob.state = "active"
      /\ \A v \in Workers \ {w} : ~Live("ai_process", v)
  BY OneMaker
<1>2. \A v \in Workers : ~DraftStep(v)
  BY <1>1, DraftStepIsOwn
<1>3. ~SweepsDraft
  BY <1>1 DEF SweepsDraft, DraftSweepIsCurrent
<1> QED
  BY <1>2, <1>3, WhoWritesDrafts

LEMMA StaysLast ==
  ASSUME TypeOK, TypeOK', [Next]_vars, CallsHoldLocks, DraftSweepIsCurrent, CalledRowExists,
         AttemptsLeft, MakerIsLast
  PROVE  MakerIsLast'
<1> SUFFICES ASSUME NEW w \in Workers, Maker(w)'.pc \in {"claim", "work", "failrow"}
             PROVE  /\ \A i \in DOMAIN Drafts' : i > Maker(w)'.row => Drafts'[i] = "queued"
                    /\ Maker(w)'.pc \in {"work", "failrow"}
                         => Drafts'[Maker(w)'.row] = "processing"
  BY DEF MakerIsLast
<1>1. /\ jobs \in JobsType /\ "ai_process" \in Types /\ Maker(w).row \in Nat
      /\ "processing" \in RowStatus /\ DOMAIN Drafts = 1..Len(Drafts) /\ Len(Drafts) \in Nat
  BY TypeOKByParts DEF Types, RunsType, Runner, Maker, RowStatus, Drafts, JobsType
<1>2. Maker(w).pc \in {"claim", "work", "failrow"} => Maker(w).row \in DOMAIN Drafts
  BY <1>1 DEF CalledRowExists, Executing, Maker, Drafts
<1> DEFINE Fact ==
      /\ \A i \in DOMAIN Drafts' : i > Maker(w)'.row => Drafts'[i] = "queued"
      /\ Maker(w)'.pc \in {"work", "failrow"} => Drafts'[Maker(w)'.row] = "processing"
<1>3. CASE ProcessStep(w) \/ ProcessTrouble(w)
  <2>1. CASE Maker(w)'.pc = "claim" /\ Maker(w)'.row = Len(Drafts) /\ Drafts' = Drafts
    BY <1>1, <2>1
  <2>2. ASSUME ClaimWins("ai_process", w), Maker(w)'.pc = "work", Maker(w)'.row = Maker(w).row
        PROVE  Fact
    <3>1. /\ Maker(w).pc = "claim" /\ Drafts[Maker(w).row] = "queued"
          /\ CasJob("ai_process", Maker(w).row, {"queued"}, "processing")
      BY <2>2 DEF ClaimWins, At, Maker, RowIsQueued, Drafts
    <3>2. /\ DOMAIN Drafts' = DOMAIN Drafts
          /\ \A i \in DOMAIN Drafts :
               Drafts'[i] = IF i = Maker(w).row
                              THEN RowAfterCas(Drafts[i], {"queued"}, "processing")
                              ELSE Drafts[i]
      BY <1>1, <3>1, DraftWritten
    <3>3. Drafts'[Maker(w).row] = "processing"
      BY <1>2, <3>1, <3>2 DEF RowAfterCas
    <3>4. \A i \in DOMAIN Drafts : i > Maker(w).row => Drafts'[i] = "queued"
      BY <1>1, <3>1, <3>2 DEF MakerIsLast
    <3> QED
      BY <2>2, <3>2, <3>3, <3>4
  <2>3. CASE /\ Maker(w).pc = "work" /\ Maker(w)'.pc = "failrow" /\ Maker(w)'.row = Maker(w).row
             /\ Drafts' = Drafts
    BY <2>3 DEF MakerIsLast
  <2> QED
    BY <1>3, <2>1, <2>2, <2>3, MakerArrives
<1>4. CASE Maker(w)' = Maker(w) /\ ~ProcessStep(w) /\ ~ProcessTrouble(w)
  <2>1. Live("ai_process", w) /\ Maker(w).pc \in {"claim", "work", "failrow"}
    BY <1>4 DEF Live, Maker
  <2>2. ~DraftStep(w)
    BY <1>4 DEF DraftStep, ProcessStep, SharedStep, ProcessTrouble
  <2>3. DraftsOnlyAdded
    BY <2>1, <2>2, MakerWaits
  <2> QED
    BY <1>2, <1>4, <2>1, <2>3 DEF DraftsOnlyAdded, MakerIsLast
<1>5. Idle.pc = "idle"
  BY DEF Idle
<1> QED
  BY <1>3, <1>4, <1>5, WhoMovesMaker

LEMMA NobodyGoesOnSending ==
  ASSUME TypeOK, TypeOK', [Next]_vars, OrdersInOrder, CallsHoldLocks, FreshRows, JobHasRow,
         NEW w \in Workers, Maker(w).pc = "enqueue", ~ProcessStep(w), NobodySends
  PROVE  NobodySends'
<1>1. /\ jobs \in JobsType /\ reqs \in ReqsType /\ rec \in Sweep /\ "send_email" \in Types
      /\ Len(Rows) \in Nat /\ DOMAIN Rows = 1..Len(Rows)
  BY TypeOKByParts DEF Types, Rows, JobsType
<1>2. /\ \A v \in Workers \ {w} : Maker(v).pc = "idle"
      /\ Len(Rows) > 0 /\ \A i \in DOMAIN Rows : Rows[i] = "queued"
      /\ HasActiveJob("send_email")
  <2>1. \A v \in Workers \ {w} : Maker(v).pc = "idle"
    BY OneMaker DEF Live, Maker
  <2>2. Len(Rows) > 0
    BY DEF JobHasRow, At, Maker, LatestRow, Rows
  <2>3. \A i \in DOMAIN Rows : Rows[i] = "queued"
    BY DEF FreshRows, NobodySends
  <2>4. 1 \in DOMAIN Rows
    BY <1>1, <2>2
  <2> QED
    BY <2>1, <2>2, <2>3, <2>4 DEF HasActiveJob, RowsOf, Rows, ActiveRow
<1>3. Open(app.status)
  BY <1>1, <1>2, RowsEmpty DEF OrdersInOrder, Rows
<1>4. SendJob'.state = "none"
  <2>1. ~ \E v \in Workers : ProcessStep(v) /\ Maker(v).pc = "enqueue"
    BY <1>2
  <2>2. ~RecEnqueue \/ rec.type # "send_email"
    BY DEF RecEnqueue, RecAt, NobodySends
  <2>3. \A r \in Requests : ~(EnqueueRow(r) /\ reqs[r].type = "send_email")
    BY DEF EnqueueRow, NobodySends
  <2>4. SendJob.state = "none"
    BY DEF NobodySends
  <2> QED
    BY <2>1, <2>2, <2>3, <2>4, WhoStartsSend
<1>5. rec'.type = "send_email" => rec'.pc = "idle"
  <2>1. ASSUME NEW type \in Types, RecPick(type) PROVE rec'.type = "ai_process"
    <3>1. CASE type = "send_email"
      <4>1. EnqueuePending(type)
        BY <3>1 DEF EnqueuePending, At, Maker
      <4>2. Rows[Len(Rows)] = "processing"
        BY <2>1, <3>1, <4>1 DEF RecPick, LatestRow, Rows
      <4>3. Len(Rows) \in DOMAIN Rows
        BY <1>1, <1>2
      <4> QED
        BY <1>2, <4>2, <4>3
    <3> QED
      BY <2>1, <3>1 DEF RecPick, Types
  <2>2. ASSUME RecDone PROVE rec'.pc = "idle"
    BY <2>2 DEF RecDone, NoSweep
  <2>3. ASSUME NEW pc, RecGoto(pc), rec.pc # "idle" PROVE rec'.type # "send_email"
    BY <1>1, <2>3 DEF RecGoto, Sweep, NobodySends
  <2>4. CASE RecoveryActs
    BY <2>1, <2>2, <2>3, <2>4
       DEF RecoveryActs, RecoveryNext, RecoveryStep, RecInspect, RecSync, RecEnqueue,
           RecFailRow, RecFailApp, RecReset, RecCreate, RecAborts, RecAt
  <2> QED
    BY <2>4 DEF Next, WorkersAct, RequestsAct, vars, NobodySends
<1>6. ASSUME NEW q \in Requests
      PROVE  /\ reqs'[q].pc # "create"
             /\ reqs'[q].pc = "enqueue" => reqs'[q].type # "send_email"
  <2> DEFINE Fact == /\ reqs'[q].pc # "create"
                     /\ reqs'[q].pc = "enqueue" => reqs'[q].type # "send_email"
  <2>1. ASSUME reqs'[q] = reqs[q] PROVE Fact
    BY <2>1 DEF NobodySends
  <2>2. ASSUME NEW r \in Requests, Done(r) PROVE Fact
    BY <1>1, <2>1, <2>2 DEF Done, ReqsType, NoRequest
  <2>3. ASSUME NEW r \in Requests, NEW pc \in {"check", "continue", "sendcheck"}, NEW type,
               Proceed(r, pc, type)
        PROVE  Fact
    BY <1>1, <2>1, <2>3 DEF Proceed, ReqsType
  <2>4. ASSUME NEW r \in Requests, RequestStep(r) PROVE Fact
    <3>1. ~RetryCheck(r) /\ ~RetryCount(r) /\ ~RetryReopen(r)
      BY DEF RetryCheck, RetryCount, RetryReopen, OrdersInOrder
    <3>2. ~CreateRow(r)
      BY DEF CreateRow, NobodySends
    <3>3. ~ContinueCommit(r)
      BY <1>3 DEF ContinueCommit, Open
    <3>4. SendCheck(r) => Done(r)
      BY <1>2 DEF SendCheck
    <3> QED
      BY <2>2, <2>4, <3>1, <3>2, <3>3, <3>4 DEF RequestStep, EnqueueRow, ContinueConflict
  <2>5. CASE RequestsAct
    BY <2>1, <2>2, <2>3, <2>4, <2>5
       DEF RequestsAct, CommandNext, RequestDies, RetryRead, ContinueCheck, SendRead, Cancel
  <2> QED
    BY <2>1, <2>5 DEF Next, WorkersAct, RecoveryActs, vars
<1> QED
  BY <1>4, <1>5, <1>6 DEF NobodySends

LEMMA CommitFindsNobody ==
  ASSUME TypeOK, TypeOK', WorkersAct, OrdersInOrder, JobHasRow,
         NEW w \in Workers, ProcessCommit(w, "generated", TRUE)
  PROVE  NobodySends'
<1>1. jobs \in JobsType /\ "send_email" \in Types
  BY TypeOKByParts DEF Types
<1>2. Rows = <<>>
  BY DEF ProcessCommit, OrdersInOrder, Open
<1>3. ~(LatestRow("send_email") > 0)
  BY <1>2 DEF LatestRow, Rows
<1>4. SendJob.state = "none" /\ SendJob' = SendJob
  BY <1>1, <1>3 DEF JobHasRow, SendJob, ProcessCommit
<1>5. (rec.type = "send_email" => rec.pc = "idle") /\ rec' = rec /\ reqs' = reqs
  BY <1>3 DEF JobHasRow, RecAt, WorkersAct
<1>6. \A r \in Requests : /\ reqs[r].pc # "create"
                          /\ reqs[r].pc = "enqueue" => reqs[r].type # "send_email"
  BY <1>3 DEF JobHasRow, OrdersInOrder, Open, ProcessCommit
<1> QED
  BY <1>4, <1>5, <1>6 DEF NobodySends

LEMMA StaysMaking ==
  ASSUME TypeOK, TypeOK', JobHasRow, HeldInv, SteadyInv, ClaimInv, OrdersInv, AttemptsLeft,
         DraftInv, MakerInv, [Next]_vars
  PROVE  MakerInv'
<1> SUFFICES ASSUME Steady', NoRetry' PROVE MakerIsLast' /\ SendIsNew'
  BY DEF MakerInv
<1>1. /\ MakerIsLast /\ SendIsNew /\ OrdersInOrder /\ CallsHoldLocks /\ FreshRows
      /\ DraftSweepIsCurrent /\ CalledRowExists
  BY SteadyBefore, NoRetryBefore
     DEF MakerInv, OrdersInv, HeldInv, SteadyInv, DraftInv, DraftsInOrder, ClaimInv, Steady
<1>2. MakerIsLast'
  BY <1>1, StaysLast
<1>3. ASSUME NEW w \in Workers, Maker(w)'.pc = "enqueue" PROVE NobodySends'
  <2>1. CASE ProcessStep(w) \/ ProcessTrouble(w)
    <3>1. ProcessCommit(w, "generated", TRUE)
      BY <1>3, <2>1, MakerArrives
    <3>2. WorkersAct
      <4>1. run' # run
        BY <1>3, <3>1 DEF ProcessCommit, At, Maker
      <4> QED
        BY <4>1 DEF Next, RequestsAct, RecoveryActs, vars
    <3> QED
      BY <1>1, <3>1, <3>2, CommitFindsNobody
  <2>2. CASE Maker(w)' = Maker(w) /\ ~ProcessStep(w) /\ ~ProcessTrouble(w)
    <3>1. NobodySends
      BY <1>1, <1>3, <2>2 DEF SendIsNew
    <3> QED
      BY <1>1, <1>3, <2>2, <3>1, NobodyGoesOnSending
  <2> QED
    BY <1>3, <2>1, <2>2, WhoMovesMaker DEF Idle
<1> QED
  BY <1>2, <1>3 DEF SendIsNew

(* A mail that is marked as sent stays so. *)
LEMMA SentStays ==
  ASSUME TypeOK, TypeOK', [Next]_vars, app.status = "sent"
  PROVE  app'.status = "sent"
<1>1. app \in App
  BY TypeOKByParts
<1>2. ASSUME NEW expected, NEW next, NEW review, CasApp(expected, next, review),
             "sent" \notin expected \/ next = "sent"
      PROVE  app'.status = "sent"
  BY <1>1, <1>2 DEF CasApp, App
<1>3. ASSUME app'.status = app.status PROVE app'.status = "sent"
  BY <1>3
<1>4. CASE RequestsAct
  <2>1. ASSUME NEW r \in Requests, RetryCount(r) PROVE app'.status = "sent"
    BY <1>1, <2>1 DEF RetryCount, App
  <2>2. ASSUME NEW r \in Requests, RetryReopen(r) PROVE app'.status = "sent"
    BY <1>2, <2>2 DEF RetryReopen
  <2>3. ~Cancel /\ \A r \in Requests : ~ContinueCommit(r)
    BY DEF Cancel, Cancellable, ContinueCommit
  <2> QED
    BY <1>4, <2>1, <2>2, <2>3
       DEF RequestsAct, CommandNext, RequestStep, RetryCheck, CreateRow,
           SendCheck, EnqueueRow, ContinueConflict, RequestDies,
           RetryRead, ContinueCheck, SendRead
<1>5. CASE RecoveryActs
  BY <1>5, RecoveryOnSend
<1>6. ASSUME NEW w \in Workers, ProcessStep(w) \/ ProcessTrouble(w) PROVE app'.status = "sent"
  BY <1>6, ProcessOnSend DEF DraftProcessed
<1>7. ASSUME NEW w \in Workers, SendStep(w) \/ SendTrouble(w) PROVE app'.status = "sent"
  <2>1. "sent" \notin FailableFrom("send_email")
    BY DEF FailableFrom
  <2>2. ASSUME FailApp("send_email", w) \/ PersistFault("send_email", w) PROVE app'.status = "sent"
    BY <1>2, <2>1, <2>2 DEF FailApp, PersistFault
  <2>3. ASSUME MarkSent(w) \/ MarkSentFault(w) PROVE app'.status = "sent"
    BY <1>2, <2>3 DEF MarkSent, MarkSentFault
  <2> QED
    BY <1>7, <2>2, <2>3
       DEF SendStep, SendTrouble, SharedStep, ClaimWins, ClaimLost, FailRow, Settle,
           SendLoad, SendRejects, Deliver, FinishSend, Requeue, ClaimThenFault,
           CatchFault, SendFails, DeliverThenFault
<1>8. ASSUME \/ \E w \in Workers : WorkerCrash(w)
             \/ \E type \in Types : LockExpires(type)
             \/ FinishedJobExpires
      PROVE  app'.status = "sent"
  BY <1>8 DEF WorkerCrash, LockExpires, FinishedJobExpires
<1> QED
  BY <1>4, <1>5, <1>6, <1>7, <1>8, WorkersByQueue DEF Next, vars

(***************************************************************************)
(* The row of a call that sends is the last one somebody touched, and it   *)
(* is still "processing" unless the mail is out.                           *)
(***************************************************************************)
SenderIsLast ==
  \A w \in Workers :
    Sender(w).pc \in {"claim", "work", "mark", "finish", "requeue", "failrow"} =>
      \A i \in DOMAIN Rows : i > Sender(w).row => Rows[i] = "queued"

SenderIsOpen ==
  \A w \in Workers :
    /\ Sender(w).pc = "finish" => app.status = "sent"
    /\ Sender(w).pc \in {"requeue", "failrow"}
         => Rows[Sender(w).row] = "processing" \/ app.status = "sent"

SenderInv == Steady => SenderIsLast /\ SenderIsOpen

(* How a call gets past the delivery or into its catch block. *)
LEMMA SenderPasses ==
  ASSUME TypeOK, NEW w \in Workers, SendStep(w) \/ SendTrouble(w),
         Sender(w)'.pc \in {"finish", "requeue", "failrow"}
  PROVE  /\ Sender(w)'.row = Sender(w).row
         /\ \/ /\ Sender(w).pc \in {"work", "mark"} /\ Rows' = Rows
               /\ Sender(w)'.pc = "finish" => app'.status = "sent"
            \/ FinishSend(w) /\ Sender(w)'.pc # "finish" /\ app' = app
<1>1. run \in RunsType /\ "send_email" \in Types /\ app \in App
  BY TypeOKByParts DEF Types
<1> DEFINE Fact ==
         /\ Sender(w)'.row = Sender(w).row
         /\ \/ /\ Sender(w).pc \in {"work", "mark"} /\ Rows' = Rows
               /\ Sender(w)'.pc = "finish" => app'.status = "sent"
            \/ FinishSend(w) /\ Sender(w)'.pc # "finish" /\ app' = app
<1>2. ASSUME NEW pc \in {"work", "mark", "failapp"}, Goto("send_email", w, pc) PROVE FALSE
  BY <1>1, <1>2, SenderGoes
<1>3. ASSUME NEW outcome, EndWith("send_email", w, outcome) PROVE FALSE
  BY <1>1, <1>3, SenderEnds
<1>4. ASSUME Sender(w).pc \in {"work", "mark"}, UNCHANGED jobs,
             NEW recoverable, Catch("send_email", w, recoverable)
      PROVE  Fact
  BY <1>1, <1>4, SenderCatches DEF Rows
<1>5. ASSUME MarkSent(w) PROVE Fact
  <2>1. Sender(w).pc = "mark" /\ UNCHANGED jobs
    BY <1>5 DEF MarkSent, At, Sender
  <2>2. CASE app.status \in {"generated", "sent"}
    <3>1. app'.status = "sent"
      BY <1>1, <1>5, <2>2 DEF MarkSent, CasApp, App
    <3>2. Sender(w)'.row = Sender(w).row
      BY <1>1, <1>5, <2>2, SenderGoes DEF MarkSent
    <3> QED
      BY <2>1, <3>1, <3>2 DEF Rows
  <2>3. CASE app.status \notin {"generated", "sent"}
    BY <1>4, <1>5, <2>1, <2>3 DEF MarkSent
  <2> QED
    BY <2>2, <2>3
<1>6. ASSUME FinishSend(w) PROVE Fact
  <2>1. Catch("send_email", w, TRUE) /\ app' = app
    BY <1>3, <1>6 DEF FinishSend
  <2> QED
    BY <1>1, <1>6, <2>1, SenderCatches
<1>7. ASSUME Settle("send_email", w) PROVE FALSE
  BY <1>1, <1>7, SettleEffect, TypeOKByParts DEF Sender, Idle
<1>8. ASSUME SendLoad(w) PROVE FALSE
  <2>1. Sender(w)' = SendEntry
    BY <1>1, <1>8, NewCallEffect DEF SendLoad, Sender
  <2> QED
    BY <2>1 DEF SendEntry, Rejected, Loaded, Idle
<1>9. ASSUME SendStep(w) PROVE Fact
  BY <1>2, <1>3, <1>4, <1>5, <1>6, <1>7, <1>8, <1>9
     DEF SendStep, SharedStep, ClaimWins, ClaimLost, FailRow, FailApp, SendRejects, Deliver,
         Requeue, At, Sender
<1>10. ASSUME SendTrouble(w) PROVE Fact
  BY <1>2, <1>3, <1>4, <1>10
     DEF SendTrouble, ClaimThenFault, PersistFault, CatchFault, SendFails, Fails, MaySend,
         DeliverThenFault, MarkSentFault, At, Sender
<1> QED
  BY <1>9, <1>10

LEMMA StaysOpen ==
  ASSUME TypeOK, TypeOK', HeldInv, SteadyInv, ClaimInv, WorkInv, SenderInv, [Next]_vars
  PROVE  SenderInv'
<1> SUFFICES ASSUME Steady', NEW w \in Workers
             PROVE  /\ Sender(w)'.pc \in {"claim", "work", "mark", "finish", "requeue", "failrow"}
                         => \A i \in DOMAIN Rows' : i > Sender(w)'.row => Rows'[i] = "queued"
                    /\ Sender(w)'.pc = "finish" => app'.status = "sent"
                    /\ Sender(w)'.pc \in {"requeue", "failrow"}
                         => Rows'[Sender(w)'.row] = "processing" \/ app'.status = "sent"
  BY DEF SenderInv, SenderIsLast, SenderIsOpen
<1> DEFINE Last == \A i \in DOMAIN Rows' : i > Sender(w)'.row => Rows'[i] = "queued"
           Fact == /\ Sender(w)'.pc \in {"claim", "work", "mark", "finish", "requeue", "failrow"}
                         => Last
                   /\ Sender(w)'.pc = "finish" => app'.status = "sent"
                   /\ Sender(w)'.pc \in {"requeue", "failrow"}
                         => Rows'[Sender(w)'.row] = "processing" \/ app'.status = "sent"
<1>1. /\ SenderIsLast /\ SenderIsOpen /\ CallsHoldLocks /\ SweepIsCurrent /\ CalledRowExists
      /\ SendingIsProcessing
  BY SteadyBefore DEF SenderInv, HeldInv, SteadyInv, ClaimInv, WorkInv, Steady
<1>2. /\ jobs \in JobsType /\ run \in RunsType /\ "send_email" \in Types
      /\ Sender(w).row \in Nat /\ {"processing", "completed"} \subseteq RowStatus
      /\ DOMAIN Rows = 1..Len(Rows) /\ Len(Rows) \in Nat
  BY TypeOKByParts DEF Types, RunsType, Runner, Sender, RowStatus, Rows, JobsType
<1>3. Sender(w).pc \in {"claim", "work", "mark", "finish", "requeue", "failrow"}
        => Sender(w).row \in DOMAIN Rows
  BY <1>1, <1>2 DEF CalledRowExists, Executing, Sender, Rows
<1>4. app.status = "sent" => app'.status = "sent"
  BY SentStays
<1>5. CASE Sender(w)' = Sender(w) /\ ~SendStep(w) /\ ~SendTrouble(w)
  <2>1. ASSUME Sender(w).pc # "idle" PROVE RowsOnlyAdded
    <3>1. ~Over /\ \A v \in Workers \ {w} : ~Live("send_email", v)
      BY <1>1, <2>1, OneSender DEF Live, Sender
    <3>2. ~SweepWrites
      BY <1>1, <3>1 DEF SweepWrites, SweepSyncs, SweepCloses, SweepIsCurrent, Over
    <3>3. \A v \in Workers : ~SendRowStep(v)
      BY <1>5, <3>1, SendRowIsCalled DEF SendRowStep, SendStep, SharedStep, SendTrouble
    <3> QED
      BY <3>2, <3>3, WhoWritesRows
  <2>2. ASSUME Sender(w).pc \in {"claim", "work", "mark", "finish", "requeue", "failrow"} PROVE Last
    BY <1>1, <1>5, <2>1, <2>2 DEF RowsOnlyAdded, SenderIsLast
  <2>3. ASSUME Sender(w).pc \in {"requeue", "failrow"}
        PROVE  Rows'[Sender(w).row] = "processing" \/ app'.status = "sent"
    BY <1>1, <1>3, <1>4, <2>1, <2>3 DEF RowsOnlyAdded, SenderIsOpen
  <2> QED
    BY <1>1, <1>4, <1>5, <2>2, <2>3 DEF SenderIsOpen
<1>6. ASSUME NEW next \in RowStatus, NEW expected, Sender(w)'.row = Sender(w).row,
             Sender(w).pc \in {"claim", "finish"},
             CasJob("send_email", Sender(w).row, expected, next)
      PROVE  Last
  BY <1>1, <1>2, <1>6, RowWritten DEF SenderIsLast
<1>7. CASE (SendStep(w) \/ SendTrouble(w)) /\ Sender(w)'.pc \in {"claim", "work", "mark"}
  <2>1. ASSUME ClaimWins("send_email", w) PROVE Last
    BY <1>2, <1>6, <2>1, SenderGoes DEF ClaimWins, At, Sender
  <2>2. ASSUME Deliver(w) PROVE Last
    <3>1. Sender(w).pc = "work" /\ Sender(w)'.row = Sender(w).row /\ Rows' = Rows
      BY <1>2, <2>2, SenderGoes DEF Deliver, MaySend, At, Sender, Rows
    <3> QED
      BY <1>1, <3>1 DEF SenderIsLast
  <2>3. ASSUME SendLoad(w), Sender(w)'.pc = "claim" PROVE Last
    <3>1. Sender(w)' = SendEntry /\ Rows' = Rows
      BY <1>2, <2>3, NewCallEffect DEF SendLoad, Sender, Rows
    <3>2. Sender(w)'.row = Len(Rows)
      BY <2>3, <3>1 DEF SendEntry, Rejected, Loaded, Idle, LatestRow, Rows
    <3> QED
      BY <1>2, <3>1, <3>2
  <2> QED
    BY <1>7, <2>1, <2>2, <2>3, SendingBegins
<1>8. CASE (SendStep(w) \/ SendTrouble(w)) /\ Sender(w)'.pc \in {"finish", "requeue", "failrow"}
  <2>1. CASE /\ Sender(w)'.row = Sender(w).row
             /\ Sender(w).pc \in {"work", "mark"} /\ Rows' = Rows
             /\ (Sender(w)'.pc = "finish" => app'.status = "sent")
    BY <1>1, <2>1 DEF SenderIsLast, SendingIsProcessing
  <2>2. CASE /\ Sender(w)'.row = Sender(w).row
             /\ FinishSend(w) /\ Sender(w)'.pc # "finish" /\ app' = app
    <3>1. /\ Sender(w).pc = "finish"
          /\ CasJob("send_email", Sender(w).row, {"processing"}, "completed")
      BY <2>2 DEF FinishSend, At, Sender
    <3>2. Last
      BY <1>2, <1>6, <2>2, <3>1
    <3>3. app'.status = "sent"
      BY <1>1, <2>2, <3>1 DEF SenderIsOpen
    <3> QED
      BY <2>2, <3>2, <3>3
  <2> QED
    BY <1>8, <2>1, <2>2, SenderPasses
<1>9. CASE Sender(w)'.pc \notin {"claim", "work", "mark", "finish", "requeue", "failrow"}
  BY <1>9
<1>10. Idle.pc = "idle"
  BY DEF Idle
<1> QED
  BY <1>5, <1>7, <1>8, <1>9, <1>10, WhoMovesSender

(* The points that belong to the other worker are never reached. *)
OwnPoints ==
  \A w \in Workers : Sender(w).pc # "enqueue" /\ Maker(w).pc \notin {"mark", "requeue"}

LEMMA PointsStayOwn ==
  ASSUME TypeOK, TypeOK', OwnPoints, [Next]_vars
  PROVE  OwnPoints'
<1> SUFFICES ASSUME NEW w \in Workers
             PROVE  Sender(w)'.pc # "enqueue" /\ Maker(w)'.pc \notin {"mark", "requeue"}
  BY DEF OwnPoints
<1>1. run \in RunsType /\ "send_email" \in Types /\ Idle.pc = "idle"
  BY TypeOKByParts DEF Types, Idle
<1>2. Sender(w).pc # "enqueue" /\ Maker(w).pc \notin {"mark", "requeue"}
  BY DEF OwnPoints
<1>3. ASSUME SendStep(w) \/ SendTrouble(w) PROVE Sender(w)'.pc # "enqueue"
  <2>1. ASSUME NEW pc, Goto("send_email", w, pc), pc # "enqueue" PROVE Sender(w)'.pc # "enqueue"
    BY <1>1, <2>1, SenderGoes
  <2>2. ASSUME NEW outcome, EndWith("send_email", w, outcome) PROVE Sender(w)'.pc # "enqueue"
    BY <1>1, <2>2, SenderEnds
  <2>3. ASSUME NEW recoverable, Catch("send_email", w, recoverable) PROVE Sender(w)'.pc # "enqueue"
    BY <1>1, <2>3, SenderCatches
  <2>4. ASSUME SendLoad(w) PROVE Sender(w)'.pc # "enqueue"
    <3>1. Sender(w)' = SendEntry
      BY <1>1, <2>4, NewCallEffect DEF SendLoad, Sender
    <3> QED
      BY <3>1 DEF SendEntry, Rejected, Loaded, Idle
  <2>5. ASSUME Settle("send_email", w) PROVE Sender(w)'.pc # "enqueue"
    BY <1>1, <2>5, SettleEffect, TypeOKByParts DEF Sender
  <2>6. ASSUME SendStep(w) PROVE Sender(w)'.pc # "enqueue"
    BY <2>1, <2>2, <2>3, <2>4, <2>5, <2>6
       DEF SendStep, SharedStep, ClaimWins, ClaimLost, FailRow, FailApp, SendRejects, Deliver,
           MarkSent, FinishSend, Requeue
  <2>7. ASSUME SendTrouble(w) PROVE Sender(w)'.pc # "enqueue"
    BY <2>1, <2>2, <2>3, <2>7
       DEF SendTrouble, ClaimThenFault, PersistFault, CatchFault, SendFails, Fails,
           DeliverThenFault, MarkSentFault
  <2> QED
    BY <1>3, <2>6, <2>7
<1>4. ASSUME ProcessStep(w) \/ ProcessTrouble(w) PROVE Maker(w)'.pc \notin {"mark", "requeue"}
  <2>1. ASSUME NEW pc, Goto("ai_process", w, pc), pc \notin {"mark", "requeue"}
        PROVE  Maker(w)'.pc \notin {"mark", "requeue"}
    BY <1>1, <2>1, MakerGoes
  <2>2. ASSUME NEW outcome, EndWith("ai_process", w, outcome)
        PROVE  Maker(w)'.pc \notin {"mark", "requeue"}
    BY <1>1, <2>2, MakerEnds
  <2>3. ASSUME NEW recoverable, Catch("ai_process", w, recoverable)
        PROVE  Maker(w)'.pc \notin {"mark", "requeue"}
    BY <1>1, <2>3, MakerCatches
  <2>4. ASSUME ProcessLoad(w) \/ Settle("ai_process", w)
        PROVE  Maker(w)'.pc \notin {"mark", "requeue"}
    <3>1. Maker(w)' \in {Loaded("ai_process"), Rejected("transient"), Idle}
      BY <1>1, <2>4, NewCallEffect DEF ProcessLoad, Settle, Maker, Types
    <3>2. /\ Loaded("ai_process").pc = "claim" /\ Rejected("transient").pc = "settle"
          /\ Idle.pc = "idle"
      BY DEF Loaded, Rejected, Idle
    <3> QED
      BY <3>1, <3>2
  <2>5. ASSUME NEW next, NEW sendNow, ProcessCommit(w, next, sendNow)
        PROVE  Maker(w)'.pc \notin {"mark", "requeue"}
    BY <2>1, <2>2, <2>5 DEF ProcessCommit
  <2>6. ASSUME ProcessStep(w) PROVE Maker(w)'.pc \notin {"mark", "requeue"}
    BY <2>1, <2>2, <2>3, <2>4, <2>5, <2>6
       DEF ProcessStep, SharedStep, ClaimWins, ClaimLost, FailRow, FailApp, ProcessConflict,
           ProcessNeedsReview, ProcessGenerates, ProcessEnqueuesSend
  <2>7. ASSUME ProcessTrouble(w) PROVE Maker(w)'.pc \notin {"mark", "requeue"}
    BY <2>1, <2>2, <2>3, <2>7
       DEF ProcessTrouble, ClaimThenFault, PersistFault, CatchFault, ProcessFails, Fails,
           ProcessFailsUnclassified, ProcessEnqueueFault
  <2> QED
    BY <1>4, <2>6, <2>7
<1> QED
  BY <1>1, <1>2, <1>3, <1>4, WhoMovesSender, WhoMovesMaker

LEMMA DraftsHold == Spec => [](OwnPoints /\ AttemptsLeft /\ DraftInv /\ MakerInv /\ SenderInv)
<1>1. Init => OwnPoints /\ AttemptsLeft /\ DraftInv /\ MakerInv /\ SenderInv
  <2> SUFFICES ASSUME Init
               PROVE  /\ OwnPoints /\ AttemptsLeft /\ DraftsInOrder
                      /\ MakerIsLast /\ SendIsNew /\ SenderIsLast /\ SenderIsOpen
    BY DEF DraftInv, MakerInv, SenderInv
  <2>1. /\ \A w \in Workers : Maker(w) = Idle /\ Sender(w) = Idle
        /\ AiJob.state = "none" /\ app.retries = 0 /\ rec = NoSweep
        /\ \A i \in DOMAIN Drafts : Drafts[i] = "queued"
    BY DEF Init, Maker, Sender, AiJob, NoJob, Drafts, Types
  <2>2. Idle.pc = "idle" /\ Idle.made = 0
    BY DEF Idle
  <2>3. \A q, r \in Requests : Creating(q) /\ Creating(r) => q = r
    BY DEF Init, Creating, NoRequest
  <2>4. AttemptsLeft
    BY <2>1, <2>2, AttemptsAssumption DEF AttemptsLeft, InFlight, AiJob, Types
  <2>5. DraftsInOrder
    BY <2>1, <2>3
       DEF DraftsInOrder, NotRetried, DraftSweepIsCurrent, CreatorIsAlone, DraftsFresh, NoSweep
  <2> QED
    BY <2>1, <2>2, <2>4, <2>5 DEF OwnPoints, MakerIsLast, SendIsNew, SenderIsLast, SenderIsOpen
<1>2. /\ TypeOK /\ TypeOK' /\ JobHasRow /\ HeldInv /\ SteadyInv /\ ClaimInv
      /\ OrdersInv /\ WorkInv /\ ContinueOrdersSend
      /\ OwnPoints /\ AttemptsLeft /\ DraftInv /\ MakerInv /\ SenderInv /\ [Next]_vars
      => OwnPoints' /\ AttemptsLeft' /\ DraftInv' /\ MakerInv' /\ SenderInv'
  BY PointsStayOwn, AttemptsStay, StaysDrafting, StaysMaking, StaysOpen
<1> QED
  BY <1>1, <1>2, TypeCorrect, JobsHaveRows, SideInvariantsHold, ClaimInvHolds, OrdersHold,
     ContinuesOrderSend, PTL DEF Spec

(* An active row and nothing but queued rows behind it: the latest one is active. *)
LEMMA LatestIsActive ==
  ASSUME jobs \in JobsType, NEW type \in Types, NEW row \in 1..Len(jobs[type]),
         jobs[type][row] \in ActiveRow,
         \A i \in DOMAIN jobs[type] : i > row => jobs[type][i] = "queued"
  PROVE  ShownActive(type)
<1>1. DOMAIN jobs[type] = 1..Len(jobs[type]) /\ Len(jobs[type]) \in Nat
  BY DEF JobsType
<1>2. Len(jobs[type]) \in DOMAIN jobs[type] /\ jobs[type] # <<>>
  BY <1>1
<1>3. jobs[type][Len(jobs[type])] \in ActiveRow
  BY <1>1, <1>2 DEF ActiveRow
<1> QED
  BY <1>2, <1>3 DEF ShownActive, LatestJobStatus, LatestRow

(* The dashboard goes on asking while it sees an active row. *)
LEMMA ActiveIsPolled ==
  ASSUME app \in App, AnyShownActive, app.status \notin {"sent", "cancelled", "needs_review"}
  PROVE  ShouldPoll
<1>1. ~IsTerminalState /\ ~IsReviewState /\ ~IsFailedState
  BY DEF IsTerminalState, IsReviewState, IsFailedState
<1>2. StageOf("send_email", "sending") \in {"queued", "sending"}
      /\ StageOf("ai_process", "processing") \in {"queued", "processing"}
  BY DEF StageOf
<1>3. ResolveUiStatus \in {"retrying", "queued", "sending", "processing", "generated", "draft"}
  BY <1>1, <1>2 DEF ResolveUiStatus
<1> QED
  BY <1>3 DEF ShouldPoll, UiTerminal, Pollable

LEMMA WorkShowsActive ==
  ASSUME TypeOK, JobHasRow, ClaimInv, Steady, SteadyInv, WorkInv, NoRetry, OwnPoints,
         MakerInv, SenderInv, NEW type \in Types, NEW w \in Workers,
         run[type][w].pc \in {"work", "enqueue", "mark", "requeue", "failrow"}
  PROVE  AnyShownActive \/ app.status = "sent"
<1>1. /\ jobs \in JobsType /\ "ai_process" \in Types /\ "send_email" \in Types
      /\ Types = {"ai_process", "send_email"}
  BY TypeOKByParts DEF Types
<1>2. run[type][w].row \in 1..Len(jobs[type])
  BY DEF ClaimInv, CalledRowExists, Executing
<1>3. "processing" \in ActiveRow /\ "queued" \in ActiveRow
  BY DEF ActiveRow
<1>4. CASE type = "ai_process" /\ Maker(w).pc \in {"work", "failrow"}
  <2>1. /\ Drafts[Maker(w).row] = "processing"
        /\ \A i \in DOMAIN Drafts : i > Maker(w).row => Drafts[i] = "queued"
    BY <1>4 DEF MakerInv, MakerIsLast
  <2> QED
    BY <1>1, <1>2, <1>3, <1>4, <2>1, LatestIsActive DEF AnyShownActive, Drafts, Maker
<1>5. CASE type = "ai_process" /\ Maker(w).pc = "enqueue"
  <2>1. SendJob.state = "none"
    BY <1>5 DEF MakerInv, SendIsNew, NobodySends
  <2>2. \A i \in DOMAIN Rows : Rows[i] = "queued"
    BY <2>1 DEF SteadyInv, FreshRows
  <2>3. Len(Rows) > 0 /\ Len(Rows) \in Nat /\ DOMAIN Rows = 1..Len(Rows)
    BY <1>1, <1>5 DEF JobHasRow, At, Maker, LatestRow, Rows, JobsType
  <2>4. 1 \in 1..Len(Rows) /\ Rows[1] = "queued"
    BY <2>2, <2>3
  <2>5. ShownActive("send_email")
    BY <1>1, <1>3, <2>2, <2>4, LatestIsActive DEF Rows
  <2> QED
    BY <1>1, <2>5 DEF AnyShownActive
<1>6. CASE type = "send_email"
  <2>0. Sender(w).pc \in {"work", "mark", "requeue", "failrow"}
    BY <1>6 DEF OwnPoints, Sender
  <2>1. \A i \in DOMAIN Rows : i > Sender(w).row => Rows[i] = "queued"
    BY <2>0 DEF SenderInv, SenderIsLast
  <2>2. Rows[Sender(w).row] = "processing" \/ app.status = "sent"
    BY <2>0 DEF SenderInv, SenderIsOpen, WorkInv, SendingIsProcessing
  <2> QED
    BY <1>1, <1>2, <1>3, <1>6, <2>1, <2>2, LatestIsActive DEF AnyShownActive, Rows, Sender
<1> QED
  BY <1>1, <1>4, <1>5, <1>6 DEF OwnPoints, Maker

(***************************************************************************)
(* While a worker executes a row the dashboard keeps asking, unless the    *)
(* mail is out, the user cancelled or is asked to review: whatever dies,   *)
(* fails or is lost, as long as no live worker loses its lock, no job      *)
(* outlives its retention and nobody retries.                              *)
(***************************************************************************)
THEOREM WorkIsWatchedWhenSteady == Spec => [](Steady /\ NoRetry => WorkIsWatched)
<1>1. /\ TypeOK /\ JobHasRow /\ ClaimInv /\ SteadyInv /\ WorkInv /\ OwnPoints
      /\ MakerInv /\ SenderInv
      => (Steady /\ NoRetry => WorkIsWatched)
  BY WorkShowsActive, ActiveIsPolled, TypeOKByParts DEF WorkIsWatched
<1> QED
  BY <1>1, TypeCorrect, JobsHaveRows, SideInvariantsHold, ClaimInvHolds, OrdersHold, DraftsHold,
     PTL
=============================================================================
