--------------------------- MODULE PostCall_proofs ---------------------------
(***************************************************************************)
(* Proofs about PostCall, for any conversation.                            *)
(***************************************************************************)
EXTENDS PostCall, TLAPS

\* A task; every task is one of these.
TaskRecord == [pc : Steps \cup {"idle", "done"}, plan : SUBSET Segment, caught : BOOLEAN]

\* The transcript's row.
RowRecord == [status : Status, content : SUBSET Segment, segs : SUBSET Segment]

\* The row with these fields.
Row(status, content, segs) == [status |-> status, content |-> content, segs |-> segs]

\* A task with one field replaced, written out.
LEMMA Updates ==
  ASSUME NEW r \in TaskRecord
  PROVE  /\ \A pc : [r EXCEPT !.pc = pc] =
                    [pc |-> pc, plan |-> r.plan, caught |-> r.caught]
         /\ \A c : [r EXCEPT !.caught = c] =
                   [pc |-> r.pc, plan |-> r.plan, caught |-> c]
BY DEF TaskRecord

\* The fields of a row written out.
LEMMA RowFields ==
  \A a, b, c : /\ Row(a, b, c).status = a
               /\ Row(a, b, c).content = b
               /\ Row(a, b, c).segs = c
BY DEF Row

\* t goes to pc with a plan, and the other tasks stay.
Moves(t, pc, plan) ==
  /\ task' \in [Task -> TaskRecord]
  /\ task'[t] = [pc |-> pc, plan |-> plan, caught |-> task[t].caught]
  /\ \A x \in Task : x # t => task'[x] = task[x]

-----------------------------------------------------------------------------
(* What each kind of step does to a task and to the row.                   *)

\* Goto moves a task and keeps its plan.
LEMMA GotoMoves ==
  ASSUME TypeOK, NEW t \in Task, NEW pc \in Steps \cup {"done"}, Goto(t, pc)
  PROVE  Moves(t, pc, task[t].plan)
<1>1. task[t] \in TaskRecord /\ task \in [Task -> TaskRecord]
  BY DEF TypeOK, TaskRecord
<1>2. task' = [task EXCEPT ![t] = [@ EXCEPT !.pc = pc]]
  BY DEF Goto
<1>3. DEFINE r == [pc |-> pc, plan |-> task[t].plan, caught |-> task[t].caught]
<1>4. [task[t] EXCEPT !.pc = pc] = r
  BY <1>1 DEF TaskRecord
<1>5. r \in TaskRecord
  BY <1>1 DEF TaskRecord
<1>6. task' = [task EXCEPT ![t] = r]
  BY <1>1, <1>2, <1>4
<1> QED
  BY <1>1, <1>5, <1>6 DEF Moves

\* GotoWith also gives it a plan.
LEMMA GotoWithMoves ==
  ASSUME TypeOK, NEW t \in Task, NEW pc \in Steps \cup {"done"},
         NEW plan \in SUBSET Segment, GotoWith(t, pc, plan)
  PROVE  Moves(t, pc, plan)
<1>1. task[t] \in TaskRecord /\ task \in [Task -> TaskRecord]
  BY DEF TypeOK, TaskRecord
<1>2. DEFINE r == [pc |-> pc, plan |-> plan, caught |-> task[t].caught]
<1>3. task' = [task EXCEPT ![t] = r]
  BY DEF GotoWith
<1>4. r \in TaskRecord
  BY <1>1 DEF TaskRecord
<1> QED
  BY <1>1, <1>3, <1>4 DEF Moves

\* The tasks by their owner and kind.
LEMMA Tasks ==
  /\ \A u \in Utterance : <<u, "draft">> \in Task /\ <<u, "salvage">> \in Task
  /\ \A f \in Finalizer : /\ <<f, "job">> \in Task /\ <<f, "first">> \in Task
                          /\ <<f, "second">> \in Task
BY DEF Task

\* persistDraft: the row, the segment, then the text of the segments it read.
LEMMA PersistDraftDoes ==
  ASSUME TypeOK, NEW u \in Utterance, PersistDraft(u)
  PROVE  LET t == <<u, "draft">>
             plan == task[t].plan
         IN \/ /\ task[t].pc = "draftUpsert" /\ Moves(t, "draftCreate", plan)
               /\ row' = Row("draft", IF row.status = "none" THEN {u} ELSE row.content,
                             row.segs)
            \/ /\ task[t].pc = "draftCreate" /\ Moves(t, "draftRead", plan)
               /\ row' = Row(row.status, row.content, row.segs \cup {u})
            \/ /\ task[t].pc = "draftRead" /\ Moves(t, "draftWrite", row.segs)
               /\ row' = row
            \/ /\ task[t].pc = "draftWrite" /\ Moves(t, "done", plan)
               /\ row' = Row(row.status, plan, row.segs)
<1> DEFINE t == <<u, "draft">>
<1>1. t \in Task
  BY Tasks
<1>2. row \in RowRecord
  BY DEF TypeOK, RowRecord
<1>3. CASE task[t].pc = "draftUpsert"
  BY <1>1, <1>2, <1>3, GotoMoves DEF PersistDraft, Row, RowRecord, Steps, Drafting
<1>4. CASE task[t].pc = "draftCreate"
  BY <1>1, <1>2, <1>4, GotoMoves DEF PersistDraft, Row, RowRecord, Steps, Drafting
<1>5. CASE task[t].pc = "draftRead"
  <2>1. row.segs \in SUBSET Segment
    BY <1>2 DEF RowRecord
  <2> QED
    BY <1>1, <1>5, <2>1, GotoWithMoves DEF PersistDraft, Steps, Drafting
<1>6. CASE task[t].pc = "draftWrite"
  BY <1>1, <1>2, <1>6, GotoMoves DEF PersistDraft, Row, RowRecord
<1> QED
  BY <1>3, <1>4, <1>5, <1>6 DEF PersistDraft

\* persistFinal: the row, then the segments deleted and created.
LEMMA PersistFinalDoes ==
  ASSUME TypeOK, NEW t \in Task, PersistFinal(t)
  PROVE  \/ /\ task[t].pc = "upsert" /\ Moves(t, "delete", task[t].plan)
            /\ row' = Row("final", task[t].plan, row.segs)
         \/ /\ task[t].pc = "delete" /\ Moves(t, "create", task[t].plan)
            /\ row' = Row(row.status, row.content, {})
         \/ /\ task[t].pc = "create" /\ Moves(t, "notify", task[t].plan)
            /\ row' = Row(row.status, row.content, row.segs \cup task[t].plan)
<1>2. row \in RowRecord
  BY DEF TypeOK, RowRecord
<1>3. /\ PersistOrder.first = "delete" /\ PersistOrder.second = "create"
      /\ {"delete", "create", "notify"} \subseteq Steps
  BY DEF PersistOrder, Steps, Persisting, Notifying
<1>4. CASE task[t].pc = "upsert"
  BY <1>2, <1>3, <1>4, GotoMoves DEF PersistFinal, Row, RowRecord
<1>5. CASE task[t].pc = "delete"
  BY <1>2, <1>3, <1>5, GotoMoves DEF PersistFinal, Row, RowRecord
<1>6. CASE task[t].pc = "create"
  BY <1>2, <1>3, <1>6, GotoMoves DEF PersistFinal, Row, RowRecord
<1> QED
  BY <1>4, <1>5, <1>6 DEF PersistFinal

\* enqueue: the row is marked, the source looked at, the job taken.
LEMMA EnqueueDoes ==
  ASSUME TypeOK, NEW f \in Finalizer, Enqueue(f)
  PROVE  LET t == <<f, "job">>
         IN \/ /\ task[t].pc = "mark" /\ Moves(t, "source", task[t].plan)
               /\ row' = Row("processing", row.content, row.segs)
            \/ /\ task[t].pc = "source" /\ row' = row
               /\ Moves(t, IF integration THEN "load" ELSE "queued", task[t].plan)
            \/ /\ task[t].pc = "queued" /\ row' = row
               /\ Moves(t, "load", task[t].plan)
<1> DEFINE t == <<f, "job">>
<1>1. t \in Task
  BY Tasks
<1>2. row \in RowRecord
  BY DEF TypeOK, RowRecord
<1>3. {"source", "load", "queued"} \subseteq Steps
  BY DEF Steps, Jobbing
<1>4. CASE task[t].pc = "mark"
  BY <1>1, <1>2, <1>3, <1>4, GotoMoves DEF Enqueue, Row, RowRecord
<1>5. CASE task[t].pc = "source"
  BY <1>1, <1>3, <1>5, GotoMoves DEF Enqueue
<1>6. CASE task[t].pc = "queued"
  BY <1>1, <1>3, <1>6, GotoMoves DEF Enqueue
<1> QED
  BY <1>4, <1>5, <1>6 DEF Enqueue

\* processPostCallJob: what the job is going to write.
LEMMA ProcessPostCallJobDoes ==
  ASSUME TypeOK, NEW f \in Finalizer, ProcessPostCallJob(f)
  PROVE  LET t == <<f, "job">>
         IN \/ /\ task[t].pc = "load" /\ Timeline # {} /\ Moves(t, "upsert", Timeline)
            \/ /\ task[t].pc = "load" /\ Timeline = {}
               /\ Moves(t, "transcribe", task[t].plan)
            \/ /\ task[t].pc = "transcribe"
               /\ \E heard \in Transcriptions : Moves(t, "upsert", heard)
<1> DEFINE t == <<f, "job">>
<1>1. t \in Task
  BY Tasks
<1>2. {"upsert", "transcribe"} \subseteq Steps
  BY DEF Steps, Persisting, Jobbing
<1>3. Timeline \in SUBSET Segment /\ Transcriptions \subseteq SUBSET Segment
  BY DEF Timeline, Transcriptions, Segment
<1>4. CASE task[t].pc = "load"
  BY <1>1, <1>2, <1>3, <1>4, GotoMoves, GotoWithMoves DEF ProcessPostCallJob
<1>5. CASE task[t].pc = "transcribe"
  <2>1. PICK heard \in Transcriptions : GotoWith(t, "upsert", heard)
    BY <1>5 DEF ProcessPostCallJob
  <2>2. Moves(t, "upsert", heard)
    BY <1>1, <1>2, <1>3, <2>1, GotoWithMoves
  <2> QED
    BY <1>5, <2>2
<1> QED
  BY <1>4, <1>5 DEF ProcessPostCallJob

\* finalizeLiveTranscript: the live list, or the draft made final.
LEMMA FinalizeLiveTranscriptDoes ==
  ASSUME TypeOK, NEW f \in Finalizer, FinalizeLiveTranscript(f)
  PROVE  LET t == <<f, "job">>
             plan == task[t].plan
         IN \/ /\ task[t].pc = "live" /\ live # {} /\ row.status = "none"
               /\ Moves(t, "upsert", live) /\ row' = row
            \/ /\ task[t].pc = "live" /\ (live # {} => row.status # "none")
               /\ Moves(t, "liveWrite", plan) /\ row' = row
            \/ /\ task[t].pc = "live" /\ live = {}
               /\ Moves(t, "notify", plan) /\ row' = row
            \/ /\ task[t].pc = "liveWrite" /\ live # {}
               /\ Moves(t, "liveSegments", plan)
               /\ row' = Row("final", live, row.segs)
            \/ /\ task[t].pc = "liveWrite" /\ live = {}
               /\ Moves(t, "liveSegments", plan)
               /\ row' = Row("final", row.content, row.segs)
            \/ /\ task[t].pc = "liveSegments"
               /\ Moves(t, "notify", plan) /\ row' = row
<1> DEFINE t == <<f, "job">>
<1>1. t \in Task
  BY Tasks
<1>2. row \in RowRecord /\ live \in SUBSET Segment
  BY DEF TypeOK, RowRecord, Segment
<1>3. {"upsert", "liveWrite", "liveSegments", "notify"} \subseteq Steps
  BY DEF Steps, Persisting, Live, Notifying
<1>4. CASE task[t].pc = "live" /\ live # {} /\ row.status = "none"
  BY <1>1, <1>2, <1>3, <1>4, GotoWithMoves DEF FinalizeLiveTranscript
<1>5. CASE task[t].pc = "live" /\ ~(live # {} /\ row.status = "none")
  BY <1>1, <1>3, <1>5, GotoMoves DEF FinalizeLiveTranscript
<1>6. CASE task[t].pc = "liveWrite"
  BY <1>1, <1>2, <1>3, <1>6, GotoMoves DEF FinalizeLiveTranscript, Row, RowRecord
<1>7. CASE task[t].pc = "liveSegments"
  BY <1>1, <1>3, <1>7, GotoMoves DEF FinalizeLiveTranscript
<1> QED
  BY <1>4, <1>5, <1>6, <1>7 DEF FinalizeLiveTranscript

\* The notification of the partner, one step at a time.
LEMMA NotifyDoes ==
  ASSUME TypeOK, NEW t \in Task, Notify(t)
  PROVE  \/ /\ task[t].pc = "notify" /\ Moves(t, "post", Text) /\ posts' = posts
            /\ delivered' = delivered
         \/ /\ task[t].pc = "notify" /\ Moves(t, "done", task[t].plan)
            /\ posts' = posts /\ delivered' = delivered
         \/ /\ task[t].pc = "post" /\ Moves(t, "record", task[t].plan)
            /\ posts' = Append(posts, [text |-> task[t].plan, ended |-> ended])
            /\ delivered' = delivered
         \/ /\ task[t].pc = "record" /\ Moves(t, "done", task[t].plan)
            /\ posts' = posts /\ delivered' = TRUE
<1>2. Text \in SUBSET Segment
  BY DEF Text, TypeOK
<1>3. {"post", "record"} \subseteq Steps
  BY DEF Steps, Notifying
<1>4. CASE task[t].pc = "notify"
  BY <1>2, <1>3, <1>4, GotoMoves, GotoWithMoves DEF Notify
<1>5. CASE task[t].pc = "post"
  BY <1>3, <1>5, GotoMoves DEF Notify
<1>6. CASE task[t].pc = "record"
  BY <1>6, GotoMoves DEF Notify
<1> QED
  BY <1>4, <1>5, <1>6 DEF Notify

\* A salvage in the worker looks for segments.
LEMMA LookDoes ==
  ASSUME TypeOK, NEW t \in Task, Look(t)
  PROVE  /\ task[t].pc = "look"
         /\ \/ row.segs # {} /\ Moves(t, "upsert", row.segs)
            \/ row.segs = {} /\ Moves(t, "fail", task[t].plan)
<1>1. row.segs \in SUBSET Segment /\ {"upsert", "fail"} \subseteq Steps
  BY DEF TypeOK, Steps, Persisting, Salvaging
<1> QED
  BY <1>1, GotoMoves, GotoWithMoves DEF Look

\* A salvage that found none marks the row failed.
LEMMA MarkFailedDoes ==
  ASSUME TypeOK, NEW t \in Task, MarkFailed(t)
  PROVE  /\ task[t].pc = "fail" /\ Moves(t, "notify", task[t].plan)
         /\ row' = Row("failed", row.content, row.segs)
<1>1. row \in RowRecord /\ "notify" \in Steps
  BY DEF TypeOK, RowRecord, Steps, Notifying
<1> QED
  BY <1>1, GotoMoves DEF MarkFailed, Row, RowRecord

\* What a rejection leaves each task as.
LEMMA FailDoes ==
  ASSUME TypeOK, NEW t \in Task, Fail(t)
  PROVE  /\ task' \in [Task -> TaskRecord]
         /\ task'[t].plan = task[t].plan
         /\ t[2] \in {"draft", "job"} \/ task[t].caught =>
              task'[t].pc = "done" /\ task'[t].caught = task[t].caught
         /\ ~(t[2] \in {"draft", "job"} \/ task[t].caught) =>
              task'[t].pc = "fail" /\ task'[t].caught
         /\ \A x \in Task \ {t} :
              task'[x] = IF x \in Salvages(t) THEN Salvage(x) ELSE task[x]
<1> DEFINE Left(x) ==
      IF x = t
        THEN IF t[2] \in {"draft", "job"} \/ task[t].caught
               THEN [task[t] EXCEPT !.pc = "done"]
               ELSE [task[t] EXCEPT !.pc = "fail", !.caught = TRUE]
        ELSE IF x \in Salvages(t) THEN Salvage(x) ELSE task[x]
<1>1. task' = [x \in Task |-> Left(x)]
  BY DEF Fail
<1>2. \A x \in Task : task[x] \in TaskRecord
  BY DEF TypeOK, TaskRecord
<1>3. \A x \in Task : Salvage(x) \in TaskRecord
  BY DEF TypeOK, TaskRecord, Salvage, Heard, Segment, Steps, Persisting, Salvaging
<1>4. /\ [task[t] EXCEPT !.pc = "done"] =
             [pc |-> "done", plan |-> task[t].plan, caught |-> task[t].caught]
      /\ [task[t] EXCEPT !.pc = "fail", !.caught = TRUE] =
             [pc |-> "fail", plan |-> task[t].plan, caught |-> TRUE]
  <2>2. [task[t] EXCEPT !.pc = "done"] =
          [pc |-> "done", plan |-> task[t].plan, caught |-> task[t].caught]
    BY <1>2, Updates
  <2>3. DEFINE r == [task[t] EXCEPT !.pc = "fail"]
  <2>4. r = [pc |-> "fail", plan |-> task[t].plan, caught |-> task[t].caught]
    BY <1>2, Updates
  <2>5. r \in TaskRecord
    BY <1>2, <2>4 DEF TaskRecord, Steps, Salvaging
  <2>6. r.pc = "fail" /\ r.plan = task[t].plan
    BY <2>4
  <2>7. [r EXCEPT !.caught = TRUE] = [pc |-> r.pc, plan |-> r.plan, caught |-> TRUE]
    <3> HIDE DEF r
    <3> QED
      BY <2>5, Updates
  <2> QED
    BY <2>2, <2>6, <2>7
<1>5. Left(t) \in TaskRecord
  BY <1>2, <1>4 DEF TaskRecord, Steps, Salvaging
<1>6. \A x \in Task : Left(x) \in TaskRecord
  BY <1>2, <1>3, <1>5
<1> QED
  BY <1>1, <1>4, <1>6

\* A crash of the worker: jobs come back, salvages are lost.
LEMMA WorkerCrashDoes ==
  ASSUME TypeOK, WorkerCrash
  PROVE  /\ task' \in [Task -> TaskRecord]
         /\ \A t \in Task :
              \/ task'[t] = task[t]
              \/ /\ OnWorker(t) /\ Busy(t) /\ task[t].pc \notin {"mark", "source", "queued"}
                 /\ task'[t] = [pc |-> IF t[2] = "job" THEN "load" ELSE "done",
                                plan |-> {}, caught |-> FALSE]
<1> DEFINE Left(t) ==
      IF OnWorker(t) /\ Busy(t) /\ task[t].pc \notin {"mark", "source", "queued"}
        THEN [pc |-> IF t[2] = "job" THEN "load" ELSE "done",
              plan |-> {}, caught |-> FALSE]
        ELSE task[t]
<1>1. task' = [t \in Task |-> Left(t)]
  <2>1. Idle \in TaskRecord /\ Idle.plan = {} /\ Idle.caught = FALSE
    BY DEF Idle, TaskRecord
  <2> QED
    <3>1. \A pc : [Idle EXCEPT !.pc = pc] = [pc |-> pc, plan |-> {}, caught |-> FALSE]
      BY <2>1, Updates
    <3> QED
      BY <3>1 DEF WorkerCrash
<1>2. \A t \in Task : Left(t) \in TaskRecord
  BY DEF TypeOK, TaskRecord, Steps, Jobbing
<1> QED
  BY <1>1, <1>2

-----------------------------------------------------------------------------
(* Types.                                                                  *)

\* The types hold at the start.
LEMMA TypeInit == Init => TypeOK
<1> SUFFICES ASSUME Init PROVE TypeOK
  OBVIOUS
<1>1. row \in RowRecord
  BY DEF Init, RowRecord, Status
<1>2. Idle \in TaskRecord
  BY DEF Idle, TaskRecord
<1>3. task \in [Task -> TaskRecord]
  BY <1>2 DEF Init
<1>4. posts \in Seq([text : SUBSET Segment, ended : BOOLEAN])
  BY DEF Init
<1> QED
  BY <1>1, <1>3, <1>4 DEF Init, TypeOK, RowRecord, TaskRecord

\* A step leaves types as they are if it does so for the row, the tasks and the
\* posts.
LEMMA TypeStep ==
  ASSUME TypeOK, [Next]_vars
  PROVE  TypeOK'
<1>1. /\ row \in RowRecord /\ task \in [Task -> TaskRecord]
      /\ \A t \in Task : task[t] \in TaskRecord /\ task[t].plan \in SUBSET Segment
  BY DEF TypeOK, RowRecord, TaskRecord
<1>2. \A status \in Status, content, segs \in SUBSET Segment :
        Row(status, content, segs) \in RowRecord
  BY DEF Row, RowRecord
<1>3. /\ row.status \in Status /\ row.content \in SUBSET Segment
      /\ row.segs \in SUBSET Segment /\ live \in SUBSET Segment
  BY <1>1 DEF RowRecord, TypeOK, Segment
<1>4. \A t \in Task : \A pc, plan : Moves(t, pc, plan) => task' \in [Task -> TaskRecord]
  BY DEF Moves
<1>5. \A t \in Task : Append(posts, [text |-> task[t].plan, ended |-> ended])
                        \in Seq([text : SUBSET Segment, ended : BOOLEAN])
  <2> DEFINE Post == [text : SUBSET Segment, ended : BOOLEAN]
  <2>1. \A t \in Task : [text |-> task[t].plan, ended |-> ended] \in Post
    BY <1>1 DEF TypeOK
  <2>2. posts \in Seq(Post)
    BY DEF TypeOK
  <2> HIDE DEF Post
  <2>3. \A t \in Task : Append(posts, [text |-> task[t].plan, ended |-> ended]) \in Seq(Post)
    BY <2>1, <2>2
  <2> QED
    BY <2>3 DEF Post
<1> USE DEF config
<1>6. ASSUME NEW u \in Utterance, HandleRealtimeCompleted(u)
      PROVE  TypeOK'
  <2>1. task' \in [Task -> TaskRecord]
    BY <1>6, GotoMoves, Tasks DEF HandleRealtimeCompleted, Moves, Steps, Drafting
  <2> QED
    BY <1>6, <2>1 DEF HandleRealtimeCompleted, TypeOK, TaskRecord
<1>7. CASE EndCall
  BY <1>7 DEF EndCall, TypeOK, RowRecord, TaskRecord
<1>8. ASSUME NEW f \in Finalizer, Finalize(f)
      PROVE  TypeOK'
  <2>1. task' \in [Task -> TaskRecord]
    BY <1>8, GotoMoves, Tasks DEF Finalize, Moves, Steps, Jobbing, Live
  <2> QED
    BY <1>8, <2>1 DEF Finalize, TypeOK, TaskRecord
<1>9. ASSUME NEW u \in Utterance, PersistDraft(u)
      PROVE  TypeOK'
  <2>1. row' \in RowRecord /\ task' \in [Task -> TaskRecord]
    BY <1>9, <1>1, <1>2, <1>3, PersistDraftDoes, Tasks, ZenonT(60)
       DEF Moves, Status, Segment
  <2> QED
    BY <1>9, <2>1 DEF PersistDraft, TypeOK, TaskRecord, RowRecord
<1>10. ASSUME NEW f \in Finalizer, Enqueue(f)
       PROVE  TypeOK'
  <2>1. row' \in RowRecord /\ task' \in [Task -> TaskRecord]
    BY <1>10, <1>1, <1>2, <1>3, EnqueueDoes DEF Moves, Status
  <2> QED
    BY <1>10, <2>1 DEF Enqueue, TypeOK, TaskRecord, RowRecord
<1>11. ASSUME NEW f \in Finalizer, ProcessPostCallJob(f)
       PROVE  TypeOK'
  <2>1. task' \in [Task -> TaskRecord]
    BY <1>11, ProcessPostCallJobDoes DEF Moves
  <2> QED
    BY <1>11, <2>1 DEF ProcessPostCallJob, TypeOK, TaskRecord
<1>12. ASSUME NEW f \in Finalizer, FinalizeLiveTranscript(f)
       PROVE  TypeOK'
  <2>1. row' \in RowRecord /\ task' \in [Task -> TaskRecord]
    BY <1>12, <1>1, <1>2, <1>3, FinalizeLiveTranscriptDoes DEF Moves, Status
  <2> QED
    BY <1>12, <2>1 DEF FinalizeLiveTranscript, TypeOK, TaskRecord, RowRecord
<1>13. ASSUME NEW t \in Task, PersistFinal(t)
       PROVE  TypeOK'
  <2>1. row.segs \cup task[t].plan \in SUBSET Segment /\ "final" \in Status
    BY <1>1, <1>3 DEF Status
  <2>2. row' \in RowRecord
    BY <1>13, <1>1, <1>2, <1>3, <2>1, PersistFinalDoes, ZenonT(60)
  <2>3. task' \in [Task -> TaskRecord]
    BY <1>13, PersistFinalDoes DEF Moves
  <2> QED
    BY <1>13, <2>2, <2>3 DEF PersistFinal, TypeOK, TaskRecord, RowRecord
<1>14. ASSUME NEW t \in Task, Notify(t)
       PROVE  TypeOK'
  <2>1. /\ task' \in [Task -> TaskRecord] /\ delivered' \in BOOLEAN
        /\ posts' \in Seq([text : SUBSET Segment, ended : BOOLEAN])
    BY <1>14, <1>5, NotifyDoes DEF Moves, TypeOK
  <2> QED
    BY <1>14, <2>1 DEF Notify, TypeOK, TaskRecord
<1>15. ASSUME NEW t \in Task, Look(t)
       PROVE  TypeOK'
  <2>1. task' \in [Task -> TaskRecord]
    BY <1>15, LookDoes DEF Moves
  <2> QED
    BY <1>15, <2>1 DEF Look, TypeOK, TaskRecord
<1>16. ASSUME NEW t \in Task, MarkFailed(t)
       PROVE  TypeOK'
  <2>1. row' \in RowRecord /\ task' \in [Task -> TaskRecord]
    BY <1>16, <1>1, <1>2, <1>3, MarkFailedDoes DEF Moves, Status
  <2> QED
    BY <1>16, <2>1 DEF MarkFailed, TypeOK, TaskRecord, RowRecord
<1>17. ASSUME NEW t \in Task, PostUnanswered(t)
       PROVE  TypeOK'
  <2>1. task' \in [Task -> TaskRecord]
    BY <1>17, GotoMoves DEF PostUnanswered, Moves
  <2>2. posts' \in Seq([text : SUBSET Segment, ended : BOOLEAN])
    BY <1>17, <1>5 DEF PostUnanswered, TypeOK
  <2> QED
    BY <1>17, <2>1, <2>2 DEF PostUnanswered, TypeOK, TaskRecord
<1>18. ASSUME NEW t \in Task, Fail(t)
       PROVE  TypeOK'
  <2>1. task' \in [Task -> TaskRecord]
    BY <1>18, FailDoes
  <2> QED
    BY <1>18, <2>1 DEF Fail, TypeOK, TaskRecord
<1>19. CASE WorkerCrash
  <2>1. task' \in [Task -> TaskRecord]
    BY <1>19, WorkerCrashDoes
  <2> QED
    BY <1>19, <2>1 DEF WorkerCrash, TypeOK, TaskRecord
<1>20. CASE UNCHANGED vars
  BY <1>20 DEF vars, TypeOK
<1> QED
  BY <1>6, <1>7, <1>8, <1>9, <1>10, <1>11, <1>12, <1>13, <1>14, <1>15, <1>16,
     <1>17, <1>18, <1>19, <1>20 DEF Next

\* The variables of PostCall have their types.
THEOREM PostCallTypes == Spec => []TypeOK
<1>1. TypeOK /\ [Next]_vars => TypeOK'
  BY TypeStep
<1> QED
  BY <1>1, TypeInit, PTL DEF Spec

-----------------------------------------------------------------------------
(* Nothing missing from a final transcript.                                *)

\* What PostCallJobs assumes too: a draft is neither late nor lost.
DraftsSucceed == ~LateDrafts /\ FailAt \cap Drafting = {}

\* All that was heard, or the transcription in its place, or both.
Complete(S) == S \in {live, {Recording}, live \cup {Recording}}

\* Which steps there are for each kind of task.
PcOK ==
  /\ \A u \in Utterance :
       /\ task[<<u, "draft">>].pc \in Drafting \cup {"idle", "done"}
       /\ task[<<u, "salvage">>].pc = "idle"
  /\ \A f \in Finalizer :
       /\ task[<<f, "job">>].pc \in Jobbing \cup Live \cup Persisting \cup Notifying
                                      \cup {"idle", "done"}
       /\ \A k \in {"first", "second"} :
            task[<<f, k>>].pc \in Salvaging \cup Persisting \cup Notifying
                                    \cup {"idle", "done"}

\* During the call only drafts are written, one for each utterance.
DraftsOK ==
  /\ \A u \in Utterance :
       LET pc == task[<<u, "draft">>].pc
       IN /\ u \in live <=> pc # "idle"
          /\ ended => pc \in {"idle", "done"}
          /\ pc \notin {"idle", "draftUpsert"} => row.status # "none"
          /\ ~ended /\ pc \in {"draftRead", "draftWrite", "done"} => u \in row.segs
  /\ ~ended => /\ row.segs \subseteq live
               /\ row.status \in {"none", "draft"}
               /\ \A t \in Task : t[2] # "draft" => task[t].pc = "idle"

\* After it, the segments are all there or deleted, and what a task is going to
\* write is complete.
RewritesOK ==
  ended /\ live # {} =>
    /\ row.segs = {} \/ Complete(row.segs)
    /\ row.status # "none"
    /\ \A t \in Task : task[t].pc \in Persisting => Complete(task[t].plan)

\* A final text has every utterance of the call, or is the recording's.
FinalIsComplete ==
  ended /\ live # {} /\ row.status = "final" => Complete(row.content)

\* What NothingMissing rests on.
CompleteInv == TypeOK /\ PcOK /\ DraftsOK /\ RewritesOK /\ FinalIsComplete

\* It holds before the call has begun.
LEMMA CompleteInit == Init => CompleteInv
<1> SUFFICES ASSUME Init PROVE CompleteInv
  OBVIOUS
<1>1. TypeOK
  BY TypeInit
<1>2. \A t \in Task : task[t].pc = "idle"
  BY DEF Init, Idle
<1> QED
  BY <1>1, <1>2, Tasks
     DEF Init, CompleteInv, PcOK, DraftsOK, RewritesOK, FinalIsComplete

\* The tasks that write, look or notify belong to a finalizer, and run when the
\* call is over.
LEMMA Writers ==
  ASSUME PcOK, DraftsOK, NEW t \in Task,
         task[t].pc \in Persisting \cup Salvaging \cup Notifying
  PROVE  /\ ended
         /\ \E f \in Finalizer : t \in {<<f, "job">>, <<f, "first">>, <<f, "second">>}
<1>1. \/ \E u \in Utterance : t = <<u, "draft">> \/ t = <<u, "salvage">>
      \/ \E f \in Finalizer : t \in {<<f, "job">>, <<f, "first">>, <<f, "second">>}
  BY DEF Task
<1>2. ASSUME NEW u \in Utterance, t = <<u, "draft">> \/ t = <<u, "salvage">>
      PROVE  FALSE
  BY <1>2 DEF PcOK, Drafting, Persisting, Salvaging, Notifying
<1>3. ASSUME ~ended, NEW f \in Finalizer,
             t \in {<<f, "job">>, <<f, "first">>, <<f, "second">>}
      PROVE  FALSE
  BY <1>3 DEF DraftsOK, Persisting, Salvaging, Notifying
<1> QED
  BY <1>1, <1>2, <1>3

\* A step after the call keeps what was said of the drafts.
LEMMA AfterTheCall ==
  ASSUME CompleteInv, ended, ended' = ended, live' = live,
         row.status # "none" => row'.status # "none",
         \A u \in Utterance : task'[<<u, "draft">>] = task[<<u, "draft">>]
  PROVE  DraftsOK'
BY DEF CompleteInv, DraftsOK

\* One task of a finalizer moves within the steps of its kind.
LEMMA MovesWithin ==
  ASSUME CompleteInv, NEW f \in Finalizer, NEW k \in {"job", "first", "second"},
         NEW pc \in Persisting \cup Notifying \cup {"done"}
                      \cup (IF k = "job" THEN Jobbing \cup Live ELSE Salvaging),
         NEW plan, Moves(<<f, k>>, pc, plan)
  PROVE  /\ PcOK'
         /\ \A u \in Utterance : task'[<<u, "draft">>] = task[<<u, "draft">>]
<1>1. <<f, k>> \in Task
  BY Tasks
<1>2. /\ task'[<<f, k>>].pc = pc
      /\ \A x \in Task : x # <<f, k>> => task'[x] = task[x]
  BY <1>1 DEF Moves
<1>3. \A u \in Utterance : /\ task'[<<u, "draft">>] = task[<<u, "draft">>]
                           /\ task'[<<u, "salvage">>] = task[<<u, "salvage">>]
  BY <1>2, Tasks
<1>4. \A g \in Finalizer, j \in {"job", "first", "second"} :
        <<g, j>> # <<f, k>> => task'[<<g, j>>] = task[<<g, j>>]
  BY <1>2, Tasks
<1> QED
  BY <1>2, <1>3, <1>4, ZenonT(60) DEF CompleteInv, PcOK

\* The job loads the live segments or transcribes the recording: it writes all
\* of the one or the other.
LEMMA WritesWhole ==
  ASSUME TypeOK, RewritesOK, ended, NEW f \in Finalizer, ProcessPostCallJob(f)
  PROVE  \E pc, plan :
           /\ pc \in {"upsert", "transcribe"} /\ Moves(<<f, "job">>, pc, plan)
           /\ live # {} /\ pc = "upsert" => Whole(plan)
<1> DEFINE t == <<f, "job">>
<1>1. CASE task[t].pc = "load" /\ Timeline # {} /\ Moves(t, "upsert", Timeline)
  <2>1. live # {} => row.segs # {} /\ Complete(row.segs)
    BY <1>1 DEF RewritesOK, Timeline
  <2>2. live # {} => Timeline = live
    BY <1>1, <2>1, PostCallAssumption DEF TypeOK, Timeline, Complete
  <2> QED
    BY <1>1, <2>2 DEF Whole
<1>2. CASE task[t].pc = "load" /\ Moves(t, "transcribe", task[t].plan)
  BY <1>2
<1>3. CASE \E heard \in Transcriptions : Moves(t, "upsert", heard)
  BY <1>3 DEF Transcriptions, Whole
<1> QED
  BY <1>1, <1>2, <1>3, ProcessPostCallJobDoes

\* The task k of f fails and leaves salvages behind, if it is a job.
FailsAs(t, f, k) ==
  /\ ended /\ t = <<f, k>> /\ task[t].pc \in Steps \ Drafting
  /\ IF k = "job" THEN task'[t].pc = "done" ELSE task'[t].pc \in {"fail", "done"}
  /\ task'[t].plan = task[t].plan
  /\ \A x \in Task : \/ x = t
                     \/ task'[x] = task[x]
                     \/ /\ postCall /\ x \in {<<f, "first">>, <<f, "second">>}
                        /\ task'[x] = Salvage(x)
  /\ k = "job" /\ task[t].pc \in {"load", "transcribe"} \cup Persisting /\ postCall =>
       task'[<<f, "first">>] = Salvage(<<f, "first">>)

\* With drafts that succeed, only a task of a finalizer fails.
LEMMA FailIs ==
  ASSUME DraftsSucceed, CompleteInv, NEW t \in Task, Fail(t)
  PROVE  \E f \in Finalizer, k \in {"job", "first", "second"} : FailsAs(t, f, k)
<1> TypeOK /\ PcOK /\ DraftsOK
  BY DEF CompleteInv
<1>1. task[t].pc \in Steps \ Drafting
  BY PostCallAssumption DEF DraftsSucceed, Fail
<1>2. PICK f \in Finalizer, k \in {"job", "first", "second"} : t = <<f, k>>
  <2>1. ASSUME NEW u \in Utterance, t = <<u, "draft">> \/ t = <<u, "salvage">>
        PROVE  FALSE
    BY <1>1, <2>1 DEF PcOK, Steps, Drafting, Persisting, Notifying, Jobbing, Live, Salvaging
  <2> QED
    BY <2>1 DEF Task
<1>3. ended
  BY <1>1, <1>2 DEF DraftsOK, Steps, Drafting, Persisting, Notifying, Jobbing, Live, Salvaging
<1>4. t[2] = k /\ t[1] = f
  BY <1>2
<1>5. /\ IF k = "job" THEN task'[t].pc = "done" ELSE task'[t].pc \in {"fail", "done"}
      /\ task'[t].plan = task[t].plan
  BY <1>4, FailDoes
<1>6. /\ Salvages(t) \subseteq {<<f, "first">>, <<f, "second">>}
      /\ Salvages(t) # {} => postCall
      /\ k = "job" /\ task[t].pc \in {"load", "transcribe"} \cup Persisting /\ postCall =>
           <<f, "first">> \in Salvages(t)
  BY <1>4 DEF Salvages
<1>7. \A x \in Task : \/ x = t
                      \/ task'[x] = task[x]
                      \/ /\ postCall /\ x \in {<<f, "first">>, <<f, "second">>}
                         /\ task'[x] = Salvage(x)
  BY <1>6, FailDoes
<1>8. k = "job" /\ task[t].pc \in {"load", "transcribe"} \cup Persisting /\ postCall =>
        task'[<<f, "first">>] = Salvage(<<f, "first">>)
  BY <1>2, <1>6, FailDoes, Tasks
<1> QED
  BY <1>1, <1>2, <1>3, <1>5, <1>7, <1>8 DEF FailsAs

\* A step keeps a final transcript complete.
LEMMA CompleteStep ==
  ASSUME DraftsSucceed, CompleteInv, [Next]_vars
  PROVE  CompleteInv'
<1> TypeOK /\ PcOK /\ DraftsOK /\ RewritesOK /\ FinalIsComplete
  BY DEF CompleteInv
<1>0. TypeOK'
  BY TypeStep
<1> USE DEF config
<1>1. ASSUME NEW u \in Utterance, HandleRealtimeCompleted(u)
      PROVE  CompleteInv'
  <2> DEFINE t == <<u, "draft">>
  <2>1. t \in Task /\ Moves(t, "draftUpsert", task[t].plan)
    BY <1>1, Tasks, GotoMoves DEF HandleRealtimeCompleted, Steps, Drafting
  <2>2. /\ task'[t].pc = "draftUpsert"
        /\ \A x \in Task : x # t => task'[x] = task[x]
    BY <2>1 DEF Moves
  <2>3. ~ended /\ ended' = ended /\ live' = live \cup {u} /\ row' = row
    BY <1>1 DEF HandleRealtimeCompleted
  <2>4. PcOK'
    BY <2>2, Tasks DEF PcOK, Drafting
  <2>5. \A v \in Utterance : v # u => task'[<<v, "draft">>] = task[<<v, "draft">>]
    BY <2>2, Tasks
  <2>6. \A x \in Task : x[2] # "draft" => task'[x] = task[x]
    BY <2>2
  <2>7. DraftsOK'
    BY <2>2, <2>3, <2>5, <2>6 DEF DraftsOK
  <2> QED
    BY <1>0, <2>3, <2>4, <2>7 DEF CompleteInv, RewritesOK, FinalIsComplete
<1>2. CASE EndCall
  <2>1. /\ ~ended /\ ended' = TRUE /\ live' = live /\ row' = row /\ task' = task
        /\ \A u \in Utterance : ~Busy(<<u, "draft">>)
    BY <1>2 DEF EndCall, DraftsSucceed
  <2>2. \A u \in Utterance : task[<<u, "draft">>].pc \in {"idle", "done"}
    BY <2>1 DEF PcOK, Busy, Steps
  <2>3. \A u \in live : u \in row.segs /\ row.status # "none"
    BY <2>1, <2>2 DEF DraftsOK, TypeOK
  <2>4. row.segs = live /\ row.status # "final"
    BY <2>1, <2>3 DEF DraftsOK
  <2>5. \A t \in Task : task[t].pc \notin Persisting
    BY <2>1, Writers
  <2>6. PcOK' /\ DraftsOK'
    BY <2>1, <2>2 DEF PcOK, DraftsOK
  <2>7. RewritesOK' /\ FinalIsComplete'
    BY <2>1, <2>3, <2>4, <2>5 DEF RewritesOK, FinalIsComplete, Complete
  <2> QED
    BY <1>0, <2>6, <2>7 DEF CompleteInv
<1>3. ASSUME NEW f \in Finalizer, Finalize(f)
      PROVE  CompleteInv'
  <2> DEFINE t == <<f, "job">>
             pc == IF postCall THEN "mark" ELSE "live"
  <2>1. t \in Task /\ pc \in Jobbing \cup Live /\ pc \in Steps
    BY Tasks DEF Jobbing, Live, Steps
  <2>2. Moves(t, pc, task[t].plan)
    BY <1>3, <2>1, GotoMoves DEF Finalize
  <2>3. ended /\ ended' = ended /\ live' = live /\ row' = row
    BY <1>3 DEF Finalize
  <2>4. PcOK' /\ \A u \in Utterance : task'[<<u, "draft">>] = task[<<u, "draft">>]
    BY <2>1, <2>2, MovesWithin
  <2>5. DraftsOK'
    BY <2>3, <2>4, AfterTheCall
  <2>6. \A x \in Task : task'[x].pc \in Persisting => task'[x] = task[x]
    BY <2>2 DEF Moves, Persisting
  <2> QED
    BY <1>0, <2>3, <2>4, <2>5, <2>6 DEF CompleteInv, RewritesOK, FinalIsComplete, Complete
<1>4. ASSUME NEW u \in Utterance, PersistDraft(u)
      PROVE  CompleteInv'
  <2> DEFINE t == <<u, "draft">>
  <2>1. t \in Task /\ task[t].pc \in Drafting
    BY <1>4, Tasks DEF PersistDraft, Drafting
  <2>2. ~ended /\ ended' = ended /\ live' = live /\ u \in live
    BY <1>4, <2>1 DEF PersistDraft, DraftsOK, Drafting
  <2>3. PICK pc, plan :
          pc \in {"draftCreate", "draftRead", "draftWrite", "done"} /\ Moves(t, pc, plan)
    <3>1. \/ \E plan : Moves(t, "draftCreate", plan)
          \/ \E plan : Moves(t, "draftRead", plan)
          \/ \E plan : Moves(t, "draftWrite", plan)
          \/ \E plan : Moves(t, "done", plan)
      BY <1>4, PersistDraftDoes
    <3> QED
      BY <3>1
  <2>4. /\ task'[t].pc = pc
        /\ \A x \in Task : x # t => task'[x] = task[x]
    BY <2>1, <2>3 DEF Moves
  <2>5. PcOK'
    BY <2>3, <2>4, Tasks DEF PcOK, Drafting
  <2>6. \A v \in Utterance : v # u => task'[<<v, "draft">>] = task[<<v, "draft">>]
    BY <2>4, Tasks
  <2>7. /\ row'.segs \subseteq live /\ row.segs \subseteq row'.segs
        /\ row'.status \in {"draft", row.status}
        /\ pc \in {"draftRead", "draftWrite", "done"} => u \in row'.segs
        /\ row'.status # "none"
    <3>1. /\ task[t].pc # "draftUpsert" => row.status # "none"
          /\ task[t].pc \in {"draftRead", "draftWrite"} => u \in row.segs
          /\ row.segs \subseteq live
      BY <2>1, <2>2 DEF DraftsOK, Drafting
    <3>2. \/ /\ task[t].pc = "draftUpsert" /\ task'[t].pc = "draftCreate"
             /\ row'.status = "draft" /\ row'.segs = row.segs
          \/ /\ task[t].pc = "draftCreate" /\ task'[t].pc = "draftRead"
             /\ row'.status = row.status /\ row'.segs = row.segs \cup {u}
          \/ /\ task[t].pc = "draftRead" /\ task'[t].pc = "draftWrite"
             /\ row'.status = row.status /\ row'.segs = row.segs
          \/ /\ task[t].pc = "draftWrite" /\ task'[t].pc = "done"
             /\ row'.status = row.status /\ row'.segs = row.segs
      <4>1. \/ /\ task[t].pc = "draftUpsert" /\ Moves(t, "draftCreate", task[t].plan)
               /\ \E content : row' = Row("draft", content, row.segs)
            \/ /\ task[t].pc = "draftCreate" /\ Moves(t, "draftRead", task[t].plan)
               /\ row' = Row(row.status, row.content, row.segs \cup {u})
            \/ /\ task[t].pc = "draftRead" /\ Moves(t, "draftWrite", row.segs)
               /\ row' = row
            \/ /\ task[t].pc = "draftWrite" /\ Moves(t, "done", task[t].plan)
               /\ row' = Row(row.status, task[t].plan, row.segs)
        BY <1>4, PersistDraftDoes
      <4>2. \A to, p : Moves(t, to, p) => task'[t].pc = to
        BY DEF Moves
      <4> HIDE DEF t
      <4> QED
        BY <4>1, <4>2, RowFields
    <3> QED
      BY <2>2, <2>4, <3>1, <3>2
  <2>8. DraftsOK'
    BY <2>2, <2>3, <2>4, <2>6, <2>7 DEF DraftsOK
  <2> QED
    BY <1>0, <2>2, <2>5, <2>8 DEF CompleteInv, RewritesOK, FinalIsComplete
<1>5. ASSUME NEW f \in Finalizer, Enqueue(f)
      PROVE  CompleteInv'
  <2> DEFINE t == <<f, "job">>
  <2>1. t \in Task /\ task[t].pc # "idle"
    BY <1>5, Tasks DEF Enqueue
  <2>2. ended /\ ended' = ended /\ live' = live
    BY <1>5, <2>1 DEF Enqueue, DraftsOK
  <2>3. PICK pc, plan : pc \in Jobbing /\ Moves(t, pc, plan)
    BY <1>5, EnqueueDoes DEF Jobbing
  <2>4. PcOK' /\ \A u \in Utterance : task'[<<u, "draft">>] = task[<<u, "draft">>]
    BY <2>3, MovesWithin
  <2>5. /\ row'.segs = row.segs
        /\ row' = row \/ row'.status = "processing"
    <3>1. row' = Row("processing", row.content, row.segs) \/ row' = row
      BY <1>5, EnqueueDoes
    <3> QED
      BY <3>1, RowFields
  <2>6. DraftsOK'
    BY <2>2, <2>4, <2>5, AfterTheCall
  <2>7. \A x \in Task : task'[x].pc \in Persisting => task'[x] = task[x]
    BY <2>3 DEF Moves, Persisting, Jobbing
  <2> QED
    BY <1>0, <2>2, <2>4, <2>5, <2>6, <2>7
       DEF CompleteInv, RewritesOK, FinalIsComplete, Complete
<1>6. ASSUME NEW f \in Finalizer, ProcessPostCallJob(f)
      PROVE  CompleteInv'
  <2> DEFINE t == <<f, "job">>
  <2>1. t \in Task /\ task[t].pc # "idle"
    BY <1>6, Tasks DEF ProcessPostCallJob
  <2>2. ended /\ ended' = ended /\ live' = live /\ row' = row
    BY <1>6, <2>1 DEF ProcessPostCallJob, DraftsOK
  <2>3. PICK pc, plan :
          /\ pc \in {"upsert", "transcribe"} /\ Moves(t, pc, plan)
          /\ live # {} /\ pc = "upsert" => plan \in {live, {Recording}}
    BY <1>6, <2>2, WritesWhole DEF Whole
  <2>4. PcOK' /\ \A u \in Utterance : task'[<<u, "draft">>] = task[<<u, "draft">>]
    BY <2>3, MovesWithin DEF Persisting, Jobbing
  <2>5. DraftsOK'
    BY <2>2, <2>4, AfterTheCall
  <2>6. \A x \in Task : live # {} /\ task'[x].pc \in Persisting =>
          task'[x] = task[x] \/ Complete(task'[x].plan)
    BY <2>3, <2>1 DEF Moves, Persisting, Complete
  <2> QED
    BY <1>0, <2>2, <2>4, <2>5, <2>6
       DEF CompleteInv, RewritesOK, FinalIsComplete, Complete
<1>7. ASSUME NEW f \in Finalizer, FinalizeLiveTranscript(f)
      PROVE  CompleteInv'
  <2> DEFINE t == <<f, "job">>
  <2>1. t \in Task /\ task[t].pc # "idle"
    BY <1>7, Tasks DEF FinalizeLiveTranscript
  <2>2. ended /\ ended' = ended /\ live' = live
    BY <1>7, <2>1 DEF FinalizeLiveTranscript, DraftsOK
  <2>3. PICK pc, plan :
          /\ pc \in {"upsert", "liveWrite", "liveSegments", "notify"}
          /\ Moves(t, pc, plan)
          /\ pc = "upsert" => plan = live
    BY <1>7, FinalizeLiveTranscriptDoes
  <2>4. PcOK' /\ \A u \in Utterance : task'[<<u, "draft">>] = task[<<u, "draft">>]
    BY <2>3, MovesWithin DEF Persisting, Live, Notifying
  <2>5. /\ row'.segs = row.segs
        /\ \/ row' = row
           \/ row'.status = "final" /\ (live = {} \/ row'.content = live)
    <3>1. \/ row' = row
          \/ live # {} /\ row' = Row("final", live, row.segs)
          \/ live = {} /\ row' = Row("final", row.content, row.segs)
      BY <1>7, FinalizeLiveTranscriptDoes
    <3> QED
      BY <3>1, RowFields
  <2>6. DraftsOK'
    BY <2>2, <2>4, <2>5, AfterTheCall
  <2>7. \A x \in Task : task'[x].pc \in Persisting =>
          task'[x] = task[x] \/ Complete(task'[x].plan)
    BY <2>1, <2>3 DEF Moves, Persisting, Complete
  <2> QED
    BY <1>0, <2>2, <2>4, <2>5, <2>6, <2>7
       DEF CompleteInv, RewritesOK, FinalIsComplete, Complete
<1>8. ASSUME NEW t \in Task, PersistFinal(t)
      PROVE  CompleteInv'
  <2>1. ended' = ended /\ live' = live /\ task[t].pc \in Persisting
    BY <1>8 DEF PersistFinal, Persisting
  <2>2. PICK f \in Finalizer : \E k \in {"job", "first", "second"} : t = <<f, k>>
    BY <2>1, Writers
  <2>3. PICK k \in {"job", "first", "second"} : t = <<f, k>>
    BY <2>2
  <2>4. ended
    BY <2>1, Writers
  <2>5. PICK pc \in {"delete", "create", "notify"} : Moves(t, pc, task[t].plan)
    BY <1>8, PersistFinalDoes
  <2>6. PcOK' /\ \A u \in Utterance : task'[<<u, "draft">>] = task[<<u, "draft">>]
    BY <2>3, <2>5, MovesWithin DEF Persisting, Notifying
  <2>7. live # {} => Complete(task[t].plan)
    BY <2>1, <2>4 DEF RewritesOK
  <2>8. \/ row' = Row("final", task[t].plan, row.segs)
        \/ row' = Row(row.status, row.content, {})
        \/ row' = Row(row.status, row.content, row.segs \cup task[t].plan)
    BY <1>8, PersistFinalDoes
  <2>9. DraftsOK'
    BY <2>1, <2>4, <2>6, <2>8, RowFields, AfterTheCall
  <2>10. live # {} => row'.segs = {} \/ Complete(row'.segs)
    <3>1. live # {} /\ (row.segs = {} \/ Complete(row.segs)) =>
            Complete(row.segs \cup task[t].plan)
      BY <2>7 DEF Complete
    <3> QED
      BY <2>4, <2>8, <3>1, RowFields DEF RewritesOK
  <2>11. live # {} /\ row'.status = "final" => Complete(row'.content)
    BY <2>4, <2>7, <2>8, RowFields DEF FinalIsComplete
  <2>12. live # {} => row'.status # "none"
    BY <2>4, <2>8, RowFields DEF RewritesOK
  <2>13. live # {} => \A x \in Task : task'[x].pc \in Persisting => Complete(task'[x].plan)
    BY <2>4, <2>5, <2>7 DEF RewritesOK, Moves
  <2>14. RewritesOK'
    BY <2>1, <2>10, <2>12, <2>13 DEF RewritesOK, Complete
  <2>15. FinalIsComplete'
    BY <2>1, <2>11 DEF FinalIsComplete, Complete
  <2> QED
    BY <1>0, <2>6, <2>9, <2>14, <2>15 DEF CompleteInv
<1>9. ASSUME NEW t \in Task, Notify(t)
      PROVE  CompleteInv'
  <2>1. /\ ended' = ended /\ live' = live /\ row' = row
        /\ task[t].pc \in Notifying
    BY <1>9 DEF Notify, Notifying
  <2>2. PICK f \in Finalizer : \E k \in {"job", "first", "second"} : t = <<f, k>>
    BY <2>1, Writers
  <2>3. PICK k \in {"job", "first", "second"} : t = <<f, k>>
    BY <2>2
  <2>4. ended
    BY <2>1, Writers
  <2>5. PICK pc, plan : pc \in {"post", "record", "done"} /\ Moves(t, pc, plan)
    <3>1. \/ \E plan : Moves(t, "post", plan)
          \/ \E plan : Moves(t, "record", plan)
          \/ \E plan : Moves(t, "done", plan)
      BY <1>9, NotifyDoes
    <3> QED
      BY <3>1
  <2>6. PcOK' /\ \A u \in Utterance : task'[<<u, "draft">>] = task[<<u, "draft">>]
    BY <2>3, <2>5, MovesWithin DEF Notifying
  <2>7. DraftsOK'
    BY <2>1, <2>4, <2>6, AfterTheCall
  <2>8. \A x \in Task : task'[x].pc \in Persisting => task'[x] = task[x]
    BY <2>5 DEF Moves, Persisting
  <2> QED
    BY <1>0, <2>1, <2>4, <2>6, <2>7, <2>8
       DEF CompleteInv, RewritesOK, FinalIsComplete, Complete
<1>10. ASSUME NEW t \in Task, Look(t)
       PROVE  CompleteInv'
  <2>1. /\ ended' = ended /\ live' = live /\ row' = row
        /\ task[t].pc \in Salvaging /\ task[t].pc = "look"
    BY <1>10 DEF Look, Salvaging
  <2>2. PICK f \in Finalizer : \E k \in {"job", "first", "second"} : t = <<f, k>>
    BY <2>1, Writers
  <2>3. PICK k \in {"first", "second"} : t = <<f, k>>
    BY <2>1, <2>2 DEF PcOK, Jobbing, Live, Persisting, Notifying
  <2>4. ended
    BY <2>1, Writers
  <2>5. PICK pc, plan :
          /\ pc \in {"upsert", "fail"} /\ Moves(t, pc, plan)
          /\ pc = "upsert" => row.segs # {} /\ plan = row.segs
    BY <1>10, LookDoes
  <2>6. PcOK' /\ \A u \in Utterance : task'[<<u, "draft">>] = task[<<u, "draft">>]
    BY <2>3, <2>5, MovesWithin DEF Persisting, Salvaging
  <2>7. DraftsOK'
    BY <2>1, <2>4, <2>6, AfterTheCall
  <2>8. live # {} => \A x \in Task : task'[x].pc \in Persisting => Complete(task'[x].plan)
    BY <2>4, <2>5 DEF Moves, Persisting, RewritesOK
  <2>9. RewritesOK' /\ FinalIsComplete'
    BY <2>1, <2>4, <2>8 DEF RewritesOK, FinalIsComplete, Complete
  <2> QED
    BY <1>0, <2>6, <2>7, <2>9 DEF CompleteInv
<1>11. ASSUME NEW t \in Task, MarkFailed(t)
       PROVE  CompleteInv'
  <2>1. ended' = ended /\ live' = live /\ task[t].pc \in Salvaging /\ task[t].pc = "fail"
    BY <1>11 DEF MarkFailed, Salvaging
  <2>2. PICK f \in Finalizer : \E k \in {"job", "first", "second"} : t = <<f, k>>
    BY <2>1, Writers
  <2>3. PICK k \in {"job", "first", "second"} : t = <<f, k>>
    BY <2>2
  <2>4. ended
    BY <2>1, Writers
  <2>5. /\ Moves(t, "notify", task[t].plan)
        /\ row' = Row("failed", row.content, row.segs)
    BY <1>11, MarkFailedDoes
  <2>6. PcOK' /\ \A u \in Utterance : task'[<<u, "draft">>] = task[<<u, "draft">>]
    BY <2>3, <2>5, MovesWithin DEF Notifying
  <2>7. row'.segs = row.segs /\ row'.status = "failed"
    BY <2>5, RowFields
  <2>8. DraftsOK'
    BY <2>1, <2>4, <2>6, <2>7, AfterTheCall
  <2>9. \A x \in Task : task'[x].pc \in Persisting => task'[x] = task[x]
    BY <2>5 DEF Moves, Persisting
  <2>10. RewritesOK' /\ FinalIsComplete'
    BY <2>1, <2>4, <2>7, <2>9 DEF RewritesOK, FinalIsComplete, Complete
  <2> QED
    BY <1>0, <2>6, <2>8, <2>10 DEF CompleteInv
<1>12. ASSUME NEW t \in Task, PostUnanswered(t)
       PROVE  CompleteInv'
  <2>1. /\ ended' = ended /\ live' = live /\ row' = row
        /\ task[t].pc \in Notifying /\ Goto(t, "done")
    BY <1>12 DEF PostUnanswered, Notifying
  <2>2. PICK f \in Finalizer : \E k \in {"job", "first", "second"} : t = <<f, k>>
    BY <2>1, Writers
  <2>3. PICK k \in {"job", "first", "second"} : t = <<f, k>>
    BY <2>2
  <2>4. ended
    BY <2>1, Writers
  <2>5. Moves(t, "done", task[t].plan)
    BY <2>1, GotoMoves
  <2>6. PcOK' /\ \A u \in Utterance : task'[<<u, "draft">>] = task[<<u, "draft">>]
    BY <2>3, <2>5, MovesWithin
  <2>7. DraftsOK'
    BY <2>1, <2>4, <2>6, AfterTheCall
  <2>8. \A x \in Task : task'[x].pc \in Persisting => task'[x] = task[x]
    BY <2>5 DEF Moves, Persisting
  <2> QED
    BY <1>0, <2>1, <2>4, <2>6, <2>7, <2>8
       DEF CompleteInv, RewritesOK, FinalIsComplete, Complete
<1>13. ASSUME NEW t \in Task, Fail(t)
       PROVE  CompleteInv'
  <2>1. ended' = ended /\ live' = live /\ row' = row
    BY <1>13 DEF Fail
  <2>2. PICK f \in Finalizer, k \in {"job", "first", "second"} : FailsAs(t, f, k)
    BY <1>13, FailIs
  <2>3. ended /\ t = <<f, k>>
    BY <2>2 DEF FailsAs
  <2>4. \A x \in Task : \/ x = t
                        \/ task'[x] = task[x]
                        \/ /\ x \in {<<f, "first">>, <<f, "second">>}
                           /\ task'[x] = Salvage(x)
    BY <2>2 DEF FailsAs
  <2>5. \A x : /\ Salvage(x).pc \in {"upsert", "look"}
               /\ Salvage(x).pc = "upsert" => Salvage(x).plan = live
    BY DEF Salvage, Heard
  <2>6. IF k = "job" THEN task'[t].pc = "done" ELSE task'[t].pc \in {"fail", "done"}
    BY <2>2 DEF FailsAs
  <2>7. PcOK'
    BY <2>3, <2>4, <2>5, <2>6, Tasks DEF PcOK, Persisting, Salvaging
  <2>8. \A u \in Utterance : task'[<<u, "draft">>] = task[<<u, "draft">>]
    BY <2>3, <2>4, Tasks
  <2>9. DraftsOK'
    BY <2>1, <2>3, <2>8, AfterTheCall
  <2>10. live # {} => \A x \in Task : task'[x].pc \in Persisting => Complete(task'[x].plan)
    BY <2>3, <2>4, <2>5, <2>6 DEF RewritesOK, Persisting, Complete
  <2>11. RewritesOK' /\ FinalIsComplete'
    BY <2>1, <2>3, <2>10 DEF RewritesOK, FinalIsComplete, Complete
  <2> QED
    BY <1>0, <2>7, <2>9, <2>11 DEF CompleteInv
<1>14. CASE WorkerCrash
  <2>1. ended' = ended /\ live' = live /\ row' = row
    BY <1>14 DEF WorkerCrash
  <2>2. \A u \in Utterance : /\ task'[<<u, "draft">>] = task[<<u, "draft">>]
                             /\ task'[<<u, "salvage">>] = task[<<u, "salvage">>]
    BY <1>14, WorkerCrashDoes, Tasks, PostCallAssumption DEF OnWorker
  <2>3. \A f \in Finalizer, k \in {"job", "first", "second"} :
          \/ task'[<<f, k>>] = task[<<f, k>>]
          \/ /\ task[<<f, k>>].pc # "idle"
             /\ task'[<<f, k>>].pc = IF k = "job" THEN "load" ELSE "done"
    <3> SUFFICES ASSUME NEW f \in Finalizer, NEW k \in {"job", "first", "second"},
                        task'[<<f, k>>] # task[<<f, k>>]
                 PROVE  /\ task[<<f, k>>].pc # "idle"
                        /\ task'[<<f, k>>].pc = IF k = "job" THEN "load" ELSE "done"
      OBVIOUS
    <3>1. <<f, k>> \in Task /\ <<f, k>>[2] = k
      BY Tasks
    <3>2. /\ Busy(<<f, k>>)
          /\ task'[<<f, k>>].pc = IF <<f, k>>[2] = "job" THEN "load" ELSE "done"
      BY <1>14, <3>1, WorkerCrashDoes
    <3> QED
      BY <3>1, <3>2
         DEF Busy, Steps, Drafting, Persisting, Notifying, Jobbing, Live, Salvaging
  <2>4. PcOK'
    BY <2>2, <2>3 DEF PcOK, Jobbing
  <2>5. DraftsOK'
    <3>1. CASE ended
      BY <2>1, <2>2, <3>1, AfterTheCall
    <3>2. CASE ~ended
      <4>1. \A x \in Task : x[2] # "draft" => task'[x] = task[x]
        BY <1>14, <3>2, WorkerCrashDoes
           DEF DraftsOK, Busy, Steps, Drafting, Persisting, Notifying, Jobbing, Live, Salvaging
      <4> QED
        BY <2>1, <2>2, <3>2, <4>1 DEF DraftsOK
    <3> QED
      BY <3>1, <3>2
  <2>6. \A x \in Task : task'[x].pc \in Persisting => task'[x] = task[x]
    BY <1>14, WorkerCrashDoes DEF Persisting
  <2> QED
    BY <1>0, <2>1, <2>4, <2>5, <2>6
       DEF CompleteInv, RewritesOK, FinalIsComplete, Complete
<1>15. CASE UNCHANGED vars
  <2>1. ended' = ended /\ live' = live /\ row' = row /\ task' = task
    BY <1>15 DEF vars
  <2>2. PcOK' /\ DraftsOK' /\ RewritesOK' /\ FinalIsComplete'
    BY <2>1 DEF PcOK, DraftsOK, RewritesOK, FinalIsComplete, Complete
  <2> QED
    BY <1>0, <2>2 DEF CompleteInv
<1> QED
  BY <1>1, <1>2, <1>3, <1>4, <1>5, <1>6, <1>7, <1>8, <1>9, <1>10, <1>11, <1>12,
     <1>13, <1>14, <1>15 DEF Next

\* However many uploads are finalized at once, and whatever fails after the
\* drafts, a transcript that is final after the call holds all that was heard
\* or the transcription of the recording (persistFinalSegments, the live path
\* and every salvage).
THEOREM NothingMissing == DraftsSucceed => (Spec => []FinalIsComplete)
<1> SUFFICES ASSUME DraftsSucceed PROVE Spec => []FinalIsComplete
  OBVIOUS
<1>1. CompleteInv => FinalIsComplete
  BY DEF CompleteInv
<1>2. CompleteInv /\ [Next]_vars => CompleteInv'
  BY CompleteStep
<1> QED
  BY <1>1, <1>2, CompleteInit, PTL DEF Spec

-----------------------------------------------------------------------------
(* What the partner is sent, and the segments that remain.                 *)

\* No call of this process runs its job on the worker.
InApi == integration \/ ~postCall

\* Salvages follow a failure, posts are for the integration, and the job of a
\* call takes the way its configuration says.
WaysOK ==
  /\ faults <= MaxFaults
  /\ \A f \in Finalizer : \A k \in {"first", "second"} :
       task[<<f, k>>].pc # "idle" => faults >= 1 /\ postCall
  /\ \A f \in Finalizer : /\ task[<<f, "job">>].pc \in Jobbing => postCall
                          /\ task[<<f, "job">>].pc \in Live => ~postCall
  /\ \A t \in Task : task[t].pc \in {"post", "record"} => integration
  /\ posts # <<>> => integration /\ ended
  /\ ~postCall /\ ended /\ live # {} =>
       row.segs # {} /\ \A t \in Task : task[t].pc \notin Persisting \cup Salvaging

\* A job in the API process never writes a mixture: its salvage has the live
\* list and need not look at the segments.
InApiIsWhole ==
  InApi /\ ended /\ live # {} =>
    /\ \A t \in Task : /\ task[t].pc \in Persisting => Whole(task[t].plan)
                       /\ task[t].pc # "look"
    /\ row.status = "final" => Whole(row.content)

\* What InApiFinalIsWhole rests on.
WholeInv == CompleteInv /\ WaysOK /\ InApiIsWhole

\* The steps of a task that has still to create the segments.
Rewriting == {"load", "transcribe", "look", "fail"} \cup Persisting

\* The steps of a task that has written the row.
Written == {"delete", "create", "liveSegments"} \cup Notifying

\* With one fault, nothing is notified before the row has been written, and a
\* task that deleted the segments or lost them is followed by one that creates.
ContentIsWhole ==
  integration /\ ended /\ live # {} =>
    /\ \A t \in Task :
         /\ task[t].pc # "fail"
         /\ task[t].pc \in Written => Whole(row.content)
         /\ task[t].pc = "post" => Whole(task[t].plan)
    /\ \A i \in DOMAIN posts : Whole(posts[i].text)

\* Segments that are deleted have a task to create them again.
SegmentsComing ==
  ended /\ live # {} /\ row.segs = {} /\ row.status = "final" =>
    \E t \in Task : task[t].pc \in Rewriting

\* What PartnerGetsTheWhole and SegmentsComeBack rest on.
OneFaultInv == WholeInv /\ ContentIsWhole /\ SegmentsComing

\* When the call ends, every utterance is a segment and no other task has begun.
LEMMA DraftsSaved ==
  ASSUME DraftsSucceed, CompleteInv, EndCall
  PROVE  /\ row.segs = live /\ row.status # "final"
         /\ \A t \in Task : task[t].pc \in {"idle", "done"} /\ task' = task
         /\ \A f \in Finalizer, k \in {"job", "first", "second"} :
              task[<<f, k>>].pc = "idle"
<1> TypeOK /\ PcOK /\ DraftsOK
  BY DEF CompleteInv
<1>1. ~ended /\ task' = task /\ \A u \in Utterance : ~Busy(<<u, "draft">>)
  BY DEF EndCall, DraftsSucceed
<1>2. \A u \in Utterance : task[<<u, "draft">>].pc \in {"idle", "done"}
  BY <1>1 DEF PcOK, Busy, Steps
<1>3. \A u \in live : u \in row.segs
  BY <1>1, <1>2 DEF DraftsOK, TypeOK
<1>4. \A f \in Finalizer, k \in {"job", "first", "second"} : task[<<f, k>>].pc = "idle"
  BY <1>1, Tasks DEF DraftsOK
<1>5. \A u \in Utterance : task[<<u, "salvage">>].pc = "idle"
  BY DEF PcOK
<1> QED
  BY <1>1, <1>2, <1>3, <1>4, <1>5 DEF DraftsOK, Task

\* One task of a finalizer moves in the way of its configuration.
LEMMA WaysMoves ==
  ASSUME WholeInv, NEW f \in Finalizer, NEW k \in {"job", "first", "second"},
         NEW pc, NEW plan, Moves(<<f, k>>, pc, plan),
         pc # "idle", task[<<f, k>>].pc # "idle" \/ k = "job",
         k = "job" => (pc \in Jobbing => postCall) /\ (pc \in Live => ~postCall),
         pc \in {"post", "record"} => integration,
         ~postCall /\ ended /\ live # {} =>
           row'.segs # {} /\ pc \notin Persisting \cup Salvaging,
         UNCHANGED <<config, ended, live>>,
         faults' \in Nat /\ faults <= faults' /\ faults' <= MaxFaults,
         posts' = posts \/ (integration /\ ended)
  PROVE  WaysOK'
<1> WaysOK /\ TypeOK
  BY DEF WholeInv, CompleteInv
<1> DEFINE t == <<f, k>>
<1>1. t \in Task /\ integration' = integration /\ postCall' = postCall
  BY Tasks DEF config
<1>2. task'[t].pc = pc /\ \A x \in Task : x # t => task'[x] = task[x]
  BY <1>1 DEF Moves
<1>3. \A g \in Finalizer, j \in {"job", "first", "second"} :
        <<g, j>> # t => task'[<<g, j>>] = task[<<g, j>>]
  BY <1>2, Tasks
<1>4. \A g \in Finalizer : \A j \in {"first", "second"} :
        task'[<<g, j>>].pc # "idle" => faults' >= 1 /\ postCall
  <2> SUFFICES ASSUME NEW g \in Finalizer, NEW j \in {"first", "second"},
                      task'[<<g, j>>].pc # "idle"
               PROVE  faults' >= 1 /\ postCall
    OBVIOUS
  <2>1. task[<<g, j>>].pc # "idle"
    <3>1. CASE <<g, j>> = t
      BY <3>1
    <3>2. CASE <<g, j>> # t
      BY <1>3, <3>2
    <3> QED
      BY <3>1, <3>2
  <2>2. faults >= 1 /\ postCall
    BY <2>1 DEF WaysOK
  <2> QED
    BY <2>2 DEF TypeOK
<1>5. \A g \in Finalizer : /\ task'[<<g, "job">>].pc \in Jobbing => postCall
                           /\ task'[<<g, "job">>].pc \in Live => ~postCall
  BY <1>2, <1>3 DEF WaysOK
<1>6. \A x \in Task : task'[x].pc \in {"post", "record"} => integration
  BY <1>2 DEF WaysOK
<1>7. posts' # <<>> => integration /\ ended
  BY DEF WaysOK
<1>8. ~postCall /\ ended /\ live # {} =>
        row'.segs # {} /\ \A x \in Task : task'[x].pc \notin Persisting \cup Salvaging
  BY <1>2 DEF WaysOK
<1>9. ended' = ended /\ live' = live /\ faults' <= MaxFaults
  OBVIOUS
<1> QED
  BY <1>1, <1>4, <1>5, <1>6, <1>7, <1>8, <1>9 DEF WaysOK

\* A job moves, and nothing fails or is posted.
LEMMA JobWays ==
  ASSUME WholeInv, NEW f \in Finalizer, NEW pc, NEW plan, Moves(<<f, "job">>, pc, plan),
         pc \notin {"idle", "post", "record"},
         pc \in Jobbing => postCall,
         pc \in Live => ~postCall,
         ~postCall /\ ended /\ live # {} =>
           row'.segs # {} /\ pc \notin Persisting \cup Salvaging,
         UNCHANGED <<config, ended, live, faults, posts>>
  PROVE  WaysOK'
<1> DEFINE k == "job"
<1>1. k \in {"job", "first", "second"} /\ Moves(<<f, k>>, pc, plan)
  OBVIOUS
<1>2. /\ pc # "idle" /\ (task[<<f, k>>].pc # "idle" \/ k = "job")
      /\ k = "job" => (pc \in Jobbing => postCall) /\ (pc \in Live => ~postCall)
      /\ pc \in {"post", "record"} => integration
  OBVIOUS
<1>3. /\ UNCHANGED <<config, ended, live>> /\ posts' = posts
      /\ faults' \in Nat /\ faults <= faults' /\ faults' <= MaxFaults
  BY PostCallAssumption DEF WholeInv, CompleteInv, TypeOK, WaysOK
<1> HIDE DEF k
<1> QED
  BY <1>1, <1>2, <1>3, WaysMoves

\* A task that has begun moves, and nothing fails.
LEMMA WriterWays ==
  ASSUME WholeInv, NEW f \in Finalizer, NEW k \in {"job", "first", "second"},
         NEW pc, NEW plan, Moves(<<f, k>>, pc, plan),
         task[<<f, k>>].pc # "idle", pc # "idle", pc \notin Jobbing, pc \notin Live,
         pc \in {"post", "record"} => integration,
         ~postCall /\ live # {} => row'.segs # {} /\ pc \notin Persisting \cup Salvaging,
         UNCHANGED <<config, ended, live, faults>>,
         posts' = posts \/ (integration /\ ended)
  PROVE  WaysOK'
<1>1. /\ task[<<f, k>>].pc # "idle" \/ k = "job"
      /\ k = "job" => (pc \in Jobbing => postCall) /\ (pc \in Live => ~postCall)
      /\ ~postCall /\ ended /\ live # {} =>
           row'.segs # {} /\ pc \notin Persisting \cup Salvaging
  OBVIOUS
<1>2. /\ UNCHANGED <<config, ended, live>>
      /\ faults' \in Nat /\ faults <= faults' /\ faults' <= MaxFaults
  BY PostCallAssumption DEF WholeInv, CompleteInv, TypeOK, WaysOK
<1> QED
  BY <1>1, <1>2, WaysMoves

\* One task moves, and what it is going to write is no mixture.
LEMMA InApiMoves ==
  ASSUME WholeInv, NEW t \in Task, NEW pc, NEW plan, Moves(t, pc, plan),
         UNCHANGED <<config, ended, live>>,
         InApi /\ ended /\ live # {} =>
           /\ pc \in Persisting => Whole(plan)
           /\ pc # "look"
           /\ row'.status = "final" => Whole(row'.content)
  PROVE  InApiIsWhole'
<1>1. task'[t].pc = pc /\ task'[t].plan = plan /\ \A x \in Task : x # t => task'[x] = task[x]
  BY DEF Moves
<1>2. ended' = ended /\ live' = live /\ integration' = integration /\ postCall' = postCall
  BY DEF config
<1>3. InApi /\ ended /\ live # {} =>
        \A x \in Task : /\ task'[x].pc \in Persisting => Whole(task'[x].plan)
                        /\ task'[x].pc # "look"
  BY <1>1 DEF WholeInv, InApiIsWhole
<1>4. InApi' = InApi
  BY <1>2 DEF InApi
<1> QED
  BY <1>2, <1>3, <1>4 DEF InApiIsWhole, Whole

\* The task of a finalizer by its kind.
LEMMA WriterIs ==
  ASSUME CompleteInv, NEW t \in Task,
         task[t].pc \in Persisting \cup Salvaging \cup Notifying
  PROVE  /\ ended
         /\ \E f \in Finalizer : \E k \in {"job", "first", "second"} : t = <<f, k>>
BY Writers DEF CompleteInv

\* It holds before the call has begun.
LEMMA WholeInit == Init => WholeInv
<1> SUFFICES ASSUME Init PROVE WholeInv
  OBVIOUS
<1>1. CompleteInv
  BY CompleteInit
<1>2. \A t \in Task : task[t].pc = "idle"
  BY DEF Init, Idle
<1>3. \A f \in Finalizer : \A k \in {"job", "first", "second"} : task[<<f, k>>].pc = "idle"
  BY <1>2, Tasks
<1>4. WaysOK
  <2>1. faults = 0 /\ ~ended /\ posts = <<>> /\ 0 <= MaxFaults
    BY PostCallAssumption DEF Init
  <2>2. "idle" \notin Jobbing \cup Live
    BY DEF Jobbing, Live
  <2> QED
    BY <1>2, <1>3, <2>1, <2>2 DEF WaysOK
<1>5. InApiIsWhole
  BY DEF Init, InApiIsWhole
<1> QED
  BY <1>1, <1>4, <1>5 DEF WholeInv

\* A step keeps what the jobs of the API process write free of mixtures.
LEMMA WholeStep ==
  ASSUME DraftsSucceed, WholeInv, [Next]_vars
  PROVE  WholeInv'
<1> CompleteInv /\ TypeOK /\ PcOK /\ DraftsOK /\ RewritesOK /\ WaysOK /\ InApiIsWhole
  BY DEF WholeInv, CompleteInv
<1>0. CompleteInv'
  BY CompleteStep
<1>00. faults \in Nat /\ faults <= MaxFaults /\ MaxFaults \in Nat
  BY PostCallAssumption DEF TypeOK, WaysOK
<1>1. ASSUME ~ended, UNCHANGED <<config, ended, faults, posts>>,
             \A x \in Task : x[2] # "draft" => task'[x] = task[x],
             \A u \in Utterance : task'[<<u, "draft">>].pc \notin {"post", "record"}
      PROVE  WholeInv'
  <2>1. /\ ended' = ended /\ integration' = integration /\ postCall' = postCall
        /\ faults' = faults /\ posts' = posts
    BY <1>1 DEF config
  <2>2. \A f \in Finalizer : \A k \in {"job", "first", "second"} :
          task'[<<f, k>>] = task[<<f, k>>]
    BY <1>1, Tasks
  <2>3. \A x \in Task : task'[x].pc \in {"post", "record"} => task[x].pc \in {"post", "record"}
    BY <1>1 DEF Task
  <2>4. WaysOK'
    <3>1. /\ (\A f \in Finalizer : \A k \in {"first", "second"} :
               task[<<f, k>>].pc # "idle" => faults >= 1 /\ postCall)'
          /\ (\A f \in Finalizer : task[<<f, "job">>].pc \in Jobbing => postCall)'
          /\ (\A f \in Finalizer : task[<<f, "job">>].pc \in Live => ~postCall)'
      BY <2>1, <2>2 DEF WaysOK
    <3>2. (\A x \in Task : task[x].pc \in {"post", "record"} => integration)'
      BY <2>1, <2>3 DEF WaysOK
    <3> QED
      BY <1>1, <2>1, <3>1, <3>2 DEF WaysOK
  <2>5. InApiIsWhole'
    BY <1>1, <2>1 DEF InApiIsWhole
  <2> QED
    BY <1>0, <2>4, <2>5 DEF WholeInv
<1>2. ASSUME NEW u \in Utterance, HandleRealtimeCompleted(u) \/ PersistDraft(u)
      PROVE  WholeInv'
  <2> DEFINE t == <<u, "draft">>
  <2>1. ~ended /\ UNCHANGED <<config, ended, faults, posts>>
    BY <1>2 DEF HandleRealtimeCompleted, PersistDraft, DraftsOK
  <2>2. \/ \E plan : Moves(t, "draftUpsert", plan)
        \/ \E plan : Moves(t, "draftCreate", plan)
        \/ \E plan : Moves(t, "draftRead", plan)
        \/ \E plan : Moves(t, "draftWrite", plan)
        \/ \E plan : Moves(t, "done", plan)
    <3>1. CASE HandleRealtimeCompleted(u)
      BY <3>1, Tasks, GotoMoves DEF HandleRealtimeCompleted, Steps, Drafting
    <3>2. CASE PersistDraft(u)
      BY <3>2, PersistDraftDoes
    <3> QED
      BY <1>2, <3>1, <3>2
  <2>3. /\ task'[t].pc \notin {"post", "record"}
        /\ \A x \in Task : x # t => task'[x] = task[x]
    <3>1. PICK pc, plan : Moves(t, pc, plan) /\ pc \notin {"post", "record"}
      BY <2>2
    <3> QED
      BY <3>1, Tasks DEF Moves
  <2>4. \A v \in Utterance : task[<<v, "draft">>].pc \notin {"post", "record"}
    BY DEF PcOK, Drafting
  <2>5. \A v \in Utterance : v # u => task'[<<v, "draft">>] = task[<<v, "draft">>]
    BY <2>3, Tasks
  <2>6. \A x \in Task : x[2] # "draft" => task'[x] = task[x]
    BY <2>3
  <2>7. \A v \in Utterance : task'[<<v, "draft">>].pc \notin {"post", "record"}
    BY <2>3, <2>4, <2>5
  <2> QED
    BY <1>1, <2>1, <2>6, <2>7
<1>3. CASE EndCall
  <2>1. /\ ended' = TRUE /\ live' = live /\ task' = task /\ row' = row
        /\ integration' = integration /\ postCall' = postCall
        /\ faults' = faults /\ posts' = posts
    BY <1>3 DEF EndCall, config
  <2>2. /\ row.segs = live /\ row.status # "final"
        /\ \A t \in Task : task[t].pc \in {"idle", "done"}
    BY <1>3, DraftsSaved
  <2>3. WaysOK'
    BY <2>1, <2>2 DEF WaysOK, Persisting, Salvaging
  <2>4. InApiIsWhole'
    BY <2>1, <2>2 DEF InApiIsWhole, Persisting
  <2> QED
    BY <1>0, <2>3, <2>4 DEF WholeInv
<1>4. ASSUME NEW f \in Finalizer, Finalize(f)
      PROVE  WholeInv'
  <2> DEFINE t == <<f, "job">>
             pc == IF postCall THEN "mark" ELSE "live"
  <2>1. t \in Task /\ pc \in Steps
    BY Tasks DEF Jobbing, Live, Steps
  <2>2. Moves(t, pc, task[t].plan)
    BY <1>4, <2>1, GotoMoves DEF Finalize
  <2>3. UNCHANGED <<config, ended, live, faults, posts, row>>
    BY <1>4 DEF Finalize
  <2>4. /\ pc \notin Persisting \cup Salvaging \cup {"look", "idle", "post", "record"}
        /\ pc \in Jobbing => postCall
        /\ pc \in Live => ~postCall
    BY DEF Persisting, Salvaging, Jobbing, Live
  <2>5. WaysOK'
    BY <2>2, <2>3, <2>4, JobWays DEF WaysOK
  <2>6. InApiIsWhole'
    BY <2>1, <2>2, <2>3, <2>4, InApiMoves DEF InApiIsWhole
  <2> QED
    BY <1>0, <2>5, <2>6 DEF WholeInv
<1>5. ASSUME NEW f \in Finalizer, Enqueue(f)
      PROVE  WholeInv'
  <2> DEFINE t == <<f, "job">>
  <2>1. t \in Task /\ task[t].pc \in Jobbing /\ postCall
    BY <1>5, Tasks DEF Enqueue, Jobbing, WaysOK
  <2>2. UNCHANGED <<config, ended, live, faults, posts>>
    BY <1>5 DEF Enqueue
  <2>3. PICK pc, plan : pc \in {"source", "load", "queued"} /\ Moves(t, pc, plan)
    BY <1>5, EnqueueDoes
  <2>4. /\ pc \notin Persisting \cup Salvaging \cup {"look", "idle", "post", "record"}
        /\ pc \notin Live
    BY <2>3 DEF Persisting, Salvaging, Live
  <2>5. row' = Row("processing", row.content, row.segs) \/ row' = row
    BY <1>5, EnqueueDoes
  <2>6. row'.segs = row.segs /\ (row' = row \/ row'.status # "final")
    BY <2>5, RowFields
  <2>7. WaysOK'
    BY <2>1, <2>2, <2>3, <2>4, <2>6, JobWays
  <2>8. InApiIsWhole'
    BY <2>1, <2>2, <2>3, <2>4, <2>6, InApiMoves DEF InApiIsWhole
  <2> QED
    BY <1>0, <2>7, <2>8 DEF WholeInv
<1>6. ASSUME NEW f \in Finalizer, ProcessPostCallJob(f)
      PROVE  WholeInv'
  <2> DEFINE t == <<f, "job">>
  <2>1. t \in Task /\ task[t].pc \in Jobbing /\ postCall
    BY <1>6, Tasks DEF ProcessPostCallJob, Jobbing, WaysOK
  <2>2. ended /\ UNCHANGED <<config, ended, live, row, faults, posts>>
    BY <1>6, <2>1 DEF ProcessPostCallJob, DraftsOK, Jobbing
  <2>3. PICK pc, plan :
          /\ pc \in {"upsert", "transcribe"} /\ Moves(t, pc, plan)
          /\ live # {} /\ pc = "upsert" => Whole(plan)
    BY <1>6, <2>2, WritesWhole
  <2>4. pc \notin Live /\ pc \notin {"look", "idle", "post", "record"}
    BY <2>3 DEF Live
  <2>5. pc \in Persisting => pc = "upsert"
    BY <2>3 DEF Persisting
  <2>6. WaysOK'
    BY <2>1, <2>2, <2>3, <2>4, JobWays
  <2>7. InApiIsWhole'
    BY <2>1, <2>2, <2>3, <2>4, <2>5, InApiMoves DEF InApiIsWhole
  <2> QED
    BY <1>0, <2>6, <2>7 DEF WholeInv
<1>7. ASSUME NEW f \in Finalizer, FinalizeLiveTranscript(f)
      PROVE  WholeInv'
  <2> DEFINE t == <<f, "job">>
  <2>1. t \in Task /\ task[t].pc \in Live /\ ~postCall /\ task[t].pc # "idle"
    BY <1>7, Tasks DEF FinalizeLiveTranscript, Live, WaysOK
  <2>2. ended /\ UNCHANGED <<config, ended, live, faults, posts>>
    BY <1>7, <2>1 DEF FinalizeLiveTranscript, DraftsOK
  <2>3. live # {} => row.status # "none" /\ row.segs # {}
    BY <2>1, <2>2 DEF RewritesOK, WaysOK
  <2>4. PICK pc, plan :
          /\ pc \in {"upsert", "liveWrite", "liveSegments", "notify"}
          /\ Moves(t, pc, plan)
          /\ live # {} => pc # "upsert"
    BY <1>7, <2>3, FinalizeLiveTranscriptDoes
  <2>5. /\ row'.segs = row.segs
        /\ \/ row' = row
           \/ row'.status = "final" /\ (live = {} \/ row'.content = live)
    <3>1. \/ row' = row
          \/ live # {} /\ row' = Row("final", live, row.segs)
          \/ live = {} /\ row' = Row("final", row.content, row.segs)
      BY <1>7, FinalizeLiveTranscriptDoes
    <3> QED
      BY <3>1, RowFields
  <2>6. /\ pc \notin Jobbing /\ pc \notin {"look", "idle", "post", "record"}
        /\ live # {} => pc \notin Persisting \cup Salvaging
    BY <2>4 DEF Jobbing, Persisting, Salvaging
  <2>7. WaysOK'
    BY <2>1, <2>2, <2>3, <2>4, <2>5, <2>6, JobWays
  <2>8. InApiIsWhole'
    BY <2>1, <2>2, <2>4, <2>5, <2>6, InApiMoves DEF InApiIsWhole, Whole
  <2> QED
    BY <1>0, <2>7, <2>8 DEF WholeInv
<1>8. ASSUME NEW t \in Task, PersistFinal(t)
      PROVE  WholeInv'
  <2>1. task[t].pc \in Persisting /\ UNCHANGED <<config, ended, live, faults, posts>>
    BY <1>8 DEF PersistFinal, Persisting
  <2>2. ended
    BY <2>1, WriterIs
  <2>3. PICK f \in Finalizer : \E k \in {"job", "first", "second"} : t = <<f, k>>
    BY <2>1, WriterIs
  <2>4. PICK k \in {"job", "first", "second"} : t = <<f, k>>
    BY <2>3
  <2>5. PICK pc \in {"delete", "create", "notify"} : Moves(<<f, k>>, pc, task[t].plan)
    BY <1>8, <2>4, PersistFinalDoes
  <2>6. \/ row' = Row("final", task[t].plan, row.segs)
        \/ row' = Row(row.status, row.content, {})
        \/ row' = Row(row.status, row.content, row.segs \cup task[t].plan)
    BY <1>8, PersistFinalDoes
  <2>7. ~postCall => live = {}
    BY <2>1, <2>2 DEF WaysOK
  <2>8. /\ pc # "idle" /\ task[<<f, k>>].pc # "idle"
        /\ pc \notin Jobbing /\ pc \notin Live /\ pc \notin {"post", "record", "look"}
    BY <2>1, <2>4, <2>5 DEF Jobbing, Live, Persisting
  <2>9. WaysOK'
    BY <2>1, <2>5, <2>7, <2>8, WriterWays
  <2>10. InApi /\ live # {} => Whole(task[t].plan)
    BY <2>1, <2>2 DEF InApiIsWhole
  <2>11. InApi /\ live # {} /\ row'.status = "final" => Whole(row'.content)
    BY <2>2, <2>6, <2>10, RowFields DEF InApiIsWhole
  <2>12. InApiIsWhole'
    BY <2>1, <2>4, <2>5, <2>8, <2>10, <2>11, InApiMoves
  <2> QED
    BY <1>0, <2>9, <2>12 DEF WholeInv
<1>9. ASSUME NEW t \in Task, Notify(t)
      PROVE  WholeInv'
  <2>1. task[t].pc \in Notifying /\ UNCHANGED <<config, ended, live, row, faults>>
    BY <1>9 DEF Notify, Notifying
  <2>2. ended
    BY <2>1, WriterIs
  <2>3. PICK f \in Finalizer : \E k \in {"job", "first", "second"} : t = <<f, k>>
    BY <2>1, WriterIs
  <2>4. PICK k \in {"job", "first", "second"} : t = <<f, k>>
    BY <2>3
  <2>5. PICK pc, plan : /\ Moves(<<f, k>>, pc, plan)
                        /\ pc = "done" \/ (pc \in {"post", "record"} /\ integration)
    <3>1. \/ \E plan : Moves(t, "post", plan) /\ task[t].pc = "notify"
          \/ \E plan : Moves(t, "record", plan) /\ task[t].pc = "post"
          \/ \E plan : Moves(t, "done", plan)
      BY <1>9, NotifyDoes
    <3>2. CASE \E plan : Moves(t, "post", plan) /\ task[t].pc = "notify"
      <4>1. integration \/ Goto(t, "done")
        BY <1>9, <3>2 DEF Notify
      <4>2. CASE Goto(t, "done")
        <5>1. Moves(t, "done", task[t].plan)
          BY <4>2, GotoMoves
        <5> QED
          BY <2>4, <5>1
      <4> QED
        BY <2>4, <3>2, <4>1, <4>2
    <3>3. CASE \E plan : Moves(t, "record", plan) /\ task[t].pc = "post"
      BY <2>4, <3>3 DEF WaysOK
    <3> QED
      BY <2>4, <3>1, <3>2, <3>3
  <2>6. posts' = posts \/ (integration /\ ended)
    BY <1>9, <2>2 DEF Notify, WaysOK
  <2>7. /\ pc # "idle" /\ task[<<f, k>>].pc # "idle"
        /\ pc \notin Jobbing /\ pc \notin Live /\ pc # "look"
        /\ pc \notin Persisting \cup Salvaging
    BY <2>1, <2>4, <2>5 DEF Jobbing, Live, Persisting, Salvaging, Notifying
  <2>8. WaysOK'
    <3>1. ~postCall /\ ended /\ live # {} => row'.segs # {}
      BY <2>1 DEF WaysOK
    <3> QED
      BY <2>1, <2>2, <2>5, <2>6, <2>7, <3>1, WriterWays
  <2>9. InApiIsWhole'
    BY <2>1, <2>4, <2>5, <2>7, InApiMoves DEF InApiIsWhole
  <2> QED
    BY <1>0, <2>8, <2>9 DEF WholeInv
<1>10. ASSUME NEW t \in Task, Look(t)
       PROVE  WholeInv'
  <2>1. /\ task[t].pc \in Salvaging /\ task[t].pc = "look"
        /\ UNCHANGED <<config, ended, live, row, faults, posts>>
    BY <1>10 DEF Look, Salvaging
  <2>2. ended
    BY <2>1, WriterIs
  <2>3. PICK f \in Finalizer : \E k \in {"job", "first", "second"} : t = <<f, k>>
    BY <2>1, WriterIs
  <2>4. PICK k \in {"job", "first", "second"} : t = <<f, k>>
    BY <2>3
  <2>5. PICK pc, plan : Moves(<<f, k>>, pc, plan) /\ pc \in {"upsert", "fail"}
    BY <1>10, <2>4, LookDoes
  <2>6. (~postCall => live = {}) /\ (InApi => live = {})
    BY <2>1, <2>2 DEF WaysOK, InApiIsWhole
  <2>7. /\ pc # "idle" /\ task[<<f, k>>].pc # "idle"
        /\ pc \notin Jobbing /\ pc \notin Live /\ pc \notin {"post", "record"}
    BY <2>1, <2>4, <2>5 DEF Jobbing, Live
  <2>8. WaysOK'
    BY <2>1, <2>5, <2>6, <2>7, WriterWays
  <2>9. InApiIsWhole'
    BY <2>1, <2>4, <2>5, <2>6, InApiMoves
  <2> QED
    BY <1>0, <2>8, <2>9 DEF WholeInv
<1>11. ASSUME NEW t \in Task, MarkFailed(t)
       PROVE  WholeInv'
  <2>1. /\ task[t].pc \in Salvaging /\ task[t].pc = "fail"
        /\ UNCHANGED <<config, ended, live, faults, posts>>
    BY <1>11 DEF MarkFailed, Salvaging
  <2>2. ended
    BY <2>1, WriterIs
  <2>3. PICK f \in Finalizer : \E k \in {"job", "first", "second"} : t = <<f, k>>
    BY <2>1, WriterIs
  <2>4. PICK k \in {"job", "first", "second"} : t = <<f, k>>
    BY <2>3
  <2>5. /\ Moves(<<f, k>>, "notify", task[t].plan)
        /\ row' = Row("failed", row.content, row.segs)
    BY <1>11, <2>4, MarkFailedDoes
  <2>6. row'.status = "failed" /\ (~postCall => live = {})
    BY <2>1, <2>2, <2>5, RowFields DEF WaysOK
  <2>7. task[<<f, k>>].pc # "idle" /\ "notify" \notin Jobbing \cup Live \cup Persisting
    BY <2>1, <2>4 DEF Jobbing, Live, Persisting
  <2>8. WaysOK'
    <3> DEFINE pc == "notify"
    <3>1. /\ pc # "idle" /\ pc \notin Jobbing /\ pc \notin Live
          /\ pc \notin {"post", "record"} /\ Moves(<<f, k>>, pc, task[t].plan)
      BY <2>5, <2>7
    <3> HIDE DEF pc
    <3> QED
      BY <2>1, <2>6, <2>7, <3>1, WriterWays
  <2>9. InApiIsWhole'
    BY <2>1, <2>4, <2>5, <2>6, <2>7, InApiMoves
  <2> QED
    BY <1>0, <2>8, <2>9 DEF WholeInv
<1>12. ASSUME NEW t \in Task, PostUnanswered(t)
       PROVE  WholeInv'
  <2>1. /\ task[t].pc \in Notifying /\ task[t].pc = "post"
        /\ UNCHANGED <<config, ended, live, row>>
        /\ faults < MaxFaults /\ faults' = faults + 1
    BY <1>12 DEF PostUnanswered, Notifying
  <2>2. ended /\ integration
    BY <2>1, WriterIs DEF WaysOK
  <2>3. PICK f \in Finalizer : \E k \in {"job", "first", "second"} : t = <<f, k>>
    BY <2>1, WriterIs
  <2>4. PICK k \in {"job", "first", "second"} : t = <<f, k>>
    BY <2>3
  <2> DEFINE pc == "done"
  <2>5. Moves(<<f, k>>, pc, task[t].plan)
    BY <1>12, <2>4, GotoMoves DEF PostUnanswered
  <2>6. /\ pc # "idle" /\ pc \notin Jobbing /\ pc \notin Live /\ task[<<f, k>>].pc # "idle"
        /\ pc \notin {"post", "record", "look"} /\ pc \notin Persisting \cup Salvaging
    BY <2>1, <2>4 DEF Jobbing, Live, Persisting, Salvaging
  <2>7. faults' \in Nat /\ faults <= faults' /\ faults' <= MaxFaults
    BY <1>00, <2>1
  <2>8. ~postCall /\ ended /\ live # {} => row'.segs # {}
    BY <2>1 DEF WaysOK
  <2> HIDE DEF pc
  <2>9. WaysOK'
    BY <2>1, <2>2, <2>5, <2>6, <2>7, <2>8, WaysMoves
  <2>10. InApiIsWhole'
    BY <2>1, <2>4, <2>5, <2>6, InApiMoves DEF InApiIsWhole
  <2> QED
    BY <1>0, <2>9, <2>10 DEF WholeInv
<1>13. ASSUME NEW t \in Task, Fail(t)
       PROVE  WholeInv'
  <2>1. UNCHANGED <<config, ended, live, row, posts>> /\ faults' = faults + 1 /\ faults < MaxFaults
    BY <1>13 DEF Fail
  <2>2. PICK f \in Finalizer, k \in {"job", "first", "second"} : FailsAs(t, f, k)
    BY <1>13, FailIs
  <2>3. /\ ended /\ integration' = integration /\ postCall' = postCall /\ ended' = ended
        /\ live' = live /\ row' = row /\ posts' = posts
    BY <2>1, <2>2 DEF FailsAs, config
  <2>4. /\ t \in Task /\ t = <<f, k>> /\ task[t].pc \in Steps \ Drafting
        /\ IF k = "job" THEN task'[t].pc = "done" ELSE task'[t].pc \in {"fail", "done"}
        /\ task[t].pc # "idle"
    BY <2>2 DEF FailsAs, Steps, Drafting, Persisting, Notifying, Jobbing, Live, Salvaging
  <2>5. k \in {"first", "second"} => postCall
    BY <2>4 DEF WaysOK
  <2>6. \A x \in Task : \/ x = t
                        \/ task'[x] = task[x]
                        \/ /\ postCall /\ x \in {<<f, "first">>, <<f, "second">>}
                           /\ task'[x] = Salvage(x)
    BY <2>2 DEF FailsAs
  <2>7. \A x : /\ Salvage(x).pc \in {"upsert", "look"}
               /\ Salvage(x).pc = "upsert" => Salvage(x).plan = live
               /\ InApi /\ live # {} => Salvage(x).pc = "upsert"
    BY DEF Salvage, Heard, OnWorker, InApi
  <2>8. \A x \in Task : \/ task'[x] = task[x]
                        \/ postCall /\ task'[x].pc \in {"upsert", "look", "fail", "done"}
                        \/ task'[x].pc = "done"
    BY <2>4, <2>5, <2>6, <2>7
  <2>9. WaysOK'
    <3>1. faults' >= 1 /\ faults' <= MaxFaults
      BY <1>00, <2>1
    <3>2. \A g \in Finalizer : \A j \in {"first", "second"} :
            task'[<<g, j>>].pc # "idle" => postCall
      <4> SUFFICES ASSUME NEW g \in Finalizer, NEW j \in {"first", "second"},
                          task'[<<g, j>>].pc # "idle", ~postCall
                   PROVE  FALSE
        OBVIOUS
      <4>1. task[<<g, j>>].pc = "idle" /\ <<g, j>> \in Task /\ <<g, j>> # t
        BY <2>4, Tasks DEF WaysOK
      <4> QED
        BY <2>6, <4>1
    <3>3. \A g \in Finalizer : task'[<<g, "job">>] = task[<<g, "job">>]
                                 \/ task'[<<g, "job">>].pc \in {"upsert", "look", "fail", "done"}
      BY <2>8, Tasks
    <3>4. \A g \in Finalizer : /\ task'[<<g, "job">>].pc \in Jobbing => postCall
                               /\ task'[<<g, "job">>].pc \in Live => ~postCall
      BY <3>3 DEF WaysOK, Jobbing, Live
    <3>5. \A x \in Task : task'[x].pc \in {"post", "record"} => integration
      BY <2>8 DEF WaysOK
    <3>6. ~postCall /\ ended /\ live # {} =>
            row.segs # {} /\ \A x \in Task : task'[x].pc \notin Persisting \cup Salvaging
      BY <2>8 DEF WaysOK, Persisting, Salvaging
    <3>7. posts # <<>> => integration /\ ended
      BY DEF WaysOK
    <3> QED
      BY <2>3, <3>1, <3>2, <3>4, <3>5, <3>6, <3>7 DEF WaysOK
  <2>10. InApiIsWhole'
    <3>1. InApi /\ ended /\ live # {} =>
            \A x \in Task : /\ task'[x].pc \in Persisting => Whole(task'[x].plan)
                            /\ task'[x].pc # "look"
      BY <2>4, <2>6, <2>7 DEF InApiIsWhole, Whole, Persisting
    <3>2. InApi' = InApi
      BY <2>3 DEF InApi
    <3> QED
      BY <2>3, <3>1, <3>2 DEF InApiIsWhole, Whole
  <2> QED
    BY <1>0, <2>9, <2>10 DEF WholeInv
<1>14. CASE WorkerCrash
  <2>1. /\ ended' = ended /\ live' = live /\ row' = row /\ posts' = posts
        /\ integration' = integration /\ postCall' = postCall
        /\ faults' = faults + 1 /\ faults < MaxFaults
    BY <1>14 DEF WorkerCrash, config
  <2>2. \A t \in Task : \/ task'[t] = task[t]
                        \/ /\ ~InApi /\ task[t].pc # "idle"
                           /\ task'[t].pc = IF t[2] = "job" THEN "load" ELSE "done"
    BY <1>14, WorkerCrashDoes
       DEF OnWorker, InApi, Busy, Steps, Drafting, Persisting, Notifying, Jobbing, Live,
           Salvaging
  <2>3. ~InApi => postCall
    BY DEF InApi
  <2>4. WaysOK'
    <3>1. faults' >= 1 /\ faults' <= MaxFaults
      BY <1>00, <2>1
    <3>2. \A g \in Finalizer : \A j \in {"first", "second"} :
            task'[<<g, j>>].pc # "idle" => postCall
      BY <2>2, <2>3, Tasks DEF WaysOK
    <3>3. \A g \in Finalizer : task'[<<g, "job">>] = task[<<g, "job">>]
                                 \/ (postCall /\ task'[<<g, "job">>].pc \in {"load", "done"})
      BY <2>2, <2>3, Tasks
    <3>4. \A g \in Finalizer : /\ task'[<<g, "job">>].pc \in Jobbing => postCall
                               /\ task'[<<g, "job">>].pc \in Live => ~postCall
      BY <3>3 DEF WaysOK, Jobbing, Live
    <3>5. \A x \in Task : task'[x].pc \in {"post", "record"} => integration
      BY <2>2 DEF WaysOK
    <3>6. ~postCall /\ ended /\ live # {} =>
            row.segs # {} /\ \A x \in Task : task'[x].pc \notin Persisting \cup Salvaging
      BY <2>2, <2>3 DEF WaysOK
    <3>7. posts # <<>> => integration /\ ended
      BY DEF WaysOK
    <3> QED
      BY <2>1, <3>1, <3>2, <3>4, <3>5, <3>6, <3>7 DEF WaysOK
  <2>5. InApiIsWhole'
    <3>1. InApi => task' = task
      <4>1. task \in [Task -> TaskRecord] /\ task' \in [Task -> TaskRecord]
        BY <1>14, WorkerCrashDoes DEF TypeOK, TaskRecord
      <4> QED
        BY <2>2, <4>1
    <3>2. InApi' = InApi
      BY <2>1 DEF InApi
    <3> QED
      BY <2>1, <3>1, <3>2 DEF InApiIsWhole, Whole
  <2> QED
    BY <1>0, <2>4, <2>5 DEF WholeInv
<1>15. CASE UNCHANGED vars
  <2>1. UNCHANGED <<integration, postCall, ended, live, row, task, posts, faults>>
    BY <1>15 DEF vars, config
  <2>2. WaysOK' /\ InApiIsWhole'
    BY <2>1 DEF WaysOK, InApiIsWhole, InApi, Whole
  <2> QED
    BY <1>0, <2>2 DEF WholeInv
<1> QED
  BY <1>2, <1>3, <1>4, <1>5, <1>6, <1>7, <1>8, <1>9, <1>10, <1>11, <1>12, <1>13,
     <1>14, <1>15 DEF Next

\* Whatever fails after the drafts, a final transcript written by jobs of the
\* API process (recordTranscriptError has its live list) is the whole
\* conversation and no mixture of what was heard and what was transcribed.
THEOREM InApiFinalIsWhole ==
  DraftsSucceed => (Spec => [](integration \/ ~postCall => FinalIsWhole))
<1> SUFFICES ASSUME DraftsSucceed
             PROVE  Spec => [](integration \/ ~postCall => FinalIsWhole)
  OBVIOUS
<1>1. WholeInv => (integration \/ ~postCall => FinalIsWhole)
  BY DEF WholeInv, InApiIsWhole, InApi, FinalIsWhole
<1>2. WholeInv /\ [Next]_vars => WholeInv'
  BY WholeStep
<1> QED
  BY <1>1, <1>2, WholeInit, PTL DEF Spec

\* One task moves: the row stays whole for those who read it next.
LEMMA ContentMoves ==
  ASSUME ContentIsWhole, NEW t \in Task, NEW pc, NEW plan, Moves(t, pc, plan),
         UNCHANGED <<config, ended, live>>,
         integration /\ ended /\ live # {} =>
           /\ pc # "fail"
           /\ row'.content = row.content \/ Whole(row'.content)
           /\ pc \in Written => Whole(row'.content)
           /\ pc = "post" => Whole(plan)
           /\ \A i \in DOMAIN posts' : Whole(posts'[i].text)
  PROVE  ContentIsWhole'
<1>1. task'[t].pc = pc /\ task'[t].plan = plan /\ \A x \in Task : x # t => task'[x] = task[x]
  BY DEF Moves
<1>2. ended' = ended /\ live' = live /\ integration' = integration
  BY DEF config
<1>3. integration /\ ended /\ live # {} =>
        \A x \in Task : /\ task'[x].pc # "fail"
                        /\ task'[x].pc \in Written => Whole(row'.content)
                        /\ task'[x].pc = "post" => Whole(task'[x].plan)
  BY <1>1 DEF ContentIsWhole
<1> QED
  BY <1>2, <1>3 DEF ContentIsWhole, Whole

\* One task moves: somebody is still going to write the segments.
LEMMA ComingMoves ==
  ASSUME SegmentsComing, NEW t \in Task, NEW pc, NEW plan, Moves(t, pc, plan),
         ended' = ended, live' = live,
         ended /\ live # {} /\ row'.segs = {} /\ row'.status = "final" =>
           \/ pc \in Rewriting
           \/ row.segs = {} /\ row.status = "final" /\ task[t].pc \notin Rewriting
  PROVE  SegmentsComing'
<1>1. task'[t].pc = pc /\ \A x \in Task : x # t => task'[x] = task[x]
  BY DEF Moves
<1> QED
  BY <1>1 DEF SegmentsComing

\* What is posted is what the task read.
LEMMA PostedWhole ==
  ASSUME TypeOK, ContentIsWhole, ended, integration, live # {}, NEW t \in Task,
         \/ posts' = posts
         \/ /\ task[t].pc = "post"
            /\ posts' = Append(posts, [text |-> task[t].plan, ended |-> ended])
  PROVE  \A i \in DOMAIN posts' : Whole(posts'[i].text)
<1>1. CASE posts' = posts
  BY <1>1 DEF ContentIsWhole
<1>2. CASE /\ task[t].pc = "post"
           /\ posts' = Append(posts, [text |-> task[t].plan, ended |-> ended])
  <2> DEFINE post == [text |-> task[t].plan, ended |-> ended]
             Post == [text : SUBSET Segment, ended : BOOLEAN]
  <2>1. posts \in Seq(Post) /\ post \in Post
    BY DEF TypeOK
  <2>2. Whole(post.text) /\ \A i \in DOMAIN posts : Whole(posts[i].text)
    BY <1>2 DEF ContentIsWhole
  <2> HIDE DEF post, Post
  <2>3. posts' = Append(posts, post)
    BY <1>2 DEF post
  <2>4. \A i \in DOMAIN posts' : posts'[i] = post \/ (i \in DOMAIN posts /\ posts'[i] = posts[i])
    BY <2>1, <2>3
  <2> QED
    BY <2>2, <2>4
<1> QED
  BY <1>1, <1>2

\* Before the first fault no salvage has begun.
LEMMA NoneSalvaging ==
  ASSUME WaysOK, faults = 0
  PROVE  \A f \in Finalizer : \A k \in {"first", "second"} : task[<<f, k>>].pc = "idle"
<1> SUFFICES ASSUME NEW f \in Finalizer, NEW k \in {"first", "second"},
                    task[<<f, k>>].pc # "idle"
             PROVE  FALSE
  OBVIOUS
<1>1. faults >= 1
  BY DEF WaysOK
<1>2. ~(0 >= 1)
  OBVIOUS
<1> QED
  BY <1>1, <1>2

\* It holds before the call has begun.
LEMMA OneFaultInit == Init => OneFaultInv
BY WholeInit DEF OneFaultInv, Init, ContentIsWhole, SegmentsComing

\* With one fault, a step keeps whole what the partner is sent.
LEMMA OneFaultStep ==
  ASSUME DraftsSucceed, MaxFaults <= 1, OneFaultInv, [Next]_vars
  PROVE  OneFaultInv'
<1> /\ WholeInv /\ CompleteInv /\ TypeOK /\ PcOK /\ DraftsOK /\ RewritesOK /\ WaysOK
    /\ InApiIsWhole /\ ContentIsWhole /\ SegmentsComing
  BY DEF OneFaultInv, WholeInv, CompleteInv
<1>0. WholeInv'
  BY WholeStep
<1>00. faults \in Nat /\ faults <= MaxFaults /\ MaxFaults \in Nat
  BY PostCallAssumption DEF TypeOK, WaysOK
<1>1. ASSUME ~ended' PROVE OneFaultInv'
  BY <1>0, <1>1 DEF OneFaultInv, ContentIsWhole, SegmentsComing
<1>2. ASSUME NEW u \in Utterance, HandleRealtimeCompleted(u) \/ PersistDraft(u)
      PROVE  OneFaultInv'
  BY <1>1, <1>2 DEF HandleRealtimeCompleted, PersistDraft, DraftsOK
<1>3. CASE EndCall
  <2>1. /\ live' = live /\ task' = task /\ row' = row /\ posts' = posts /\ ~ended
    BY <1>3 DEF EndCall
  <2>2. row.status # "final" /\ posts = <<>> /\ \A t \in Task : task[t].pc \in {"idle", "done"}
    BY <1>3, <2>1, DraftsSaved DEF WaysOK
  <2>3. ContentIsWhole' /\ SegmentsComing'
    BY <2>1, <2>2 DEF ContentIsWhole, SegmentsComing, Written, Notifying
  <2> QED
    BY <1>0, <2>3 DEF OneFaultInv
<1>4. ASSUME NEW f \in Finalizer, Finalize(f)
      PROVE  OneFaultInv'
  <2> DEFINE t == <<f, "job">>
             pc == IF postCall THEN "mark" ELSE "live"
  <2>1. t \in Task /\ pc \in Steps /\ task[t].pc = "idle"
    BY <1>4, Tasks DEF Finalize, Jobbing, Live, Steps
  <2>2. Moves(t, pc, task[t].plan)
    BY <1>4, <2>1, GotoMoves DEF Finalize
  <2>3. UNCHANGED <<config, ended, live, posts, row>>
    BY <1>4 DEF Finalize
  <2>4. pc \notin Written \cup {"fail", "post"} /\ task[t].pc \notin Rewriting
    BY <2>1 DEF Written, Notifying, Rewriting, Persisting
  <2>5. ContentIsWhole'
    BY <2>1, <2>2, <2>3, <2>4, ContentMoves DEF ContentIsWhole
  <2>6. SegmentsComing'
    BY <2>1, <2>2, <2>3, <2>4, ComingMoves
  <2> QED
    BY <1>0, <2>5, <2>6 DEF OneFaultInv
<1>5. ASSUME NEW f \in Finalizer, Enqueue(f)
      PROVE  OneFaultInv'
  <2> DEFINE t == <<f, "job">>
  <2>1. t \in Task /\ task[t].pc \in {"mark", "source", "queued"}
    BY <1>5, Tasks DEF Enqueue
  <2>2. UNCHANGED <<config, ended, live, posts>>
    BY <1>5 DEF Enqueue
  <2>3. PICK pc, plan : pc \in {"source", "load", "queued"} /\ Moves(t, pc, plan)
    BY <1>5, EnqueueDoes
  <2>4. row' = Row("processing", row.content, row.segs) \/ row' = row
    BY <1>5, EnqueueDoes
  <2>5. row'.content = row.content /\ (row' = row \/ row'.status # "final")
    BY <2>4, RowFields
  <2>6. pc \notin Written \cup {"fail", "post"} /\ task[t].pc \notin Rewriting
    BY <2>1, <2>3 DEF Written, Notifying, Rewriting, Persisting
  <2>7. ContentIsWhole'
    BY <2>1, <2>2, <2>3, <2>5, <2>6, ContentMoves DEF ContentIsWhole
  <2>8. SegmentsComing'
    BY <2>1, <2>2, <2>3, <2>5, <2>6, ComingMoves
  <2> QED
    BY <1>0, <2>7, <2>8 DEF OneFaultInv
<1>6. ASSUME NEW f \in Finalizer, ProcessPostCallJob(f)
      PROVE  OneFaultInv'
  <2> DEFINE t == <<f, "job">>
  <2>1. t \in Task /\ task[t].pc \in Jobbing
    BY <1>6, Tasks DEF ProcessPostCallJob, Jobbing
  <2>2. ended /\ UNCHANGED <<config, ended, live, row, posts>>
    BY <1>6, <2>1 DEF ProcessPostCallJob, DraftsOK, Jobbing
  <2>3. PICK pc, plan : pc \in {"upsert", "transcribe"} /\ Moves(t, pc, plan)
    BY <1>6, <2>2, WritesWhole
  <2>4. pc \notin Written \cup {"fail", "post"} /\ pc \in Rewriting
    BY <2>3 DEF Written, Notifying, Rewriting, Persisting
  <2>5. ContentIsWhole'
    BY <2>1, <2>2, <2>3, <2>4, ContentMoves DEF ContentIsWhole
  <2>6. SegmentsComing'
    BY <2>1, <2>2, <2>3, <2>4, ComingMoves
  <2> QED
    BY <1>0, <2>5, <2>6 DEF OneFaultInv
<1>7. ASSUME NEW f \in Finalizer, FinalizeLiveTranscript(f)
      PROVE  OneFaultInv'
  <2> DEFINE t == <<f, "job">>
  <2>1. t \in Task /\ task[t].pc \in Live /\ ~postCall /\ task[t].pc # "idle"
    BY <1>7, Tasks DEF FinalizeLiveTranscript, Live, WaysOK
  <2>2. ended /\ UNCHANGED <<config, ended, live, posts>>
    BY <1>7, <2>1 DEF FinalizeLiveTranscript, DraftsOK
  <2>3. live # {} => row.status # "none" /\ row.segs # {}
    BY <2>1, <2>2 DEF RewritesOK, WaysOK
  <2>4. \/ Moves(t, "upsert", live) /\ live = {} /\ row' = row
        \/ Moves(t, "upsert", live) /\ row.status = "none" /\ row' = row
        \/ Moves(t, "liveWrite", task[t].plan) /\ row' = row
        \/ Moves(t, "liveSegments", task[t].plan) /\ row' = Row("final", live, row.segs)
        \/ Moves(t, "liveSegments", task[t].plan) /\ live = {}
             /\ row' = Row("final", row.content, row.segs)
        \/ Moves(t, "notify", task[t].plan) /\ live = {} /\ row' = row
        \/ Moves(t, "notify", task[t].plan) /\ task[t].pc = "liveSegments" /\ row' = row
    BY <1>7, FinalizeLiveTranscriptDoes
  <2>5. PICK pc, plan :
          /\ Moves(t, pc, plan) /\ pc \in {"upsert", "liveWrite", "liveSegments", "notify"}
          /\ live # {} => \/ pc = "liveWrite" /\ row' = row
                          \/ pc = "liveSegments" /\ row'.content = live
                          \/ pc = "notify" /\ task[t].pc = "liveSegments" /\ row' = row
    BY <2>3, <2>4, RowFields
  <2>6. row'.segs = row.segs
    BY <2>4, RowFields
  <2>7. integration /\ live # {} =>
          /\ row'.content = row.content \/ Whole(row'.content)
          /\ pc # "liveWrite" => Whole(row'.content)
    BY <2>1, <2>2, <2>5 DEF ContentIsWhole, Written, Whole
  <2>8. ContentIsWhole'
    BY <2>1, <2>2, <2>5, <2>7, ContentMoves DEF ContentIsWhole, Written, Notifying
  <2>9. SegmentsComing'
    BY <2>1, <2>2, <2>3, <2>5, <2>6, ComingMoves
  <2> QED
    BY <1>0, <2>8, <2>9 DEF OneFaultInv
<1>8. ASSUME NEW t \in Task, PersistFinal(t)
      PROVE  OneFaultInv'
  <2>1. task[t].pc \in Persisting /\ UNCHANGED <<config, ended, live, posts>>
    BY <1>8 DEF PersistFinal, Persisting
  <2>2. ended
    BY <2>1, WriterIs
  <2>3. live # {} => task[t].plan # {}
    BY <2>1, <2>2 DEF RewritesOK, Complete
  <2>4. integration /\ live # {} => Whole(task[t].plan)
    BY <2>1, <2>2 DEF InApiIsWhole, InApi
  <2>5. integration /\ live # {} /\ task[t].pc \in {"delete", "create"} => Whole(row.content)
    BY <2>2 DEF ContentIsWhole, Written
  <2>6. \/ /\ task[t].pc = "upsert" /\ Moves(t, "delete", task[t].plan)
           /\ row' = Row("final", task[t].plan, row.segs)
        \/ /\ task[t].pc = "delete" /\ Moves(t, "create", task[t].plan)
           /\ row' = Row(row.status, row.content, {})
        \/ /\ task[t].pc = "create" /\ Moves(t, "notify", task[t].plan)
           /\ row' = Row(row.status, row.content, row.segs \cup task[t].plan)
    BY <1>8, PersistFinalDoes
  <2>7. PICK pc : /\ Moves(t, pc, task[t].plan) /\ pc \in {"delete", "create", "notify"}
                  /\ integration /\ live # {} => Whole(row'.content)
                  /\ live # {} => pc \in {"delete", "create"} \/ row'.segs # {}
    <3>1. CASE task[t].pc = "upsert"
      BY <2>4, <2>6, <3>1, RowFields
    <3>2. CASE task[t].pc = "delete"
      BY <2>5, <2>6, <3>2, RowFields
    <3>3. CASE task[t].pc = "create"
      BY <2>3, <2>5, <2>6, <3>3, RowFields
    <3> QED
      BY <2>6, <3>1, <3>2, <3>3
  <2>8. {"delete", "create"} \subseteq Rewriting
    BY DEF Rewriting, Persisting
  <2>9. ContentIsWhole'
    BY <2>1, <2>7, ContentMoves DEF ContentIsWhole
  <2>10. SegmentsComing'
    BY <2>1, <2>7, <2>8, ComingMoves
  <2> QED
    BY <1>0, <2>9, <2>10 DEF OneFaultInv
<1>9. ASSUME NEW t \in Task, Notify(t)
      PROVE  OneFaultInv'
  <2>1. task[t].pc \in Notifying /\ UNCHANGED <<config, ended, live, row>>
    BY <1>9 DEF Notify, Notifying
  <2>2. ended
    BY <2>1, WriterIs
  <2>3. integration /\ live # {} => Whole(row.content)
    BY <2>1, <2>2 DEF ContentIsWhole, Written
  <2>4. integration /\ live # {} => Text = row.content
    BY <2>3 DEF Text, Whole
  <2>5. PICK pc, plan :
          /\ Moves(t, pc, plan) /\ pc \in {"post", "record", "done"}
          /\ pc = "post" => plan = Text
    <3>1. \/ Moves(t, "post", Text)
          \/ Moves(t, "record", task[t].plan)
          \/ Moves(t, "done", task[t].plan)
      BY <1>9, NotifyDoes
    <3> QED
      BY <3>1
  <2>6. \/ posts' = posts
        \/ /\ task[t].pc = "post"
           /\ posts' = Append(posts, [text |-> task[t].plan, ended |-> ended])
    BY <1>9, NotifyDoes
  <2>7. integration /\ live # {} => \A i \in DOMAIN posts' : Whole(posts'[i].text)
    BY <1>9, <2>2, <2>6, PostedWhole
  <2>8. pc # "fail" /\ task[t].pc \notin Rewriting
    BY <2>1, <2>5 DEF Notifying, Rewriting, Persisting
  <2>9. ContentIsWhole'
    BY <2>1, <2>2, <2>3, <2>4, <2>5, <2>7, <2>8, ContentMoves
  <2>10. SegmentsComing'
    BY <2>1, <2>5, <2>8, ComingMoves
  <2> QED
    BY <1>0, <2>9, <2>10 DEF OneFaultInv
<1>10. ASSUME NEW t \in Task, Look(t)
       PROVE  OneFaultInv'
  <2>1. /\ task[t].pc \in Salvaging /\ task[t].pc = "look"
        /\ UNCHANGED <<config, ended, live, row, posts>>
    BY <1>10 DEF Look, Salvaging
  <2>2. ended
    BY <2>1, WriterIs
  <2>3. integration => live = {}
    BY <2>1, <2>2 DEF InApiIsWhole, InApi
  <2>4. PICK pc, plan : Moves(t, pc, plan) /\ pc \in {"upsert", "fail"}
    BY <1>10, LookDoes
  <2>5. pc \in Rewriting
    BY <2>4 DEF Rewriting, Persisting
  <2>6. ContentIsWhole'
    BY <2>1, <2>3, <2>4, ContentMoves
  <2>7. SegmentsComing'
    BY <2>1, <2>4, <2>5, ComingMoves
  <2> QED
    BY <1>0, <2>6, <2>7 DEF OneFaultInv
<1>11. ASSUME NEW t \in Task, MarkFailed(t)
       PROVE  OneFaultInv'
  <2>1. /\ task[t].pc \in Salvaging /\ task[t].pc = "fail"
        /\ UNCHANGED <<config, ended, live, posts>>
    BY <1>11 DEF MarkFailed, Salvaging
  <2>2. ended
    BY <2>1, WriterIs
  <2>3. integration => live = {}
    BY <2>1, <2>2 DEF ContentIsWhole
  <2>4. Moves(t, "notify", task[t].plan) /\ row' = Row("failed", row.content, row.segs)
    BY <1>11, MarkFailedDoes
  <2>5. row'.status = "failed"
    BY <2>4, RowFields
  <2>6. ContentIsWhole'
    BY <2>1, <2>3, <2>4, ContentMoves
  <2>7. SegmentsComing'
    BY <2>1, <2>4, <2>5, ComingMoves
  <2> QED
    BY <1>0, <2>6, <2>7 DEF OneFaultInv
<1>12. ASSUME NEW t \in Task, PostUnanswered(t)
       PROVE  OneFaultInv'
  <2>1. /\ task[t].pc \in Notifying /\ task[t].pc = "post"
        /\ UNCHANGED <<config, ended, live, row>>
    BY <1>12 DEF PostUnanswered, Notifying
  <2>2. ended
    BY <2>1, WriterIs
  <2>3. Moves(t, "done", task[t].plan)
    BY <1>12, GotoMoves DEF PostUnanswered
  <2>4. \/ posts' = posts
        \/ /\ task[t].pc = "post"
           /\ posts' = Append(posts, [text |-> task[t].plan, ended |-> ended])
    BY <1>12 DEF PostUnanswered
  <2>5. integration /\ live # {} => \A i \in DOMAIN posts' : Whole(posts'[i].text)
    BY <2>2, <2>4, PostedWhole
  <2>6. "done" \notin Written /\ task[t].pc \notin Rewriting
    BY <2>1 DEF Written, Notifying, Rewriting, Persisting
  <2>7. ContentIsWhole'
    BY <2>1, <2>3, <2>5, <2>6, ContentMoves
  <2>8. SegmentsComing'
    BY <2>1, <2>3, <2>6, ComingMoves
  <2> QED
    BY <1>0, <2>7, <2>8 DEF OneFaultInv
<1>13. ASSUME NEW t \in Task, Fail(t)
       PROVE  OneFaultInv'
  <2>1. /\ ended' = ended /\ live' = live /\ row' = row /\ posts' = posts
        /\ integration' = integration /\ faults = 0
    BY <1>00, <1>13 DEF Fail, config
  <2>2. PICK f \in Finalizer, k \in {"job", "first", "second"} : FailsAs(t, f, k)
    BY <1>13, FailIs
  <2>3. ended /\ t \in Task /\ t = <<f, k>> /\ task[t].pc \in Steps \ Drafting
    BY <2>2 DEF FailsAs
  <2>4. k = "job"
    <3>1. task[t].pc # "idle"
      BY <2>3 DEF Steps, Drafting, Persisting, Notifying, Jobbing, Live, Salvaging
    <3>2. k \in {"first", "second"} => task[<<f, k>>].pc = "idle"
      BY <1>00, <2>1, NoneSalvaging
    <3> QED
      BY <2>3, <3>1, <3>2
  <2>5. task'[t].pc = "done"
    BY <2>2, <2>4 DEF FailsAs
  <2>6. \A x \in Task : \/ x = t
                        \/ task'[x] = task[x]
                        \/ x \in {<<f, "first">>, <<f, "second">>} /\ task'[x] = Salvage(x)
    BY <2>2 DEF FailsAs
  <2>7. \A x : /\ Salvage(x).pc \in {"upsert", "look"}
               /\ integration /\ live # {} => Salvage(x).pc = "upsert"
    BY DEF Salvage, Heard, OnWorker
  <2>8. ContentIsWhole'
    <3>1. integration /\ live # {} =>
            \A x \in Task : /\ task'[x].pc # "fail"
                            /\ task'[x].pc \in Written => Whole(row.content)
                            /\ task'[x].pc = "post" => Whole(task'[x].plan)
      BY <2>3, <2>5, <2>6, <2>7 DEF ContentIsWhole, Written, Notifying
    <3> QED
      BY <2>1, <3>1 DEF ContentIsWhole, Whole
  <2>9. SegmentsComing'
    <3> SUFFICES ASSUME live # {}, row.segs = {}, row.status = "final"
                 PROVE  \E x \in Task : task'[x].pc \in Rewriting
      BY <2>1 DEF SegmentsComing
    <3>1. PICK y \in Task : task[y].pc \in Rewriting
      BY <2>3 DEF SegmentsComing
    <3>2. CASE y # t
      BY <2>6, <2>7, <3>1, <3>2 DEF Rewriting, Persisting
    <3>3. CASE y = t
      <4>1. postCall
        BY <2>3, <3>3 DEF WaysOK
      <4>2. task[t].pc \notin Salvaging
        BY <2>3, <2>4 DEF PcOK, Persisting, Notifying, Jobbing, Live, Salvaging
      <4>3. task[t].pc \in {"load", "transcribe"} \cup Persisting
        BY <3>1, <3>3, <4>2 DEF Rewriting, Salvaging
      <4>4. task'[<<f, "first">>] = Salvage(<<f, "first">>) /\ <<f, "first">> \in Task
        BY <2>2, <2>4, <4>1, <4>3, Tasks DEF FailsAs
      <4> QED
        BY <2>7, <4>4 DEF Rewriting, Persisting
    <3> QED
      BY <3>2, <3>3
  <2> QED
    BY <1>0, <2>8, <2>9 DEF OneFaultInv
<1>14. CASE WorkerCrash
  <2>1. /\ ended' = ended /\ live' = live /\ row' = row /\ posts' = posts
        /\ integration' = integration /\ faults = 0
    BY <1>00, <1>14 DEF WorkerCrash, config
  <2>2. \A t \in Task : \/ task'[t] = task[t]
                        \/ ~integration /\ (t[2] = "job" => task'[t].pc = "load")
    BY <1>14, WorkerCrashDoes DEF OnWorker
  <2>3. ContentIsWhole'
    BY <2>1, <2>2 DEF ContentIsWhole, Whole
  <2>4. SegmentsComing'
    <3> SUFFICES ASSUME ended, live # {}, row.segs = {}, row.status = "final"
                 PROVE  \E x \in Task : task'[x].pc \in Rewriting
      BY <2>1 DEF SegmentsComing
    <3>1. PICK y \in Task : task[y].pc \in Rewriting
      BY DEF SegmentsComing
    <3>2. PICK f \in Finalizer, k \in {"job", "first", "second"} : y = <<f, k>>
      <4>1. ASSUME NEW u \in Utterance, y = <<u, "draft">> \/ y = <<u, "salvage">>
            PROVE  FALSE
        BY <3>1, <4>1 DEF PcOK, Drafting, Rewriting, Persisting
      <4> QED
        BY <4>1 DEF Task
    <3>3. k = "job"
      <4>1. task[y].pc # "idle"
        BY <3>1 DEF Rewriting, Persisting
      <4>2. k \in {"first", "second"} => task[<<f, k>>].pc = "idle"
        BY <1>00, <2>1, NoneSalvaging
      <4> QED
        BY <3>2, <4>1, <4>2
    <3> QED
      BY <2>2, <3>1, <3>2, <3>3 DEF Rewriting
  <2> QED
    BY <1>0, <2>3, <2>4 DEF OneFaultInv
<1>15. CASE UNCHANGED vars
  <2>1. UNCHANGED <<integration, postCall, ended, live, row, task, posts, faults>>
    BY <1>15 DEF vars, config
  <2>2. ContentIsWhole' /\ SegmentsComing'
    BY <2>1 DEF ContentIsWhole, SegmentsComing, Whole
  <2> QED
    BY <1>0, <2>2 DEF OneFaultInv
<1> QED
  BY <1>2, <1>3, <1>4, <1>5, <1>6, <1>7, <1>8, <1>9, <1>10, <1>11, <1>12, <1>13,
     <1>14, <1>15 DEF Next

\* Whatever fails once, the partner of an integration is sent the whole
\* conversation, however the read of the row falls between the statements by
\* which other tasks rewrite it (resolveIntegrationTranscriptContent).
THEOREM PartnerGetsTheWhole ==
  DraftsSucceed /\ MaxFaults <= 1 => (Spec => []ResultIsWhole)
<1> SUFFICES ASSUME DraftsSucceed, MaxFaults <= 1 PROVE Spec => []ResultIsWhole
  OBVIOUS
<1>1. OneFaultInv => ResultIsWhole
  BY DEF OneFaultInv, WholeInv, WaysOK, ContentIsWhole, ResultIsWhole
<1>2. OneFaultInv /\ [Next]_vars => OneFaultInv'
  BY OneFaultStep
<1> QED
  BY <1>1, <1>2, OneFaultInit, PTL DEF Spec

\* Whatever fails once, when all has come to rest the segments of a final
\* transcript are those of the whole conversation: a task that deleted them is
\* followed by one that creates them.
THEOREM SegmentsComeBack ==
  DraftsSucceed /\ MaxFaults <= 1 => (Spec => []SegmentsAreWhole)
<1> SUFFICES ASSUME DraftsSucceed, MaxFaults <= 1 PROVE Spec => []SegmentsAreWhole
  OBVIOUS
<1>1. OneFaultInv => SegmentsAreWhole
  <2> SUFFICES ASSUME OneFaultInv, \A t \in Task : ~Busy(t), ended, live # {},
                      row.status = "final"
               PROVE  live \subseteq row.segs \/ Recording \in row.segs
    BY DEF SegmentsAreWhole
  <2>1. row.segs # {}
    BY DEF OneFaultInv, SegmentsComing, Rewriting, Busy, Steps, Jobbing, Persisting, Salvaging
  <2> QED
    BY <2>1 DEF OneFaultInv, WholeInv, CompleteInv, RewritesOK, Complete
<1>2. OneFaultInv /\ [Next]_vars => OneFaultInv'
  BY OneFaultStep
<1> QED
  BY <1>1, <1>2, OneFaultInit, PTL DEF Spec
-----------------------------------------------------------------------------
(* What the worker writes.                                                 *)

\* The finalizers of a call are two: the stop event and the disconnect.
TwoFinalizers == \A f, g, h \in Finalizer : f = g \/ g = h \/ f = h

\* The steps of a job that has still to write the segments.
Ahead == {"idle"} \cup Jobbing \cup Persisting

\* A job or salvage of f may still read the segments and make them its text: the
\* one fault may yet stop the job, or has, and its salvage is going to look.
Unwritten(f) ==
  \/ faults = 0 /\ task[<<f, "job">>].pc \in Ahead
  \/ task[<<f, "first">>].pc = "look"

\* A job of the worker has one salvage, and no other job has one.
SalvagesApart ==
  /\ \A f \in Finalizer :
       /\ task[<<f, "second">>].pc = "idle"
       /\ task[<<f, "first">>].pc # "idle" => task[<<f, "job">>].pc = "done"
  /\ \A f, g \in Finalizer :
       task[<<f, "first">>].pc # "idle" /\ g # f => task[<<g, "first">>].pc = "idle"

\* While f may read the segments they are no mixture, and the other job creates
\* its own into none.
SegmentsReadable ==
  /\ \A f \in Finalizer : Unwritten(f) => row.segs = {} \/ Whole(row.segs)
  /\ \A f, g \in Finalizer :
       Unwritten(f) /\ g # f /\ task[<<g, "job">>].pc = "create" => row.segs = {}

\* A job of the worker, whose process heard nothing, never writes a mixture.
WorkerIsWhole ==
  ~InApi /\ ended /\ live # {} =>
    /\ \A t \in Task : task[t].pc \in Persisting => Whole(task[t].plan)
    /\ row.status = "final" => Whole(row.content)
    /\ SalvagesApart
    /\ SegmentsReadable

\* What FinalIsAlwaysWhole rests on.
WorkerInv == WholeInv /\ WorkerIsWhole

\* The task of a worker that writes, looks or notifies, by its finalizer.
LEMMA WorkerWriterIs ==
  ASSUME WorkerInv, ~InApi, live # {}, NEW t \in Task,
         task[t].pc \in Persisting \cup Salvaging \cup Notifying
  PROVE  /\ ended
         /\ \E f \in Finalizer : \E k \in {"job", "first"} :
              /\ t = <<f, k>>
              /\ task[t].pc \in Salvaging => k = "first"
<1>1. PICK f \in Finalizer : \E k \in {"job", "first", "second"} : t = <<f, k>>
  BY WriterIs DEF WorkerInv, WholeInv
<1>2. PICK k \in {"job", "first", "second"} : t = <<f, k>>
  BY <1>1
<1>3. ended
  BY WriterIs DEF WorkerInv, WholeInv
<1>4. k # "second"
  <2>1. task[<<f, "second">>].pc = "idle"
    BY <1>3 DEF WorkerInv, WorkerIsWhole, SalvagesApart
  <2> QED
    BY <1>2, <2>1 DEF Persisting, Salvaging, Notifying
<1>5. task[<<f, "job">>].pc \notin Salvaging
  BY DEF WorkerInv, WholeInv, CompleteInv, PcOK, Salvaging, Jobbing, Live, Persisting, Notifying
<1> QED
  BY <1>2, <1>3, <1>4, <1>5

\* The other tasks of the finalizers stay as they are.
LEMMA OthersStay ==
  ASSUME NEW f \in Finalizer, NEW k \in {"job", "first"}, NEW pc, NEW plan,
         Moves(<<f, k>>, pc, plan)
  PROVE  \A g \in Finalizer :
           /\ g # f \/ k = "first" => task'[<<g, "job">>] = task[<<g, "job">>]
           /\ g # f \/ k = "job" => task'[<<g, "first">>] = task[<<g, "first">>]
           /\ task'[<<g, "second">>] = task[<<g, "second">>]
<1> SUFFICES ASSUME NEW g \in Finalizer
             PROVE  /\ g # f \/ k = "first" => task'[<<g, "job">>] = task[<<g, "job">>]
                    /\ g # f \/ k = "job" => task'[<<g, "first">>] = task[<<g, "first">>]
                    /\ task'[<<g, "second">>] = task[<<g, "second">>]
  OBVIOUS
<1>1. \A x \in Task : x # <<f, k>> => task'[x] = task[x]
  BY DEF Moves
<1>2. <<g, "job">> \in Task /\ <<g, "first">> \in Task /\ <<g, "second">> \in Task
  BY Tasks
<1>3. /\ g # f \/ k = "first" => <<g, "job">> # <<f, k>>
      /\ g # f \/ k = "job" => <<g, "first">> # <<f, k>>
      /\ <<g, "second">> # <<f, k>>
  OBVIOUS
<1> QED
  BY <1>1, <1>2, <1>3

\* A salvage stays the only one while a task moves on.
LEMMA ApartMoves ==
  ASSUME SalvagesApart,
         NEW f \in Finalizer, NEW k \in {"job", "first"}, NEW pc, NEW plan,
         Moves(<<f, k>>, pc, plan),
         k = "job" => task[<<f, "job">>].pc # "done",
         k = "first" => task[<<f, "first">>].pc # "idle"
  PROVE  SalvagesApart'
<1>1. \A g \in Finalizer :
        /\ g # f \/ k = "first" => task'[<<g, "job">>] = task[<<g, "job">>]
        /\ g # f \/ k = "job" => task'[<<g, "first">>] = task[<<g, "first">>]
        /\ task'[<<g, "second">>] = task[<<g, "second">>]
  BY OthersStay
<1>2. \A g \in Finalizer :
        task'[<<g, "first">>].pc # "idle" => task[<<g, "first">>].pc # "idle"
  BY <1>1
<1>3. \A g \in Finalizer :
        task[<<g, "job">>].pc = "done" => task'[<<g, "job">>].pc = "done"
  BY <1>1
<1> QED
  BY <1>1, <1>2, <1>3 DEF SalvagesApart

\* One task of a worker moves without a failure: what it writes is whole, and
\* nobody who is not ahead of the segments becomes so.
LEMMA WorkerMoves ==
  ASSUME WorkerInv, ~InApi, ended, live # {},
         NEW f \in Finalizer, NEW k \in {"job", "first"}, NEW pc, NEW plan,
         Moves(<<f, k>>, pc, plan), UNCHANGED <<ended, live, faults>>,
         k = "job" => /\ task[<<f, "job">>].pc # "done"
                      /\ pc \in Ahead => task[<<f, "job">>].pc \in Ahead,
         k = "first" => task[<<f, "first">>].pc # "idle" /\ pc # "look",
         pc \in Persisting => Whole(plan),
         row'.status = "final" => Whole(row'.content),
         SegmentsReadable'
  PROVE  WorkerIsWhole'
<1>1. task'[<<f, k>>].pc = pc /\ task'[<<f, k>>].plan = plan
  BY Tasks DEF Moves
<1>2. \A x \in Task : x # <<f, k>> => task'[x] = task[x]
  BY DEF Moves
<1>3. \A t \in Task : task'[t].pc \in Persisting => Whole(task'[t].plan)
  BY <1>1, <1>2 DEF WorkerInv, WorkerIsWhole
<1>4. SalvagesApart'
  BY ApartMoves DEF WorkerInv, WorkerIsWhole
<1> QED
  BY <1>3, <1>4 DEF WorkerIsWhole, Whole

\* Nobody becomes a reader of the segments without a failure.
LEMMA NoNewReader ==
  ASSUME WorkerInv, ~InApi, ended, live # {},
         NEW f \in Finalizer, NEW k \in {"job", "first"}, NEW pc, NEW plan,
         Moves(<<f, k>>, pc, plan), faults' = faults,
         k = "job" /\ pc \in Ahead => task[<<f, "job">>].pc \in Ahead,
         k = "first" => pc # "look"
  PROVE  /\ \A g \in Finalizer : Unwritten(g)' => Unwritten(g)
         /\ k = "job" => task'[<<f, "job">>].pc = pc
         /\ \A g \in Finalizer : <<g, "job">> # <<f, k>> =>
              task'[<<g, "job">>] = task[<<g, "job">>]
<1>1. task'[<<f, k>>].pc = pc
  BY Tasks DEF Moves
<1>2. \A x \in Task : x # <<f, k>> => task'[x] = task[x]
  BY DEF Moves
<1>3. \A g \in Finalizer : <<g, "job">> # <<f, k>> =>
        task'[<<g, "job">>] = task[<<g, "job">>]
  BY <1>2, Tasks
<1>4. \A g \in Finalizer : <<g, "first">> # <<f, k>> =>
        task'[<<g, "first">>] = task[<<g, "first">>]
  BY <1>2, Tasks
<1>5. ASSUME NEW g \in Finalizer, Unwritten(g)' PROVE Unwritten(g)
  <2>1. CASE (faults = 0 /\ task[<<g, "job">>].pc \in Ahead)'
    <3>1. task[<<g, "job">>].pc \in Ahead
      BY <1>1, <1>3, <2>1
    <3> QED
      BY <2>1, <3>1 DEF Unwritten
  <2>2. CASE (task[<<g, "first">>].pc = "look")'
    <3>1. task[<<g, "first">>].pc = "look"
      BY <1>1, <1>4, <2>2
    <3> QED
      BY <3>1 DEF Unwritten
  <2> QED
    BY <1>5, <2>1, <2>2 DEF Unwritten
<1> QED
  BY <1>1, <1>3, <1>5

\* A step that leaves the segments, or deletes them, leaves them readable.
LEMMA StillReadable ==
  ASSUME WorkerInv, ~InApi, ended, live # {},
         NEW f \in Finalizer, NEW k \in {"job", "first"}, NEW pc, NEW plan,
         Moves(<<f, k>>, pc, plan), UNCHANGED <<live, faults>>,
         k = "job" /\ pc \in Ahead => task[<<f, "job">>].pc \in Ahead,
         k = "first" => pc # "look",
         (row'.segs = row.segs /\ pc # "create") \/ row'.segs = {}
  PROVE  SegmentsReadable'
<1>1. \A g \in Finalizer : Unwritten(g)' => Unwritten(g)
  BY NoNewReader
<1>2. k = "job" => task'[<<f, "job">>].pc = pc
  BY NoNewReader
<1>3. \A g \in Finalizer : <<g, "job">> # <<f, k>> =>
        task'[<<g, "job">>] = task[<<g, "job">>]
  BY NoNewReader
<1>4. SegmentsReadable
  BY DEF WorkerInv, WorkerIsWhole
<1>5. CASE row'.segs = {}
  BY <1>5 DEF SegmentsReadable
<1>6. CASE row'.segs = row.segs /\ pc # "create"
  <2>1. \A g \in Finalizer : task'[<<g, "job">>].pc = "create" =>
                             task[<<g, "job">>].pc = "create"
    BY <1>2, <1>3, <1>6
  <2> QED
    BY <1>1, <1>4, <1>6, <2>1 DEF SegmentsReadable, Whole
<1> QED
  BY <1>5, <1>6

\* Segments created leave them readable: with two finalizers the creator is the
\* only one that may be writing beside a reader, and it finds them deleted.
LEMMA CreatedReadable ==
  ASSUME TwoFinalizers, WorkerInv, ~InApi, ended, live # {},
         NEW f \in Finalizer, NEW k \in {"job", "first"}, NEW plan,
         Moves(<<f, k>>, "notify", plan), UNCHANGED <<live, faults>>,
         task[<<f, k>>].pc = "create", Whole(plan), row'.segs = row.segs \cup plan
  PROVE  SegmentsReadable'
<1> DEFINE pc == "notify"
<1>0. /\ Moves(<<f, k>>, pc, plan) /\ faults' = faults
      /\ k = "job" /\ pc \in Ahead => task[<<f, "job">>].pc \in Ahead
      /\ k = "first" => pc # "look"
      /\ pc # "create" /\ pc \notin Ahead
  BY DEF Ahead, Jobbing, Persisting
<1> HIDE DEF pc
<1>1. \A g \in Finalizer : Unwritten(g)' => Unwritten(g)
  BY <1>0, NoNewReader
<1>2. k = "job" => task'[<<f, "job">>].pc = pc
  BY <1>0, NoNewReader
<1>3. SegmentsReadable /\ SalvagesApart
  BY DEF WorkerInv, WorkerIsWhole
<1>4. WaysOK
  BY DEF WorkerInv, WholeInv
<1>5. CASE k = "first"
  <2>0. task[<<f, "first">>].pc = "create"
    BY <1>5
  <2>1. faults # 0
    <3> SUFFICES ASSUME faults = 0 PROVE FALSE
      OBVIOUS
    <3>1. task[<<f, "first">>].pc = "idle"
      BY <1>4, NoneSalvaging
    <3> QED
      BY <2>0, <3>1
  <2>2. \A g \in Finalizer : g # f => task[<<g, "first">>].pc = "idle"
    BY <1>3, <2>0 DEF SalvagesApart
  <2>3. \A g \in Finalizer : ~Unwritten(g)
    BY <2>0, <2>1, <2>2 DEF Unwritten
  <2> QED
    BY <1>1, <2>3 DEF SegmentsReadable
<1>6. CASE k = "job"
  <2>1. ~Unwritten(f)'
    <3>1. task'[<<f, "job">>].pc \notin Ahead
      BY <1>0, <1>2, <1>6
    <3>2. task[<<f, "first">>].pc = "idle"
      BY <1>3, <1>6 DEF SalvagesApart
    <3>3. task'[<<f, "first">>] = task[<<f, "first">>]
      BY <1>6, Tasks DEF Moves
    <3> QED
      BY <3>1, <3>2, <3>3 DEF Unwritten
  <2>2. ASSUME NEW g \in Finalizer, Unwritten(g)'
        PROVE  /\ row'.segs = plan
               /\ \A h \in Finalizer : h # g => task'[<<h, "job">>].pc # "create"
    <3>1. g # f /\ Unwritten(g)
      BY <1>1, <2>1, <2>2
    <3>2. row.segs = {}
      BY <1>3, <1>6, <3>1 DEF SegmentsReadable
    <3>3. \A h \in Finalizer : h # g => h = f
      BY <3>1 DEF TwoFinalizers
    <3>4. task'[<<f, "job">>].pc # "create"
      BY <1>0, <1>2, <1>6
    <3> QED
      BY <3>2, <3>3, <3>4
  <2> QED
    BY <2>2 DEF SegmentsReadable, Whole
<1> QED
  BY <1>5, <1>6
\* A step of a worker's task that leaves or deletes the segments.
LEMMA WorkerGoes ==
  ASSUME WorkerInv, ~InApi, ended, live # {},
         NEW f \in Finalizer, NEW k \in {"job", "first"}, NEW pc, NEW plan,
         Moves(<<f, k>>, pc, plan), UNCHANGED <<ended, live, faults>>,
         k = "job" => /\ task[<<f, "job">>].pc # "done"
                      /\ pc \in Ahead => task[<<f, "job">>].pc \in Ahead,
         k = "first" => task[<<f, "first">>].pc # "idle" /\ pc # "look",
         pc \in Persisting => Whole(plan),
         row'.status = "final" => Whole(row'.content),
         (row'.segs = row.segs /\ pc # "create") \/ row'.segs = {}
  PROVE  WorkerIsWhole'
<1>1. SegmentsReadable'
  BY StillReadable
<1> QED
  BY <1>1, WorkerMoves

\* The job of a worker fails, and its salvage is going to look.
LEMMA WorkerFails ==
  ASSUME DraftsSucceed, MaxFaults <= 1, WorkerInv, ~InApi, NEW t \in Task, Fail(t)
  PROVE  /\ faults = 0 /\ faults' = 1
         /\ \E f \in Finalizer :
              /\ t = <<f, "job">> /\ task'[t].pc = "done"
              /\ \A x \in Task : x # t =>
                   \/ task'[x] = task[x]
                   \/ /\ x = <<f, "first">> /\ task'[x].pc = "look"
                      /\ task[t].pc \in Ahead
<1> CompleteInv /\ TypeOK /\ WaysOK
  BY DEF WorkerInv, WholeInv, CompleteInv
<1>1. faults = 0 /\ faults' = 1
  BY PostCallAssumption DEF TypeOK, Fail
<1>2. PICK f \in Finalizer, k \in {"job", "first", "second"} : FailsAs(t, f, k)
  BY FailIs
<1>3. t = <<f, k>> /\ task[t].pc # "idle"
  BY <1>2 DEF FailsAs, Steps, Drafting, Persisting, Notifying, Jobbing, Live, Salvaging
<1>4. k = "job"
  BY <1>1, <1>3, NoneSalvaging
<1>5. t[1] = f /\ t[2] = "job"
  BY <1>3, <1>4
<1>6. OnWorker(t)
  BY <1>5 DEF OnWorker, InApi
<1>7. Salvages(t) = IF task[t].pc \in {"load", "transcribe"} \cup Persisting
                      THEN {<<f, "first">>} ELSE {}
  BY <1>5, <1>6 DEF Salvages, OnWorker
<1>8. Salvage(<<f, "first">>).pc = "look"
  BY DEF Salvage, Heard, OnWorker, InApi
<1>9. ASSUME NEW x \in Task, x # t
      PROVE  \/ task'[x] = task[x]
             \/ x = <<f, "first">> /\ task'[x].pc = "look" /\ task[t].pc \in Ahead
  <2>1. task'[x] = IF x \in Salvages(t) THEN Salvage(x) ELSE task[x]
    BY <1>9, FailDoes
  <2>2. CASE x \in Salvages(t)
    <3>1. x = <<f, "first">> /\ task[t].pc \in {"load", "transcribe"} \cup Persisting
      BY <1>7, <2>2
    <3> QED
      BY <1>8, <2>1, <2>2, <3>1 DEF Ahead, Jobbing
  <2> QED
    BY <2>1, <2>2
<1>10. task'[t].pc = "done"
  BY <1>2, <1>4 DEF FailsAs
<1> QED
  BY <1>1, <1>3, <1>4, <1>9, <1>10

\* It holds before the call has begun.
LEMMA WorkerInit == Init => WorkerInv
BY WholeInit DEF WorkerInv, WorkerIsWhole, Init

\* A step keeps what the worker writes free of mixtures.
LEMMA WorkerStep ==
  ASSUME DraftsSucceed, MaxFaults <= 1, TwoFinalizers, WorkerInv, [Next]_vars
  PROVE  WorkerInv'
<1> WholeInv /\ CompleteInv /\ TypeOK /\ PcOK /\ DraftsOK /\ RewritesOK /\ WaysOK
  BY DEF WorkerInv, WholeInv, CompleteInv
<1>0. WholeInv'
  BY WholeStep
<1> SUFFICES ASSUME ~(integration' \/ ~postCall'), ended', live' # {}
             PROVE  WorkerIsWhole'
  BY <1>0 DEF WorkerInv, WorkerIsWhole, InApi
<1>1. ASSUME NEW u \in Utterance, HandleRealtimeCompleted(u) \/ PersistDraft(u)
      PROVE  FALSE
  BY <1>1 DEF HandleRealtimeCompleted, PersistDraft, DraftsOK
<1>2. CASE EndCall
  <2>1. /\ live' = live /\ row' = row /\ task' = task
        /\ row.segs = live /\ row.status # "final"
        /\ \A t \in Task : task[t].pc \in {"idle", "done"}
        /\ \A f \in Finalizer, k \in {"job", "first", "second"} : task[<<f, k>>].pc = "idle"
    BY <1>2, DraftsSaved DEF EndCall
  <2>2. \A t \in Task : task'[t].pc \notin Persisting
    BY <2>1 DEF Persisting
  <2>3. SalvagesApart'
    BY <2>1 DEF SalvagesApart
  <2>4. SegmentsReadable'
    BY <2>1 DEF SegmentsReadable, Whole
  <2> QED
    BY <2>1, <2>2, <2>3, <2>4 DEF WorkerIsWhole
<1>3. ASSUME NEW f \in Finalizer, Finalize(f)
      PROVE  WorkerIsWhole'
  <2> DEFINE t == <<f, "job">>
             pc == "mark"
             k == "job"
  <2>1. /\ ended /\ live # {} /\ ~InApi /\ postCall /\ task[t].pc = "idle"
        /\ row' = row /\ UNCHANGED <<ended, live, faults>>
    BY <1>3 DEF Finalize, config, InApi
  <2>2. t \in Task /\ pc \in Steps
    BY Tasks DEF Jobbing, Steps
  <2>3. Moves(<<f, k>>, pc, task[t].plan)
    BY <1>3, <2>1, <2>2, GotoMoves DEF Finalize
  <2>4. k \in {"job", "first"} /\ pc \notin Persisting /\ task[<<f, "job">>].pc \in Ahead
    BY <2>1 DEF Ahead, Persisting
  <2>5. row.status = "final" => Whole(row.content)
    BY <2>1 DEF WorkerInv, WorkerIsWhole
  <2>6. pc # "create" /\ k # "first"
    OBVIOUS
  <2> HIDE DEF pc, k
  <2> QED
    BY <2>1, <2>3, <2>4, <2>5, <2>6, WorkerGoes
<1>4. ASSUME NEW f \in Finalizer, Enqueue(f)
      PROVE  WorkerIsWhole'
  <2> DEFINE t == <<f, "job">>
             k == "job"
  <2>1. /\ task[t].pc \in Jobbing
        /\ live # {} /\ ~InApi /\ UNCHANGED <<ended, live, faults>>
    BY <1>4 DEF Enqueue, Jobbing, config, InApi
  <2>2. PICK pc, plan : pc \in {"source", "load", "queued"} /\ Moves(t, pc, plan)
    BY <1>4, EnqueueDoes
  <2>3. row'.segs = row.segs /\ (row' = row \/ row'.status # "final")
    <3>1. row' = Row("processing", row.content, row.segs) \/ row' = row
      BY <1>4, EnqueueDoes
    <3> QED
      BY <3>1, RowFields
  <2>4. row'.status = "final" => Whole(row'.content)
    BY <2>1, <2>3 DEF WorkerInv, WorkerIsWhole
  <2>5. /\ k \in {"job", "first"} /\ k # "first"
        /\ pc \notin Persisting /\ pc # "create"
        /\ task[<<f, "job">>].pc \in Ahead /\ task[<<f, "job">>].pc # "done"
    BY <2>1, <2>2 DEF Ahead, Persisting, Jobbing
  <2>6. Moves(<<f, k>>, pc, plan)
    BY <2>2
  <2> HIDE DEF k
  <2> QED
    BY <2>1, <2>3, <2>4, <2>5, <2>6, WorkerGoes
<1>5. ASSUME NEW f \in Finalizer, ProcessPostCallJob(f)
      PROVE  WorkerIsWhole'
  <2> DEFINE t == <<f, "job">>
             k == "job"
  <2>1. /\ task[t].pc \in Jobbing /\ ended /\ row' = row
        /\ live # {} /\ ~InApi /\ UNCHANGED <<ended, live, faults>>
    BY <1>5 DEF ProcessPostCallJob, Jobbing, config, InApi
  <2>2. PICK pc, plan :
          /\ pc \in {"upsert", "transcribe"} /\ Moves(t, pc, plan)
          /\ live # {} /\ pc = "upsert" => Whole(plan)
    BY <1>5, <2>1, WritesWhole
  <2>3. row'.status = "final" => Whole(row'.content)
    BY <2>1 DEF WorkerInv, WorkerIsWhole
  <2>4. /\ k \in {"job", "first"} /\ k # "first"
        /\ pc \in Persisting => Whole(plan)
        /\ pc # "create"
        /\ task[<<f, "job">>].pc \in Ahead /\ task[<<f, "job">>].pc # "done"
    BY <2>1, <2>2 DEF Ahead, Persisting, Jobbing
  <2>5. Moves(<<f, k>>, pc, plan)
    BY <2>2
  <2> HIDE DEF k
  <2> QED
    BY <2>1, <2>3, <2>4, <2>5, WorkerGoes
<1>6. ASSUME NEW f \in Finalizer, FinalizeLiveTranscript(f)
      PROVE  FALSE
  <2>1. postCall /\ task[<<f, "job">>].pc \in Live
    BY <1>6 DEF FinalizeLiveTranscript, config, Live
  <2> QED
    BY <2>1 DEF WaysOK
<1>7. ASSUME NEW t \in Task, PersistFinal(t)
      PROVE  WorkerIsWhole'
  <2>1. /\ task[t].pc \in Persisting
        /\ live # {} /\ ~InApi /\ UNCHANGED <<ended, live, faults>>
    BY <1>7 DEF PersistFinal, Persisting, config, InApi
  <2>2. ended /\ \E f \in Finalizer : \E k \in {"job", "first"} : t = <<f, k>>
    BY <2>1, WorkerWriterIs
  <2>3. PICK f \in Finalizer : \E k \in {"job", "first"} : t = <<f, k>>
    BY <2>2
  <2>4. PICK k \in {"job", "first"} : t = <<f, k>>
    BY <2>3
  <2>5. /\ Whole(task[t].plan)
        /\ row.status = "final" => Whole(row.content)
    BY <2>1, <2>2 DEF WorkerInv, WorkerIsWhole
  <2>6. /\ task[<<f, k>>].pc # "idle" /\ task[<<f, k>>].pc # "done"
        /\ task[<<f, k>>].pc \in Ahead
    BY <2>1, <2>4 DEF Ahead, Persisting
  <2>7. \/ /\ Moves(t, "delete", task[t].plan)
           /\ row' = Row("final", task[t].plan, row.segs)
        \/ /\ Moves(t, "create", task[t].plan)
           /\ row' = Row(row.status, row.content, {})
        \/ /\ task[t].pc = "create" /\ Moves(t, "notify", task[t].plan)
           /\ row' = Row(row.status, row.content, row.segs \cup task[t].plan)
    BY <1>7, PersistFinalDoes
  <2>8. row'.status = "final" => Whole(row'.content)
    BY <2>5, <2>7, RowFields
  <2>9. ASSUME NEW pc, pc \in {"delete", "create", "notify"},
               Moves(t, pc, task[t].plan),
               (row'.segs = row.segs /\ pc # "create") \/ row'.segs = {}
        PROVE  WorkerIsWhole'
    BY <2>1, <2>2, <2>4, <2>5, <2>6, <2>8, <2>9, WorkerGoes
  <2>10. CASE /\ Moves(t, "delete", task[t].plan)
              /\ row' = Row("final", task[t].plan, row.segs)
    BY <2>9, <2>10, RowFields
  <2>11. CASE /\ Moves(t, "create", task[t].plan)
              /\ row' = Row(row.status, row.content, {})
    BY <2>9, <2>11, RowFields
  <2>12. CASE /\ task[t].pc = "create" /\ Moves(t, "notify", task[t].plan)
              /\ row' = Row(row.status, row.content, row.segs \cup task[t].plan)
    <3> DEFINE pc == "notify"
    <3>1. row'.segs = row.segs \cup task[t].plan
      BY <2>12, RowFields
    <3>2. SegmentsReadable'
      BY <2>1, <2>2, <2>4, <2>5, <2>12, <3>1, CreatedReadable
    <3>3. pc # "look" /\ pc \notin Persisting /\ Moves(<<f, k>>, pc, task[t].plan)
      BY <2>4, <2>12 DEF Persisting
    <3> HIDE DEF pc
    <3> QED
      BY <2>1, <2>2, <2>5, <2>6, <2>8, <3>2, <3>3, WorkerMoves
  <2> QED
    BY <2>7, <2>10, <2>11, <2>12
<1>8. ASSUME NEW t \in Task, Notify(t) \/ Look(t) \/ MarkFailed(t)
      PROVE  WorkerIsWhole'
  <2>1. /\ task[t].pc \in Salvaging \cup Notifying
        /\ live # {} /\ ~InApi /\ UNCHANGED <<ended, live, faults>>
    <3>1. task[t].pc \in {"look", "fail", "notify", "post", "record"}
      BY <1>8 DEF Notify, Look, MarkFailed
    <3>2. UNCHANGED <<config, ended, live, faults>>
      BY <1>8 DEF Notify, Look, MarkFailed
    <3> QED
      BY <3>1, <3>2 DEF Salvaging, Notifying, config, InApi
  <2>2. /\ ended
        /\ \E f \in Finalizer : \E k \in {"job", "first"} :
             t = <<f, k>> /\ (task[t].pc \in Salvaging => k = "first")
    BY <2>1, WorkerWriterIs
  <2>3. PICK f \in Finalizer : \E k \in {"job", "first"} :
             t = <<f, k>> /\ (task[t].pc \in Salvaging => k = "first")
    BY <2>2
  <2>4. PICK k \in {"job", "first"} : t = <<f, k>> /\ (task[t].pc \in Salvaging => k = "first")
    BY <2>3
  <2>5. row.status = "final" => Whole(row.content)
    BY <2>1, <2>2 DEF WorkerInv, WorkerIsWhole
  <2>6. task[<<f, k>>].pc # "idle" /\ task[<<f, k>>].pc # "done"
    BY <2>1, <2>4 DEF Salvaging, Notifying
  <2>7. PICK pc, plan : /\ Moves(t, pc, plan)
                        /\ pc \in {"done", "upsert", "fail", "notify"}
                        /\ pc = "upsert" => k = "first" /\ Whole(plan)
                        /\ row'.segs = row.segs
                        /\ row'.status = "final" => row' = row
    <3>1. CASE Notify(t)
      <4>1. ~integration /\ task[t].pc = "notify"
        BY <2>1, <3>1 DEF InApi, WaysOK, Notify
      <4>2. Goto(t, "done") /\ row' = row
        BY <3>1, <4>1 DEF Notify
      <4>3. Moves(t, "done", task[t].plan)
        BY <4>2, GotoMoves
      <4> QED
        BY <4>2, <4>3
    <3>2. CASE Look(t)
      <4>1. task[t].pc = "look" /\ row' = row
        BY <3>2 DEF Look
      <4>2. k = "first" /\ Unwritten(f)
        BY <2>4, <4>1 DEF Salvaging, Unwritten
      <4>3. row.segs # {} => Whole(row.segs)
        BY <2>1, <2>2, <4>2 DEF WorkerInv, WorkerIsWhole, SegmentsReadable
      <4>4. \/ row.segs # {} /\ Moves(t, "upsert", row.segs)
            \/ Moves(t, "fail", task[t].plan)
        BY <3>2, LookDoes
      <4> QED
        BY <4>1, <4>2, <4>3, <4>4
    <3>3. CASE MarkFailed(t)
      <4>1. /\ Moves(t, "notify", task[t].plan)
            /\ row' = Row("failed", row.content, row.segs)
        BY <3>3, MarkFailedDoes
      <4> QED
        BY <4>1, RowFields
    <3> QED
      BY <1>8, <3>1, <3>2, <3>3
  <2>8. row'.status = "final" => Whole(row'.content)
    BY <2>5, <2>7
  <2>9. /\ pc # "look" /\ pc # "create" /\ (pc \in Persisting => Whole(plan))
        /\ pc \in Ahead => k = "first"
    BY <2>7 DEF Ahead, Persisting, Jobbing
  <2>10. Moves(<<f, k>>, pc, plan)
    BY <2>4, <2>7
  <2> QED
    BY <2>1, <2>2, <2>6, <2>7, <2>8, <2>9, <2>10, WorkerGoes
<1>9. ASSUME NEW t \in Task, PostUnanswered(t)
      PROVE  FALSE
  <2>1. ~integration /\ task[t].pc = "post"
    BY <1>9 DEF PostUnanswered, config
  <2> QED
    BY <2>1 DEF WaysOK
<1>10. ASSUME NEW t \in Task, Fail(t)
       PROVE  WorkerIsWhole'
  <2>1. ended /\ live # {} /\ ~InApi /\ live' = live /\ row' = row
    BY <1>10 DEF Fail, config, InApi
  <2>2. PICK f \in Finalizer :
          /\ t = <<f, "job">> /\ task'[t].pc = "done"
          /\ \A x \in Task : x # t =>
               \/ task'[x] = task[x]
               \/ x = <<f, "first">> /\ task'[x].pc = "look" /\ task[t].pc \in Ahead
    BY <1>10, <2>1, WorkerFails
  <2>3. faults = 0 /\ faults' = 1
    BY <1>10, <2>1, WorkerFails
  <2>4. \A g \in Finalizer : \A k \in {"first", "second"} : task[<<g, k>>].pc = "idle"
    BY <2>3, NoneSalvaging
  <2>5. \A g \in Finalizer : g # f => task'[<<g, "job">>] = task[<<g, "job">>]
    <3> SUFFICES ASSUME NEW g \in Finalizer, g # f
                 PROVE  task'[<<g, "job">>] = task[<<g, "job">>]
      OBVIOUS
    <3>1. <<g, "job">> \in Task /\ <<g, "job">> # t /\ <<g, "job">> # <<f, "first">>
      BY <2>2, Tasks
    <3> QED
      BY <2>2, <3>1
  <2>6. \A g \in Finalizer : g # f => task'[<<g, "first">>].pc = "idle"
    <3> SUFFICES ASSUME NEW g \in Finalizer, g # f
                 PROVE  task'[<<g, "first">>].pc = "idle"
      OBVIOUS
    <3>1. <<g, "first">> \in Task /\ <<g, "first">> # t /\ <<g, "first">> # <<f, "first">>
      BY <2>2, Tasks
    <3> QED
      BY <2>2, <2>4, <3>1
  <2>7. \A g \in Finalizer : task'[<<g, "second">>].pc = "idle"
    <3> SUFFICES ASSUME NEW g \in Finalizer PROVE task'[<<g, "second">>].pc = "idle"
      OBVIOUS
    <3>1. <<g, "second">> \in Task /\ <<g, "second">> # t /\ <<g, "second">> # <<f, "first">>
      BY <2>2, Tasks
    <3> QED
      BY <2>2, <2>4, <3>1
  <2>8. task'[<<f, "first">>].pc = "look" => task[<<f, "job">>].pc \in Ahead
    <3>1. <<f, "first">> \in Task /\ <<f, "first">> # t
      BY <2>2, Tasks
    <3>2. task[<<f, "first">>].pc # "look"
      BY <2>4
    <3> QED
      BY <2>2, <3>1, <3>2
  <2>9. \A x \in Task : task'[x].pc \in Persisting =>
                        task[x].pc \in Persisting /\ task'[x].plan = task[x].plan
    BY <2>2 DEF Persisting
  <2>10. SalvagesApart'
    <3>1. task'[<<f, "job">>].pc = "done"
      BY <2>2
    <3>2. \A g \in Finalizer : task'[<<g, "first">>].pc # "idle" => g = f
      BY <2>6
    <3> QED
      BY <2>7, <3>1, <3>2 DEF SalvagesApart
  <2>11. SegmentsReadable'
    <3>1. ASSUME NEW g \in Finalizer, Unwritten(g)' PROVE g = f /\ Unwritten(f)
      BY <2>3, <2>6, <2>8, <3>1 DEF Unwritten
    <3>2. ASSUME NEW g \in Finalizer, g # f, task'[<<g, "job">>].pc = "create"
          PROVE  task[<<g, "job">>].pc = "create"
      BY <2>5, <3>2
    <3>3. SegmentsReadable
      BY <2>1 DEF WorkerInv, WorkerIsWhole
    <3> QED
      BY <2>1, <3>1, <3>2, <3>3 DEF SegmentsReadable, Whole
  <2> QED
    BY <2>1, <2>9, <2>10, <2>11 DEF WorkerInv, WorkerIsWhole, Whole
<1>11. CASE WorkerCrash
  <2>1. /\ ended /\ live # {} /\ ~InApi /\ live' = live /\ row' = row
        /\ faults' = faults + 1 /\ faults < MaxFaults
    BY <1>11 DEF WorkerCrash, config, InApi
  <2>2. faults = 0 /\ faults' = 1
    BY <2>1, PostCallAssumption DEF TypeOK
  <2>3. \A g \in Finalizer : \A k \in {"first", "second"} : task[<<g, k>>].pc = "idle"
    BY <2>2, NoneSalvaging
  <2>4. \A t \in Task : \/ task'[t] = task[t]
                        \/ task[t].pc # "idle" /\ task'[t].pc \in {"load", "done"}
    BY <1>11, WorkerCrashDoes
       DEF Busy, Steps, Drafting, Persisting, Notifying, Jobbing, Live, Salvaging
  <2>5. \A g \in Finalizer : \A k \in {"first", "second"} : task'[<<g, k>>].pc = "idle"
    BY <2>3, <2>4, Tasks
  <2>6. \A x \in Task : task'[x].pc \in Persisting =>
                        task[x].pc \in Persisting /\ task'[x].plan = task[x].plan
    BY <2>4 DEF Persisting
  <2>7. SalvagesApart'
    BY <2>5 DEF SalvagesApart
  <2>8. SegmentsReadable'
    <3>1. ASSUME NEW g \in Finalizer, Unwritten(g)' PROVE FALSE
      <4>1. task'[<<g, "first">>].pc = "idle"
        BY <2>5
      <4> QED
        BY <2>2, <3>1, <4>1 DEF Unwritten
    <3> QED
      BY <3>1 DEF SegmentsReadable
  <2> QED
    BY <2>1, <2>6, <2>7, <2>8 DEF WorkerInv, WorkerIsWhole, Whole
<1>12. CASE UNCHANGED vars
  BY <1>12 DEF vars, config, WorkerInv, WorkerIsWhole, InApi, SalvagesApart, SegmentsReadable,
               Unwritten, Whole
<1> QED
  BY <1>1, <1>2, <1>3, <1>4, <1>5, <1>6, <1>7, <1>8, <1>9, <1>10, <1>11, <1>12 DEF Next

\* Whatever fails once, and however the statements of the two finalizers' jobs
\* and of a salvage fall between each other, here or on the worker, a final
\* transcript is the whole conversation and no mixture of what was heard and
\* what was transcribed (persistFinalSegments, trySalvageTranscriptAndNotify).
THEOREM FinalIsAlwaysWhole ==
  DraftsSucceed /\ MaxFaults <= 1 /\ TwoFinalizers => (Spec => []FinalIsWhole)
<1> SUFFICES ASSUME DraftsSucceed, MaxFaults <= 1, TwoFinalizers
             PROVE  Spec => []FinalIsWhole
  OBVIOUS
<1>1. WorkerInv => FinalIsWhole
  BY DEF WorkerInv, WorkerIsWhole, WholeInv, InApiIsWhole, FinalIsWhole
<1>2. WorkerInv /\ [Next]_vars => WorkerInv'
  BY WorkerStep
<1> QED
  BY <1>1, <1>2, WorkerInit, PTL DEF Spec
-----------------------------------------------------------------------------
(* A transcript that was begun is settled.                                 *)

\* The queue takes the job: what is before its try block does not reject.
JobsAreTaken == FailAt \cap {"mark", "source", "queued"} = {}

\* The steps of a task that is going to make the row final or failed.
Settling == {"mark", "source", "queued", "load", "transcribe", "upsert", "look", "fail"}

\* A salvage that failed is past its second try.
CaughtOK ==
  \A t \in Task : task[t].caught => task[t].pc \in {"fail", "done"} \cup Notifying

\* The faults a transcript recovers from: one; or any number while the process
\* lives that runs the job, but for those of marking the transcript failed.
Recoverable == MaxFaults <= 1 \/ (InApi /\ "fail" \notin FailAt)

\* A post-call job has begun for the call.
Begun == postCall /\ \E f \in Finalizer : task[<<f, "job">>].pc # "idle"

\* The console is not left with a transcript in progress that nobody works on.
NoneLeftProcessing ==
  (\A t \in Task : ~Busy(t)) /\ Begun => row.status \in {"final", "failed"}

\* Until it is final or failed a task is on its way to make it so.
SomeSettles ==
  Recoverable /\ Begun =>
    row.status \in {"final", "failed"} \/ \E t \in Task : task[t].pc \in Settling

\* What NothingStaysProcessing rests on.
SettlesInv == WholeInv /\ CaughtOK /\ SomeSettles

\* One task of a finalizer moves: one that was to settle the row does, or goes on.
LEMMA SettlesMoves ==
  ASSUME SettlesInv, NEW f \in Finalizer, NEW k \in {"job", "first", "second"},
         NEW pc, NEW plan, Moves(<<f, k>>, pc, plan), UNCHANGED config,
         \/ task[<<f, k>>].pc \notin {"fail", "done"} \cup Notifying
         \/ pc \in {"done"} \cup Notifying,
         task[<<f, k>>].pc # "idle" \/ pc \in Settling,
         \/ row'.status = row.status /\ task[<<f, k>>].pc \notin Settling
         \/ row'.status \in {"final", "failed"}
         \/ pc \in Settling
  PROVE  CaughtOK' /\ SomeSettles'
<1> DEFINE t == <<f, k>>
<1>1. t \in Task
  BY Tasks
<1>2. /\ task'[t].pc = pc /\ task'[t].caught = task[t].caught
      /\ \A x \in Task : x # t => task'[x] = task[x]
  BY <1>1 DEF Moves
<1> HIDE DEF t
<1>3. CaughtOK'
  BY <1>1, <1>2 DEF SettlesInv, CaughtOK, t
<1>4. SomeSettles'
  <2>1. CASE pc \in Settling
    BY <1>1, <1>2, <2>1 DEF SomeSettles
  <2>2. CASE row'.status \in {"final", "failed"}
    BY <2>2 DEF SomeSettles
  <2>3. CASE row'.status = row.status /\ task[t].pc \notin Settling /\ pc \notin Settling
    <3> SUFFICES ASSUME Recoverable', Begun'
                 PROVE  row.status \in {"final", "failed"}
                        \/ \E x \in Task : task'[x].pc \in Settling
      BY <2>3 DEF SomeSettles
    <3>1. Recoverable /\ postCall
      BY DEF Recoverable, Begun, InApi, config
    <3>2. \E g \in Finalizer : task[<<g, "job">>].pc # "idle"
      <4>1. PICK g \in Finalizer : task'[<<g, "job">>].pc # "idle"
        BY DEF Begun
      <4>2. CASE <<g, "job">> = t
        BY <2>3, <4>2 DEF t
      <4>3. CASE <<g, "job">> # t
        BY <1>2, <4>1, <4>3, Tasks
      <4> QED
        BY <4>2, <4>3
    <3>3. row.status \in {"final", "failed"} \/ \E x \in Task : task[x].pc \in Settling
      BY <3>1, <3>2 DEF SettlesInv, SomeSettles, Begun
    <3> QED
      BY <1>2, <2>3, <3>3
  <2> QED
    BY <2>1, <2>2, <2>3 DEF t
<1> QED
  BY <1>3, <1>4

\* It holds before the call has begun.
LEMMA SettlesInit == Init => SettlesInv
<1> SUFFICES ASSUME Init PROVE SettlesInv
  OBVIOUS
<1>1. \A t \in Task : task[t].pc = "idle" /\ task[t].caught = FALSE
  BY DEF Init, Idle
<1>2. CaughtOK
  BY <1>1 DEF CaughtOK
<1>3. ~Begun
  BY <1>1, Tasks DEF Begun
<1> QED
  BY <1>2, <1>3, WholeInit DEF SettlesInv, SomeSettles
\* A step leaves a task that settles what was begun.
LEMMA SettlesStep ==
  ASSUME DraftsSucceed, JobsAreTaken, SettlesInv, [Next]_vars
  PROVE  SettlesInv'
<1> WholeInv /\ CompleteInv /\ TypeOK /\ PcOK /\ DraftsOK /\ WaysOK /\ CaughtOK /\ SomeSettles
  BY DEF SettlesInv, WholeInv, CompleteInv
<1>0. WholeInv'
  BY WholeStep
<1> SUFFICES CaughtOK' /\ SomeSettles'
  BY <1>0 DEF SettlesInv
<1>1. ASSUME NEW u \in Utterance, HandleRealtimeCompleted(u) \/ PersistDraft(u)
      PROVE  CaughtOK' /\ SomeSettles'
  <2> DEFINE t == <<u, "draft">>
  <2>1. t \in Task /\ ~ended /\ task[t].pc \notin {"fail", "done"} \cup Notifying
    BY <1>1, Tasks DEF HandleRealtimeCompleted, PersistDraft, DraftsOK, Notifying
  <2>2. \E pc, plan : Moves(t, pc, plan)
    <3>1. CASE HandleRealtimeCompleted(u)
      BY <2>1, <3>1, GotoMoves DEF HandleRealtimeCompleted, Steps, Drafting
    <3>2. CASE PersistDraft(u)
      BY <3>2, PersistDraftDoes
    <3> QED
      BY <1>1, <3>1, <3>2
  <2>3. task'[t].caught = task[t].caught /\ \A x \in Task : x # t => task'[x] = task[x]
    BY <2>2 DEF Moves
  <2>4. CaughtOK'
    BY <2>1, <2>3 DEF CaughtOK
  <2>5. ASSUME NEW f \in Finalizer PROVE task'[<<f, "job">>].pc = "idle"
    <3>1. <<f, "job">> \in Task /\ <<f, "job">> # t /\ task[<<f, "job">>].pc = "idle"
      BY <2>1, Tasks DEF DraftsOK
    <3> QED
      BY <2>3, <3>1
  <2>6. ~Begun'
    BY <2>5 DEF Begun
  <2> QED
    BY <2>4, <2>6 DEF SomeSettles
<1>2. CASE EndCall
  BY <1>2 DEF EndCall, config, CaughtOK, SomeSettles, Recoverable, InApi, Begun
<1>3. ASSUME NEW f \in Finalizer, Finalize(f)
      PROVE  CaughtOK' /\ SomeSettles'
  <2> DEFINE t == <<f, "job">>
             k == "job"
             pc == IF postCall THEN "mark" ELSE "live"
  <2>1. t \in Task /\ task[t].pc = "idle" /\ row' = row /\ UNCHANGED config
    BY <1>3, Tasks DEF Finalize
  <2>2. Moves(<<f, k>>, pc, task[t].plan)
    BY <1>3, <2>1, GotoMoves DEF Finalize, Steps, Jobbing, Live
  <2>3. CASE postCall
    <3>1. pc \in Settling /\ task[<<f, k>>].pc \notin {"fail", "done"} \cup Notifying
      BY <2>1, <2>3 DEF Settling, Notifying
    <3>2. k \in {"job", "first", "second"}
      OBVIOUS
    <3> HIDE DEF pc, k
    <3> QED
      BY <2>1, <2>2, <3>1, <3>2, SettlesMoves
  <2>4. CASE ~postCall
    <3>1. ~Begun'
      BY <2>1, <2>4 DEF Begun, config
    <3>2. /\ task'[t].caught = task[t].caught
          /\ \A x \in Task : x # t => task'[x] = task[x]
      BY <2>1, <2>2 DEF Moves
    <3>3. CaughtOK'
      BY <2>1, <3>2 DEF CaughtOK, Notifying
    <3> QED
      BY <3>1, <3>3 DEF SomeSettles
  <2> QED
    BY <2>3, <2>4
<1>4. ASSUME NEW f \in Finalizer, Enqueue(f) \/ ProcessPostCallJob(f)
      PROVE  CaughtOK' /\ SomeSettles'
  <2> DEFINE t == <<f, "job">>
             k == "job"
  <2>1. task[t].pc \in Jobbing /\ UNCHANGED config
    BY <1>4 DEF Enqueue, ProcessPostCallJob, Jobbing
  <2>2. PICK pc, plan : pc \in {"source", "load", "queued", "transcribe", "upsert"}
                        /\ Moves(<<f, k>>, pc, plan)
    BY <1>4, EnqueueDoes, ProcessPostCallJobDoes
  <2>3. /\ pc \in Settling /\ task[<<f, k>>].pc # "idle"
        /\ task[<<f, k>>].pc \notin {"fail", "done"} \cup Notifying
        /\ k \in {"job", "first", "second"}
    BY <2>1, <2>2 DEF Settling, Jobbing, Notifying
  <2> HIDE DEF k
  <2> QED
    BY <2>1, <2>2, <2>3, SettlesMoves
<1>5. ASSUME NEW f \in Finalizer, FinalizeLiveTranscript(f)
      PROVE  CaughtOK' /\ SomeSettles'
  <2> DEFINE t == <<f, "job">>
  <2>1. t \in Task /\ ~postCall /\ UNCHANGED config /\ task[t].pc \in Live
    BY <1>5, Tasks DEF FinalizeLiveTranscript, Live, WaysOK
  <2>2. \E pc, plan : Moves(t, pc, plan)
    BY <1>5, FinalizeLiveTranscriptDoes
  <2>3. task'[t].caught = task[t].caught /\ \A x \in Task : x # t => task'[x] = task[x]
    BY <2>2 DEF Moves
  <2>4. CaughtOK'
    BY <2>1, <2>3 DEF CaughtOK, Live, Notifying
  <2>5. ~Begun'
    BY <2>1 DEF Begun, config
  <2> QED
    BY <2>4, <2>5 DEF SomeSettles
<1>6. ASSUME NEW t \in Task, PersistFinal(t) \/ Notify(t) \/ Look(t) \/ MarkFailed(t)
                             \/ PostUnanswered(t)
      PROVE  CaughtOK' /\ SomeSettles'
  <2>1. /\ task[t].pc \in Persisting \cup Salvaging \cup Notifying /\ UNCHANGED config
        /\ task[t].pc # "idle"
    BY <1>6 DEF PersistFinal, Notify, Look, MarkFailed, PostUnanswered, Persisting, Salvaging,
                Notifying
  <2>2. PICK f \in Finalizer : \E k \in {"job", "first", "second"} : t = <<f, k>>
    BY <2>1, WriterIs
  <2>3. PICK k \in {"job", "first", "second"} : t = <<f, k>>
    BY <2>2
  <2>4. PICK pc, plan :
          /\ Moves(t, pc, plan)
          /\ \/ task[t].pc \notin {"fail", "done"} \cup Notifying
             \/ pc \in {"done"} \cup Notifying
          /\ \/ row'.status = row.status /\ task[t].pc \notin Settling
             \/ row'.status \in {"final", "failed"}
             \/ pc \in Settling
    <3>1. CASE PersistFinal(t)
      <4>1. task[t].pc \notin {"fail", "done"} \cup Notifying
        BY <3>1 DEF PersistFinal, Notifying
      <4>2. \/ /\ task[t].pc = "upsert" /\ Moves(t, "delete", task[t].plan)
               /\ row' = Row("final", task[t].plan, row.segs)
            \/ /\ task[t].pc = "delete" /\ Moves(t, "create", task[t].plan)
               /\ row' = Row(row.status, row.content, {})
            \/ /\ task[t].pc = "create" /\ Moves(t, "notify", task[t].plan)
               /\ row' = Row(row.status, row.content, row.segs \cup task[t].plan)
        BY <3>1, PersistFinalDoes
      <4>3. \/ row'.status = "final"
            \/ row'.status = row.status /\ task[t].pc \in {"delete", "create"}
        BY <4>2, RowFields
      <4> QED
        BY <4>1, <4>2, <4>3 DEF Settling
    <3>2. CASE Notify(t)
      <4>1. task[t].pc \in Notifying /\ row' = row
        BY <3>2 DEF Notify, Notifying
      <4>2. \/ \E plan : Moves(t, "post", plan)
            \/ \E plan : Moves(t, "record", plan)
            \/ \E plan : Moves(t, "done", plan)
        BY <3>2, NotifyDoes
      <4> QED
        BY <4>1, <4>2 DEF Notifying, Settling
    <3>3. CASE Look(t)
      <4>1. task[t].pc = "look"
        BY <3>3, LookDoes
      <4>2. \E pc, plan : pc \in {"upsert", "fail"} /\ Moves(t, pc, plan)
        BY <3>3, LookDoes
      <4> QED
        BY <4>1, <4>2 DEF Settling, Notifying
    <3>4. CASE MarkFailed(t)
      <4>1. /\ Moves(t, "notify", task[t].plan)
            /\ row' = Row("failed", row.content, row.segs)
        BY <3>4, MarkFailedDoes
      <4>2. row'.status = "failed"
        BY <4>1, RowFields
      <4> QED
        BY <4>1, <4>2 DEF Notifying
    <3>5. CASE PostUnanswered(t)
      <4>1. task[t].pc = "post" /\ row' = row /\ Goto(t, "done")
        BY <3>5 DEF PostUnanswered
      <4>2. Moves(t, "done", task[t].plan)
        BY <4>1, GotoMoves
      <4> QED
        BY <4>1, <4>2 DEF Settling
    <3> QED
      BY <1>6, <3>1, <3>2, <3>3, <3>4, <3>5
  <2> QED
    BY <2>1, <2>3, <2>4, SettlesMoves
<1>7. ASSUME NEW t \in Task, Fail(t)
      PROVE  CaughtOK' /\ SomeSettles'
  <2>1. /\ row' = row /\ integration' = integration /\ postCall' = postCall
        /\ task[t].pc \in FailAt /\ faults < MaxFaults /\ ended
    <3>1. PICK f \in Finalizer, k \in {"job", "first", "second"} : FailsAs(t, f, k)
      BY <1>7, FailIs
    <3> QED
      BY <1>7, <3>1 DEF Fail, config, FailsAs
  <2>2. PICK f \in Finalizer, k \in {"job", "first", "second"} : FailsAs(t, f, k)
    BY <1>7, FailIs
  <2>3. t = <<f, k>> /\ t[2] = k /\ task[t].pc # "idle"
    BY <2>2 DEF FailsAs, Steps, Drafting, Persisting, Notifying, Jobbing, Live, Salvaging
  <2>4. \A x : ~Salvage(x).caught /\ Salvage(x).pc \in Settling
    BY DEF Salvage, Settling
  <2>5. \A x \in Task : x # t => \/ task'[x] = task[x]
                                 \/ task'[x] = Salvage(x) /\ postCall
    BY <2>2 DEF FailsAs
  <2>6. task'[t].pc = "done" \/ (task'[t].pc = "fail" /\ k # "job" /\ ~task[t].caught)
    BY <1>7, <2>3, FailDoes
  <2>7. CaughtOK'
    BY <2>4, <2>5, <2>6 DEF CaughtOK
  <2>8. SomeSettles'
    <3> SUFFICES ASSUME Recoverable, Begun', row.status \notin {"final", "failed"}
                 PROVE  \E x \in Task : task'[x].pc \in Settling
      BY <2>1 DEF SomeSettles, Recoverable, InApi
    <3>1. Begun
      <4>1. postCall
        BY <2>1 DEF Begun
      <4>2. PICK g \in Finalizer : task'[<<g, "job">>].pc # "idle"
        BY DEF Begun
      <4>3. CASE <<g, "job">> = t
        BY <2>3, <4>1, <4>3 DEF Begun
      <4>4. CASE <<g, "job">> # t
        <5>1. <<g, "job">> \in Task /\ <<g, "job">> \notin {<<f, "first">>, <<f, "second">>}
          BY Tasks
        <5>2. task'[<<g, "job">>] = task[<<g, "job">>]
          BY <2>2, <4>4, <5>1 DEF FailsAs
        <5> QED
          BY <4>1, <4>2, <5>2 DEF Begun
      <4> QED
        BY <4>3, <4>4
    <3>2. PICK x \in Task : task[x].pc \in Settling
      BY <3>1 DEF SomeSettles
    <3>3. CASE x # t
      BY <2>4, <2>5, <3>2, <3>3
    <3>4. CASE x = t /\ k = "job"
      <4>1. task[t].pc \notin Salvaging
        BY <2>3, <3>4 DEF PcOK, Jobbing, Live, Persisting, Notifying, Salvaging
      <4>2. task[t].pc \in {"load", "transcribe"} \cup Persisting
        BY <2>1, <3>2, <3>4, <4>1 DEF JobsAreTaken, Settling, Salvaging, Persisting
      <4>3. postCall
        BY <2>1 DEF Begun
      <4>4. task'[<<f, "first">>] = Salvage(<<f, "first">>)
        BY <2>2, <3>4, <4>2, <4>3 DEF FailsAs
      <4> QED
        BY <2>4, <4>4, Tasks
    <3>5. CASE x = t /\ k # "job"
      <4>1. faults >= 1
        BY <2>3, <3>5 DEF WaysOK
      <4>2. "fail" \notin FailAt
        BY <2>1, <4>1, PostCallAssumption DEF Recoverable, TypeOK
      <4>3. ~task[t].caught
        BY <2>1, <3>2, <3>5, <4>2 DEF CaughtOK, Settling, Notifying
      <4>4. task'[t].pc = "fail"
        BY <1>7, <2>3, <3>5, <4>3, FailDoes
      <4> QED
        BY <4>4 DEF Settling
    <3> QED
      BY <3>3, <3>4, <3>5
  <2> QED
    BY <2>7, <2>8
<1>8. CASE WorkerCrash
  <2>1. /\ row' = row /\ integration' = integration /\ postCall' = postCall
        /\ faults < MaxFaults
    BY <1>8 DEF WorkerCrash, config
  <2>2. \A t \in Task :
          \/ task'[t] = task[t]
          \/ /\ ~InApi /\ task[t].pc # "idle" /\ ~task'[t].caught
             /\ task'[t].pc = IF t[2] = "job" THEN "load" ELSE "done"
    BY <1>8, WorkerCrashDoes
       DEF OnWorker, InApi, Busy, Steps, Drafting, Persisting, Notifying, Jobbing, Live,
           Salvaging
  <2>3. CaughtOK'
    BY <2>2 DEF CaughtOK
  <2>4. SomeSettles'
    <3> SUFFICES ASSUME Recoverable, Begun', row.status \notin {"final", "failed"}
                 PROVE  \E x \in Task : task'[x].pc \in Settling
      BY <2>1 DEF SomeSettles, Recoverable, InApi
    <3>1. Begun
      BY <2>1, <2>2, Tasks DEF Begun
    <3>2. PICK x \in Task : task[x].pc \in Settling
      BY <3>1 DEF SomeSettles
    <3>3. CASE task'[x] = task[x]
      BY <3>2, <3>3
    <3>4. CASE ~InApi /\ task'[x].pc = IF x[2] = "job" THEN "load" ELSE "done"
      <4>1. faults = 0
        BY <2>1, <3>4, PostCallAssumption DEF Recoverable, TypeOK
      <4>2. x[2] = "job"
        <5>1. \A f \in Finalizer : \A k \in {"first", "second"} : task[<<f, k>>].pc = "idle"
          BY <4>1, NoneSalvaging
        <5>2. \A u \in Utterance : task[<<u, "draft">>].pc \notin Settling
                                   /\ task[<<u, "salvage">>].pc \notin Settling
          BY DEF PcOK, Drafting, Settling
        <5>3. "idle" \notin Settling
          BY DEF Settling
        <5>4. \A f \in Finalizer : /\ x # <<f, "first">> /\ x # <<f, "second">>
          BY <3>2, <5>1, <5>3
        <5>5. \A u \in Utterance : x # <<u, "draft">> /\ x # <<u, "salvage">>
          BY <3>2, <5>2
        <5> QED
          BY <5>4, <5>5 DEF Task
      <4> QED
        BY <3>4, <4>2 DEF Settling
    <3> QED
      BY <2>2, <3>3, <3>4
  <2> QED
    BY <2>3, <2>4
<1>9. CASE UNCHANGED vars
  BY <1>9 DEF vars, config, CaughtOK, SomeSettles, Recoverable, InApi, Begun
<1> QED
  BY <1>1, <1>2, <1>3, <1>4, <1>5, <1>6, <1>7, <1>8, <1>9 DEF Next

\* A call whose job has begun is not left in progress: when all has come to rest
\* its transcript is final or failed, whatever fails once, and however often
\* something fails in the API process (recordTranscriptError and the two catch
\* blocks that call it, enqueuePostCallTranscription and processPostCallJob).
THEOREM NothingStaysProcessing ==
  DraftsSucceed /\ JobsAreTaken => (Spec => [](Recoverable => NoneLeftProcessing))
<1> SUFFICES ASSUME DraftsSucceed, JobsAreTaken
             PROVE  Spec => [](Recoverable => NoneLeftProcessing)
  OBVIOUS
<1>1. SettlesInv => (Recoverable => NoneLeftProcessing)
  BY DEF SettlesInv, SomeSettles, NoneLeftProcessing, Settling, Busy, Steps, Jobbing,
         Persisting, Salvaging
<1>2. SettlesInv /\ [Next]_vars => SettlesInv'
  BY SettlesStep
<1> QED
  BY <1>1, <1>2, SettlesInit, PTL DEF Spec

=============================================================================
