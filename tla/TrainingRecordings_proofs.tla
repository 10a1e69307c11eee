---------------------- MODULE TrainingRecordings_proofs ----------------------
(***************************************************************************)
(* Proofs about TrainingRecordings, for any number of transcriptions and   *)
(* of fine-tunes: what is sent for training has been redacted, and what is *)
(* shown as in progress has a request.                                     *)
(***************************************************************************)
EXTENDS TrainingRecordings, TLAPS

-----------------------------------------------------------------------------
(* What is sent for training.  A dataset takes the text of an approved      *)
(* recording, so the invariant says that an approved one is redacted.       *)

RecordingOK ==
  recording \in [status : {"none", "uploaded", "transcribing", "transcribed",
                           "approved", "failed", "deleted"},
                 text : BOOLEAN, redacted : BOOLEAN, approved : BOOLEAN]

DatasetOK ==
  dataset \in [status : {"none", "draft", "ready", "uploaded"},
               examples : {"none", "redacted", "raw", "empty"}]

ApprovedIsRedacted ==
  ~cleared => (recording.approved => recording.redacted)

RedactionInv ==
  RecordingOK /\ DatasetOK /\ cleared \in BOOLEAN
    /\ ApprovedIsRedacted /\ ExamplesRedacted

\* At first nothing is approved, and there is no dataset.
LEMMA RedactionInit == Init => RedactionInv
<1> SUFFICES ASSUME Init PROVE RedactionInv
  OBVIOUS
<1>1. RecordingOK /\ ~recording.approved
  BY DEF Init, RecordingOK, NoRecording
<1>2. DatasetOK /\ dataset.examples = "none"
  BY DEF Init, DatasetOK, NoDataset
<1>3. cleared \in BOOLEAN
  BY DEF Init
<1> QED BY <1>1, <1>2, <1>3 DEF RedactionInv, ApprovedIsRedacted, ExamplesRedacted

\* The steps that write the recording.
RecordingStep ==
  \/ UploadRecording \/ ApproveRecording \/ UpdateRecording \/ DeleteRecording
  \/ \E t \in Transcriber :
       MarkTranscribing(t) \/ Transcribed(t) \/ TranscriptionFails(t)

\* A step on the recording keeps what is approved redacted.
LEMMA RedactionRecording ==
  ASSUME RedactionInv, RecordingStep
  PROVE  RedactionInv'
<1> USE DEF RedactionInv, RecordingOK, DatasetOK, ApprovedIsRedacted,
            ExamplesRedacted, NoRecording
<1>1. CASE UploadRecording
  BY <1>1 DEF UploadRecording
<1>2. CASE ApproveRecording
  BY <1>2 DEF ApproveRecording
<1>3. CASE UpdateRecording
  <2>1. dataset' = dataset /\ (cleared' = cleared \/ cleared' = TRUE)
    BY <1>3 DEF UpdateRecording
  <2>2. RecordingOK'
    BY <1>3 DEF UpdateRecording
  <2>3. ApprovedIsRedacted'
    <3>1. CASE recording' = [NoRecording EXCEPT !.status = "uploaded"]
      BY <3>1
    <3>2. CASE recording' = [recording EXCEPT !.text = TRUE, !.approved = FALSE,
                                              !.status = "transcribed"]
      BY <3>2
    <3>3. CASE recording' = [recording EXCEPT !.text = FALSE] /\ cleared' = cleared
      BY <3>3
    <3>4. CASE recording' = [recording EXCEPT !.redacted = TRUE]
      BY <3>4
    <3>5. CASE cleared' = TRUE
      BY <3>5
    <3> QED BY <1>3, <3>1, <3>2, <3>3, <3>4, <3>5 DEF UpdateRecording
  <2> QED BY <2>1, <2>2, <2>3
<1>4. CASE DeleteRecording
  BY <1>4 DEF DeleteRecording
<1>5. ASSUME NEW t \in Transcriber, MarkTranscribing(t)
      PROVE  RedactionInv'
  BY <1>5 DEF MarkTranscribing
<1>6. ASSUME NEW t \in Transcriber, Transcribed(t)
      PROVE  RedactionInv'
  BY <1>6 DEF Transcribed
<1>7. ASSUME NEW t \in Transcriber, TranscriptionFails(t)
      PROVE  RedactionInv'
  BY <1>7 DEF TranscriptionFails
<1> QED BY <1>1, <1>2, <1>3, <1>4, <1>5, <1>6, <1>7 DEF RecordingStep

\* The steps that write the dataset.
DatasetStep ==
  CreateDataset \/ WriteDataset \/ \E j \in Tuner : MarkUploaded(j)

\* A step on the dataset writes what is approved.
LEMMA RedactionDataset ==
  ASSUME RedactionInv, DatasetStep
  PROVE  RedactionInv'
<1> USE DEF RedactionInv, RecordingOK, DatasetOK, ApprovedIsRedacted,
            ExamplesRedacted
<1>1. CASE CreateDataset
  <2>1. /\ recording' = recording /\ cleared' = cleared
        /\ dataset' = [status |-> "draft", examples |-> ExampleOf]
        /\ recording.approved
    BY <1>1 DEF CreateDataset
  <2>2. /\ ExampleOf \in {"redacted", "raw", "empty"}
        /\ recording.redacted => ExampleOf = "redacted"
    BY DEF ExampleOf
  <2> QED BY <2>1, <2>2
<1>2. CASE WriteDataset
  BY <1>2 DEF WriteDataset
<1>3. ASSUME NEW j \in Tuner, MarkUploaded(j)
      PROVE  RedactionInv'
  BY <1>3 DEF MarkUploaded
<1> QED BY <1>1, <1>2, <1>3 DEF DatasetStep

\* The others write neither.
LEMMA OtherSteps ==
  ASSUME [Next]_vars
  PROVE  RecordingStep \/ DatasetStep \/ UNCHANGED <<recording, dataset, cleared>>
<1>1. ASSUME NEW t \in Transcriber,
             TranscribeRecording(t) \/ LogTranscribed(t) \/ FailureRejected(t)
      PROVE  UNCHANGED <<recording, dataset, cleared>>
  BY <1>1 DEF TranscribeRecording, LogTranscribed, FailureRejected
<1>2. ASSUME NEW j \in Tuner,
             \/ StartFineTune(j) \/ UploadTrainingFile(j) \/ ProviderStarts(j)
             \/ NoteProviderJob(j) \/ LogFineTune(j)
             \/ FineTuneFails(j) \/ FineTuneRejected(j)
      PROVE  UNCHANGED <<recording, dataset, cleared>>
  BY <1>2 DEF StartFineTune, UploadTrainingFile, ProviderStarts, NoteProviderJob,
              LogFineTune, FineTuneFails, FineTuneRejected
<1>3. ASSUME NEW j \in Tuner,
             ProviderAdvances(j) \/ RefreshJob(j) \/ NoteRefresh(j)
      PROVE  UNCHANGED <<recording, dataset, cleared>>
  BY <1>3 DEF ProviderAdvances, RefreshJob, NoteRefresh
<1>4. ApiStops \/ UNCHANGED vars => UNCHANGED <<recording, dataset, cleared>>
  BY DEF ApiStops, vars
<1> QED BY <1>1, <1>2, <1>3, <1>4 DEF Next, RecordingStep, DatasetStep

\* Every step keeps the invariant of the redaction.
LEMMA RedactionStep == RedactionInv /\ [Next]_vars => RedactionInv'
<1> SUFFICES ASSUME RedactionInv, [Next]_vars PROVE RedactionInv'
  OBVIOUS
<1>1. CASE RecordingStep BY <1>1, RedactionRecording
<1>2. CASE DatasetStep BY <1>2, RedactionDataset
<1>3. CASE UNCHANGED <<recording, dataset, cleared>>
  BY <1>3 DEF RedactionInv, RecordingOK, DatasetOK, ApprovedIsRedacted,
              ExamplesRedacted
<1> QED BY <1>1, <1>2, <1>3, OtherSteps

\* The examples of a dataset are redacted transcripts, whatever the order of
\* transcriptions, approvals, edits and resets, unless an operator emptied one.
THEOREM DatasetsAreRedacted == Spec => []ExamplesRedacted
<1>1. RedactionInv => ExamplesRedacted
  BY DEF RedactionInv
<1> QED BY <1>1, RedactionInit, RedactionStep, PTL DEF Spec

-----------------------------------------------------------------------------
(* What is shown as in progress.  A refresh brings only what the provider   *)
(* says of a job, so it never puts a row back to uploading.                 *)

ProviderStatus == {"none", "queued", "running", "succeeded", "failed"}

TranscriberPhase == {"idle", "checked", "waiting", "logging"}

RequestsOK ==
  /\ transcriber \in [Transcriber -> TranscriberPhase]
  /\ tuner \in [Tuner -> {"idle", "uploading", "marking", "starting", "started",
                          "noted", "done", "failed", "lost"}]
  /\ tuning \in [Tuner -> ProviderStatus \cup {"uploading"}]
  /\ provider \in [Tuner -> ProviderStatus]
  /\ refresh \in [Tuner -> ProviderStatus]

\* The recording waits for the transcription that marked it last.
TranscribingHasRequest ==
  recording.status = "transcribing"
    => marker = "lost" \/ (marker \in Transcriber /\ transcriber[marker] = "waiting")

TuningHasRequest ==
  \A j \in Tuner : tuning[j] = "uploading"
    => tuner[j] \in {"uploading", "marking", "starting", "started", "lost"}

RequestInv == RequestsOK /\ TranscribingHasRequest /\ TuningHasRequest

\* At first nothing is in progress.
LEMMA RequestInit == Init => RequestInv
<1> SUFFICES ASSUME Init PROVE RequestInv
  OBVIOUS
<1>1. RequestsOK
  BY DEF Init, RequestsOK, ProviderStatus, TranscriberPhase
<1>2. TranscribingHasRequest
  BY DEF Init, TranscribingHasRequest, NoRecording
<1>3. TuningHasRequest
  BY DEF Init, TuningHasRequest
<1> QED BY <1>1, <1>2, <1>3 DEF RequestInv

\* What the requests to transcribe and the edits of the recording do.
TranscriberStep ==
  \/ RecordingStep
  \/ \E t \in Transcriber :
       TranscribeRecording(t) \/ LogTranscribed(t) \/ FailureRejected(t)

\* A step of a transcription keeps the request of what is in progress.
LEMMA RequestTranscriber ==
  ASSUME RequestInv, RecordingOK, TranscriberStep
  PROVE  RequestInv'
<1>1. ASSUME UNCHANGED tunes,
             transcriber' \in [Transcriber -> TranscriberPhase],
             TranscribingHasRequest'
      PROVE  RequestInv'
  BY <1>1 DEF RequestInv, RequestsOK, TuningHasRequest, tunes
<1> USE DEF RequestInv, RequestsOK, RecordingOK, TranscribingHasRequest,
            TranscriberPhase
<1>2. CASE UploadRecording
  BY <1>1, <1>2 DEF UploadRecording, NoRecording
<1>3. CASE ApproveRecording
  BY <1>1, <1>3 DEF ApproveRecording
<1>4. CASE UpdateRecording
  <2>1. UNCHANGED tunes /\ UNCHANGED marker /\ UNCHANGED transcriber
    BY <1>4 DEF UpdateRecording
  <2>2. recording'.status # "transcribing" \/ recording'.status = recording.status
    <3>1. CASE recording' = [NoRecording EXCEPT !.status = "uploaded"]
      BY <3>1 DEF NoRecording
    <3>2. CASE recording' = [recording EXCEPT !.text = TRUE, !.approved = FALSE,
                                              !.status = "transcribed"]
      BY <3>2
    <3>3. CASE \/ recording' = [recording EXCEPT !.text = FALSE]
               \/ recording' = [recording EXCEPT !.redacted = TRUE]
               \/ recording' = [recording EXCEPT !.redacted = FALSE]
      BY <3>3
    <3> QED BY <1>4, <3>1, <3>2, <3>3 DEF UpdateRecording
  <2> QED BY <1>1, <2>1, <2>2
<1>5. CASE DeleteRecording
  BY <1>1, <1>5 DEF DeleteRecording, NoRecording
<1>6. ASSUME NEW t \in Transcriber, TranscribeRecording(t) \/ LogTranscribed(t)
      PROVE  RequestInv'
  <2>1. /\ UNCHANGED tunes /\ UNCHANGED <<recording, marker>>
        /\ transcriber[t] # "waiting"
        /\ \E phase \in TranscriberPhase :
             transcriber' = [transcriber EXCEPT ![t] = phase]
    BY <1>6 DEF TranscribeRecording, LogTranscribed
  <2> QED BY <1>1, <2>1
<1>7. ASSUME NEW t \in Transcriber, MarkTranscribing(t)
      PROVE  RequestInv'
  <2>1. transcriber[t] = "checked" /\ UNCHANGED tunes
    BY <1>7 DEF MarkTranscribing
  <2>2. CASE transcriber' = [transcriber EXCEPT ![t] = "waiting"] /\ marker' = t
    BY <1>1, <2>1, <2>2
  <2>3. CASE /\ transcriber' = [transcriber EXCEPT ![t] = "idle"]
             /\ UNCHANGED <<recording, marker>>
    BY <1>1, <2>1, <2>3
  <2> QED BY <1>7, <2>2, <2>3 DEF MarkTranscribing
<1>8. ASSUME NEW t \in Transcriber, Transcribed(t) \/ TranscriptionFails(t)
      PROVE  RequestInv'
  <2>1. /\ UNCHANGED tunes
        /\ \E phase \in TranscriberPhase :
             transcriber' = [transcriber EXCEPT ![t] = phase]
    BY <1>8 DEF Transcribed, TranscriptionFails
  <2>2. recording'.status # "transcribing"
    BY <1>8 DEF Transcribed, TranscriptionFails
  <2> QED BY <1>1, <2>1, <2>2
<1>9. ASSUME NEW t \in Transcriber, FailureRejected(t)
      PROVE  RequestInv'
  <2>1. /\ UNCHANGED tunes /\ UNCHANGED recording
        /\ transcriber' = [transcriber EXCEPT ![t] = "idle"]
        /\ marker' = IF marker = t THEN "lost" ELSE marker
    BY <1>9 DEF FailureRejected
  <2> QED BY <1>1, <2>1
<1> QED BY <1>2, <1>3, <1>4, <1>5, <1>6, <1>7, <1>8, <1>9
           DEF TranscriberStep, RecordingStep

\* What a fine-tune does, and the provider with its job.
TunerStep(j) ==
  \/ StartFineTune(j) \/ UploadTrainingFile(j) \/ MarkUploaded(j)
  \/ ProviderStarts(j) \/ NoteProviderJob(j) \/ LogFineTune(j)
  \/ FineTuneFails(j) \/ FineTuneRejected(j)
  \/ ProviderAdvances(j) \/ RefreshJob(j) \/ NoteRefresh(j)

\* A step of a fine-tune keeps the request of the job that is uploading.
LEMMA RequestTuner ==
  ASSUME RequestInv, UNCHANGED <<recording, transcriber, marker>>,
         NEW j \in Tuner, TunerStep(j)
  PROVE  RequestInv'
<1>1. ASSUME RequestsOK', TuningHasRequest' PROVE RequestInv'
  BY <1>1 DEF RequestInv, TranscribingHasRequest
<1> USE DEF RequestInv, RequestsOK, TuningHasRequest, ProviderStatus, TunerAt, TuningIs
<1>2. CASE StartFineTune(j)
  BY <1>1, <1>2 DEF StartFineTune
<1>3. CASE UploadTrainingFile(j)
  BY <1>1, <1>3 DEF UploadTrainingFile
<1>4. CASE MarkUploaded(j)
  BY <1>1, <1>4 DEF MarkUploaded
<1>5. CASE ProviderStarts(j)
  BY <1>1, <1>5 DEF ProviderStarts
<1>6. CASE NoteProviderJob(j)
  BY <1>1, <1>6 DEF NoteProviderJob
<1>7. CASE LogFineTune(j)
  BY <1>1, <1>7 DEF LogFineTune
<1>8. CASE FineTuneFails(j)
  BY <1>1, <1>8 DEF FineTuneFails, EndOf
<1>9. CASE FineTuneRejected(j)
  BY <1>1, <1>9 DEF FineTuneRejected, EndOf
<1>10. CASE ProviderAdvances(j)
  BY <1>1, <1>10 DEF ProviderAdvances
<1>11. CASE RefreshJob(j)
  BY <1>1, <1>11 DEF RefreshJob
<1>12. CASE NoteRefresh(j)
  BY <1>1, <1>12 DEF NoteRefresh
<1> QED BY <1>2, <1>3, <1>4, <1>5, <1>6, <1>7, <1>8, <1>9, <1>10, <1>11, <1>12
           DEF TunerStep

\* When the API stops, what it was doing is lost.
LEMMA RequestStops ==
  ASSUME RequestInv, ApiStops
  PROVE  RequestInv'
<1> USE DEF RequestInv, RequestsOK, ApiStops
<1>1. RequestsOK'
  BY DEF ProviderStatus, TranscriberPhase, EndOf
<1>2. TranscribingHasRequest'
  BY DEF TranscribingHasRequest
<1>3. TuningHasRequest'
  BY DEF TuningHasRequest, Trying, EndOf
<1> QED BY <1>1, <1>2, <1>3

\* Every step keeps the requests of what is in progress.
LEMMA RequestStep == RecordingOK /\ RequestInv /\ [Next]_vars => RequestInv'
<1> SUFFICES ASSUME RecordingOK, RequestInv, [Next]_vars PROVE RequestInv'
  OBVIOUS
<1>1. CASE TranscriberStep
  BY <1>1, RequestTranscriber
<1>2. CASE CreateDataset \/ WriteDataset
  BY <1>2 DEF CreateDataset, WriteDataset, tunes, RequestInv, RequestsOK,
              TranscribingHasRequest, TuningHasRequest
<1>3. ASSUME NEW j \in Tuner, TunerStep(j)
      PROVE  RequestInv'
  <2>1. UNCHANGED <<recording, transcriber, marker>>
    BY <1>3 DEF TunerStep, StartFineTune, UploadTrainingFile, MarkUploaded,
                ProviderStarts, NoteProviderJob, LogFineTune, FineTuneFails,
                FineTuneRejected, ProviderAdvances, RefreshJob, NoteRefresh
  <2> QED BY <1>3, <2>1, RequestTuner
<1>4. CASE ApiStops
  BY <1>4, RequestStops
<1>5. CASE UNCHANGED vars
  BY <1>5 DEF vars, RequestInv, RequestsOK, TranscribingHasRequest, TuningHasRequest
<1> QED BY <1>1, <1>2, <1>3, <1>4, <1>5
           DEF Next, TranscriberStep, RecordingStep, TunerStep

\* A recording is transcribing, and a job uploading, only while the request that
\* will write its outcome goes on, or when that very one could not write it.
THEOREM WorkHasRequest == Spec => []InProgressHasRequest
<1>1. RequestInv => InProgressHasRequest
  BY DEF RequestInv, TranscribingHasRequest, TuningHasRequest, InProgressHasRequest
<1>2. RedactionInv => RecordingOK
  BY DEF RedactionInv
<1> QED BY <1>1, <1>2, RedactionInit, RedactionStep, RequestInit, RequestStep,
           PTL DEF Spec

=============================================================================
