------------------------- MODULE TrainingRecordings -------------------------
(***************************************************************************)
(* Training recordings, the datasets made of them and the fine-tuning      *)
(* jobs: TrainingService, for one recording and one dataset.               *)
(*                                                                         *)
(* A transcription reads its recording, marks it, waits for the provider   *)
(* and writes the outcome; a fine-tune creates its row, uploads the file,  *)
(* starts the provider's job and writes the row again.  Other requests of  *)
(* the console, the same operation of a second user among them, run        *)
(* between these steps.  An outcome is left out when the update that the   *)
(* catch block makes rejects, or the API stops.                            *)
(***************************************************************************)
EXTENDS Naturals

CONSTANTS
  Transcriber,   \* concurrent requests to transcribe the recording
  Tuner          \* fine-tunes of the dataset, each with its trainingJob row

VARIABLES
  recording,     \* the row: status, text, redacted, approved
  transcriber,   \* Transcriber -> phase
  dataset,       \* the dataset's status, and the text its examples took
  file,          \* openAiFileId of the dataset is set
  tuner,         \* Tuner -> phase of startFineTune
  tuning,        \* Tuner -> status of its trainingJob row
  provider,      \* Tuner -> status of its job at the provider
  refresh,       \* Tuner -> the provider's answer a refresh has in hand
  cleared,       \* an operator emptied a redacted transcript
  marker         \* the transcription whose outcome the recording waits for, or
                 \* "lost" when it could not be written

vars == <<recording, transcriber, dataset, file, tuner, tuning, provider, refresh,
          cleared, marker>>

tunes == <<file, tuner, tuning, provider, refresh>>

NoRecording == [status |-> "none", text |-> FALSE, redacted |-> FALSE, approved |-> FALSE]
NoDataset == [status |-> "none", examples |-> "none"]

Init ==
  /\ recording = NoRecording
  /\ transcriber = [t \in Transcriber |-> "idle"]
  /\ dataset = NoDataset
  /\ file = FALSE
  /\ tuner = [j \in Tuner |-> "idle"]
  /\ tuning = [j \in Tuner |-> "none"]
  /\ provider = [j \in Tuner |-> "none"]
  /\ refresh = [j \in Tuner |-> "none"]
  /\ cleared = FALSE /\ marker = "none"

Exists == recording.status \notin {"none", "deleted"}

-----------------------------------------------------------------------------
(* The recording.                                                          *)

UploadRecording ==
  /\ recording.status = "none"
  /\ recording' = [NoRecording EXCEPT !.status = "uploaded"]
  /\ UNCHANGED <<transcriber, dataset, tunes, cleared, marker>>

\* transcribeRecording, up to the check of the file: a transcript is not made
\* twice.
TranscribeRecording(t) ==
  /\ transcriber[t] = "idle" /\ Exists
  /\ ~(recording.text /\ recording.status \in {"transcribed", "approved"})
  /\ transcriber' = [transcriber EXCEPT ![t] = "checked"]
  /\ UNCHANGED <<recording, dataset, tunes, cleared, marker>>

\* The update of a row that was deleted throws; so may any other.
MarkTranscribing(t) ==
  /\ transcriber[t] = "checked"
  /\ \/ /\ Exists
        /\ transcriber' = [transcriber EXCEPT ![t] = "waiting"]
        /\ recording' = [recording EXCEPT !.status = "transcribing"]
        /\ marker' = t
     \/ /\ transcriber' = [transcriber EXCEPT ![t] = "idle"]
        /\ UNCHANGED <<recording, marker>>
  /\ UNCHANGED <<dataset, tunes, cleared>>

\* The raw and the redacted transcript are written together; trainingApproved
\* stays as it is.  The audit log comes after.
Transcribed(t) ==
  /\ transcriber[t] = "waiting" /\ Exists
  /\ transcriber' = [transcriber EXCEPT ![t] = "logging"]
  /\ recording' = [recording EXCEPT !.text = TRUE, !.redacted = TRUE,
                                    !.status = "transcribed"]
  /\ marker' = "none"
  /\ UNCHANGED <<dataset, tunes, cleared>>

LogTranscribed(t) ==
  /\ transcriber[t] = "logging"
  /\ transcriber' = [transcriber EXCEPT ![t] = "idle"]
  /\ UNCHANGED <<recording, dataset, tunes, cleared, marker>>

FailureForgotten(t) ==
  /\ transcriber[t] = "waiting"
  /\ transcriber' = [transcriber EXCEPT ![t] = "idle"]
  /\ UNCHANGED <<recording, dataset, tunes, cleared, marker>>

\* A step of the try block throws, the audit log of a transcript that has been
\* written too.
TranscriptionFails(t) ==
  /\ transcriber[t] \in {"waiting", "logging"} /\ Exists
  /\ transcriber' = [transcriber EXCEPT ![t] = "idle"]
  /\ recording' = [recording EXCEPT !.status = "failed"]
  /\ marker' = "none"
  /\ UNCHANGED <<dataset, tunes, cleared>>

\* The update of the catch block rejects, as it does for a row that was deleted.
FailureRejected(t) ==
  /\ transcriber[t] \in {"waiting", "logging"}
  /\ transcriber' = [transcriber EXCEPT ![t] = "idle"]
  /\ marker' = IF marker = t THEN "lost" ELSE marker
  /\ UNCHANGED <<recording, dataset, tunes, cleared>>

ApproveAsIs ==
  /\ Exists
  /\ recording' = [recording EXCEPT !.status = "approved", !.approved = TRUE]
  /\ UNCHANGED <<transcriber, dataset, tunes, cleared, marker>>

\* The redacted text of the request, or else of the row, or else the raw one, is
\* redacted again and approved; a request that brings a text is never refused.
ApproveRecording ==
  /\ Exists
  /\ recording' = [recording EXCEPT !.status = "approved", !.approved = TRUE,
                                    !.redacted = TRUE]
  /\ UNCHANGED <<transcriber, dataset, tunes, cleared, marker>>

\* updateRecording: a reset, a new transcript, or an empty or a new value of
\* one text alone.
UpdateRecording ==
  /\ Exists
  /\ \/ /\ recording' = [NoRecording EXCEPT !.status = "uploaded"]
        /\ UNCHANGED cleared
     \/ /\ recording' = [recording EXCEPT !.text = TRUE, !.approved = FALSE,
                                          !.status = "transcribed"]
        /\ UNCHANGED cleared
     \/ recording' = [recording EXCEPT !.text = FALSE] /\ UNCHANGED cleared
     \/ recording' = [recording EXCEPT !.redacted = TRUE] /\ UNCHANGED cleared
     \/ recording' = [recording EXCEPT !.redacted = FALSE] /\ cleared' = TRUE
  /\ UNCHANGED <<transcriber, dataset, tunes, marker>>

DeleteRecording ==
  /\ Exists
  /\ recording' = [NoRecording EXCEPT !.status = "deleted"]
  /\ UNCHANGED <<transcriber, dataset, tunes, cleared, marker>>

-----------------------------------------------------------------------------
(* The dataset.                                                            *)

\* createDataset reads the approved recordings and keeps, for each, the
\* redacted transcript or else the raw one.
ExampleOf == IF recording.redacted THEN "redacted" ELSE IF recording.text THEN "raw" ELSE "empty"

CreateDataset ==
  /\ dataset.status = "none"
  /\ recording.approved /\ recording.status = "approved"
  /\ dataset' = [status |-> "draft", examples |-> ExampleOf]
  /\ UNCHANGED <<recording, transcriber, tunes, cleared, marker>>

\* The examples and the JSONL file are written, then jsonlPath is set.
WriteDataset ==
  /\ dataset.status = "draft"
  /\ dataset' = [dataset EXCEPT !.status = "ready"]
  /\ UNCHANGED <<recording, transcriber, tunes, cleared, marker>>

-----------------------------------------------------------------------------
(* Fine-tuning.                                                            *)

TunerAt(j, phase) == tuner' = [tuner EXCEPT ![j] = phase]
TuningIs(j, status) == tuning' = [tuning EXCEPT ![j] = status]

\* jsonlPath is set; the row remembers the file the dataset had.
StartFineTune(j) ==
  /\ tuner[j] = "idle" /\ dataset.status \in {"ready", "uploaded"}
  /\ TunerAt(j, IF file THEN "marking" ELSE "uploading")
  /\ TuningIs(j, "uploading")
  /\ UNCHANGED <<recording, transcriber, dataset, file, provider, refresh,
                 cleared, marker>>

UploadTrainingFile(j) ==
  /\ tuner[j] = "uploading"
  /\ TunerAt(j, "marking")
  /\ UNCHANGED <<recording, transcriber, dataset, file, tuning, provider, refresh,
                 cleared, marker>>

MarkUploaded(j) ==
  /\ tuner[j] = "marking"
  /\ dataset' = [dataset EXCEPT !.status = "uploaded"]
  /\ file' = TRUE
  /\ TunerAt(j, "starting")
  /\ UNCHANGED <<recording, transcriber, tuning, provider, refresh,
                 cleared, marker>>

ProviderStarts(j) ==
  /\ tuner[j] = "starting"
  /\ provider' = [provider EXCEPT ![j] = "queued"]
  /\ TunerAt(j, "started")
  /\ UNCHANGED <<recording, transcriber, dataset, file, tuning, refresh,
                 cleared, marker>>

\* openAiJobId and the provider's status are written; the audit log is left.
NoteProviderJob(j) ==
  /\ tuner[j] = "started"
  /\ TuningIs(j, "queued")
  /\ TunerAt(j, "noted")
  /\ UNCHANGED <<recording, transcriber, dataset, file, provider, refresh,
                 cleared, marker>>

LogFineTune(j) ==
  /\ tuner[j] = "noted"
  /\ TunerAt(j, "done")
  /\ UNCHANGED <<recording, transcriber, dataset, file, tuning, provider, refresh,
                 cleared, marker>>

Trying(j) == tuner[j] \in {"uploading", "marking", "starting", "started", "noted"}

EndOf(j, end) == IF tuner[j] = "noted" THEN "done" ELSE end

\* Any step of it throws, even once the provider's job has started or is noted.
FineTuneFails(j) ==
  /\ Trying(j)
  /\ TuningIs(j, "failed")
  /\ TunerAt(j, EndOf(j, "failed"))
  /\ UNCHANGED <<recording, transcriber, dataset, file, provider, refresh,
                 cleared, marker>>

\* ... and so does the update that the catch block makes.
FineTuneRejected(j) ==
  /\ Trying(j)
  /\ TunerAt(j, EndOf(j, "lost"))
  /\ UNCHANGED <<recording, transcriber, dataset, file, tuning, provider, refresh,
                 cleared, marker>>

\* The provider goes on with a job; what it answers a refresh is written later.
ProviderAdvances(j) ==
  /\ \/ provider[j] = "queued" /\ provider' = [provider EXCEPT ![j] = "running"]
     \/ /\ provider[j] = "running"
        /\ \E end \in {"succeeded", "failed"} : provider' = [provider EXCEPT ![j] = end]
  /\ UNCHANGED <<recording, transcriber, dataset, file, tuner, tuning, refresh,
                 cleared, marker>>

RefreshJob(j) ==
  /\ tuner[j] \in {"noted", "done"} /\ refresh[j] = "none"
  /\ refresh' = [refresh EXCEPT ![j] = provider[j]]
  /\ UNCHANGED <<recording, transcriber, dataset, file, tuner, tuning, provider,
                 cleared, marker>>

NoteRefresh(j) ==
  /\ refresh[j] # "none"
  /\ TuningIs(j, refresh[j])
  /\ refresh' = [refresh EXCEPT ![j] = "none"]
  /\ UNCHANGED <<recording, transcriber, dataset, file, tuner, provider,
                 cleared, marker>>

\* The API stops.
ApiStops ==
  /\ transcriber' = [t \in Transcriber |-> "idle"]
  /\ tuner' = [j \in Tuner |-> IF Trying(j) THEN EndOf(j, "lost") ELSE tuner[j]]
  /\ refresh' = [j \in Tuner |-> "none"]
  /\ marker' = IF \E t \in Transcriber : marker = t /\ transcriber[t] = "waiting"
                 THEN "lost" ELSE marker
  /\ UNCHANGED <<recording, dataset, file, tuning, provider, cleared>>

Next ==
  \/ UploadRecording \/ ApproveRecording \/ UpdateRecording \/ DeleteRecording
  \/ \E t \in Transcriber :
       \/ TranscribeRecording(t) \/ MarkTranscribing(t) \/ Transcribed(t)
       \/ LogTranscribed(t) \/ TranscriptionFails(t) \/ FailureRejected(t)
  \/ CreateDataset \/ WriteDataset
  \/ \E j \in Tuner :
       \/ StartFineTune(j) \/ UploadTrainingFile(j) \/ MarkUploaded(j)
       \/ ProviderStarts(j) \/ NoteProviderJob(j) \/ FineTuneFails(j)
       \/ FineTuneRejected(j) \/ LogFineTune(j)
       \/ ProviderAdvances(j) \/ RefreshJob(j) \/ NoteRefresh(j)
  \/ ApiStops

Spec == Init /\ [][Next]_vars

-----------------------------------------------------------------------------

\* A recording shown as transcribing waits for the transcription that marked it
\* last, and a job shown as uploading has its request, which will write the
\* outcome whatever the others do to the row meanwhile, unless that very one
\* could not write it: the catch block's update rejected, or the API stopped.
InProgressHasRequest ==
  /\ recording.status = "transcribing"
       => marker = "lost" \/ transcriber[marker] = "waiting"
  /\ \A j \in Tuner : tuning[j] = "uploading"
       => tuner[j] \in {"uploading", "marking", "starting", "started", "lost"}

\* What is written to the training file, and uploaded to the provider, is the
\* redacted transcript, through every order of transcriptions, approvals, edits
\* and resets, unless an operator emptied the redacted one.
ExamplesRedacted == ~cleared => dataset.examples \in {"none", "redacted"}

=============================================================================
