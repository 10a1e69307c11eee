--------------------------- MODULE AfterCall_proofs ---------------------------
(***************************************************************************)
(* What follows a call, proved for any requests, recordings, playbooks and *)
(* hooks, any number of faults and every setting: the invariants of the    *)
(* components that MCAfterCall puts side by side.                          *)
(***************************************************************************)
EXTENDS MCAfterCall, PostCall_proofs, FiniteSetTheorems, SequenceTheorems, WellFoundedInduction, TLAPS

-----------------------------------------------------------------------------
(* One component acts; the others, but for the state of the queue's        *)
(* connection, stay as they are.                                           *)

\* What a step of MCSpec leaves each component.
LEMMA OnePartActs ==
  ASSUME [MCNext]_allVars
  PROVE  /\ part' = part
         /\ IF part = "email" THEN [TE!Next]_<<redis, emailVars>> ELSE UNCHANGED emailVars
         /\ IF part = "playbook" THEN [PB!Next]_playbookVars ELSE UNCHANGED playbookVars
         /\ IF part = "analysis" THEN [TA!Next]_<<redis, analysisVars>>
                                 ELSE UNCHANGED analysisVars
         /\ IF part = "training" THEN [TR!Next]_trainingVars ELSE UNCHANGED trainingVars
         /\ IF part = "webhook" THEN [PW!Next]_<<redis, webhookVars>>
                                ELSE UNCHANGED webhookVars
         /\ IF part = "campaign" THEN [CP!Next]_<<redis, campaignVars>>
                                 ELSE UNCHANGED campaignVars
         /\ IF part = "lookup" THEN [RL!Next]_lookupVars ELSE UNCHANGED lookupVars
         /\ IF part = "lists" THEN [SL!Next]_listVars ELSE UNCHANGED listVars
BY DEF MCNext, allVars

-----------------------------------------------------------------------------
(* TranscriptEmail: MailedOnce.                                            *)

\* The requests that are sent whatever has been sent before them.
Resends == {r \in Mail : MailKind[r] = "resend"}

\* The requests whose mail the SMTP server has, as far as their job or row knows.
Accepted == {r \in Mail : mailJob[r] = "sent" \/ log[r] = "sent"}

\* The types of what MailedOnce depends on.
MailTypes ==
  /\ mailRequest \in [Mail -> {"none", "checking", "creating", "queueing",
                               "queued", "duplicate", "rejected", "failed"}]
  /\ log \in [Mail -> {"none", "pending", "sent", "failed", "skipped"}]
  /\ mailJob \in [Mail -> TE!Running \union {"none", "waiting", "done", "lost"}]
  /\ mails \in Nat /\ slips \in Nat

\* A job is that of a queued request, and a row that says sent is its end.
JobOfRequest ==
  \A r \in Mail :
    /\ mailRequest[r] # "queued" => mailJob[r] = "none"
    /\ log[r] = "sent" => mailJob[r] = "done"

\* The worker has one job at a time.
OneJob ==
  \A r, other \in Mail :
    mailJob[r] \in TE!Running /\ mailJob[other] \in TE!Running => r = other

\* While a job that is not a resend is past its check, no other row says sent.
SentAlone ==
  \A r \in Mail \ Resends, other \in Mail :
    mailJob[r] \in {"building", "sending", "sent"} /\ log[other] = "sent" => FALSE

\* Of the requests that are not resends one has been sent.
AcceptedOnce ==
  \A r, other \in Mail \ Resends :
    log[r] = "sent" /\ log[other] = "sent" => r = other

\* With the queue, the accepted mails are those and the ones that were lost sight of.
MailInv ==
  /\ MailTypes
  /\ part # "email" => mails = 0
  /\ redis /\ part = "email" =>
       /\ JobOfRequest /\ OneJob /\ SentAlone /\ AcceptedOnce
       /\ mails = slips + Cardinality(Accepted)
\* At the start nothing has been asked for.
LEMMA MailInit == MCInit => MailInv
<1> SUFFICES ASSUME MCInit PROVE MailInv
  OBVIOUS
<1>1. TE!Init
  BY DEF MCInit
<1>2. MailTypes /\ mails = 0 /\ slips = 0
  BY <1>1 DEF TE!Init, MailTypes, TE!Running
<1>3. Accepted = {}
  BY <1>1 DEF TE!Init, Accepted
<1>4. JobOfRequest /\ OneJob /\ SentAlone /\ AcceptedOnce
  BY <1>1 DEF TE!Init, JobOfRequest, OneJob, SentAlone, AcceptedOnce, TE!Running
<1> QED BY <1>2, <1>3, <1>4, FS_EmptySet DEF MailInv

\* The accepted mails grow by one.
LEMMA AcceptOne ==
  ASSUME IsFiniteSet(Mail), NEW r \in Mail, r \notin Accepted,
         Accepted' = Accepted \cup {r}
  PROVE  Cardinality(Accepted') = Cardinality(Accepted) + 1
<1>1. IsFiniteSet(Accepted)
  BY FS_Subset DEF Accepted
<1> QED BY <1>1, FS_AddElement

\* A failed job forgets an accepted mail.
LEMMA ForgetOne ==
  ASSUME IsFiniteSet(Mail), NEW r \in Mail, r \in Accepted,
         Accepted' = Accepted \ {r}
  PROVE  Cardinality(Accepted') = Cardinality(Accepted) - 1
<1>1. IsFiniteSet(Accepted)
  BY FS_Subset DEF Accepted
<1> QED BY <1>1, FS_RemoveElement

\* The steps of a request: rows and phases, no job but the one it queues.
LEMMA MailRequestStep ==
  ASSUME MailInv, redis, part = "email", part' = part, NEW r \in Mail,
         \/ TE!EnqueueAfterFinalTranscript(r) \/ TE!RequestManualSend(r)
         \/ TE!RequestThrows(r) \/ TE!RequestStep(r)
  PROVE  MailInv'
<1>1. MailTypes /\ JobOfRequest /\ OneJob /\ SentAlone /\ AcceptedOnce
  BY DEF MailInv
<1>2. mailRequest[r] # "queued" /\ mailJob[r] = "none" /\ log[r] # "sent"
  BY <1>1 DEF JobOfRequest, MailTypes, TE!EnqueueAfterFinalTranscript,
              TE!RequestManualSend, TE!RequestThrows, TE!RequestStep,
              TE!FindDuplicate, TE!CreateLog, TE!EnqueueTranscriptEmail
<1>3. /\ redis' = redis /\ UNCHANGED <<mails, slips>>
      /\ \/ log' = log
         \/ \E entry \in {"none", "pending", "skipped"} : log' = [log EXCEPT ![r] = entry]
      /\ \/ /\ mailJob' = mailJob
            /\ \E step \in {"none", "checking", "creating", "queueing", "duplicate",
                             "rejected", "failed"} :
                 mailRequest' = [mailRequest EXCEPT ![r] = step]
         \/ /\ mailRequest' = [mailRequest EXCEPT ![r] = "queued"]
            /\ mailJob' = [mailJob EXCEPT ![r] = "waiting"]
  BY DEF TE!EnqueueAfterFinalTranscript, TE!RequestManualSend, TE!RequestThrows,
         TE!RequestStep, TE!FindDuplicate, TE!CreateLog, TE!EnqueueTranscriptEmail,
         TE!Asks, TE!config
<1>4. MailTypes'
  BY <1>1, <1>3 DEF MailTypes
<1>5. \A other \in Mail :
        /\ log'[other] = "sent" <=> log[other] = "sent"
        /\ mailJob'[other] \in TE!Running \cup {"done"} => mailJob'[other] = mailJob[other]
        /\ mailJob[other] \in TE!Running \cup {"done"} => mailJob'[other] = mailJob[other]
        /\ mailRequest'[other] # "queued" =>
             mailRequest[other] # "queued" /\ mailJob'[other] = mailJob[other]
  BY <1>1, <1>2, <1>3 DEF MailTypes, TE!Running
<1>6. JobOfRequest'
  BY <1>1, <1>5 DEF JobOfRequest
<1>7. OneJob' /\ SentAlone' /\ AcceptedOnce' /\ Accepted' = Accepted
  BY <1>1, <1>5 DEF OneJob, SentAlone, AcceptedOnce, Accepted, TE!Running
<1> QED BY <1>3, <1>4, <1>6, <1>7 DEF MailInv

\* The steps of a job until it has sent its mail, and those that end it unsent.
LEMMA MailJobStep ==
  ASSUME MailInv, redis, part = "email", part' = part, IsFiniteSet(Mail), NEW r \in Mail,
         TE!JobStep(r) \/ TE!JobThrows(r) \/ TE!Crash(r)
  PROVE  MailInv'
<1>1. MailTypes /\ JobOfRequest /\ OneJob /\ SentAlone /\ AcceptedOnce
  BY DEF MailInv
<1>2. /\ redis' = redis /\ UNCHANGED mailRequest
      /\ \E step \in TE!Running \cup {"waiting", "done", "lost"} :
           mailJob' = [mailJob EXCEPT ![r] = step]
      /\ \/ log' = log
         \/ \E entry \in {"skipped", "failed", "sent"} : log' = [log EXCEPT ![r] = entry]
      /\ mails' \in Nat /\ slips' \in Nat
      /\ mailJob[r] \in TE!Running \cup {"waiting"}
  <2>1. CASE TE!JobStep(r)
    <3>1. /\ redis' = redis /\ UNCHANGED mailRequest
          /\ mails' \in {mails, mails + 1} /\ slips' = slips
      BY <2>1 DEF TE!JobStep, TE!WorkerStarts, TE!Resolve, TE!CheckBeforeSend,
           TE!BuildEmailData, TE!Send, TE!MarkSent, TE!config
    <3>2. mailJob[r] \in TE!Running \cup {"waiting"}
      BY <2>1 DEF TE!JobStep, TE!WorkerStarts, TE!Resolve, TE!CheckBeforeSend,
           TE!BuildEmailData, TE!Send, TE!MarkSent, TE!Running
    <3>3. \E step \in TE!Running \cup {"done"} : mailJob' = [mailJob EXCEPT ![r] = step]
      BY <2>1 DEF TE!JobStep, TE!WorkerStarts, TE!Resolve, TE!CheckBeforeSend,
           TE!Settles, TE!BuildEmailData, TE!Send, TE!MarkSent, TE!Running
    <3>4. log' = log \/ \E entry \in {"skipped", "sent"} : log' = [log EXCEPT ![r] = entry]
      BY <2>1 DEF TE!JobStep, TE!WorkerStarts, TE!Resolve, TE!CheckBeforeSend,
           TE!Settles, TE!BuildEmailData, TE!Send, TE!MarkSent
    <3>5. mails' \in Nat /\ slips' \in Nat
      BY <1>1, <3>1 DEF MailTypes
    <3> QED BY <3>1, <3>2, <3>3, <3>4, <3>5
  <2>2. CASE TE!JobThrows(r)
    <3>1. TE!FailedJob(r) \in {"waiting", "lost"}
      BY DEF TE!FailedJob
    <3>2. log' = log \/ log' = [log EXCEPT ![r] = "failed"]
      BY <1>1, <2>2 DEF TE!JobThrows, MailTypes
    <3>3. \E step \in TE!Running \cup {"waiting", "done", "lost"} :
             mailJob' = [mailJob EXCEPT ![r] = step]
      BY <2>2, <3>1 DEF TE!JobThrows
    <3>4. /\ redis' = redis /\ UNCHANGED mailRequest
          /\ mails' = mails /\ slips' \in {slips, slips + 1}
          /\ mailJob[r] \in TE!Running
      BY <2>2 DEF TE!JobThrows, TE!config
    <3>5. mails' \in Nat /\ slips' \in Nat
      BY <1>1, <3>4 DEF MailTypes
    <3> QED BY <3>2, <3>3, <3>4, <3>5
  <2>3. CASE TE!Crash(r)
    BY <1>1, <2>3 DEF TE!Crash, TE!config, MailTypes
  <2> QED BY <2>1, <2>2, <2>3
<1>3. MailTypes'
  BY <1>1, <1>2 DEF MailTypes
<1>4. /\ mailRequest[r] = "queued" /\ log[r] # "sent"
      /\ \A other \in Mail \ {r} : mailJob'[other] = mailJob[other] /\ log'[other] = log[other]
  BY <1>1, <1>2 DEF JobOfRequest, MailTypes, TE!Running
<1>5. log'[r] = "sent" => mailJob[r] = "sent" /\ mailJob'[r] = "done"
  BY <1>1, <1>4 DEF TE!JobStep, TE!WorkerStarts, TE!Resolve, TE!CheckBeforeSend, TE!Settles,
         TE!BuildEmailData, TE!Send, TE!MarkSent, TE!JobThrows, TE!Crash,
         TE!config, TE!Running, MailTypes
<1>6. JobOfRequest'
  BY <1>1, <1>2, <1>3, <1>4, <1>5 DEF JobOfRequest
<1>7. mailJob'[r] \in TE!Running =>
        \A other \in Mail \ {r} : mailJob[other] \notin TE!Running
  BY <1>1, <1>4 DEF TE!JobStep, TE!WorkerStarts, TE!Resolve, TE!CheckBeforeSend, TE!Settles,
         TE!BuildEmailData, TE!Send, TE!MarkSent, TE!JobThrows, TE!Crash, TE!FailedJob,
         TE!config, TE!Running, MailTypes, OneJob
<1>8. OneJob'
  BY <1>1, <1>4, <1>7 DEF OneJob
<1>9. r \notin Resends /\ mailJob'[r] \in {"building", "sending", "sent"} =>
        \A other \in Mail : log'[other] # "sent"
  <2>1. SUFFICES ASSUME r \notin Resends, mailJob'[r] \in {"building", "sending", "sent"},
                        NEW other \in Mail, log'[other] = "sent"
                 PROVE  FALSE
    OBVIOUS
  <2>2. other # r /\ log[other] = "sent"
    BY <1>4, <1>5, <2>1
  <2>3. mailJob[r] = "checking" \/ mailJob[r] \in {"building", "sending", "sent"}
    BY <1>1, <2>1 DEF TE!JobStep, TE!WorkerStarts, TE!Resolve, TE!CheckBeforeSend,
         TE!Settles, TE!BuildEmailData, TE!Send, TE!MarkSent, TE!JobThrows, TE!Crash,
         TE!FailedJob, TE!config, TE!Running, MailTypes
  <2>4. CASE mailJob[r] = "checking"
    <3>1. TE!Refused(r)
      BY <2>1, <2>2 DEF TE!Refused, TE!SentLog, Resends
    <3> QED
      BY <1>1, <2>1, <2>4, <3>1 DEF TE!JobStep, TE!WorkerStarts, TE!Resolve,
         TE!CheckBeforeSend, TE!Settles, TE!BuildEmailData, TE!Send, TE!MarkSent,
         TE!JobThrows, TE!Crash, TE!FailedJob, TE!config, TE!Running, MailTypes
  <2>5. CASE mailJob[r] \in {"building", "sending", "sent"}
    BY <1>1, <2>1, <2>2, <2>5 DEF SentAlone
  <2> QED BY <2>3, <2>4, <2>5
<1>10. SentAlone' /\ AcceptedOnce'
  <2>1. ASSUME NEW q \in Mail \ Resends, NEW other \in Mail,
               mailJob'[q] \in {"building", "sending", "sent"}, log'[other] = "sent"
        PROVE  FALSE
    <3>1. CASE q = r
      BY <1>9, <2>1, <3>1
    <3>2. CASE q # r /\ other = r
      <4>1. mailJob[r] = "sent" /\ mailJob[q] = mailJob'[q]
        BY <1>4, <1>5, <2>1, <3>2
      <4> QED BY <1>1, <2>1, <3>2, <4>1 DEF OneJob, TE!Running
    <3>3. CASE q # r /\ other # r
      BY <1>1, <1>4, <2>1, <3>3 DEF SentAlone
    <3> QED BY <3>1, <3>2, <3>3
  <2>2. ASSUME NEW q \in Mail \ Resends, NEW other \in Mail \ Resends,
               log'[q] = "sent", log'[other] = "sent"
        PROVE  q = other
    BY <1>1, <1>4, <1>5, <2>2 DEF AcceptedOnce, SentAlone
  <2> QED BY <2>1, <2>2 DEF SentAlone, AcceptedOnce, Resends
<1>11. mails' = slips' + Cardinality(Accepted')
  <2>1. mails = slips + Cardinality(Accepted) /\ mails \in Nat /\ slips \in Nat
    BY DEF MailInv, MailTypes
  <2>2. IsFiniteSet(Accepted) /\ Cardinality(Accepted) \in Nat
    BY FS_Subset, FS_CardinalityType DEF Accepted
  <2>3. CASE TE!Send(r)
    <3>1. r \notin Accepted /\ mails' = mails + 1 /\ slips' = slips
      BY <1>4, <2>3 DEF TE!Send, Accepted
    <3>2. Accepted' = Accepted \cup {r}
      BY <1>1, <1>4, <2>3 DEF TE!Send, Accepted, MailTypes
    <3> QED BY <2>1, <2>2, <3>1, <3>2, AcceptOne
  <2>4. CASE (TE!JobThrows(r) \/ TE!Crash(r)) /\ mailJob[r] = "sent"
    <3>1. r \in Accepted /\ mails' = mails /\ slips' = slips + 1
      BY <2>4 DEF TE!JobThrows, TE!Crash, Accepted
    <3>2. mailJob'[r] # "sent" /\ log'[r] # "sent"
      BY <1>1, <1>4, <2>4 DEF TE!JobThrows, TE!Crash, TE!FailedJob, MailTypes
    <3>3. Accepted' = Accepted \ {r}
      BY <1>4, <3>2 DEF Accepted
    <3>4. Cardinality(Accepted') = Cardinality(Accepted) - 1
      BY <3>1, <3>3, ForgetOne
    <3> QED BY <2>1, <2>2, <3>1, <3>4
  <2>5. CASE ~TE!Send(r) /\ ~((TE!JobThrows(r) \/ TE!Crash(r)) /\ mailJob[r] = "sent")
    <3>1. mails' = mails /\ slips' = slips
      BY <2>5 DEF TE!JobStep, TE!WorkerStarts, TE!Resolve, TE!CheckBeforeSend,
         TE!BuildEmailData, TE!MarkSent, TE!JobThrows, TE!Crash
    <3>2. mailJob[r] = "sent" \/ log[r] = "sent" <=> mailJob'[r] = "sent" \/ log'[r] = "sent"
      BY <1>1, <1>4, <2>5 DEF TE!JobStep, TE!WorkerStarts, TE!Resolve,
         TE!CheckBeforeSend, TE!Settles, TE!BuildEmailData, TE!MarkSent,
         TE!JobThrows, TE!Crash, TE!FailedJob, TE!config, TE!Running, MailTypes
    <3>3. Accepted' = Accepted
      BY <1>4, <3>2 DEF Accepted
    <3> QED BY <2>1, <3>1, <3>3
  <2> QED BY <2>3, <2>4, <2>5
<1> QED BY <1>2, <1>3, <1>6, <1>8, <1>10, <1>11 DEF MailInv

\* Every step keeps the invariant.
LEMMA MailStep == IsFiniteSet(Mail) /\ MailInv /\ [MCNext]_allVars => MailInv'
<1> SUFFICES ASSUME IsFiniteSet(Mail), MailInv, [MCNext]_allVars PROVE MailInv'
  OBVIOUS
<1>1. CASE part # "email" \/ UNCHANGED <<redis, emailVars>>
  <2>1. UNCHANGED <<emailVars, part>> /\ (part = "email" => redis' = redis)
    BY <1>1, OnePartActs
  <2> QED BY <2>1 DEF MailInv, emailVars, MailTypes, JobOfRequest, OneJob, SentAlone,
                      AcceptedOnce, Accepted
<1>2. CASE part = "email" /\ TE!Next
  <2>1. part' = part
    BY OnePartActs
  <2>2. redis' = redis
    BY <1>2 DEF TE!Next, TE!EnqueueAfterFinalTranscript, TE!RequestManualSend,
         TE!RequestThrows, TE!RequestStep, TE!FindDuplicate, TE!CreateLog,
         TE!EnqueueTranscriptEmail, TE!JobStep, TE!WorkerStarts, TE!Resolve,
         TE!CheckBeforeSend, TE!BuildEmailData, TE!Send, TE!MarkSent,
         TE!JobThrows, TE!Crash, TE!Finalize, TE!Reprocess, TE!Disable, TE!config
  <2>3. CASE TE!Finalize \/ TE!Reprocess \/ TE!Disable
    <3>1. UNCHANGED <<mailRequest, log, mailJob, mails, slips>>
      BY <2>3 DEF TE!Finalize, TE!Reprocess, TE!Disable
    <3> QED BY <2>1, <2>2, <3>1 DEF MailInv, MailTypes, JobOfRequest, OneJob, SentAlone,
                                    AcceptedOnce, Accepted
  <2>4. CASE ~redis
    <3>1. MailTypes'
      BY <1>2 DEF MailInv, MailTypes, TE!Next, TE!EnqueueAfterFinalTranscript, TE!RequestManualSend,
         TE!RequestThrows, TE!RequestStep, TE!FindDuplicate, TE!CreateLog, TE!Asks,
         TE!EnqueueTranscriptEmail, TE!JobStep, TE!WorkerStarts, TE!Resolve,
         TE!CheckBeforeSend, TE!BuildEmailData, TE!Send, TE!MarkSent, TE!Settles,
         TE!JobThrows, TE!Crash, TE!Finalize, TE!Reprocess, TE!Disable, TE!FailedJob, TE!Running
    <3> QED BY <1>2, <2>1, <2>2, <2>4, <3>1 DEF MailInv
  <2>5. CASE redis /\ ~(TE!Finalize \/ TE!Reprocess \/ TE!Disable)
    <3>1. PICK r \in Mail :
            \/ TE!EnqueueAfterFinalTranscript(r) \/ TE!RequestManualSend(r)
            \/ TE!RequestThrows(r) \/ TE!RequestStep(r)
            \/ TE!JobStep(r) \/ TE!JobThrows(r) \/ TE!Crash(r)
      BY <1>2, <2>5 DEF TE!Next
    <3> QED BY <1>2, <2>1, <2>5, <3>1, MailRequestStep, MailJobStep
  <2> QED BY <2>3, <2>4, <2>5
<1> QED BY <1>1, <1>2, OnePartActs

\* Of the accepted mails all but one are resends.
LEMMA MailBound == IsFiniteSet(Mail) /\ MailInv => MailedOnce
<1> SUFFICES ASSUME IsFiniteSet(Mail), MailInv, redis
             PROVE  mails <= 1 + slips + Cardinality(Resends)
  BY DEF MailedOnce, TE!MailedOnce, TE!Cardinality, Cardinality, Resends
<1>1. IsFiniteSet(Resends) /\ Cardinality(Resends) \in Nat
  BY FS_Subset, FS_CardinalityType DEF Resends
<1>2. mails \in Nat /\ slips \in Nat
  BY DEF MailInv, MailTypes
<1>3. CASE part # "email"
  BY <1>1, <1>2, <1>3 DEF MailInv
<1>4. CASE part = "email"
  <2>1. \A r, other \in Accepted \ Resends : r = other
    BY <1>4 DEF MailInv, Accepted, OneJob, SentAlone, AcceptedOnce, TE!Running
  <2>2. PICK r : Accepted \subseteq Resends \cup {r}
    BY <2>1
  <2>3. /\ IsFiniteSet(Resends \cup {r})
        /\ Cardinality(Resends \cup {r}) \in Nat
        /\ Cardinality(Resends \cup {r}) <= Cardinality(Resends) + 1
    <3>1. IsFiniteSet(Resends \cup {r})
      BY <1>1, FS_AddElement
    <3>2. Cardinality(Resends \cup {r})
            = IF r \in Resends THEN Cardinality(Resends) ELSE Cardinality(Resends) + 1
      BY <1>1, FS_AddElement
    <3>3. Cardinality(Resends \cup {r}) <= Cardinality(Resends) + 1
      BY <1>1, <3>2
    <3> QED BY <3>1, <3>3, FS_CardinalityType
  <2>4. Cardinality(Accepted) <= Cardinality(Resends \cup {r}) /\ Cardinality(Accepted) \in Nat
    BY <2>2, <2>3, FS_Subset, FS_CardinalityType
  <2>5. mails = slips + Cardinality(Accepted)
    BY <1>4 DEF MailInv
  <2> QED BY <1>1, <1>2, <2>3, <2>4, <2>5
<1> QED BY <1>3, <1>4

\* With the queue, the customer's team gets one mail per call, one more for every
\* resend and one for every mail that was lost sight of: sendTranscriptEmail's
\* check for a sent row, and the one job a worker runs at a time, are enough,
\* for any number of requests, retries and faults.
THEOREM MailIsSentOnce == MCSpec => []MailedOnce
<1>1. IsFiniteSet(Mail)
  BY AfterCallAssumptions DEF TE!EmailAssumption, TE!IsFiniteSet, IsFiniteSet
<1> QED BY <1>1, MailInit, MailStep, MailBound, PTL DEF MCSpec

\* A queued job ends by settling its row, or when its worker has died too often,
\* or when every attempt has failed; until then an attempt is left.
JobsGoOn ==
  /\ tries \in [Mail -> Nat] /\ stalls \in [Mail -> 0..TE!MaxStalls]
  /\ \A r \in Mail :
       /\ mailJob[r] \in TE!Running \cup {"waiting"} => tries[r] < TE!Attempts
       /\ mailJob[r] = "none" => tries[r] = 0
       /\ mailJob[r] = "done" => log[r] \in {"sent", "skipped"}
       /\ mailJob[r] = "lost" => stalls[r] = TE!MaxStalls \/ tries[r] = TE!Attempts

\* With the queue, what MailedOnce needs and the state of every job.
DeliveryInv == MailInv /\ (redis /\ part = "email" => JobsGoOn)

\* A row that still says queued has a job that waits or runs, unless the worker
\* died more than once or all three attempts failed before they found the call.
PendingHasJob ==
  part = "email" /\ redis =>
    \A r \in Mail :
      mailJob[r] # "none" /\ log[r] = "pending" =>
        \/ mailJob[r] \in TE!Running \cup {"waiting"}
        \/ stalls[r] = TE!MaxStalls
        \/ tries[r] = TE!Attempts

\* At the start no job is queued.
LEMMA DeliveryInit == MCInit => DeliveryInv
<1> SUFFICES ASSUME MCInit PROVE DeliveryInv
  OBVIOUS
<1>1. TE!Init
  BY DEF MCInit
<1>2. JobsGoOn
  BY <1>1 DEF TE!Init, JobsGoOn, TE!Running, TE!Attempts,
     TE!MaxStalls
<1> QED BY <1>2, MailInit DEF DeliveryInv

\* A request moves: its job is queued with all its attempts.
LEMMA DeliveryRequestStep ==
  ASSUME MailInv, JobsGoOn, redis, part = "email", NEW r \in Mail,
         \/ TE!EnqueueAfterFinalTranscript(r) \/ TE!RequestManualSend(r)
         \/ TE!RequestThrows(r) \/ TE!RequestStep(r)
  PROVE  JobsGoOn'
<1>1. MailTypes /\ JobOfRequest
  BY DEF MailInv
<1>2. mailJob[r] = "none" /\ UNCHANGED <<tries, stalls>>
  BY <1>1 DEF JobOfRequest, MailTypes, TE!EnqueueAfterFinalTranscript,
     TE!RequestManualSend, TE!RequestThrows, TE!RequestStep, TE!FindDuplicate,
     TE!CreateLog, TE!EnqueueTranscriptEmail
<1>3. /\ mailJob'[r] \in {"none", "waiting"}
      /\ \A other \in Mail \ {r} : mailJob'[other] = mailJob[other] /\ log'[other] = log[other]
  BY <1>1, <1>2 DEF MailTypes, TE!EnqueueAfterFinalTranscript, TE!RequestManualSend,
     TE!RequestThrows, TE!RequestStep, TE!FindDuplicate, TE!CreateLog,
     TE!EnqueueTranscriptEmail, TE!Asks
<1> QED BY <1>2, <1>3 DEF JobsGoOn, TE!Running, TE!Attempts

\* A job moves: a failed one waits again while it has attempts, one whose worker
\* died once.
LEMMA DeliveryJobStep ==
  ASSUME MailInv, JobsGoOn, redis, part = "email", NEW r \in Mail,
         TE!JobStep(r) \/ TE!JobThrows(r) \/ TE!Crash(r)
  PROVE  JobsGoOn'
<1>1. /\ MailTypes /\ tries \in [Mail -> Nat] /\ stalls \in [Mail -> 0..TE!MaxStalls]
      /\ tries[r] \in Nat /\ stalls[r] \in 0..TE!MaxStalls
  BY DEF MailInv, JobsGoOn
<1>2. CASE TE!JobStep(r)
  <2>1. /\ UNCHANGED <<tries, stalls>>
        /\ mailJob[r] \in TE!Running \cup {"waiting"}
        /\ mailJob'[r] \in TE!Running \cup {"done"}
        /\ mailJob'[r] = "done" => log'[r] \in {"sent", "skipped"}
        /\ \A other \in Mail \ {r} : mailJob'[other] = mailJob[other] /\ log'[other] = log[other]
    BY <1>1, <1>2 DEF MailTypes, TE!JobStep, TE!WorkerStarts, TE!Resolve,
       TE!CheckBeforeSend, TE!Settles, TE!BuildEmailData, TE!Send, TE!MarkSent, TE!Running
  <2> QED BY <2>1 DEF JobsGoOn, TE!Running
<1>3. CASE TE!JobThrows(r)
  <2>1. /\ stalls' = stalls /\ mailJob[r] \in TE!Running
        /\ tries' \in [Mail -> Nat] /\ tries'[r] = tries[r] + 1
        /\ mailJob'[r] = IF tries[r] + 1 < TE!Attempts THEN "waiting" ELSE "lost"
        /\ \A other \in Mail \ {r} : /\ mailJob'[other] = mailJob[other]
                                     /\ log'[other] = log[other] /\ tries'[other] = tries[other]
    BY <1>1, <1>3 DEF MailTypes, TE!JobThrows, TE!FailedJob
  <2>2. tries[r] < TE!Attempts
    BY <2>1 DEF JobsGoOn
  <2> QED BY <1>1, <2>1, <2>2 DEF JobsGoOn, TE!Running, TE!Attempts
<1>4. CASE TE!Crash(r)
  <2>1. /\ tries' = tries /\ log' = log /\ mailJob[r] \in TE!Running
        /\ stalls' \in [Mail -> 0..TE!MaxStalls]
        /\ mailJob'[r] = "waiting" \/ (mailJob'[r] = "lost" /\ ~(stalls[r] < TE!MaxStalls)
                                       /\ stalls'[r] = stalls[r])
        /\ \A other \in Mail \ {r} : /\ mailJob'[other] = mailJob[other]
                                     /\ stalls'[other] = stalls[other]
    BY <1>1, <1>4 DEF MailTypes, TE!Crash, TE!MaxStalls
  <2> QED BY <1>1, <2>1 DEF JobsGoOn, TE!Running, TE!MaxStalls
<1> QED BY <1>2, <1>3, <1>4

\* Every step keeps it.
LEMMA DeliveryStep == IsFiniteSet(Mail) /\ DeliveryInv /\ [MCNext]_allVars => DeliveryInv'
<1> SUFFICES ASSUME IsFiniteSet(Mail), DeliveryInv, [MCNext]_allVars,
                    redis', part' = "email"
             PROVE  JobsGoOn'
  BY MailStep DEF DeliveryInv
<1>1. part = "email" /\ MailInv
  BY OnePartActs DEF DeliveryInv
<1>2. CASE UNCHANGED <<redis, emailVars>>
  BY <1>1, <1>2 DEF DeliveryInv, JobsGoOn, emailVars
<1>3. CASE TE!Next
  <2>1. redis /\ JobsGoOn
    <3>1. redis' = redis
      BY <1>3 DEF TE!Next, TE!EnqueueAfterFinalTranscript, TE!RequestManualSend,
         TE!RequestThrows, TE!RequestStep, TE!FindDuplicate, TE!CreateLog,
         TE!EnqueueTranscriptEmail, TE!JobStep, TE!WorkerStarts, TE!Resolve,
         TE!CheckBeforeSend, TE!BuildEmailData, TE!Send, TE!MarkSent,
         TE!JobThrows, TE!Crash, TE!Finalize, TE!Reprocess, TE!Disable, TE!config
    <3> QED BY <1>1, <3>1 DEF DeliveryInv
  <2>2. CASE TE!Finalize \/ TE!Reprocess \/ TE!Disable
    BY <2>1, <2>2 DEF TE!Finalize, TE!Reprocess, TE!Disable, JobsGoOn
  <2>3. CASE ~(TE!Finalize \/ TE!Reprocess \/ TE!Disable)
    <3>1. PICK r \in Mail :
            \/ TE!EnqueueAfterFinalTranscript(r) \/ TE!RequestManualSend(r)
            \/ TE!RequestThrows(r) \/ TE!RequestStep(r)
            \/ TE!JobStep(r) \/ TE!JobThrows(r) \/ TE!Crash(r)
      BY <1>3, <2>3 DEF TE!Next
    <3> QED BY <1>1, <2>1, <3>1, DeliveryRequestStep, DeliveryJobStep
  <2> QED BY <2>2, <2>3
<1> QED BY <1>1, <1>2, <1>3, OnePartActs

\* What LogSettles waits for, without fairness: a row the console shows as
\* queued has a job that waits in the queue or runs, however many requests,
\* errors and crashes there are.  It is left behind only by a worker that died
\* more often than BullMQ takes a stalled job again, or by three attempts that
\* all failed before the try block of sendTranscriptEmail, whose catch writes
\* the row.
THEOREM QueuedRowsHaveAJob == MCSpec => []PendingHasJob
<1>1. IsFiniteSet(Mail)
  BY AfterCallAssumptions DEF TE!EmailAssumption, TE!IsFiniteSet, IsFiniteSet
<1>2. DeliveryInv => PendingHasJob
  <2> SUFFICES ASSUME DeliveryInv, part = "email", redis, NEW r \in Mail,
                      mailJob[r] # "none", log[r] = "pending"
               PROVE  \/ mailJob[r] \in TE!Running \cup {"waiting"}
                      \/ stalls[r] = TE!MaxStalls \/ tries[r] = TE!Attempts
    BY DEF PendingHasJob
  <2>1. mailJob[r] \in TE!Running \union {"none", "waiting", "done", "lost"}
    BY DEF DeliveryInv, MailInv, MailTypes
  <2> QED BY <2>1 DEF DeliveryInv, JobsGoOn
<1> QED BY <1>1, <1>2, DeliveryInit, DeliveryStep, PTL DEF MCSpec

-----------------------------------------------------------------------------
(* ProviderWebhooks: SummaryIsCurrent.                                      *)

\* A transcript is stored, and its summary not yet asked of the model.
SummaryPending ==
  \E h \in Hook : hook[h] = "queueing" \/ summaryJob[h] = "waiting"

\* The types of what SummaryIsCurrent depends on.
SummaryTypes ==
  /\ hook \in [Hook -> {"none", "updating", "notifying", "recording", "storing",
                        "queueing", "done"}]
  /\ summaryJob \in [Hook -> {"none", "waiting", "asking", "done"}]
  /\ DOMAIN reads = Hook

\* With the queue, the worker makes one summary at a time, and unless there is
\* more to come that one, or else the one stored, is of the call's transcript.
SummaryInv ==
  /\ SummaryTypes
  /\ part # "webhook" => summary = callText
  /\ redis /\ part = "webhook" =>
       /\ \A h, other \in Hook :
            summaryJob[h] = "asking" /\ summaryJob[other] = "asking" => h = other
       /\ ~unmade /\ ~SummaryPending =>
            /\ \A h \in Hook : summaryJob[h] = "asking" => reads[h] = callText
            /\ (\A h \in Hook : summaryJob[h] # "asking") => summary = callText

\* At the start there is no transcript.
LEMMA SummaryInit == MCInit => SummaryInv
BY DEF MCInit, PW!Init, SummaryInv, SummaryTypes

\* The steps of a webhook.
LEMMA SummaryHookStep ==
  ASSUME SummaryInv, redis, part = "webhook", part' = part, NEW h \in Hook,
         \/ PW!HandleProviderWebhook(h) \/ PW!UpdateStatus(h) \/ PW!NotifyStatusChange(h)
         \/ PW!RecordEvent(h) \/ PW!StoreTranscript(h) \/ PW!EnqueueSummary(h)
         \/ PW!HandlerStops(h)
  PROVE  SummaryInv'
<1>1. /\ redis' = redis /\ summary' = summary
      /\ hook' = [hook EXCEPT ![h] = hook'[h]]
      /\ hook'[h] \in {"updating", "notifying", "recording", "storing", "queueing", "done"}
  BY DEF SummaryInv, SummaryTypes, PW!HandleProviderWebhook, PW!UpdateStatus,
         PW!NotifyStatusChange, PW!RecordEvent, PW!StoreTranscript, PW!EnqueueSummary,
         PW!HandlerStops, PW!Handles
<1>2. CASE PW!StoreTranscript(h)
  BY <1>1, <1>2 DEF SummaryInv, SummaryTypes, SummaryPending, PW!StoreTranscript, PW!Handles
<1>3. CASE PW!EnqueueSummary(h)
  BY <1>1, <1>3 DEF SummaryInv, SummaryTypes, SummaryPending, PW!EnqueueSummary, PW!Handles
<1>4. CASE PW!HandlerStops(h)
  BY <1>1, <1>4 DEF SummaryInv, SummaryTypes, SummaryPending, PW!HandlerStops
<1>5. CASE \/ PW!HandleProviderWebhook(h) \/ PW!UpdateStatus(h)
           \/ PW!NotifyStatusChange(h) \/ PW!RecordEvent(h)
  <2>1. /\ UNCHANGED <<callText, summaryJob, reads, unmade>>
        /\ hook[h] # "queueing" /\ hook'[h] # "queueing"
    BY <1>5 DEF SummaryInv, SummaryTypes, PW!HandleProviderWebhook, PW!UpdateStatus,
                PW!NotifyStatusChange, PW!RecordEvent, PW!Handles
  <2> QED BY <1>1, <2>1 DEF SummaryInv, SummaryTypes, SummaryPending
<1> QED BY <1>2, <1>3, <1>4, <1>5

\* The steps of a summary.
LEMMA SummaryJobStep ==
  ASSUME SummaryInv, redis, part = "webhook", part' = part, NEW h \in Hook,
         \/ PW!SummaryJobStarts(h) \/ PW!StoreSummary(h) \/ PW!SummaryFails(h)
         \/ PW!WorkerStops(h)
  PROVE  SummaryInv'
<1>1. CASE PW!SummaryJobStarts(h)
  BY <1>1 DEF SummaryInv, SummaryTypes, SummaryPending, PW!SummaryJobStarts, PW!SummaryText
<1>2. CASE PW!StoreSummary(h)
  BY <1>2 DEF SummaryInv, SummaryTypes, SummaryPending, PW!StoreSummary
<1>3. CASE PW!SummaryFails(h)
  BY <1>3 DEF SummaryInv, SummaryTypes, SummaryPending, PW!SummaryFails
<1>4. CASE PW!WorkerStops(h)
  BY <1>4 DEF SummaryInv, SummaryTypes, SummaryPending, PW!WorkerStops
<1> QED BY <1>1, <1>2, <1>3, <1>4

\* Every step keeps the invariant.
LEMMA SummaryStep == SummaryInv /\ [MCNext]_allVars => SummaryInv'
<1> SUFFICES ASSUME SummaryInv, [MCNext]_allVars PROVE SummaryInv'
  OBVIOUS
<1>1. CASE part # "webhook" \/ UNCHANGED <<redis, webhookVars>>
  <2>1. UNCHANGED <<webhookVars, part>> /\ (part = "webhook" => redis' = redis)
    BY <1>1, OnePartActs
  <2> QED BY <2>1 DEF SummaryInv, webhookVars, SummaryTypes, SummaryPending
<1>2. CASE part = "webhook" /\ PW!Next
  <2>1. part' = part
    BY OnePartActs
  <2>2. PICK h \in Hook :
          \/ PW!HandleProviderWebhook(h) \/ PW!UpdateStatus(h) \/ PW!NotifyStatusChange(h)
          \/ PW!RecordEvent(h) \/ PW!StoreTranscript(h) \/ PW!EnqueueSummary(h)
          \/ PW!SummaryJobStarts(h) \/ PW!StoreSummary(h) \/ PW!SummaryFails(h)
          \/ PW!WorkerStops(h) \/ PW!HandlerStops(h)
    BY <1>2 DEF PW!Next
  <2>3. CASE redis
    BY <1>2, <2>1, <2>2, <2>3, SummaryHookStep, SummaryJobStep
  <2>4. CASE ~redis
    <3>1. SummaryTypes' /\ redis' = redis
      BY <2>2 DEF SummaryInv, SummaryTypes, PW!HandleProviderWebhook, PW!UpdateStatus,
             PW!NotifyStatusChange, PW!RecordEvent, PW!StoreTranscript,
             PW!EnqueueSummary, PW!HandlerStops, PW!Handles, PW!SummaryJobStarts,
             PW!StoreSummary, PW!SummaryFails, PW!WorkerStops
    <3> QED BY <1>2, <2>1, <2>4, <3>1 DEF SummaryInv
  <2> QED BY <2>3, <2>4
<1> QED BY <1>1, <1>2, OnePartActs

\* With the queue, once every webhook is handled and every summary made, the
\* summary is of the transcript the call has, for any number of webhooks in any
\* order: each job reads the transcript when it starts, and one runs at a time.
THEOREM SummaryFollowsTranscript == MCSpec => []SummaryIsCurrent
<1>1. SummaryInv => SummaryIsCurrent
  BY DEF SummaryInv, SummaryPending, SummaryIsCurrent, PW!SummaryIsCurrent, PW!Quiet
<1> QED BY <1>1, SummaryInit, SummaryStep, PTL DEF MCSpec
-----------------------------------------------------------------------------
(* TrainingRecordings: ExamplesRedacted, and the recordings and fine-tunes  *)
(* of InProgressHasWork, from the component's own proofs.                   *)

\* The component's proofs, for the recordings of MCAfterCall.
TRP == INSTANCE TrainingRecordings_proofs

\* The component's definitions, of both instances.
LEMMA SameTraining ==
  /\ TR!Init => TRP!Init
  /\ [TR!Next]_trainingVars => [TRP!Next]_TRP!vars
  /\ UNCHANGED trainingVars => [TRP!Next]_TRP!vars
  /\ TRP!ExamplesRedacted => TR!ExamplesRedacted
  /\ TRP!InProgressHasRequest => TR!InProgressHasRequest
<1>1. TR!Next => TRP!Next
  BY DEF TR!Next, TRP!Next, TR!UploadRecording, TRP!UploadRecording,
         TR!ApproveRecording, TRP!ApproveRecording, TR!UpdateRecording, TRP!UpdateRecording,
         TR!DeleteRecording, TRP!DeleteRecording,
         TR!TranscribeRecording, TRP!TranscribeRecording,
         TR!MarkTranscribing, TRP!MarkTranscribing, TR!Transcribed, TRP!Transcribed,
         TR!LogTranscribed, TRP!LogTranscribed, TR!FailureRejected, TRP!FailureRejected,
         TR!TranscriptionFails, TRP!TranscriptionFails, TR!CreateDataset, TRP!CreateDataset,
         TR!WriteDataset, TRP!WriteDataset, TR!StartFineTune, TRP!StartFineTune,
         TR!UploadTrainingFile, TRP!UploadTrainingFile, TR!MarkUploaded, TRP!MarkUploaded,
         TR!ProviderStarts, TRP!ProviderStarts, TR!NoteProviderJob, TRP!NoteProviderJob,
         TR!LogFineTune, TRP!LogFineTune, TR!FineTuneRejected, TRP!FineTuneRejected,
         TR!Trying, TRP!Trying, TR!EndOf, TRP!EndOf,
         TR!FineTuneFails, TRP!FineTuneFails, TR!ProviderAdvances, TRP!ProviderAdvances,
         TR!RefreshJob, TRP!RefreshJob, TR!NoteRefresh, TRP!NoteRefresh,
         TR!ApiStops, TRP!ApiStops, TR!Exists, TRP!Exists, TR!ExampleOf, TRP!ExampleOf,
         TR!TunerAt, TRP!TunerAt, TR!TuningIs, TRP!TuningIs, TR!tunes, TRP!tunes,
         TR!NoRecording, TRP!NoRecording
<1> QED
  BY <1>1 DEF TR!Init, TRP!Init, TR!NoRecording, TRP!NoRecording, TR!NoDataset,
              TRP!NoDataset, trainingVars, TRP!vars, TRP!ExamplesRedacted,
              TR!ExamplesRedacted, TRP!InProgressHasRequest, TR!InProgressHasRequest

\* What goes to the provider for training has been redacted, for any number of
\* transcriptions, edits, approvals and datasets: an approved recording has a
\* redacted text, and only an operator who empties it breaks that.
THEOREM TrainingIsRedacted == MCSpec => []ExamplesRedacted
<1>1. MCInit => TRP!RedactionInv
  BY SameTraining, TRP!RedactionInit DEF MCInit
<1>2. TRP!RedactionInv /\ [MCNext]_allVars => TRP!RedactionInv'
  BY SameTraining, TRP!RedactionStep, OnePartActs
<1>3. TRP!RedactionInv => ExamplesRedacted
  BY SameTraining DEF TRP!RedactionInv, ExamplesRedacted
<1> QED BY <1>1, <1>2, <1>3, PTL DEF MCSpec
-----------------------------------------------------------------------------
(* TrainingAnalyses: the analyses and reports of InProgressHasWork.         *)

\* The recording's analysis, not a report.
Analyses == {r \in Analysis : AnalysisKind[r] # "insights"}

\* The types of the component's variables.
AnalysisTypes ==
  /\ analysisRequest \in [Analysis -> {"none", "marking", "queueing", "queued",
                                       "rejected", "gone"}]
  /\ analysisJob \in [Analysis -> {"none", "waiting", "started", "marking", "asking",
                                   "done"}]
  /\ report \in [Analysis -> {"none", "processing", "completed", "failed"}]
  /\ analysis \in {"none", "pending", "processing", "completed", "failed"}
  /\ text \in BOOLEAN

\* Which job belongs to which request, and which report to which job.
AnalysisJobs ==
  \A r \in Analysis :
    /\ analysisRequest[r] \notin {"queued", "gone"} => analysisJob[r] = "none"
    /\ analysisRequest[r] = "marking" \/ analysisJob[r] = "marking" => r \in Analyses
    /\ report[r] # "none" => r \notin Analyses
    /\ report[r] = "processing" => analysisJob[r] = "asking" \/ r \in analysisLost

\* Whoever marked the analysis last is at work on it, or is lost; a job that
\* finds it processing leaves it alone, because that is another's mark.
AnalysisIsWorkedOn ==
  /\ analysis \in {"pending", "processing"} => analysisMarker \in Analyses
  /\ analysis = "processing"
       => analysisJob[analysisMarker] = "asking" \/ analysisMarker \in analysisLost
  /\ analysis = "pending"
       => TA!Busy(analysisMarker) \/ analysisMarker \in analysisLost

\* A job that starts on a mark of its own finds the transcript that was there
\* when the mark was made, unless a reset has taken it.
MarkHasText ==
  /\ \A r \in Analysis : analysisRequest[r] = "marking" => text \/ r \in analysisLost
  /\ analysis = "pending" /\ analysisMarker \notin analysisLost
       => text \/ analysisJob[analysisMarker] \in {"marking", "asking"}

\* The invariant.
AnalysisInv == AnalysisTypes /\ AnalysisJobs /\ AnalysisIsWorkedOn /\ MarkHasText

\* At the start there is no transcript, no request and no report.
LEMMA AnalysisInit == MCInit => AnalysisInv
BY DEF MCInit, TA!Init, AnalysisInv, AnalysisTypes, AnalysisJobs, AnalysisIsWorkedOn,
       MarkHasText, Analyses

\* The steps of a request, in the controller.
LEMMA AnalysisRequestStep ==
  ASSUME AnalysisInv, NEW r \in Analysis,
         \/ TA!EnqueueRecordingAnalysis(r) \/ TA!MarkPending(r)
         \/ TA!GenerateInsights(r) \/ TA!EnqueueTrainingAnalysis(r)
         \/ TA!RequestRejects(r)
  PROVE  AnalysisInv'
<1>1. /\ AnalysisTypes' /\ UNCHANGED <<text, report>>
      /\ \A other \in Analysis \ {r} :
           /\ analysisRequest'[other] = analysisRequest[other]
           /\ analysisJob'[other] = analysisJob[other]
  BY DEF AnalysisInv, AnalysisTypes, TA!EnqueueRecordingAnalysis, TA!MarkPending,
         TA!GenerateInsights, TA!EnqueueTrainingAnalysis, TA!RequestRejects,
         TA!RequestAt, TA!JobAt
<1> USE DEF AnalysisInv, AnalysisTypes, AnalysisJobs, AnalysisIsWorkedOn, MarkHasText,
            Analyses, TA!RequestAt, TA!JobAt, TA!Busy, TA!Asked, TA!Running
<1>2. CASE TA!EnqueueRecordingAnalysis(r)
  BY <1>1, <1>2 DEF TA!EnqueueRecordingAnalysis
<1>3. CASE TA!GenerateInsights(r)
  BY <1>1, <1>3 DEF TA!GenerateInsights
<1>4. CASE TA!MarkPending(r)
  BY <1>1, <1>4 DEF TA!MarkPending
<1>5. CASE TA!EnqueueTrainingAnalysis(r)
  BY <1>1, <1>5 DEF TA!EnqueueTrainingAnalysis
<1>6. CASE TA!RequestRejects(r)
  BY <1>1, <1>6 DEF TA!RequestRejects
<1> QED BY <1>2, <1>3, <1>4, <1>5, <1>6

\* The steps of a job, in the processor.
LEMMA AnalysisJobStep ==
  ASSUME AnalysisInv, NEW r \in Analysis,
         \/ TA!WorkerStarts(r) \/ TA!AnalyzeRecording(r) \/ TA!MarkProcessing(r)
         \/ TA!CreateReport(r) \/ TA!AnalysisCompletes(r) \/ TA!AnalysisFails(r)
         \/ TA!ReportEnds(r) \/ TA!JobRejects(r) \/ TA!WorkerStops(r)
  PROVE  AnalysisInv'
<1>1. /\ AnalysisTypes' /\ UNCHANGED <<text, analysisRequest>>
      /\ analysisJob[r] # "none"
      /\ \A other \in Analysis \ {r} :
           analysisJob'[other] = analysisJob[other] /\ report'[other] = report[other]
  BY DEF AnalysisInv, AnalysisTypes, TA!WorkerStarts, TA!AnalyzeRecording,
         TA!MarkProcessing, TA!CreateReport, TA!AnalysisCompletes, TA!AnalysisFails,
         TA!ReportEnds, TA!JobRejects, TA!WorkerStops, TA!JobAt, TA!Running
<1> USE DEF AnalysisInv, AnalysisTypes, AnalysisJobs, AnalysisIsWorkedOn, MarkHasText,
            Analyses, TA!JobAt, TA!Busy, TA!Asked, TA!Running
<1>2. CASE TA!WorkerStarts(r)
  BY <1>1, <1>2 DEF TA!WorkerStarts
<1>3. CASE TA!AnalyzeRecording(r)
  BY <1>1, <1>3 DEF TA!AnalyzeRecording, TA!Settled
<1>4. CASE TA!MarkProcessing(r)
  BY <1>1, <1>4 DEF TA!MarkProcessing
<1>5. CASE TA!CreateReport(r)
  BY <1>1, <1>5 DEF TA!CreateReport
<1>6. CASE TA!ReportEnds(r)
  BY <1>1, <1>6 DEF TA!ReportEnds
<1>7. CASE TA!AnalysisCompletes(r) \/ TA!AnalysisFails(r)
  BY <1>1, <1>7 DEF TA!AnalysisCompletes, TA!AnalysisFails
<1>8. CASE TA!JobRejects(r)
  BY <1>1, <1>8 DEF TA!JobRejects
<1>9. CASE TA!WorkerStops(r)
  BY <1>1, <1>9 DEF TA!WorkerStops
<1> QED BY <1>2, <1>3, <1>4, <1>5, <1>6, <1>7, <1>8, <1>9

\* Every step keeps the invariant.
LEMMA AnalysisStep == AnalysisInv /\ [MCNext]_allVars => AnalysisInv'
<1> SUFFICES ASSUME AnalysisInv, [MCNext]_allVars PROVE AnalysisInv'
  OBVIOUS
<1> USE DEF AnalysisInv, AnalysisTypes, AnalysisJobs, AnalysisIsWorkedOn, MarkHasText,
            Analyses, TA!Busy, TA!Asked, TA!Running
<1>1. CASE UNCHANGED analysisVars
  BY <1>1 DEF analysisVars
<1>2. CASE TA!Next
  <2>1. CASE TA!Transcribe
    BY <2>1 DEF TA!Transcribe
  <2>2. CASE TA!ResetTranscription
    BY <2>2 DEF TA!ResetTranscription
  <2>3. CASE TA!ApiStops
    BY <2>3 DEF TA!ApiStops
  <2> HIDE DEF AnalysisInv
  <2> QED BY <1>2, <2>1, <2>2, <2>3, AnalysisRequestStep, AnalysisJobStep DEF TA!Next
<1> QED BY <1>1, <1>2, OnePartActs DEF analysisVars

-----------------------------------------------------------------------------
(* Campaigns: the queued calls of InProgressHasWork.                        *)

\* A call is queued while its job is about to initiate it.
CampaignInv ==
  /\ campaignJobs \in [CP!Numbers -> [phase : {"none", "waiting", "created", "noted", "done"},
                                      by : CampaignRequest \cup {"none"},
                                      queue : {"none", "campaign", "retry"},
                                      rerun : BOOLEAN]]
  /\ campaignCalls \in [CP!Numbers -> {"none", "queued", "initiated", "failed"}]
  /\ CP!QueuedHasProcessor

\* At the start there is no call.
LEMMA CampaignInit == MCInit => CampaignInv
BY DEF MCInit, CP!Init, CampaignInv, CP!NoJob, CP!NoCall, CP!QueuedHasProcessor

\* Every step keeps the invariant.
LEMMA CampaignStep == CampaignInv /\ [MCNext]_allVars => CampaignInv'
<1> SUFFICES ASSUME CampaignInv, [MCNext]_allVars PROVE CampaignInv'
  OBVIOUS
<1> USE DEF CampaignInv, CP!QueuedHasProcessor, CP!Busy
<1>1. CASE UNCHANGED <<campaignJobs, campaignCalls, campaignLost>>
  BY <1>1
<1>2. ASSUME NEW r \in CampaignRequest, CP!Enqueue(r) PROVE CampaignInv'
  BY <1>2 DEF CP!Enqueue, CP!Fresh, CP!NoJob
<1>3. ASSUME NEW n \in CP!Numbers,
             \/ CP!CreateCall(n) \/ CP!NoteEvent(n) \/ CP!Initiate(n) \/ CP!CallFails(n)
             \/ CP!JobRejects(n)
      PROVE  CampaignInv'
  BY <1>3 DEF CP!CreateCall, CP!NoteEvent, CP!Initiate, CP!CallFails, CP!JobRejects,
              CP!Lost
<1>4. ASSUME NEW n \in CP!Numbers, CP!WorkerStops(n) PROVE CampaignInv'
  <2>1. CASE campaignJobs' = [campaignJobs EXCEPT ![n].phase = "done"]
    BY <1>4, <2>1 DEF CP!WorkerStops, CP!Lost
  <2>2. ASSUME NEW again \in CP!Numbers, CP!Fresh(again),
               campaignJobs' = [campaignJobs EXCEPT ![n].phase = "done",
                 ![again] = [campaignJobs[n] EXCEPT !.phase = "waiting", !.rerun = TRUE]]
        PROVE  CampaignInv'
    <3>1. /\ campaignCalls' = campaignCalls /\ CP!Busy(n)
          /\ campaignLost' = campaignLost \union {n}
      BY <1>4 DEF CP!WorkerStops, CP!Lost
    <3>2. again # n /\ campaignJobs[again].phase = "none"
      BY <2>2, <3>1 DEF CP!Fresh, CP!NoJob
    <3>3. /\ campaignJobs[n] \in [phase : {"none", "waiting", "created", "noted", "done"},
                                  by : CampaignRequest \cup {"none"},
                                  queue : {"none", "campaign", "retry"}, rerun : BOOLEAN]
          /\ campaignJobs' = [campaignJobs EXCEPT
               ![n] = [campaignJobs[n] EXCEPT !.phase = "done"],
               ![again] = [campaignJobs[n] EXCEPT !.phase = "waiting", !.rerun = TRUE]]
      BY <2>2
    <3> QED BY <3>1, <3>2, <3>3
  <2> QED BY <1>4, <2>1, <2>2 DEF CP!WorkerStops
<1>5. CASE CP!ApiStops
  BY <1>5 DEF CP!ApiStops, CP!NoJob
<1>6. CASE \/ CP!AddCustomers \/ CP!Pause \/ CP!Resume
           \/ \E r \in CampaignRequest :
                \/ CP!ReadForSchedule(r) \/ CP!MarkScheduled(r) \/ CP!RetryFailed(r)
                \/ CP!EndRequest(r)
  BY <1>6, <1>1 DEF CP!AddCustomers, CP!Pause, CP!Resume, CP!ReadForSchedule,
                    CP!MarkScheduled, CP!RetryFailed, CP!EndRequest
<1> QED BY <1>1, <1>2, <1>3, <1>4, <1>5, <1>6, OnePartActs DEF CP!Next, campaignVars

\* What the console shows as in progress is being worked on by whom marked it, in
\* the three places that show it, or by one that a rejecting query, a stop or a
\* reset kept from its outcome: for any number of requests, jobs, fine-tunes and
\* calls.
THEOREM InProgressIsWorkedOn == MCSpec => []InProgressHasWork
<1>1. MCInit => TRP!RequestInv /\ TRP!RedactionInv
  BY SameTraining, TRP!RequestInit, TRP!RedactionInit DEF MCInit
<1>2. TRP!RedactionInv /\ [MCNext]_allVars => TRP!RedactionInv'
  BY SameTraining, TRP!RedactionStep, OnePartActs
<1>3. TRP!RedactionInv /\ TRP!RequestInv /\ [MCNext]_allVars => TRP!RequestInv'
  BY SameTraining, TRP!RequestStep, OnePartActs DEF TRP!RedactionInv
<1>4. TRP!RequestInv => TR!InProgressHasRequest
  BY SameTraining DEF TRP!RequestInv, TRP!TranscribingHasRequest, TRP!TuningHasRequest,
                      TRP!InProgressHasRequest
<1>5. AnalysisInv => TA!InProgressHasJob
  BY DEF AnalysisInv, AnalysisJobs, AnalysisIsWorkedOn, Analyses, TA!InProgressHasJob,
         TA!Busy, TA!Running
<1>6. CampaignInv => CP!QueuedHasProcessor
  BY DEF CampaignInv
<1>7. TA!InProgressHasJob /\ TR!InProgressHasRequest /\ CP!QueuedHasProcessor
        <=> InProgressHasWork
  BY DEF InProgressHasWork
<1> QED BY <1>1, <1>2, <1>3, <1>4, <1>5, <1>6, <1>7, AnalysisInit, AnalysisStep,
           CampaignInit, CampaignStep, PTL DEF MCSpec
-----------------------------------------------------------------------------
(* Playbooks: CacheIsRecent.                                                *)

\* A set of indices has a largest and a smallest one.
LEMMA LargestIndex ==
  ASSUME NEW n \in Nat, NEW I, I \subseteq 1..n, I # {}
  PROVE  \E x \in I : \A y \in I : x >= y
<1> DEFINE T == {k \in Nat : \E i \in I : k + i = n}
<1>1. T \subseteq Nat /\ T # {}
  <2>1. PICK i \in I : TRUE
    OBVIOUS
  <2>2. n - i \in Nat /\ (n - i) + i = n
    BY <2>1
  <2> QED BY <2>1, <2>2
<1>2. PICK t \in T : \A u \in T : ~ (<<u, t>> \in OpToRel(<, Nat))
  BY <1>1, NatLessThanWellFounded, WFMin
<1>3. \A u \in T : ~(u < t)
  BY <1>1, <1>2 DEF OpToRel
<1>4. PICK x \in I : t + x = n
  BY <1>2
<1>5. ASSUME NEW y \in I PROVE x >= y
  <2>1. n - y \in T
    OBVIOUS
  <2>2. ~(n - y < t) /\ t \in Nat
    BY <1>1, <1>2, <1>3, <2>1
  <2> QED BY <1>4, <2>2
<1> QED BY <1>5

\* A set of indices that is not empty has a least one.
LEMMA SmallestIndex ==
  ASSUME NEW n \in Nat, NEW I, I \subseteq 1..n, I # {}
  PROVE  \E x \in I : \A y \in I : x =< y
<1>1. I \subseteq Nat
  OBVIOUS
<1>2. PICK x \in I : \A y \in I : ~ (<<y, x>> \in OpToRel(<, Nat))
  BY <1>1, NatLessThanWellFounded, WFMin
<1>3. \A y \in I : ~(y < x)
  BY <1>1, <1>2 DEF OpToRel
<1> QED BY <1>1, <1>3

\* What is answered is a playbook or null.
LEMMA AnswerIsOne ==
  ASSUME NEW rows, NEW order \in Seq(Playbook)
  PROVE  PB!ActiveIn(rows, order) \in PB!Answers
<1> DEFINE I == {i \in 1..Len(order) : rows[order[i]] = "active"}
<1>1. CASE I = {}
  BY <1>1 DEF PB!ActiveIn, PB!SelectLastInSeq, PB!Answers
<1>2. CASE I # {}
  <2>1. PB!Max(I) \in I
    <3>1. \E x \in I : \A y \in I : x >= y
      BY <1>2, Len(order) \in Nat, LargestIndex
    <3> HIDE DEF I
    <3> QED BY <3>1, Zenon DEF PB!Max
  <2>2. order[PB!Max(I)] \in Playbook
    BY <2>1
  <2> QED BY <1>2, <2>1, <2>2 DEF PB!ActiveIn, PB!SelectLastInSeq, PB!Answers
<1> QED BY <1>1, <1>2

\* An activated playbook goes to the end of the order.
LEMMA OrderOfActivation ==
  ASSUME NEW order \in Seq(Playbook), NEW p \in Playbook
  PROVE  Append(PB!RemoveFirst(order, p), p) \in Seq(Playbook)
<1> DEFINE I == {i \in 1..Len(order) : order[i] = p}
<1>1. CASE I = {}
  BY <1>1 DEF PB!RemoveFirst
<1>2. CASE I # {}
  <2>1. PB!Min(I) \in I
    <3>1. \E x \in I : \A y \in I : x =< y
      BY <1>2, Len(order) \in Nat, SmallestIndex
    <3> HIDE DEF I
    <3> QED BY <3>1, Zenon DEF PB!Min
  <2>2. \A i \in 1..Len(order) :
          SubSeq(order, 1, i - 1) \o SubSeq(order, i + 1, Len(order)) \in Seq(Playbook)
    BY SubSeqProperties, ConcatProperties
  <2>3. PB!SelectInSeq(order, LAMBDA v : v = p) = PB!Min(I)
    BY <1>2 DEF PB!SelectInSeq
  <2>4. PB!RemoveFirst(order, p) \in Seq(Playbook)
    BY <2>1, <2>2, <2>3 DEF PB!RemoveFirst, PB!RemoveAt, PB!SelectInSeq
  <2> QED BY <2>4
<1> QED BY <1>1, <1>2
\* The types of what CacheIsRecent depends on.
PlaybookTypes ==
  /\ activated \in Seq(Playbook)
  /\ request.phase = "read" => request.id \in Playbook
  /\ cache \in [playbook : PB!Answers, age : Nat]
  /\ lookup \in [Lookup -> [phase : {"idle", "querying", "answered"}, age : Nat,
                            answer : PB!Answers]]
  /\ gone \in [PB!Answers -> Nat]

\* The active playbook has not gone, and an answer in hand or in the cache went
\* no longer ago than its age says.
CacheInv ==
  /\ PlaybookTypes
  /\ gone[PB!ActivePlaybook] = 0
  /\ \A l \in Lookup : lookup[l].phase = "answered" => gone[lookup[l].answer] <= lookup[l].age
  /\ PB!CacheIsRecent

\* At the start the answer is null.
LEMMA CacheInit == MCInit => CacheInv
<1> SUFFICES ASSUME PB!Init PROVE CacheInv
  BY DEF MCInit
<1>1. Ttl \in Nat /\ NoPlaybook \in PB!Answers
  BY AfterCallAssumptions DEF PB!PlaybookAssumption, PB!Answers
<1>2. activated = <<>> /\ \A p \in Playbook : status[p] = "none"
  BY DEF PB!Init
<1>3. PB!ActivePlaybook = NoPlaybook
  BY <1>2 DEF PB!ActivePlaybook, PB!ActiveIn, PB!SelectLastInSeq
<1>4. PlaybookTypes
  BY <1>1 DEF PB!Init, PlaybookTypes, PB!NoRequest, PB!EmptyCache
<1> QED BY <1>1, <1>3, <1>4 DEF CacheInv, PB!Init, PB!EmptyCache, PB!CacheIsRecent, PB!Usable

\* A write, of this process or another, only makes answers fresher.
LEMMA CacheWrite ==
  ASSUME CacheInv, NEW rows, NEW order \in Seq(Playbook), PB!Writes(rows, order),
         UNCHANGED <<cache, lookup>>,
         request'.phase = "read" => request'.id \in Playbook
  PROVE  CacheInv'
<1>1. /\ PB!ActivePlaybook \in PB!Answers
      /\ PB!ActiveIn(rows, order) \in PB!Answers
      /\ PB!ActivePlaybook' = PB!ActiveIn(rows, order)
  BY AnswerIsOne DEF PB!ActivePlaybook, PB!Writes, CacheInv, PlaybookTypes
<1>2. /\ gone' \in [PB!Answers -> Nat]
      /\ gone'[PB!ActiveIn(rows, order)] = 0
      /\ \A p \in PB!Answers : gone'[p] <= gone[p]
  <2>1. gone \in [PB!Answers -> Nat]
    BY DEF CacheInv, PlaybookTypes
  <2>2. gone' = [gone EXCEPT ![PB!ActivePlaybook] = 0, ![PB!ActiveIn(rows, order)] = 0]
    BY DEF PB!Writes
  <2> QED BY <1>1, <2>1, <2>2
<1>3. PlaybookTypes'
  BY <1>2 DEF CacheInv, PlaybookTypes, PB!Writes, PB!Answers
<1>4. \A l \in Lookup :
        lookup'[l].phase = "answered" => gone'[lookup'[l].answer] <= lookup'[l].age
  BY <1>2, <1>3 DEF CacheInv, PlaybookTypes
<1>5. PB!CacheIsRecent'
  BY <1>2, <1>3 DEF CacheInv, PlaybookTypes, PB!CacheIsRecent, PB!Usable
<1> QED BY <1>1, <1>2, <1>3, <1>4, <1>5 DEF CacheInv

\* Every operation of the console is such a write.
LEMMA ConsoleWrites ==
  ASSUME CacheInv, NEW op, NEW p \in Playbook, NEW read, PB!Write(op, p, read)
  PROVE  \E rows, order : order \in Seq(Playbook) /\ PB!Writes(rows, order)
<1>1. activated \in Seq(Playbook) /\ Append(PB!RemoveFirst(activated, p), p) \in Seq(Playbook)
  BY OrderOfActivation DEF CacheInv, PlaybookTypes
<1> QED BY <1>1 DEF PB!Write, PB!CreatePlaybook, PB!ApprovePlaybook, PB!ActivatePlaybook,
                    PB!ArchivePlaybook, PB!UpdateDraftPlaybook

\* Older keeps the order of ages.
LEMMA OlderKeepsOrder ==
  ASSUME NEW a \in Nat, NEW b \in Nat, a <= b
  PROVE  PB!Older(a) \in Nat /\ PB!Older(b) \in Nat /\ PB!Older(a) <= PB!Older(b)
BY AfterCallAssumptions DEF PB!PlaybookAssumption, PB!Older

\* Time passes for the cache, the lookups and what has gone alike.
LEMMA CacheTick == ASSUME CacheInv, PB!Tick PROVE CacheInv'
<1>1. PlaybookTypes /\ PB!ActivePlaybook \in PB!Answers /\ Ttl \in Nat
  BY AnswerIsOne, AfterCallAssumptions
     DEF CacheInv, PlaybookTypes, PB!ActivePlaybook, PB!PlaybookAssumption
<1>2. PB!ActivePlaybook' = PB!ActivePlaybook
  BY DEF PB!Tick, PB!ActivePlaybook
<1>3. /\ gone' \in [PB!Answers -> Nat] /\ gone'[PB!ActivePlaybook] = 0
      /\ \A p \in PB!Answers : gone'[p] <= PB!Older(gone[p])
  BY <1>1, OlderKeepsOrder DEF PB!Tick, PlaybookTypes
<1>4. /\ cache' \in [playbook : PB!Answers, age : Nat]
      /\ cache'.playbook = cache.playbook /\ cache'.age = PB!Older(cache.age)
  <2>1. /\ cache.age \in Nat /\ cache.playbook \in PB!Answers
        /\ cache' = [cache EXCEPT !.age = PB!Older(cache.age)]
        /\ cache \in [playbook : PB!Answers, age : Nat]
    BY <1>1 DEF PB!Tick, PlaybookTypes
  <2>2. PB!Older(cache.age) \in Nat
    BY <2>1, OlderKeepsOrder
  <2> QED BY <2>1, <2>2
<1>5. \A l \in Lookup :
        /\ lookup'[l] \in [phase : {"idle", "querying", "answered"}, age : Nat,
                           answer : PB!Answers]
        /\ lookup'[l].phase = lookup[l].phase /\ lookup'[l].answer = lookup[l].answer
        /\ lookup[l].phase = "answered" => lookup'[l].age = PB!Older(lookup[l].age)
  <2>1. SUFFICES ASSUME NEW l \in Lookup
        PROVE /\ lookup'[l] \in [phase : {"idle", "querying", "answered"}, age : Nat,
                                 answer : PB!Answers]
              /\ lookup'[l].phase = lookup[l].phase /\ lookup'[l].answer = lookup[l].answer
              /\ lookup[l].phase = "answered" => lookup'[l].age = PB!Older(lookup[l].age)
    OBVIOUS
  <2>2. /\ lookup[l] \in [phase : {"idle", "querying", "answered"}, age : Nat,
                          answer : PB!Answers]
        /\ lookup'[l] = IF lookup[l].phase = "idle" THEN lookup[l]
                        ELSE [lookup[l] EXCEPT !.age = PB!Older(lookup[l].age)]
    BY <1>1 DEF PB!Tick, PlaybookTypes
  <2>3. PB!Older(lookup[l].age) \in Nat
    BY <2>2, OlderKeepsOrder
  <2> QED BY <2>2, <2>3
<1>6. PlaybookTypes'
  BY <1>1, <1>3, <1>4, <1>5 DEF PB!Tick, PlaybookTypes, PB!Answers
<1>7. ASSUME NEW l \in Lookup, lookup'[l].phase = "answered"
      PROVE  gone'[lookup'[l].answer] <= lookup'[l].age
  <2>1. gone[lookup[l].answer] <= lookup[l].age
    BY <1>5, <1>7 DEF CacheInv
  <2>2. /\ lookup'[l].answer = lookup[l].answer
        /\ lookup'[l].age = PB!Older(lookup[l].age)
        /\ lookup[l].answer \in PB!Answers /\ lookup[l].age \in Nat
        /\ gone[lookup[l].answer] \in Nat
    BY <1>1, <1>5, <1>7 DEF PlaybookTypes
  <2>3. /\ PB!Older(gone[lookup[l].answer]) <= PB!Older(lookup[l].age)
        /\ PB!Older(gone[lookup[l].answer]) \in Nat /\ PB!Older(lookup[l].age) \in Nat
    BY <2>1, <2>2, OlderKeepsOrder
  <2> QED BY <1>3, <2>2, <2>3
<1>8. PB!CacheIsRecent'
  <2>1. SUFFICES ASSUME cache'.age < Ttl PROVE gone'[cache'.playbook] <= cache'.age
    BY DEF PB!CacheIsRecent, PB!Usable
  <2>2. gone[cache.playbook] <= cache.age
    BY <1>1, <1>4, <2>1 DEF CacheInv, PB!CacheIsRecent, PB!Usable, PB!Older, PlaybookTypes
  <2> QED BY <1>1, <1>3, <1>4, <2>2, OlderKeepsOrder DEF PlaybookTypes
<1> QED BY <1>2, <1>3, <1>6, <1>7, <1>8 DEF CacheInv

\* The steps of a lookup.
LEMMA CacheLookup ==
  ASSUME CacheInv, NEW l \in Lookup,
         \/ PB!StartLookup(l) \/ PB!QueryActive(l) \/ PB!FillCache(l) \/ PB!LookupFails(l)
  PROVE  CacheInv'
<1>1. /\ PlaybookTypes /\ PB!ActivePlaybook \in PB!Answers /\ Ttl \in Nat
      /\ NoPlaybook \in PB!Answers
  BY AnswerIsOne, AfterCallAssumptions
     DEF CacheInv, PlaybookTypes, PB!ActivePlaybook, PB!PlaybookAssumption, PB!Answers
<1>2. /\ PB!ActivePlaybook' = PB!ActivePlaybook
      /\ UNCHANGED <<status, activated, request, gone>>
  BY DEF PB!StartLookup, PB!QueryActive, PB!FillCache, PB!LookupFails, PB!ActivePlaybook
<1>3. \A other \in Lookup \ {l} : lookup'[other] = lookup[other]
  BY <1>1 DEF PB!StartLookup, PB!QueryActive, PB!FillCache, PB!LookupFails, PlaybookTypes
<1>4. /\ lookup' \in [Lookup -> [phase : {"idle", "querying", "answered"}, age : Nat,
                                 answer : PB!Answers]]
      /\ lookup'[l].phase = "answered" => lookup'[l].answer = PB!ActivePlaybook
  <2>1. lookup[l] \in [phase : {"idle", "querying", "answered"}, age : Nat,
                       answer : PB!Answers]
    BY <1>1 DEF PlaybookTypes
  <2>2. CASE PB!StartLookup(l)
    <3>1. lookup' = [lookup EXCEPT ![l] = [lookup[l] EXCEPT !.phase = "querying", !.age = 0]]
      BY <1>1, <2>2 DEF PB!StartLookup, PlaybookTypes
    <3> QED BY <1>1, <2>1, <3>1 DEF PlaybookTypes
  <2>3. CASE PB!QueryActive(l)
    <3>1. lookup' = [lookup EXCEPT ![l] = [lookup[l] EXCEPT !.phase = "answered",
                                                   !.answer = PB!ActivePlaybook]]
      BY <1>1, <2>3 DEF PB!QueryActive, PlaybookTypes
    <3> QED BY <1>1, <2>1, <3>1 DEF PlaybookTypes
  <2>4. CASE PB!FillCache(l) \/ PB!LookupFails(l)
    <3>1. lookup' = [lookup EXCEPT ![l] =
                       [phase |-> "idle", age |-> 0, answer |-> NoPlaybook]]
      BY <2>4 DEF PB!FillCache, PB!LookupFails
    <3> QED BY <1>1, <3>1 DEF PlaybookTypes
  <2> QED BY <2>2, <2>3, <2>4
<1>5. /\ cache' \in [playbook : PB!Answers, age : Nat]
      /\ \/ cache' = cache
         \/ cache'.age = Ttl
         \/ /\ cache'.playbook = lookup[l].answer /\ cache'.age = lookup[l].age
            /\ lookup[l].phase = "answered"
  BY <1>1 DEF PB!StartLookup, PB!QueryActive, PB!FillCache, PB!LookupFails, PlaybookTypes,
              PB!EmptyCache, PB!Expiry
<1>6. PlaybookTypes'
  BY <1>1, <1>2, <1>4, <1>5 DEF PlaybookTypes, PB!Answers
<1>7. \A one \in Lookup : lookup'[one].phase = "answered"
        => gone'[lookup'[one].answer] <= lookup'[one].age
  BY <1>2, <1>3, <1>4 DEF CacheInv
<1>8. PB!CacheIsRecent'
  BY <1>1, <1>2, <1>5 DEF CacheInv, PB!CacheIsRecent, PB!Usable
<1> QED BY <1>2, <1>6, <1>7, <1>8 DEF CacheInv

\* Every step keeps the invariant.
LEMMA CacheStep == CacheInv /\ [MCNext]_allVars => CacheInv'
<1> SUFFICES ASSUME CacheInv, [MCNext]_allVars PROVE CacheInv'
  OBVIOUS
<1>1. CASE UNCHANGED playbookVars
  BY <1>1 DEF CacheInv, playbookVars, PlaybookTypes, PB!Answers, PB!ActivePlaybook,
              PB!CacheIsRecent, PB!Usable
<1>2. CASE PB!Next
  <2>1. ASSUME NEW op, NEW p \in Playbook, PB!ReadPlaybook(op, p) PROVE CacheInv'
    BY <2>1 DEF PB!ReadPlaybook, CacheInv, PlaybookTypes, PB!Answers, PB!ActivePlaybook,
                PB!CacheIsRecent, PB!Usable
  <2>2. ASSUME NEW op, NEW p \in Playbook, PB!WriteElsewhere(op, p) PROVE CacheInv'
    <3>1. /\ PB!Write(op, p, status[p]) /\ UNCHANGED <<cache, lookup>>
          /\ request'.phase = "read" => request'.id \in Playbook
      BY <2>2 DEF PB!WriteElsewhere, CacheInv, PlaybookTypes
    <3> QED BY <3>1, ConsoleWrites, CacheWrite
  <2>3. CASE PB!WritePlaybook
    <3>1. /\ request.id \in Playbook /\ UNCHANGED <<cache, lookup>>
          /\ PB!Write(request.op, request.id, request.status)
          /\ request'.phase = "read" => request'.id \in Playbook
      BY <2>3 DEF PB!WritePlaybook, CacheInv, PlaybookTypes
    <3> QED BY <3>1, ConsoleWrites, CacheWrite
  <2>4. CASE PB!InvalidateRuntimeCache
    <3>1. Ttl \in Nat /\ NoPlaybook \in PB!Answers
      BY AfterCallAssumptions DEF PB!PlaybookAssumption, PB!Answers
    <3> QED
      BY <2>4, <3>1 DEF PB!InvalidateRuntimeCache, PB!NoRequest, PB!EmptyCache, CacheInv,
                        PlaybookTypes, PB!Answers, PB!ActivePlaybook, PB!CacheIsRecent,
                        PB!Usable
  <2> QED BY <1>2, <2>1, <2>2, <2>3, <2>4, CacheLookup, CacheTick DEF PB!Next
<1> QED BY <1>1, <1>2, OnePartActs

\* The playbook a call takes from the cache was the active one within the cache's
\* lifetime, for any playbooks, lookups and requests of this and other processes:
\* the expiry is counted from before the query.
THEOREM CachedPlaybookIsRecent == MCSpec => []CacheIsRecent
<1>1. CacheInv => CacheIsRecent
  BY DEF CacheInv, CacheIsRecent
<1> QED BY <1>1, CacheInit, CacheStep, PTL DEF MCSpec

-----------------------------------------------------------------------------
(* RecordingLookups: KeptRecordingIsFound.                                 *)

\* What a session is known by, and a request at work.
KnownSession == [there : BOOLEAN, call : BOOLEAN, key : BOOLEAN]
AtWork ==
  [part : {"resolve", "rows", "look", "row", "bucket"}, route : RL!Routes, pass : 1..4,
   hint : KnownSession, rowHint : BOOLEAN, promised : BOOLEAN]
AnsweredLookup ==
  [part : {"answered"}, promised : BOOLEAN,
   answer : {"found", "none", "unknown", "failed"}]

\* The types.
LookupTypes ==
  /\ place \in {"new", "active", "recent", "gone"}
  /\ finalizer \in [RL!EndEvent -> {"idle", "runtime", "upload", "save", "complete",
                                    "done"}]
  /\ call \in BOOLEAN /\ key \in BOOLEAN /\ remembered \in BOOLEAN /\ s3Row \in BOOLEAN
  /\ object \in BOOLEAN /\ live_recording \in BOOLEAN /\ usesRedis \in BOOLEAN
  /\ saving \in KnownSession /\ copy \in KnownSession
  /\ recordingLookup \in {RL!NoLookup} \cup AnsweredLookup \cup AtWork

\* One finalizer takes the recording: until then nothing of it is stored, and
\* the row is written once.
TakenOnce ==
  /\ place = "new" =>
       /\ ~call /\ \A f \in RL!EndEvent : finalizer[f] = "idle"
       /\ recordingLookup = RL!NoLookup /\ ~live_recording /\ ~s3Row
  /\ live_recording =>
       ~s3Row /\ \A f \in RL!EndEvent : finalizer[f] \notin {"upload", "save"}
  /\ \A f \in RL!EndEvent : finalizer[f] \in {"upload", "save"} =>
       ~s3Row /\ \A g \in RL!EndEvent : finalizer[g] \in {"upload", "save"} => g = f

\* The session is copied once, when it ends, and the copy knows no more than the
\* session does.
CopiedOnce ==
  /\ place \in {"new", "active"} => ~saving.there /\ ~copy.there
  /\ saving.there => ~copy.there
  /\ copy.there => usesRedis /\ copy.call = call /\ (copy.key => key)
  /\ saving.there => usesRedis /\ saving.call = call /\ (saving.key => key)
  /\ ~saving.there => ~saving.key
  /\ ~copy.there => ~copy.key

\* Whatever names the object, the object is there.
KeysName ==
  /\ (remembered \/ key \/ s3Row) => object
  /\ \A f \in RL!EndEvent : finalizer[f] = "save" => object
  /\ recordingLookup.part \in {"resolve", "rows", "look", "row", "bucket"} =>
       /\ (recordingLookup.hint.key \/ recordingLookup.rowHint) => object
       /\ recordingLookup.part = "bucket" => object

\* What was promised a request is still kept.
PromiseHolds ==
  /\ recordingLookup.part \in {"resolve", "rows", "look", "row", "bucket"} =>
       /\ recordingLookup.promised => RL!Durable
       /\ (recordingLookup.promised /\ recordingLookup.part = "row") => s3Row
  /\ RL!KeptRecordingIsFound

LookupInv == LookupTypes /\ TakenOnce /\ CopiedOnce /\ KeysName /\ PromiseHolds

\* At first nothing is known.
LEMMA LookupInit == MCInit => LookupInv
<1> SUFFICES ASSUME RL!Init PROVE LookupInv
  BY DEF MCInit
<1>1. RL!NoCopy \in KnownSession /\ ~RL!NoCopy.there /\ ~RL!NoCopy.key
      /\ RL!NoLookup.part = "idle"
  BY DEF RL!NoCopy, KnownSession, RL!NoLookup
<1>2. LookupTypes
  BY <1>1 DEF RL!Init, LookupTypes
<1>3. TakenOnce /\ CopiedOnce
  BY <1>1 DEF RL!Init, TakenOnce, CopiedOnce
<1>4. KeysName /\ PromiseHolds
  BY <1>1 DEF RL!Init, KeysName, PromiseHolds, RL!KeptRecordingIsFound
<1>5. QED
  BY <1>2, <1>3, <1>4 DEF LookupInv

\* The session as it is copied.
LEMMA SnapshotIsKnown == LookupTypes => RL!Snapshot \in KnownSession
BY DEF LookupTypes, RL!Snapshot, KnownSession

\* A step of the end of the call leaves the request alone, and the promise.
LEMMA LookupAside ==
  ASSUME LookupInv, recordingLookup' = recordingLookup, LookupTypes',
         TakenOnce', CopiedOnce', (remembered \/ key \/ s3Row)' => object',
         \A f \in RL!EndEvent : finalizer'[f] = "save" => object',
         object => object', s3Row => s3Row',
         copy' = copy \/ ~copy.there
  PROVE  LookupInv'
<1>1. KeysName'
  BY DEF LookupInv, KeysName
<1>2. RL!Durable => RL!Durable'
  BY DEF RL!Durable
<1>3. PromiseHolds'
  BY <1>2 DEF LookupInv, PromiseHolds, RL!KeptRecordingIsFound
<1>4. QED
  BY <1>1, <1>3 DEF LookupInv

\* StartStream
LEMMA LookupStart == ASSUME LookupInv, RL!StartStream PROVE LookupInv'
<1>1. LookupTypes'
  BY DEF RL!StartStream, LookupInv, LookupTypes
<1>2. TakenOnce'
  BY DEF RL!StartStream, LookupInv, LookupTypes, TakenOnce
<1>3. CopiedOnce'
  BY DEF RL!StartStream, LookupInv, CopiedOnce
<1>4. QED
  BY <1>1, <1>2, <1>3, LookupAside DEF RL!StartStream, LookupInv, KeysName

\* The copy arrives in Redis.
LEMMA LookupSave == ASSUME LookupInv, RL!SaveEndedSession PROVE LookupInv'
<1>1. LookupTypes'
  BY DEF RL!SaveEndedSession, LookupInv, LookupTypes, KnownSession, RL!NoCopy
<1>2. TakenOnce'
  BY DEF RL!SaveEndedSession, LookupInv, TakenOnce
<1>3. CopiedOnce'
  BY DEF RL!SaveEndedSession, LookupInv, CopiedOnce, RL!NoCopy
<1>4. QED
  BY <1>1, <1>2, <1>3, LookupAside DEF RL!SaveEndedSession, LookupInv, KeysName, CopiedOnce

\* A finalizer moves on; what it changes besides.
LEMMA FinalizerMoves ==
  ASSUME LookupInv, NEW f \in RL!EndEvent,
         NEW pc \in {"idle", "runtime", "upload", "save", "complete", "done"}, RL!To(f, pc)
  PROVE  /\ finalizer' \in [RL!EndEvent -> {"idle", "runtime", "upload", "save",
                                           "complete", "done"}]
         /\ finalizer'[f] = pc
         /\ \A g \in RL!EndEvent : g # f => finalizer'[g] = finalizer[g]
BY DEF RL!To, LookupInv, LookupTypes

\* The end of a session copies what it knows then.
LEMMA SessionCopied ==
  ASSUME LookupInv, place # "new", RL!EndSession,
         UNCHANGED <<usesRedis, call, key, copy>>
  PROVE  /\ CopiedOnce' /\ saving' \in KnownSession
         /\ place' \in {"active", "recent", "gone"} /\ place' # "new"
BY SnapshotIsKnown
   DEF RL!EndSession, LookupInv, LookupTypes, CopiedOnce, RL!Snapshot

\* Each step of a finalizer.
LEMMA LookupFinalizing ==
  ASSUME LookupInv, NEW f \in RL!EndEvent, RL!Finalizing(f)
  PROVE  LookupInv'
<1>1. CASE RL!Begin(f)
  <2>1. /\ place = "active" /\ RL!To(f, "runtime")
        /\ UNCHANGED <<usesRedis, place, call, key, live_recording, remembered, object,
                       s3Row, saving, copy, recordingLookup>>
    BY <1>1 DEF RL!Begin
  <2>2. LookupTypes' /\ TakenOnce' /\ CopiedOnce'
    BY <2>1, FinalizerMoves DEF LookupInv, LookupTypes, TakenOnce, CopiedOnce
  <2>3. QED
    BY <2>1, <2>2, FinalizerMoves, LookupAside DEF LookupInv, KeysName
<1>2. CASE RL!Take(f)
  <2>1. /\ finalizer[f] = "runtime" /\ live_recording' = (live_recording /\ remembered)
        /\ UNCHANGED <<usesRedis, call, remembered, object, s3Row, copy, recordingLookup>>
        /\ place # "new"
    BY <1>2 DEF RL!Take, LookupInv, TakenOnce
  <2>2. CASE remembered /\ RL!To(f, "complete") /\ RL!AttachRecordingMetadata
             /\ UNCHANGED <<place, saving>>
    <3>1. key' \in BOOLEAN /\ (key => key') /\ object
      BY <2>2 DEF RL!AttachRecordingMetadata, RL!Local, LookupInv, LookupTypes, KeysName
    <3>2. LookupTypes' /\ TakenOnce' /\ CopiedOnce'
      BY <2>1, <2>2, <3>1, FinalizerMoves DEF LookupInv, LookupTypes, TakenOnce, CopiedOnce
    <3>3. QED
      BY <2>1, <2>2, <3>1, <3>2, FinalizerMoves, LookupAside DEF LookupInv, KeysName
  <2>3. CASE ~remembered /\ RL!To(f, "done") /\ RL!EndSession /\ UNCHANGED key
    <3>1. CopiedOnce' /\ saving' \in KnownSession
          /\ place' \in {"active", "recent", "gone"} /\ place' # "new"
      BY <2>1, <2>3, SessionCopied
    <3>2. LookupTypes' /\ TakenOnce'
      BY <2>1, <2>3, <3>1, FinalizerMoves DEF LookupInv, LookupTypes, TakenOnce
    <3>3. QED
      BY <2>1, <2>3, <3>1, <3>2, FinalizerMoves, LookupAside DEF LookupInv, KeysName
  <2>4. CASE ~remembered /\ live_recording /\ RL!To(f, "upload")
             /\ UNCHANGED <<place, key, saving>>
    <3>1. LookupTypes' /\ TakenOnce' /\ CopiedOnce'
      BY <2>1, <2>4, FinalizerMoves DEF LookupInv, LookupTypes, TakenOnce, CopiedOnce
    <3>2. QED
      BY <2>1, <2>4, <3>1, FinalizerMoves, LookupAside DEF LookupInv, KeysName
  <2>5. QED
    BY <1>2, <2>2, <2>3, <2>4 DEF RL!Take
<1>3. CASE RL!UploadRecording(f)
  <2>1. /\ finalizer[f] = "upload" /\ place # "new"
        /\ UNCHANGED <<usesRedis, call, key, live_recording, remembered, s3Row, copy,
                       recordingLookup>>
    BY <1>3 DEF RL!UploadRecording, LookupInv, TakenOnce
  <2>2. CASE object' = TRUE /\ RL!To(f, "save") /\ UNCHANGED <<place, saving>>
    <3>1. LookupTypes' /\ TakenOnce' /\ CopiedOnce'
      BY <2>1, <2>2, FinalizerMoves DEF LookupInv, LookupTypes, TakenOnce, CopiedOnce
    <3>2. QED
      BY <2>1, <2>2, <3>1, FinalizerMoves, LookupAside DEF LookupInv, KeysName
  <2>3. CASE RL!To(f, "done") /\ RL!EndSession /\ UNCHANGED object
    <3>1. CopiedOnce' /\ saving' \in KnownSession
          /\ place' \in {"active", "recent", "gone"} /\ place' # "new"
      BY <2>1, <2>3, SessionCopied
    <3>2. LookupTypes' /\ TakenOnce'
      BY <2>1, <2>3, <3>1, FinalizerMoves DEF LookupInv, LookupTypes, TakenOnce
    <3>3. QED
      BY <2>1, <2>3, <3>1, <3>2, FinalizerMoves, LookupAside DEF LookupInv, KeysName
  <2>4. QED
    BY <1>3, <2>2, <2>3 DEF RL!UploadRecording
<1>4. CASE RL!SaveS3KeyToDb(f)
  <2>1. /\ finalizer[f] = "save" /\ ~s3Row /\ s3Row' \in BOOLEAN /\ remembered' = TRUE
        /\ RL!To(f, "complete") /\ place # "new" /\ object /\ ~live_recording
        /\ UNCHANGED <<usesRedis, place, call, live_recording, object, saving, copy,
                       recordingLookup>>
    BY <1>4 DEF RL!SaveS3KeyToDb, LookupInv, TakenOnce, KeysName
  <2>2. key' \in BOOLEAN /\ (key => key')
    BY <1>4 DEF RL!SaveS3KeyToDb, RL!AttachRecordingMetadata, RL!Local, LookupInv, LookupTypes
  <2>3. LookupTypes' /\ TakenOnce' /\ CopiedOnce'
    BY <2>1, <2>2, FinalizerMoves DEF LookupInv, LookupTypes, TakenOnce, CopiedOnce
  <2>4. QED
    BY <2>1, <2>2, <2>3, FinalizerMoves, LookupAside DEF LookupInv, KeysName
<1>5. CASE RL!Complete(f)
  <2>1. /\ place # "new" /\ RL!To(f, "done") /\ RL!EndSession
        /\ UNCHANGED <<usesRedis, call, key, live_recording, remembered, object, s3Row,
                       copy, recordingLookup>>
    BY <1>5 DEF RL!Complete, LookupInv, TakenOnce
  <2>2. CopiedOnce' /\ saving' \in KnownSession
        /\ place' \in {"active", "recent", "gone"} /\ place' # "new"
    BY <2>1, SessionCopied
  <2>3. LookupTypes' /\ TakenOnce'
    BY <2>1, <2>2, FinalizerMoves DEF LookupInv, LookupTypes, TakenOnce
  <2>4. QED
    BY <2>1, <2>2, <2>3, FinalizerMoves, LookupAside DEF LookupInv, KeysName
<1>6. QED
  BY <1>1, <1>2, <1>3, <1>4, <1>5 DEF RL!Finalizing
\* What is forgotten leaves the object, and takes the promise with it.
LEMMA LookupForgets ==
  ASSUME LookupInv, \/ RL!CopyExpires \/ RL!ClearOldRecordings
                    \/ RL!ForgetEndedSession \/ RL!Restart
  PROVE  LookupInv'
<1>1. CASE RL!CopyExpires
  <2>1. /\ copy.there /\ copy' = RL!NoCopy /\ place # "new"
        /\ UNCHANGED <<usesRedis, place, call, key, live_recording, finalizer,
                       remembered, object, s3Row, saving>>
    BY <1>1 DEF RL!CopyExpires, LookupInv, CopiedOnce
  <2>2. RL!NoCopy \in KnownSession /\ ~RL!NoCopy.there /\ ~RL!NoCopy.key
    BY DEF RL!NoCopy, KnownSession
  <2>3. recordingLookup' = IF recordingLookup.part = "idle" THEN recordingLookup
                           ELSE [recordingLookup EXCEPT !.promised = FALSE]
    BY <1>1 DEF RL!CopyExpires
  <2>4. TakenOnce' /\ CopiedOnce'
    BY <2>1, <2>2 DEF LookupInv, TakenOnce, CopiedOnce
  <2>5. CASE recordingLookup \in {RL!NoLookup}
    <3>1. recordingLookup.part = "idle" /\ recordingLookup' = recordingLookup
      BY <2>3, <2>5 DEF RL!NoLookup
    <3>2. LookupTypes'
      BY <2>1, <2>2, <3>1 DEF LookupInv, LookupTypes
    <3>3. KeysName' /\ PromiseHolds'
      BY <2>1, <3>1 DEF LookupInv, KeysName, PromiseHolds, RL!KeptRecordingIsFound
    <3>4. QED
      BY <2>4, <3>2, <3>3 DEF LookupInv
  <2>6. CASE recordingLookup \in AnsweredLookup
    <3>1. /\ recordingLookup' \in AnsweredLookup /\ recordingLookup'.promised = FALSE
          /\ recordingLookup'.part = "answered"
          /\ recordingLookup'.answer = recordingLookup.answer
          /\ recordingLookup.part = "answered"
      BY <2>3, <2>6 DEF AnsweredLookup
    <3>2. LookupTypes'
      BY <2>1, <2>2, <3>1 DEF LookupInv, LookupTypes
    <3>3. KeysName' /\ PromiseHolds'
      BY <2>1, <3>1 DEF LookupInv, KeysName, PromiseHolds, RL!KeptRecordingIsFound
    <3>4. QED
      BY <2>4, <3>2, <3>3 DEF LookupInv
  <2>7. CASE recordingLookup \in AtWork
    <3>1. /\ recordingLookup' \in AtWork /\ recordingLookup'.promised = FALSE
          /\ recordingLookup'.part = recordingLookup.part
          /\ recordingLookup'.hint = recordingLookup.hint
          /\ recordingLookup'.rowHint = recordingLookup.rowHint
          /\ recordingLookup.part # "answered"
      BY <2>3, <2>7 DEF AtWork
    <3>2. LookupTypes'
      BY <2>1, <2>2, <3>1 DEF LookupInv, LookupTypes
    <3>3. KeysName' /\ PromiseHolds'
      BY <2>1, <3>1 DEF LookupInv, KeysName, PromiseHolds, RL!KeptRecordingIsFound
    <3>4. QED
      BY <2>4, <3>2, <3>3 DEF LookupInv
  <2>8. QED
    BY <2>5, <2>6, <2>7 DEF LookupInv, LookupTypes
<1>2. CASE RL!ClearOldRecordings
  BY <1>2, LookupAside, ZenonT(60)
     DEF RL!ClearOldRecordings, LookupInv, LookupTypes, TakenOnce,
     CopiedOnce, KeysName
<1>3. CASE RL!ForgetEndedSession
  BY <1>3, LookupAside DEF RL!ForgetEndedSession, LookupInv, LookupTypes, TakenOnce,
     CopiedOnce, KeysName
<1>4. CASE RL!Restart
  <2>1. RL!NoCopy \in KnownSession /\ ~RL!NoCopy.there /\ ~RL!NoCopy.key
        /\ RL!NoLookup.part = "idle"
    BY DEF RL!NoCopy, KnownSession, RL!NoLookup
  <2>2. /\ place' = "gone" /\ live_recording' = FALSE /\ remembered' = FALSE
        /\ finalizer' = [f \in RL!EndEvent |-> "done"]
        /\ saving' = RL!NoCopy /\ recordingLookup' = RL!NoLookup
        /\ UNCHANGED <<usesRedis, call, key, object, s3Row, copy>>
    BY <1>4 DEF RL!Restart
  <2>3. LookupTypes' /\ TakenOnce' /\ CopiedOnce'
    BY <2>1, <2>2 DEF LookupInv, LookupTypes, TakenOnce, CopiedOnce
  <2>4. KeysName' /\ PromiseHolds'
    BY <2>1, <2>2 DEF LookupInv, KeysName, PromiseHolds, RL!KeptRecordingIsFound
  <2>5. QED
    BY <2>3, <2>4 DEF LookupInv
<1>5. QED
  BY <1>1, <1>2, <1>3, <1>4

\* What the session, of the process or in Redis, tells a request.
LEMMA ResolvedSession ==
  ASSUME LookupInv
  PROVE  /\ RL!ResolveByStreamSid \in KnownSession
         /\ RL!ResolveByStreamSid.key => object
         /\ RL!Durable => /\ RL!ResolveByStreamSid.there
                          /\ \/ RL!ResolveByStreamSid.key
                             \/ RL!ResolveByStreamSid.call /\ s3Row
<1>1. RL!Snapshot \in KnownSession /\ RL!Snapshot.there = TRUE
      /\ RL!Snapshot.call = call /\ RL!Snapshot.key = key
  BY SnapshotIsKnown DEF LookupInv, RL!Snapshot
<1>2. RL!NoCopy \in KnownSession /\ RL!NoCopy.key = FALSE
  BY DEF RL!NoCopy, KnownSession
<1>3. copy \in KnownSession /\ (copy.key => copy.there /\ key) /\ (key => object)
  BY DEF LookupInv, LookupTypes, CopiedOnce, KeysName
<1>4. CASE RL!Local
  <2>1. RL!ResolveByStreamSid = RL!Snapshot
    BY <1>4 DEF RL!ResolveByStreamSid
  <2>2. QED
    BY <1>1, <1>3, <2>1 DEF RL!Durable, LookupInv, CopiedOnce
<1>5. CASE ~RL!Local /\ usesRedis
  <2>1. RL!ResolveByStreamSid = copy
    BY <1>5 DEF RL!ResolveByStreamSid
  <2>2. QED
    BY <1>3, <2>1 DEF RL!Durable
<1>6. CASE ~RL!Local /\ ~usesRedis
  <2>1. RL!ResolveByStreamSid = RL!NoCopy
    BY <1>6 DEF RL!ResolveByStreamSid
  <2>2. QED
    BY <1>2, <1>6, <2>1 DEF RL!Durable, LookupInv, CopiedOnce
<1>7. QED
  BY <1>4, <1>5, <1>6

\* A request moves on.
LEMMA RequestGoesOn ==
  ASSUME LookupInv, UNCHANGED RL!callVars, place # "new", recordingLookup' \in AtWork,
         (recordingLookup'.hint.key \/ recordingLookup'.rowHint) => object,
         recordingLookup'.part = "bucket" => object,
         recordingLookup'.promised => RL!Durable,
         (recordingLookup'.promised /\ recordingLookup'.part = "row") => s3Row
  PROVE  LookupInv'
<1>1. recordingLookup'.part # "answered"
  BY DEF AtWork
<1>2. LookupTypes' /\ TakenOnce' /\ CopiedOnce'
  BY DEF RL!callVars, LookupInv, LookupTypes, TakenOnce, CopiedOnce
<1>3. RL!Durable' = RL!Durable
  BY DEF RL!callVars, RL!Durable
<1>4. KeysName'
  BY DEF RL!callVars, LookupInv, KeysName
<1>5. PromiseHolds'
  BY <1>1, <1>3 DEF RL!callVars, PromiseHolds, RL!KeptRecordingIsFound
<1>6. QED
  BY <1>2, <1>4, <1>5 DEF LookupInv

\* A request is answered.
LEMMA RequestAnswered ==
  ASSUME LookupInv, UNCHANGED RL!callVars, recordingLookup \in AtWork,
         NEW a \in {"found", "none", "unknown", "failed"}, RL!Answer(a),
         recordingLookup.promised => a \notin {"none", "unknown"},
         a = "found" => object
  PROVE  LookupInv'
<1>1. place # "new"
  BY DEF LookupInv, TakenOnce, AtWork, RL!NoLookup
<1>2. /\ recordingLookup' \in AnsweredLookup /\ recordingLookup'.part = "answered"
      /\ recordingLookup'.promised = recordingLookup.promised
      /\ recordingLookup'.answer = a
  BY DEF RL!Answer, AnsweredLookup, AtWork
<1>3. LookupTypes' /\ TakenOnce' /\ CopiedOnce'
  BY <1>1, <1>2 DEF RL!callVars, LookupInv, LookupTypes, TakenOnce, CopiedOnce
<1>4. KeysName'
  BY <1>2 DEF RL!callVars, LookupInv, KeysName
<1>5. PromiseHolds'
  BY <1>2 DEF RL!callVars, PromiseHolds, RL!KeptRecordingIsFound
<1>6. QED
  BY <1>3, <1>4, <1>5 DEF LookupInv

\* A request that is in a part of its work, and what holds of it.
LEMMA RequestAtWork ==
  ASSUME LookupInv,
         recordingLookup.part \in {"resolve", "rows", "look", "row", "bucket"}
  PROVE  /\ recordingLookup \in AtWork /\ place # "new"
         /\ (recordingLookup.hint.key \/ recordingLookup.rowHint) => object
         /\ recordingLookup.promised => RL!Durable
BY DEF LookupInv, LookupTypes, TakenOnce, KeysName, PromiseHolds, RL!NoLookup,
   AnsweredLookup

\* A lookup finds the recording, or the row that names it.
LEMMA LookupFound ==
  ASSUME LookupInv, UNCHANGED RL!callVars, object, NEW inRow \in BOOLEAN,
         recordingLookup.part \in {"look", "row"}, RL!Found(inRow)
  PROVE  LookupInv'
<1>1. recordingLookup \in AtWork /\ place # "new"
      /\ (recordingLookup.promised => RL!Durable)
  BY RequestAtWork
<1>2. CASE recordingLookup.route \notin {"signed", "download"}
  BY <1>1, <1>2, RequestAnswered DEF RL!Found
<1>3. CASE recordingLookup.route \in {"signed", "download"}
  <2>1. PICK b \in BOOLEAN, n \in 1..4, next \in {"look", "bucket"} :
          recordingLookup' = [recordingLookup EXCEPT !.rowHint = b, !.pass = n,
                                                     !.part = next]
    <3>1. CASE recordingLookup.route = "download" /\ recordingLookup.pass = 1
      <4>1. recordingLookup' = [recordingLookup EXCEPT
              !.rowHint = recordingLookup.rowHint \/ inRow, !.pass = 2, !.part = "look"]
        BY <3>1 DEF RL!Found
      <4> QED BY <1>1, <4>1, 2 \in 1..4 DEF AtWork
    <3>2. CASE ~(recordingLookup.route = "download" /\ recordingLookup.pass = 1)
      <4>1. recordingLookup' = [recordingLookup EXCEPT !.part = "bucket"]
        BY <1>3, <3>2 DEF RL!Found
      <4>2. recordingLookup' = [recordingLookup EXCEPT
              !.rowHint = recordingLookup.rowHint, !.pass = recordingLookup.pass,
              !.part = "bucket"]
        BY <1>1, <4>1 DEF AtWork
      <4> QED BY <1>1, <4>2 DEF AtWork
    <3> QED BY <3>1, <3>2
  <2>2. /\ recordingLookup' \in AtWork /\ recordingLookup'.part = next
        /\ recordingLookup'.promised = recordingLookup.promised
    BY <1>1, <2>1 DEF AtWork
  <2>3. QED
    BY <1>1, <2>2, RequestGoesOn
<1>4. QED
  BY <1>2, <1>3

\* A request looks once more.
LEMMA LooksAgain ==
  ASSUME recordingLookup \in AtWork, recordingLookup.pass \in {2, 3}, RL!LookAgain
  PROVE  /\ recordingLookup' \in AtWork /\ recordingLookup'.part = "look"
         /\ recordingLookup'.promised = recordingLookup.promised
         /\ recordingLookup'.hint = recordingLookup.hint
         /\ recordingLookup'.rowHint = recordingLookup.rowHint
<1>1. PICK n \in 1..4 : n = recordingLookup.pass + 1
  OBVIOUS
<1>2. recordingLookup' = [recordingLookup EXCEPT !.pass = n, !.part = "look"]
  BY <1>1 DEF RL!LookAgain
<1> QED BY <1>2 DEF AtWork

\* A lookup that finds nothing was promised nothing.
LEMMA LookupMissed ==
  ASSUME LookupInv, UNCHANGED RL!callVars, recordingLookup.part \in {"look", "row"},
         ~recordingLookup.promised, RL!Missed
  PROVE  LookupInv'
<1>1. /\ recordingLookup \in AtWork /\ place # "new"
      /\ (recordingLookup.hint.key \/ recordingLookup.rowHint) => object
  BY RequestAtWork
<1>2. CASE recordingLookup.pass = 2
  <2>1. /\ recordingLookup' \in AtWork /\ recordingLookup'.part = "look"
        /\ recordingLookup'.promised = recordingLookup.promised
        /\ recordingLookup'.hint = recordingLookup.hint
        /\ recordingLookup'.rowHint = recordingLookup.rowHint
    BY <1>1, <1>2, LooksAgain DEF RL!Missed
  <2>2. QED
    BY <1>1, <2>1, RequestGoesOn
<1>3. CASE recordingLookup.pass # 2
  BY <1>1, <1>3, RequestAnswered DEF RL!Missed
<1>4. QED
  BY <1>2, <1>3

\* Each step of a request.
LEMMA LookupRequest ==
  ASSUME LookupInv, \/ \E route \in RL!Routes : RL!Ask(route)
                    \/ RL!Resolve \/ RL!ReadRows \/ RL!ResolveRecordingLookup
                    \/ RL!ReadRow \/ RL!AskBucket
  PROVE  LookupInv'
<1> DEFINE known == RL!ResolveByStreamSid
<1>1. ASSUME NEW route \in RL!Routes, RL!Ask(route) PROVE LookupInv'
  <2>1. RL!NoCopy \in KnownSession /\ ~RL!NoCopy.key
    BY DEF RL!NoCopy, KnownSession
  <2>2. PICK d \in BOOLEAN : d = RL!Durable
    BY DEF RL!Durable, LookupInv, LookupTypes, KnownSession
  <2>3. PICK first \in {"look", "resolve"} :
          recordingLookup' = [part |-> first, route |-> route, pass |-> 1,
                              hint |-> RL!NoCopy, rowHint |-> FALSE, promised |-> d]
    BY <1>1, <2>2 DEF RL!Ask
  <2>4. /\ recordingLookup' \in AtWork /\ recordingLookup'.part = first
        /\ recordingLookup'.hint = RL!NoCopy /\ recordingLookup'.rowHint = FALSE
        /\ recordingLookup'.promised = d
    BY <2>1, <2>3 DEF AtWork
  <2>5. UNCHANGED RL!callVars /\ place # "new"
    BY <1>1 DEF RL!Ask
  <2>6. QED
    BY <2>1, <2>2, <2>4, <2>5, RequestGoesOn
<1>2. CASE RL!Resolve
  <2>1. /\ recordingLookup.part = "resolve" /\ UNCHANGED RL!callVars
        /\ recordingLookup \in AtWork /\ place # "new"
        /\ recordingLookup.rowHint => object
        /\ recordingLookup.promised => RL!Durable
    BY <1>2, RequestAtWork DEF RL!Resolve
  <2>2. known \in KnownSession /\ (known.key => object)
        /\ (RL!Durable => known.there)
    BY ResolvedSession
  <2>3. PICK needs \in {"rows", "look"} :
          needs = IF recordingLookup.route = "detail" /\ known.call THEN "rows" ELSE "look"
    OBVIOUS
  <2>4. CASE recordingLookup.route = "metadata" /\ remembered
    <3>1. RL!Answer("found")
      BY <1>2, <2>4 DEF RL!Resolve
    <3>2. object
      BY <2>4 DEF LookupInv, KeysName
    <3>3. QED
      BY <2>1, <3>1, <3>2, RequestAnswered
  <2>5. CASE ~(recordingLookup.route = "metadata" /\ remembered)
             /\ recordingLookup.route = "detail" /\ ~known.there
    <3>1. RL!Answer("unknown")
      BY <1>2, <2>5 DEF RL!Resolve
    <3>2. QED
      BY <2>1, <2>2, <2>5, <3>1, RequestAnswered
  <2>6. CASE ~(recordingLookup.route = "metadata" /\ remembered)
             /\ ~(recordingLookup.route = "detail" /\ ~known.there)
    <3>1. recordingLookup' = [recordingLookup EXCEPT !.hint = known, !.part = needs]
      BY <1>2, <2>3, <2>6 DEF RL!Resolve
    <3> HIDE DEF known
    <3>2. /\ recordingLookup' \in AtWork /\ recordingLookup'.part = needs
          /\ recordingLookup'.hint = known
          /\ recordingLookup'.rowHint = recordingLookup.rowHint
          /\ recordingLookup'.promised = recordingLookup.promised
      BY <2>1, <2>2, <3>1 DEF AtWork
    <3>3. QED
      BY <2>1, <2>2, <3>2, RequestGoesOn
  <2>7. QED
    BY <2>4, <2>5, <2>6
<1>3. CASE RL!ReadRows
  <2>1. /\ recordingLookup.part = "rows" /\ UNCHANGED RL!callVars
        /\ recordingLookup' = [recordingLookup EXCEPT !.part = "look", !.rowHint = s3Row]
        /\ recordingLookup \in AtWork /\ place # "new"
        /\ recordingLookup.hint.key => object
        /\ recordingLookup.promised => RL!Durable
    BY <1>3, RequestAtWork DEF RL!ReadRows
  <2>2. s3Row \in BOOLEAN /\ (s3Row => object)
    BY DEF LookupInv, LookupTypes, KeysName
  <2>3. /\ recordingLookup' \in AtWork /\ recordingLookup'.part = "look"
        /\ recordingLookup'.hint = recordingLookup.hint
        /\ recordingLookup'.rowHint = s3Row
        /\ recordingLookup'.promised = recordingLookup.promised
    BY <2>1, <2>2 DEF AtWork
  <2>4. QED
    BY <2>1, <2>2, <2>3, RequestGoesOn
<1>4. CASE RL!ResolveRecordingLookup
  <2>1. /\ recordingLookup.part = "look" /\ UNCHANGED RL!callVars
        /\ recordingLookup \in AtWork /\ place # "new"
        /\ (recordingLookup.hint.key \/ recordingLookup.rowHint) => object
        /\ recordingLookup.promised => RL!Durable
    BY <1>4, RequestAtWork DEF RL!ResolveRecordingLookup, RL!LookedUp
  <2>2. known \in KnownSession /\ (known.key => object)
        /\ (RL!Durable => known.key \/ (known.call /\ s3Row))
    BY ResolvedSession
  <2>3. CASE remembered \/ recordingLookup.hint.key \/ known.key
    <3>1. RL!Found(FALSE) /\ object
      BY <1>4, <2>1, <2>2, <2>3
         DEF RL!ResolveRecordingLookup, RL!LookedUp, LookupInv, KeysName
    <3>2. QED
      BY <2>1, <3>1, LookupFound
  <2>4. CASE ~(remembered \/ recordingLookup.hint.key \/ known.key)
    <3>1. CASE recordingLookup.rowHint
      <4>1. RL!Found(TRUE)
        BY <1>4, <2>4, <3>1 DEF RL!ResolveRecordingLookup, RL!LookedUp
      <4>2. QED
        BY <2>1, <3>1, <4>1, LookupFound
    <3>2. CASE ~recordingLookup.rowHint /\ (recordingLookup.hint.call \/ known.call)
      <4>1. recordingLookup' = [recordingLookup EXCEPT !.part = "row"]
        BY <1>4, <2>4, <3>2 DEF RL!ResolveRecordingLookup, RL!LookedUp
      <4>2. /\ recordingLookup' \in AtWork /\ recordingLookup'.part = "row"
            /\ recordingLookup'.hint = recordingLookup.hint
            /\ recordingLookup'.rowHint = recordingLookup.rowHint
            /\ recordingLookup'.promised = recordingLookup.promised
        BY <2>1, <4>1 DEF AtWork
      <4>3. QED
        BY <2>1, <2>2, <2>4, <4>2, RequestGoesOn
    <3>3. CASE ~recordingLookup.rowHint /\ ~(recordingLookup.hint.call \/ known.call)
      <4>1. RL!Missed /\ ~recordingLookup.promised
        BY <1>4, <2>1, <2>2, <2>4, <3>3 DEF RL!ResolveRecordingLookup, RL!LookedUp
      <4>2. QED
        BY <2>1, <4>1, LookupMissed
    <3>4. QED
      BY <3>1, <3>2, <3>3
  <2>5. QED
    BY <2>3, <2>4
<1>5. CASE RL!ReadRow
  <2>1. recordingLookup.part = "row" /\ UNCHANGED RL!callVars
    BY <1>5 DEF RL!ReadRow
  <2>2. CASE s3Row
    BY <1>5, <2>1, <2>2, LookupFound DEF RL!ReadRow, LookupInv, KeysName
  <2>3. CASE ~s3Row
    BY <1>5, <2>1, <2>3, LookupMissed DEF RL!ReadRow, LookupInv, PromiseHolds
  <2>4. QED
    BY <2>2, <2>3
<1>6. CASE RL!AskBucket
  <2>1. /\ recordingLookup.part = "bucket" /\ UNCHANGED RL!callVars /\ object
        /\ recordingLookup \in AtWork /\ place # "new"
        /\ recordingLookup.promised => RL!Durable
    BY <1>6, RequestAtWork DEF RL!AskBucket, LookupInv, KeysName
  <2>2. CASE RL!Answer("found")
    BY <2>1, <2>2, RequestAnswered
  <2>3. CASE RL!Answer("failed")
    BY <2>1, <2>3, RequestAnswered
  <2>4. CASE recordingLookup.pass \in {2, 3} /\ RL!LookAgain
    BY <2>1, <2>4, LooksAgain, RequestGoesOn
  <2>5. QED
    BY <1>6, <2>2, <2>3, <2>4 DEF RL!AskBucket
<1>7. QED
  BY <1>1, <1>2, <1>3, <1>4, <1>5, <1>6

\* Every step keeps the invariant.
LEMMA LookupStep == LookupInv /\ [MCNext]_allVars => LookupInv'
<1> SUFFICES ASSUME LookupInv, [MCNext]_allVars PROVE LookupInv'
  OBVIOUS
<1>1. CASE UNCHANGED lookupVars
  BY <1>1 DEF lookupVars, LookupInv, LookupTypes, TakenOnce, CopiedOnce, KeysName,
     PromiseHolds, RL!KeptRecordingIsFound, RL!Durable
<1>2. CASE RL!Next
  BY <1>2, LookupStart, LookupSave, LookupFinalizing, LookupForgets, LookupRequest
     DEF RL!Next
<1>3. QED
  BY <1>1, <1>2, OnePartActs DEF lookupVars

\* Whatever the process has forgotten and in whatever order the finalizers, the
\* copy to Redis and a request come: a recording that the database or Redis keeps
\* is found, and one that is found is in the bucket.
THEOREM RecordingsAreFound == MCSpec => []RL!KeptRecordingIsFound
BY LookupInit, LookupStep, PTL DEF MCSpec, LookupInv, PromiseHolds

-----------------------------------------------------------------------------
(* SessionLists: ListedOnce and PagesMissNothing.                          *)

\* What a request under way, or a reader of pages, has.
ReaderRecord ==
  [part: {"index", "copies", "merge", "read"}, page: Nat \ {0}, search: BOOLEAN,
   local: SUBSET SL!Session, ids: SUBSET Nat, copies: SUBSET SL!Session,
   held: SUBSET SL!Session, seen: SUBSET SL!Session, due: SUBSET SL!Session,
   steady: BOOLEAN]

\* The types of what the lists depend on.
ListTypes ==
  /\ redisReady \in BOOLEAN /\ streamOf \in [SL!Session -> Nat]
  /\ phase \in [SL!Session -> {"new", "connected", "pending", "accepted", "rejected",
                               "ended"}]
  /\ endedAt \in [SL!Session -> Nat]
  /\ recent \cup savingSessions \cup index \cup stored \subseteq SL!Session
  /\ reader = SL!NoReader \/ reader \in ReaderRecord

\* One session ended after another.
After(t, s) == endedAt[t] > endedAt[s]

\* Endings have an order; the process holds the last of them, and a copy reaches
\* Redis after those of all earlier endings, one for each stream.
EndingsAgree ==
  /\ \A s \in SL!Ended : phase[s] = "ended" /\ endedAt[s] <= Cardinality(SL!Ended)
  /\ \A s, t \in SL!Ended : endedAt[s] = endedAt[t] => s = t
  /\ recent \cup savingSessions \cup stored \cup index \subseteq SL!Ended
  /\ \A s \in recent, t \in SL!Ended : After(t, s) => t \in recent
  /\ \A s \in savingSessions, t \in stored \cup index : After(s, t)
  /\ \A s, t \in stored : streamOf[s] = streamOf[t] => s = t
  /\ \A s \in stored, t \in index : streamOf[s] = streamOf[t] => s = t
  /\ ~redisReady => savingSessions \cup stored \cup index = {}

\* The sessions are finitely many, and fewer are counted as no more.
LEMMA FewerSessions ==
  ASSUME NEW S, S \subseteq SL!Session, NEW T, T \subseteq S
  PROVE  /\ Cardinality(S) \in Nat /\ Cardinality(T) \in Nat
         /\ Cardinality(T) <= Cardinality(S)
         /\ IsFiniteSet(S)
<1>1. IsFiniteSet(SL!Session)
  BY AfterCallAssumptions, FS_Interval DEF SL!ListsAssumption, SL!Session
<1>2. IsFiniteSet(S)
  BY <1>1, FS_Subset
<1>3. QED
  BY <1>2, FS_Subset, FS_CardinalityType

\* The count of SessionLists is that of FiniteSets.
LEMMA SameCount == ASSUME NEW S PROVE SL!Cardinality(S) = Cardinality(S)
BY DEF SL!Cardinality, Cardinality

\* The newest of some sessions are among them, and whoever is newer than one of
\* the newest is one of them.
LEMMA NewestAreNewest ==
  ASSUME NEW at \in [SL!Session -> Nat], NEW S, S \subseteq SL!Session, NEW n \in Nat
  PROVE  /\ SL!Newest(at, S, n) \subseteq S
         /\ \A s \in SL!Newest(at, S, n), t \in S :
              at[t] >= at[s] => t \in SL!Newest(at, S, n)
<1>1. ASSUME NEW s \in S, NEW t \in S, at[t] >= at[s]
      PROVE  /\ SL!Place(at, S, t) <= SL!Place(at, S, s)
             /\ SL!Place(at, S, s) \in Nat /\ SL!Place(at, S, t) \in Nat
  <2>1. {u \in S : at[u] >= at[t]} \subseteq {u \in S : at[u] >= at[s]}
    BY <1>1
  <2>2. {u \in S : at[u] >= at[s]} \subseteq SL!Session
    OBVIOUS
  <2>3. /\ SL!Place(at, S, t) = Cardinality({u \in S : at[u] >= at[t]})
        /\ SL!Place(at, S, s) = Cardinality({u \in S : at[u] >= at[s]})
    BY SameCount DEF SL!Place
  <2>4. QED
    BY <2>1, <2>2, <2>3, FewerSessions
<1>2. QED
  BY <1>1 DEF SL!Newest

\* What an ending does to the lists.
LEMMA EndingLists ==
  ASSUME ListTypes, EndingsAgree, NEW s \in SL!Session, SL!Live(s), SL!EndSession(s)
  PROVE  /\ s \notin SL!Ended /\ SL!Ended' = SL!Ended \cup {s}
         /\ endedAt' \in [SL!Session -> Nat]
         /\ \A t \in SL!Ended : endedAt'[t] = endedAt[t] /\ endedAt'[s] > endedAt[t]
         /\ endedAt'[s] = Cardinality(SL!Ended)' /\ Cardinality(SL!Ended)' \in Nat
         /\ \A t \in SL!Ended : endedAt[t] <= Cardinality(SL!Ended)'
         /\ recent' \subseteq recent \cup {s}
         /\ \A x \in recent', y \in recent \cup {s} :
              endedAt'[y] >= endedAt'[x] => y \in recent'
         /\ s \in recent'
<1> DEFINE count == Cardinality(SL!Ended)
<1>1. s \notin SL!Ended
  BY DEF ListTypes, EndingsAgree, SL!Live
<1>2. IsFiniteSet(SL!Ended) /\ count \in Nat
  BY FewerSessions DEF SL!Ended
<1>3. /\ endedAt' = [endedAt EXCEPT ![s] = count + 1]
      /\ recent' = SL!Newest(endedAt', recent \cup {s}, MaxRecent)
  <2>1. SL!Cardinality(SL!Ended) = count
    BY SameCount
  <2>2. QED
    BY <2>1 DEF SL!EndSession
<1>4. endedAt' \in [SL!Session -> Nat] /\ SL!Ended' = SL!Ended \cup {s}
  <2>1. endedAt' \in [SL!Session -> Nat]
    BY <1>2, <1>3 DEF ListTypes
  <2>2. \A t \in SL!Session : endedAt'[t] = IF t = s THEN count + 1 ELSE endedAt[t]
    BY <1>3 DEF ListTypes
  <2>3. QED
    BY <1>2, <2>1, <2>2 DEF SL!Ended
<1>5. Cardinality(SL!Ended)' = count + 1
  BY <1>1, <1>2, <1>4, FS_AddElement
<1>6. \A t \in SL!Ended : endedAt[t] \in Nat /\ endedAt[t] <= count /\ endedAt'[t] = endedAt[t]
  BY <1>1, <1>3 DEF ListTypes, EndingsAgree, SL!Ended
<1>7. endedAt'[s] = count + 1
  BY <1>3 DEF ListTypes
<1>8. MaxRecent \in Nat \ {0}
  BY AfterCallAssumptions DEF SL!ListsAssumption
<1>9. /\ recent' \subseteq recent \cup {s}
      /\ \A x \in recent', y \in recent \cup {s} :
              endedAt'[y] >= endedAt'[x] => y \in recent'
  <2>1. recent \cup {s} \subseteq SL!Session /\ MaxRecent \in Nat
    BY <1>8 DEF ListTypes
  <2>2. QED
    BY <1>3, <1>4, <2>1, NewestAreNewest
<1>10. s \in recent'
  <2>1. {u \in recent \cup {s} : endedAt'[u] >= endedAt'[s]} = {s}
    BY <1>2, <1>6, <1>7 DEF EndingsAgree
  <2>2. SL!Place(endedAt', recent \cup {s}, s) = 1
    BY <2>1, FS_Singleton, SameCount DEF SL!Place
  <2>3. QED
    BY <1>3, <1>8, <2>2 DEF SL!Newest
<1>11. \A t \in SL!Ended : endedAt'[s] > endedAt[t] /\ endedAt[t] <= count + 1
  BY <1>2, <1>6, <1>7
<1>12. count + 1 \in Nat
  BY <1>2
<1>13. QED
  BY <1>1, <1>4, <1>5, <1>6, <1>7, <1>9, <1>10, <1>11, <1>12
\* What the other actions of a session leave as it is.
LEMMA PhaseActs ==
  ASSUME ListTypes, EndingsAgree, NEW s \in SL!Session,
         \/ SL!Connect(s) \/ SL!BindStreamSid(s) \/ SL!MarkAppInitiated(s)
         \/ /\ SL!Live(s) /\ SL!DiscardSession(s)
            /\ UNCHANGED <<redisReady, streamOf, index, stored, listing, lost>>
  PROVE  /\ UNCHANGED <<redisReady, streamOf, endedAt, recent, savingSessions, index,
                        stored, reader, listing>>
         /\ ListTypes' /\ EndingsAgree'
<1>1. UNCHANGED <<redisReady, streamOf, endedAt, recent, savingSessions, index,
                  stored, reader, listing>>
  BY DEF SL!Connect, SL!BindStreamSid, SL!MarkAppInitiated, SL!DiscardSession,
         SL!configVars, SL!endedVars, SL!redisVars, SL!readerVars
<1>2. phase' \in [SL!Session -> {"new", "connected", "pending", "accepted", "rejected",
                                 "ended"}]
  BY DEF SL!Connect, SL!BindStreamSid, SL!MarkAppInitiated, SL!DiscardSession, ListTypes
<1>3. \A t \in SL!Ended : phase'[t] = "ended"
  BY ZenonT(60)
     DEF SL!Connect, SL!BindStreamSid, SL!MarkAppInitiated, SL!DiscardSession, ListTypes,
         EndingsAgree, SL!Live, SL!Ended
<1>4. ListTypes'
  BY <1>1, <1>2 DEF ListTypes, SL!NoReader
<1>5. SL!Ended' = SL!Ended
  BY <1>1 DEF SL!Ended
<1>6. EndingsAgree'
  BY <1>1, <1>3, <1>5 DEF EndingsAgree, After
<1>7. QED
  BY <1>1, <1>4, <1>6

\* An ending: the order goes on.
LEMMA EndingActs ==
  ASSUME ListTypes, EndingsAgree, NEW s \in SL!Session, SL!Live(s), SL!EndSession(s),
         UNCHANGED <<redisReady, streamOf, index, stored, listing, lost>>
  PROVE  /\ ListTypes' /\ EndingsAgree'
         /\ \/ reader' = reader /\ (reader.part = "idle" \/ SL!InStep(s))
            \/ reader \in ReaderRecord /\ reader' = [reader EXCEPT !.steady = FALSE]
<1>1. /\ s \notin SL!Ended /\ SL!Ended' = SL!Ended \cup {s}
      /\ endedAt' \in [SL!Session -> Nat]
      /\ \A t \in SL!Ended : endedAt'[t] = endedAt[t] /\ endedAt'[s] > endedAt[t]
      /\ endedAt'[s] = Cardinality(SL!Ended)' /\ Cardinality(SL!Ended)' \in Nat
      /\ \A t \in SL!Ended : endedAt[t] <= Cardinality(SL!Ended)'
      /\ recent' \subseteq recent \cup {s}
      /\ \A x \in recent', y \in recent \cup {s} :
           endedAt'[y] >= endedAt'[x] => y \in recent'
      /\ s \in recent'
  BY EndingLists
<1>0. savingSessions' = IF redisReady /\ phase[s] = "accepted" THEN savingSessions \cup {s}
                        ELSE savingSessions
  BY Zenon DEF SL!EndSession
<1>2. /\ phase' = [phase EXCEPT ![s] = "ended"]
      /\ \/ savingSessions' = savingSessions
         \/ redisReady /\ savingSessions' = savingSessions \cup {s}
      /\ reader' = IF reader.part = "idle" \/ SL!InStep(s) THEN reader
                   ELSE [reader EXCEPT !.steady = FALSE]
  <2>1. /\ phase' = [phase EXCEPT ![s] = "ended"]
        /\ reader' = IF reader.part = "idle" \/ SL!InStep(s) THEN reader
                     ELSE [reader EXCEPT !.steady = FALSE]
    BY Zenon DEF SL!EndSession
  <2>2. \/ savingSessions' = savingSessions
        \/ redisReady /\ savingSessions' = savingSessions \cup {s}
    BY <1>0
  <2>3. QED
    BY <2>1, <2>2, Zenon
<1>3. \/ reader' = reader /\ (reader.part = "idle" \/ SL!InStep(s))
      \/ reader \in ReaderRecord /\ reader' = [reader EXCEPT !.steady = FALSE]
  <2>1. CASE reader \in ReaderRecord
    BY <1>2, <2>1 DEF ReaderRecord
  <2>2. CASE reader = SL!NoReader
    <3>1. reader.part = "idle"
      BY <2>2 DEF SL!NoReader
    <3>2. QED
      BY <1>2, <3>1, Zenon
  <2>3. QED
    BY <2>1, <2>2 DEF ListTypes
<1>4. reader \in ReaderRecord => [reader EXCEPT !.steady = FALSE] \in ReaderRecord
  BY DEF ReaderRecord
<1>5. reader' = SL!NoReader \/ reader' \in ReaderRecord
  BY <1>3, <1>4, Zenon DEF ListTypes
<1>6. /\ phase' \in [SL!Session -> {"new", "connected", "pending", "accepted", "rejected",
                                    "ended"}]
      /\ \A t \in SL!Ended' : phase'[t] = "ended"
  BY <1>1, <1>2 DEF ListTypes, EndingsAgree, SL!Ended
<1>7. ListTypes'
  BY <1>1, <1>2, <1>5, <1>6 DEF ListTypes, SL!NoReader
<1>8. \A x, y \in SL!Ended : After(x, y)' <=> After(x, y)
  BY <1>1 DEF After
<1>9. \A x \in SL!Ended : After(s, x)' /\ ~After(x, s)'
  BY <1>1 DEF After, ListTypes, SL!Ended
<1>10. \A x \in SL!Ended' : phase'[x] = "ended" /\ endedAt'[x] <= Cardinality(SL!Ended)'
  <2>1. endedAt'[s] <= Cardinality(SL!Ended)'
    BY <1>1
  <2>2. \A x \in SL!Ended : endedAt'[x] <= Cardinality(SL!Ended)'
    BY <1>1
  <2>3. QED
    BY <1>1, <1>6, <2>1, <2>2
<1>11. \A x, y \in SL!Ended' : endedAt'[x] = endedAt'[y] => x = y
  <2>1. \A x \in SL!Ended : endedAt[x] \in Nat
    BY DEF ListTypes, SL!Ended
  <2>2. QED
    BY <1>1, <2>1 DEF EndingsAgree
<1>12. recent' \cup savingSessions' \cup stored' \cup index' \subseteq SL!Ended'
  BY <1>1, <1>2 DEF EndingsAgree
<1>13. \A x \in recent', t \in SL!Ended' : After(t, x)' => t \in recent'
  <2> SUFFICES ASSUME NEW x \in recent', NEW t \in SL!Ended', After(t, x)'
               PROVE  t \in recent'
    OBVIOUS
  <2>1. x \in SL!Session /\ t \in SL!Session /\ x \in SL!Ended'
    BY <1>12 DEF SL!Ended
  <2>2. endedAt'[t] >= endedAt'[x]
    BY <1>1, <2>1 DEF After
  <2>3. CASE t = s
    BY <1>1, <2>3
  <2>4. CASE t # s
    <3>1. t \in SL!Ended /\ x # s
      BY <1>1, <1>9, <2>4
    <3>2. x \in recent /\ x \in SL!Ended
      BY <1>1, <3>1 DEF EndingsAgree
    <3>3. t \in recent
      BY <1>8, <3>1, <3>2 DEF EndingsAgree
    <3>4. QED
      BY <1>1, <2>2, <3>3
  <2>5. QED
    BY <2>3, <2>4
<1>14. \A x \in savingSessions', t \in stored' \cup index' : After(x, t)'
  BY <1>2, <1>8, <1>9 DEF EndingsAgree
<1>15. EndingsAgree'
  BY <1>2, <1>10, <1>11, <1>12, <1>13, <1>14 DEF EndingsAgree
<1>16. QED
  BY <1>3, <1>7, <1>15
\* A copy on its way is of a later session of the stream.
Replaced(t) == \E h \in savingSessions : streamOf[h] = streamOf[t] /\ After(h, t)

\* Whoever is in Redis for a reader is in both its tables.
LEMMA SharedIsInBoth == ASSUME EndingsAgree PROVE SL!Shared = stored \cap index
BY DEF SL!Shared, EndingsAgree

\* A save and an expiry: what Redis loses is older than all it keeps, or gives
\* way to a copy of its stream.
LEMMA RedisActs ==
  ASSUME ListTypes, EndingsAgree, NEW s \in SL!Session,
         SL!SaveEndedSession(s) \/ SL!SaveFails(s) \/ SL!Expires(s)
  PROVE  /\ ListTypes' /\ EndingsAgree'
         /\ UNCHANGED <<redisReady, streamOf, phase, endedAt, recent, reader, listing>>
         /\ savingSessions' \subseteq savingSessions
         /\ stored' \subseteq stored \cup savingSessions
         /\ SL!Shared' \subseteq SL!Shared \cup savingSessions
         /\ \A t \in stored \ stored' : Replaced(t) \/ \A x \in stored' : After(x, t)
         /\ \A t \in SL!Shared \ SL!Shared' :
              Replaced(t) \/ \A x \in SL!Shared' : After(x, t)
<1>1. UNCHANGED <<redisReady, streamOf, phase, endedAt, recent, reader, listing>>
  BY DEF SL!SaveEndedSession, SL!SaveFails, SL!Expires, SL!configVars, SL!endedVars,
         SL!readerVars
<1>2. SL!Ended' = SL!Ended /\ \A x, y \in SL!Session : After(x, y)' <=> After(x, y)
  BY <1>1 DEF SL!Ended, After
<1>3. \A x \in SL!Session : endedAt[x] \in Nat
  BY DEF ListTypes
<1>4. CASE SL!SaveEndedSession(s)
  <2> DEFINE held == {t \in index : streamOf[t] # streamOf[s]} \cup {s}
  <2>1. /\ s \in savingSessions /\ \A t \in savingSessions : endedAt[s] <= endedAt[t]
        /\ savingSessions' = savingSessions \ {s}
        /\ stored' = {t \in stored : streamOf[t] # streamOf[s]} \cup {s}
        /\ index' = SL!Newest(endedAt, held, SharedRecent)
    BY <1>4 DEF SL!SaveEndedSession, SL!Oldest, SL!Put
  <2>2. SharedRecent \in Nat /\ held \subseteq SL!Session /\ endedAt \in [SL!Session -> Nat]
    BY AfterCallAssumptions DEF ListTypes, SL!ListsAssumption
  <2>3. /\ index' \subseteq held
        /\ \A x \in index', y \in held : endedAt[y] >= endedAt[x] => y \in index'
    BY <2>1, <2>2, NewestAreNewest
  <2>4. ListTypes'
    BY <1>1, <2>1, <2>2, <2>3 DEF ListTypes, SL!NoReader
  <2>5. /\ recent' \cup savingSessions' \cup stored' \cup index' \subseteq SL!Ended'
        /\ SL!Ended \subseteq SL!Session
    BY <1>1, <1>2, <2>1, <2>3 DEF EndingsAgree, SL!Ended
  <2>6. \A x \in savingSessions', t \in stored' \cup index' : After(x, t)'
    <3> SUFFICES ASSUME NEW x \in savingSessions', NEW t \in stored' \cup index'
                 PROVE  After(x, t)
      BY <1>2, <2>5
    <3>1. CASE t = s
      <4>1. x \in savingSessions /\ x # s /\ endedAt[s] <= endedAt[x]
            /\ x \in SL!Ended /\ s \in SL!Ended
        BY <2>1, <2>5 DEF EndingsAgree
      <4>2. endedAt[x] # endedAt[s]
        BY <4>1 DEF EndingsAgree
      <4>3. QED
        BY <1>3, <2>5, <3>1, <4>1, <4>2 DEF After
    <3>2. CASE t # s
      BY <2>1, <2>3, <3>2 DEF EndingsAgree
    <3>3. QED
      BY <3>1, <3>2
  <2>7. /\ \A x, t \in stored' : streamOf[x] = streamOf[t] => x = t
        /\ \A x \in stored', t \in index' : streamOf[x] = streamOf[t] => x = t
    BY <2>1, <2>3 DEF EndingsAgree
  <2>8. EndingsAgree'
    <3>1. ~redisReady' => savingSessions' \cup stored' \cup index' = {}
      BY <1>1, <2>1 DEF EndingsAgree
    <3>2. \A x \in recent', t \in SL!Ended' : After(t, x)' => t \in recent'
      BY <1>1, <1>2, <2>5 DEF EndingsAgree
    <3>3. /\ \A x \in SL!Ended' : phase'[x] = "ended" /\ endedAt'[x] <= Cardinality(SL!Ended)'
          /\ \A x, t \in SL!Ended' : endedAt'[x] = endedAt'[t] => x = t
      BY <1>1, <1>2 DEF EndingsAgree
    <3>4. QED
      BY <1>1, <2>5, <2>6, <2>7, <3>1, <3>2, <3>3 DEF EndingsAgree
  <2>9. \A t \in stored \cup index : After(s, t)
    BY <2>1 DEF EndingsAgree
  <2>10. \A t \in stored \ stored' : Replaced(t)
    BY <2>1, <2>9 DEF Replaced
  <2>11. SL!Shared = stored \cap index /\ SL!Shared' = stored' \cap index'
    <3>1. SL!Shared = stored \cap index
      BY SharedIsInBoth
    <3>2. SL!Shared' = stored' \cap index'
      BY <1>1, <2>7 DEF SL!Shared
    <3>3. QED
      BY <3>1, <3>2
  <2>12. ASSUME NEW t \in SL!Shared, t \notin SL!Shared', ~Replaced(t), NEW x \in SL!Shared'
         PROVE  After(x, t)
    <3>1. t \in stored' /\ t \in held /\ t \notin index'
      BY <2>9, <2>10, <2>11, <2>12, <2>1 DEF Replaced
    <3>2. x \in index' /\ ~(endedAt[t] >= endedAt[x])
      BY <2>3, <2>11, <3>1
    <3>3. endedAt[t] \in Nat /\ endedAt[x] \in Nat
      BY <1>3, <2>2, <2>3, <3>1, <3>2
    <3>4. QED
      BY <3>2, <3>3 DEF After
  <2>13. SL!Shared' \subseteq SL!Shared \cup savingSessions
    BY <2>1, <2>3, <2>11
  <2>14. QED
    BY <1>1, <2>1, <2>4, <2>8, <2>10, <2>12, <2>13
<1>5. CASE SL!SaveFails(s)
  <2>1. savingSessions' = savingSessions \ {s} /\ UNCHANGED <<index, stored>>
    BY <1>5 DEF SL!SaveFails
  <2>2. ListTypes'
    BY <1>1, <2>1 DEF ListTypes, SL!NoReader
  <2>3. EndingsAgree'
    BY <1>1, <1>2, <2>1 DEF EndingsAgree, After
  <2>4. SL!Shared' = SL!Shared
    BY <1>1, <2>1 DEF SL!Shared
  <2>5. QED
    BY <1>1, <2>1, <2>2, <2>3, <2>4
<1>6. CASE SL!Expires(s)
  <2>1. /\ s \in stored /\ \A t \in stored : endedAt[s] <= endedAt[t]
        /\ stored' = stored \ {s} /\ UNCHANGED <<savingSessions, index>>
    BY <1>6 DEF SL!Expires, SL!Oldest
  <2>2. ListTypes'
    BY <1>1, <2>1 DEF ListTypes, SL!NoReader
  <2>3. EndingsAgree'
    BY <1>1, <1>2, <2>1 DEF EndingsAgree, After
  <2>4. SL!Shared' = SL!Shared \ {s}
    BY <1>1, <2>1 DEF SL!Shared
  <2>5. \A x \in stored' : After(x, s)
    <3> SUFFICES ASSUME NEW x \in stored' PROVE After(x, s)
      OBVIOUS
    <3>1. x \in SL!Ended /\ s \in SL!Ended /\ x # s /\ endedAt[s] <= endedAt[x]
      BY <2>1 DEF EndingsAgree
    <3>2. endedAt[x] # endedAt[s] /\ endedAt[x] \in Nat /\ endedAt[s] \in Nat
      BY <1>3, <3>1 DEF EndingsAgree, SL!Ended
    <3>3. QED
      BY <3>1, <3>2 DEF After
  <2>6. SL!Shared' \subseteq stored'
    BY DEF SL!Shared
  <2>7. QED
    BY <1>1, <2>1, <2>2, <2>3, <2>4, <2>5, <2>6
<1>7. QED
  BY <1>4, <1>5, <1>6
\* The sessions of a reader's list, with the search applied.
Searched(S) == IF reader.search THEN S \cap Matching ELSE S

\* A request begins with what the process holds and Redis would give.
LEMMA RequestStarts ==
  ASSUME ListTypes, NEW page \in Nat \ {0}, NEW search \in BOOLEAN,
         page = 1 \/ reader \in ReaderRecord, SL!ListSessions(page, search)
  PROVE  /\ reader' \in ReaderRecord
         /\ reader'.part = (IF redisReady THEN "index" ELSE "merge")
         /\ reader'.page = page /\ reader'.search = search
         /\ reader'.local = recent /\ reader'.ids = {} /\ reader'.copies = {}
         /\ reader'.held = recent \cup SL!Shared
         /\ reader'.seen = (IF page = 1 THEN {} ELSE reader.seen)
         /\ reader'.due = (IF page = 1 THEN {} ELSE reader.due)
         /\ reader'.steady = (IF page = 1 THEN savingSessions \subseteq recent
                              ELSE reader.steady)
<1>1. SL!Shared \subseteq SL!Session
  BY DEF SL!Shared, ListTypes
<1>2. page # 1 => reader.seen \subseteq SL!Session /\ reader.due \subseteq SL!Session
                  /\ reader.steady \in BOOLEAN
  BY DEF ReaderRecord
<1>3. PICK new : /\ new = (IF page = 1 THEN savingSessions \subseteq recent
                           ELSE reader.steady)
                 /\ new \in BOOLEAN
  BY <1>2
<1>4. reader' = [part |-> IF redisReady THEN "index" ELSE "merge",
                 page |-> page, search |-> search,
                 local |-> recent, ids |-> {}, copies |-> {},
                 held |-> recent \cup SL!Shared,
                 seen |-> IF page = 1 THEN {} ELSE reader.seen,
                 due |-> IF page = 1 THEN {} ELSE reader.due,
                 steady |-> new]
  BY <1>3, Zenon DEF SL!ListSessions
<1>5. QED
  BY <1>1, <1>2, <1>3, <1>4 DEF ReaderRecord, ListTypes

\* A page's items are of its list.
LEMMA ItemsAreListed ==
  ASSUME ListTypes, NEW all, all \subseteq SL!Session, NEW page \in Nat
  PROVE  SL!PageItems(all, page) \subseteq all
BY DEF SL!PageItems, SL!Newest

\* What the process holds in place of a copy is of what the two are.
LEMMA MergedAreFound ==
  ASSUME NEW S, NEW T
  PROVE  SL!Merge(S, T) \subseteq S \cup T
BY DEF SL!Merge, SL!LastOfStream

\* A reply leaves the reader with the page.
LEMMA ReplyFields ==
  ASSUME ListTypes, SL!Reply, NEW all,
         all = Searched(SL!Merge(reader.local, reader.copies))
  PROVE  /\ reader \in ReaderRecord /\ reader.part = "merge" /\ all \subseteq SL!Session
         /\ reader' \in ReaderRecord /\ reader'.part = "read"
         /\ reader'.page = reader.page /\ reader'.search = reader.search
         /\ reader'.steady = reader.steady
         /\ reader'.seen = reader.seen \cup SL!PageItems(all, reader.page)
         /\ reader'.due = (IF reader.page = 1 THEN all ELSE reader.due)
         /\ reader'.local = {} /\ reader'.held = {} /\ reader'.copies = {}
         /\ listing' = [there |-> TRUE, all |-> all, pages |-> SL!TotalPages(all),
                        held |-> reader.held \cap (reader.local \cup SL!Shared),
                        active |-> Searched(SL!GetActiveSessions)]
<1>1. reader.part = "merge"
  BY Zenon DEF SL!Reply
<1>2. reader \in ReaderRecord
  BY <1>1 DEF ListTypes, SL!NoReader
<1>3. /\ all = SL!FilterVoiceSessionsBySearch(SL!Merge(reader.local, reader.copies),
                                              reader.search)
      /\ Searched(SL!GetActiveSessions)
           = SL!FilterVoiceSessionsBySearch(SL!GetActiveSessions, reader.search)
  BY DEF SL!FilterVoiceSessionsBySearch, Searched
<1>4. /\ listing' = [there |-> TRUE, all |-> all, pages |-> SL!TotalPages(all),
                     held |-> reader.held \cap (reader.local \cup SL!Shared),
                     active |-> Searched(SL!GetActiveSessions)]
      /\ reader' = [reader EXCEPT !.part = "read", !.local = {}, !.ids = {},
                                  !.copies = {}, !.held = {},
                                  !.seen = @ \cup SL!PageItems(all, reader.page),
                                  !.due = IF reader.page = 1 THEN all ELSE @]
  BY <1>3, Zenon DEF SL!Reply
<1>5. all \subseteq reader.local \cup reader.copies
  BY MergedAreFound DEF Searched
<1>6. all \subseteq SL!Session /\ reader.page \in Nat
  BY <1>2, <1>5 DEF ReaderRecord
<1>7. SL!PageItems(all, reader.page) \subseteq SL!Session
  BY <1>6, ItemsAreListed
<1>8. QED
  BY <1>1, <1>2, <1>4, <1>6, <1>7 DEF ReaderRecord
\* All but the phases of the sessions.
listsAndReader == <<redisReady, streamOf, endedAt, recent, savingSessions, index, stored,
                    reader, listing>>

\* A session ends and is kept.
Ending(s) ==
  /\ SL!Live(s) /\ SL!EndSession(s)
  /\ UNCHANGED <<redisReady, streamOf, index, stored, listing, lost>>

\* The tables of Redis change.
RedisMoves(s) == SL!SaveEndedSession(s) \/ SL!SaveFails(s) \/ SL!Expires(s)

\* The reader goes on.
ReaderMoves ==
  SL!OpenPage \/ SL!NextPage \/ SL!ReadIndex \/ SL!ReadCopies \/ SL!Reply \/ SL!ClosePage

\* The copies that are read, and what the answer is then still held to show.
ReadOf(failed) == {s \in stored \ failed : streamOf[s] \in reader.ids}
HeldWithout(failed) ==
  {s \in reader.held : \/ s \in reader.local
                       \/ \A t \in failed : streamOf[t] # streamOf[s]}

\* A reading leaves out the copies that fail.
LEMMA CopiesRead ==
  ASSUME ListTypes, SL!ReadCopies, reader \in ReaderRecord
  PROVE  \E failed \in SUBSET stored, copies \in SUBSET SL!Session,
            held \in SUBSET SL!Session, b \in BOOLEAN :
           /\ copies = ReadOf(failed) /\ held = HeldWithout(failed)
           /\ b = (reader.steady /\ failed = {})
           /\ reader' = [reader EXCEPT !.part = "merge", !.copies = copies,
                                       !.held = held, !.steady = b]
<1>1. PICK failed \in SUBSET {s \in stored : streamOf[s] \in reader.ids} :
        reader' = [reader EXCEPT !.part = "merge",
           !.copies = {s \in stored \ failed : streamOf[s] \in reader.ids},
           !.held = {s \in @ : s \in reader.local
                                \/ \A t \in failed : streamOf[t] # streamOf[s]},
           !.steady = @ /\ failed = {}]
  BY DEF SL!ReadCopies
<1>2. /\ ReadOf(failed) \in SUBSET SL!Session
      /\ HeldWithout(failed) \in SUBSET SL!Session
      /\ (reader.steady /\ failed = {}) \in BOOLEAN
  BY DEF ListTypes, ReaderRecord, ReadOf, HeldWithout
<1>3. failed \in SUBSET stored
  OBVIOUS
<1>4. reader' = [reader EXCEPT !.part = "merge", !.copies = ReadOf(failed),
                               !.held = HeldWithout(failed),
                               !.steady = (reader.steady /\ failed = {})]
  BY <1>1, Zenon DEF ReadOf, HeldWithout
<1> QED BY <1>2, <1>3, <1>4

\* What the reader leaves as it is, and what it becomes.
LEMMA ReaderActs ==
  ASSUME ListTypes, EndingsAgree, ReaderMoves
  PROVE  /\ UNCHANGED <<redisReady, streamOf, phase, endedAt, recent, savingSessions,
                        index, stored>>
         /\ ListTypes' /\ EndingsAgree'
<1>1. UNCHANGED <<redisReady, streamOf, phase, endedAt, recent, savingSessions,
                  index, stored>>
  BY Zenon DEF ReaderMoves, SL!OpenPage, SL!NextPage, SL!ReadIndex, SL!ReadCopies, SL!Reply,
         SL!ClosePage, SL!sessionVars, SL!configVars, SL!endedVars, SL!redisVars
<1>2. EndingsAgree'
  BY <1>1 DEF EndingsAgree, After, SL!Ended
<1>3. reader' = SL!NoReader \/ reader' \in ReaderRecord
  <2>1. CASE SL!OpenPage
    BY <2>1, RequestStarts DEF SL!OpenPage
  <2>2. CASE SL!NextPage
    <3>1. reader.part = "read" /\ SL!ListSessions(reader.page + 1, reader.search)
      BY <2>2 DEF SL!NextPage
    <3>2. reader \in ReaderRecord
      BY <3>1 DEF ListTypes, SL!NoReader
    <3>3. reader.page + 1 \in Nat \ {0} /\ reader.search \in BOOLEAN
      BY <3>2 DEF ReaderRecord
    <3>4. QED
      BY <3>1, <3>2, <3>3, RequestStarts
  <2>3. CASE SL!ReadIndex
    <3>1. reader \in ReaderRecord
      BY <2>3 DEF ListTypes, SL!NoReader, SL!ReadIndex
    <3>2. {streamOf[s] : s \in index} \subseteq Nat
      BY DEF ListTypes
    <3>3. QED
      BY <2>3, <3>1, <3>2 DEF ReaderRecord, SL!ReadIndex
  <2>4. CASE SL!ReadCopies
    <3>1. reader \in ReaderRecord
      BY <2>4 DEF ListTypes, SL!NoReader, SL!ReadCopies
    <3>2. PICK copies \in SUBSET SL!Session, held \in SUBSET SL!Session, b \in BOOLEAN :
            reader' = [reader EXCEPT !.part = "merge", !.copies = copies,
                                     !.held = held, !.steady = b]
      BY <2>4, <3>1, CopiesRead
    <3>3. QED
      BY <3>1, <3>2 DEF ReaderRecord
  <2>5. CASE SL!Reply
    BY <2>5, ReplyFields
  <2>6. CASE SL!ClosePage
    BY <2>6 DEF SL!ClosePage
  <2>7. QED
    BY <2>1, <2>2, <2>3, <2>4, <2>5, <2>6 DEF ReaderMoves
<1>4. ListTypes'
  BY <1>1, <1>3 DEF ListTypes, SL!NoReader
<1>5. QED
  BY <1>1, <1>2, <1>4

\* A restart leaves the copies in Redis.
LEMMA RestartActs ==
  ASSUME ListTypes, EndingsAgree, SL!Restart
  PROVE  ListTypes' /\ EndingsAgree'
<1>1. /\ phase' = [s \in SL!Session |-> IF SL!Live(s) THEN "ended" ELSE phase[s]]
      /\ recent' = {} /\ savingSessions' = {} /\ reader' = SL!NoReader
      /\ UNCHANGED <<redisReady, streamOf, endedAt, index, stored>>
  BY DEF SL!Restart, SL!configVars
<1>2. SL!Ended' = SL!Ended
  BY <1>1 DEF SL!Ended
<1>3. \A s \in SL!Ended : phase'[s] = "ended"
  BY <1>1 DEF SL!Ended, EndingsAgree
<1>4. phase' \in [SL!Session -> {"new", "connected", "pending", "accepted", "rejected",
                                 "ended"}]
  BY <1>1 DEF ListTypes
<1>5. ListTypes'
  BY <1>1, <1>4 DEF ListTypes, SL!NoReader
<1>6. EndingsAgree'
  BY <1>1, <1>2, <1>3 DEF EndingsAgree, After
<1>7. QED
  BY <1>5, <1>6

\* The kinds of steps, and that each keeps the lists in order.
LEMMA ListsMove ==
  ASSUME ListTypes, EndingsAgree, [SL!Next]_listVars
  PROVE  /\ \/ UNCHANGED listsAndReader
            \/ \E s \in SL!Session : Ending(s)
            \/ \E s \in SL!Session : RedisMoves(s)
            \/ SL!Restart
            \/ ReaderMoves
         /\ ListTypes' /\ EndingsAgree'
<1>1. CASE UNCHANGED listVars
  <2>1. UNCHANGED listsAndReader /\ phase' = phase
    BY <1>1 DEF listVars, listsAndReader
  <2>2. ListTypes'
    BY <2>1 DEF ListTypes, SL!NoReader, listsAndReader
  <2>3. EndingsAgree'
    BY <2>1 DEF EndingsAgree, After, SL!Ended, listsAndReader
  <2>4. QED
    BY <2>1, <2>2, <2>3
<1>2. ASSUME NEW s \in SL!Session,
             \/ SL!Connect(s) \/ SL!BindStreamSid(s) \/ SL!MarkAppInitiated(s)
             \/ SL!End(s)
      PROVE  /\ UNCHANGED listsAndReader \/ Ending(s)
             /\ ListTypes' /\ EndingsAgree'
  <2>1. CASE \/ SL!Connect(s) \/ SL!BindStreamSid(s) \/ SL!MarkAppInitiated(s)
             \/ /\ SL!Live(s) /\ SL!DiscardSession(s)
                /\ UNCHANGED <<redisReady, streamOf, index, stored, listing, lost>>
    BY <2>1, PhaseActs DEF listsAndReader
  <2>2. CASE Ending(s)
    BY <2>2, EndingActs DEF Ending
  <2>3. QED
    BY <1>2, <2>1, <2>2 DEF SL!End, Ending, SL!configVars
<1>3. ASSUME NEW s \in SL!Session, RedisMoves(s) PROVE ListTypes' /\ EndingsAgree'
  BY <1>3, RedisActs DEF RedisMoves
<1>4. CASE SL!Next
  BY <1>2, <1>3, <1>4, ReaderActs, RestartActs DEF SL!Next, ReaderMoves, RedisMoves
<1>5. QED
  BY <1>1, <1>4
\* What a request would find now, and the sessions that ended since it began.
Listable == recent \cup SL!Shared
InProgress == reader.part \in {"index", "copies", "merge"}
Since(x) == \A y \in reader.held : After(x, y)

\* What Redis gives, or has given, to the request.
Coming ==
  IF reader.part = "index" THEN SL!Shared
  ELSE IF reader.part = "copies" THEN {s \in stored : streamOf[s] \in reader.ids}
  ELSE reader.copies

\* A request under way has the latest of what was held when it began; what else
\* was held is given, if Redis still has it.
RequestAgrees ==
  InProgress =>
    /\ reader.local \subseteq reader.held
    /\ reader.held \cup reader.copies \subseteq SL!Ended
    /\ \A s \in reader.local, t \in reader.held : After(t, s) => t \in reader.local
    /\ (reader.held \ reader.local) \cap savingSessions = {}
    /\ \A x \in recent : x \in reader.local \/ Since(x)
    /\ (reader.held \ reader.local) \cap SL!Shared \subseteq Coming
    /\ \A s, t \in reader.copies : streamOf[s] = streamOf[t] => s = t
    /\ ~listing.there
    /\ reader.page = 1 => reader.due = {}

\* The order of what has ended stays.
LEMMA OrderStays ==
  ASSUME ListTypes, EndingsAgree, NEW s \in SL!Session, Ending(s)
  PROVE  /\ s \notin SL!Ended /\ SL!Ended \subseteq SL!Ended'
         /\ \A x, y \in SL!Ended : After(x, y)' <=> After(x, y)
         /\ \A x \in SL!Ended : After(s, x)' /\ ~After(x, s)'
         /\ recent' \subseteq recent \cup {s} /\ s \in recent'
         /\ savingSessions' \subseteq savingSessions \cup {s}
         /\ SL!Shared' = SL!Shared
         /\ UNCHANGED <<redisReady, streamOf, index, stored, listing>>
<1>1. /\ s \notin SL!Ended /\ SL!Ended' = SL!Ended \cup {s}
      /\ \A t \in SL!Ended : endedAt'[t] = endedAt[t] /\ endedAt'[s] > endedAt[t]
      /\ recent' \subseteq recent \cup {s} /\ s \in recent'
      /\ endedAt' \in [SL!Session -> Nat]
  BY EndingLists DEF Ending
<1>2. savingSessions' = IF redisReady /\ phase[s] = "accepted" THEN savingSessions \cup {s}
                        ELSE savingSessions
  BY Zenon DEF SL!EndSession, Ending
<1>3. UNCHANGED <<redisReady, streamOf, index, stored, listing>>
  BY DEF Ending
<1>4. SL!Shared' = SL!Shared
  BY <1>3 DEF SL!Shared
<1>5. \A x \in SL!Ended : endedAt[x] \in Nat /\ endedAt'[s] \in Nat
  BY <1>1 DEF SL!Ended, ListTypes
<1>6. QED
  BY <1>1, <1>2, <1>3, <1>4, <1>5 DEF After

\* An ending changes nothing of the reader but whether its pages are in step.
LEMMA EndingLeavesReader ==
  ASSUME ListTypes, EndingsAgree, NEW s \in SL!Session, Ending(s), reader \in ReaderRecord
  PROVE  /\ reader' \in ReaderRecord
         /\ \A f \in {"part", "page", "search", "local", "ids", "copies", "held", "seen",
                      "due"} : reader'[f] = reader[f]
         /\ reader'.steady => reader.steady /\ SL!InStep(s)
<1>1. \/ reader' = reader /\ (reader.part = "idle" \/ SL!InStep(s))
      \/ reader \in ReaderRecord /\ reader' = [reader EXCEPT !.steady = FALSE]
  BY EndingActs DEF Ending
<1>2. reader.part # "idle"
  BY DEF ReaderRecord
<1>3. CASE reader' = reader /\ SL!InStep(s)
  BY <1>3, Zenon
<1>4. CASE reader' = [reader EXCEPT !.steady = FALSE]
  BY <1>4 DEF ReaderRecord
<1>5. QED
  BY <1>1, <1>2, <1>3, <1>4

\* The reading of the index, and of the copies, takes what Redis has; what a
\* copy that fails would have shown is no longer held.
LEMMA ReadingRedis ==
  ASSUME ListTypes, EndingsAgree, SL!ReadIndex \/ SL!ReadCopies
  PROVE  /\ reader \in ReaderRecord /\ reader' \in ReaderRecord
         /\ InProgress /\ InProgress' /\ listing' = listing
         /\ \A f \in {"page", "search", "local", "seen", "due"} : reader'[f] = reader[f]
         /\ \E failed \in SUBSET stored :
              /\ Coming' = Coming \ failed
              /\ reader'.held = HeldWithout(failed)
              /\ reader'.steady = (reader.steady /\ failed = {})
         /\ reader'.copies = reader.copies \/ (reader'.copies = Coming' /\ Coming' \subseteq stored)
<1>1. UNCHANGED <<redisReady, streamOf, phase, endedAt, recent, savingSessions,
                  index, stored>>
  <2>1. ReaderMoves
    BY DEF ReaderMoves
  <2>2. QED
    BY <2>1, ReaderActs
<1>2. SL!Shared' = SL!Shared
  BY <1>1 DEF SL!Shared
<1>3. CASE SL!ReadIndex
  <2>1. /\ reader.part = "index" /\ listing' = listing
        /\ reader' = [reader EXCEPT !.part = "copies",
                                    !.ids = {streamOf[s] : s \in index}]
    BY <1>3 DEF SL!ReadIndex
  <2>2. reader \in ReaderRecord
    BY <2>1 DEF ListTypes, SL!NoReader
  <2>3. {streamOf[s] : s \in index} \subseteq Nat
    BY DEF ListTypes
  <2>4. /\ reader' \in ReaderRecord /\ reader'.part = "copies"
        /\ reader'.ids = {streamOf[s] : s \in index}
        /\ \A f \in {"page", "search", "local", "held", "seen", "due", "steady", "copies"} :
             reader'[f] = reader[f]
    BY <2>1, <2>2, <2>3 DEF ReaderRecord
  <2>5. Coming' = {s \in stored : streamOf[s] \in {streamOf[t] : t \in index}}
    BY <1>1, <2>4 DEF Coming
  <2>6. Coming = SL!Shared
    BY <2>1 DEF Coming
  <2>7. Coming' = Coming
    BY <2>5, <2>6 DEF SL!Shared
  <2>8. \E failed \in SUBSET stored :
              /\ Coming' = Coming \ failed
              /\ reader'.held = HeldWithout(failed)
              /\ reader'.steady = (reader.steady /\ failed = {})
    <3>1. PICK none \in SUBSET stored : none = {}
      OBVIOUS
    <3>2. HeldWithout(none) = reader.held
      BY <3>1 DEF HeldWithout
    <3>3. reader'.held = reader.held /\ reader'.steady = reader.steady
          /\ reader.steady \in BOOLEAN
      BY <2>2, <2>4 DEF ReaderRecord
    <3>4. Coming' = Coming \ none
      BY <2>7, <3>1
    <3>5. reader'.steady = (reader.steady /\ none = {})
      BY <3>1, <3>3
    <3> QED BY <3>2, <3>3, <3>4, <3>5, Zenon
  <2>9. reader'.copies = reader.copies
    BY <2>4
  <2>10. InProgress /\ InProgress'
    BY <2>1, <2>4 DEF InProgress
  <2>11. \A f \in {"page", "search", "local", "seen", "due"} : reader'[f] = reader[f]
    BY <2>4
  <2>12. QED
    BY <2>1, <2>2, <2>4, <2>8, <2>9, <2>10, <2>11, Zenon
<1>4. CASE SL!ReadCopies
  <2>1. reader.part = "copies" /\ listing' = listing
    BY <1>4 DEF SL!ReadCopies
  <2>2. reader \in ReaderRecord
    BY <2>1 DEF ListTypes, SL!NoReader
  <2>3. PICK failed \in SUBSET stored, copies \in SUBSET SL!Session,
             held \in SUBSET SL!Session, b \in BOOLEAN :
           /\ copies = ReadOf(failed) /\ held = HeldWithout(failed)
           /\ b = (reader.steady /\ failed = {})
           /\ reader' = [reader EXCEPT !.part = "merge", !.copies = copies,
                                       !.held = held, !.steady = b]
    BY <1>4, <2>2, CopiesRead
  <2>4. /\ reader' \in ReaderRecord /\ reader'.part = "merge"
        /\ reader'.copies = copies /\ reader'.held = held /\ reader'.steady = b
        /\ \A f \in {"page", "search", "local", "seen", "due"} : reader'[f] = reader[f]
    BY <2>2, <2>3 DEF ReaderRecord
  <2>5. Coming' = copies
    BY <2>4 DEF Coming
  <2>6. Coming = {s \in stored : streamOf[s] \in reader.ids}
    BY <2>1 DEF Coming
  <2>7. copies = Coming \ failed /\ copies \subseteq stored
    BY <2>3, <2>6 DEF ReadOf
  <2>8. QED
    BY <2>1, <2>2, <2>3, <2>4, <2>5, <2>7 DEF InProgress
<1>5. QED
  BY <1>3, <1>4
\* An ending and a request: the new session is later than all that is held.
LEMMA RequestEnding ==
  ASSUME ListTypes, EndingsAgree, RequestAgrees, NEW s \in SL!Session, Ending(s)
  PROVE  RequestAgrees'
<1> SUFFICES ASSUME InProgress' PROVE RequestAgrees'
  BY DEF RequestAgrees
<1>1. reader \in ReaderRecord
  <2>1. reader = SL!NoReader => reader' = SL!NoReader
    BY EndingActs DEF Ending, ReaderRecord, SL!NoReader
  <2>2. QED
    BY <2>1 DEF ListTypes, InProgress, SL!NoReader
<1>2. /\ reader'.part = reader.part /\ reader'.page = reader.page
      /\ reader'.local = reader.local /\ reader'.ids = reader.ids
      /\ reader'.copies = reader.copies /\ reader'.held = reader.held
      /\ reader'.due = reader.due
  BY <1>1, EndingLeavesReader
<1>3. InProgress
  BY <1>2 DEF InProgress
<1>4. /\ s \notin SL!Ended /\ SL!Ended \subseteq SL!Ended'
      /\ \A x, y \in SL!Ended : After(x, y)' <=> After(x, y)
      /\ \A x \in SL!Ended : After(s, x)' /\ ~After(x, s)'
      /\ recent' \subseteq recent \cup {s} /\ s \in recent'
      /\ savingSessions' \subseteq savingSessions \cup {s}
      /\ SL!Shared' = SL!Shared
      /\ UNCHANGED <<redisReady, streamOf, index, stored, listing>>
  BY OrderStays
<1>5. Coming' = Coming
  BY <1>2, <1>4 DEF Coming
<1>6. \A x \in recent' : x \in reader.local \/ Since(x)'
  BY <1>2, <1>3, <1>4 DEF RequestAgrees, Since, EndingsAgree
<1>7. \A x \in reader.local, t \in reader.held : After(t, x)' => t \in reader.local
  BY <1>3, <1>4 DEF RequestAgrees
<1>8. QED
  BY <1>2, <1>3, <1>4, <1>5, <1>6, <1>7 DEF RequestAgrees

\* Redis and a request: what was held and is still there is still given.
LEMMA RequestRedis ==
  ASSUME ListTypes, EndingsAgree, RequestAgrees, NEW s \in SL!Session, RedisMoves(s)
  PROVE  RequestAgrees'
<1>1. /\ UNCHANGED <<redisReady, streamOf, phase, endedAt, recent, reader, listing>>
      /\ savingSessions' \subseteq savingSessions
      /\ SL!Shared' \subseteq SL!Shared \cup savingSessions
  BY RedisActs DEF RedisMoves
<1> SUFFICES ASSUME InProgress PROVE RequestAgrees'
  BY <1>1 DEF RequestAgrees, InProgress
<1>2. SL!Ended' = SL!Ended
  BY <1>1 DEF SL!Ended
<1>3. (reader.held \ reader.local) \cap SL!Shared' \subseteq Coming'
  <2> SUFFICES ASSUME NEW x \in reader.held \ reader.local, x \in SL!Shared'
               PROVE  x \in Coming'
    OBVIOUS
  <2>1. x \in SL!Shared /\ x \in Coming
    BY <1>1 DEF RequestAgrees
  <2>2. x \in stored'
    BY DEF SL!Shared
  <2>3. QED
    BY <1>1, <2>1, <2>2 DEF Coming
<1>4. QED
  BY <1>1, <1>2, <1>3 DEF RequestAgrees, Since, After, InProgress
\* A reply is of the page that its reader is on, and lists each call once.
ListingAgrees ==
  /\ listing.there => reader.part = "read"
  /\ reader.part = "read" =>
       /\ listing.there /\ listing.pages = SL!TotalPages(listing.all)
       /\ listing.all \cup listing.held \subseteq SL!Ended
  /\ SL!ListedOnce

\* A page is asked for: what is held is what a request would find.
LEMMA PageIsAskedFor ==
  ASSUME ListTypes, EndingsAgree, SL!OpenPage \/ SL!NextPage
  PROVE  /\ reader' \in ReaderRecord /\ InProgress'
         /\ UNCHANGED <<redisReady, streamOf, phase, endedAt, recent, savingSessions,
                        index, stored>>
         /\ reader'.local = recent /\ reader'.held = Listable /\ reader'.copies = {}
         /\ Coming' = SL!Shared /\ Listable' = Listable
         /\ \/ /\ reader.part = "idle" /\ listing' = listing
               /\ reader'.page = 1 /\ reader'.due = {}
               /\ reader'.steady = (savingSessions \subseteq recent)
            \/ /\ reader \in ReaderRecord /\ reader.part = "read" /\ ~listing'.there
               /\ reader'.page = reader.page + 1
               /\ \A f \in {"search", "seen", "due", "steady"} : reader'[f] = reader[f]
<1>1. UNCHANGED <<redisReady, streamOf, phase, endedAt, recent, savingSessions,
                  index, stored>>
  <2>1. ReaderMoves
    BY DEF ReaderMoves
  <2>2. QED
    BY <2>1, ReaderActs
<1>2. PICK page \in Nat \ {0}, search \in BOOLEAN :
        /\ SL!ListSessions(page, search)
        /\ \/ page = 1 /\ reader.part = "idle" /\ listing' = listing
           \/ /\ reader \in ReaderRecord /\ reader.part = "read" /\ ~listing'.there
              /\ page = reader.page + 1 /\ search = reader.search
  <2>1. CASE SL!OpenPage
    BY <2>1 DEF SL!OpenPage
  <2>2. CASE SL!NextPage
    <3>1. /\ reader.part = "read" /\ SL!ListSessions(reader.page + 1, reader.search)
          /\ ~listing'.there
      BY <2>2 DEF SL!NextPage, SL!NoListing
    <3>2. reader \in ReaderRecord
      BY <3>1 DEF ListTypes, SL!NoReader
    <3>3. reader.page + 1 \in Nat \ {0} /\ reader.search \in BOOLEAN
      BY <3>2 DEF ReaderRecord
    <3>4. QED
      BY <3>1, <3>2, <3>3
  <2>3. QED
    BY <2>1, <2>2
<1>3. /\ reader' \in ReaderRecord
      /\ reader'.part = (IF redisReady THEN "index" ELSE "merge")
      /\ reader'.page = page /\ reader'.search = search
      /\ reader'.local = recent /\ reader'.ids = {} /\ reader'.copies = {}
      /\ reader'.held = recent \cup SL!Shared
      /\ reader'.seen = (IF page = 1 THEN {} ELSE reader.seen)
      /\ reader'.due = (IF page = 1 THEN {} ELSE reader.due)
      /\ reader'.steady = (IF page = 1 THEN savingSessions \subseteq recent
                           ELSE reader.steady)
  BY <1>2, RequestStarts
<1>4. SL!Shared' = SL!Shared
  BY <1>1 DEF SL!Shared
<1>5. Coming' = SL!Shared
  <2>1. ~redisReady => SL!Shared = {}
    BY DEF EndingsAgree, SL!Shared
  <2>2. QED
    BY <1>1, <1>3, <1>4, <2>1 DEF Coming
<1>6. InProgress' /\ Listable' = Listable /\ Listable = recent \cup SL!Shared
  BY <1>1, <1>3, <1>4 DEF InProgress, Listable
<1>7. CASE page = 1 /\ reader.part = "idle" /\ listing' = listing
  BY <1>1, <1>3, <1>5, <1>6, <1>7
<1>8. CASE /\ reader \in ReaderRecord /\ reader.part = "read" /\ ~listing'.there
           /\ page = reader.page + 1 /\ search = reader.search
  <2>1. page # 1
    BY <1>8 DEF ReaderRecord
  <2>2. \A f \in {"search", "seen", "due", "steady"} : reader'[f] = reader[f]
    BY <1>3, <1>8, <2>1
  <2>3. QED
    BY <1>1, <1>3, <1>5, <1>6, <1>8, <2>2
<1>9. QED
  BY <1>2, <1>7, <1>8

\* The reader's steps keep what a request agrees with.
LEMMA RequestReads ==
  ASSUME ListTypes, EndingsAgree, RequestAgrees, ListingAgrees, ReaderMoves
  PROVE  RequestAgrees'
<1>1. UNCHANGED <<redisReady, streamOf, phase, endedAt, recent, savingSessions,
                  index, stored>>
  BY ReaderActs
<1>2. SL!Ended' = SL!Ended /\ SL!Shared' = SL!Shared
  BY <1>1 DEF SL!Ended, SL!Shared
<1>3. \A x, y : After(x, y)' <=> After(x, y)
  BY <1>1 DEF After
<1>4. CASE SL!OpenPage \/ SL!NextPage
  <2>1. /\ reader'.local = recent /\ reader'.held = Listable /\ reader'.copies = {}
        /\ Coming' = SL!Shared /\ ~listing'.there
        /\ reader' \in ReaderRecord
        /\ reader'.page = 1 => reader'.due = {}
    <3>1. reader \in ReaderRecord => reader.page + 1 # 1
      BY DEF ReaderRecord
    <3>2. QED
      BY <1>4, <3>1, PageIsAskedFor DEF ListingAgrees
  <2>2. \A x \in savingSessions : x \notin SL!Shared
    BY DEF EndingsAgree, SL!Shared, After, ListTypes
  <2>3. Listable \subseteq SL!Ended
    BY DEF Listable, SL!Shared, EndingsAgree
  <2>4. \A x \in recent, t \in Listable : After(t, x) => t \in recent
    BY <2>3 DEF EndingsAgree
  <2>5. QED
    BY <1>1, <1>2, <1>3, <2>1, <2>2, <2>3, <2>4 DEF RequestAgrees, Listable
<1>5. CASE SL!ReadIndex \/ SL!ReadCopies
  <2>1. /\ InProgress /\ listing' = listing
        /\ \A f \in {"page", "search", "local", "seen", "due"} : reader'[f] = reader[f]
        /\ \E failed \in SUBSET stored :
              Coming' = Coming \ failed /\ reader'.held = HeldWithout(failed)
        /\ reader'.copies = reader.copies \/ (reader'.copies = Coming' /\ Coming' \subseteq stored)
    BY <1>5, ReadingRedis
  <2>2. PICK failed \in SUBSET stored :
           Coming' = Coming \ failed /\ reader'.held = HeldWithout(failed)
    BY <2>1
  <2>3. /\ reader'.page = reader.page /\ reader'.local = reader.local
        /\ reader'.due = reader.due
    BY <2>1
  <2>4. /\ reader'.copies \subseteq SL!Ended
        /\ \A s, t \in reader'.copies : streamOf[s] = streamOf[t] => s = t
    BY <2>1 DEF RequestAgrees, EndingsAgree
  <2>5. reader'.held \subseteq reader.held /\ reader.local \subseteq reader'.held
    BY <2>1, <2>2 DEF HeldWithout, RequestAgrees
  <2>6. \A x \in recent : x \in reader.local \/ Since(x)'
    BY <1>3, <2>1, <2>5 DEF RequestAgrees, Since
  <2>7. (reader'.held \ reader.local) \cap SL!Shared \subseteq Coming'
    BY <2>1, <2>2, <2>5 DEF RequestAgrees, HeldWithout
  <2>8. QED
    BY <1>1, <1>2, <1>3, <2>1, <2>3, <2>4, <2>5, <2>6, <2>7 DEF RequestAgrees
<1>6. CASE SL!Reply
  <2>1. reader'.part = "read"
    BY <1>6, ReplyFields
  <2>2. QED
    BY <2>1 DEF RequestAgrees, InProgress
<1>7. CASE SL!ClosePage
  BY <1>7 DEF SL!ClosePage, SL!NoReader, RequestAgrees, InProgress
<1>8. QED
  BY <1>4, <1>5, <1>6, <1>7 DEF ReaderMoves
\* A session that has ended gives way in a list to the last of its stream.
LEMMA LastOfStreamStands ==
  ASSUME ListTypes, EndingsAgree, NEW S, S \subseteq SL!Ended, NEW s \in S
  PROVE  \E t \in SL!LastOfStream(S) :
           streamOf[t] = streamOf[s] /\ endedAt[t] >= endedAt[s]
<1> DEFINE bound == Cardinality(SL!Ended)
           rest == {bound - endedAt[x] : x \in {t \in S : streamOf[t] = streamOf[s]}}
<1>1. bound \in Nat
  BY FewerSessions DEF SL!Ended
<1>2. \A x \in S : endedAt[x] \in Nat /\ endedAt[x] <= bound
  BY DEF ListTypes, EndingsAgree, SL!Ended
<1>3. rest \subseteq Nat /\ bound - endedAt[s] \in rest
  BY <1>1, <1>2
<1>4. PICK least \in rest : \A u \in rest : ~ (<<u, least>> \in OpToRel(<, Nat))
  BY <1>3, NatLessThanWellFounded, WFMin
<1>5. PICK t \in S : streamOf[t] = streamOf[s] /\ least = bound - endedAt[t]
  BY <1>4
<1>6. \A u \in rest : ~(u < least)
  BY <1>3, <1>4 DEF OpToRel
<1>7. \A x \in S : streamOf[x] = streamOf[s] => endedAt[x] <= endedAt[t]
  <2> SUFFICES ASSUME NEW x \in S, streamOf[x] = streamOf[s]
               PROVE  endedAt[x] <= endedAt[t]
    OBVIOUS
  <2>1. bound - endedAt[x] \in rest
    OBVIOUS
  <2>2. ~(bound - endedAt[x] < bound - endedAt[t])
    BY <1>5, <1>6, <2>1
  <2>3. QED
    BY <1>1, <1>2, <1>5, <2>2
<1>8. t \in SL!LastOfStream(S)
  BY <1>5, <1>7 DEF SL!LastOfStream
<1>9. endedAt[t] >= endedAt[s]
  BY <1>2, <1>7
<1>10. QED
  BY <1>5, <1>8, <1>9

\* A reply lists each call once.
LEMMA ReplyListsOnce ==
  ASSUME ListTypes, EndingsAgree, RequestAgrees, SL!Reply
  PROVE  ListingAgrees'
<1> DEFINE merged == SL!Merge(reader.local, reader.copies)
           all == Searched(merged)
<1>1. /\ reader \in ReaderRecord /\ reader.part = "merge"
      /\ reader'.part = "read" /\ reader'.search = reader.search
      /\ listing' = [there |-> TRUE, all |-> all, pages |-> SL!TotalPages(all),
                     held |-> reader.held \cap (reader.local \cup SL!Shared),
                     active |-> Searched(SL!GetActiveSessions)]
  BY ReplyFields
<1>2. /\ listing'.there /\ listing'.all = all /\ listing'.pages = SL!TotalPages(all)
      /\ listing'.held = reader.held \cap (reader.local \cup SL!Shared)
      /\ listing'.active = Searched(SL!GetActiveSessions)
  BY <1>1
<1>3. UNCHANGED <<redisReady, streamOf, phase, endedAt, recent, savingSessions,
                  index, stored>>
  <2>1. ReaderMoves
    BY DEF ReaderMoves
  <2>2. QED
    BY <2>1, ReaderActs
<1>4. InProgress /\ Coming = reader.copies
  BY <1>1 DEF InProgress, Coming
<1>5. merged \subseteq reader.local \cup reader.copies
  BY MergedAreFound
<1>6. all \subseteq merged /\ (~reader.search => all = merged)
  BY DEF Searched
<1>7. /\ all \subseteq SL!Ended /\ reader.held \subseteq SL!Ended
      /\ reader.local \subseteq SL!Ended
  BY <1>4, <1>5, <1>6 DEF RequestAgrees
<1>8. SL!GetActiveSessions \cap SL!Ended = {}
  BY DEF SL!GetActiveSessions, SL!Live, EndingsAgree
<1>9. listing'.active \cap listing'.all = {}
  BY <1>2, <1>7, <1>8 DEF Searched
<1>10. \A s, t \in merged : streamOf[s] = streamOf[t] => s = t
  <2> SUFFICES ASSUME NEW s \in merged, NEW t \in merged, streamOf[s] = streamOf[t]
               PROVE  s = t
    OBVIOUS
  <2>1. CASE s \in SL!LastOfStream(reader.local) /\ t \in SL!LastOfStream(reader.local)
    <3>1. /\ endedAt[s] <= endedAt[t] /\ endedAt[t] <= endedAt[s]
          /\ s \in SL!Ended /\ t \in SL!Ended
      BY <1>7, <2>1 DEF SL!LastOfStream
    <3>2. endedAt[s] \in Nat /\ endedAt[t] \in Nat
      BY <3>1 DEF SL!Ended, ListTypes
    <3>3. QED
      BY <3>1, <3>2 DEF EndingsAgree
  <2>2. CASE s \notin SL!LastOfStream(reader.local) \/ t \notin SL!LastOfStream(reader.local)
    BY <1>4, <2>2 DEF SL!Merge, SL!LastOfStream, RequestAgrees
  <2>3. QED
    BY <2>1, <2>2
<1>11. ASSUME ~reader.search, NEW s \in listing'.held
       PROVE  \E t \in all : streamOf[t] = streamOf[s] /\ endedAt[t] >= endedAt[s]
  <2>1. s \in reader.held /\ s \in SL!Ended /\ endedAt[s] \in Nat
    BY <1>2, <1>7 DEF SL!Ended, ListTypes
  <2>2. ASSUME NEW u \in reader.local, streamOf[u] = streamOf[s], endedAt[u] >= endedAt[s]
        PROVE  \E t \in all : streamOf[t] = streamOf[s] /\ endedAt[t] >= endedAt[s]
    <3>1. PICK t \in SL!LastOfStream(reader.local) :
            streamOf[t] = streamOf[u] /\ endedAt[t] >= endedAt[u]
      BY <1>7, LastOfStreamStands
    <3>2. t \in all
      BY <1>6, <1>11 DEF SL!Merge
    <3>3. endedAt[t] \in Nat /\ endedAt[u] \in Nat
      BY <1>7, <3>1 DEF SL!LastOfStream, SL!Ended, ListTypes
    <3>4. QED
      BY <2>1, <2>2, <3>1, <3>2, <3>3
  <2>3. CASE s \in reader.local
    BY <2>1, <2>2, <2>3
  <2>4. CASE s \notin reader.local
    <3>1. s \in SL!Shared /\ s \in reader.copies
      BY <1>2, <1>4, <2>1, <2>4 DEF RequestAgrees
    <3>2. CASE \A u \in reader.local : streamOf[u] # streamOf[s]
      <4>1. s \in all
        BY <1>6, <1>11, <3>1, <3>2 DEF SL!Merge
      <4>2. QED
        BY <2>1, <4>1
    <3>3. ASSUME NEW u \in reader.local, streamOf[u] = streamOf[s]
          PROVE  endedAt[u] >= endedAt[s]
      <4>1. ~After(s, u)
        BY <1>4, <2>1, <2>4 DEF RequestAgrees
      <4>2. endedAt[u] \in Nat
        BY <1>7 DEF SL!Ended, ListTypes
      <4>3. QED
        BY <2>1, <4>1, <4>2 DEF After
    <3>4. QED
      BY <2>2, <3>2, <3>3
  <2>5. QED
    BY <2>3, <2>4
<1>12. SL!ListedOnce'
  BY <1>1, <1>2, <1>3, <1>6, <1>9, <1>10, <1>11 DEF SL!ListedOnce
<1>13. SL!Ended' = SL!Ended
  BY <1>3 DEF SL!Ended
<1>14. listing'.pages = SL!TotalPages(listing'.all)
  BY <1>2
<1>15. QED
  BY <1>1, <1>2, <1>7, <1>12, <1>13, <1>14 DEF ListingAgrees
\* The last reply stays what it was, whatever happens to what it lists.
LEMMA ReplyStands ==
  ASSUME ListingAgrees, listing' = listing,
         streamOf' = streamOf, SL!Ended \subseteq SL!Ended',
         \A x \in SL!Ended : endedAt'[x] = endedAt[x],
         listing.there =>
           reader'.part = "read" /\ reader'.search = reader.search,
         reader'.part = "read" => listing.there
  PROVE  ListingAgrees'
<1>1. CASE ~listing.there
  BY <1>1 DEF ListingAgrees, SL!ListedOnce
<1>2. CASE listing.there
  <2>1. /\ reader.part = "read" /\ listing.pages = SL!TotalPages(listing.all)
        /\ listing.all \cup listing.held \subseteq SL!Ended
    BY <1>2 DEF ListingAgrees
  <2>2. SL!ListedOnce'
    BY <1>2, <2>1 DEF ListingAgrees, SL!ListedOnce
  <2>3. listing'.pages = SL!TotalPages(listing'.all)
    BY <2>1
  <2>4. QED
    BY <1>2, <2>1, <2>2, <2>3 DEF ListingAgrees
<1>3. QED
  BY <1>1, <1>2

\* No reply, no page.
LEMMA NoReplyNoPage ==
  ASSUME ~listing'.there, reader'.part # "read"
  PROVE  ListingAgrees'
BY DEF ListingAgrees, SL!ListedOnce

\* Every step keeps the replies right.
LEMMA ListingStep ==
  ASSUME ListTypes, EndingsAgree, RequestAgrees, ListingAgrees, [SL!Next]_listVars
  PROVE  RequestAgrees' /\ ListingAgrees'
<1>1. CASE UNCHANGED listsAndReader
  <2>1. UNCHANGED <<redisReady, streamOf, endedAt, recent, savingSessions, index, stored,
                    reader, listing>>
    BY <1>1 DEF listsAndReader
  <2>2. SL!Ended' = SL!Ended
    BY <2>1 DEF SL!Ended
  <2>3. Coming' = Coming /\ SL!Shared' = SL!Shared
    BY <2>1 DEF Coming, SL!Shared
  <2>4. RequestAgrees'
    BY <2>1, <2>2, <2>3 DEF RequestAgrees, InProgress, Since, After
  <2>5. ListingAgrees'
    BY <2>1, <2>2, ReplyStands DEF ListingAgrees
  <2>6. QED
    BY <2>4, <2>5
<1>2. ASSUME NEW s \in SL!Session, Ending(s) PROVE RequestAgrees' /\ ListingAgrees'
  <2>1. /\ s \notin SL!Ended /\ SL!Ended \subseteq SL!Ended'
        /\ UNCHANGED <<redisReady, streamOf, index, stored, listing>>
    BY <1>2, OrderStays
  <2>2. \A x \in SL!Ended : endedAt'[x] = endedAt[x]
    BY <1>2, EndingLists DEF Ending
  <2>3. CASE reader \in ReaderRecord
    <3>1. reader'.part = reader.part /\ reader'.search = reader.search
      BY <1>2, <2>3, EndingLeavesReader
    <3>2. ListingAgrees'
      BY <2>1, <2>2, <3>1, ReplyStands DEF ListingAgrees
    <3>3. QED
      BY <1>2, <3>2, RequestEnding
  <2>4. CASE reader = SL!NoReader
    <3>1. reader.part = "idle"
      BY <2>4 DEF SL!NoReader
    <3>2. reader' = reader
      BY <1>2, <2>4, EndingActs DEF Ending, ReaderRecord, SL!NoReader
    <3>3. ListingAgrees'
      BY <2>1, <3>1, <3>2, NoReplyNoPage DEF ListingAgrees
    <3>4. QED
      BY <1>2, <3>3, RequestEnding
  <2>5. QED
    BY <2>3, <2>4 DEF ListTypes
<1>3. ASSUME NEW s \in SL!Session, RedisMoves(s) PROVE RequestAgrees' /\ ListingAgrees'
  <2>1. UNCHANGED <<redisReady, streamOf, phase, endedAt, recent, reader, listing>>
    BY <1>3, RedisActs DEF RedisMoves
  <2>2. SL!Ended' = SL!Ended
    BY <2>1 DEF SL!Ended
  <2>3. ListingAgrees'
    BY <2>1, <2>2, ReplyStands DEF ListingAgrees
  <2>4. QED
    BY <1>3, <2>3, RequestRedis
<1>4. CASE SL!Restart
  <2>1. reader'.part = "idle" /\ ~listing'.there
    BY <1>4 DEF SL!Restart, SL!NoReader, SL!NoListing
  <2>2. QED
    BY <2>1, NoReplyNoPage DEF RequestAgrees, InProgress
<1>5. CASE ReaderMoves
  <2>1. /\ UNCHANGED <<redisReady, streamOf, phase, endedAt, recent, savingSessions,
                       index, stored>>
        /\ RequestAgrees'
    BY <1>5, ReaderActs, RequestReads
  <2>2. CASE SL!OpenPage \/ SL!NextPage
    <3>1. InProgress' /\ ~listing'.there
      BY <2>2, PageIsAskedFor DEF ListingAgrees
    <3>2. QED
      BY <2>1, <3>1, NoReplyNoPage DEF InProgress
  <2>3. CASE SL!ReadIndex \/ SL!ReadCopies
    <3>1. InProgress /\ InProgress' /\ listing' = listing
      BY <2>3, ReadingRedis
    <3>2. QED
      BY <2>1, <3>1, NoReplyNoPage DEF InProgress, ListingAgrees
  <2>4. CASE SL!Reply
    BY <2>1, <2>4, ReplyListsOnce
  <2>5. CASE SL!ClosePage
    <3>1. reader'.part = "idle" /\ ~listing'.there
      BY <2>5 DEF SL!ClosePage, SL!NoReader, SL!NoListing
    <3>2. QED
      BY <2>1, <3>1, NoReplyNoPage
  <2>6. QED
    BY <1>5, <2>2, <2>3, <2>4, <2>5 DEF ReaderMoves
<1>6. QED
  BY <1>1, <1>2, <1>3, <1>4, <1>5, ListsMove
\* What a request has found, what it shows of some sessions for which the process
\* has no later one of the stream, and which of them come before one.
Candidates == reader.local \cup Coming
Shown(local, S) ==
  {t \in S : /\ reader.search => t \in Matching
             /\ \A y \in local : streamOf[y] = streamOf[t] => ~After(y, t)}
Before(s, S) == {t \in S : After(t, s)}

\* What the reader has not seen of what was listed on the first page.
Owing == reader.due \ reader.seen

\* A request that is in step.  A session it has found, or would find now, was
\* held when it began, or ended since under a stream id of its own; what is due
\* is shown; whoever is newer than what would be found now would be found too;
\* and the pages before hold no more than what is newer than what is owing.
RequestInStep ==
  /\ \A x \in Candidates \cup Listable : x \in reader.held \/ Since(x)
  /\ \A x, y \in Candidates \cup Listable :
       Since(x) /\ streamOf[x] = streamOf[y] => x = y
  /\ reader.due \cap (Candidates \cup Listable) \subseteq reader.held
  /\ reader.due \cap Candidates \subseteq Shown(reader.local, Candidates)
  /\ \A s \in Listable, t \in Shown(reader.local, Candidates) :
       After(t, s) => t \in Listable
  /\ \A s \in Owing \cap Candidates :
       Cardinality(Before(s, reader.held \cap Shown(reader.local, Candidates)))
         >= (reader.page - 1) * PageSize

\* A reader of pages that is in step: the pages so far hold no more than what is
\* newer than what is owing, in the last reply and in what the next would list.
PagesInStep ==
  /\ reader.due \cap Listable \subseteq Shown(recent, Listable)
  /\ \A s \in Owing \cap Listable :
       Cardinality(Before(s, Shown(recent, Listable))) >= reader.page * PageSize
  /\ \A s \in Owing \cap listing.all :
       Cardinality(Before(s, listing.all)) >= reader.page * PageSize

\* What a reader in step relies on.
InStepAgrees ==
  reader.part # "idle" /\ reader.steady =>
    /\ savingSessions \subseteq recent /\ reader.due \subseteq SL!Ended
    /\ InProgress => RequestInStep
    /\ reader.part = "read" => PagesInStep

\* No session ends before itself, and of two that have ended one is first.
LEMMA EndingsInOrder ==
  ASSUME ListTypes, EndingsAgree, NEW x \in SL!Ended, NEW y \in SL!Ended
  PROVE  /\ ~After(x, x)
         /\ x # y => After(x, y) \/ After(y, x)
         /\ ~(After(x, y) /\ After(y, x))
<1>1. endedAt[x] \in Nat /\ endedAt[y] \in Nat
  BY DEF ListTypes, SL!Ended
<1>2. QED
  BY <1>1 DEF After, EndingsAgree

\* What is found, and what would be, has ended.
LEMMA FoundHaveEnded ==
  ASSUME ListTypes, EndingsAgree
  PROVE  /\ Listable \subseteq SL!Ended /\ SL!Ended \subseteq SL!Session
         /\ InProgress /\ RequestAgrees => Candidates \subseteq SL!Ended
BY DEF EndingsAgree, RequestAgrees, InProgress, Candidates, Coming, Listable, SL!Shared,
       SL!Ended

\* More come before a session where more are shown.
LEMMA MoreBefore ==
  ASSUME NEW S, S \subseteq SL!Session, NEW T, NEW s, Before(s, T) \subseteq Before(s, S),
         NEW n \in Nat, Cardinality(Before(s, T)) >= n
  PROVE  Cardinality(Before(s, S)) >= n
<1>1. Before(s, S) \subseteq SL!Session
  BY DEF Before
<1>2. /\ Cardinality(Before(s, T)) \in Nat /\ Cardinality(Before(s, S)) \in Nat
      /\ Cardinality(Before(s, T)) <= Cardinality(Before(s, S))
  BY <1>1, FewerSessions
<1>3. QED
  BY <1>2

\* The number of sessions on some pages.
LEMMA PagesAreNumbers ==
  ASSUME NEW page \in Nat
  PROVE  page * PageSize \in Nat /\ (page # 0 => (page - 1) * PageSize \in Nat)
BY AfterCallAssumptions DEF SL!ListsAssumption
\* An ending that leaves the pages in step: the session is new to all of them.
LEMMA EndingInStep ==
  ASSUME ListTypes, EndingsAgree, RequestAgrees, ListingAgrees, InStepAgrees,
         NEW s \in SL!Session, Ending(s)
  PROVE  InStepAgrees'
<1> SUFFICES ASSUME reader'.part # "idle", reader'.steady
             PROVE  /\ savingSessions' \subseteq recent' /\ reader'.due \subseteq SL!Ended'
                    /\ InProgress' => RequestInStep'
                    /\ reader'.part = "read" => PagesInStep'
  BY DEF InStepAgrees
<1>1. reader \in ReaderRecord
  <2>1. reader = SL!NoReader => reader' = SL!NoReader
    BY EndingActs DEF Ending, ReaderRecord, SL!NoReader
  <2>2. QED
    BY <2>1 DEF ListTypes, SL!NoReader
<1>2. /\ reader'.part = reader.part /\ reader'.page = reader.page
      /\ reader'.local = reader.local /\ reader'.ids = reader.ids
      /\ reader'.copies = reader.copies /\ reader'.held = reader.held
      /\ reader'.due = reader.due /\ reader'.seen = reader.seen
      /\ reader'.search = reader.search
      /\ reader.steady /\ SL!InStep(s)
  BY <1>1, EndingLeavesReader
<1>3. /\ s \notin SL!Ended /\ SL!Ended \subseteq SL!Ended'
      /\ \A x, y \in SL!Ended : After(x, y)' <=> After(x, y)
      /\ \A x \in SL!Ended : After(s, x)' /\ ~After(x, s)'
      /\ recent' \subseteq recent \cup {s} /\ s \in recent'
      /\ savingSessions' \subseteq savingSessions \cup {s}
      /\ SL!Shared' = SL!Shared
      /\ UNCHANGED <<redisReady, streamOf, index, stored, listing>>
  BY OrderStays
<1>4. /\ \A t \in SL!Ended : streamOf[t] # streamOf[s]
      /\ recent \ recent' \subseteq SL!Shared
  BY <1>2 DEF SL!InStep
<1>5. /\ savingSessions \subseteq recent /\ reader.due \subseteq SL!Ended
      /\ InProgress => RequestInStep
      /\ reader.part = "read" => PagesInStep
  BY <1>1, <1>2 DEF InStepAgrees, ReaderRecord
<1>6. /\ Listable \subseteq SL!Ended /\ SL!Ended \subseteq SL!Session
      /\ InProgress => Candidates \subseteq SL!Ended
  BY FoundHaveEnded
<1>7. Listable' = Listable \cup {s}
  BY <1>3, <1>4 DEF Listable
<1>8. savingSessions' \subseteq recent'
  <2>1. savingSessions \cap SL!Shared = {}
    <3> SUFFICES ASSUME NEW x \in savingSessions, x \in stored PROVE FALSE
      BY DEF SL!Shared
    <3>1. After(x, x) /\ x \in SL!Ended
      BY DEF EndingsAgree
    <3>2. QED
      BY <3>1, EndingsInOrder
  <2>2. QED
    BY <1>3, <1>4, <1>5, <2>1
<1>9. reader'.due \subseteq SL!Ended'
  BY <1>2, <1>3, <1>5
<1>10. CASE InProgress
  <2>1. /\ RequestInStep /\ Candidates \subseteq SL!Ended
        /\ reader.local \subseteq SL!Ended /\ reader.held \subseteq SL!Ended
    BY <1>5, <1>6, <1>10 DEF RequestAgrees
  <2>2. Candidates' = Candidates
    BY <1>2, <1>3 DEF Candidates, Coming
  <2>3. /\ \A x \in SL!Ended : Since(x)' <=> Since(x)
        /\ Since(s)'
    BY <1>2, <1>3, <2>1 DEF Since
  <2> DEFINE found == Candidates
             shown == Shown(reader.local, found)
  <2>4. Shown(reader.local, Candidates)' = shown
    <3>1. \A x \in found, y \in reader.local : After(y, x)' <=> After(y, x)
      BY <1>3, <2>1
    <3>2. QED
      BY <1>2, <1>3, <2>2, <3>1 DEF Shown
  <2>5. \A x \in Candidates' \cup Listable' : x \in reader'.held \/ Since(x)'
    BY <1>2, <1>6, <1>7, <2>1, <2>2, <2>3 DEF RequestInStep
  <2>6. \A x, y \in Candidates' \cup Listable' :
          Since(x)' /\ streamOf'[x] = streamOf'[y] => x = y
    BY <1>3, <1>4, <1>6, <1>7, <2>1, <2>2, <2>3 DEF RequestInStep
  <2>7. reader'.due \cap (Candidates' \cup Listable') \subseteq reader'.held
    BY <1>2, <1>3, <1>5, <1>7, <2>1, <2>2 DEF RequestInStep
  <2>8. reader'.due \cap Candidates' \subseteq Shown(reader.local, Candidates)'
    BY <1>2, <2>1, <2>2, <2>4 DEF RequestInStep
  <2>9. \A x \in Listable', t \in Shown(reader.local, Candidates)' :
          After(t, x)' => t \in Listable'
    <3> SUFFICES ASSUME NEW x \in Listable', NEW t \in shown, After(t, x)'
                 PROVE  t \in Listable'
      BY <2>4
    <3>1. t \in SL!Ended
      BY <2>1 DEF Shown
    <3>2. x # s
      BY <1>3, <3>1
    <3>3. x \in Listable /\ After(t, x)
      BY <1>3, <1>6, <1>7, <3>1, <3>2
    <3>4. QED
      BY <1>7, <2>1, <3>3 DEF RequestInStep
  <2>10. \A x \in Owing' \cap Candidates' :
          Cardinality(Before(x, reader.held \cap Shown(reader.local, Candidates)))'
            >= (reader'.page - 1) * PageSize
    <3> SUFFICES ASSUME NEW x \in Owing \cap Candidates
                 PROVE  Cardinality(Before(x, reader.held \cap Shown(reader.local, Candidates)))'
                          >= (reader.page - 1) * PageSize
      BY <1>2, <2>2 DEF Owing
    <3>1. Before(x, reader.held \cap Shown(reader.local, Candidates))'
            = Before(x, reader.held \cap shown)
      <4>1. \A t \in shown : After(t, x)' <=> After(t, x)
        BY <1>3, <2>1 DEF Shown
      <4>2. QED
        BY <1>2, <2>4, <4>1 DEF Before
    <3>2. QED
      BY <2>1, <3>1 DEF RequestInStep
  <2>11. RequestInStep'
    BY <2>5, <2>6, <2>7, <2>8, <2>9, <2>10 DEF RequestInStep
  <2>12. QED
    BY <1>2, <1>8, <1>9, <1>10, <2>11 DEF InProgress
<1>11. CASE reader.part = "read"
  <2>1. /\ PagesInStep /\ listing.all \subseteq SL!Ended
    BY <1>5, <1>11 DEF ListingAgrees
  <2>2. Owing' = Owing
    BY <1>2 DEF Owing
  <2>3. recent \subseteq SL!Ended
    BY DEF EndingsAgree
  <2>4. Shown(recent, Listable) \subseteq Shown(recent, Listable)'
    <3> SUFFICES ASSUME NEW t \in Shown(recent, Listable)
                 PROVE  t \in Shown(recent, Listable)'
      OBVIOUS
    <3>1. t \in Listable /\ t \in SL!Ended /\ (reader'.search => t \in Matching)
      BY <1>2, <1>6 DEF Shown
    <3>2. ASSUME NEW y \in recent', streamOf'[y] = streamOf'[t] PROVE ~After(y, t)'
      <4>1. y \in recent
        BY <1>3, <1>4, <3>1, <3>2
      <4>2. QED
        BY <1>3, <2>3, <3>1, <3>2, <4>1 DEF Shown
    <3>3. QED
      BY <1>7, <3>1, <3>2 DEF Shown
  <2>5. reader'.due \cap Listable' \subseteq Shown(recent, Listable)'
    BY <1>2, <1>3, <1>5, <1>7, <2>1, <2>4 DEF PagesInStep
  <2>6. ASSUME NEW x \in Owing' \cap Listable'
        PROVE  Cardinality(Before(x, Shown(recent, Listable)))' >= reader'.page * PageSize
    <3>1. x \in Owing \cap Listable
      BY <1>3, <1>5, <1>7, <2>2 DEF Owing
    <3>2. Before(x, Shown(recent, Listable)) \subseteq Before(x, Shown(recent, Listable))'
      <4> SUFFICES ASSUME NEW t \in Shown(recent, Listable), After(t, x)
                   PROVE  After(t, x)'
        BY <2>4 DEF Before
      <4>1. t \in SL!Ended /\ x \in SL!Ended
        BY <1>6, <3>1 DEF Shown
      <4>2. QED
        BY <1>3, <4>1
    <3>3. Before(x, Shown(recent, Listable))' \subseteq SL!Session
      BY <1>6, <1>7 DEF Before, Shown
    <3>4. /\ Cardinality(Before(x, Shown(recent, Listable))) \in Nat
          /\ Cardinality(Before(x, Shown(recent, Listable))') \in Nat
          /\ Cardinality(Before(x, Shown(recent, Listable)))
               <= Cardinality(Before(x, Shown(recent, Listable))')
      BY <3>2, <3>3, FewerSessions
    <3>5. reader.page * PageSize \in Nat
      BY <1>1, PagesAreNumbers DEF ReaderRecord
    <3>6. QED
      BY <1>2, <2>1, <3>1, <3>4, <3>5 DEF PagesInStep
  <2>7. ASSUME NEW x \in Owing' \cap listing'.all
        PROVE  Cardinality(Before(x, listing.all))' >= reader'.page * PageSize
    <3>1. Before(x, listing.all)' = Before(x, listing.all)
      BY <1>3, <2>1, <2>7 DEF Before
    <3>2. QED
      BY <1>2, <1>3, <2>1, <2>2, <3>1 DEF PagesInStep
  <2>8. PagesInStep'
    BY <2>5, <2>6, <2>7 DEF PagesInStep
  <2>9. QED
    BY <1>2, <1>8, <1>9, <1>11, <2>8 DEF InProgress
<1>12. QED
  BY <1>1, <1>2, <1>10, <1>11 DEF ReaderRecord, InProgress
\* What Redis loses is no longer shown, or older than all that is.
LEMMA RedisInStep ==
  ASSUME ListTypes, EndingsAgree, RequestAgrees, ListingAgrees, InStepAgrees,
         NEW s \in SL!Session, RedisMoves(s)
  PROVE  InStepAgrees'
<1>1. /\ UNCHANGED <<redisReady, streamOf, phase, endedAt, recent, reader, listing>>
      /\ savingSessions' \subseteq savingSessions
      /\ stored' \subseteq stored \cup savingSessions
      /\ SL!Shared' \subseteq SL!Shared \cup savingSessions
      /\ \A t \in stored \ stored' : Replaced(t) \/ \A x \in stored' : After(x, t)
      /\ \A t \in SL!Shared \ SL!Shared' :
           Replaced(t) \/ \A x \in SL!Shared' : After(x, t)
      /\ EndingsAgree' /\ ListTypes'
  BY RedisActs DEF RedisMoves
<1> SUFFICES ASSUME reader.part # "idle", reader.steady
             PROVE  /\ savingSessions' \subseteq recent /\ reader.due \subseteq SL!Ended
                    /\ InProgress => RequestInStep'
                    /\ reader.part = "read" => PagesInStep'
  BY <1>1 DEF InStepAgrees, InProgress, SL!Ended
<1>2. reader \in ReaderRecord
  BY DEF ListTypes, SL!NoReader
<1>3. /\ savingSessions \subseteq recent /\ reader.due \subseteq SL!Ended
      /\ InProgress => RequestInStep
      /\ reader.part = "read" => PagesInStep
  BY DEF InStepAgrees
<1>4. /\ \A x, y : After(x, y)' <=> After(x, y)
      /\ \A x : Since(x)' <=> Since(x)
      /\ Owing' = Owing
  BY <1>1 DEF After, Since, Owing
<1>5. /\ Listable \subseteq SL!Ended /\ SL!Ended \subseteq SL!Session
      /\ InProgress => Candidates \subseteq SL!Ended
      /\ recent \subseteq SL!Ended
  BY FoundHaveEnded DEF EndingsAgree
<1>6. Listable' \subseteq Listable /\ recent \subseteq Listable' /\ recent \subseteq Listable
  BY <1>1, <1>3 DEF Listable
<1>7. ASSUME NEW t \in Listable, t \notin Listable', ~Replaced(t), NEW x \in Listable'
      PROVE  After(x, t)
  <2>1. t \in SL!Shared \ SL!Shared' /\ t \notin recent
    BY <1>1, <1>7 DEF Listable
  <2>2. CASE x \in SL!Shared'
    BY <1>1, <1>7, <2>1, <2>2
  <2>3. CASE x \in recent
    <3>1. x \in SL!Ended /\ t \in SL!Ended /\ ~After(t, x) /\ x # t
      BY <1>5, <1>7, <2>1, <2>3 DEF EndingsAgree
    <3>2. QED
      BY <3>1, EndingsInOrder
  <2>4. QED
    BY <1>1, <2>2, <2>3 DEF Listable
<1>8. CASE InProgress
  <2>1. /\ RequestInStep /\ Candidates \subseteq SL!Ended
        /\ reader.held \subseteq SL!Ended
    BY <1>3, <1>5, <1>8 DEF RequestAgrees
  <2>2. /\ Candidates = reader.local \cup Coming /\ Candidates' = reader.local \cup Coming'
        /\ Coming' \subseteq Coming \cup savingSessions
    BY <1>1 DEF Candidates, Coming
  <2>3. Candidates' \cup Listable' \subseteq Candidates \cup Listable
    BY <1>3, <1>6, <2>2
  <2>4. ASSUME NEW t \in Coming, t \notin Coming', ~Replaced(t), NEW x \in Coming'
        PROVE  After(x, t)
    <3>1. CASE reader.part = "index"
      BY <1>1, <2>4, <3>1 DEF Coming
    <3>2. CASE reader.part = "copies"
      BY <1>1, <2>4, <3>2 DEF Coming
    <3>3. CASE reader.part = "merge"
      BY <1>1, <2>4, <3>3 DEF Coming
    <3>4. QED
      BY <1>8, <3>1, <3>2, <3>3 DEF InProgress
  <2>5. ASSUME NEW t \in Shown(reader.local, Candidates), Replaced(t) PROVE FALSE
    <3>1. PICK h \in savingSessions : streamOf[h] = streamOf[t] /\ After(h, t)
      BY <2>5 DEF Replaced
    <3>2. h \in recent /\ t \in Candidates
      BY <1>3, <2>5 DEF Shown
    <3>3. h \notin reader.local
      BY <2>5, <3>1 DEF Shown
    <3>4. Since(h)
      BY <1>8, <3>2, <3>3 DEF RequestAgrees
    <3>5. h = t
      BY <1>6, <2>1, <3>1, <3>2, <3>4 DEF RequestInStep
    <3>6. QED
      BY <2>1, <3>1, <3>2, <3>5, EndingsInOrder
  <2>6. ASSUME NEW x \in reader.due, x \in Candidates'
        PROVE  x \in Candidates /\ x \in reader.held
    <3>1. x \in reader.held
      BY <2>1, <2>3, <2>6 DEF RequestInStep
    <3>2. ~Since(x)
      BY <2>1, <3>1, EndingsInOrder DEF Since
    <3>3. x \in recent => x \in reader.local
      BY <1>8, <3>2 DEF RequestAgrees
    <3>4. QED
      BY <1>3, <2>2, <2>6, <3>1, <3>3
  <2>7. \A t \in Candidates \cap Candidates' :
          t \in Shown(reader.local, Candidates)' <=> t \in Shown(reader.local, Candidates)
    BY <1>1, <1>4 DEF Shown
  <2>8. reader.due \cap Candidates' \subseteq Shown(reader.local, Candidates)'
    BY <2>1, <2>6, <2>7 DEF RequestInStep
  <2>9. ASSUME NEW x \in Listable', NEW t \in Shown(reader.local, Candidates)', After(t, x)
        PROVE  t \in Listable'
    <3>1. t \in Candidates'
      BY DEF Shown
    <3>2. CASE t \in Candidates
      <4>1. t \in Shown(reader.local, Candidates)
        BY <2>7, <3>1, <3>2
      <4>2. t \in Listable
        BY <1>6, <2>1, <2>9, <4>1 DEF RequestInStep
      <4>3. x \in SL!Ended /\ t \in SL!Ended
        BY <1>5, <1>6, <4>2
      <4>4. ~After(x, t)
        BY <2>9, <4>3, EndingsInOrder
      <4>5. QED
        BY <1>7, <2>5, <4>1, <4>2, <4>4
    <3>3. CASE t \notin Candidates
      BY <1>3, <1>6, <2>2, <3>1, <3>3
    <3>4. QED
      BY <3>2, <3>3
  <2>10. ASSUME NEW x \in Owing, x \in Candidates'
         PROVE  Cardinality(Before(x, reader.held \cap Shown(reader.local, Candidates)))'
                  >= (reader.page - 1) * PageSize
    <3>1. x \in reader.due /\ x \in Candidates /\ x \in reader.held
      BY <2>6, <2>10 DEF Owing
    <3>2. ASSUME NEW t \in reader.held, t \in Shown(reader.local, Candidates), After(t, x)
          PROVE  t \in Candidates'
      <4>1. SUFFICES ASSUME t \notin Candidates' PROVE FALSE
        OBVIOUS
      <4>2. t \in Coming /\ t \notin Coming' /\ t \notin reader.local
        BY <2>2, <3>2, <4>1 DEF Shown
      <4>3. x \notin reader.local
        BY <1>8, <3>2, <4>2 DEF RequestAgrees
      <4>4. x \in Coming'
        BY <2>2, <2>10, <4>3
      <4>5. After(x, t)
        BY <2>4, <2>5, <3>2, <4>2, <4>4
      <4>6. QED
        BY <2>1, <3>1, <3>2, <4>5, EndingsInOrder
    <3>3. Before(x, reader.held \cap Shown(reader.local, Candidates))
            \subseteq Before(x, reader.held \cap Shown(reader.local, Candidates))'
      <4> SUFFICES ASSUME NEW t \in reader.held, t \in Shown(reader.local, Candidates),
                          After(t, x)
                   PROVE  t \in Shown(reader.local, Candidates)'
        BY <1>1, <1>4 DEF Before
      <4>1. t \in Candidates /\ t \in Candidates'
        BY <3>2 DEF Shown
      <4>2. QED
        BY <2>7, <4>1
    <3>4. Before(x, reader.held \cap Shown(reader.local, Candidates))' \subseteq SL!Session
      BY <1>1, <1>5, <2>1 DEF Before
    <3>5. /\ Cardinality(Before(x, reader.held \cap Shown(reader.local, Candidates))) \in Nat
          /\ Cardinality(Before(x, reader.held \cap Shown(reader.local, Candidates))') \in Nat
          /\ Cardinality(Before(x, reader.held \cap Shown(reader.local, Candidates)))
               <= Cardinality(Before(x, reader.held \cap Shown(reader.local, Candidates))')
      BY <3>3, <3>4, FewerSessions
    <3>6. (reader.page - 1) * PageSize \in Nat
      BY <1>2, PagesAreNumbers DEF ReaderRecord
    <3>7. Cardinality(Before(x, reader.held \cap Shown(reader.local, Candidates)))
            >= (reader.page - 1) * PageSize
      BY <2>1, <2>10, <3>1 DEF RequestInStep
    <3>8. QED
      BY <3>5, <3>6, <3>7
  <2>11. /\ \A x \in Candidates' \cup Listable' : x \in reader.held \/ Since(x)
         /\ \A x, y \in Candidates' \cup Listable' :
              Since(x) /\ streamOf[x] = streamOf[y] => x = y
         /\ reader.due \cap (Candidates' \cup Listable') \subseteq reader.held
    BY <2>1, <2>3 DEF RequestInStep
  <2>12. RequestInStep'
    BY <1>1, <1>4, <2>8, <2>9, <2>10, <2>11 DEF RequestInStep
  <2>13. QED
    BY <1>1, <1>3, <1>8, <2>12 DEF InProgress
<1>9. CASE reader.part = "read"
  <2>1. PagesInStep /\ listing.all \subseteq SL!Ended
    BY <1>3, <1>9 DEF ListingAgrees
  <2>2. \A t \in Listable' :
          t \in Shown(recent, Listable) => t \in Shown(recent, Listable)'
    BY <1>1, <1>4 DEF Shown
  <2>3. ASSUME NEW t \in Shown(recent, Listable), Replaced(t) PROVE FALSE
    BY <1>3, <2>3 DEF Shown, Replaced
  <2>4. reader.due \cap Listable' \subseteq Shown(recent, Listable)'
    BY <1>6, <2>1, <2>2 DEF PagesInStep
  <2>5. ASSUME NEW x \in Owing, x \in Listable'
        PROVE  Cardinality(Before(x, Shown(recent, Listable)))' >= reader.page * PageSize
    <3>1. Before(x, Shown(recent, Listable)) \subseteq Before(x, Shown(recent, Listable))'
      <4> SUFFICES ASSUME NEW t \in Shown(recent, Listable), After(t, x)
                   PROVE  t \in Listable'
        BY <1>4, <2>2 DEF Before
      <4>1. t \in Listable /\ t \in SL!Ended /\ x \in SL!Ended
        BY <1>5, <1>6, <2>5 DEF Shown
      <4>2. ~After(x, t)
        BY <4>1, EndingsInOrder
      <4>3. QED
        BY <1>7, <2>3, <2>5, <4>1, <4>2
    <3>2. Before(x, Shown(recent, Listable))' \subseteq SL!Session
      BY <1>5, <1>6 DEF Before, Shown
    <3>3. /\ Cardinality(Before(x, Shown(recent, Listable))) \in Nat
          /\ Cardinality(Before(x, Shown(recent, Listable))') \in Nat
          /\ Cardinality(Before(x, Shown(recent, Listable)))
               <= Cardinality(Before(x, Shown(recent, Listable))')
      BY <3>1, <3>2, FewerSessions
    <3>4. reader.page * PageSize \in Nat
      BY <1>2, PagesAreNumbers DEF ReaderRecord
    <3>5. QED
      BY <1>6, <2>1, <2>5, <3>3, <3>4 DEF PagesInStep
  <2>6. ASSUME NEW x \in Owing, x \in listing.all
        PROVE  Cardinality(Before(x, listing.all))' >= reader.page * PageSize
    <3>1. Before(x, listing.all)' = Before(x, listing.all)
      BY <1>1, <1>4 DEF Before
    <3>2. QED
      BY <2>1, <2>6, <3>1 DEF PagesInStep
  <2>7. PagesInStep'
    BY <1>1, <1>4, <2>4, <2>5, <2>6 DEF PagesInStep
  <2>8. QED
    BY <1>1, <1>3, <1>9, <2>7 DEF InProgress
<1>10. QED
  BY <1>2, <1>8, <1>9 DEF ReaderRecord, InProgress
\* A page is asked for: what was owing among what would be found is owing still.
LEMMA PageInStep ==
  ASSUME ListTypes, EndingsAgree, RequestAgrees, ListingAgrees, InStepAgrees,
         SL!OpenPage \/ SL!NextPage
  PROVE  InStepAgrees'
<1>1. /\ reader' \in ReaderRecord /\ InProgress'
      /\ UNCHANGED <<redisReady, streamOf, phase, endedAt, recent, savingSessions,
                     index, stored>>
      /\ reader'.local = recent /\ reader'.held = Listable /\ reader'.copies = {}
      /\ Coming' = SL!Shared /\ Listable' = Listable
      /\ \/ /\ reader.part = "idle" /\ listing' = listing
            /\ reader'.page = 1 /\ reader'.due = {}
            /\ reader'.steady = (savingSessions \subseteq recent)
         \/ /\ reader \in ReaderRecord /\ reader.part = "read" /\ ~listing'.there
            /\ reader'.page = reader.page + 1
            /\ \A f \in {"search", "seen", "due", "steady"} : reader'[f] = reader[f]
  BY PageIsAskedFor
<1> SUFFICES ASSUME reader'.steady
             PROVE  /\ savingSessions \subseteq recent /\ reader'.due \subseteq SL!Ended
                    /\ RequestInStep'
  BY <1>1 DEF InStepAgrees, InProgress, SL!Ended
<1>2. /\ Listable \subseteq SL!Ended /\ SL!Ended \subseteq SL!Session
      /\ recent \subseteq Listable
  BY FoundHaveEnded DEF Listable
<1>3. Candidates' = Listable
  BY <1>1 DEF Candidates, Listable
<1>4. \A x, y : After(x, y)' <=> After(x, y)
  BY <1>1 DEF After
<1>5. \A x \in Listable : ~Since(x)'
  BY <1>1, <1>2, <1>4, EndingsInOrder DEF Since
<1>6. Shown(reader.local, Candidates)' \subseteq Listable
  BY <1>3 DEF Shown
<1>7. CASE reader'.page = 1 /\ reader'.due = {} /\ reader'.steady = (savingSessions \subseteq recent)
  <2>1. savingSessions \subseteq recent
    BY <1>7
  <2>2. Owing' = {}
    BY <1>7 DEF Owing
  <2>3. RequestInStep'
    BY <1>1, <1>3, <1>5, <1>6, <1>7, <2>2 DEF RequestInStep
  <2>4. QED
    BY <1>7, <2>1, <2>3
<1>8. CASE /\ reader \in ReaderRecord /\ reader.part = "read"
           /\ reader'.page = reader.page + 1
           /\ \A f \in {"search", "seen", "due", "steady"} : reader'[f] = reader[f]
  <2>1. /\ reader'.search = reader.search /\ reader'.seen = reader.seen
        /\ reader'.due = reader.due /\ reader'.steady = reader.steady
    BY <1>8
  <2>2. /\ savingSessions \subseteq recent /\ reader.due \subseteq SL!Ended
        /\ PagesInStep
    BY <1>8, <2>1 DEF InStepAgrees
  <2>3. Shown(reader.local, Candidates)' = Shown(recent, Listable)
    BY <1>1, <1>3, <1>4, <2>1 DEF Shown
  <2>4. Owing' = Owing
    BY <2>1 DEF Owing
  <2>5. (reader.held \cap Shown(reader.local, Candidates))' = Shown(recent, Listable)
    BY <1>1, <1>6, <2>3
  <2>6. ASSUME NEW x \in Owing \cap Listable
        PROVE  Cardinality(Before(x, reader.held \cap Shown(reader.local, Candidates)))'
                 >= (reader'.page - 1) * PageSize
    <3>1. Before(x, reader.held \cap Shown(reader.local, Candidates))'
            = Before(x, Shown(recent, Listable))
      BY <1>4, <2>5 DEF Before
    <3>2. reader'.page - 1 = reader.page
      BY <1>8 DEF ReaderRecord
    <3>3. QED
      BY <2>2, <3>1, <3>2 DEF PagesInStep
  <2>7. reader'.due \cap Candidates' \subseteq Shown(reader.local, Candidates)'
    BY <1>3, <2>1, <2>2, <2>3 DEF PagesInStep
  <2>8. RequestInStep'
    BY <1>1, <1>3, <1>5, <1>6, <2>4, <2>6, <2>7 DEF RequestInStep
  <2>9. QED
    BY <2>1, <2>2, <2>8
<1>9. QED
  BY <1>1, <1>7, <1>8

\* What has been found stays while Redis is read.
LEMMA ReadingInStep ==
  ASSUME ListTypes, EndingsAgree, RequestAgrees, ListingAgrees, InStepAgrees,
         SL!ReadIndex \/ SL!ReadCopies
  PROVE  InStepAgrees'
<1>1. /\ InProgress /\ InProgress' /\ reader \in ReaderRecord
      /\ \A f \in {"page", "search", "local", "seen", "due"} : reader'[f] = reader[f]
      /\ reader'.steady => reader.steady /\ Coming' = Coming /\ reader'.held = reader.held
  BY ReadingRedis DEF HeldWithout
<1> SUFFICES ASSUME reader'.steady PROVE InStepAgrees'
  BY DEF InStepAgrees
<1>2. /\ reader'.page = reader.page /\ reader'.search = reader.search
      /\ reader'.local = reader.local /\ reader'.held = reader.held
      /\ reader'.seen = reader.seen /\ reader'.due = reader.due
      /\ reader'.steady = reader.steady /\ Coming' = Coming
  BY <1>1 DEF ReaderRecord
<1>3. UNCHANGED <<redisReady, streamOf, phase, endedAt, recent, savingSessions,
                  index, stored>>
  <2>1. ReaderMoves
    BY DEF ReaderMoves
  <2>2. QED
    BY <2>1, ReaderActs
<1>4. /\ Candidates' = Candidates /\ Listable' = Listable /\ Owing' = Owing
      /\ SL!Ended' = SL!Ended
  BY <1>1, <1>2, <1>3 DEF Candidates, Listable, Owing, SL!Shared, SL!Ended
<1>5. /\ \A x, y : After(x, y)' <=> After(x, y)
      /\ \A x : Since(x)' <=> Since(x)
  BY <1>2, <1>3 DEF After, Since
<1>6. Shown(reader.local, Candidates)' = Shown(reader.local, Candidates)
  BY <1>2, <1>3, <1>4, <1>5 DEF Shown
<1>7. \A x : Before(x, reader.held \cap Shown(reader.local, Candidates))'
             = Before(x, reader.held \cap Shown(reader.local, Candidates))
  BY <1>2, <1>5, <1>6 DEF Before
<1>8. ASSUME RequestInStep
      PROVE  RequestInStep'
  <2>1. (Candidates \cup Listable)' = Candidates \cup Listable
    BY <1>4
  <2>2. \A x \in (Candidates \cup Listable)' : x \in reader'.held \/ Since(x)'
    BY <1>2, <1>5, <1>8, <2>1 DEF RequestInStep
  <2>3. \A x, y \in (Candidates \cup Listable)' :
          Since(x)' /\ streamOf'[x] = streamOf'[y] => x = y
    BY <1>3, <1>5, <1>8, <2>1 DEF RequestInStep
  <2>4. /\ reader'.due \cap (Candidates \cup Listable)' \subseteq reader'.held
        /\ reader'.due \cap Candidates' \subseteq Shown(reader.local, Candidates)'
    BY <1>2, <1>4, <1>6, <1>8, <2>1 DEF RequestInStep
  <2>5. \A s \in Listable', t \in Shown(reader.local, Candidates)' :
          After(t, s)' => t \in Listable'
    BY <1>4, <1>5, <1>6, <1>8 DEF RequestInStep
  <2>6. \A s \in (Owing \cap Candidates)' :
          Cardinality(Before(s, reader.held \cap Shown(reader.local, Candidates))')
            >= (reader'.page - 1) * PageSize
    <3>1. SUFFICES ASSUME NEW s \in Owing \cap Candidates
                   PROVE  Cardinality(Before(s, reader.held
                                        \cap Shown(reader.local, Candidates))')
                            >= (reader'.page - 1) * PageSize
      BY <1>4
    <3>2. Cardinality(Before(s, reader.held \cap Shown(reader.local, Candidates)))
            >= (reader.page - 1) * PageSize
      BY <1>8 DEF RequestInStep
    <3>3. QED
      BY <1>2, <1>7, <3>2
  <2>7. QED
    BY <2>2, <2>3, <2>4, <2>5, <2>6 DEF RequestInStep
<1>9. QED
  BY <1>1, <1>2, <1>3, <1>4, <1>8 DEF InStepAgrees, InProgress
\* A session that is on no page so far has the pages' sessions before it.
LEMMA PagesComeBefore ==
  ASSUME ListTypes, EndingsAgree, NEW all, all \subseteq SL!Ended, NEW page \in Nat \ {0},
         NEW s \in all, s \notin SL!PageItems(all, page),
         Cardinality(Before(s, all)) >= (page - 1) * PageSize
  PROVE  Cardinality(Before(s, all)) >= page * PageSize
<1> DEFINE before == Before(s, all)
<1>1. all \subseteq SL!Session /\ before \subseteq all /\ s \notin before
  BY EndingsInOrder DEF Before, SL!Ended
<1>2. {t \in all : endedAt[t] >= endedAt[s]} = before \cup {s}
  <2> SUFFICES ASSUME NEW t \in all
               PROVE  endedAt[t] >= endedAt[s] <=> After(t, s) \/ t = s
    BY DEF Before
  <2>1. t \in SL!Ended /\ s \in SL!Ended /\ endedAt[t] \in Nat /\ endedAt[s] \in Nat
    BY DEF SL!Ended, ListTypes
  <2>2. QED
    BY <2>1 DEF After, EndingsAgree
<1>3. IsFiniteSet(before) /\ Cardinality(before) \in Nat
  BY <1>1, FewerSessions
<1>4. Cardinality(before \cup {s}) = Cardinality(before) + 1
  BY <1>1, <1>3, FS_AddElement
<1>5. SL!Place(endedAt, all, s) = Cardinality(before) + 1
  BY <1>2, <1>4, SameCount DEF SL!Place
<1>6. page * PageSize \in Nat /\ (page - 1) * PageSize \in Nat
  BY PagesAreNumbers
<1>7. s \notin SL!Newest(endedAt, all, (page - 1) * PageSize)
  BY <1>3, <1>5, <1>6 DEF SL!Newest
<1>8. s \notin SL!Newest(endedAt, all, page * PageSize)
  BY <1>7 DEF SL!PageItems
<1>9. ~(Cardinality(before) + 1 <= page * PageSize)
  BY <1>5, <1>8 DEF SL!Newest
<1>10. QED
  BY <1>3, <1>6, <1>9

\* The pages hold the list.
LEMMA PagesHoldTheList ==
  ASSUME NEW all, all \subseteq SL!Session, NEW page \in Nat, page >= SL!TotalPages(all)
  PROVE  Cardinality(all) <= page * PageSize
<1>1. PICK n \in Nat : n = Cardinality(all)
  BY FewerSessions
<1>2. PICK size \in Nat \ {0} : size = PageSize
  BY AfterCallAssumptions DEF SL!ListsAssumption
<1>3. CASE all = {}
  BY <1>3, FS_EmptySet, PagesAreNumbers
<1>4. CASE all # {}
  <2>1. page >= (n + size - 1) \div size
    BY <1>1, <1>2, <1>4, SameCount DEF SL!TotalPages
  <2>2. PICK pages \in Int : pages = (n + size - 1) \div size
    OBVIOUS
  <2>3. PICK rest \in 0..(size - 1) : rest = (n + size - 1) % size
    OBVIOUS
  <2>4. n + size - 1 = pages * size + rest
    BY <2>2, <2>3
  <2>5. pages * size <= page * size /\ page * size \in Nat /\ pages * size \in Int
    BY <2>1, <2>2
  <2>6. n <= page * size
    BY <2>3, <2>4, <2>5
  <2>7. QED
    BY <1>1, <1>2, <2>6
<1>5. QED
  BY <1>3, <1>4

\* A reader in step has seen, with the last page, whatever was due and is listed.
LEMMA LastPageIsTheEnd ==
  ASSUME ListTypes, EndingsAgree, ListingAgrees, InStepAgrees
  PROVE  SL!PagesMissNothing
<1> SUFFICES ASSUME reader.part = "read", reader.page >= listing.pages, reader.steady,
                    NEW s \in Owing \cap listing.all
             PROVE  FALSE
  BY DEF SL!PagesMissNothing, Owing
<1>1. /\ reader \in ReaderRecord /\ PagesInStep
      /\ listing.pages = SL!TotalPages(listing.all) /\ listing.all \subseteq SL!Ended
  BY DEF ListTypes, SL!NoReader, InStepAgrees, ListingAgrees
<1>2. reader.page \in Nat /\ listing.all \subseteq SL!Session
  BY <1>1 DEF ReaderRecord, SL!Ended
<1>3. Cardinality(listing.all) <= reader.page * PageSize
  BY <1>1, <1>2, PagesHoldTheList
<1>4. Cardinality(Before(s, listing.all)) >= reader.page * PageSize
  BY <1>1 DEF PagesInStep
<1> DEFINE before == Before(s, listing.all)
<1>5. before \subseteq listing.all /\ s \notin before
  BY <1>1, EndingsInOrder DEF Before
<1>6. before \cup {s} \subseteq listing.all
  BY <1>5
<1>7. /\ IsFiniteSet(before) /\ Cardinality(before) \in Nat
      /\ Cardinality(before \cup {s}) <= Cardinality(listing.all)
      /\ Cardinality(listing.all) \in Nat
  BY <1>2, <1>5, <1>6, FewerSessions
<1>8. Cardinality(before \cup {s}) = Cardinality(before) + 1
  BY <1>5, <1>7, FS_AddElement
<1>9. reader.page * PageSize \in Nat
  BY <1>2, PagesAreNumbers
<1>10. QED
  BY <1>3, <1>4, <1>7, <1>8, <1>9
\* The merge of a request in step is what it shows of what it has found.
LEMMA MergeIsShown ==
  ASSUME ListTypes, EndingsAgree, RequestAgrees, RequestInStep, reader.part = "merge"
  PROVE  Searched(SL!Merge(reader.local, reader.copies)) = Shown(reader.local, Candidates)
<1>1. /\ InProgress /\ Candidates = reader.local \cup reader.copies
      /\ Candidates \subseteq SL!Ended
  BY FoundHaveEnded DEF InProgress, Candidates, Coming
<1>2. \A t \in SL!Ended : endedAt[t] \in Nat
  BY DEF SL!Ended, ListTypes
<1>3. ASSUME NEW t \in Candidates
      PROVE  t \in SL!Merge(reader.local, reader.copies)
               <=> \A y \in reader.local : streamOf[y] = streamOf[t] => ~After(y, t)
  <2>1. CASE t \in reader.local
    <3>1. \A y \in reader.local : endedAt[y] <= endedAt[t] <=> ~After(y, t)
      BY <1>1, <1>2, <2>1 DEF After
    <3>2. t \in SL!LastOfStream(reader.local)
            <=> \A y \in reader.local : streamOf[y] = streamOf[t] => ~After(y, t)
      BY <2>1, <3>1 DEF SL!LastOfStream
    <3>3. QED
      BY <2>1, <3>2 DEF SL!Merge
  <2>2. CASE t \notin reader.local
    <3>1. t \in reader.copies
      BY <1>1, <2>2
    <3>2. ASSUME NEW y \in reader.local, streamOf[y] = streamOf[t], ~After(y, t)
          PROVE  FALSE
      <4>1. After(t, y)
        BY <1>1, <2>2, <3>2, EndingsInOrder
      <4>2. t \notin reader.held
        BY <1>1, <2>2, <4>1 DEF RequestAgrees
      <4>3. Since(t)
        BY <4>2 DEF RequestInStep
      <4>4. QED
        BY <1>1, <2>2, <3>2, <4>3 DEF RequestInStep
    <3>3. t \in SL!Merge(reader.local, reader.copies)
            <=> \A y \in reader.local : streamOf[y] # streamOf[t]
      BY <2>2, <3>1 DEF SL!Merge, SL!LastOfStream
    <3>4. QED
      BY <3>2, <3>3
  <2>3. QED
    BY <2>1, <2>2
<1>4. SL!Merge(reader.local, reader.copies) \subseteq Candidates
  BY <1>1, MergedAreFound
<1>5. CASE reader.search
  BY <1>3, <1>4, <1>5 DEF Searched, Shown
<1>6. CASE ~reader.search
  BY <1>3, <1>4, <1>6 DEF Searched, Shown
<1>7. QED
  BY <1>5, <1>6

\* A reply: its page takes what comes next, and what it owes still has all of the
\* pages before it.
LEMMA ReplyInStep ==
  ASSUME ListTypes, EndingsAgree, RequestAgrees, ListingAgrees, InStepAgrees, SL!Reply
  PROVE  InStepAgrees'
<1> DEFINE all == Searched(SL!Merge(reader.local, reader.copies))
<1>1. /\ reader \in ReaderRecord /\ reader.part = "merge" /\ reader'.part = "read"
      /\ reader'.page = reader.page /\ reader'.search = reader.search
      /\ reader'.steady = reader.steady
      /\ reader'.seen = reader.seen \cup SL!PageItems(all, reader.page)
      /\ reader'.due = (IF reader.page = 1 THEN all ELSE reader.due)
      /\ listing'.all = all
  BY ReplyFields
<1>2. UNCHANGED <<redisReady, streamOf, phase, endedAt, recent, savingSessions,
                  index, stored>>
  <2>1. ReaderMoves
    BY DEF ReaderMoves
  <2>2. QED
    BY <2>1, ReaderActs
<1>3. Listable' = Listable /\ SL!Ended' = SL!Ended
  BY <1>2 DEF Listable, SL!Shared, SL!Ended
<1>4. \A x, y : After(x, y)' <=> After(x, y)
  BY <1>2 DEF After
<1> SUFFICES ASSUME reader.steady
             PROVE  /\ savingSessions \subseteq recent /\ reader'.due \subseteq SL!Ended
                    /\ PagesInStep'
  BY <1>1, <1>2, <1>3 DEF InStepAgrees, InProgress
<1>5. InProgress /\ Candidates = reader.local \cup reader.copies
  BY <1>1 DEF InProgress, Candidates, Coming
<1>6. /\ savingSessions \subseteq recent /\ reader.due \subseteq SL!Ended
      /\ RequestInStep
  BY <1>1, <1>5 DEF InStepAgrees
<1>7. all = Shown(reader.local, Candidates)
  BY <1>1, <1>6, MergeIsShown
<1>8. /\ Listable \subseteq SL!Ended /\ SL!Ended \subseteq SL!Session
      /\ Candidates \subseteq SL!Ended
  BY <1>5, FoundHaveEnded
<1>9. all \subseteq Candidates /\ all \subseteq SL!Ended
  BY <1>7, <1>8 DEF Shown
<1>10. reader'.due \subseteq SL!Ended
  BY <1>1, <1>6, <1>9
<1>11. reader'.due \cap Listable \subseteq all
  <2> SUFFICES ASSUME NEW x \in reader.due, x \in Listable PROVE x \in all
    BY <1>1
  <2>1. x \in reader.held
    BY <1>6 DEF RequestInStep
  <2>2. ~Since(x)
    BY <1>8, <2>1, EndingsInOrder DEF Since
  <2>3. x \in recent => x \in reader.local
    BY <1>5, <2>2 DEF RequestAgrees
  <2>4. x \in SL!Shared => x \in Candidates
    BY <1>5, <2>1 DEF RequestAgrees, Candidates
  <2>5. x \in Candidates
    BY <2>3, <2>4 DEF Listable, Candidates
  <2>6. QED
    BY <1>6, <1>7, <2>5 DEF RequestInStep
<1>12. ASSUME NEW t \in all, t \in Listable PROVE t \in Shown(recent, Listable)'
  <2>1. ASSUME NEW y \in recent, streamOf[y] = streamOf[t] PROVE ~After(y, t)
    <3>1. CASE y \in reader.local
      BY <1>7, <2>1, <3>1 DEF Shown
    <3>2. CASE y \notin reader.local
      <4>1. Since(y) /\ y \in Listable
        BY <1>5, <3>2 DEF RequestAgrees, Listable
      <4>2. y = t
        BY <1>6, <1>12, <2>1, <4>1 DEF RequestInStep
      <4>3. QED
        BY <1>8, <1>12, <4>2, EndingsInOrder
    <3>3. QED
      BY <3>1, <3>2
  <2>2. reader.search => t \in Matching
    BY <1>7 DEF Shown
  <2>3. QED
    BY <1>1, <1>2, <1>3, <1>4, <1>12, <2>1, <2>2 DEF Shown
<1>13. ASSUME NEW x \in Owing' \cap all
       PROVE  Cardinality(Before(x, all)) >= reader.page * PageSize
  <2>1. x \notin SL!PageItems(all, reader.page)
    BY <1>1 DEF Owing
  <2>2. reader.page \in Nat \ {0} /\ (reader.page - 1) * PageSize \in Nat
    BY <1>1, PagesAreNumbers DEF ReaderRecord
  <2>3. Cardinality(Before(x, all)) >= (reader.page - 1) * PageSize
    <3>1. CASE reader.page = 1
      <4>1. (reader.page - 1) * PageSize = 0
        BY <3>1, AfterCallAssumptions DEF SL!ListsAssumption
      <4>2. Before(x, all) \subseteq SL!Session
        BY <1>8, <1>9 DEF Before
      <4>3. Cardinality(Before(x, all)) \in Nat
        BY <4>2, FewerSessions
      <4>4. QED
        BY <4>1, <4>3
    <3>2. CASE reader.page # 1
      <4>1. x \in Owing \cap Candidates
        BY <1>1, <1>9, <3>2 DEF Owing
      <4>2. Cardinality(Before(x, reader.held \cap all)) >= (reader.page - 1) * PageSize
        BY <1>6, <1>7, <4>1 DEF RequestInStep
      <4>3. all \subseteq SL!Session
        BY <1>8, <1>9
      <4>4. Before(x, reader.held \cap all) \subseteq Before(x, all)
        BY DEF Before
      <4>5. QED
        BY <2>2, <4>2, <4>3, <4>4, MoreBefore
    <3>3. QED
      BY <3>1, <3>2
  <2>4. QED
    BY <1>9, <2>1, <2>2, <2>3, PagesComeBefore
<1>14. ASSUME NEW x \in Owing', x \in Listable
       PROVE  Cardinality(Before(x, Shown(recent, Listable)))' >= reader.page * PageSize
  <2>1. x \in Owing' \cap all
    BY <1>11, <1>14 DEF Owing
  <2>2. Before(x, all) \subseteq Before(x, Shown(recent, Listable))'
    <3> SUFFICES ASSUME NEW t \in all, After(t, x)
                 PROVE  t \in Shown(recent, Listable)'
      BY <1>4 DEF Before
    <3>1. t \in Listable
      BY <1>6, <1>7, <1>14 DEF RequestInStep
    <3>2. QED
      BY <1>12, <3>1
  <2>3. Before(x, Shown(recent, Listable))' \subseteq SL!Session
    BY <1>3, <1>8 DEF Before, Shown
  <2>4. /\ Cardinality(Before(x, all)) \in Nat
        /\ Cardinality(Before(x, Shown(recent, Listable))') \in Nat
        /\ Cardinality(Before(x, all)) <= Cardinality(Before(x, Shown(recent, Listable))')
    BY <2>2, <2>3, FewerSessions
  <2>5. reader.page * PageSize \in Nat
    BY <1>1, PagesAreNumbers DEF ReaderRecord
  <2>6. Cardinality(Before(x, all)) >= reader.page * PageSize
    BY <1>13, <2>1
  <2>7. QED
    BY <2>4, <2>5, <2>6
<1>15. ASSUME NEW x \in Owing' \cap listing'.all
       PROVE  Cardinality(Before(x, listing.all))' >= reader.page * PageSize
  <2>1. Before(x, listing.all)' = Before(x, all)
    BY <1>1, <1>4 DEF Before
  <2>2. QED
    BY <1>1, <1>13, <2>1
<1>16. reader'.due \cap Listable \subseteq Shown(recent, Listable)'
  BY <1>11, <1>12
<1>17. PagesInStep'
  BY <1>1, <1>3, <1>14, <1>15, <1>16 DEF PagesInStep
<1>18. QED
  BY <1>6, <1>10, <1>17

\* The invariant of the lists.
ListsInv == ListTypes /\ EndingsAgree /\ RequestAgrees /\ ListingAgrees /\ InStepAgrees

\* Every step of the lists keeps it.
LEMMA ListsStep == ListsInv /\ [MCNext]_allVars => ListsInv'
<1> SUFFICES ASSUME ListsInv, [MCNext]_allVars PROVE ListsInv'
  OBVIOUS
<1> USE DEF ListsInv
<1>1. [SL!Next]_listVars
  BY OnePartActs DEF listVars
<1>2. /\ \/ UNCHANGED listsAndReader
         \/ \E s \in SL!Session : Ending(s)
         \/ \E s \in SL!Session : RedisMoves(s)
         \/ SL!Restart
         \/ ReaderMoves
      /\ ListTypes' /\ EndingsAgree' /\ RequestAgrees' /\ ListingAgrees'
  BY <1>1, ListsMove, ListingStep
<1>3. CASE UNCHANGED listsAndReader
  <2>1. UNCHANGED <<redisReady, streamOf, endedAt, recent, savingSessions, index, stored,
                    reader, listing>>
    BY <1>3 DEF listsAndReader
  <2>2. InStepAgrees'
    BY <2>1 DEF InStepAgrees, RequestInStep, PagesInStep, InProgress, Candidates, Coming,
         Listable, Shown, Before, Since, After, Owing, SL!Shared, SL!Ended
  <2>3. QED
    BY <1>2, <2>2
<1>4. CASE SL!Restart
  <2>1. reader'.part = "idle"
    BY <1>4 DEF SL!Restart, SL!NoReader
  <2>2. QED
    BY <1>2, <2>1 DEF InStepAgrees
<1>5. CASE ReaderMoves
  <2>1. CASE SL!ClosePage
    <3>1. reader'.part = "idle"
      BY <2>1 DEF SL!ClosePage, SL!NoReader
    <3>2. QED
      BY <1>2, <3>1 DEF InStepAgrees
  <2>2. QED
    BY <1>2, <1>5, <2>1, PageInStep, ReadingInStep, ReplyInStep DEF ReaderMoves
<1>6. QED
  BY <1>2, <1>3, <1>4, <1>5, EndingInStep, RedisInStep

\* The lists begin empty.
LEMMA ListsInit == MCInit => ListsInv
<1> SUFFICES ASSUME SL!Init PROVE ListsInv
  BY DEF MCInit
<1>1. /\ redisReady \in BOOLEAN /\ streamOf \in StreamIds
      /\ phase = [s \in SL!Session |-> "new"] /\ endedAt = [s \in SL!Session |-> 0]
      /\ recent = {} /\ savingSessions = {} /\ index = {} /\ stored = {}
      /\ reader = SL!NoReader /\ listing = SL!NoListing
  BY DEF SL!Init
<1>2. streamOf \in [SL!Session -> Nat]
  BY <1>1, AfterCallAssumptions DEF SL!ListsAssumption, SL!Session
<1>3. SL!Ended = {}
  BY <1>1 DEF SL!Ended
<1>4. reader.part = "idle" /\ ~listing.there
  BY <1>1 DEF SL!NoReader, SL!NoListing
<1>5. ListTypes /\ EndingsAgree
  BY <1>1, <1>2, <1>3 DEF ListTypes, EndingsAgree
<1>6. RequestAgrees /\ ListingAgrees /\ InStepAgrees
  BY <1>4 DEF RequestAgrees, ListingAgrees, InStepAgrees, InProgress, SL!ListedOnce
<1>7. QED
  BY <1>5, <1>6 DEF ListsInv

\* A call that has ended is listed once, and a reader in step misses none, on any
\* number of pages, for any numbers of sessions and any limits of the lists
\* (getRecentEndedSessions, saveEndedSession, listSessions).
THEOREM PagesListEachOnce == MCSpec => [](SL!ListedOnce /\ SL!PagesMissNothing)
<1>1. ListsInv => SL!ListedOnce /\ SL!PagesMissNothing
  BY LastPageIsTheEnd DEF ListsInv, ListingAgrees
<1>2. QED
  BY <1>1, ListsInit, ListsStep, PTL DEF MCSpec

\* A call that has ended is on the list once, on some page of a reader in step, and
\* its recording is found while it is kept, whatever expires, is lost or restarts
\* (RecordingLookups, SessionLists).
THEOREM EndedCallsAreFound == MCSpec => []EndedCallIsFound
BY RecordingsAreFound, PagesListEachOnce, PTL DEF EndedCallIsFound
-----------------------------------------------------------------------------
(* PostCall: TranscriptIsWhole.                                            *)

\* The transcript's part of a behaviour is one of PostCall.
LEMMA TranscriptPart == MCSpec => Spec
<1>1. MCInit => Init
  BY DEF MCInit
<1>2. [MCNext]_allVars => [Next]_vars
  BY DEF MCNext, allVars
<1>3. QED
  BY <1>1, <1>2, PTL DEF MCSpec, Spec

\* With drafts that are in time and at most one fault later, whichever statement
\* of a job or salvage of the two finalizers comes last, here or on the worker, a
\* final transcript and, at rest, its segments are the whole conversation
\* (VoiceTranscriptService; the finalizers are the stop event and the disconnect).
THEOREM TranscriptsAreWhole ==
  DraftsSucceed /\ MaxFaults <= 1 /\ TwoFinalizers => (MCSpec => []TranscriptIsWhole)
<1> SUFFICES ASSUME DraftsSucceed, MaxFaults <= 1, TwoFinalizers
             PROVE  MCSpec => []TranscriptIsWhole
  OBVIOUS
<1>1. (Spec => []TypeOK) /\ (Spec => []FinalIsWhole) /\ (Spec => []SegmentsAreWhole)
  BY PostCallTypes, FinalIsAlwaysWhole, SegmentsComeBack
<1>2. QED
  BY <1>1, TranscriptPart, PTL DEF TranscriptIsWhole

=============================================================================
