---------------------------- MODULE Voice_proofs ----------------------------
(* What holds of the components of MCVoice, proved with TLAPS: first of a  *)
(* voice stream, of every behaviour of VoiceStream, then of the parts of   *)
(* MCSpec.                                                                 *)
EXTENDS MCVoice, FiniteSetTheorems, SequenceTheorems,
        WellFoundedInduction, TLAPS

\* What relates the session, its finalizers and the recording: before the
\* start event nothing has happened, and a recording that can still be
\* uploaded has not been.
Progress ==
  /\ session.status = "pending" =>
       /\ uploads = 0 /\ endings = 0
       /\ \A f \in Finalizer : fin[f].pc = "idle"
  /\ recording \in {"none", "empty", "audio"} => uploads = 0
  /\ uploads <= 1
  /\ session.status \in {"pending", "active"} => endings = 0
  /\ endings <= 1

\* The invariant of a stream.
StreamInv == TypeOK /\ Progress

\* FinalizeRecording keeps the types and never uploads a second time.
LEMMA FinalizeStep ==
  ASSUME StreamInv, NEW f \in Finalizer, FinalizeRecording(f)
  PROVE  /\ fin' \in [Finalizer -> [pc : {"idle", "runtime", "release", "upload",
                                          "complete", "end", "done"},
                                    callId : BOOLEAN]]
         /\ recording' \in {"none", "empty", "audio", "taken", "finalized", "lost"}
         /\ uploads' \in Nat /\ uploads' <= 1
         /\ recording' \in {"none", "empty", "audio"} => uploads' = 0
<1>1. (Known /\ session.callId) \in BOOLEAN
  BY DEF StreamInv, TypeOK, Known
<1>2. \A known \in BOOLEAN : NextPc(known) \in {"complete", "end", "upload"}
  BY DEF NextPc
<1>3. fin' = [fin EXCEPT ![f] = [pc |-> NextPc(Known /\ session.callId),
                                 callId |-> Known /\ session.callId]]
  BY DEF FinalizeRecording
<1>4. [pc |-> NextPc(Known /\ session.callId), callId |-> Known /\ session.callId]
        \in [pc : {"idle", "runtime", "release", "upload", "complete", "end", "done"},
             callId : BOOLEAN]
  BY <1>1, <1>2
<1>5. fin' \in [Finalizer -> [pc : {"idle", "runtime", "release", "upload",
                                    "complete", "end", "done"},
                              callId : BOOLEAN]]
  BY <1>3, <1>4 DEF StreamInv, TypeOK
<1>6. QED
  BY <1>5 DEF FinalizeRecording, Taken, StreamInv, TypeOK, Progress

\* EndSession counts an active session once and leaves it ended.
LEMMA EndStep ==
  ASSUME StreamInv, EndSession
  PROVE  /\ session' \in [status : {"pending", "active", "ended", "discarded"},
                          app : {"unset", "yes", "no"}, callId : BOOLEAN]
         /\ endings' \in Nat /\ endings' <= 1
         /\ session'.status \notin {"pending", "active"}
BY DEF EndSession, Endable, InMaps, StreamInv, TypeOK, Progress

\* markAppInitiated leaves the status of the session alone.
LEMMA MarkStep ==
  ASSUME TypeOK, NEW app \in {"yes", "no"}, NEW callId \in BOOLEAN,
         MarkAppInitiated(app, callId)
  PROVE  /\ session' \in [status : {"pending", "active", "ended", "discarded"},
                          app : {"unset", "yes", "no"}, callId : BOOLEAN]
         /\ session'.status = session.status
<1>1. session' = session \/ session' = [session EXCEPT !.app = app, !.callId = callId]
  BY DEF MarkAppInitiated
<1>2. CASE session' = session
  BY <1>2 DEF TypeOK
<1>3. CASE session' = [session EXCEPT !.app = app, !.callId = callId]
  <2>1. session' = [status |-> session.status, app |-> app, callId |-> callId]
    BY <1>3 DEF TypeOK
  <2>2. QED
    BY <2>1 DEF TypeOK
<1>4. QED
  BY <1>1, <1>2, <1>3

\* Every step keeps the invariant.
LEMMA StreamStep ==
  ASSUME StreamInv, [Next]_vars
  PROVE  StreamInv'
<1>1. CASE HandleStart
  BY <1>1 DEF HandleStart, StreamInv, TypeOK, Progress
<1>2. CASE HandleMedia
  BY <1>2 DEF HandleMedia, StreamInv, TypeOK, Progress
<1>3. CASE Reject
  <2>1. /\ session' \in [status : {"pending", "active", "ended", "discarded"},
                         app : {"unset", "yes", "no"}, callId : BOOLEAN]
        /\ session'.status = session.status
    BY <1>3, MarkStep DEF Reject, StreamInv
  <2>2. QED
    BY <1>3, <2>1, ZenonT(60) DEF Reject, StreamInv, TypeOK, Progress
<1>4. ASSUME NEW known \in BOOLEAN, Grant(known)
      PROVE  StreamInv'
  <2>1. /\ session' \in [status : {"pending", "active", "ended", "discarded"},
                         app : {"unset", "yes", "no"}, callId : BOOLEAN]
        /\ session'.status = session.status
    BY <1>4, MarkStep DEF Grant, StreamInv
  <2>2. QED
    BY <1>4, <2>1, ZenonT(60) DEF Grant, StreamInv, TypeOK, Progress
<1>5. CASE AuthorizeThrows
  BY <1>5 DEF AuthorizeThrows, StreamInv, TypeOK, Progress
<1>6. CASE MarkCallInProgress
  BY <1>6 DEF MarkCallInProgress, StreamInv, TypeOK, Progress
<1>7. CASE HandleStop
  <2>1. CASE AppInitiated /\ runtime = "open"
    BY <1>7, <2>1 DEF HandleStop, BeginFinalizer, StreamInv, TypeOK, Progress, Finalizer
  <2>2. CASE AppInitiated /\ runtime # "open"
    <3>1. FinalizeRecording("stop")
      BY <1>7, <2>2 DEF HandleStop, BeginFinalizer
    <3>2. QED
      BY <1>7, <2>2, <3>1, FinalizeStep
         DEF HandleStop, StreamInv, TypeOK, Progress, Finalizer
  <2>3. CASE ~AppInitiated
    BY <1>7, <2>3, EndStep DEF HandleStop, StreamInv, TypeOK, Progress, Finalizer
  <2>4. QED
    BY <2>1, <2>2, <2>3
<1>8. CASE HandleDisconnect
  <2>1. CASE session.status = "active" /\ AppInitiated /\ runtime = "open"
    BY <1>8, <2>1 DEF HandleDisconnect, BeginFinalizer, StreamInv, TypeOK, Progress,
                      Finalizer
  <2>2. CASE session.status = "active" /\ AppInitiated /\ runtime # "open"
    <3>1. FinalizeRecording("disconnect")
      BY <1>8, <2>2 DEF HandleDisconnect, BeginFinalizer
    <3>2. QED
      BY <1>8, <2>2, <3>1, FinalizeStep
         DEF HandleDisconnect, StreamInv, TypeOK, Progress, Finalizer
  <2>3. CASE session.status = "active" /\ ~AppInitiated
    BY <1>8, <2>3 DEF HandleDisconnect, StreamInv, TypeOK, Progress, Finalizer
  <2>4. CASE session.status # "active"
    BY <1>8, <2>4, EndStep DEF HandleDisconnect, StreamInv, TypeOK, Progress
  <2>5. QED
    BY <2>1, <2>2, <2>3, <2>4
<1>9. ASSUME NEW f \in Finalizer, EndRuntime(f)
      PROVE  StreamInv'
  <2>1. CASE fin[f].pc = "runtime"
    BY <1>9, <2>1, FinalizeStep DEF EndRuntime, StreamInv, TypeOK, Progress
  <2>2. CASE fin[f].pc # "runtime"
    BY <1>9, <2>2 DEF EndRuntime, StreamInv, TypeOK, Progress
  <2>3. QED
    BY <2>1, <2>2
<1>10. ASSUME NEW f \in Finalizer, UploadRecording(f)
       PROVE  StreamInv'
  BY <1>10 DEF UploadRecording, StreamInv, TypeOK, Progress
<1>11. ASSUME NEW f \in Finalizer, MarkCallCompleted(f)
       PROVE  StreamInv'
  BY <1>11 DEF MarkCallCompleted, StreamInv, TypeOK, Progress
<1>12. ASSUME NEW f \in Finalizer, Finish(f)
       PROVE  StreamInv'
  BY <1>12, EndStep DEF Finish, StreamInv, TypeOK, Progress
<1>13. CASE UNCHANGED vars
  BY <1>13 DEF vars, StreamInv, TypeOK, Progress
<1>14. QED
  BY <1>1, <1>2, <1>3, <1>4, <1>5, <1>6, <1>7, <1>8, <1>9, <1>10, <1>11, <1>12,
     <1>13 DEF Next

\* The invariant holds throughout every behaviour.
THEOREM StreamInvariant == Spec => []StreamInv
<1>1. ASSUME Init
      PROVE  StreamInv
  <2>1. [pc |-> "idle", callId |-> FALSE]
          \in [pc : {"idle", "runtime", "release", "upload", "complete", "end", "done"},
               callId : BOOLEAN]
    OBVIOUS
  <2>2. fin \in [Finalizer -> [pc : {"idle", "runtime", "release", "upload",
                                    "complete", "end", "done"},
                              callId : BOOLEAN]]
    BY <1>1, <2>1 DEF Init
  <2>3. \A f \in Finalizer : fin[f].pc = "idle"
    BY <1>1 DEF Init
  <2>4. session = [status |-> "pending", app |-> "unset", callId |-> FALSE]
    BY <1>1 DEF Init
  <2>5. /\ socket = "open" /\ authPending = FALSE /\ decision = "idle"
        /\ recording = "none" /\ runtime = "none" /\ progress = "idle"
        /\ call = "initiated" /\ jobs = 0 /\ uploads = 0 /\ endings = 0
        /\ early = FALSE
    BY <1>1 DEF Init
  <2>6. session \in [status : {"pending", "active", "ended", "discarded"},
                    app : {"unset", "yes", "no"}, callId : BOOLEAN]
    BY <2>4
  <2>7. TypeOK
    BY <2>2, <2>5, <2>6 DEF TypeOK
  <2>8. Progress
    BY <2>3, <2>4, <2>5 DEF Progress
  <2>9. QED
    BY <2>7, <2>8 DEF StreamInv
<1>2. StreamInv /\ [Next]_vars => StreamInv'
  BY StreamStep
<1>3. QED
  BY <1>1, <1>2, PTL DEF Spec

\* However the stop event and the disconnect interleave, the recording of a
\* stream is uploaded at most once.
THEOREM RecordingUploadedOnce == Spec => []UploadedOnce
<1>1. StreamInv => UploadedOnce
  BY DEF StreamInv, Progress, UploadedOnce
<1>2. QED
  BY <1>1, StreamInvariant, PTL

\* ... and its session ends at most once.
THEOREM SessionEndsOnce == Spec => []EndedOnce
<1>1. StreamInv => EndedOnce
  BY DEF StreamInv, Progress, EndedOnce
<1>2. QED
  BY <1>1, StreamInvariant, PTL

-----------------------------------------------------------------------------
(* The language lock.                                                      *)

\* The counters never pass two, a turn of Hindi counts only as long as the last
\* transcript was mostly Hindi, and another one only as long as the last was not
\* Hindi alone.
LanguageInv ==
  /\ hindiTurns \in 0..2 /\ otherTurns \in 0..2
  /\ hindiTurns >= 1 => last.mostlyHindi
  /\ otherTurns >= 1 => last.notOnlyHindi

\* The word counts of a transcript are natural numbers.
LEMMA WordCounts ==
  ASSUME NEW u \in LL!Utterance
  PROVE  u.dev \in Nat /\ u.latin \in Nat /\ u.english \in Nat /\ u.other \in Nat
BY VoiceAssumptions DEF LL!CountsAssumption, LL!Utterance

\* What is classified as Hindi holds more Hindi words than English ones.
LEMMA HindiIsMostlyHindi ==
  ASSUME NEW u \in LL!Utterance, LL!Class(u) = "hindi"
  PROVE  LL!MadeOf(u).mostlyHindi
<1>1. u.dev \in Nat /\ u.latin \in Nat /\ u.english \in Nat /\ u.other \in Nat
  BY WordCounts
<1>2. LL!Detected(u) = "hindi" => LL!Hindi(u) > u.english
  BY <1>1 DEF LL!Detected, LL!Hindi
<1>3. LL!HindiShare(u, 55) /\ LL!Words(u) >= 1 => LL!Hindi(u) > u.english
  BY <1>1 DEF LL!HindiShare, LL!Hindi, LL!Words
<1>4. LL!HindiShare(u, 60) /\ LL!Words(u) >= 1 => LL!Hindi(u) > u.english
  BY <1>1 DEF LL!HindiShare, LL!Hindi, LL!Words
<1>5. LL!Words(u) \in Nat
  BY <1>1 DEF LL!Words
<1>6. LL!Hindi(u) > u.english
  BY <1>2, <1>3, <1>4, <1>5 DEF LL!Class
<1>7. QED
  BY <1>6 DEF LL!MadeOf

\* What is classified as English or mixed is not Hindi alone.
LEMMA OtherIsNotOnlyHindi ==
  ASSUME NEW u \in LL!Utterance, LL!Class(u) \in {"english", "hinglish"}
  PROVE  LL!MadeOf(u).notOnlyHindi
<1>1. u.dev \in Nat /\ u.latin \in Nat /\ u.english \in Nat /\ u.other \in Nat
  BY WordCounts
<1>2. LL!Detected(u) \in {"english", "hinglish"} => u.english > 0
  BY <1>1 DEF LL!Detected
<1>3. ~LL!HindiShare(u, 20) => u.english > 0 \/ u.other > 0
  BY <1>1 DEF LL!HindiShare, LL!Hindi, LL!Words
<1>4. u.english > 0 \/ u.other > 0 \/ u.filler
  BY <1>1, <1>2, <1>3 DEF LL!Class
<1>5. QED
  BY <1>4 DEF LL!MadeOf

\* A single utterance that locks Hindi is a longer one.
LEMMA StrongIsLong ==
  ASSUME NEW u \in LL!Utterance, LL!Strong(u)
  PROVE  LL!MadeOf(u).long
<1>1. LL!Words(u) \in Nat
  BY WordCounts DEF LL!Words
<1>2. LL!Words(u) >= 4
  BY <1>1 DEF LL!Strong
<1>3. QED
  BY <1>2 DEF LL!MadeOf

\* The language lock's variables are disturbed only by its own steps.
LEMMA LanguageActs ==
  ASSUME [MCNext]_allVars
  PROVE  LL!Next \/ UNCHANGED languageVars
BY DEF MCNext, allVars, languageVars

\* The counters stay what LanguageInv says of them.
LEMMA LanguageStep == LanguageInv /\ [MCNext]_allVars => LanguageInv'
<1> SUFFICES ASSUME LanguageInv, [MCNext]_allVars PROVE LanguageInv'
  OBVIOUS
<1>1. CASE UNCHANGED languageVars
  BY <1>1 DEF languageVars, LanguageInv
<1>2. ASSUME NEW u \in LL!Utterance, LL!HearHindi(u) PROVE LanguageInv'
  BY <1>2, HindiIsMostlyHindi DEF LL!HearHindi, LL!Counted, LL!UpTo2, LanguageInv
<1>3. ASSUME NEW u \in LL!Utterance, LL!HearOther(u) PROVE LanguageInv'
  BY <1>3, OtherIsNotOnlyHindi DEF LL!HearOther, LL!Counted, LL!UpTo2, LanguageInv
<1>4. ASSUME NEW u \in LL!Utterance, LL!HearUnknown(u) PROVE LanguageInv'
  BY <1>4 DEF LL!HearUnknown, LL!vars, LanguageInv
<1>5. QED
  BY <1>1, <1>2, <1>3, <1>4, LanguageActs DEF LL!Next

\* What a change of the lock tells of the customer.
LockChange ==
  /\ (lock # "hindi" /\ lock' = "hindi")
       => last'.mostlyHindi /\ (previous'.mostlyHindi \/ last'.long)
  /\ (lock = "hindi" /\ lock' # "hindi")
       => last'.notOnlyHindi /\ previous'.notOnlyHindi

\* Each of the three handlers changes the lock only with reason.
LEMMA LockChanges == LanguageInv /\ [MCNext]_allVars => [LockChange]_languageVars
<1> SUFFICES ASSUME LanguageInv, [MCNext]_allVars, ~ UNCHANGED languageVars
             PROVE  LockChange
  OBVIOUS
<1>1. ASSUME NEW u \in LL!Utterance, LL!HearHindi(u) PROVE LockChange
  <2>1. hindiTurns' >= 2 => hindiTurns >= 1
    BY <1>1 DEF LL!HearHindi, LL!UpTo2, LanguageInv
  <2>2. QED
    BY <1>1, <2>1, HindiIsMostlyHindi, StrongIsLong
       DEF LL!HearHindi, LL!Counted, LanguageInv, LockChange
<1>2. ASSUME NEW u \in LL!Utterance, LL!HearOther(u) PROVE LockChange
  <2>1. otherTurns' >= 2 => otherTurns >= 1
    BY <1>2 DEF LL!HearOther, LL!UpTo2, LanguageInv
  <2>2. QED
    BY <1>2, <2>1, OtherIsNotOnlyHindi
       DEF LL!HearOther, LL!Counted, LanguageInv, LockChange
<1>3. ASSUME NEW u \in LL!Utterance, LL!HearUnknown(u) PROVE LockChange
  BY <1>3 DEF LL!HearUnknown, LL!vars, LockChange
<1>4. QED
  BY <1>1, <1>2, <1>3, LanguageActs DEF LL!Next

\* Whatever the thresholds make of a transcript's words, for every set of word
\* counts, the agent changes to Hindi only after a customer who spoke more Hindi
\* than English, and back only after two utterances that were not Hindi alone.
THEOREM LanguageFollowsCustomer == MCSpec => LockFollowsCustomer
<1>1. MCInit => LanguageInv
  BY DEF MCInit, LL!Init, LanguageInv
<1>2. LanguageInv /\ [MCNext]_allVars => LanguageInv'
  BY LanguageStep
<1>3. LanguageInv /\ [MCNext]_allVars => [LockChange]_languageVars
  BY LockChanges
<1>4. MCSpec => [][LockChange]_languageVars
  BY <1>1, <1>2, <1>3, PTL DEF MCSpec
<1>5. QED
  BY <1>4 DEF LockFollowsCustomer, LL!LockFollowsCustomer, LockChange, LL!vars,
              languageVars

-----------------------------------------------------------------------------
(* The sessions of the realtime runtime.                                   *)

\* A session of the runtime.
SessionRecord == [origin : RS!Entry, stream : Stream \cup {None},
                  ws : {"open", "closed"}, closing : BOOLEAN]

\* Sessions are numbered from one; byKey and byPhone hold entries of prewarms.
SessionTypes ==
  /\ sessions \in [RS!Entry -> Nat]
  /\ \E k \in Nat : RS!Started = 1..k
  /\ info \in [RS!Started -> SessionRecord]
  /\ byKey \in [RS!Key -> RS!Prewarm \cup {None}]
  /\ byPhone \in [Phone -> RS!Prewarm \cup {None}]
  /\ cleanups \in [RS!Key -> [on : BOOLEAN, sid : Sid \cup {None},
                              phone : Phone \cup {None}]]
  /\ stream \in [Stream -> [pc : {"none", "served", "restart", "gone"}, starts : Nat]]

\* The session in the entry of a stream serves that stream; the session in the
\* entry of a prewarm was started for it and serves nobody yet.
EntriesAgree ==
  \A e \in RS!Entry : sessions[e] # 0 =>
    /\ sessions[e] \in RS!Started
    /\ e \in Stream => info[sessions[e]].stream = e
    /\ e \in RS!Prewarm => info[sessions[e]].stream = None /\ info[sessions[e]].origin = e

\* A prewarm that a stream could find is not being closed.
MappedAreOpen ==
  \A e \in RS!Prewarm :
    ((\E k \in RS!Key : byKey[k] = e) \/ (\E q \in Phone : byPhone[q] = e)) =>
      (sessions[e] # 0 => ~info[sessions[e]].closing)

\* A key is mapped to its own prewarm, and the numbers kept for it are those of
\* a call dialled under it.
NumbersOfKeys ==
  \A k \in RS!Key :
    /\ byKey[k] \in {None, <<"prewarm", k>>}
    /\ \A q \in Phone : byPhone[q] = <<"prewarm", k>> =>
         \E d \in Dial : RS!KeyOf(d) = k /\ DialPhone[d] = q
    /\ cleanups[k].on =>
         \E d \in Dial : RS!KeyOf(d) = k /\ cleanups[k].phone = DialPhone[d]

\* The invariant of the sessions.
SessionsInv ==
  SessionTypes /\ EntriesAgree /\ MappedAreOpen /\ NumbersOfKeys /\ RS!StreamIsServed

\* The next session has a number that no session has had.
LEMMA NextNumber ==
  ASSUME SessionTypes
  PROVE  /\ Cardinality(RS!Started) + 1 \in Nat \ {0}
         /\ Cardinality(RS!Started) + 1 \notin RS!Started
         /\ \E k \in Nat : RS!Started \cup {Cardinality(RS!Started) + 1} = 1..k
<1>1. PICK k \in Nat : RS!Started = 1..k
  BY DEF SessionTypes
<1>2. Cardinality(1..k) = k
  BY <1>1, FS_Interval
<1>3. (1..k) \cup {k + 1} = 1..(k + 1)
  BY <1>1
<1>4. QED
  BY <1>1, <1>2, <1>3

\* What startOpenAiSession does to the sessions and their entries.
LEMMA SessionStarts ==
  ASSUME SessionTypes, NEW e \in RS!Entry, NEW t \in Stream \cup {None},
         RS!StartOpenAiSession(e, t)
  PROVE  \E n \in Nat \ {0} :
           /\ n \notin RS!Started
           /\ RS!Started' = RS!Started \cup {n}
           /\ \E k \in Nat : RS!Started' = 1..k
           /\ info' \in [RS!Started' -> SessionRecord]
           /\ \A m \in RS!Started : info'[m] = info[m]
           /\ info'[n] = [origin |-> e, stream |-> t, ws |-> "open", closing |-> FALSE]
           /\ sessions' = [sessions EXCEPT ![e] = n]
<1> DEFINE n == Cardinality(RS!Started) + 1
<1>1. /\ n \in Nat \ {0} /\ n \notin RS!Started
      /\ \E k \in Nat : RS!Started \cup {n} = 1..k
  BY NextNumber
<1>0. RS!Cardinality(RS!Started) = Cardinality(RS!Started)
  BY DEF RS!Cardinality, Cardinality
<1> HIDE DEF n
<1>2. /\ info' = [m \in RS!Started \cup {n} |->
                   IF m \in RS!Started THEN info[m]
                   ELSE [origin |-> e, stream |-> t, ws |-> "open", closing |-> FALSE]]
      /\ sessions' = [sessions EXCEPT ![e] = n]
  BY <1>0 DEF RS!StartOpenAiSession, n
<1>3. RS!Started' = RS!Started \cup {n}
  BY <1>2 DEF RS!Started
<1>4. [origin |-> e, stream |-> t, ws |-> "open", closing |-> FALSE] \in SessionRecord
  BY DEF SessionRecord
<1>5. info' \in [RS!Started' -> SessionRecord]
  BY <1>2, <1>3, <1>4 DEF SessionTypes
<1>6. QED
  BY <1>1, <1>2, <1>3, <1>5

\* What endSession does to them before its first await.
LEMMA SessionCloses ==
  ASSUME SessionTypes, EntriesAgree, NEW e \in RS!Entry, RS!BeginEnd(e)
  PROVE  /\ RS!Started' = RS!Started
         /\ info' \in [RS!Started -> SessionRecord]
         /\ \A m \in RS!Started :
              /\ info'[m].stream = info[m].stream /\ info'[m].origin = info[m].origin
              /\ info'[m].closing =
                   (info[m].closing \/ (sessions[e] # 0 /\ m = sessions[e]))
<1>1. CASE sessions[e] = 0
  BY <1>1 DEF RS!BeginEnd, RS!Started, SessionTypes, SessionRecord
<1>2. CASE sessions[e] # 0
  <2>1. info' = [info EXCEPT ![sessions[e]].closing = TRUE] /\ sessions[e] \in RS!Started
    BY <1>2 DEF RS!BeginEnd, EntriesAgree
  <2>2. RS!Started' = RS!Started
    BY <2>1 DEF RS!Started
  <2>3. info' \in [RS!Started -> SessionRecord]
    BY <2>1, ZenonT(60) DEF SessionTypes, SessionRecord
  <2>4. \A m \in RS!Started : m # sessions[e] => info'[m] = info[m]
    BY <2>1 DEF SessionTypes
  <2>5. info'[sessions[e]] = [info[sessions[e]] EXCEPT !.closing = TRUE]
    BY <2>1 DEF SessionTypes
  <2>6. info[sessions[e]] \in SessionRecord
    BY <2>1 DEF SessionTypes
  <2>7. QED
    BY <1>2, <2>2, <2>3, <2>4, <2>5, <2>6 DEF SessionRecord
<1>3. QED
  BY <1>1, <1>2

\* A served stream keeps its session when that session is not lost from the map
\* without a trace and is not closed.
LEMMA StillServed ==
  ASSUME RS!StreamIsServed, NEW t \in Stream,
         stream[t].pc = "served", RS!Started \subseteq RS!Started',
         \A n \in RS!Started : info[n].stream = t =>
           /\ info'[n].stream = t
           /\ ~info[n].closing => ~info'[n].closing
           /\ n \in displaced => n \in displaced'
           /\ (~info[n].closing /\ sessions[t] = n) =>
                (sessions'[t] = n \/ n \in displaced')
  PROVE  \E n \in RS!Started' : /\ info'[n].stream = t /\ ~info'[n].closing
                                /\ sessions'[t] = n \/ n \in displaced'
<1>1. PICK n \in RS!Started : /\ info[n].stream = t /\ ~info[n].closing
                              /\ sessions[t] = n \/ n \in displaced
  BY DEF RS!StreamIsServed
<1>2. QED
  BY <1>1

\* Map.delete, whatever entry it is called for.
LEMMA EntryDeleted ==
  ASSUME SessionsInv, NEW e, RS!Delete(e),
         RS!Started' = RS!Started, info' \in [RS!Started -> SessionRecord],
         \A n \in RS!Started : /\ info'[n].stream = info[n].stream
                               /\ info'[n].origin = info[n].origin
                               /\ info'[n].closing = info[n].closing,
         UNCHANGED <<byKey, byPhone, cleanups, stream>>
  PROVE  SessionsInv'
<1>1. /\ sessions' \in [RS!Entry -> Nat]
      /\ \A f \in RS!Entry : sessions'[f] \in {0, sessions[f]}
      /\ \A f \in RS!Entry : f # e => sessions'[f] = sessions[f]
  BY DEF RS!Delete, SessionsInv, SessionTypes
<1>2. SessionTypes'
  BY <1>1 DEF SessionsInv, SessionTypes
<1>3. EntriesAgree'
  <2>1. SUFFICES ASSUME NEW f \in RS!Entry, sessions'[f] # 0
                 PROVE  /\ sessions'[f] \in RS!Started
                        /\ f \in Stream => info'[sessions'[f]].stream = f
                        /\ f \in RS!Prewarm =>
                             /\ info'[sessions'[f]].stream = None
                             /\ info'[sessions'[f]].origin = f
    BY DEF EntriesAgree
  <2>2. sessions'[f] = sessions[f] /\ sessions[f] # 0
    BY <1>1, <2>1
  <2>3. QED
    BY <2>2 DEF SessionsInv, EntriesAgree
<1>4. MappedAreOpen'
  BY <1>1 DEF SessionsInv, MappedAreOpen, EntriesAgree, RS!Entry
<1>5. NumbersOfKeys'
  BY DEF SessionsInv, NumbersOfKeys
<1>6. displaced' = displaced \cup {n \in RS!Started : n = sessions[e] /\ ~info[n].closing}
  BY DEF RS!Delete, RS!Closing
<1>7. RS!StreamIsServed'
  <2>1. SUFFICES ASSUME NEW t \in Stream, stream'[t].pc = "served"
                 PROVE  \E n \in RS!Started' : /\ info'[n].stream = t /\ ~info'[n].closing
                                               /\ sessions'[t] = n \/ n \in displaced'
    BY DEF RS!StreamIsServed
  <2>2. t \in RS!Entry
    BY DEF RS!Entry
  <2>3. QED
    BY <1>1, <1>6, <2>1, <2>2, StillServed DEF SessionsInv
<1>8. QED
  BY <1>2, <1>3, <1>4, <1>5, <1>7 DEF SessionsInv

\* prewarmAuthorizedCall, for a key that has no entry.
LEMMA PrewarmStep ==
  ASSUME SessionsInv, NEW d \in Dial, RS!PrewarmAuthorizedCall(d)
  PROVE  SessionsInv'
<1> DEFINE k == RS!KeyOf(d)
           e == <<"prewarm", k>>
<1>1. k \in RS!Key /\ DialPhone[d] \in Phone /\ DialSid[d] \in Sid \cup {None}
  BY VoiceAssumptions DEF RS!RuntimeSessionsAssumption, RS!KeyOf, RS!Key
<1>2. e \in RS!Prewarm /\ e \in RS!Entry
  BY <1>1 DEF RS!Prewarm, RS!Entry
<1>3. e \notin Stream
  BY <1>2, VoiceAssumptions DEF RS!EntryAssumption
<1>4. /\ RS!StartOpenAiSession(e, None)
      /\ byKey' = [byKey EXCEPT ![k] = e]
      /\ byPhone' = [byPhone EXCEPT ![DialPhone[d]] = e]
      /\ cleanups' = [cleanups EXCEPT ![k] =
                        [on |-> TRUE, sid |-> DialSid[d], phone |-> DialPhone[d]]]
      /\ UNCHANGED <<runtimeEndings, stream, displaced>>
  BY DEF RS!PrewarmAuthorizedCall
<1>5. PICK n \in Nat \ {0} :
        /\ n \notin RS!Started
        /\ RS!Started' = RS!Started \cup {n}
        /\ \E m \in Nat : RS!Started' = 1..m
        /\ info' \in [RS!Started' -> SessionRecord]
        /\ \A m \in RS!Started : info'[m] = info[m]
        /\ info'[n] = [origin |-> e, stream |-> None, ws |-> "open", closing |-> FALSE]
        /\ sessions' = [sessions EXCEPT ![e] = n]
  BY <1>2, <1>4, SessionStarts DEF SessionsInv
<1> HIDE DEF k, e
<1>6. /\ sessions' \in [RS!Entry -> Nat] /\ sessions'[e] = n
      /\ \A f \in RS!Entry : f # e => sessions'[f] = sessions[f]
  BY <1>2, <1>5 DEF SessionsInv, SessionTypes
<1>7. /\ byKey' \in [RS!Key -> RS!Prewarm \cup {None}]
      /\ byPhone' \in [Phone -> RS!Prewarm \cup {None}]
      /\ cleanups' \in [RS!Key -> [on : BOOLEAN, sid : Sid \cup {None},
                                   phone : Phone \cup {None}]]
  BY <1>1, <1>2, <1>4 DEF SessionsInv, SessionTypes
<1>8. SessionTypes'
  BY <1>4, <1>5, <1>6, <1>7 DEF SessionsInv, SessionTypes
<1>9. EntriesAgree'
  BY <1>2, <1>3, <1>5, <1>6 DEF SessionsInv, EntriesAgree
<1>10. MappedAreOpen'
  <2>1. SUFFICES ASSUME NEW f \in RS!Prewarm, f # e, sessions'[f] # 0,
                        (\E j \in RS!Key : byKey'[j] = f) \/ (\E q \in Phone : byPhone'[q] = f)
                 PROVE  ~info'[sessions'[f]].closing
    BY <1>5, <1>6 DEF MappedAreOpen
  <2>2. f \in RS!Entry
    BY DEF RS!Entry
  <2>3. (\E j \in RS!Key : byKey[j] = f) \/ (\E q \in Phone : byPhone[q] = f)
    BY <1>1, <1>4, <2>1 DEF SessionsInv, SessionTypes
  <2>4. QED
    BY <1>5, <1>6, <2>1, <2>2, <2>3 DEF SessionsInv, MappedAreOpen, EntriesAgree
<1>11. NumbersOfKeys'
  <2>1. SUFFICES ASSUME NEW j \in RS!Key
                 PROVE  /\ byKey'[j] \in {None, <<"prewarm", j>>}
                        /\ \A q \in Phone : byPhone'[q] = <<"prewarm", j>> =>
                             \E c0 \in Dial : RS!KeyOf(c0) = j /\ DialPhone[c0] = q
                        /\ cleanups'[j].on =>
                             \E c0 \in Dial : RS!KeyOf(c0) = j
                                             /\ cleanups'[j].phone = DialPhone[c0]
    BY DEF NumbersOfKeys
  <2>2. byKey'[j] \in {None, <<"prewarm", j>>}
    BY <1>1, <1>4 DEF SessionsInv, NumbersOfKeys, SessionTypes, e
  <2>3. ASSUME NEW q \in Phone, byPhone'[q] = <<"prewarm", j>>
        PROVE  \E c0 \in Dial : RS!KeyOf(c0) = j /\ DialPhone[c0] = q
    <3>1. CASE q = DialPhone[d]
      BY <1>1, <1>4, <2>3, <3>1 DEF SessionsInv, SessionTypes, e, k
    <3>2. CASE q # DialPhone[d]
      BY <1>1, <1>4, <2>3, <3>2 DEF SessionsInv, SessionTypes, NumbersOfKeys
    <3>3. QED
      BY <3>1, <3>2
  <2>4. ASSUME cleanups'[j].on
        PROVE  \E c0 \in Dial : RS!KeyOf(c0) = j /\ cleanups'[j].phone = DialPhone[c0]
    <3>1. CASE j = k
      BY <1>1, <1>4, <3>1 DEF SessionsInv, SessionTypes, k
    <3>2. CASE j # k
      BY <1>1, <1>4, <2>4, <3>2 DEF SessionsInv, SessionTypes, NumbersOfKeys
    <3>3. QED
      BY <3>1, <3>2
  <2>5. QED
    BY <2>2, <2>3, <2>4
<1>12. RS!StreamIsServed'
  <2>1. SUFFICES ASSUME NEW t \in Stream, stream'[t].pc = "served"
                 PROVE  \E m \in RS!Started' : /\ info'[m].stream = t /\ ~info'[m].closing
                                               /\ sessions'[t] = m \/ m \in displaced'
    BY DEF RS!StreamIsServed
  <2>2. t \in RS!Entry
    BY DEF RS!Entry
  <2>3. QED
    BY <1>3, <1>4, <1>5, <1>6, <2>1, <2>2, StillServed DEF SessionsInv
<1>13. QED
  BY <1>8, <1>9, <1>10, <1>11, <1>12 DEF SessionsInv

\* The timer of a prewarm that no stream adopted ends its session, if the key
\* still leads to it, and takes it out of both maps first.
LEMMA ExpiryStep ==
  ASSUME SessionsInv, NEW k \in RS!Key, RS!PrewarmExpires(k)
  PROVE  SessionsInv'
<1> DEFINE e == <<"prewarm", k>>
<1>1. e \in RS!Prewarm /\ e \in RS!Entry
  BY DEF RS!Prewarm, RS!Entry
<1>2. /\ cleanups[k].on
      /\ cleanups' = [cleanups EXCEPT ![k] = RS!NoTimer]
      /\ UNCHANGED <<sessions, stream, displaced>>
  BY DEF RS!PrewarmExpires
<1>3. RS!NoTimer \in [on : BOOLEAN, sid : Sid \cup {None}, phone : Phone \cup {None}]
  BY DEF RS!NoTimer
<1>4. /\ cleanups' \in [RS!Key -> [on : BOOLEAN, sid : Sid \cup {None},
                                   phone : Phone \cup {None}]]
      /\ \A j \in RS!Key : cleanups'[j].on => cleanups'[j] = cleanups[j]
  BY <1>2, <1>3 DEF SessionsInv, SessionTypes, RS!NoTimer
<1>5. CASE byKey[k] = e
  <2>1. /\ byKey' = [byKey EXCEPT ![k] = None]
        /\ byPhone' = [byPhone EXCEPT ![cleanups[k].phone] = None]
        /\ RS!BeginEnd(e)
    BY <1>5 DEF RS!PrewarmExpires
  <2>2. /\ RS!Started' = RS!Started
        /\ info' \in [RS!Started -> SessionRecord]
        /\ \A m \in RS!Started :
             /\ info'[m].stream = info[m].stream /\ info'[m].origin = info[m].origin
             /\ info'[m].closing =
                  (info[m].closing \/ (sessions[e] # 0 /\ m = sessions[e]))
    BY <1>1, <2>1, SessionCloses DEF SessionsInv
  <2>3. /\ byKey' \in [RS!Key -> RS!Prewarm \cup {None}]
        /\ byPhone' \in [Phone -> RS!Prewarm \cup {None}]
        /\ \A j \in RS!Key : byKey'[j] \in {None, byKey[j]} /\ (j = k => byKey'[j] = None)
        /\ \A q \in Phone : /\ byPhone'[q] \in {None, byPhone[q]}
                            /\ q = cleanups[k].phone => byPhone'[q] = None
    BY <2>1 DEF SessionsInv, SessionTypes
  <2> HIDE DEF e
  <2>4. SessionTypes'
    BY <1>2, <1>4, <2>2, <2>3 DEF SessionsInv, SessionTypes
  <2>5. EntriesAgree'
    BY <1>2, <2>2 DEF SessionsInv, EntriesAgree
  <2>6. NumbersOfKeys'
    <3>1. SUFFICES ASSUME NEW j \in RS!Key
                   PROVE  /\ byKey'[j] \in {None, <<"prewarm", j>>}
                          /\ \A q \in Phone : byPhone'[q] = <<"prewarm", j>> =>
                               \E d \in Dial : RS!KeyOf(d) = j /\ DialPhone[d] = q
                          /\ cleanups'[j].on =>
                               \E d \in Dial : /\ RS!KeyOf(d) = j
                                               /\ cleanups'[j].phone = DialPhone[d]
      BY DEF NumbersOfKeys
    <3>2. \A q \in Phone : byPhone'[q] = <<"prewarm", j>> => byPhone[q] = <<"prewarm", j>>
      <4>1. <<"prewarm", j>> # None
        BY VoiceAssumptions DEF RS!EntryAssumption, RS!Prewarm
      <4>2. QED
        BY <2>3, <4>1
    <3>3. QED
      BY <1>4, <2>3, <3>2 DEF SessionsInv, NumbersOfKeys
  <2>7. MappedAreOpen'
    <3>1. SUFFICES ASSUME NEW f \in RS!Prewarm, sessions[f] # 0,
                          \/ \E j \in RS!Key : byKey'[j] = f
                          \/ \E q \in Phone : byPhone'[q] = f
                   PROVE  ~info'[sessions[f]].closing
      BY <1>2 DEF MappedAreOpen
    <3>2. PICK i \in RS!Key : f = <<"prewarm", i>>
      BY DEF RS!Prewarm
    <3>3. f # None /\ f \in RS!Entry
      BY VoiceAssumptions DEF RS!EntryAssumption, RS!Entry
    <3>4. i # k
      <4>1. ASSUME NEW j \in RS!Key, byKey'[j] = f PROVE i # k
        BY <2>3, <2>6, <3>2, <3>3, <4>1 DEF NumbersOfKeys
      <4>2. ASSUME NEW q \in Phone, byPhone'[q] = f, i = k PROVE FALSE
        <5>1. byPhone[q] = <<"prewarm", k>> /\ q # cleanups[k].phone
          BY <2>3, <3>2, <3>3, <4>2
        <5>2. PICK d \in Dial : RS!KeyOf(d) = k /\ DialPhone[d] = q
          BY <5>1 DEF SessionsInv, NumbersOfKeys
        <5>3. PICK other \in Dial : RS!KeyOf(other) = k /\ cleanups[k].phone = DialPhone[other]
          BY <1>2 DEF SessionsInv, NumbersOfKeys
        <5>4. QED
          BY <5>1, <5>2, <5>3, VoiceAssumptions DEF RS!EntryAssumption
      <4>3. QED
        BY <3>1, <4>1, <4>2
    <3>5. sessions[f] # sessions[e]
      BY <1>1, <3>1, <3>2, <3>3, <3>4 DEF SessionsInv, EntriesAgree, e
    <3>6. (\E j \in RS!Key : byKey[j] = f) \/ (\E q \in Phone : byPhone[q] = f)
      BY <2>3, <3>1, <3>3
    <3>7. ~info[sessions[f]].closing /\ sessions[f] \in RS!Started
      BY <3>1, <3>3, <3>6 DEF SessionsInv, MappedAreOpen, EntriesAgree
    <3>8. QED
      BY <2>2, <3>5, <3>7 DEF SessionTypes, SessionRecord, SessionsInv
  <2>8. RS!StreamIsServed'
    <3>1. SUFFICES ASSUME NEW t \in Stream, stream'[t].pc = "served"
                   PROVE  \E m \in RS!Started' : /\ info'[m].stream = t /\ ~info'[m].closing
                                                 /\ sessions'[t] = m \/ m \in displaced'
      BY DEF RS!StreamIsServed
    <3>2. \A m \in RS!Started : info[m].stream = t => ~(sessions[e] # 0 /\ m = sessions[e])
      BY <1>1, VoiceAssumptions
         DEF SessionsInv, EntriesAgree, RS!RuntimeSessionsAssumption
    <3>3. \A m \in RS!Started : info[m].stream = t =>
            info'[m].stream = t /\ (~info[m].closing => ~info'[m].closing)
      BY <2>2, <3>2
    <3>4. stream[t].pc = "served" /\ RS!StreamIsServed
      BY <1>2, <3>1 DEF SessionsInv
    <3>5. QED
      BY <1>2, <2>2, <3>3, <3>4, StillServed
  <2>9. QED
    BY <2>4, <2>5, <2>6, <2>7, <2>8 DEF SessionsInv
<1>6. CASE byKey[k] # e
  <2>1. UNCHANGED <<info, byKey, byPhone>>
    BY <1>6 DEF RS!PrewarmExpires
  <2>2. RS!Started' = RS!Started
    BY <2>1 DEF RS!Started
  <2>3. SessionTypes'
    BY <1>2, <1>4, <2>1, <2>2 DEF SessionsInv, SessionTypes
  <2>4. EntriesAgree' /\ MappedAreOpen' /\ NumbersOfKeys'
    BY <1>2, <1>4, <2>1, <2>2
       DEF SessionsInv, EntriesAgree, MappedAreOpen, NumbersOfKeys
  <2>5. RS!StreamIsServed'
    BY <1>2, <2>1, <2>2 DEF SessionsInv, RS!StreamIsServed
  <2>6. QED
    BY <2>3, <2>4, <2>5 DEF SessionsInv
<1>7. QED
  BY <1>5, <1>6

\* A stream without an entry is given a new session.
LEMMA StreamStarts ==
  ASSUME SessionsInv, NEW t \in Stream, RS!StartOpenAiSession(t, t),
         stream' \in [Stream -> [pc : {"none", "served", "restart", "gone"}, starts : Nat]],
         \A other \in Stream \ {t} : stream'[other] = stream[other],
         UNCHANGED <<byKey, byPhone, cleanups, displaced>>
  PROVE  SessionsInv'
<1>1. t \in RS!Entry /\ t \notin RS!Prewarm
  BY VoiceAssumptions DEF RS!Entry, RS!EntryAssumption
<1>2. PICK n \in Nat \ {0} :
        /\ n \notin RS!Started
        /\ RS!Started' = RS!Started \cup {n}
        /\ \E m \in Nat : RS!Started' = 1..m
        /\ info' \in [RS!Started' -> SessionRecord]
        /\ \A m \in RS!Started : info'[m] = info[m]
        /\ info'[n] = [origin |-> t, stream |-> t, ws |-> "open", closing |-> FALSE]
        /\ sessions' = [sessions EXCEPT ![t] = n]
  BY <1>1, SessionStarts DEF SessionsInv
<1>3. /\ sessions' \in [RS!Entry -> Nat] /\ sessions'[t] = n
      /\ \A f \in RS!Entry : f # t => sessions'[f] = sessions[f]
  BY <1>1, <1>2 DEF SessionsInv, SessionTypes
<1>4. SessionTypes'
  BY <1>2, <1>3 DEF SessionsInv, SessionTypes
<1>5. EntriesAgree'
  BY <1>1, <1>2, <1>3 DEF SessionsInv, EntriesAgree
<1>6. MappedAreOpen'
  BY <1>1, <1>2, <1>3 DEF SessionsInv, MappedAreOpen, EntriesAgree, RS!Entry
<1>7. NumbersOfKeys'
  BY DEF SessionsInv, NumbersOfKeys
<1>8. RS!StreamIsServed'
  <2>1. SUFFICES ASSUME NEW u \in Stream, stream'[u].pc = "served"
                 PROVE  \E m \in RS!Started' : /\ info'[m].stream = u /\ ~info'[m].closing
                                               /\ sessions'[u] = m \/ m \in displaced'
    BY DEF RS!StreamIsServed
  <2>2. CASE u = t
    BY <1>2, <1>3, <2>2
  <2>3. CASE u # t
    <3>1. u \in RS!Entry /\ stream[u].pc = "served" /\ RS!StreamIsServed
      BY <2>1, <2>3 DEF RS!Entry, SessionsInv
    <3>2. QED
      BY <1>2, <1>3, <2>3, <3>1, StillServed
  <2>4. QED
    BY <2>2, <2>3
<1>9. QED
  BY <1>4, <1>5, <1>6, <1>7, <1>8 DEF SessionsInv

\* The session of a stream that stops or starts again is closed.
LEMMA StreamCloses ==
  ASSUME SessionsInv, NEW t \in Stream, RS!BeginEnd(t),
         stream' \in [Stream -> [pc : {"none", "served", "restart", "gone"}, starts : Nat]],
         stream'[t].pc # "served",
         \A other \in Stream \ {t} : stream'[other] = stream[other],
         UNCHANGED <<sessions, byKey, byPhone, cleanups, displaced>>
  PROVE  SessionsInv'
<1>1. t \in RS!Entry /\ t \notin RS!Prewarm /\ t # None
  BY VoiceAssumptions DEF RS!Entry, RS!EntryAssumption, RS!RuntimeSessionsAssumption
<1>2. /\ RS!Started' = RS!Started
      /\ info' \in [RS!Started -> SessionRecord]
      /\ \A m \in RS!Started :
           /\ info'[m].stream = info[m].stream /\ info'[m].origin = info[m].origin
           /\ info'[m].closing = (info[m].closing \/ (sessions[t] # 0 /\ m = sessions[t]))
  BY <1>1, SessionCloses DEF SessionsInv
<1>3. SessionTypes' /\ NumbersOfKeys'
  BY <1>2 DEF SessionsInv, SessionTypes, NumbersOfKeys
<1>4. EntriesAgree'
  BY <1>2 DEF SessionsInv, EntriesAgree
<1>5. MappedAreOpen'
  <2>1. \A f \in RS!Prewarm : sessions[f] # 0 => ~(sessions[t] # 0 /\ sessions[f] = sessions[t])
    BY <1>1 DEF SessionsInv, EntriesAgree, RS!Entry
  <2>2. QED
    BY <1>2, <2>1 DEF SessionsInv, MappedAreOpen, EntriesAgree, RS!Entry
<1>6. RS!StreamIsServed'
  <2>1. SUFFICES ASSUME NEW u \in Stream, stream'[u].pc = "served"
                 PROVE  \E m \in RS!Started' : /\ info'[m].stream = u /\ ~info'[m].closing
                                               /\ sessions'[u] = m \/ m \in displaced'
    BY DEF RS!StreamIsServed
  <2>2. u # t /\ stream[u].pc = "served" /\ RS!StreamIsServed
    BY <2>1 DEF SessionsInv
  <2>3. \A m \in RS!Started : info[m].stream = u => ~(sessions[t] # 0 /\ m = sessions[t])
    BY <1>1, <2>2 DEF SessionsInv, EntriesAgree
  <2>4. \A m \in RS!Started : info[m].stream = u =>
          info'[m].stream = u /\ (~info[m].closing => ~info'[m].closing)
    BY <1>2, <2>3
  <2>5. QED
    BY <1>2, <2>2, <2>4, StillServed
<1>7. QED
  BY <1>3, <1>4, <1>5, <1>6 DEF SessionsInv

\* What a start event finds is the entry of a prewarm that is open.
LEMMA FoundIsOpen ==
  ASSUME SessionsInv, NEW t \in Stream, RS!PrewarmFor(t) # None
  PROVE  /\ RS!PrewarmFor(t) \in RS!Prewarm
         /\ sessions[RS!PrewarmFor(t)] # 0
         /\ ~info[sessions[RS!PrewarmFor(t)]].closing
<1>1. /\ StreamSid[t] \in Sid \cup {None}
      /\ StreamPhones[t][1] \in Phone /\ StreamPhones[t][2] \in Phone
  BY VoiceAssumptions DEF RS!RuntimeSessionsAssumption
<1>2. /\ StreamSid[t] # None => byKey[StreamSid[t]] \in RS!Prewarm \cup {None}
      /\ byPhone[StreamPhones[t][1]] \in RS!Prewarm \cup {None}
      /\ byPhone[StreamPhones[t][2]] \in RS!Prewarm \cup {None}
      /\ StreamSid[t] # None => StreamSid[t] \in RS!Key
  BY <1>1 DEF SessionsInv, SessionTypes, RS!Key
<1>3. /\ RS!PrewarmFor(t) \in RS!Prewarm /\ sessions[RS!PrewarmFor(t)] # 0
      /\ \/ \E k \in RS!Key : byKey[k] = RS!PrewarmFor(t)
         \/ \E q \in Phone : byPhone[q] = RS!PrewarmFor(t)
  BY <1>1, <1>2 DEF RS!PrewarmFor
<1>4. QED
  BY <1>3 DEF SessionsInv, MappedAreOpen

\* A stream adopts the session of a prewarm: the entry moves to the stream.
LEMMA AdoptStep ==
  ASSUME SessionsInv, NEW t \in Stream, NEW e \in RS!Prewarm, sessions[e] # 0,
         ~info[sessions[e]].closing, RS!Adopt(e, t)
  PROVE  SessionsInv'
<1> DEFINE n == sessions[e]
<1>1. /\ t \in RS!Entry /\ t \notin RS!Prewarm /\ t # None
      /\ e \in RS!Entry /\ e \notin Stream /\ e # t /\ e # None
  BY VoiceAssumptions DEF RS!Entry, RS!EntryAssumption, RS!RuntimeSessionsAssumption
<1>2. /\ sessions' = [sessions EXCEPT ![e] = 0, ![t] = n]
      /\ info' = [info EXCEPT ![n].stream = t]
      /\ stream' = [stream EXCEPT ![t] = [pc |-> "served", starts |-> stream[t].starts + 1]]
      /\ UNCHANGED <<runtimeEndings, displaced>>
      /\ RS!ClearPrewarmMappings(e, t)
  BY DEF RS!Adopt, RS!Rekeyed
<1>3. /\ n \in RS!Started /\ n \in Nat /\ n # 0
      /\ info[n].stream = None /\ info[n].origin = e /\ info[n] \in SessionRecord
  BY <1>1 DEF SessionsInv, EntriesAgree, SessionTypes
<1>4. /\ sessions' \in [RS!Entry -> Nat]
      /\ sessions'[e] = 0 /\ sessions'[t] = n
      /\ \A f \in RS!Entry : f # e /\ f # t => sessions'[f] = sessions[f]
  BY <1>1, <1>2, <1>3 DEF SessionsInv, SessionTypes
<1>5. /\ RS!Started' = RS!Started
      /\ info' \in [RS!Started -> SessionRecord]
      /\ \A m \in RS!Started : /\ info'[m].origin = info[m].origin
                               /\ info'[m].closing = info[m].closing
                               /\ m # n => info'[m].stream = info[m].stream
      /\ info'[n].stream = t
  <2>1. RS!Started' = RS!Started
    BY <1>2, <1>3 DEF RS!Started
  <2>2. info' \in [RS!Started -> SessionRecord]
    BY <1>2, <1>3 DEF SessionsInv, SessionTypes, SessionRecord
  <2>3. \A m \in RS!Started : m # n => info'[m] = info[m]
    BY <1>2 DEF SessionsInv, SessionTypes
  <2>4. info'[n] = [info[n] EXCEPT !.stream = t]
    BY <1>2, <1>3 DEF SessionsInv, SessionTypes
  <2>5. QED
    BY <1>3, <2>1, <2>2, <2>3, <2>4 DEF SessionRecord
<1>6. /\ StreamSid[t] \in Sid \cup {None}
      /\ StreamPhones[t][1] \in Phone /\ StreamPhones[t][2] \in Phone
  BY VoiceAssumptions DEF RS!RuntimeSessionsAssumption
<1>7. RS!NoTimer \in [on : BOOLEAN, sid : Sid \cup {None}, phone : Phone \cup {None}]
  BY DEF RS!NoTimer
<1>8. /\ byKey' \in [RS!Key -> RS!Prewarm \cup {None}]
      /\ \A k \in RS!Key : byKey'[k] \in {None, byKey[k]}
  BY <1>2, <1>6 DEF RS!ClearPrewarmMappings, SessionsInv, SessionTypes, RS!Key
<1>9. /\ byPhone' \in [Phone -> RS!Prewarm \cup {None}]
      /\ \A q \in Phone : byPhone'[q] \in {None, byPhone[q]}
  BY <1>2, <1>6 DEF RS!ClearPrewarmMappings, SessionsInv, SessionTypes
<1>10. /\ cleanups' \in [RS!Key -> [on : BOOLEAN, sid : Sid \cup {None},
                                    phone : Phone \cup {None}]]
       /\ \A k \in RS!Key : cleanups'[k].on => cleanups'[k] = cleanups[k]
  BY <1>2, <1>6, <1>7
     DEF RS!ClearPrewarmMappings, SessionsInv, SessionTypes, RS!Key, RS!NoTimer
<1>11. /\ stream' \in [Stream -> [pc : {"none", "served", "restart", "gone"}, starts : Nat]]
       /\ \A u \in Stream : u # t => stream'[u] = stream[u]
  BY <1>2 DEF SessionsInv, SessionTypes
<1> HIDE DEF n
<1>12. SessionTypes'
  BY <1>4, <1>5, <1>8, <1>9, <1>10, <1>11 DEF SessionsInv, SessionTypes
<1>13. EntriesAgree'
  <2>1. SUFFICES ASSUME NEW f \in RS!Entry, sessions'[f] # 0
                 PROVE  /\ sessions'[f] \in RS!Started'
                        /\ f \in Stream => info'[sessions'[f]].stream = f
                        /\ f \in RS!Prewarm =>
                             /\ info'[sessions'[f]].stream = None
                             /\ info'[sessions'[f]].origin = f
    BY DEF EntriesAgree
  <2>2. CASE f = t
    BY <1>1, <1>3, <1>4, <1>5, <2>2
  <2>3. CASE f # t
    <3>1. f # e /\ sessions'[f] = sessions[f] /\ sessions[f] # 0
      BY <1>4, <2>1, <2>3
    <3>2. sessions[f] # n
      BY <1>1, <1>3, <3>1, VoiceAssumptions
         DEF SessionsInv, EntriesAgree, RS!Entry, RS!RuntimeSessionsAssumption
    <3>3. QED
      BY <1>5, <3>1, <3>2 DEF SessionsInv, EntriesAgree
  <2>4. QED
    BY <2>2, <2>3
<1>14. NumbersOfKeys'
  <2>1. \A j \in RS!Key : <<"prewarm", j>> # None
    BY VoiceAssumptions DEF RS!EntryAssumption, RS!Prewarm
  <2>2. SUFFICES ASSUME NEW j \in RS!Key
                 PROVE  /\ byKey'[j] \in {None, <<"prewarm", j>>}
                        /\ \A q \in Phone : byPhone'[q] = <<"prewarm", j>> =>
                             \E d \in Dial : RS!KeyOf(d) = j /\ DialPhone[d] = q
                        /\ cleanups'[j].on =>
                             \E d \in Dial : /\ RS!KeyOf(d) = j
                                             /\ cleanups'[j].phone = DialPhone[d]
    BY DEF NumbersOfKeys
  <2>3. \A q \in Phone : byPhone'[q] = <<"prewarm", j>> => byPhone[q] = <<"prewarm", j>>
    BY <1>9, <2>1
  <2>4. QED
    BY <1>8, <1>10, <2>3 DEF SessionsInv, NumbersOfKeys
<1>15. MappedAreOpen'
  <2>1. SUFFICES ASSUME NEW f \in RS!Prewarm, sessions'[f] # 0,
                        \/ \E j \in RS!Key : byKey'[j] = f
                        \/ \E q \in Phone : byPhone'[q] = f
                 PROVE  ~info'[sessions'[f]].closing
    BY DEF MappedAreOpen
  <2>2. f \in RS!Entry /\ f # None /\ f # t
    BY <1>1, VoiceAssumptions DEF RS!EntryAssumption, RS!Entry
  <2>3. sessions'[f] = sessions[f]
    BY <1>4, <2>1, <2>2
  <2>4. (\E j \in RS!Key : byKey[j] = f) \/ (\E q \in Phone : byPhone[q] = f)
    BY <1>8, <1>9, <2>1, <2>2
  <2>5. QED
    BY <1>5, <2>1, <2>2, <2>3, <2>4 DEF SessionsInv, MappedAreOpen, EntriesAgree
<1>16. RS!StreamIsServed'
  <2>1. SUFFICES ASSUME NEW u \in Stream, stream'[u].pc = "served"
                 PROVE  \E m \in RS!Started' : /\ info'[m].stream = u /\ ~info'[m].closing
                                               /\ sessions'[u] = m \/ m \in displaced'
    BY DEF RS!StreamIsServed
  <2>2. CASE u = t
    <3>1. ~info[n].closing
      BY DEF n
    <3>2. QED
      BY <1>3, <1>4, <1>5, <2>2, <3>1
  <2>3. CASE u # t
    <3>1. u \in RS!Entry /\ stream[u].pc = "served" /\ RS!StreamIsServed
      BY <1>11, <2>1, <2>3 DEF RS!Entry, SessionsInv
    <3>2. \A m \in RS!Started : info[m].stream = u => m # n
      BY <1>3, VoiceAssumptions DEF RS!RuntimeSessionsAssumption
    <3>3. u # e
      BY <1>1
    <3>4. QED
      BY <1>2, <1>4, <1>5, <2>3, <3>1, <3>2, <3>3, StillServed
  <2>4. QED
    BY <2>2, <2>3
<1>17. QED
  BY <1>12, <1>13, <1>14, <1>15, <1>16 DEF SessionsInv

\* A start event, whether it finds a prewarm, ends the stream's own session
\* first, or starts one.
LEMMA CreateStep ==
  ASSUME SessionsInv, NEW t \in Stream, RS!CreateSession(t)
  PROVE  SessionsInv'
<1>1. CASE RS!PrewarmFor(t) # None
  <2>1. RS!Adopt(RS!PrewarmFor(t), t)
    BY <1>1 DEF RS!CreateSession
  <2>2. QED
    BY <1>1, <2>1, FoundIsOpen, AdoptStep
<1>2. CASE RS!PrewarmFor(t) = None /\ sessions[t] # 0
  <2>1. /\ RS!BeginEnd(t) /\ UNCHANGED <<sessions, byKey, byPhone, cleanups, displaced>>
        /\ stream' = [stream EXCEPT ![t] =
                        [pc |-> "restart", starts |-> stream[t].starts + 1]]
    BY <1>2 DEF RS!CreateSession
  <2>2. /\ stream' \in [Stream -> [pc : {"none", "served", "restart", "gone"}, starts : Nat]]
        /\ \A other \in Stream \ {t} : stream'[other] = stream[other]
        /\ stream'[t].pc # "served"
    BY <2>1 DEF SessionsInv, SessionTypes
  <2>3. QED
    BY <2>1, <2>2, StreamCloses
<1>3. CASE RS!PrewarmFor(t) = None /\ sessions[t] = 0
  <2>1. /\ RS!StartOpenAiSession(t, t) /\ UNCHANGED <<byKey, byPhone, cleanups, displaced>>
        /\ stream' = [stream EXCEPT ![t] =
                        [pc |-> "served", starts |-> stream[t].starts + 1]]
    BY <1>3 DEF RS!CreateSession
  <2>2. /\ stream' \in [Stream -> [pc : {"none", "served", "restart", "gone"}, starts : Nat]]
        /\ \A other \in Stream \ {t} : stream'[other] = stream[other]
    BY <2>1 DEF SessionsInv, SessionTypes
  <2>3. QED
    BY <2>1, <2>2, StreamStarts
<1>4. QED
  BY <1>1, <1>2, <1>3

\* The runtime sessions' variables are disturbed only by their own steps.
LEMMA SessionsAct ==
  ASSUME [MCNext]_allVars
  PROVE  RS!Next \/ UNCHANGED sessionsVars
BY DEF MCNext, allVars, sessionsVars

\* Every step keeps the map of sessions in order.
LEMMA SessionsStep == SessionsInv /\ [MCNext]_allVars => SessionsInv'
<1> SUFFICES ASSUME SessionsInv, [MCNext]_allVars PROVE SessionsInv'
  OBVIOUS
<1>1. CASE UNCHANGED sessionsVars
  <2>1. RS!Started' = RS!Started
    BY <1>1 DEF RS!Started, sessionsVars
  <2>2. SessionTypes' /\ NumbersOfKeys'
    BY <1>1, <2>1 DEF sessionsVars, SessionsInv, SessionTypes, NumbersOfKeys
  <2>3. EntriesAgree' /\ MappedAreOpen'
    BY <1>1, <2>1 DEF sessionsVars, SessionsInv, EntriesAgree, MappedAreOpen
  <2>4. RS!StreamIsServed'
    BY <1>1, <2>1 DEF sessionsVars, SessionsInv, RS!StreamIsServed
  <2>5. QED
    BY <2>2, <2>3, <2>4 DEF SessionsInv
<1>2. ASSUME NEW d \in Dial, RS!PrewarmAuthorizedCall(d) PROVE SessionsInv'
  BY <1>2, PrewarmStep
<1>3. ASSUME NEW k \in RS!Key, RS!PrewarmExpires(k) PROVE SessionsInv'
  BY <1>3, ExpiryStep
<1>4. ASSUME NEW t \in Stream, RS!CreateSession(t) PROVE SessionsInv'
  BY <1>4, CreateStep
<1>5. ASSUME NEW t \in Stream, RS!CreateAgain(t) PROVE SessionsInv'
  <2>1. stream' = [stream EXCEPT ![t].pc = "served"]
    BY <1>5 DEF RS!CreateAgain
  <2>2. /\ stream' \in [Stream -> [pc : {"none", "served", "restart", "gone"}, starts : Nat]]
        /\ \A other \in Stream \ {t} : stream'[other] = stream[other]
    BY <2>1 DEF SessionsInv, SessionTypes
  <2>3. QED
    BY <1>5, <2>2, StreamStarts DEF RS!CreateAgain
<1>6. ASSUME NEW t \in Stream, RS!StreamStops(t) PROVE SessionsInv'
  <2>1. stream' = [stream EXCEPT ![t].pc = "gone"]
    BY <1>6 DEF RS!StreamStops
  <2>2. /\ stream' \in [Stream -> [pc : {"none", "served", "restart", "gone"}, starts : Nat]]
        /\ \A other \in Stream \ {t} : stream'[other] = stream[other]
        /\ stream'[t].pc # "served"
    BY <2>1 DEF SessionsInv, SessionTypes
  <2>3. QED
    BY <1>6, <2>2, StreamCloses DEF RS!StreamStops
<1>7. ASSUME NEW n \in RS!Started, RS!SocketCloses(n) PROVE SessionsInv'
  <2>1. info' = [info EXCEPT ![n].ws = "closed"]
    BY <1>7 DEF RS!SocketCloses
  <2>2. /\ RS!Started' = RS!Started /\ info' \in [RS!Started -> SessionRecord]
        /\ \A m \in RS!Started : /\ info'[m].stream = info[m].stream
                                 /\ info'[m].origin = info[m].origin
                                 /\ info'[m].closing = info[m].closing
    BY <2>1, ZenonT(60) DEF SessionsInv, SessionTypes, SessionRecord, RS!Started
  <2>3. CASE info[n].closing
    BY <1>7, <2>2, <2>3, EntryDeleted DEF RS!SocketCloses, RS!Closing
  <2>4. CASE ~info[n].closing
    <3>1. UNCHANGED <<sessions, byKey, byPhone, cleanups, stream, displaced>>
      BY <1>7, <2>4 DEF RS!SocketCloses, RS!Closing
    <3>2. SessionTypes' /\ NumbersOfKeys'
      BY <2>2, <3>1 DEF SessionsInv, SessionTypes, NumbersOfKeys
    <3>3. EntriesAgree' /\ MappedAreOpen'
      BY <2>2, <3>1 DEF SessionsInv, EntriesAgree, MappedAreOpen, RS!Entry
    <3>4. RS!StreamIsServed'
      BY <2>2, <3>1 DEF SessionsInv, RS!StreamIsServed
    <3>5. QED
      BY <3>2, <3>3, <3>4 DEF SessionsInv
  <2>5. QED
    BY <2>3, <2>4
<1>8. ASSUME NEW x \in runtimeEndings, RS!EndSession(x) PROVE SessionsInv'
  <2>1. UNCHANGED info /\ RS!Started' = RS!Started
    BY <1>8 DEF RS!EndSession, RS!Started
  <2>2. QED
    BY <1>8, <2>1, EntryDeleted DEF RS!EndSession, SessionsInv, SessionTypes
<1>9. QED
  BY <1>1, <1>2, <1>3, <1>4, <1>5, <1>6, <1>7, <1>8, SessionsAct DEF RS!Next

\* At first there are no sessions.
LEMMA SessionsInit == MCInit => SessionsInv
<1> SUFFICES ASSUME RS!Init PROVE SessionsInv
  BY DEF MCInit
<1>1. RS!Started = 1..0
  BY DEF RS!Init, RS!Started
<1>2. info \in [RS!Started -> SessionRecord]
  BY DEF RS!Init, RS!Started
<1>3. SessionTypes
  BY <1>1, <1>2 DEF RS!Init, SessionTypes, RS!NoTimer
<1>4. EntriesAgree /\ MappedAreOpen
  BY DEF RS!Init, EntriesAgree, MappedAreOpen, RS!Entry
<1>5. \A j \in RS!Key : <<"prewarm", j>> # None
  BY VoiceAssumptions DEF RS!EntryAssumption, RS!Prewarm
<1>6. NumbersOfKeys
  BY <1>5 DEF RS!Init, NumbersOfKeys, RS!NoTimer
<1>7. RS!StreamIsServed
  BY DEF RS!Init, RS!StreamIsServed
<1>8. QED
  BY <1>3, <1>4, <1>6, <1>7 DEF SessionsInv

\* What the sessions' map promises, in every state.
THEOREM SessionsAreKept == MCSpec => []SessionsInv
<1>1. MCInit => SessionsInv
  BY SessionsInit
<1>2. SessionsInv /\ [MCNext]_allVars => SessionsInv'
  BY SessionsStep
<1>3. QED
  BY <1>1, <1>2, PTL DEF MCSpec

\* What ends a session that has a stream.
EndedByItsStream ==
  \A n \in RS!Started :
    (info[n].stream # None /\ ~info[n].closing /\ info'[n].closing)
      => stream'[info[n].stream].pc \in {"gone", "restart"}

\* Only the stream's own stop or restart closes a session that has a stream.
LEMMA StreamsEndSessions ==
  ASSUME SessionsInv, [MCNext]_allVars
  PROVE  [EndedByItsStream]_sessionsVars
<1> SUFFICES ASSUME ~ UNCHANGED sessionsVars PROVE EndedByItsStream
  OBVIOUS
<1>1. ASSUME \A n \in RS!Started : info'[n].closing = info[n].closing
      PROVE  EndedByItsStream
  BY <1>1 DEF EndedByItsStream
<1>2. ASSUME NEW e \in RS!Entry, NEW t \in Stream \cup {None}, RS!StartOpenAiSession(e, t)
      PROVE  EndedByItsStream
  <2>1. \A n \in RS!Started : info'[n] = info[n]
    BY <1>2, SessionStarts DEF SessionsInv
  <2>2. QED
    BY <1>1, <2>1
<1>3. ASSUME NEW t \in Stream, RS!BeginEnd(t), stream'[t].pc \in {"gone", "restart"}
      PROVE  EndedByItsStream
  <2>1. \A n \in RS!Started :
          info'[n].closing = (info[n].closing \/ (sessions[t] # 0 /\ n = sessions[t]))
    BY <1>3, SessionCloses DEF SessionsInv, RS!Entry
  <2>2. sessions[t] # 0 => info[sessions[t]].stream = t
    BY DEF SessionsInv, EntriesAgree, RS!Entry
  <2>3. QED
    BY <1>3, <2>1, <2>2 DEF EndedByItsStream
<1>4. ASSUME NEW d \in Dial, RS!PrewarmAuthorizedCall(d) PROVE EndedByItsStream
  <2>1. RS!KeyOf(d) \in RS!Key
    BY VoiceAssumptions DEF RS!RuntimeSessionsAssumption, RS!KeyOf, RS!Key
  <2>2. <<"prewarm", RS!KeyOf(d)>> \in RS!Entry
    BY <2>1 DEF RS!Entry, RS!Prewarm
  <2>3. QED
    BY <1>2, <1>4, <2>2 DEF RS!PrewarmAuthorizedCall
<1>5. ASSUME NEW k \in RS!Key, RS!PrewarmExpires(k) PROVE EndedByItsStream
  <2> DEFINE e == <<"prewarm", k>>
  <2>1. e \in RS!Prewarm /\ e \in RS!Entry
    BY DEF RS!Prewarm, RS!Entry
  <2>2. sessions[e] # 0 => info[sessions[e]].stream = None
    BY <2>1 DEF SessionsInv, EntriesAgree
  <2>3. RS!BeginEnd(e) \/ UNCHANGED info
    BY <1>5 DEF RS!PrewarmExpires
  <2> HIDE DEF e
  <2>4. CASE RS!BeginEnd(e)
    <3>1. \A n \in RS!Started :
            info'[n].closing = (info[n].closing \/ (sessions[e] # 0 /\ n = sessions[e]))
      BY <2>1, <2>4, SessionCloses DEF SessionsInv
    <3>2. QED
      BY <2>2, <3>1 DEF EndedByItsStream
  <2>5. QED
    BY <1>1, <2>3, <2>4
<1>6. ASSUME NEW t \in Stream, RS!CreateSession(t) PROVE EndedByItsStream
  <2>1. CASE RS!PrewarmFor(t) # None
    <3> DEFINE n == sessions[RS!PrewarmFor(t)]
    <3>1. info' = [info EXCEPT ![n].stream = t]
      BY <1>6, <2>1 DEF RS!CreateSession, RS!Adopt
    <3>2. \A m \in RS!Started : info'[m].closing = info[m].closing
      BY <3>1 DEF SessionsInv, SessionTypes, SessionRecord
    <3>3. QED
      BY <1>1, <3>2
  <2>2. CASE RS!PrewarmFor(t) = None /\ sessions[t] # 0
    <3>1. /\ RS!BeginEnd(t)
          /\ stream' = [stream EXCEPT ![t] =
                          [pc |-> "restart", starts |-> stream[t].starts + 1]]
      BY <1>6, <2>2 DEF RS!CreateSession
    <3>2. stream'[t].pc = "restart"
      BY <3>1 DEF SessionsInv, SessionTypes
    <3>3. QED
      BY <1>3, <3>1, <3>2
  <2>3. CASE RS!PrewarmFor(t) = None /\ sessions[t] = 0
    BY <1>2, <1>6, <2>3 DEF RS!CreateSession, RS!Entry
  <2>4. QED
    BY <2>1, <2>2, <2>3
<1>7. ASSUME NEW t \in Stream, RS!CreateAgain(t) PROVE EndedByItsStream
  BY <1>2, <1>7 DEF RS!CreateAgain, RS!Entry
<1>8. ASSUME NEW t \in Stream, RS!StreamStops(t) PROVE EndedByItsStream
  <2>1. stream'[t].pc = "gone"
    BY <1>8 DEF RS!StreamStops, SessionsInv, SessionTypes
  <2>2. QED
    BY <1>3, <1>8, <2>1 DEF RS!StreamStops
<1>9. ASSUME NEW n \in RS!Started, RS!SocketCloses(n) PROVE EndedByItsStream
  <2>1. info' = [info EXCEPT ![n].ws = "closed"]
    BY <1>9 DEF RS!SocketCloses
  <2>2. \A m \in RS!Started : info'[m].closing = info[m].closing
    BY <2>1 DEF SessionsInv, SessionTypes, SessionRecord
  <2>3. QED
    BY <1>1, <2>2
<1>10. ASSUME NEW x \in runtimeEndings, RS!EndSession(x) PROVE EndedByItsStream
  BY <1>1, <1>10 DEF RS!EndSession
<1>11. QED
  BY <1>4, <1>5, <1>6, <1>7, <1>8, <1>9, <1>10, SessionsAct DEF RS!Next

\* For every set of calls dialled and streams: the expiry of a prewarm, late as
\* it may be, ends no session that a stream has adopted.
THEOREM ExpirySparesAdopted == MCSpec => ExpirySparesCalls
<1>1. SessionsInv /\ [MCNext]_allVars => [EndedByItsStream]_sessionsVars
  BY StreamsEndSessions
<1>2. MCSpec => [][EndedByItsStream]_sessionsVars
  BY <1>1, SessionsAreKept, PTL DEF MCSpec
<1>3. QED
  BY <1>2 DEF ExpirySparesCalls, RS!ExpirySparesCalls, EndedByItsStream, RS!vars,
              sessionsVars

-----------------------------------------------------------------------------
(* The sessions that no call takes.                                        *)

\* The key leads to its prewarm, and that has an entry.
Findable(k) == sessions[<<"prewarm", k>>] # 0 /\ byKey[k] = <<"prewarm", k>>

\* A session that serves nobody is in the entry it was started for, the key leads
\* to it and its timer runs, unless it is closing or its entry was deleted.
PrewarmsWait ==
  \A n \in RS!Started :
    info[n].stream = None /\ ~info[n].closing /\ n \notin displaced =>
      \E k \in RS!Key : /\ info[n].origin = <<"prewarm", k>>
                        /\ sessions[<<"prewarm", k>>] = n
                        /\ byKey[k] = <<"prewarm", k>> /\ cleanups[k].on

\* All calls to a number are prewarmed without a call SID.
WithoutSid(q) == \A d \in Dial : DialPhone[d] = q => DialSid[d] = None

\* Such a number leads to the prewarm that its key leads to.
NumbersLead == \A q \in Phone : Findable(q) /\ WithoutSid(q) => byPhone[q] = <<"prewarm", q>>

\* A call SID is no number, and a stream that names no SID is not for a number
\* that was prewarmed with a SID and without one.
KeysApart ==
  /\ Sid \cap Phone = {}
  /\ \A t \in Stream, d \in Dial :
       StreamSid[t] = None /\ DialSid[d] = None /\ DialPhone[d] = StreamPhones[t][1]
         => WithoutSid(DialPhone[d])

\* The invariant of the sessions that wait for a call.
WaitingInv == SessionsInv /\ PrewarmsWait /\ NumbersLead

\* A connection to OpenAI that no call has taken is being closed, or is in reach
\* of its timer, or lost its entry to the ending of an earlier prewarm.
UnusedIsTimed ==
  \A n \in RS!Started : RS!Idle(n) /\ n \notin displaced =>
    \/ info[n].closing
    \/ \E k \in RS!Key : /\ cleanups[k].on /\ byKey[k] = <<"prewarm", k>>
                         /\ sessions[<<"prewarm", k>>] = n

\* The entry of a key is an entry, and no stream's.
LEMMA KeysHaveEntries ==
  ASSUME NEW k \in RS!Key
  PROVE  /\ <<"prewarm", k>> \in RS!Prewarm /\ <<"prewarm", k>> \in RS!Entry
         /\ <<"prewarm", k>> \notin Stream /\ <<"prewarm", k>> # None
BY VoiceAssumptions DEF RS!Prewarm, RS!Entry, RS!EntryAssumption

\* A number is a key.
LEMMA NumbersAreKeys == Phone \subseteq RS!Key
BY DEF RS!Key

\* What a step does to the sessions that wait, when keys and timers stay.
LEMMA WaitingStays ==
  ASSUME PrewarmsWait, NumbersLead, UNCHANGED <<byKey, byPhone, cleanups>>,
         displaced \subseteq displaced',
         \A n \in RS!Started' \ RS!Started : info'[n].stream # None,
         \A n \in RS!Started \cap RS!Started' :
           /\ info'[n].stream = info[n].stream /\ info'[n].origin = info[n].origin
           /\ info[n].closing => info'[n].closing,
         \A k \in RS!Key :
           \/ sessions'[<<"prewarm", k>>] = sessions[<<"prewarm", k>>]
           \/ /\ sessions'[<<"prewarm", k>>] = 0
              /\ sessions[<<"prewarm", k>>] \in RS!Started' =>
                   \/ info'[sessions[<<"prewarm", k>>]].closing
                   \/ sessions[<<"prewarm", k>>] \in displaced'
  PROVE  PrewarmsWait' /\ NumbersLead'
<1>1. ASSUME NEW n \in RS!Started', info'[n].stream = None, ~info'[n].closing,
             n \notin displaced'
      PROVE  \E k \in RS!Key : /\ info'[n].origin = <<"prewarm", k>>
                               /\ sessions'[<<"prewarm", k>>] = n
                               /\ byKey'[k] = <<"prewarm", k>> /\ cleanups'[k].on
  <2>1. n \in RS!Started /\ info[n].stream = None /\ ~info[n].closing /\ n \notin displaced
    BY <1>1
  <2>2. PICK k \in RS!Key : /\ info[n].origin = <<"prewarm", k>>
                            /\ sessions[<<"prewarm", k>>] = n
                            /\ byKey[k] = <<"prewarm", k>> /\ cleanups[k].on
    BY <2>1 DEF PrewarmsWait
  <2>3. sessions'[<<"prewarm", k>>] = n
    BY <1>1, <2>2
  <2> QED BY <1>1, <2>1, <2>2, <2>3
<1>2. NumbersLead'
  <2>1. \A q \in Phone : Findable(q)' => Findable(q)
    BY NumbersAreKeys DEF Findable
  <2> QED BY <2>1 DEF NumbersLead
<1> QED BY <1>1, <1>2 DEF PrewarmsWait

\* A prewarm: its own timer runs, and it replaces nobody who waits.
LEMMA WaitingPrewarm ==
  ASSUME WaitingInv, KeysApart, NEW d \in Dial, RS!PrewarmAuthorizedCall(d)
  PROVE  PrewarmsWait' /\ NumbersLead'
<1> DEFINE k == RS!KeyOf(d)
           e == <<"prewarm", k>>
<1>1. k \in RS!Key /\ DialPhone[d] \in Phone /\ DialSid[d] \in Sid \cup {None}
  BY VoiceAssumptions DEF RS!RuntimeSessionsAssumption, RS!KeyOf, RS!Key
<1>2. e \in RS!Entry /\ e # None
  BY <1>1, KeysHaveEntries
<1>3. /\ RS!StartOpenAiSession(e, None) /\ byKey[k] = None
      /\ byKey' = [byKey EXCEPT ![k] = e]
      /\ byPhone' = [byPhone EXCEPT ![DialPhone[d]] = e]
      /\ cleanups' = [cleanups EXCEPT ![k] =
                        [on |-> TRUE, sid |-> DialSid[d], phone |-> DialPhone[d]]]
      /\ displaced' = displaced
  BY DEF RS!PrewarmAuthorizedCall, RS!Unprewarmed
<1>4. PICK n \in Nat \ {0} :
        /\ n \notin RS!Started
        /\ RS!Started' = RS!Started \cup {n}
        /\ \A m \in RS!Started : info'[m] = info[m]
        /\ info'[n] = [origin |-> e, stream |-> None, ws |-> "open", closing |-> FALSE]
        /\ sessions' = [sessions EXCEPT ![e] = n]
  BY <1>2, <1>3, SessionStarts DEF WaitingInv, SessionsInv
<1>5. /\ sessions'[e] = n /\ byKey'[k] = e /\ cleanups'[k].on
      /\ byPhone'[DialPhone[d]] = e
      /\ \A q \in Phone : q # DialPhone[d] => byPhone'[q] = byPhone[q]
  BY <1>1, <1>2, <1>3, <1>4 DEF WaitingInv, SessionsInv, SessionTypes
<1>6. \A j \in RS!Key : j # k =>
        /\ sessions'[<<"prewarm", j>>] = sessions[<<"prewarm", j>>]
        /\ byKey'[j] = byKey[j] /\ cleanups'[j] = cleanups[j]
  BY <1>3, <1>4, KeysHaveEntries DEF WaitingInv, SessionsInv, SessionTypes
<1> HIDE DEF e
<1>7. ASSUME NEW m \in RS!Started', info'[m].stream = None, ~info'[m].closing,
             m \notin displaced'
      PROVE  \E j \in RS!Key : /\ info'[m].origin = <<"prewarm", j>>
                               /\ sessions'[<<"prewarm", j>>] = m
                               /\ byKey'[j] = <<"prewarm", j>> /\ cleanups'[j].on
  <2>1. CASE m = n
    BY <1>1, <1>4, <1>5, <2>1 DEF e
  <2>2. CASE m # n
    <3>1. PICK j \in RS!Key : /\ info[m].origin = <<"prewarm", j>>
                              /\ sessions[<<"prewarm", j>>] = m
                              /\ byKey[j] = <<"prewarm", j>> /\ cleanups[j].on
      BY <1>3, <1>4, <1>7, <2>2 DEF WaitingInv, PrewarmsWait
    <3>2. j # k
      BY <1>3, <3>1, KeysHaveEntries
    <3> QED BY <1>4, <1>6, <1>7, <2>2, <3>1, <3>2
  <2> QED BY <2>1, <2>2
<1>8. ASSUME NEW q \in Phone, Findable(q)', WithoutSid(q)
      PROVE  byPhone'[q] = <<"prewarm", q>>
  <2>1. CASE k = q
    <3>1. DialSid[d] = None /\ DialPhone[d] = q
      BY <1>1, <2>1 DEF RS!KeyOf, KeysApart
    <3> QED BY <1>5, <2>1, <3>1 DEF e
  <2>2. CASE k # q
    <3>1. DialPhone[d] # q
      BY <1>8, <2>2 DEF WithoutSid, RS!KeyOf
    <3>2. Findable(q)
      BY <1>6, <1>8, <2>2, NumbersAreKeys DEF Findable
    <3> QED BY <1>5, <1>8, <3>1, <3>2 DEF WaitingInv, NumbersLead
  <2> QED BY <2>1, <2>2
<1>9. PrewarmsWait'
  BY <1>7 DEF PrewarmsWait
<1>10. NumbersLead'
  BY <1>8 DEF NumbersLead, WithoutSid
<1> QED BY <1>9, <1>10

\* The timer ends what waits under its key, and takes no number from another.
LEMMA WaitingExpiry ==
  ASSUME WaitingInv, NEW k \in RS!Key, RS!PrewarmExpires(k)
  PROVE  PrewarmsWait' /\ NumbersLead'
<1> DEFINE e == <<"prewarm", k>>
<1>1. e \in RS!Entry /\ e # None
  BY KeysHaveEntries
<1>2. /\ cleanups[k].on /\ cleanups' = [cleanups EXCEPT ![k] = RS!NoTimer]
      /\ UNCHANGED <<sessions, displaced>>
  BY DEF RS!PrewarmExpires
<1>3. \A j \in RS!Key : j # k => cleanups'[j] = cleanups[j]
  BY <1>2 DEF WaitingInv, SessionsInv, SessionTypes
<1>4. CASE byKey[k] = e
  <2>1. /\ byKey' = [byKey EXCEPT ![k] = None]
        /\ byPhone' = [byPhone EXCEPT ![cleanups[k].phone] = None]
        /\ RS!BeginEnd(e)
    BY <1>4 DEF RS!PrewarmExpires
  <2>2. /\ RS!Started' = RS!Started
        /\ \A m \in RS!Started :
             /\ info'[m].stream = info[m].stream /\ info'[m].origin = info[m].origin
             /\ info'[m].closing =
                  (info[m].closing \/ (sessions[e] # 0 /\ m = sessions[e]))
    BY <1>1, <2>1, SessionCloses DEF WaitingInv, SessionsInv
  <2>3. /\ byKey'[k] = None
        /\ \A j \in RS!Key : j # k => byKey'[j] = byKey[j]
        /\ \A q \in Phone : q # cleanups[k].phone => byPhone'[q] = byPhone[q]
    BY <2>1 DEF WaitingInv, SessionsInv, SessionTypes
  <2>4. PICK d \in Dial : RS!KeyOf(d) = k /\ cleanups[k].phone = DialPhone[d]
    BY <1>2 DEF WaitingInv, SessionsInv, NumbersOfKeys
  <2> HIDE DEF e
  <2>5. ASSUME NEW m \in RS!Started', info'[m].stream = None, ~info'[m].closing,
               m \notin displaced'
        PROVE  \E j \in RS!Key : /\ info'[m].origin = <<"prewarm", j>>
                                 /\ sessions'[<<"prewarm", j>>] = m
                                 /\ byKey'[j] = <<"prewarm", j>> /\ cleanups'[j].on
    <3>1. PICK j \in RS!Key : /\ info[m].origin = <<"prewarm", j>>
                              /\ sessions[<<"prewarm", j>>] = m
                              /\ byKey[j] = <<"prewarm", j>> /\ cleanups[j].on
      BY <1>2, <2>2, <2>5 DEF WaitingInv, PrewarmsWait
    <3>2. m # 0
      BY <2>2, <2>5 DEF WaitingInv, SessionsInv, SessionTypes
    <3>3. j # k
      BY <2>2, <2>5, <3>1, <3>2 DEF e
    <3> QED BY <1>2, <1>3, <2>2, <2>3, <2>5, <3>1, <3>3
  <2>6. ASSUME NEW q \in Phone, Findable(q)', WithoutSid(q)
        PROVE  byPhone'[q] = <<"prewarm", q>>
    <3>1. q # k /\ Findable(q)
      BY <1>2, <2>3, <2>6, NumbersAreKeys, KeysHaveEntries DEF Findable
    <3>2. q # DialPhone[d]
      BY <2>4, <2>6, <3>1 DEF WithoutSid, RS!KeyOf
    <3> QED BY <2>3, <2>4, <2>6, <3>1, <3>2 DEF WaitingInv, NumbersLead
  <2>7. PrewarmsWait'
    BY <2>5 DEF PrewarmsWait
  <2>8. NumbersLead'
    BY <2>6 DEF NumbersLead, WithoutSid
  <2> QED BY <2>7, <2>8
<1>5. CASE byKey[k] # e
  <2>1. UNCHANGED <<info, byKey, byPhone>> /\ RS!Started' = RS!Started
    BY <1>5 DEF RS!PrewarmExpires, RS!Started
  <2>2. PrewarmsWait'
    BY <1>2, <1>3, <1>5, <2>1, ZenonT(60) DEF WaitingInv, PrewarmsWait
  <2>3. NumbersLead'
    BY <1>2, <2>1 DEF WaitingInv, NumbersLead, Findable, WithoutSid
  <2> QED BY <2>2, <2>3
<1> QED BY <1>4, <1>5

\* The timer that adoption stops is that of the session adopted, or of a key
\* under which nobody waits.
LEMMA OnlyItsTimer ==
  ASSUME WaitingInv, KeysApart, NEW t \in Stream, RS!PrewarmFor(t) # None,
         NEW k \in RS!Key, Findable(k), cleanups[k].on,
         k = (IF StreamSid[t] # None THEN StreamSid[t] ELSE StreamPhones[t][1])
  PROVE  RS!PrewarmFor(t) = <<"prewarm", k>>
<1>1. CASE StreamSid[t] # None
  <2>1. byKey[StreamSid[t]] = <<"prewarm", k>> /\ sessions[<<"prewarm", k>>] # 0
    BY <1>1 DEF Findable
  <2> QED BY <1>1, <2>1, KeysHaveEntries DEF RS!PrewarmFor
<1>2. CASE StreamSid[t] = None
  <2>1. k = StreamPhones[t][1] /\ k \in Phone
    BY <1>2, VoiceAssumptions DEF RS!RuntimeSessionsAssumption
  <2>2. <<"prewarm", k>> # None /\ byKey[k] = <<"prewarm", k>>
    BY KeysHaveEntries DEF Findable
  <2>3. WithoutSid(k)
    <3>1. PICK d \in Dial : RS!KeyOf(d) = k
      BY DEF WaitingInv, SessionsInv, NumbersOfKeys
    <3>2. DialSid[d] = None /\ DialPhone[d] = k
      BY <2>1, <3>1, VoiceAssumptions DEF RS!KeyOf, RS!RuntimeSessionsAssumption, KeysApart
    <3> QED BY <1>2, <2>1, <3>2 DEF KeysApart
  <2>4. byPhone[k] = <<"prewarm", k>>
    BY <2>1, <2>3 DEF WaitingInv, NumbersLead
  <2> QED BY <1>2, <2>1, <2>2, <2>4 DEF RS!PrewarmFor, Findable
<1> QED BY <1>1, <1>2

\* A start event takes one session out of those that wait and leaves the others
\* their keys and timers.
LEMMA WaitingAdopt ==
  ASSUME WaitingInv, KeysApart, NEW t \in Stream, RS!PrewarmFor(t) # None,
         RS!Adopt(RS!PrewarmFor(t), t)
  PROVE  PrewarmsWait' /\ NumbersLead'
<1> DEFINE e == RS!PrewarmFor(t)
           n == sessions[e]
           key == IF StreamSid[t] # None THEN StreamSid[t] ELSE StreamPhones[t][1]
<1>1. /\ e \in RS!Prewarm /\ e \in RS!Entry /\ e # t /\ e # None /\ t \notin RS!Prewarm
      /\ t # None /\ t \in RS!Entry
  BY FoundIsOpen, VoiceAssumptions
     DEF WaitingInv, RS!Entry, RS!EntryAssumption, RS!RuntimeSessionsAssumption
<1>2. n # 0 /\ n \in RS!Started /\ info[n].stream = None /\ info[n].origin = e
  BY <1>1, FoundIsOpen DEF WaitingInv, SessionsInv, EntriesAgree
<1>3. /\ sessions' = [sessions EXCEPT ![e] = 0, ![t] = n]
      /\ info' = [info EXCEPT ![n].stream = t]
      /\ displaced' = displaced
      /\ cleanups' = [cleanups EXCEPT ![key] = RS!NoTimer]
      /\ byKey' = [byKey EXCEPT ![key] = IF byKey[key] = e THEN None ELSE byKey[key]]
      /\ byPhone' = [byPhone EXCEPT ![StreamPhones[t][1]] =
                       IF byPhone[StreamPhones[t][1]] = e
                         THEN None ELSE byPhone[StreamPhones[t][1]]]
  BY DEF RS!Adopt, RS!Rekeyed, RS!ClearPrewarmMappings
<1>4. /\ sessions'[e] = 0
      /\ \A f \in RS!Prewarm : f # e => sessions'[f] = sessions[f]
  BY <1>1, <1>3 DEF WaitingInv, SessionsInv, SessionTypes, RS!Entry
<1>5. /\ RS!Started' = RS!Started /\ info'[n].stream = t
      /\ \A m \in RS!Started : m # n => info'[m] = info[m]
  <2>1. RS!Started' = RS!Started
    BY <1>2, <1>3 DEF RS!Started
  <2>2. /\ \A m \in RS!Started : m # n => info'[m] = info[m]
        /\ info'[n] = [info[n] EXCEPT !.stream = t] /\ info[n] \in SessionRecord
    BY <1>2, <1>3 DEF WaitingInv, SessionsInv, SessionTypes
  <2> QED BY <2>1, <2>2 DEF SessionRecord
<1>6. /\ \A k \in RS!Key : byKey[k] # e => byKey'[k] = byKey[k]
      /\ \A q \in Phone : byPhone[q] # e => byPhone'[q] = byPhone[q]
      /\ \A k \in RS!Key : k # key => cleanups'[k] = cleanups[k]
      /\ \A k \in RS!Key : byKey'[k] \in {None, byKey[k]}
  BY <1>3 DEF WaitingInv, SessionsInv, SessionTypes
<1> HIDE DEF n, e
<1>7. ASSUME NEW m \in RS!Started', info'[m].stream = None, ~info'[m].closing,
             m \notin displaced'
      PROVE  \E j \in RS!Key : /\ info'[m].origin = <<"prewarm", j>>
                               /\ sessions'[<<"prewarm", j>>] = m
                               /\ byKey'[j] = <<"prewarm", j>> /\ cleanups'[j].on
  <2>1. m \in RS!Started /\ m # n /\ info'[m] = info[m] /\ m # 0
    BY <1>1, <1>5, <1>7 DEF WaitingInv, SessionsInv, SessionTypes
  <2>2. PICK j \in RS!Key : /\ info[m].origin = <<"prewarm", j>>
                            /\ sessions[<<"prewarm", j>>] = m
                            /\ byKey[j] = <<"prewarm", j>> /\ cleanups[j].on
    BY <1>3, <1>7, <2>1 DEF WaitingInv, PrewarmsWait
  <2>3. <<"prewarm", j>> # e
    BY <2>1, <2>2 DEF n
  <2>4. j # key
    BY <1>1, <2>1, <2>2, <2>3, OnlyItsTimer DEF Findable, e
  <2> QED BY <1>4, <1>6, <2>1, <2>2, <2>3, <2>4, KeysHaveEntries
<1>8. ASSUME NEW q \in Phone, Findable(q)', WithoutSid(q)
      PROVE  byPhone'[q] = <<"prewarm", q>>
  <2>1. <<"prewarm", q>> # e /\ q \in RS!Key
    BY <1>4, <1>8, NumbersAreKeys DEF Findable
  <2>2. Findable(q)
    BY <1>4, <1>6, <1>8, <2>1, KeysHaveEntries DEF Findable
  <2> QED BY <1>6, <1>8, <2>1, <2>2 DEF WaitingInv, NumbersLead
<1>9. PrewarmsWait'
  BY <1>7 DEF PrewarmsWait
<1>10. NumbersLead'
  BY <1>8 DEF NumbersLead, WithoutSid
<1> QED BY <1>9, <1>10

\* A stream's own session starts: nobody who waits is concerned.
LEMMA WaitingStart ==
  ASSUME WaitingInv, NEW t \in Stream, RS!StartOpenAiSession(t, t),
         UNCHANGED <<byKey, byPhone, cleanups, displaced>>
  PROVE  PrewarmsWait' /\ NumbersLead'
<1>1. t \in RS!Entry /\ t # None /\ \A k \in RS!Key : t # <<"prewarm", k>>
  BY KeysHaveEntries, VoiceAssumptions DEF RS!Entry, RS!RuntimeSessionsAssumption
<1>2. PICK n \in Nat \ {0} :
        /\ n \notin RS!Started
        /\ RS!Started' = RS!Started \cup {n}
        /\ \A m \in RS!Started : info'[m] = info[m]
        /\ info'[n] = [origin |-> t, stream |-> t, ws |-> "open", closing |-> FALSE]
        /\ sessions' = [sessions EXCEPT ![t] = n]
  BY <1>1, SessionStarts DEF WaitingInv, SessionsInv
<1>3. \A k \in RS!Key : sessions'[<<"prewarm", k>>] = sessions[<<"prewarm", k>>]
  BY <1>1, <1>2, KeysHaveEntries DEF WaitingInv, SessionsInv, SessionTypes
<1>4. /\ \A m \in RS!Started' \ RS!Started : info'[m].stream # None
      /\ \A m \in RS!Started \cap RS!Started' :
           /\ info'[m].stream = info[m].stream /\ info'[m].origin = info[m].origin
           /\ info[m].closing => info'[m].closing
  BY <1>1, <1>2
<1> QED BY <1>3, <1>4, WaitingStays DEF WaitingInv

\* A stream's session is closed: it does not wait.
LEMMA WaitingEnd ==
  ASSUME WaitingInv, NEW t \in Stream, RS!BeginEnd(t),
         UNCHANGED <<sessions, byKey, byPhone, cleanups, displaced>>
  PROVE  PrewarmsWait' /\ NumbersLead'
<1>1. t \in RS!Entry
  BY DEF RS!Entry
<1>2. /\ RS!Started' = RS!Started
      /\ \A m \in RS!Started :
           /\ info'[m].stream = info[m].stream /\ info'[m].origin = info[m].origin
           /\ info[m].closing => info'[m].closing
  BY <1>1, SessionCloses DEF WaitingInv, SessionsInv
<1> QED BY <1>2, WaitingStays DEF WaitingInv

\* An entry is deleted: of the session in it, one that is not closing is displaced.
LEMMA WaitingDelete ==
  ASSUME WaitingInv, NEW f, RS!Delete(f), RS!Started' = RS!Started,
         \A m \in RS!Started : /\ info'[m].stream = info[m].stream
                               /\ info'[m].origin = info[m].origin
                               /\ info[m].closing => info'[m].closing,
         UNCHANGED <<byKey, byPhone, cleanups>>
  PROVE  PrewarmsWait' /\ NumbersLead'
<1>1. /\ sessions' = [sessions EXCEPT ![f] = 0]
      /\ displaced' = displaced \cup {n \in RS!Started : n = sessions[f] /\ ~info[n].closing}
  BY DEF RS!Delete, RS!Closing
<1>2. ASSUME NEW k \in RS!Key,
             sessions'[<<"prewarm", k>>] # sessions[<<"prewarm", k>>]
      PROVE  /\ sessions'[<<"prewarm", k>>] = 0
             /\ sessions[<<"prewarm", k>>] \in RS!Started' =>
                  \/ info'[sessions[<<"prewarm", k>>]].closing
                  \/ sessions[<<"prewarm", k>>] \in displaced'
  <2>1. f = <<"prewarm", k>> /\ sessions'[f] = 0
    BY <1>1, <1>2, KeysHaveEntries DEF WaitingInv, SessionsInv, SessionTypes
  <2> QED BY <1>1, <2>1
<1> QED BY <1>1, <1>2, WaitingStays DEF WaitingInv

\* Every step keeps the sessions that wait in reach.
LEMMA WaitingStep == KeysApart /\ WaitingInv /\ [MCNext]_allVars => WaitingInv'
<1> SUFFICES ASSUME KeysApart, WaitingInv, [MCNext]_allVars
             PROVE  PrewarmsWait' /\ NumbersLead'
  BY SessionsStep DEF WaitingInv
<1>1. CASE UNCHANGED sessionsVars
  <2>1. RS!Started' = RS!Started
    BY <1>1 DEF RS!Started, sessionsVars
  <2> QED BY <1>1, <2>1 DEF sessionsVars, WaitingInv, PrewarmsWait, NumbersLead, Findable,
                            WithoutSid
<1>2. ASSUME NEW d \in Dial, RS!PrewarmAuthorizedCall(d)
      PROVE  PrewarmsWait' /\ NumbersLead'
  BY <1>2, WaitingPrewarm
<1>3. ASSUME NEW k \in RS!Key, RS!PrewarmExpires(k)
      PROVE  PrewarmsWait' /\ NumbersLead'
  BY <1>3, WaitingExpiry
<1>4. ASSUME NEW t \in Stream, RS!CreateSession(t)
      PROVE  PrewarmsWait' /\ NumbersLead'
  <2>1. CASE RS!PrewarmFor(t) # None
    <3>1. RS!Adopt(RS!PrewarmFor(t), t)
      BY <1>4, <2>1 DEF RS!CreateSession
    <3> QED BY <2>1, <3>1, WaitingAdopt
  <2>2. CASE RS!PrewarmFor(t) = None /\ sessions[t] # 0
    <3>1. RS!BeginEnd(t) /\ UNCHANGED <<sessions, byKey, byPhone, cleanups, displaced>>
      BY <1>4, <2>2 DEF RS!CreateSession
    <3> QED BY <3>1, WaitingEnd
  <2>3. CASE RS!PrewarmFor(t) = None /\ sessions[t] = 0
    <3>1. RS!StartOpenAiSession(t, t) /\ UNCHANGED <<byKey, byPhone, cleanups, displaced>>
      BY <1>4, <2>3 DEF RS!CreateSession
    <3> QED BY <3>1, WaitingStart
  <2> QED BY <2>1, <2>2, <2>3
<1>5. ASSUME NEW t \in Stream, RS!CreateAgain(t)
      PROVE  PrewarmsWait' /\ NumbersLead'
  BY <1>5, WaitingStart DEF RS!CreateAgain
<1>6. ASSUME NEW t \in Stream, RS!StreamStops(t)
      PROVE  PrewarmsWait' /\ NumbersLead'
  BY <1>6, WaitingEnd DEF RS!StreamStops
<1>7. ASSUME NEW n \in RS!Started, RS!SocketCloses(n)
      PROVE  PrewarmsWait' /\ NumbersLead'
  <2>1. /\ info' = [info EXCEPT ![n].ws = "closed"]
        /\ UNCHANGED <<byKey, byPhone, cleanups>>
    BY <1>7 DEF RS!SocketCloses
  <2>2. /\ RS!Started' = RS!Started
        /\ \A m \in RS!Started : /\ info'[m].stream = info[m].stream
                                 /\ info'[m].origin = info[m].origin
                                 /\ info[m].closing => info'[m].closing
    <3>1. RS!Started' = RS!Started
      BY <2>1 DEF RS!Started
    <3>2. \A m \in RS!Started :
            info'[m] = IF m = n THEN [info[n] EXCEPT !.ws = "closed"] ELSE info[m]
      BY <2>1 DEF WaitingInv, SessionsInv, SessionTypes
    <3>3. info[n] \in SessionRecord
      BY DEF WaitingInv, SessionsInv, SessionTypes
    <3> QED BY <3>1, <3>2, <3>3 DEF SessionRecord
  <2>3. CASE info[n].closing
    BY <1>7, <2>1, <2>2, <2>3, WaitingDelete DEF RS!SocketCloses, RS!Closing
  <2>4. CASE ~info[n].closing
    <3>1. UNCHANGED <<sessions, displaced>>
      BY <1>7, <2>4 DEF RS!SocketCloses, RS!Closing
    <3> QED BY <2>1, <2>2, <3>1, WaitingStays DEF WaitingInv
  <2> QED BY <2>3, <2>4
<1>8. ASSUME NEW x \in runtimeEndings, RS!EndSession(x)
      PROVE  PrewarmsWait' /\ NumbersLead'
  <2>1. /\ UNCHANGED <<info, byKey, byPhone, cleanups>> /\ RS!Started' = RS!Started
        /\ RS!Delete(x.entry)
    BY <1>8 DEF RS!EndSession, RS!Started
  <2> QED BY <2>1, WaitingDelete
<1> QED BY <1>1, <1>2, <1>3, <1>4, <1>5, <1>6, <1>7, <1>8, SessionsAct DEF RS!Next

\* The connection that was opened for a call nobody answered stays in reach of the
\* timer that closes it: neither another prewarm of the key, nor a stream that is
\* matched through another key or a number, nor the ending of another session
\* takes its timer or its key away.  adoptPrewarmSession stops the timer of the
\* stream's own SID or number, not of the prewarm it adopts; that is harmless
\* unless a number is prewarmed both with a SID and without, which is what
\* KeysApart excludes: then UnusedPrewarmCloses fails as well.
THEOREM UnusedPrewarmsAreTimed == KeysApart => (MCSpec => []UnusedIsTimed)
<1> SUFFICES ASSUME KeysApart PROVE MCSpec => []UnusedIsTimed
  OBVIOUS
<1>1. MCInit => WaitingInv
  <2> SUFFICES ASSUME MCInit PROVE PrewarmsWait /\ NumbersLead
    BY SessionsInit DEF WaitingInv
  <2>1. RS!Started = {}
    BY DEF MCInit, RS!Init, RS!Started
  <2>2. \A k \in RS!Key : ~Findable(k)
    BY KeysHaveEntries DEF MCInit, RS!Init, Findable
  <2> QED BY <2>1, <2>2, NumbersAreKeys DEF PrewarmsWait, NumbersLead
<1>2. WaitingInv => UnusedIsTimed
  BY DEF WaitingInv, PrewarmsWait, UnusedIsTimed, RS!Idle
<1>3. WaitingInv /\ [MCNext]_allVars => WaitingInv'
  BY WaitingStep
<1> QED BY <1>1, <1>2, <1>3, PTL DEF MCSpec

-----------------------------------------------------------------------------
(* The two registers of Exotel streams.                                    *)

\* The session service's record of a socket.
SocketState == [sid : EX!Id \cup {None}, status : {"none", "PENDING", "ACTIVE", "ENDED"},
                app : {"unset", "yes", "no"}, exotel : BOOLEAN]

\* The fields of the two registers that name sockets and ids.
IsSessions(s) ==
  /\ DOMAIN s = {"of", "bySocket", "byStream", "toStream", "recent", "recentBy", "pending"}
  /\ s.of \in [Socket -> SocketState]
  /\ s.byStream \in [EX!Id -> Socket \cup {None}]
  /\ s.toStream \in [Socket -> EX!Id \cup {None}]

IsRegistry(r) ==
  /\ DOMAIN r = {"sockets", "byStream", "toStream", "exotel"}
  /\ r.byStream \in [EX!Id -> Socket \cup {None}]
  /\ r.toStream \in [Socket -> EX!Id \cup {None}]

\* The registry maps a socket and its id to each other, and knows both or none.
RegistryInv(r) ==
  /\ IsRegistry(r)
  /\ \A w \in Socket : \A i \in EX!Id : r.byStream[i] = w => r.toStream[w] = i
  /\ \A w \in Socket : r.toStream[w] # None => w \in r.sockets

\* A session that waits for its start event is in the service's map.
PendingAreHeld(s) == \A w \in Socket : s.of[w].status = "PENDING" => w \in s.bySocket

\* What the two say of one id.
Agree(s, r) ==
  \A i \in EX!Id : \A w \in Socket : r.byStream[i] = w =>
    /\ s.of[w].sid = i
    /\ s.byStream[i] \in {w, None} \/ s.byStream[i] \notin r.sockets

\* A socket that has not come, or that no event has routed to Exotel, has no id.
Unknown(w, s, r) ==
  r.toStream[w] = None /\ s.of[w].sid = None /\ \A i \in EX!Id : s.byStream[i] # w

\* The invariant of the two registers.
ExotelInv ==
  /\ sock \in [Socket -> {"none", "open", "closed"}]
  /\ IsSessions(ses) /\ RegistryInv(reg) /\ PendingAreHeld(ses) /\ Agree(ses, reg)
  /\ \A w \in Socket : sock[w] = "none" => w \notin reg.sockets
  /\ \A w \in Socket : sock[w] = "none" \/ w \notin routed => Unknown(w, ses, reg)
  /\ exotelFin \in [Socket \X EX!FinalizerKind ->
                     [pc : {"idle", "runtime", "unrecorded", "record", "end", "done"},
                      id : EX!Id \cup {None}]]
  /\ \A f \in Socket \X EX!FinalizerKind :
       exotelFin[f].pc \in {"runtime", "unrecorded", "record", "end"} => exotelFin[f].id \in EX!Id

\* t is what the service's sessions s may become when sessions end: no id is
\* given, changed or taken by another.
Ends(s, t) ==
  /\ IsSessions(t) /\ PendingAreHeld(t)
  /\ \A w \in Socket : t.of[w].sid = s.of[w].sid
  /\ \A i \in EX!Id : t.byStream[i] \in {None, s.byStream[i]}

\* q is what the registry r may become when sockets are forgotten.
Forgets(r, q) ==
  /\ RegistryInv(q) /\ q.sockets \subseteq r.sockets
  /\ \A i \in EX!Id : q.byStream[i] \in {None, r.byStream[i]}
  /\ \A w \in Socket : q.toStream[w] \in {None, r.toStream[w]}

\* Neither makes the registers disagree.
LEMMA EndsAgree ==
  ASSUME NEW s, NEW t, NEW r, NEW q, Ends(s, t), Forgets(r, q), Agree(s, r)
  PROVE  Agree(t, q) /\ \A w \in Socket : Unknown(w, s, r) => Unknown(w, t, q)
<1>1. None \notin Socket
  BY VoiceAssumptions DEF EX!ExotelStreamsAssumption
<1>2. Agree(t, q)
  BY <1>1 DEF Agree, Ends, Forgets
<1>3. QED
  BY <1>1, <1>2 DEF Unknown, Ends, Forgets

\* Dropping the oldest ended session changes no field that the registers share.
LEMMA TrimEnds ==
  ASSUME NEW s, NEW t, Ends(s, t)
  PROVE  Ends(s, EX!TrimRecent(t))
<1>1. /\ EX!TrimRecent(t).of = t.of /\ EX!TrimRecent(t).byStream = t.byStream
      /\ EX!TrimRecent(t).toStream = t.toStream
      /\ EX!TrimRecent(t).bySocket = t.bySocket
      /\ DOMAIN EX!TrimRecent(t) = DOMAIN t
  BY DEF EX!TrimRecent, Ends, IsSessions
<1>2. QED
  BY <1>1 DEF Ends, IsSessions, PendingAreHeld

\* The session that ends is no longer pending and leaves its id.
LEMMA SessionEnds ==
  ASSUME NEW s, NEW w \in Socket, IsSessions(s), PendingAreHeld(s)
  PROVE  Ends(s, EX!EndSession(w, s)) /\ Ends(s, EX!DiscardSession(w, s))
<1> DEFINE i == s.of[w].sid
           x == [s EXCEPT !.of[w].status = "ENDED", !.bySocket = @ \ {w},
                          !.byStream[i] = None, !.toStream[w] = None,
                          !.recent = EX!Append(@, w), !.recentBy[i] = w]
           y == [s EXCEPT !.of[w].status = "ENDED", !.bySocket = @ \ {w}]
           of == [s.of EXCEPT ![w].status = "ENDED"]
<1>1. /\ of \in [Socket -> SocketState] /\ of[w].status = "ENDED"
      /\ \A v \in Socket : of[v].sid = s.of[v].sid
      /\ \A v \in Socket : v # w => of[v] = s.of[v]
  BY DEF IsSessions, SocketState
<1>2. /\ x.of = of /\ x.bySocket = s.bySocket \ {w} /\ DOMAIN x = DOMAIN s
      /\ x.byStream = [s.byStream EXCEPT ![i] = None]
      /\ x.toStream = [s.toStream EXCEPT ![w] = None]
  BY DEF IsSessions
<1>3. /\ y.of = of /\ y.bySocket = s.bySocket \ {w} /\ DOMAIN y = DOMAIN s
      /\ y.byStream = s.byStream /\ y.toStream = s.toStream
  BY DEF IsSessions
<1>4. EX!EndSession(w, s) = EX!TrimRecent(x)
  BY DEF EX!EndSession
<1>5. EX!DiscardSession(w, s) = y
  BY DEF EX!DiscardSession
<1> HIDE DEF x, y, of
<1>6. Ends(s, x)
  BY <1>1, <1>2 DEF Ends, IsSessions, PendingAreHeld
<1>7. Ends(s, y)
  BY <1>1, <1>3 DEF Ends, IsSessions, PendingAreHeld
<1>8. QED
  BY <1>4, <1>5, <1>6, <1>7, TrimEnds

\* ... and so whichever way it is found.
LEMMA FoundSessionEnds ==
  ASSUME NEW s, IsSessions(s), PendingAreHeld(s)
  PROVE  /\ Ends(s, s)
         /\ \A w \in Socket : Ends(s, EX!EndBySocketSessionId(w, s))
         /\ \A i \in EX!Id : Ends(s, EX!EndByStreamSid(i, s))
<1>1. Ends(s, s)
  BY DEF Ends
<1>2. ASSUME NEW w \in Socket PROVE Ends(s, EX!EndBySocketSessionId(w, s))
  BY <1>1, SessionEnds DEF EX!EndBySocketSessionId
<1>3. ASSUME NEW i \in EX!Id PROVE Ends(s, EX!EndByStreamSid(i, s))
  <2>1. s.byStream[i] \in Socket \cup {None}
    BY DEF IsSessions
  <2>2. QED
    BY <1>1, <2>1, SessionEnds DEF EX!EndByStreamSid
<1>4. QED
  BY <1>1, <1>2, <1>3

\* The answer of authorizeStart, and the ids that wait for one, name no id.
LEMMA MarkEnds ==
  ASSUME NEW s, NEW p2, NEW i, NEW app \in {"yes", "no"},
         IsSessions(s), PendingAreHeld(s)
  PROVE  /\ Ends(s, [s EXCEPT !.pending = p2])
         /\ Ends(s, EX!MarkAppInitiated(i, app, [s EXCEPT !.pending = p2]))
<1> DEFINE x == [s EXCEPT !.pending = p2]
           w == s.byStream[i]
<1>1. /\ x.of = s.of /\ x.byStream = s.byStream /\ x.toStream = s.toStream
      /\ x.bySocket = s.bySocket /\ DOMAIN x = DOMAIN s
  BY DEF IsSessions
<1>2. EX!MarkAppInitiated(i, app, x) = IF w = None THEN x ELSE [x EXCEPT !.of[w].app = app]
  BY <1>1 DEF EX!MarkAppInitiated
<1> HIDE DEF x
<1>3. IsSessions(x) /\ PendingAreHeld(x) /\ Ends(s, x)
  BY <1>1 DEF IsSessions, PendingAreHeld, Ends
<1>4. Ends(s, [x EXCEPT !.of[w].app = app])
  <2> DEFINE of == [x.of EXCEPT ![w].app = app]
             y == [x EXCEPT !.of[w].app = app]
  <2>1. /\ of \in [Socket -> SocketState]
        /\ \A v \in Socket : of[v].sid = x.of[v].sid /\ of[v].status = x.of[v].status
    <3>1. CASE w \in Socket
      <4>1. /\ x.of \in [Socket -> SocketState] /\ x.of[w] \in SocketState
        BY <1>3, <3>1 DEF IsSessions
      <4>2. [x.of[w] EXCEPT !.app = app] \in SocketState
        BY <4>1 DEF SocketState
      <4>3. /\ of[w] = [x.of[w] EXCEPT !.app = app]
            /\ \A v \in Socket : v # w => of[v] = x.of[v]
        BY <3>1, <4>1
      <4>4. QED
        BY <3>1, <4>1, <4>2, <4>3 DEF SocketState
    <3>2. CASE w \notin Socket
      <4>1. of = x.of
        BY <1>3, <3>2 DEF IsSessions
      <4>2. QED
        BY <1>3, <4>1 DEF IsSessions
    <3>3. QED
      BY <3>1, <3>2
  <2>2. /\ y.of = of /\ y.byStream = x.byStream /\ y.toStream = x.toStream
        /\ y.bySocket = x.bySocket /\ DOMAIN y = DOMAIN x
    BY <1>3 DEF IsSessions
  <2> HIDE DEF of, y
  <2>3. Ends(s, y)
    BY <1>3, <2>1, <2>2 DEF Ends, IsSessions, PendingAreHeld
  <2>4. QED
    BY <2>3 DEF y
<1>5. QED
  BY <1>2, <1>3, <1>4 DEF x

\* The registry forgets a socket, or the first of those that have an id.
LEMMA RegistryForgets ==
  ASSUME NEW r, RegistryInv(r)
  PROVE  /\ Forgets(r, r)
         /\ \A w \in Socket : Forgets(r, EX!RemoveBySocketSessionId(w, r))
         /\ \A i \in EX!Id : \A v \in EX!Mapped(i, r) \cup {None} :
              EX!Mapped(i, r) = {} \/ v # None => Forgets(r, EX!RemoveByStreamSid(i, v, r))
<1>1. None \notin Socket /\ None \notin EX!Id
  BY VoiceAssumptions DEF EX!ExotelStreamsAssumption, EX!IdAssumption
<1>2. ASSUME NEW w \in Socket PROVE Forgets(r, EX!RemoveBySocketSessionId(w, r))
  <2> DEFINE i == r.toStream[w]
             x == [r EXCEPT !.sockets = @ \ {w}]
             y == [x EXCEPT !.byStream[i] = None, !.toStream[w] = None, !.exotel = @ \ {i}]
  <2>1. EX!RemoveBySocketSessionId(w, r) = IF i = None THEN x ELSE y
    BY DEF EX!RemoveBySocketSessionId
  <2>2. /\ x.sockets = r.sockets \ {w} /\ x.byStream = r.byStream
        /\ x.toStream = r.toStream /\ DOMAIN x = DOMAIN r
    BY DEF RegistryInv, IsRegistry
  <2>3. /\ y.sockets = r.sockets \ {w} /\ y.byStream = [r.byStream EXCEPT ![i] = None]
        /\ y.toStream = [r.toStream EXCEPT ![w] = None] /\ DOMAIN y = DOMAIN r
    BY <2>2 DEF RegistryInv, IsRegistry
  <2> HIDE DEF x, y
  <2>4. CASE i = None
    BY <1>1, <2>1, <2>2, <2>4 DEF Forgets, RegistryInv, IsRegistry
  <2>5. CASE i # None
    BY <1>1, <2>1, <2>3, <2>5 DEF Forgets, RegistryInv, IsRegistry
  <2>6. QED
    BY <2>4, <2>5
<1>3. ASSUME NEW i \in EX!Id, NEW v \in EX!Mapped(i, r) \cup {None},
             EX!Mapped(i, r) = {} \/ v # None
      PROVE  Forgets(r, EX!RemoveByStreamSid(i, v, r))
  <2> DEFINE x == [r EXCEPT !.byStream[i] = None, !.exotel = @ \ {i}]
             y == [x EXCEPT !.toStream[v] = None, !.sockets = @ \ {v}]
  <2>1. EX!RemoveByStreamSid(i, v, r) = IF v = None THEN x ELSE y
    BY DEF EX!RemoveByStreamSid
  <2>2. /\ x.sockets = r.sockets /\ x.byStream = [r.byStream EXCEPT ![i] = None]
        /\ x.toStream = r.toStream /\ DOMAIN x = DOMAIN r
    BY DEF RegistryInv, IsRegistry
  <2>3. /\ y.sockets = r.sockets \ {v} /\ y.byStream = [r.byStream EXCEPT ![i] = None]
        /\ y.toStream = [r.toStream EXCEPT ![v] = None] /\ DOMAIN y = DOMAIN r
    BY <2>2 DEF RegistryInv, IsRegistry
  <2> HIDE DEF x, y
  <2>4. CASE v = None
    BY <1>1, <2>1, <2>2, <2>4 DEF Forgets, RegistryInv, IsRegistry
  <2>5. CASE v # None
    <3>1. v \in Socket /\ r.toStream[v] = i
      BY <2>5 DEF EX!Mapped
    <3>2. QED
      BY <1>1, <2>1, <2>3, <2>5, <3>1 DEF Forgets, RegistryInv, IsRegistry
  <2>6. QED
    BY <2>4, <2>5
<1>4. Forgets(r, r)
  BY DEF Forgets
<1>5. QED
  BY <1>2, <1>3, <1>4

\* A socket that has no other id is bound to one: nothing, when the registry
\* does not know the socket.
LEMMA RegistryBinds ==
  ASSUME NEW r, NEW w \in Socket, NEW i \in EX!Id, RegistryInv(r),
         \A j \in EX!Id : r.byStream[j] = w => j = i
  PROVE  LET q == EX!BindStream(w, i, r)
         IN  /\ RegistryInv(q) /\ q.sockets = r.sockets
             /\ \A j \in EX!Id : j # i => q.byStream[j] = r.byStream[j]
             /\ \A v \in Socket : v # w => q.toStream[v] = r.toStream[v]
             /\ q.byStream[i] = IF w \in r.sockets THEN w ELSE r.byStream[i]
<1> DEFINE x == [r EXCEPT !.byStream[i] = w, !.toStream[w] = i, !.exotel = @ \cup {i}]
<1>1. EX!BindStream(w, i, r) = IF w \in r.sockets THEN x ELSE r
  BY DEF EX!BindStream
<1>2. /\ x.sockets = r.sockets /\ x.byStream = [r.byStream EXCEPT ![i] = w]
      /\ x.toStream = [r.toStream EXCEPT ![w] = i] /\ DOMAIN x = DOMAIN r
  BY DEF RegistryInv, IsRegistry
<1> HIDE DEF x
<1>3. CASE w \in r.sockets
  <2>1. /\ IsRegistry(x)
        /\ x.byStream[i] = w /\ \A j \in EX!Id : j # i => x.byStream[j] = r.byStream[j]
        /\ x.toStream[w] = i /\ \A v \in Socket : v # w => x.toStream[v] = r.toStream[v]
    BY <1>2 DEF RegistryInv, IsRegistry
  <2>2. RegistryInv(x)
    BY <1>2, <1>3, <2>1 DEF RegistryInv
  <2>3. QED
    BY <1>1, <1>2, <1>3, <2>1, <2>2
<1>4. CASE w \notin r.sockets
  BY <1>1, <1>4
<1>5. QED
  BY <1>3, <1>4

\* ... and one that has another id gives it up.
LEMMA RegistryRebinds ==
  ASSUME NEW r, NEW w \in Socket, NEW i \in EX!Id, NEW old, RegistryInv(r),
         \A j \in EX!Id : r.byStream[j] = w => j = old
  PROVE  LET q == EX!RebindStreamSid(w, old, i, r)
         IN  /\ RegistryInv(q) /\ q.sockets = r.sockets
             /\ \A j \in EX!Id : j # i => q.byStream[j] \in {None, r.byStream[j]}
             /\ \A v \in Socket : v # w => q.toStream[v] = r.toStream[v]
             /\ w \in r.sockets =>
                  /\ q.byStream[i] = w
                  /\ \A j \in EX!Id : j = old /\ j # i => q.byStream[j] = None
             /\ w \notin r.sockets => q = r
<1> DEFINE x == [r EXCEPT !.byStream[old] = None, !.exotel = @ \ {old}]
<1>1. None \notin Socket
  BY VoiceAssumptions DEF EX!ExotelStreamsAssumption
<1>2. EX!RebindStreamSid(w, old, i, r) = IF w \in r.sockets THEN EX!BindStream(w, i, x) ELSE r
  BY DEF EX!RebindStreamSid
<1>3. /\ x.sockets = r.sockets /\ x.byStream = [r.byStream EXCEPT ![old] = None]
      /\ x.toStream = r.toStream /\ DOMAIN x = DOMAIN r
  BY DEF RegistryInv, IsRegistry
<1> HIDE DEF x
<1>4. /\ x.byStream \in [EX!Id -> Socket \cup {None}]
      /\ \A j \in EX!Id : x.byStream[j] = IF j = old THEN None ELSE r.byStream[j]
  BY <1>3 DEF RegistryInv, IsRegistry
<1>5. RegistryInv(x) /\ \A j \in EX!Id : x.byStream[j] = w => j = i
  BY <1>1, <1>3, <1>4 DEF RegistryInv, IsRegistry
<1>6. CASE w \in r.sockets
  BY <1>2, <1>3, <1>4, <1>5, <1>6, RegistryBinds
<1>7. CASE w \notin r.sockets
  BY <1>2, <1>7
<1>8. QED
  BY <1>6, <1>7

\* A socket that connects has a session that waits for its start event ...
LEMMA SessionCreated ==
  ASSUME NEW s, NEW w \in Socket, IsSessions(s), PendingAreHeld(s)
  PROVE  LET t == EX!CreateSocketSession(w, s)
         IN  /\ IsSessions(t) /\ PendingAreHeld(t) /\ t.byStream = s.byStream
             /\ \A v \in Socket : t.of[v].sid = s.of[v].sid
<1> DEFINE t == [s EXCEPT !.bySocket = @ \cup {w}, !.of[w].status = "PENDING"]
           of == [s.of EXCEPT ![w].status = "PENDING"]
<1>1. /\ of \in [Socket -> SocketState]
      /\ \A v \in Socket : of[v].sid = s.of[v].sid /\ (v # w => of[v] = s.of[v])
  BY DEF IsSessions, SocketState
<1>2. /\ t.of = of /\ t.bySocket = s.bySocket \cup {w} /\ t.byStream = s.byStream
      /\ t.toStream = s.toStream /\ DOMAIN t = DOMAIN s
  BY DEF IsSessions
<1> HIDE DEF t, of
<1>3. IsSessions(t) /\ PendingAreHeld(t) /\ \A v \in Socket : t.of[v].sid = s.of[v].sid
  BY <1>1, <1>2 DEF IsSessions, PendingAreHeld
<1>4. QED
  BY <1>2, <1>3 DEF EX!CreateSocketSession, t

\* ... and, once it is routed to Exotel, the fallback id of its URL.
LEMMA SessionActivated ==
  ASSUME NEW s, NEW w \in Socket, IsSessions(s), PendingAreHeld(s)
  PROVE  LET t == EX!Activated(w, s)
         IN  /\ IsSessions(t) /\ PendingAreHeld(t) /\ t.bySocket = s.bySocket
             /\ t.of[w].sid = EX!Fallback(w) /\ t.of[w].status = s.of[w].status
             /\ \A v \in Socket : v # w => t.of[v] = s.of[v]
             /\ t.byStream = [s.byStream EXCEPT ![EX!Fallback(w)] = w]
             /\ EX!Fallback(w) \in EX!Id
<1> DEFINE f == EX!Fallback(w)
           t == [s EXCEPT !.of[w].sid = f, !.of[w].exotel = TRUE,
                          !.byStream[f] = w, !.toStream[w] = f]
           of == [[s.of EXCEPT ![w].sid = f] EXCEPT ![w].exotel = TRUE]
<1>1. f \in EX!Id
  BY VoiceAssumptions DEF EX!Fallback, EX!Id, EX!ExotelStreamsAssumption
<1>2. s.of[w] \in SocketState
  BY DEF IsSessions
<1> HIDE DEF f
<1>3. of[w] = [[s.of[w] EXCEPT !.sid = f] EXCEPT !.exotel = TRUE]
  BY DEF IsSessions
<1>4. /\ of \in [Socket -> SocketState] /\ of[w].sid = f /\ of[w].status = s.of[w].status
      /\ \A v \in Socket : v # w => of[v] = s.of[v]
  BY <1>1, <1>2, <1>3 DEF IsSessions, SocketState
<1>5. /\ t.of = of /\ t.bySocket = s.bySocket /\ t.byStream = [s.byStream EXCEPT ![f] = w]
      /\ t.toStream = [s.toStream EXCEPT ![w] = f] /\ DOMAIN t = DOMAIN s
  BY DEF IsSessions
<1> HIDE DEF t, of
<1>6. IsSessions(t) /\ PendingAreHeld(t)
  BY <1>1, <1>4, <1>5 DEF IsSessions, PendingAreHeld
<1>7. EX!Activated(w, s) = t
  BY DEF EX!Activated, EX!InitializeExotelSessionOnConnect, t, f
<1>8. QED
  BY <1>1, <1>4, <1>5, <1>6, <1>7 DEF f

\* The start event binds the id of the stream, and the id before it is dropped.
LEMMA SessionBinds ==
  ASSUME NEW s, NEW w \in Socket, NEW i \in EX!Id, IsSessions(s), PendingAreHeld(s),
         w \in s.bySocket
  PROVE  LET t == EX!BindStreamSid(w, i, s)
         IN  /\ IsSessions(t) /\ PendingAreHeld(t)
             /\ t.of[w].sid = i
             /\ \A v \in Socket : v # w => t.of[v] = s.of[v]
             /\ t.byStream[i] = w
             /\ \A j \in EX!Id : j # i =>
                  /\ t.byStream[j] \in {None, s.byStream[j]}
                  /\ j = s.of[w].sid => t.byStream[j] = None
<1> DEFINE old == s.of[w].sid
           m == IF old \notin {None, i}
                  THEN [s EXCEPT !.byStream[old] = None, !.pending = @ \ {old}] ELSE s
           t == [m EXCEPT !.of[w].sid = i, !.of[w].status = "ACTIVE",
                          !.byStream[i] = w, !.toStream[w] = i]
           of == [[s.of EXCEPT ![w].sid = i] EXCEPT ![w].status = "ACTIVE"]
<1>0. None \notin EX!Id
  BY VoiceAssumptions DEF EX!IdAssumption
<1>1. EX!BindStreamSid(w, i, s) = t
  BY DEF EX!BindStreamSid
<1>2. s.of[w] \in SocketState /\ old \in EX!Id \cup {None}
  BY DEF IsSessions, SocketState
<1>3. of[w] = [[s.of[w] EXCEPT !.sid = i] EXCEPT !.status = "ACTIVE"]
  BY DEF IsSessions
<1>4. /\ of \in [Socket -> SocketState] /\ of[w].sid = i /\ of[w].status = "ACTIVE"
      /\ \A v \in Socket : v # w => of[v] = s.of[v]
  BY <1>2, <1>3 DEF IsSessions, SocketState
<1> HIDE DEF old
<1>5. /\ m.of = s.of /\ m.bySocket = s.bySocket /\ m.toStream = s.toStream
      /\ DOMAIN m = DOMAIN s
      /\ m.byStream = IF old \notin {None, i} THEN [s.byStream EXCEPT ![old] = None]
                      ELSE s.byStream
  BY DEF IsSessions
<1> HIDE DEF m
<1>6. /\ t.of = of /\ t.bySocket = s.bySocket /\ DOMAIN t = DOMAIN s
      /\ t.byStream = [m.byStream EXCEPT ![i] = w]
      /\ t.toStream = [s.toStream EXCEPT ![w] = i]
  BY <1>5 DEF IsSessions
<1> HIDE DEF t, of
<1>7. m.byStream \in [EX!Id -> Socket \cup {None}]
  BY <1>5 DEF IsSessions
<1>8. IsSessions(t) /\ PendingAreHeld(t)
  BY <1>4, <1>6, <1>7 DEF IsSessions, PendingAreHeld
<1>9. \A j \in EX!Id : j # i => /\ t.byStream[j] \in {None, s.byStream[j]}
                                /\ j = old => t.byStream[j] = None
  BY <1>0, <1>2, <1>5, <1>6, <1>7 DEF IsSessions
<1>10. QED
  BY <1>1, <1>4, <1>6, <1>7, <1>8, <1>9 DEF old

\* The registers agree after the start event of a socket ...
LEMMA StartAgrees ==
  ASSUME NEW s, NEW r, NEW w \in Socket, NEW i \in EX!Id,
         IsSessions(s), PendingAreHeld(s), RegistryInv(r), Agree(s, r), w \in s.bySocket
  PROVE  LET t == EX!BindStreamSid(w, i, s)
             q == IF s.of[w].sid # i THEN EX!RebindStreamSid(w, s.of[w].sid, i, r)
                  ELSE EX!BindStream(w, i, r)
         IN  /\ IsSessions(t) /\ PendingAreHeld(t) /\ RegistryInv(q) /\ Agree(t, q)
             /\ q.sockets = r.sockets
             /\ \A v \in Socket : v # w /\ Unknown(v, s, r) => Unknown(v, t, q)
<1> DEFINE old == s.of[w].sid
           t == EX!BindStreamSid(w, i, s)
           q == IF old # i THEN EX!RebindStreamSid(w, old, i, r)
                ELSE EX!BindStream(w, i, r)
<1>0. None \notin Socket
  BY VoiceAssumptions DEF EX!ExotelStreamsAssumption
<1>1. /\ IsSessions(t) /\ PendingAreHeld(t) /\ t.of[w].sid = i
      /\ \A v \in Socket : v # w => t.of[v] = s.of[v]
      /\ t.byStream[i] = w
      /\ \A j \in EX!Id : j # i => /\ t.byStream[j] \in {None, s.byStream[j]}
                                   /\ j = old => t.byStream[j] = None
  BY SessionBinds
<1>2. \A j \in EX!Id : r.byStream[j] = w => j = old
  BY DEF Agree
<1>3. /\ RegistryInv(q) /\ q.sockets = r.sockets
      /\ \A j \in EX!Id : j # i => q.byStream[j] \in {None, r.byStream[j]}
      /\ \A v \in Socket : v # w => q.toStream[v] = r.toStream[v]
      /\ w \in r.sockets => q.byStream[i] = w
      /\ w \in r.sockets => \A j \in EX!Id : j = old /\ j # i => q.byStream[j] = None
      /\ w \notin r.sockets => q = r
  <2>1. CASE old # i
    <3>1. q = EX!RebindStreamSid(w, old, i, r)
      BY <2>1
    <3> HIDE DEF old, q
    <3>2. RegistryInv(q) /\ q.sockets = r.sockets
      BY <1>2, <3>1, RegistryRebinds
    <3>3. \A j \in EX!Id : j # i => q.byStream[j] \in {None, r.byStream[j]}
      BY <1>2, <3>1, RegistryRebinds
    <3>4. \A v \in Socket : v # w => q.toStream[v] = r.toStream[v]
      BY <1>2, <3>1, RegistryRebinds
    <3>5. /\ w \in r.sockets => q.byStream[i] = w
          /\ w \in r.sockets =>
               \A j \in EX!Id : j = old /\ j # i => q.byStream[j] = None
          /\ w \notin r.sockets => q = r
      BY <1>2, <3>1, RegistryRebinds
    <3>6. QED
      BY <3>2, <3>3, <3>4, <3>5
  <2>2. CASE old = i
    <3>1. q = EX!BindStream(w, i, r)
      BY <2>2
    <3>2. w \notin r.sockets => q = r
      BY <3>1 DEF EX!BindStream
    <3>3. QED
      BY <1>2, <2>2, <3>1, <3>2, RegistryBinds
  <2>3. QED
    BY <2>1, <2>2
<1> HIDE DEF t, q
<1>4. \A j \in EX!Id : w \notin r.sockets => r.byStream[j] # w
  BY <1>0, VoiceAssumptions DEF RegistryInv, IsRegistry, EX!IdAssumption
<1>5. Agree(t, q)
  <2>1. SUFFICES ASSUME NEW j \in EX!Id, NEW v \in Socket, q.byStream[j] = v
                 PROVE  /\ t.of[v].sid = j
                        /\ t.byStream[j] \in {v, None} \/ t.byStream[j] \notin q.sockets
    BY DEF Agree
  <2>2. CASE j = i
    <3>1. CASE w \in r.sockets
      BY <1>1, <1>3, <2>1, <2>2, <3>1
    <3>2. CASE w \notin r.sockets
      BY <1>1, <1>3, <1>4, <2>1, <2>2, <3>2 DEF Agree
    <3>3. QED
      BY <3>1, <3>2
  <2>3. CASE j # i
    <3>1. r.byStream[j] = v
      BY <1>0, <1>3, <2>1, <2>3
    <3>2. v # w
      BY <1>0, <1>2, <1>3, <1>4, <2>1, <2>3, <3>1
    <3>3. QED
      BY <1>1, <1>3, <2>3, <3>1, <3>2 DEF Agree
  <2>4. QED
    BY <2>2, <2>3
<1>6. \A v \in Socket : v # w /\ Unknown(v, s, r) => Unknown(v, t, q)
  BY <1>0, <1>1, <1>3 DEF Unknown
<1>7. QED
  BY <1>1, <1>3, <1>5, <1>6 DEF t, q

\* ... and after a socket is routed to Exotel.
LEMMA ActivationAgrees ==
  ASSUME NEW s, NEW r, NEW w \in Socket,
         IsSessions(s), PendingAreHeld(s), RegistryInv(r), Agree(s, r), Unknown(w, s, r)
  PROVE  LET t == EX!Activated(w, s)
             q == EX!BindStream(w, EX!Fallback(w), r)
         IN  /\ IsSessions(t) /\ PendingAreHeld(t) /\ RegistryInv(q) /\ Agree(t, q)
             /\ q.sockets = r.sockets
             /\ t.of[w].status = s.of[w].status /\ t.bySocket = s.bySocket
             /\ \A v \in Socket : v # w /\ Unknown(v, s, r) => Unknown(v, t, q)
<1> DEFINE t == EX!Activated(w, s)
           f == EX!Fallback(w)
           q == EX!BindStream(w, f, r)
<1>0. None \notin Socket /\ None \notin EX!Id
  BY VoiceAssumptions DEF EX!ExotelStreamsAssumption, EX!IdAssumption
<1>1. /\ IsSessions(t) /\ PendingAreHeld(t) /\ t.bySocket = s.bySocket
      /\ t.of[w].sid = f /\ t.of[w].status = s.of[w].status
      /\ \A v \in Socket : v # w => t.of[v] = s.of[v]
      /\ t.byStream = [s.byStream EXCEPT ![f] = w] /\ f \in EX!Id
  BY SessionActivated
<1>2. \A j \in EX!Id : r.byStream[j] # w
  BY <1>0 DEF Unknown, RegistryInv
<1>3. /\ RegistryInv(q) /\ q.sockets = r.sockets
      /\ \A j \in EX!Id : j # f => q.byStream[j] = r.byStream[j]
      /\ \A v \in Socket : v # w => q.toStream[v] = r.toStream[v]
      /\ q.byStream[f] = IF w \in r.sockets THEN w ELSE r.byStream[f]
  BY <1>1, <1>2, RegistryBinds
<1> HIDE DEF t, q, f
<1>4. t.byStream[f] = w /\ \A j \in EX!Id : j # f => t.byStream[j] = s.byStream[j]
  BY <1>1 DEF IsSessions
<1>5. Agree(t, q)
  <2>1. SUFFICES ASSUME NEW j \in EX!Id, NEW v \in Socket, q.byStream[j] = v
                 PROVE  /\ t.of[v].sid = j
                        /\ t.byStream[j] \in {v, None} \/ t.byStream[j] \notin q.sockets
    BY DEF Agree
  <2>2. CASE j = f
    <3>1. CASE w \in r.sockets
      BY <1>1, <1>3, <1>4, <2>1, <2>2, <3>1
    <3>2. CASE w \notin r.sockets
      BY <1>1, <1>2, <1>3, <1>4, <2>1, <2>2, <3>2 DEF Agree
    <3>3. QED
      BY <3>1, <3>2
  <2>3. CASE j # f
    BY <1>1, <1>2, <1>3, <1>4, <2>1, <2>3 DEF Agree
  <2>4. QED
    BY <2>2, <2>3
<1>6. \A v \in Socket : v # w /\ Unknown(v, s, r) => Unknown(v, t, q)
  BY <1>0, <1>1, <1>3, <1>4 DEF Unknown
<1>7. QED
  BY <1>1, <1>3, <1>5, <1>6 DEF t, q, f

\* Which ids are Exotel's does not matter to what the registers share.
LEMMA ExotelIdsForget ==
  ASSUME NEW r, NEW ids, RegistryInv(r)
  PROVE  Forgets(r, [r EXCEPT !.exotel = ids])
<1> DEFINE q == [r EXCEPT !.exotel = ids]
<1>1. /\ q.sockets = r.sockets /\ q.byStream = r.byStream /\ q.toStream = r.toStream
      /\ DOMAIN q = DOMAIN r
  BY DEF RegistryInv, IsRegistry
<1> HIDE DEF q
<1>2. Forgets(r, q)
  BY <1>1 DEF Forgets, RegistryInv, IsRegistry
<1>3. QED
  BY <1>2 DEF q

\* A step of the registers alone, in which sessions end and sockets are
\* forgotten, keeps them agreeing.
LEMMA EndingStep ==
  ASSUME ExotelInv, Ends(ses, ses'), Forgets(reg, reg'), UNCHANGED routed,
         sock' \in [Socket -> {"none", "open", "closed"}],
         \A w \in Socket : sock'[w] = "none" => sock[w] = "none",
         exotelFin' \in [Socket \X EX!FinalizerKind ->
                          [pc : {"idle", "runtime", "unrecorded", "record", "end", "done"},
                           id : EX!Id \cup {None}]],
         \A f \in Socket \X EX!FinalizerKind :
           exotelFin'[f].pc \in {"runtime", "unrecorded", "record", "end"} => exotelFin'[f].id \in EX!Id
  PROVE  ExotelInv'
<1>1. /\ Agree(ses, reg)' /\ \A w \in Socket : Unknown(w, ses, reg) => Unknown(w, ses', reg')
  BY EndsAgree DEF ExotelInv
<1>2. IsSessions(ses)' /\ PendingAreHeld(ses)' /\ RegistryInv(reg)'
  BY DEF Ends, Forgets
<1>3. \A w \in Socket : sock'[w] = "none" => w \notin reg'.sockets
  BY DEF ExotelInv, Forgets
<1>4. \A w \in Socket : sock'[w] = "none" \/ w \notin routed' => Unknown(w, ses', reg')
  BY <1>1 DEF ExotelInv
<1>5. QED
  BY <1>1, <1>2, <1>3, <1>4 DEF ExotelInv

\* AudioGateway.handleConnection
LEMMA ConnectStep == ASSUME ExotelInv, NEW w \in Socket, EX!Connect(w) PROVE ExotelInv'
<1> DEFINE s == EX!CreateSocketSession(w, ses)
           r == [reg EXCEPT !.sockets = @ \cup {w}]
<1>0. None \notin Socket
  BY VoiceAssumptions DEF EX!ExotelStreamsAssumption
<1>1. /\ sock[w] = "none" /\ sock' = [sock EXCEPT ![w] = "open"]
      /\ UNCHANGED exotelFin /\ Unknown(w, ses, reg)
  BY DEF EX!Connect, ExotelInv
<1>2. /\ IsSessions(s) /\ PendingAreHeld(s) /\ s.byStream = ses.byStream
      /\ \A v \in Socket : s.of[v].sid = ses.of[v].sid
  BY SessionCreated DEF ExotelInv
<1>3. /\ r.sockets = reg.sockets \cup {w} /\ r.byStream = reg.byStream
      /\ r.toStream = reg.toStream /\ DOMAIN r = DOMAIN reg
  BY DEF ExotelInv, RegistryInv, IsRegistry
<1>4. \/ w \in ByFrame /\ routed' = routed /\ ses' = s /\ reg' = r
      \/ /\ routed' = routed \cup {w} /\ ses' = EX!Activated(w, s)
         /\ reg' = EX!BindStream(w, EX!Fallback(w), r)
  BY DEF EX!Connect
<1> HIDE DEF s, r
<1>5. RegistryInv(r)
  BY <1>3 DEF ExotelInv, RegistryInv, IsRegistry
<1>6. Agree(s, r)
  BY <1>0, <1>1, <1>2, <1>3 DEF ExotelInv, Agree, Unknown
<1>7. \A v \in Socket : Unknown(v, ses, reg) => Unknown(v, s, r)
  BY <1>2, <1>3 DEF Unknown
<1>8. /\ sock' \in [Socket -> {"none", "open", "closed"}] /\ sock'[w] = "open"
      /\ \A v \in Socket : v # w => sock'[v] = sock[v]
  BY <1>1 DEF ExotelInv
<1>9. CASE w \in ByFrame /\ routed' = routed /\ ses' = s /\ reg' = r
  <2>1. \A v \in Socket : sock'[v] = "none" => v \notin reg'.sockets
    BY <1>3, <1>8, <1>9 DEF ExotelInv
  <2>2. \A v \in Socket : sock'[v] = "none" \/ v \notin routed' => Unknown(v, ses', reg')
    BY <1>1, <1>7, <1>8, <1>9 DEF ExotelInv
  <2>3. QED
    BY <1>1, <1>2, <1>5, <1>6, <1>8, <1>9, <2>1, <2>2 DEF ExotelInv
<1>10. CASE /\ routed' = routed \cup {w} /\ ses' = EX!Activated(w, s)
            /\ reg' = EX!BindStream(w, EX!Fallback(w), r)
  <2>1. /\ IsSessions(ses') /\ PendingAreHeld(ses') /\ RegistryInv(reg') /\ Agree(ses', reg')
        /\ reg'.sockets = r.sockets
        /\ \A v \in Socket : v # w /\ Unknown(v, s, r) => Unknown(v, ses', reg')
    BY <1>1, <1>2, <1>5, <1>6, <1>7, <1>10, ActivationAgrees
  <2>2. \A v \in Socket : sock'[v] = "none" => v \notin reg'.sockets
    BY <1>3, <1>8, <2>1 DEF ExotelInv
  <2>3. \A v \in Socket : sock'[v] = "none" \/ v \notin routed' => Unknown(v, ses', reg')
    BY <1>7, <1>8, <1>10, <2>1 DEF ExotelInv
  <2>4. QED
    BY <1>1, <1>8, <2>1, <2>2, <2>3 DEF ExotelInv
<1>11. QED
  BY <1>4, <1>9, <1>10

\* handleStart: the socket is routed to Exotel, if it was not, and its session
\* and its entry in the registry get the id of the event.
LEMMA ExotelStartStep ==
  ASSUME ExotelInv, NEW w \in Socket, EX!HandleStart(w)
  PROVE  ExotelInv'
<1> DEFINE s == IF w \in routed THEN ses ELSE EX!Activated(w, ses)
           r == IF w \in routed THEN reg ELSE EX!BindStream(w, EX!Fallback(w), reg)
<1>1. /\ sock[w] = "open" /\ ses.of[w].status = "PENDING"
      /\ UNCHANGED <<sock, exotelFin>> /\ routed' = routed \cup {w}
  BY DEF EX!HandleStart
<1>2. PICK i \in EX!StartId(w) :
        /\ i # None
        /\ ses' = [EX!BindStreamSid(w, i, s) EXCEPT !.pending = @ \cup {i}]
        /\ reg' = [IF s.of[w].sid # i THEN EX!RebindStreamSid(w, s.of[w].sid, i, r)
                   ELSE EX!BindStream(w, i, r)
                   EXCEPT !.exotel = @ \cup {i}]
  BY DEF EX!HandleStart
<1>3. i \in EX!Id
  BY <1>2, VoiceAssumptions
     DEF EX!StartId, EX!Own, EX!Id, EX!ExotelStreamsAssumption, ExotelInv, IsSessions
<1>4. /\ IsSessions(s) /\ PendingAreHeld(s) /\ RegistryInv(r) /\ Agree(s, r)
      /\ s.of[w].status = "PENDING" /\ r.sockets = reg.sockets
      /\ \A v \in Socket : v # w /\ Unknown(v, ses, reg) => Unknown(v, s, r)
  <2>1. CASE w \in routed
    BY <1>1, <2>1 DEF ExotelInv
  <2>2. CASE w \notin routed
    <3>1. s = EX!Activated(w, ses) /\ r = EX!BindStream(w, EX!Fallback(w), reg)
      BY <2>2
    <3>2. Unknown(w, ses, reg)
      BY <2>2 DEF ExotelInv
    <3>3. QED
      BY <1>1, <3>1, <3>2, ActivationAgrees DEF ExotelInv
  <2>3. QED
    BY <2>1, <2>2
<1> HIDE DEF s, r
<1>5. w \in s.bySocket
  BY <1>4 DEF PendingAreHeld
<1> DEFINE t == EX!BindStreamSid(w, i, s)
           q == IF s.of[w].sid # i THEN EX!RebindStreamSid(w, s.of[w].sid, i, r)
                ELSE EX!BindStream(w, i, r)
<1>6. /\ IsSessions(t) /\ PendingAreHeld(t) /\ RegistryInv(q) /\ Agree(t, q)
      /\ q.sockets = r.sockets
      /\ \A v \in Socket : v # w /\ Unknown(v, s, r) => Unknown(v, t, q)
  BY <1>3, <1>4, <1>5, StartAgrees
<1>7. ses' = [t EXCEPT !.pending = @ \cup {i}] /\ reg' = [q EXCEPT !.exotel = @ \cup {i}]
  BY <1>2
<1> HIDE DEF t, q
<1>8. Ends(t, ses') /\ Forgets(q, reg')
  BY <1>6, <1>7, MarkEnds, ExotelIdsForget
<1>9. Agree(ses', reg') /\ \A v \in Socket : Unknown(v, t, q) => Unknown(v, ses', reg')
  BY <1>6, <1>8, EndsAgree
<1>10. \A v \in Socket : sock'[v] = "none" => v \notin reg'.sockets
  BY <1>1, <1>4, <1>6, <1>8 DEF ExotelInv, Forgets
<1>11. \A v \in Socket : sock'[v] = "none" \/ v \notin routed' => Unknown(v, ses', reg')
  BY <1>1, <1>4, <1>6, <1>9 DEF ExotelInv
<1>12. QED
  BY <1>1, <1>8, <1>9, <1>10, <1>11 DEF ExotelInv, Ends, Forgets

\* The registers' variables are disturbed only by ExotelStreams' own steps.
LEMMA ExotelActs ==
  ASSUME [MCNext]_allVars
  PROVE  EX!Next \/ UNCHANGED exotelVars
BY DEF MCNext, allVars, exotelVars

\* Every step keeps the two registers agreeing.
LEMMA ExotelStep == ExotelInv /\ [MCNext]_allVars => ExotelInv'
<1> SUFFICES ASSUME ExotelInv, [MCNext]_allVars PROVE ExotelInv'
  OBVIOUS
<1>1. Ends(ses, ses) /\ Forgets(reg, reg)
  BY FoundSessionEnds, RegistryForgets DEF ExotelInv
<1>2. CASE UNCHANGED exotelVars
  BY <1>2 DEF exotelVars, ExotelInv
<1>3. ASSUME NEW w \in Socket, EX!Connect(w) PROVE ExotelInv'
  BY <1>3, ConnectStep
<1>4. ASSUME NEW w \in Socket, EX!HandleStart(w) PROVE ExotelInv'
  BY <1>4, ExotelStartStep
<1>5. ASSUME NEW w \in Socket, EX!AuthorizeAndStartRuntime(w) PROVE ExotelInv'
  <2>1. PICK app \in {"yes", "no"} :
          ses' = EX!MarkAppInitiated(auth[w].id, app, [ses EXCEPT !.pending = @ \ {auth[w].id}])
    BY <1>5 DEF EX!AuthorizeAndStartRuntime
  <2>2. Ends(ses, ses')
    BY <2>1, MarkEnds DEF ExotelInv
  <2>3. UNCHANGED <<sock, routed, reg, exotelFin>>
    BY <1>5 DEF EX!AuthorizeAndStartRuntime
  <2>4. QED
    BY <1>1, <2>2, <2>3, EndingStep DEF ExotelInv
<1>6. ASSUME NEW w \in Socket, EX!HandleMedia(w) PROVE ExotelInv'
  BY <1>6 DEF EX!HandleMedia, ExotelInv
<1>7. ASSUME NEW i \in EX!Id, EX!SendMedia(i) PROVE ExotelInv'
  BY <1>7 DEF EX!SendMedia, ExotelInv
<1>8. ASSUME NEW w \in Socket, EX!HandleStop(w) PROVE ExotelInv'
  <2>1. PICK i \in {ses.of[w].sid, ses.toStream[w]} \ {None} :
          exotelFin' = [exotelFin EXCEPT ![<<w, "stop">>] =
            [pc |-> IF EX!IsAppInitiatedStream(i, ses) THEN "runtime" ELSE "end", id |-> i]]
    BY <1>8 DEF EX!HandleStop
  <2>2. i \in EX!Id
    BY <2>1 DEF ExotelInv, IsSessions, SocketState
  <2>3. <<w, "stop">> \in Socket \X EX!FinalizerKind
    BY DEF EX!FinalizerKind
  <2>4. UNCHANGED <<sock, routed, ses, reg>>
    BY <1>8 DEF EX!HandleStop
  <2>5. QED
    BY <1>1, <2>1, <2>2, <2>3, <2>4, EndingStep DEF ExotelInv
<1>9. ASSUME NEW w \in Socket, EX!HandleDisconnect(w) PROVE ExotelInv'
  <2>1. /\ sock' = [sock EXCEPT ![w] = "closed"] /\ UNCHANGED routed
        /\ \/ /\ ses.of[w].sid # None
              /\ \E pc \in {"runtime", "unrecorded"} :
                   exotelFin' = [exotelFin EXCEPT ![<<w, "disconnect">>] =
                                   [pc |-> pc, id |-> ses.of[w].sid]]
              /\ UNCHANGED <<ses, reg>>
           \/ /\ ses' = EX!EndBySocketSessionId(w, ses)
              /\ reg' = EX!RemoveBySocketSessionId(w, reg)
              /\ UNCHANGED exotelFin
    BY <1>9 DEF EX!HandleDisconnect
  <2>2. /\ sock' \in [Socket -> {"none", "open", "closed"}]
        /\ \A v \in Socket : sock'[v] = "none" => sock[v] = "none"
    BY <2>1 DEF ExotelInv
  <2>3. Ends(ses, ses') /\ Forgets(reg, reg')
    BY <1>1, <2>1, FoundSessionEnds, RegistryForgets DEF ExotelInv
  <2>4. <<w, "disconnect">> \in Socket \X EX!FinalizerKind
    BY DEF EX!FinalizerKind
  <2>5. ses.of[w].sid \in EX!Id \cup {None}
    BY DEF ExotelInv, IsSessions, SocketState
  <2>6. /\ exotelFin' \in [Socket \X EX!FinalizerKind ->
                            [pc : {"idle", "runtime", "unrecorded", "record", "end", "done"},
                             id : EX!Id \cup {None}]]
        /\ \A f \in Socket \X EX!FinalizerKind :
             exotelFin'[f].pc \in {"runtime", "unrecorded", "record", "end"} => exotelFin'[f].id \in EX!Id
    <3>1. ASSUME ses.of[w].sid # None, NEW pc \in {"runtime", "unrecorded"},
                 exotelFin' = [exotelFin EXCEPT ![<<w, "disconnect">>] =
                                 [pc |-> pc, id |-> ses.of[w].sid]]
          PROVE  /\ exotelFin' \in [Socket \X EX!FinalizerKind ->
                    [pc : {"idle", "runtime", "unrecorded", "record", "end", "done"},
                     id : EX!Id \cup {None}]]
                 /\ \A f \in Socket \X EX!FinalizerKind :
                      exotelFin'[f].pc \in {"runtime", "unrecorded", "record", "end"}
                        => exotelFin'[f].id \in EX!Id
      <4>1. [pc |-> pc, id |-> ses.of[w].sid]
              \in [pc : {"idle", "runtime", "unrecorded", "record", "end", "done"},
                   id : EX!Id \cup {None}]
        BY <2>5
      <4>2. \A f \in Socket \X EX!FinalizerKind :
              exotelFin'[f] = IF f = <<w, "disconnect">>
                              THEN [pc |-> pc, id |-> ses.of[w].sid] ELSE exotelFin[f]
        BY <3>1 DEF ExotelInv
      <4>3. QED
        BY <2>5, <3>1, <4>1, <4>2 DEF ExotelInv
    <3>2. CASE UNCHANGED exotelFin
      BY <3>2 DEF ExotelInv
    <3>3. QED
      BY <2>1, <3>1, <3>2
  <2>7. QED
    BY <2>1, <2>2, <2>3, <2>6, EndingStep
<1>10. ASSUME NEW f \in EX!Finalizer, EX!EndRuntimeForStream(f) PROVE ExotelInv'
  <2>1. \E pc \in {"record", "end"} : exotelFin' = [exotelFin EXCEPT ![f].pc = pc]
    BY <1>10 DEF EX!EndRuntimeForStream
  <2>2. exotelFin[f].pc \in {"runtime", "unrecorded"} /\ UNCHANGED <<sock, routed, ses, reg>>
    BY <1>10 DEF EX!EndRuntimeForStream
  <2>3. QED
    BY <1>1, <2>1, <2>2, EndingStep DEF ExotelInv, EX!Finalizer
<1>11. ASSUME NEW f \in EX!Finalizer, EX!FinalizeRecording(f) PROVE ExotelInv'
  <2>1. /\ exotelFin' = [exotelFin EXCEPT ![f].pc = "end"] /\ exotelFin[f].pc = "record"
        /\ UNCHANGED <<sock, routed, ses, reg>>
    BY <1>11 DEF EX!FinalizeRecording
  <2>2. QED
    BY <1>1, <2>1, EndingStep DEF ExotelInv, EX!Finalizer
<1>12. ASSUME NEW w \in Socket, EX!EndOnStop(w) PROVE ExotelInv'
  <2> DEFINE f == <<w, "stop">>
             i == exotelFin[f].id
  <2>1. f \in Socket \X EX!FinalizerKind
    BY DEF EX!FinalizerKind
  <2>2. /\ exotelFin[f].pc = "end"
        /\ exotelFin' = [exotelFin EXCEPT ![f] = [pc |-> "done", id |-> None]]
        /\ ses' = EX!EndByStreamSid(i, ses) /\ UNCHANGED <<sock, routed>>
        /\ \E v \in IF EX!Mapped(i, reg) = {} THEN {None} ELSE EX!Mapped(i, reg) :
             reg' = EX!RemoveByStreamSid(i, v, reg)
    BY <1>12 DEF EX!EndOnStop
  <2>3. i \in EX!Id
    BY <2>1, <2>2 DEF ExotelInv
  <2> HIDE DEF i, f
  <2>4. PICK v \in EX!Mapped(i, reg) \cup {None} :
          /\ EX!Mapped(i, reg) = {} \/ v # None
          /\ reg' = EX!RemoveByStreamSid(i, v, reg)
    BY <2>2, VoiceAssumptions DEF EX!Mapped, EX!ExotelStreamsAssumption
  <2>5. Ends(ses, ses') /\ Forgets(reg, reg')
    BY <2>2, <2>3, <2>4, FoundSessionEnds, RegistryForgets DEF ExotelInv
  <2>6. /\ exotelFin' \in [Socket \X EX!FinalizerKind ->
                            [pc : {"idle", "runtime", "unrecorded", "record", "end", "done"},
                             id : EX!Id \cup {None}]]
        /\ \A g \in Socket \X EX!FinalizerKind :
             exotelFin'[g].pc \in {"runtime", "unrecorded", "record", "end"} => exotelFin'[g].id \in EX!Id
    BY <2>1, <2>2 DEF ExotelInv
  <2>7. QED
    BY <2>2, <2>5, <2>6, EndingStep DEF ExotelInv
<1>13. ASSUME NEW w \in Socket, EX!EndOnDisconnect(w) PROVE ExotelInv'
  <2> DEFINE f == <<w, "disconnect">>
  <2>1. f \in Socket \X EX!FinalizerKind
    BY DEF EX!FinalizerKind
  <2>2. /\ exotelFin' = [exotelFin EXCEPT ![f] = [pc |-> "done", id |-> None]]
        /\ ses' = EX!EndBySocketSessionId(w, ses)
        /\ reg' = EX!RemoveBySocketSessionId(w, reg) /\ UNCHANGED <<sock, routed>>
    BY <1>13 DEF EX!EndOnDisconnect
  <2>3. Ends(ses, ses') /\ Forgets(reg, reg')
    BY <2>2, FoundSessionEnds, RegistryForgets DEF ExotelInv
  <2> HIDE DEF f
  <2>4. /\ exotelFin' \in [Socket \X EX!FinalizerKind ->
                            [pc : {"idle", "runtime", "unrecorded", "record", "end", "done"},
                             id : EX!Id \cup {None}]]
        /\ \A g \in Socket \X EX!FinalizerKind :
             exotelFin'[g].pc \in {"runtime", "unrecorded", "record", "end"} => exotelFin'[g].id \in EX!Id
    BY <2>1, <2>2 DEF ExotelInv
  <2>5. QED
    BY <2>2, <2>3, <2>4, EndingStep DEF ExotelInv
<1>14. QED
  BY <1>2, <1>3, <1>4, <1>5, <1>6, <1>7, <1>8, <1>9, <1>10, <1>11, <1>12, <1>13,
     ExotelActs DEF EX!Next

\* At first neither register knows a socket.
LEMMA ExotelInit == MCInit => ExotelInv
<1> SUFFICES ASSUME EX!Init PROVE ExotelInv
  BY DEF MCInit
<1>1. None \notin Socket
  BY VoiceAssumptions DEF EX!ExotelStreamsAssumption
<1>2. /\ IsSessions(ses) /\ PendingAreHeld(ses)
      /\ \A w \in Socket : ses.of[w].sid = None
  BY DEF EX!Init, EX!NoSession, IsSessions, SocketState, PendingAreHeld
<1>3. RegistryInv(reg) /\ Agree(ses, reg)
  BY <1>1 DEF EX!Init, RegistryInv, IsRegistry, Agree
<1>4. \A w \in Socket : Unknown(w, ses, reg) /\ w \notin reg.sockets
  BY <1>1, <1>2 DEF EX!Init, Unknown
<1>5. /\ sock \in [Socket -> {"none", "open", "closed"}]
      /\ exotelFin \in [Socket \X EX!FinalizerKind ->
                         [pc : {"idle", "runtime", "unrecorded", "record", "end", "done"},
                          id : EX!Id \cup {None}]]
      /\ \A f \in Socket \X EX!FinalizerKind : exotelFin[f].pc = "idle"
  BY DEF EX!Init
<1>6. QED
  BY <1>2, <1>3, <1>4, <1>5 DEF ExotelInv

\* For every number of streams, sockets and calls: a running stream finds its
\* session under its id, and the audio for an id goes to the socket whose session
\* has that id.
THEOREM TablesAlwaysAgree == MCSpec => []TablesAgree
<1>1. MCInit => ExotelInv
  BY ExotelInit
<1>2. ExotelInv /\ [MCNext]_allVars => ExotelInv'
  BY ExotelStep
<1>3. ExotelInv => EX!RegistersAgree
  BY DEF ExotelInv, Agree, EX!RegistersAgree
<1>4. SessionsInv => RS!StreamIsServed
  BY DEF SessionsInv
<1>5. QED
  BY <1>1, <1>2, <1>3, <1>4, SessionsAreKept, PTL DEF MCSpec, TablesAgree

\* A stream id and the id of a socket are those of a session that the service
\* holds, and of an Exotel one, the only ones that endSession removes under both.
HeldSessions(s) ==
  /\ \A w \in Socket : \A i \in EX!Id : s.byStream[i] = w =>
       w \in s.bySocket /\ s.of[w].exotel /\ s.of[w].sid = i
  /\ \A w \in Socket : s.toStream[w] # None => w \in s.bySocket /\ s.of[w].exotel

\* A socket that has gone waits for its finalizer, or neither register has it.
GoneInv ==
  /\ HeldSessions(ses)
  /\ \A w \in Socket : w \in routed => ses.of[w].exotel
  /\ \A w \in Socket : sock[w] = "closed" =>
       \/ exotelFin[<<w, "disconnect">>].pc \in {"runtime", "unrecorded", "record", "end"}
       \/ w \notin ses.bySocket /\ w \notin reg.sockets

\* The safety half of GoneIsForgotten: a socket that has gone and that nothing
\* waits for any more has left no trace.
GoneIsWaitedFor ==
  \A w \in Socket : sock[w] = "closed" =>
    \/ exotelFin[<<w, "disconnect">>].pc \in {"runtime", "unrecorded", "record", "end"}
    \/ EX!Forgotten(w)

\* t is what the sessions s may become when some of them leave.
Leaves(s, t) ==
  /\ HeldSessions(t) /\ t.bySocket \subseteq s.bySocket
  /\ \A w \in Socket : t.of[w].exotel = s.of[w].exotel

\* What left no trace in the two maps of sockets left none anywhere.
LEMMA NotHeldIsForgotten ==
  ASSUME IsSessions(ses), HeldSessions(ses), RegistryInv(reg), NEW w \in Socket,
         w \notin ses.bySocket, w \notin reg.sockets
  PROVE  EX!Forgotten(w)
<1>1. None \notin EX!Id
  BY VoiceAssumptions DEF EX!IdAssumption
<1>2. ses.toStream[w] = None /\ \A i \in EX!Id : ses.byStream[i] # w
  BY DEF HeldSessions
<1>3. reg.toStream[w] = None /\ \A i \in EX!Id : reg.byStream[i] # w
  BY <1>1 DEF RegistryInv
<1>4. QED
  BY <1>2, <1>3 DEF EX!Forgotten

\* endSession removes an Exotel session under every key, discardSession one that
\* has no other key.
LEMMA SessionLeaves ==
  ASSUME NEW s, NEW w \in Socket, IsSessions(s), HeldSessions(s)
  PROVE  /\ s.of[w].exotel => /\ Leaves(s, EX!EndSession(w, s))
                              /\ w \notin EX!EndSession(w, s).bySocket
         /\ ~s.of[w].exotel => /\ Leaves(s, EX!DiscardSession(w, s))
                               /\ w \notin EX!DiscardSession(w, s).bySocket
<1> DEFINE i == s.of[w].sid
           x == [s EXCEPT !.of[w].status = "ENDED", !.bySocket = @ \ {w},
                          !.byStream[i] = None, !.toStream[w] = None,
                          !.recent = EX!Append(@, w), !.recentBy[i] = w]
           y == [s EXCEPT !.of[w].status = "ENDED", !.bySocket = @ \ {w}]
           of == [s.of EXCEPT ![w].status = "ENDED"]
           z == EX!TrimRecent(x)
<1>0. None \notin Socket
  BY VoiceAssumptions DEF EX!ExotelStreamsAssumption
<1>1. \A v \in Socket : of[v].sid = s.of[v].sid /\ of[v].exotel = s.of[v].exotel
  BY DEF IsSessions, SocketState
<1>2. /\ x.of = of /\ x.bySocket = s.bySocket \ {w}
      /\ x.byStream = [s.byStream EXCEPT ![i] = None]
      /\ x.toStream = [s.toStream EXCEPT ![w] = None] /\ DOMAIN x = DOMAIN s
  BY DEF IsSessions
<1>3. /\ y.of = of /\ y.bySocket = s.bySocket \ {w}
      /\ y.byStream = s.byStream /\ y.toStream = s.toStream
  BY DEF IsSessions
<1>4. EX!EndSession(w, s) = z
  BY DEF EX!EndSession
<1>5. EX!DiscardSession(w, s) = y
  BY DEF EX!DiscardSession
<1> HIDE DEF x, y, of
<1>6. z.of = x.of /\ z.bySocket = x.bySocket /\ z.byStream = x.byStream /\ z.toStream = x.toStream
  BY <1>2 DEF EX!TrimRecent, IsSessions
<1> HIDE DEF z
<1>7. Leaves(s, z)
  <2>1. \A j \in EX!Id : z.byStream[j] \in {None, s.byStream[j]} /\ z.byStream[j] # w
    BY <1>0, <1>2, <1>6 DEF IsSessions, HeldSessions
  <2>2. z.toStream[w] = None /\ \A v \in Socket : v # w => z.toStream[v] = s.toStream[v]
    BY <1>2, <1>6 DEF IsSessions
  <2>3. HeldSessions(z)
    BY <1>0, <1>1, <1>2, <1>6, <2>1, <2>2 DEF HeldSessions
  <2> QED BY <1>1, <1>2, <1>6, <2>3 DEF Leaves
<1>8. ASSUME ~s.of[w].exotel PROVE Leaves(s, y)
  BY <1>1, <1>3, <1>8 DEF Leaves, HeldSessions
<1>9. QED
  BY <1>2, <1>3, <1>4, <1>5, <1>6, <1>7, <1>8

\* ... and so whichever way the session is found; what finds it by its socket
\* leaves nothing of the socket.
LEMMA FoundSessionLeaves ==
  ASSUME NEW s, IsSessions(s), HeldSessions(s)
  PROVE  /\ Leaves(s, s)
         /\ \A w \in Socket : /\ Leaves(s, EX!EndBySocketSessionId(w, s))
                              /\ w \notin EX!EndBySocketSessionId(w, s).bySocket
         /\ \A i \in EX!Id : Leaves(s, EX!EndByStreamSid(i, s))
<1>1. Leaves(s, s)
  BY DEF Leaves
<1>2. ASSUME NEW w \in Socket
      PROVE  /\ Leaves(s, EX!EndBySocketSessionId(w, s))
             /\ w \notin EX!EndBySocketSessionId(w, s).bySocket
  BY <1>1, SessionLeaves DEF EX!EndBySocketSessionId
<1>3. ASSUME NEW i \in EX!Id PROVE Leaves(s, EX!EndByStreamSid(i, s))
  <2>1. s.byStream[i] \in Socket \cup {None}
    BY DEF IsSessions
  <2>2. s.byStream[i] \in Socket => s.of[s.byStream[i]].exotel
    BY DEF HeldSessions
  <2>3. QED
    BY <1>1, <2>1, <2>2, SessionLeaves DEF EX!EndByStreamSid
<1>4. QED
  BY <1>1, <1>2, <1>3

\* The answer of authorizeStart, and the ids that wait for one, remove nothing.
LEMMA MarkLeaves ==
  ASSUME NEW s, NEW p2, NEW i, NEW app \in {"yes", "no"}, IsSessions(s), HeldSessions(s)
  PROVE  /\ Leaves(s, [s EXCEPT !.pending = p2])
         /\ Leaves(s, EX!MarkAppInitiated(i, app, [s EXCEPT !.pending = p2]))
<1> DEFINE x == [s EXCEPT !.pending = p2]
           w == s.byStream[i]
           y == [x EXCEPT !.of[w].app = app]
           of == [s.of EXCEPT ![w].app = app]
<1>1. /\ x.of = s.of /\ x.byStream = s.byStream /\ x.toStream = s.toStream
      /\ x.bySocket = s.bySocket /\ DOMAIN x = DOMAIN s
  BY DEF IsSessions
<1>2. EX!MarkAppInitiated(i, app, x) = IF w = None THEN x ELSE y
  BY <1>1 DEF EX!MarkAppInitiated
<1> HIDE DEF x
<1>3. /\ y.of = of /\ y.byStream = s.byStream /\ y.toStream = s.toStream
      /\ y.bySocket = s.bySocket
  BY <1>1 DEF IsSessions
<1>4. \A v \in Socket : of[v].sid = s.of[v].sid /\ of[v].exotel = s.of[v].exotel
  BY DEF IsSessions, SocketState
<1> HIDE DEF y, of
<1>5. Leaves(s, x)
  BY <1>1 DEF Leaves, HeldSessions
<1>6. Leaves(s, y)
  BY <1>3, <1>4 DEF Leaves, HeldSessions
<1>7. QED
  BY <1>2, <1>5, <1>6 DEF x

\* The session of a socket that connects, or that is routed to Exotel, or whose
\* start event comes, is held under the ids it then has.
LEMMA SessionCreatedHeld ==
  ASSUME NEW s, NEW w \in Socket, IsSessions(s), HeldSessions(s)
  PROVE  LET t == EX!CreateSocketSession(w, s)
         IN  /\ HeldSessions(t) /\ t.bySocket = s.bySocket \cup {w}
             /\ \A v \in Socket : t.of[v].exotel = s.of[v].exotel
<1> DEFINE t == [s EXCEPT !.bySocket = @ \cup {w}, !.of[w].status = "PENDING"]
           of == [s.of EXCEPT ![w].status = "PENDING"]
<1>1. \A v \in Socket : of[v].sid = s.of[v].sid /\ of[v].exotel = s.of[v].exotel
  BY DEF IsSessions, SocketState
<1>2. /\ t.of = of /\ t.bySocket = s.bySocket \cup {w} /\ t.byStream = s.byStream
      /\ t.toStream = s.toStream
  BY DEF IsSessions
<1> HIDE DEF t, of
<1>3. HeldSessions(t)
  BY <1>1, <1>2 DEF HeldSessions
<1>4. QED
  BY <1>1, <1>2, <1>3 DEF EX!CreateSocketSession, t

\* ... activateExotelRouting, for a socket that has no id ...
LEMMA SessionActivatedHeld ==
  ASSUME NEW s, NEW w \in Socket, IsSessions(s), HeldSessions(s), w \in s.bySocket,
         \A i \in EX!Id : s.byStream[i] # w
  PROVE  LET t == EX!Activated(w, s)
         IN  /\ HeldSessions(t) /\ t.bySocket = s.bySocket /\ t.of[w].exotel
             /\ \A v \in Socket : v # w => t.of[v].exotel = s.of[v].exotel
<1> DEFINE f == EX!Fallback(w)
           t == [s EXCEPT !.of[w].sid = f, !.of[w].exotel = TRUE,
                          !.byStream[f] = w, !.toStream[w] = f]
           of == [[s.of EXCEPT ![w].sid = f] EXCEPT ![w].exotel = TRUE]
<1>1. s.of[w] \in SocketState
  BY DEF IsSessions
<1> HIDE DEF f
<1>2. of[w] = [[s.of[w] EXCEPT !.sid = f] EXCEPT !.exotel = TRUE]
  BY DEF IsSessions
<1>3. /\ of[w].sid = f /\ of[w].exotel = TRUE
      /\ \A v \in Socket : v # w => of[v] = s.of[v]
  BY <1>1, <1>2 DEF IsSessions, SocketState
<1>4. /\ t.of = of /\ t.bySocket = s.bySocket /\ t.byStream = [s.byStream EXCEPT ![f] = w]
      /\ t.toStream = [s.toStream EXCEPT ![w] = f]
  BY DEF IsSessions
<1> HIDE DEF t, of
<1>5. \A j \in EX!Id : t.byStream[j] = IF j = f THEN w ELSE s.byStream[j]
  BY <1>4 DEF IsSessions
<1>6. \A v \in Socket : v # w => t.toStream[v] = s.toStream[v]
  BY <1>4 DEF IsSessions
<1>7. HeldSessions(t)
  BY <1>3, <1>4, <1>5, <1>6 DEF HeldSessions
<1>8. EX!Activated(w, s) = t
  BY DEF EX!Activated, EX!InitializeExotelSessionOnConnect, t, f
<1>9. QED
  BY <1>3, <1>4, <1>7, <1>8

\* ... and bindStreamSid, for a session of Exotel's.
LEMMA SessionBoundHeld ==
  ASSUME NEW s, NEW w \in Socket, NEW i \in EX!Id, IsSessions(s), HeldSessions(s),
         w \in s.bySocket, s.of[w].exotel
  PROVE  LET t == EX!BindStreamSid(w, i, s)
         IN  /\ HeldSessions(t) /\ t.bySocket = s.bySocket
             /\ \A v \in Socket : t.of[v].exotel = s.of[v].exotel
<1> DEFINE old == s.of[w].sid
           m == IF old \notin {None, i}
                  THEN [s EXCEPT !.byStream[old] = None, !.pending = @ \ {old}] ELSE s
           t == [m EXCEPT !.of[w].sid = i, !.of[w].status = "ACTIVE",
                          !.byStream[i] = w, !.toStream[w] = i]
           of == [[s.of EXCEPT ![w].sid = i] EXCEPT ![w].status = "ACTIVE"]
<1>0. None \notin EX!Id /\ None \notin Socket
  BY VoiceAssumptions DEF EX!IdAssumption, EX!ExotelStreamsAssumption
<1>1. EX!BindStreamSid(w, i, s) = t
  BY DEF EX!BindStreamSid
<1>2. s.of[w] \in SocketState /\ old \in EX!Id \cup {None}
  BY DEF IsSessions, SocketState
<1>3. of[w] = [[s.of[w] EXCEPT !.sid = i] EXCEPT !.status = "ACTIVE"]
  BY DEF IsSessions
<1>4. /\ of[w].sid = i /\ of[w].exotel = s.of[w].exotel
      /\ \A v \in Socket : v # w => of[v] = s.of[v]
  BY <1>2, <1>3 DEF IsSessions, SocketState
<1> HIDE DEF old
<1>5. /\ m.of = s.of /\ m.bySocket = s.bySocket /\ m.toStream = s.toStream
      /\ DOMAIN m = DOMAIN s
      /\ m.byStream = IF old \notin {None, i} THEN [s.byStream EXCEPT ![old] = None]
                      ELSE s.byStream
  BY DEF IsSessions
<1> HIDE DEF m
<1>6. /\ t.of = of /\ t.bySocket = s.bySocket
      /\ t.byStream = [m.byStream EXCEPT ![i] = w]
      /\ t.toStream = [s.toStream EXCEPT ![w] = i]
  BY <1>5 DEF IsSessions
<1> HIDE DEF t, of
<1>7. /\ \A j \in EX!Id : j # i => /\ t.byStream[j] \in {None, s.byStream[j]}
                                   /\ j = old => t.byStream[j] = None
      /\ t.byStream[i] = w
  BY <1>0, <1>2, <1>5, <1>6 DEF IsSessions
<1>8. \A v \in Socket : v # w => t.toStream[v] = s.toStream[v]
  BY <1>6 DEF IsSessions
<1>9. HeldSessions(t)
  <2>1. ASSUME NEW v \in Socket, NEW j \in EX!Id, t.byStream[j] = v
        PROVE  v \in t.bySocket /\ t.of[v].exotel /\ t.of[v].sid = j
    <3>1. CASE j = i
      BY <1>4, <1>6, <1>7, <2>1, <3>1
    <3>2. CASE j # i
      <4>1. s.byStream[j] = v /\ j # old
        BY <1>0, <1>7, <2>1, <3>2
      <4>2. v \in s.bySocket /\ s.of[v].exotel /\ s.of[v].sid = j /\ v # w
        BY <4>1 DEF HeldSessions, old
      <4> QED BY <1>4, <1>6, <4>2
    <3> QED BY <3>1, <3>2
  <2>2. ASSUME NEW v \in Socket, t.toStream[v] # None
        PROVE  v \in t.bySocket /\ t.of[v].exotel
    BY <1>4, <1>6, <1>8, <2>2 DEF HeldSessions
  <2> QED BY <2>1, <2>2 DEF HeldSessions
<1>10. QED
  BY <1>1, <1>4, <1>6, <1>9, ZenonT(60)

\* removeBySocketSessionId takes the socket out of the map.
LEMMA RegistryDrops ==
  ASSUME NEW r, NEW w \in Socket, RegistryInv(r)
  PROVE  EX!RemoveBySocketSessionId(w, r).sockets = r.sockets \ {w}
<1> DEFINE i == r.toStream[w]
           x == [r EXCEPT !.sockets = @ \ {w}]
           y == [x EXCEPT !.byStream[i] = None, !.toStream[w] = None, !.exotel = @ \ {i}]
<1>1. EX!RemoveBySocketSessionId(w, r) = IF i = None THEN x ELSE y
  BY DEF EX!RemoveBySocketSessionId
<1>2. x.sockets = r.sockets \ {w} /\ DOMAIN x = DOMAIN r
  BY DEF RegistryInv, IsRegistry
<1>3. y.sockets = x.sockets
  BY <1>2 DEF RegistryInv, IsRegistry
<1> QED BY <1>1, <1>2, <1>3

\* Steps in which sessions leave and sockets are forgotten, and in which no
\* finalizer stops waiting and no other socket goes, keep the invariant.
LEMMA LeavingStep ==
  ASSUME ExotelInv, GoneInv, Leaves(ses, ses'), reg'.sockets \subseteq reg.sockets,
         UNCHANGED routed,
         \A w \in Socket : sock'[w] = "closed" =>
           \/ /\ sock[w] = "closed"
              /\ exotelFin[<<w, "disconnect">>].pc \in {"runtime", "unrecorded", "record", "end"} =>
                   exotelFin'[<<w, "disconnect">>].pc \in {"runtime", "unrecorded", "record", "end"}
           \/ exotelFin'[<<w, "disconnect">>].pc \in {"runtime", "unrecorded", "record", "end"}
           \/ w \notin ses'.bySocket /\ w \notin reg'.sockets
  PROVE  GoneInv'
BY DEF GoneInv, Leaves

\* AudioGateway.handleConnection
LEMMA GoneConnectStep ==
  ASSUME ExotelInv, GoneInv, NEW w \in Socket, EX!Connect(w)
  PROVE  GoneInv'
<1> DEFINE s == EX!CreateSocketSession(w, ses)
           r == [reg EXCEPT !.sockets = @ \cup {w}]
<1>1. /\ UNCHANGED exotelFin /\ Unknown(w, ses, reg)
      /\ sock' = [sock EXCEPT ![w] = "open"]
  BY DEF EX!Connect, ExotelInv
<1>2. /\ IsSessions(s) /\ s.byStream = ses.byStream
  BY SessionCreated DEF ExotelInv
<1>3. /\ HeldSessions(s) /\ s.bySocket = ses.bySocket \cup {w}
      /\ \A v \in Socket : s.of[v].exotel = ses.of[v].exotel
  BY SessionCreatedHeld DEF ExotelInv, GoneInv
<1>4. /\ r.sockets = reg.sockets \cup {w} /\ r.byStream = reg.byStream
      /\ r.toStream = reg.toStream /\ DOMAIN r = DOMAIN reg
  BY DEF ExotelInv, RegistryInv, IsRegistry
<1>5. \/ w \in ByFrame /\ routed' = routed /\ ses' = s /\ reg' = r
      \/ /\ routed' = routed \cup {w} /\ ses' = EX!Activated(w, s)
         /\ reg' = EX!BindStream(w, EX!Fallback(w), r)
  BY DEF EX!Connect
<1> HIDE DEF s, r
<1>6. sock'[w] = "open" /\ \A v \in Socket : v # w => sock'[v] = sock[v]
  BY <1>1 DEF ExotelInv
<1>7. CASE w \in ByFrame /\ routed' = routed /\ ses' = s /\ reg' = r
  BY <1>1, <1>3, <1>4, <1>6, <1>7 DEF GoneInv
<1>8. CASE /\ routed' = routed \cup {w} /\ ses' = EX!Activated(w, s)
           /\ reg' = EX!BindStream(w, EX!Fallback(w), r)
  <2>1. \A i \in EX!Id : s.byStream[i] # w
    BY <1>1, <1>2 DEF Unknown
  <2>2. /\ HeldSessions(ses') /\ ses'.bySocket = s.bySocket /\ ses'.of[w].exotel
        /\ \A v \in Socket : v # w => ses'.of[v].exotel = s.of[v].exotel
    BY <1>2, <1>3, <1>8, <2>1, SessionActivatedHeld
  <2>3. reg'.sockets = r.sockets
    BY <1>4, <1>8 DEF EX!BindStream, ExotelInv, RegistryInv, IsRegistry
  <2>4. QED
    BY <1>1, <1>3, <1>4, <1>6, <1>8, <2>2, <2>3 DEF GoneInv
<1>9. QED
  BY <1>5, <1>7, <1>8

\* handleStart
LEMMA GoneStartStep ==
  ASSUME ExotelInv, GoneInv, NEW w \in Socket, EX!HandleStart(w)
  PROVE  GoneInv'
<1> DEFINE s == IF w \in routed THEN ses ELSE EX!Activated(w, ses)
           r == IF w \in routed THEN reg ELSE EX!BindStream(w, EX!Fallback(w), reg)
<1>1. /\ sock[w] = "open" /\ ses.of[w].status = "PENDING"
      /\ UNCHANGED <<sock, exotelFin>> /\ routed' = routed \cup {w}
  BY DEF EX!HandleStart
<1>2. PICK i \in EX!StartId(w) :
        /\ i # None
        /\ ses' = [EX!BindStreamSid(w, i, s) EXCEPT !.pending = @ \cup {i}]
        /\ reg' = [IF s.of[w].sid # i THEN EX!RebindStreamSid(w, s.of[w].sid, i, r)
                   ELSE EX!BindStream(w, i, r)
                   EXCEPT !.exotel = @ \cup {i}]
  BY DEF EX!HandleStart
<1>3. i \in EX!Id
  BY <1>2, VoiceAssumptions
     DEF EX!StartId, EX!Own, EX!Id, EX!ExotelStreamsAssumption, ExotelInv, IsSessions
<1>4. w \in ses.bySocket
  BY <1>1 DEF ExotelInv, PendingAreHeld
<1>5. /\ IsSessions(s) /\ PendingAreHeld(s) /\ HeldSessions(s)
      /\ s.bySocket = ses.bySocket /\ s.of[w].exotel
      /\ \A v \in Socket : v # w => s.of[v].exotel = ses.of[v].exotel
      /\ RegistryInv(r) /\ Agree(s, r) /\ r.sockets = reg.sockets
  <2>1. CASE w \in routed
    BY <2>1 DEF ExotelInv, GoneInv
  <2>2. CASE w \notin routed
    <3>1. s = EX!Activated(w, ses) /\ r = EX!BindStream(w, EX!Fallback(w), reg)
      BY <2>2
    <3> HIDE DEF s, r
    <3>2. Unknown(w, ses, reg)
      BY <2>2 DEF ExotelInv
    <3>3. /\ IsSessions(s) /\ PendingAreHeld(s) /\ RegistryInv(r) /\ Agree(s, r)
          /\ r.sockets = reg.sockets
      BY <3>1, <3>2, ActivationAgrees DEF ExotelInv
    <3>4. \A j \in EX!Id : ses.byStream[j] # w
      BY <3>2 DEF Unknown
    <3>5. /\ HeldSessions(s) /\ s.bySocket = ses.bySocket /\ s.of[w].exotel
          /\ \A v \in Socket : v # w => s.of[v].exotel = ses.of[v].exotel
      BY <1>4, <3>1, <3>4, SessionActivatedHeld DEF ExotelInv, GoneInv
    <3>6. QED
      BY <3>3, <3>5
  <2>3. QED
    BY <2>1, <2>2
<1> HIDE DEF s, r
<1> DEFINE t == EX!BindStreamSid(w, i, s)
           q == IF s.of[w].sid # i THEN EX!RebindStreamSid(w, s.of[w].sid, i, r)
                ELSE EX!BindStream(w, i, r)
<1>6. IsSessions(t) /\ RegistryInv(q) /\ q.sockets = r.sockets
  BY <1>3, <1>4, <1>5, StartAgrees
<1>7. /\ HeldSessions(t) /\ t.bySocket = s.bySocket
      /\ \A v \in Socket : t.of[v].exotel = s.of[v].exotel
  BY <1>3, <1>4, <1>5, SessionBoundHeld
<1>8. ses' = [t EXCEPT !.pending = @ \cup {i}] /\ reg' = [q EXCEPT !.exotel = @ \cup {i}]
  BY <1>2
<1> HIDE DEF t, q
<1>9. Leaves(t, ses')
  BY <1>6, <1>7, <1>8, MarkLeaves
<1>10. reg'.sockets = q.sockets
  BY <1>6, <1>8 DEF RegistryInv, IsRegistry
<1>11. \A v \in Socket : v \in routed' => ses'.of[v].exotel
  BY <1>1, <1>5, <1>7, <1>9 DEF GoneInv, Leaves
<1>12. \A v \in Socket : v # w =>
         /\ v \in ses'.bySocket => v \in ses.bySocket
         /\ v \in reg'.sockets => v \in reg.sockets
  BY <1>5, <1>6, <1>7, <1>9, <1>10 DEF Leaves
<1>13. \A v \in Socket : sock'[v] = "closed" => v # w
  BY <1>1
<1>14. QED
  BY <1>1, <1>9, <1>11, <1>12, <1>13 DEF GoneInv, Leaves

\* No step brings back a socket that has gone, and the finalizer that
\* handleDisconnect leaves behind removes what is left of it.
LEMMA GoneStep == ExotelInv /\ GoneInv /\ [MCNext]_allVars => GoneInv'
<1> SUFFICES ASSUME ExotelInv, GoneInv, [MCNext]_allVars PROVE GoneInv'
  OBVIOUS
<1>1. Leaves(ses, ses) /\ \A w \in Socket : <<w, "disconnect">> \in DOMAIN exotelFin
  BY FoundSessionLeaves DEF ExotelInv, GoneInv, EX!FinalizerKind
<1>2. CASE UNCHANGED exotelVars
  BY <1>2 DEF exotelVars, GoneInv
<1>3. ASSUME NEW w \in Socket, EX!Connect(w) PROVE GoneInv'
  BY <1>3, GoneConnectStep
<1>4. ASSUME NEW w \in Socket, EX!HandleStart(w) PROVE GoneInv'
  BY <1>4, GoneStartStep
<1>5. ASSUME NEW w \in Socket, EX!AuthorizeAndStartRuntime(w) PROVE GoneInv'
  <2>1. PICK app \in {"yes", "no"} :
          ses' = EX!MarkAppInitiated(auth[w].id, app, [ses EXCEPT !.pending = @ \ {auth[w].id}])
    BY <1>5 DEF EX!AuthorizeAndStartRuntime
  <2>2. Leaves(ses, ses')
    BY <2>1, MarkLeaves DEF ExotelInv, GoneInv
  <2>3. UNCHANGED <<sock, routed, reg, exotelFin>>
    BY <1>5 DEF EX!AuthorizeAndStartRuntime
  <2>4. QED
    BY <2>2, <2>3, LeavingStep
<1>6. ASSUME NEW w \in Socket, EX!HandleMedia(w) PROVE GoneInv'
  BY <1>6 DEF EX!HandleMedia, GoneInv
<1>7. ASSUME NEW i \in EX!Id, EX!SendMedia(i) PROVE GoneInv'
  BY <1>7 DEF EX!SendMedia, GoneInv
<1>8. ASSUME NEW w \in Socket, EX!HandleStop(w) PROVE GoneInv'
  <2>1. /\ \E x : exotelFin' = [exotelFin EXCEPT ![<<w, "stop">>] = x]
        /\ UNCHANGED <<sock, routed, ses, reg>>
    BY <1>8 DEF EX!HandleStop
  <2>2. \A v \in Socket : exotelFin'[<<v, "disconnect">>] = exotelFin[<<v, "disconnect">>]
    BY <1>1, <2>1
  <2>3. QED
    BY <1>1, <2>1, <2>2, LeavingStep
<1>9. ASSUME NEW w \in Socket, EX!HandleDisconnect(w) PROVE GoneInv'
  <2>1. sock' = [sock EXCEPT ![w] = "closed"] /\ UNCHANGED routed
    BY <1>9 DEF EX!HandleDisconnect
  <2>2. \A v \in Socket : v # w => sock'[v] = sock[v]
    BY <2>1 DEF ExotelInv
  <2>3. CASE /\ \E pc \in {"runtime", "unrecorded"} :
                  exotelFin' = [exotelFin EXCEPT ![<<w, "disconnect">>] =
                                  [pc |-> pc, id |-> ses.of[w].sid]]
             /\ UNCHANGED <<ses, reg>>
    <3>1. /\ exotelFin'[<<w, "disconnect">>].pc \in {"runtime", "unrecorded"}
          /\ \A v \in Socket : v # w =>
               exotelFin'[<<v, "disconnect">>] = exotelFin[<<v, "disconnect">>]
      BY <1>1, <2>3
    <3>2. QED
      BY <1>1, <2>1, <2>2, <2>3, <3>1, LeavingStep
  <2>4. CASE /\ ses' = EX!EndBySocketSessionId(w, ses)
             /\ reg' = EX!RemoveBySocketSessionId(w, reg)
             /\ UNCHANGED exotelFin
    <3>1. Leaves(ses, ses') /\ w \notin ses'.bySocket
      BY <2>4, FoundSessionLeaves DEF ExotelInv, GoneInv
    <3>2. reg'.sockets = reg.sockets \ {w}
      BY <2>4, RegistryDrops DEF ExotelInv
    <3>3. QED
      BY <2>1, <2>2, <2>4, <3>1, <3>2, LeavingStep
  <2>5. QED
    BY <1>9, <2>3, <2>4 DEF EX!HandleDisconnect
<1>10. ASSUME NEW f \in EX!Finalizer, EX!EndRuntimeForStream(f) PROVE GoneInv'
  <2>1. \E pc \in {"record", "end"} : exotelFin' = [exotelFin EXCEPT ![f].pc = pc]
    BY <1>10 DEF EX!EndRuntimeForStream
  <2>2. UNCHANGED <<sock, routed, ses, reg>>
    BY <1>10 DEF EX!EndRuntimeForStream
  <2>3. \A g \in Socket \X EX!FinalizerKind :
          exotelFin[g].pc \in {"runtime", "unrecorded", "record", "end"} =>
            exotelFin'[g].pc \in {"runtime", "unrecorded", "record", "end"}
    BY <2>1 DEF ExotelInv, EX!Finalizer
  <2>4. QED
    BY <1>1, <2>2, <2>3, LeavingStep DEF EX!FinalizerKind
<1>11. ASSUME NEW f \in EX!Finalizer, EX!FinalizeRecording(f) PROVE GoneInv'
  <2>1. /\ exotelFin' = [exotelFin EXCEPT ![f].pc = "end"]
        /\ UNCHANGED <<sock, routed, ses, reg>>
    BY <1>11 DEF EX!FinalizeRecording
  <2>2. \A g \in Socket \X EX!FinalizerKind :
          exotelFin[g].pc \in {"runtime", "unrecorded", "record", "end"} =>
            exotelFin'[g].pc \in {"runtime", "unrecorded", "record", "end"}
    BY <2>1 DEF ExotelInv, EX!Finalizer
  <2>3. QED
    BY <1>1, <2>1, <2>2, LeavingStep DEF EX!FinalizerKind
<1>12. ASSUME NEW w \in Socket, EX!EndOnStop(w) PROVE GoneInv'
  <2> DEFINE f == <<w, "stop">>
             i == exotelFin[f].id
  <2>1. f \in Socket \X EX!FinalizerKind
    BY DEF EX!FinalizerKind
  <2>2. /\ exotelFin[f].pc = "end"
        /\ exotelFin' = [exotelFin EXCEPT ![f] = [pc |-> "done", id |-> None]]
        /\ ses' = EX!EndByStreamSid(i, ses) /\ UNCHANGED <<sock, routed>>
        /\ \E v \in IF EX!Mapped(i, reg) = {} THEN {None} ELSE EX!Mapped(i, reg) :
             reg' = EX!RemoveByStreamSid(i, v, reg)
    BY <1>12 DEF EX!EndOnStop
  <2>3. i \in EX!Id
    BY <2>1, <2>2 DEF ExotelInv
  <2>4. \A v \in Socket : exotelFin'[<<v, "disconnect">>] = exotelFin[<<v, "disconnect">>]
    BY <1>1, <2>2
  <2> HIDE DEF i, f
  <2>5. PICK v \in EX!Mapped(i, reg) \cup {None} :
          /\ EX!Mapped(i, reg) = {} \/ v # None
          /\ reg' = EX!RemoveByStreamSid(i, v, reg)
    BY <2>2, VoiceAssumptions DEF EX!Mapped, EX!ExotelStreamsAssumption
  <2>6. Leaves(ses, ses')
    BY <2>2, <2>3, FoundSessionLeaves DEF ExotelInv, GoneInv
  <2>7. reg'.sockets \subseteq reg.sockets
    BY <2>3, <2>5, RegistryForgets DEF ExotelInv, Forgets
  <2>8. QED
    BY <2>2, <2>4, <2>6, <2>7, LeavingStep
<1>13. ASSUME NEW w \in Socket, EX!EndOnDisconnect(w) PROVE GoneInv'
  <2>1. /\ exotelFin' = [exotelFin EXCEPT ![<<w, "disconnect">>] = [pc |-> "done", id |-> None]]
        /\ ses' = EX!EndBySocketSessionId(w, ses)
        /\ reg' = EX!RemoveBySocketSessionId(w, reg) /\ UNCHANGED <<sock, routed>>
    BY <1>13 DEF EX!EndOnDisconnect
  <2>2. \A v \in Socket : v # w =>
          exotelFin'[<<v, "disconnect">>] = exotelFin[<<v, "disconnect">>]
    BY <1>1, <2>1
  <2>3. Leaves(ses, ses') /\ w \notin ses'.bySocket
    BY <2>1, FoundSessionLeaves DEF ExotelInv, GoneInv
  <2>4. reg'.sockets = reg.sockets \ {w}
    BY <2>1, RegistryDrops DEF ExotelInv
  <2>5. QED
    BY <2>1, <2>2, <2>3, <2>4, LeavingStep
<1>14. QED
  BY <1>2, <1>3, <1>4, <1>5, <1>6, <1>7, <1>8, <1>9, <1>10, <1>11, <1>12, <1>13,
     ExotelActs DEF EX!Next

\* At first no socket has come.
LEMMA GoneInit == MCInit => GoneInv
<1> SUFFICES ASSUME EX!Init PROVE GoneInv
  BY DEF MCInit
<1>1. None \notin Socket
  BY VoiceAssumptions DEF EX!ExotelStreamsAssumption
<1>2. HeldSessions(ses)
  BY <1>1 DEF EX!Init, HeldSessions
<1>3. QED
  BY <1>2 DEF EX!Init, GoneInv

\* For every number of sockets and calls, reconnections under one id included: when
\* a socket has gone, its disconnect finalizer is still to come, or none of the maps
\* of VoiceSessionService and VoiceSocketRegistry knows it: neither handleDisconnect
\* of a session that has ended nor finalizeAndDisconnect leaves an entry behind,
\* and no event of another socket with the same id puts one back.
THEOREM GoneSocketsAreForgotten == MCSpec => []GoneIsWaitedFor
<1>1. MCInit => ExotelInv /\ GoneInv
  BY ExotelInit, GoneInit
<1>2. ExotelInv /\ GoneInv /\ [MCNext]_allVars => ExotelInv' /\ GoneInv'
  BY ExotelStep, GoneStep
<1>3. ExotelInv /\ GoneInv => GoneIsWaitedFor
  BY NotHeldIsForgotten DEF ExotelInv, GoneInv, GoneIsWaitedFor
<1>4. QED
  BY <1>1, <1>2, <1>3, PTL DEF MCSpec

-----------------------------------------------------------------------------
(* The assistant's words.                                                  *)

\* What is said, the provider's fields, and OpenAI's.
Text == SUBSET (Nat \X Nat)
WordsRecord ==
  [item : Nat, buffer : Text, lastText : Text, interrupted : Nat,
   truncateSentFor : Nat, committed : BOOLEAN, responseId : Nat,
   cancelSentFor : Nat, wasInterrupted : BOOLEAN, inProgress : BOOLEAN,
   requested : BOOLEAN, pending : BOOLEAN, bargedIn : BOOLEAN,
   confirmed : BOOLEAN, awaiting : BOOLEAN]
OpenAiRecord ==
  [active : Nat, made : Nat, announced : BOOLEAN, said : Nat,
   truncated : BOOLEAN, done : BOOLEAN]
SegmentRecord == [item : Nat, text : Text, of : Nat]

\* The types.
WordsTypes ==
  /\ words \in WordsRecord /\ openai \in OpenAiRecord
  /\ segments \in Seq(SegmentRecord)
  /\ kept \in [1..MaxAnswers -> Text]
  /\ openai.made <= MaxAnswers /\ openai.said <= Deltas

\* Where the session is in a response of OpenAI, and what it has cut off of it.
CourseAgrees ==
  /\ openai.active \in {0, openai.made}
  /\ ~openai.announced => openai.said = 0 /\ ~openai.done
  /\ AT!Speaking => openai.active # 0 /\ words.item = openai.active
  /\ AT!Truncates(words) => words.item = openai.active /\ AT!Speaking
  /\ words.interrupted = words.truncateSentFor /\ words.interrupted <= openai.made
  /\ words.interrupted = openai.active /\ openai.active # 0 => openai.announced
  /\ words.inProgress => /\ openai.active # 0 /\ words.responseId = openai.active
                         /\ words.interrupted \in {0, openai.active}
  /\ (words.inProgress /\ ~openai.done) => ~words.committed
  /\ (AT!Speaking /\ words.interrupted = openai.active) => ~words.committed
  /\ (openai.truncated /\ openai.active # 0) => words.interrupted = openai.active

\* A truncation on its way is of an item that OpenAI has made, and the session
\* holds that item for interrupted while it is the running one.
FrameRecord ==
  [type : {"create", "cancel"}]
    \cup [type : {"truncate"},
          item : {i \in 1..openai.made :
                    i = openai.active => words.interrupted = openai.active}]

\* What the session has of the running answer, and of the last one.
TextsAgree ==
  /\ ~AT!Speaking => words.buffer = {}
  /\ AT!Speaking => words.buffer \subseteq AT!Said(openai.active)
  /\ (AT!Speaking /\ words.interrupted \in {0, openai.active} /\ ~openai.truncated)
       => words.buffer = AT!Heard(openai.active)
  /\ (AT!Speaking /\ words.interrupted = openai.active /\ kept[openai.active] # {})
       => /\ kept[openai.active] \subseteq words.lastText
          /\ words.lastText \subseteq AT!Said(openai.active)
          /\ words.buffer # {} => kept[openai.active] \subseteq words.buffer
  /\ openai.active # 0 => kept[openai.active] \subseteq AT!Heard(openai.active)
  /\ (openai.active # 0 /\ words.interrupted # openai.active /\ ~openai.done)
       => kept[openai.active] = {}
  /\ \A r \in 1..MaxAnswers : r > openai.made => kept[r] = {}
  /\ (openai.made >= 1 /\ (openai.active = 0 \/ openai.done) /\ kept[openai.made] # {})
       => /\ kept[openai.made] \subseteq words.lastText
          /\ words.lastText \subseteq AT!Said(openai.made)

\* Which segments there are.
SegmentsAgree ==
  /\ \A i \in DOMAIN segments : segments[i].of <= openai.made
  /\ (openai.active # 0 /\ ~openai.done) =>
       \A i \in DOMAIN segments : segments[i].of # openai.active
  /\ AT!AnswersRecorded

WordsInv ==
  WordsTypes /\ CourseAgrees /\ out \in Seq(FrameRecord) /\ TextsAgree /\ SegmentsAgree

\* What OpenAI has said of a response is of that response, and is a text.
LEMMA HeardIsSaid ==
  ASSUME WordsTypes, CourseAgrees
  PROVE  /\ AT!Heard(openai.active) \subseteq AT!Said(openai.active)
         /\ AT!Heard(openai.active) \in Text
         /\ openai.said = 0 => AT!Heard(openai.active) = {}
<1>1. openai.active \in Nat /\ openai.said \in Nat /\ openai.said <= Deltas /\ Deltas \in Nat
  BY VoiceAssumptions DEF WordsTypes, OpenAiRecord, AT!BoundsAssumption
<1>2. 1..openai.said \subseteq 1..Deltas /\ 1..openai.said \subseteq Nat
  BY <1>1
<1>3. openai.said = 0 => 1..openai.said = {}
  BY <1>1
<1>4. QED
  BY <1>1, <1>2, <1>3 DEF AT!Heard, AT!Said, Text

\* A sequence over a set is one over any larger set.
LEMMA SeqOfMore ==
  ASSUME NEW M, NEW N, M \subseteq N, NEW q \in Seq(M)
  PROVE  q \in Seq(N)
BY SeqDef

\* A segment is of a response, by its number.
LEMMA SegmentsAreOf ==
  ASSUME WordsTypes PROVE \A i \in DOMAIN segments : segments[i].of \in Nat
<1>1. \A m \in SegmentRecord : m.of \in Nat
  BY DEF SegmentRecord
<1>2. segments \in Seq(SegmentRecord)
  BY DEF WordsTypes
<1>3. \A i \in DOMAIN segments : segments[i] \in SegmentRecord
  BY <1>2, ElementOfSeq
<1>4. QED
  BY <1>1, <1>3

\* What the steps of the customer's speech and of a turn leave as it is.
LEMMA SpeechStep ==
  ASSUME WordsInv, words' \in WordsRecord,
         words'.item = words.item, words'.interrupted = words.interrupted,
         words'.truncateSentFor = words.truncateSentFor,
         words'.committed = words.committed, words'.buffer = words.buffer,
         words'.lastText = words.lastText,
         words'.inProgress => words.inProgress,
         words'.inProgress => words'.responseId = words.responseId,
         UNCHANGED <<openai, segments, kept>>,
         out' \in Seq(FrameRecord)
  PROVE  WordsInv'
<1> USE DEF WordsInv
<1>1. WordsTypes'
  BY DEF WordsTypes
<1>2. CourseAgrees'
  BY DEF CourseAgrees, AT!Speaking, AT!Truncates
<1>3. FrameRecord' = FrameRecord
  BY DEF FrameRecord
<1>4. TextsAgree'
  BY DEF TextsAgree, AT!Speaking, AT!Heard
<1>5. SegmentsAgree'
  BY DEF SegmentsAgree, AT!AnswersRecorded
<1>6. QED
  BY <1>1, <1>2, <1>3, <1>4, <1>5

\* The customer's turn opens.
LEMMA CustomerTurnStep == ASSUME WordsInv, AT!CustomerTurn PROVE WordsInv'
<1>1. words' = [words EXCEPT !.confirmed = TRUE, !.awaiting = FALSE]
  BY DEF AT!CustomerTurn, AT!ConfirmCustomerTurn
<1>2. UNCHANGED <<openai, segments, kept, out>>
  BY DEF AT!CustomerTurn, AT!history
<1>3. words \in WordsRecord /\ out \in Seq(FrameRecord)
  BY DEF WordsInv, WordsTypes
<1>4. /\ words' \in WordsRecord
      /\ words'.item = words.item /\ words'.interrupted = words.interrupted
      /\ words'.truncateSentFor = words.truncateSentFor
      /\ words'.committed = words.committed /\ words'.buffer = words.buffer
      /\ words'.lastText = words.lastText /\ words'.inProgress = words.inProgress
      /\ words'.responseId = words.responseId
  BY <1>1, <1>3 DEF WordsRecord
<1>5. QED
  BY <1>2, <1>3, <1>4, SpeechStep

\* The provider asks for a response.
LEMMA RequestStep ==
  ASSUME WordsInv, NEW b \in BOOLEAN,
         words' = AT!SendResponseCreate([words EXCEPT !.wasInterrupted = b]),
         out' = out \o <<[type |-> "create"]>>,
         UNCHANGED <<openai, segments, kept>>
  PROVE  WordsInv'
<1>1. words \in WordsRecord /\ out \in Seq(FrameRecord)
  BY DEF WordsInv, WordsTypes
<1>2. PICK y \in WordsRecord :
        /\ y = [words EXCEPT !.wasInterrupted = b]
        /\ y.item = words.item /\ y.interrupted = words.interrupted
        /\ y.truncateSentFor = words.truncateSentFor
        /\ y.committed = words.committed /\ y.buffer = words.buffer
        /\ y.lastText = words.lastText /\ y.inProgress = words.inProgress
        /\ y.responseId = words.responseId
  BY <1>1 DEF WordsRecord
<1>3. /\ words' \in WordsRecord
      /\ words'.item = words.item /\ words'.interrupted = words.interrupted
      /\ words'.truncateSentFor = words.truncateSentFor
      /\ words'.committed = words.committed /\ words'.buffer = words.buffer
      /\ words'.lastText = words.lastText /\ words'.inProgress = words.inProgress
      /\ words'.responseId = words.responseId
  BY <1>2, ZenonT(60) DEF WordsRecord, AT!SendResponseCreate
<1>4. [type |-> "create"] \in FrameRecord
  BY DEF FrameRecord
<1>5. out' \in Seq(FrameRecord)
  BY <1>1, <1>4
<1>6. QED
  BY <1>3, <1>5, SpeechStep

\* OpenAI refuses a frame.
LEMMA RefusedStep ==
  ASSUME WordsInv, out # <<>>, out' = Tail(out),
         words' = AT!ResetResponseGuards(words), UNCHANGED <<openai, segments, kept>>
  PROVE  WordsInv'
<1>1. words \in WordsRecord /\ out \in Seq(FrameRecord)
  BY DEF WordsInv, WordsTypes
<1>2. /\ words' \in WordsRecord
      /\ words'.item = words.item /\ words'.interrupted = words.interrupted
      /\ words'.truncateSentFor = words.truncateSentFor
      /\ words'.committed = words.committed /\ words'.buffer = words.buffer
      /\ words'.lastText = words.lastText /\ words'.inProgress = FALSE
      /\ words'.responseId = words.responseId
  BY <1>1 DEF WordsRecord, AT!ResetResponseGuards
<1>3. out' \in Seq(FrameRecord)
  BY <1>1
<1>4. QED
  BY <1>2, <1>3, SpeechStep
\* The customer interrupts the assistant: what is said of the item is kept.
LEMMA BargeInStep == ASSUME WordsInv, AT!BargeIn PROVE WordsInv'
<1> DEFINE cut == AT!Truncates(words)
<1>1. words \in WordsRecord /\ out \in Seq(FrameRecord)
  BY DEF WordsInv, WordsTypes
<1>2. cut => /\ words.item = openai.active /\ AT!Speaking /\ openai.active # 0
             /\ words.interrupted = 0 /\ ~openai.truncated
             /\ words.buffer = AT!Heard(openai.active)
  BY DEF WordsInv, WordsTypes, CourseAgrees, TextsAgree, AT!Truncates, AT!BargeIn
<1>3. AT!ResolveInterruptedAssistantText(words) \in Text
  BY <1>1 DEF WordsRecord, AT!ResolveInterruptedAssistantText
<1> HIDE DEF cut
<1>4. PICK x : x = IF cut THEN AT!TruncateInterruptedItem(words) ELSE words
  OBVIOUS
<1>5. /\ x \in WordsRecord
      /\ x.item = words.item /\ x.committed = words.committed
      /\ x.buffer = words.buffer
      /\ x.inProgress = words.inProgress /\ x.responseId = words.responseId
      /\ x.interrupted = IF cut THEN words.item ELSE words.interrupted
      /\ x.truncateSentFor = IF cut THEN words.item ELSE words.truncateSentFor
      /\ x.lastText = IF cut THEN AT!ResolveInterruptedAssistantText(words)
                      ELSE words.lastText
  <2>1. PICK text \in Text : text = AT!ResolveInterruptedAssistantText(words)
    BY <1>3
  <2>2. cut => x = [words EXCEPT !.truncateSentFor = words.item,
                                 !.interrupted = words.item, !.lastText = text]
    BY <1>4, <2>1 DEF AT!TruncateInterruptedItem
  <2>3. CASE cut
    BY <1>1, <2>1, <2>2, <2>3 DEF WordsRecord
  <2>4. CASE ~cut
    BY <1>1, <1>4, <2>4
  <2>5. QED
    BY <2>3, <2>4
<1>6. PICK y :
        y = IF AT!ShouldCancelResponse(words) THEN AT!CancelInterruptedResponse(x) ELSE x
  OBVIOUS
<1>7. /\ y \in WordsRecord
      /\ y.item = x.item /\ y.committed = x.committed /\ y.buffer = x.buffer
      /\ y.inProgress = x.inProgress /\ y.responseId = x.responseId
      /\ y.interrupted = x.interrupted /\ y.truncateSentFor = x.truncateSentFor
      /\ y.lastText = x.lastText
  BY <1>5, <1>6 DEF WordsRecord, AT!CancelInterruptedResponse
<1>8. words' = AT!ConfirmCustomerTurn([y EXCEPT !.bargedIn = TRUE])
  BY <1>4, <1>6 DEF AT!BargeIn, cut
<1>9. /\ words' \in WordsRecord
      /\ words'.item = words.item /\ words'.committed = words.committed
      /\ words'.buffer = words.buffer /\ words'.inProgress = words.inProgress
      /\ words'.responseId = words.responseId
      /\ words'.interrupted = IF cut THEN words.item ELSE words.interrupted
      /\ words'.truncateSentFor = IF cut THEN words.item ELSE words.truncateSentFor
      /\ words'.lastText = IF cut THEN AT!ResolveInterruptedAssistantText(words)
                           ELSE words.lastText
  <2>1. PICK z : z = [y EXCEPT !.bargedIn = TRUE]
    OBVIOUS
  <2>2. /\ z \in WordsRecord
        /\ z.item = y.item /\ z.committed = y.committed /\ z.buffer = y.buffer
        /\ z.inProgress = y.inProgress /\ z.responseId = y.responseId
        /\ z.interrupted = y.interrupted /\ z.truncateSentFor = y.truncateSentFor
        /\ z.lastText = y.lastText
    BY <1>7, <2>1 DEF WordsRecord
  <2>3. /\ words' \in WordsRecord
        /\ words'.item = z.item /\ words'.committed = z.committed
        /\ words'.buffer = z.buffer /\ words'.inProgress = z.inProgress
        /\ words'.responseId = z.responseId
        /\ words'.interrupted = z.interrupted
        /\ words'.truncateSentFor = z.truncateSentFor /\ words'.lastText = z.lastText
    BY <1>8, <2>1, <2>2, ZenonT(60) DEF WordsRecord, AT!ConfirmCustomerTurn
  <2>4. QED
    BY <1>5, <1>7, <2>2, <2>3
<1>10. UNCHANGED <<openai, segments>>
  BY DEF AT!BargeIn
<1>11. kept' = IF cut THEN [kept EXCEPT ![words.item] = AT!Heard(words.item)] ELSE kept
  BY DEF AT!BargeIn, cut
<1>12. FrameRecord \subseteq FrameRecord'
  BY <1>2, <1>9, <1>10 DEF FrameRecord, WordsInv, CourseAgrees
<1>13. out' \in Seq(FrameRecord')
  <2>1. PICK a : a = IF cut THEN <<[type |-> "truncate", item |-> words.item]>> ELSE <<>>
    OBVIOUS
  <2>2. PICK b : b = IF AT!ShouldCancelResponse(words) THEN <<[type |-> "cancel"]>> ELSE <<>>
    OBVIOUS
  <2>3. out' = out \o (a \o b)
    BY <2>1, <2>2 DEF AT!BargeIn, AT!Send, cut
  <2>4. [type |-> "cancel"] \in FrameRecord'
    BY DEF FrameRecord
  <2>5. cut => words.item \in 1..openai.made' /\ words'.interrupted = openai.active'
    BY <1>2, <1>9, <1>10 DEF WordsInv, WordsTypes, CourseAgrees, OpenAiRecord
  <2>6. cut => [type |-> "truncate", item |-> words.item] \in FrameRecord'
    BY <2>5 DEF FrameRecord
  <2>7. a \in Seq(FrameRecord') /\ b \in Seq(FrameRecord')
    BY <2>1, <2>2, <2>4, <2>6
  <2>8. out \in Seq(FrameRecord')
    BY <1>1, <1>12, SeqOfMore
  <2>9. QED
    BY <2>3, <2>7, <2>8
<1>14. WordsTypes'
  <2>1. cut => AT!Heard(words.item) \in Text
    BY <1>2, HeardIsSaid DEF WordsInv
  <2>2. kept' \in [1..MaxAnswers -> Text]
    BY <1>11, <2>1 DEF WordsInv, WordsTypes
  <2>3. QED
    BY <1>9, <1>10, <2>2 DEF WordsInv, WordsTypes
<1>15. CourseAgrees'
  <2>1. CASE cut
    <3>1. openai.active <= openai.made /\ openai.made \in Nat
      BY DEF WordsInv, WordsTypes, CourseAgrees, OpenAiRecord
    <3>2. /\ words'.item = openai.active /\ words'.interrupted = openai.active
          /\ words'.truncateSentFor = openai.active
      BY <2>1, <1>2, <1>9
    <3>3. ~words.committed
      BY <2>1, <1>2 DEF AT!BargeIn, WordsInv, CourseAgrees, AT!Speaking
    <3>4. QED
      BY <2>1, <1>2, <1>9, <1>10, <3>1, <3>2, <3>3
         DEF WordsInv, CourseAgrees, AT!Speaking, AT!Truncates
  <2>2. CASE ~cut
    BY <2>2, <1>9, <1>10 DEF WordsInv, CourseAgrees, AT!Speaking, AT!Truncates
  <2>3. QED
    BY <2>1, <2>2
<1>16. TextsAgree'
  <2>1. CASE cut
    <3>1. /\ openai.active \in 1..MaxAnswers /\ openai.made = openai.active
          /\ openai.made \in Nat
      BY <2>1, <1>2 DEF WordsInv, WordsTypes, CourseAgrees, OpenAiRecord
    <3>2. /\ kept'[openai.active] = AT!Heard(openai.active)
          /\ \A r \in 1..MaxAnswers : r # openai.active => kept'[r] = kept[r]
      BY <2>1, <3>1, <1>2, <1>11 DEF WordsInv, WordsTypes
    <3>3. /\ words'.buffer = AT!Heard(openai.active)
          /\ AT!Heard(openai.active) # {} => words'.lastText = AT!Heard(openai.active)
          /\ words'.interrupted = openai.active
      BY <2>1, <1>2, <1>9 DEF AT!ResolveInterruptedAssistantText
    <3>4. AT!Heard(openai.active)' = AT!Heard(openai.active)
      BY <1>10 DEF AT!Heard
    <3>5. AT!Heard(openai.active) \subseteq AT!Said(openai.active)
      BY HeardIsSaid DEF WordsInv
    <3>6. QED
      BY <2>1, <1>2, <1>10, <3>1, <3>2, <3>3, <3>4, <3>5
         DEF WordsInv, TextsAgree, AT!Speaking, AT!Said
  <2>2. CASE ~cut
    BY <2>2, <1>9, <1>10, <1>11 DEF WordsInv, TextsAgree, AT!Speaking, AT!Heard, AT!Said
  <2>3. QED
    BY <2>1, <2>2
<1>17. SegmentsAgree'
  <2>1. \A r \in 1..MaxAnswers : (r = openai.active => openai.done) => kept'[r] = kept[r]
    BY <1>2, <1>11 DEF WordsInv, WordsTypes, AT!Speaking
  <2>2. 1..openai.made \subseteq 1..MaxAnswers
    BY VoiceAssumptions DEF WordsInv, WordsTypes, OpenAiRecord, AT!BoundsAssumption
  <2>3. AT!AnswersRecorded'
    BY <1>10, <2>1, <2>2 DEF WordsInv, SegmentsAgree, AT!AnswersRecorded, AT!Said
  <2>4. QED
    BY <1>10, <2>3 DEF WordsInv, SegmentsAgree
<1>18. QED
  BY <1>13, <1>14, <1>15, <1>16, <1>17 DEF WordsInv

\* OpenAI starts a response.
LEMMA StartStep ==
  ASSUME WordsInv, NEW q \in Seq(FrameRecord), AT!Starts(q),
         UNCHANGED <<segments, kept>>
  PROVE  WordsInv'
<1> DEFINE n == openai.made + 1
<1>1. words \in WordsRecord /\ openai \in OpenAiRecord
  BY DEF WordsInv, WordsTypes
<1>2. openai.active = 0 /\ n \in Nat /\ n <= MaxAnswers /\ 0 <= Deltas
  BY <1>1, VoiceAssumptions DEF AT!Starts, AT!Response, OpenAiRecord, AT!BoundsAssumption
<1>3. openai' = [active |-> n, made |-> n, announced |-> FALSE, said |-> 0,
                 truncated |-> FALSE, done |-> FALSE]
  BY DEF AT!Starts
<1>4. ~AT!Speaking /\ words.buffer = {} /\ ~AT!Truncates(words) /\ ~words.inProgress
      /\ words.interrupted <= openai.made
  BY <1>2 DEF WordsInv, CourseAgrees, TextsAgree
<1>5. words' = IF AT!Authorized THEN AT!ResponseCreated(n) ELSE words
  BY DEF AT!Starts
<1>6. /\ words' \in WordsRecord
      /\ words'.buffer = {} /\ words'.interrupted = words'.truncateSentFor
      /\ words'.interrupted \in {0, words.interrupted}
      /\ words'.item # 0 => words'.truncateSentFor = words'.item
      /\ words'.inProgress => /\ words'.responseId = n /\ words'.interrupted = 0
                              /\ ~words'.committed
  <2>1. CASE AT!Authorized
    BY <2>1, <1>1, <1>2, <1>5, ZenonT(60) DEF WordsRecord, AT!ResponseCreated, Text
  <2>2. CASE ~AT!Authorized
    BY <2>2, <1>1, <1>4, <1>5 DEF AT!Truncates, WordsInv, CourseAgrees
  <2>3. QED
    BY <2>1, <2>2
<1>7. words'.interrupted # n /\ words'.interrupted <= n /\ n # 0
  BY <1>1, <1>4, <1>6 DEF OpenAiRecord, WordsRecord
<1>8. 1..openai.made \subseteq 1..n /\ n \notin 1..openai.made
  BY <1>1 DEF OpenAiRecord
<1>9. openai'.active = n /\ openai'.made = n /\ openai'.announced = FALSE
      /\ openai'.said = 0 /\ openai'.truncated = FALSE /\ openai'.done = FALSE
      /\ openai' \in OpenAiRecord
  BY <1>2, <1>3 DEF OpenAiRecord
<1> HIDE DEF n
<1>10. FrameRecord \subseteq FrameRecord'
  BY <1>8, <1>9 DEF FrameRecord
<1>11. out' \in Seq(FrameRecord')
  <2>1. q \in Seq(FrameRecord')
    BY <1>10, SeqOfMore
  <2>2. [type |-> "cancel"] \in FrameRecord'
    BY DEF FrameRecord
  <2>3. PICK b : b = IF AT!Authorized THEN <<>> ELSE <<[type |-> "cancel"]>>
    OBVIOUS
  <2>4. b \in Seq(FrameRecord')
    BY <2>2, <2>3
  <2>5. QED
    BY <2>1, <2>3, <2>4 DEF AT!Starts
<1>12. WordsTypes'
  BY <1>2, <1>6, <1>9 DEF WordsInv, WordsTypes
<1>13. CourseAgrees'
  BY <1>6, <1>7, <1>9 DEF CourseAgrees, AT!Speaking, AT!Truncates
<1>14. TextsAgree'
  <2>1. kept[n] = {} /\ n \in 1..MaxAnswers
    BY <1>1, <1>2, <1>7, <1>8 DEF WordsInv, TextsAgree, OpenAiRecord, n
  <2>2. \A r \in 1..MaxAnswers : r > n => kept[r] = {}
    BY <1>1, <1>2 DEF WordsInv, TextsAgree, OpenAiRecord, n
  <2>3. QED
    BY <1>6, <1>7, <1>9, <2>1, <2>2 DEF TextsAgree, AT!Speaking
<1>15. SegmentsAgree'
  <2>1. \A i \in DOMAIN segments : segments[i].of <= openai.made /\ segments[i].of \in Nat
    BY SegmentsAreOf DEF WordsInv, SegmentsAgree
  <2>2. \A i \in DOMAIN segments : segments[i].of <= n /\ segments[i].of # n
    BY <1>1, <2>1 DEF OpenAiRecord, n
  <2>3. \A r \in 1..n : r # n => r \in 1..openai.made /\ r # openai.active
    BY <1>1, <1>2 DEF OpenAiRecord, n
  <2>4. AT!AnswersRecorded'
    BY <1>9, <2>3 DEF WordsInv, SegmentsAgree, AT!AnswersRecorded, AT!Said
  <2>5. QED
    BY <1>9, <2>2, <2>4 DEF SegmentsAgree
<1>16. QED
  BY <1>11, <1>12, <1>13, <1>14, <1>15 DEF WordsInv
\* OpenAI announces the item of a response.
LEMMA ItemAddedStep == ASSUME WordsInv, AT!ItemAdded PROVE WordsInv'
<1>1. words \in WordsRecord /\ openai \in OpenAiRecord /\ out \in Seq(FrameRecord)
  BY DEF WordsInv, WordsTypes
<1>2. openai.active # 0 /\ ~openai.announced /\ UNCHANGED <<out, segments, kept>>
  BY DEF AT!ItemAdded, AT!history
<1>3. /\ words' \in WordsRecord /\ words'.item = openai.active
      /\ words'.interrupted = words.interrupted
      /\ words'.truncateSentFor = words.truncateSentFor
      /\ words'.committed = words.committed /\ words'.buffer = words.buffer
      /\ words'.lastText = words.lastText /\ words'.inProgress = words.inProgress
      /\ words'.responseId = words.responseId
  BY <1>1 DEF AT!ItemAdded, WordsRecord, OpenAiRecord
<1>4. /\ openai' \in OpenAiRecord /\ openai'.announced = TRUE
      /\ openai'.active = openai.active /\ openai'.made = openai.made
      /\ openai'.said = openai.said /\ openai'.truncated = openai.truncated
      /\ openai'.done = openai.done
  BY <1>1 DEF AT!ItemAdded, OpenAiRecord
<1>5. ~openai.done /\ openai.said = 0 /\ words.interrupted # openai.active
      /\ ~openai.truncated /\ words.buffer = {} /\ kept[openai.active] = {}
  BY <1>2 DEF WordsInv, CourseAgrees, TextsAgree, AT!Speaking
<1>6. out' \in Seq(FrameRecord')
  BY <1>1, <1>2, <1>3, <1>4 DEF FrameRecord
<1>7. WordsTypes'
  BY <1>2, <1>3, <1>4 DEF WordsInv, WordsTypes
<1>8. CourseAgrees'
  BY <1>2, <1>3, <1>4, <1>5 DEF WordsInv, CourseAgrees, AT!Speaking, AT!Truncates
<1>9. TextsAgree'
  <2>1. AT!Heard(openai.active)' = {}
    BY <1>4, <1>5, <1>7, <1>8, HeardIsSaid DEF AT!Heard
  <2>2. QED
    BY <1>2, <1>3, <1>4, <1>5, <2>1 DEF WordsInv, TextsAgree, AT!Speaking, AT!Said
<1>10. SegmentsAgree'
  BY <1>2, <1>4 DEF WordsInv, SegmentsAgree, AT!AnswersRecorded, AT!Said
<1>11. QED
  BY <1>6, <1>7, <1>8, <1>9, <1>10 DEF WordsInv

\* A delta of the transcript arrives.
LEMMA DeltaStep == ASSUME WordsInv, AT!TranscriptDelta PROVE WordsInv'
<1> DEFINE said == openai.said + 1
<1>1. words \in WordsRecord /\ openai \in OpenAiRecord /\ out \in Seq(FrameRecord)
  BY DEF WordsInv, WordsTypes
<1>2. /\ AT!Speaking /\ ~openai.truncated /\ openai.said < Deltas
      /\ UNCHANGED <<out, segments, kept>>
  BY DEF AT!TranscriptDelta, AT!history
<1>3. openai.active # 0 /\ openai.active \in Nat /\ said \in 1..Deltas /\ said \in Nat
  BY <1>1, <1>2, VoiceAssumptions
     DEF WordsInv, CourseAgrees, OpenAiRecord, AT!BoundsAssumption
<1>4. PICK text : text = words.buffer \cup {<<openai.active, said>>}
  OBVIOUS
<1>5. text \in Text /\ text # {}
  <2>1. words.buffer \in Text
    BY <1>1 DEF WordsRecord
  <2>2. <<openai.active, said>> \in Nat \X Nat
    BY <1>3
  <2>3. QED
    BY <1>4, <2>1, <2>2 DEF Text
<1>6. words' = [words EXCEPT !.buffer = text]
  BY <1>4 DEF AT!TranscriptDelta
<1>7. /\ words' \in WordsRecord /\ words'.item = words.item
      /\ words'.interrupted = words.interrupted
      /\ words'.truncateSentFor = words.truncateSentFor
      /\ words'.committed = words.committed /\ words'.buffer = text
      /\ words'.lastText = words.lastText /\ words'.inProgress = words.inProgress
      /\ words'.responseId = words.responseId
  BY <1>1, <1>5, <1>6 DEF WordsRecord
<1>8. /\ openai' \in OpenAiRecord /\ openai'.said = said
      /\ openai'.active = openai.active /\ openai'.made = openai.made
      /\ openai'.announced = openai.announced /\ openai'.truncated = openai.truncated
      /\ openai'.done = openai.done
  BY <1>1, <1>3 DEF AT!TranscriptDelta, OpenAiRecord
<1>9. out' \in Seq(FrameRecord')
  BY <1>1, <1>2, <1>7, <1>8 DEF FrameRecord
<1>10. WordsTypes'
  BY <1>2, <1>3, <1>7, <1>8, VoiceAssumptions DEF WordsInv, WordsTypes, AT!BoundsAssumption
<1>11. CourseAgrees'
  BY <1>2, <1>7, <1>8 DEF WordsInv, CourseAgrees, AT!Speaking, AT!Truncates
<1>12. TextsAgree'
  <2>1. AT!Heard(openai.active)' = AT!Heard(openai.active) \cup {<<openai.active, said>>}
    <3>1. 1..said = (1..openai.said) \cup {said}
      BY <1>1 DEF OpenAiRecord
    <3>2. QED
      BY <1>8, <3>1 DEF AT!Heard
  <2>2. text \subseteq AT!Said(openai.active)
    BY <1>2, <1>3, <1>4 DEF WordsInv, TextsAgree, AT!Said
  <2>3. words.interrupted \in {0, openai.active} => text = AT!Heard(openai.active)'
    BY <1>2, <1>4, <2>1 DEF WordsInv, TextsAgree
  <2>4. kept[openai.active] \subseteq AT!Heard(openai.active)'
    BY <1>3, <2>1 DEF WordsInv, TextsAgree
  <2>5. QED
    BY <1>2, <1>3, <1>5, <1>7, <1>8, <2>2, <2>3, <2>4
       DEF WordsInv, TextsAgree, AT!Speaking, AT!Said
<1>13. SegmentsAgree'
  BY <1>2, <1>8 DEF WordsInv, SegmentsAgree, AT!AnswersRecorded, AT!Said
<1>14. QED
  BY <1>9, <1>10, <1>11, <1>12, <1>13 DEF WordsInv

\* OpenAI takes a truncation.
LEMMA TruncatedStep ==
  ASSUME WordsInv, out # <<>>, out' = Tail(out), NEW item,
         item = Head(out).item, Head(out).type = "truncate",
         openai' = [openai EXCEPT !.truncated = @ \/ openai.active = item],
         words' = AT!ItemTruncated(item), UNCHANGED <<segments, kept>>
  PROVE  WordsInv'
<1>1. words \in WordsRecord /\ openai \in OpenAiRecord /\ out \in Seq(FrameRecord)
  BY DEF WordsInv, WordsTypes
<1>2. Head(out) \in FrameRecord
  BY <1>1
<1>3. item \in 1..openai.made /\ (item = openai.active => words.interrupted = openai.active)
  BY <1>2 DEF FrameRecord
<1>4. /\ words' \in WordsRecord /\ words'.item = words.item
      /\ words'.interrupted = words.interrupted
      /\ words'.truncateSentFor = words.truncateSentFor
      /\ words'.committed = words.committed
      /\ words'.buffer = IF item = words.interrupted THEN {} ELSE words.buffer
      /\ words'.lastText = words.lastText /\ words'.inProgress = words.inProgress
      /\ words'.responseId = words.responseId
  BY <1>1 DEF AT!ItemTruncated, WordsRecord, Text
<1>5. PICK b \in BOOLEAN : b = (openai.truncated \/ openai.active = item)
  OBVIOUS
<1>6. openai' = [openai EXCEPT !.truncated = b]
  BY <1>5
<1>7. /\ openai' \in OpenAiRecord /\ openai'.said = openai.said
      /\ openai'.active = openai.active /\ openai'.made = openai.made
      /\ openai'.announced = openai.announced /\ openai'.truncated = b
      /\ openai'.done = openai.done
  BY <1>1, <1>6 DEF OpenAiRecord
<1>8. out' \in Seq(FrameRecord')
  BY <1>1, <1>4, <1>7 DEF FrameRecord
<1>9. WordsTypes'
  BY <1>4, <1>7 DEF WordsInv, WordsTypes
<1>10. CourseAgrees'
  BY <1>3, <1>4, <1>5, <1>7 DEF WordsInv, CourseAgrees, AT!Speaking, AT!Truncates
<1>11. TextsAgree'
  <2>1. AT!Heard(openai.active)' = AT!Heard(openai.active)
    BY <1>7 DEF AT!Heard
  <2>2. item # 0
    BY <1>1, <1>3 DEF OpenAiRecord
  <2>3. QED
    BY <1>3, <1>4, <1>5, <1>7, <2>1, <2>2, ZenonT(60)
       DEF WordsInv, TextsAgree, AT!Speaking, AT!Said
<1>12. SegmentsAgree'
  BY <1>7 DEF WordsInv, SegmentsAgree, AT!AnswersRecorded, AT!Said
<1>13. QED
  BY <1>8, <1>9, <1>10, <1>11, <1>12 DEF WordsInv

\* A response ends.
LEMMA EndsStep ==
  ASSUME WordsInv, AT!Quiet, openai' = [openai EXCEPT !.active = 0],
         words' \in {AT!ResponseDone, AT!ResponseCancelled},
         out' \in Seq(FrameRecord), UNCHANGED <<segments, kept>>
  PROVE  WordsInv'
<1>1. words \in WordsRecord /\ openai \in OpenAiRecord
  BY DEF WordsInv, WordsTypes
<1>2. /\ words' \in WordsRecord /\ words'.item = words.item
      /\ words'.interrupted = words.interrupted
      /\ words'.truncateSentFor = words.truncateSentFor
      /\ words'.committed = words.committed /\ words'.buffer = words.buffer
      /\ words'.lastText = words.lastText /\ words'.inProgress = FALSE
      /\ words'.responseId = 0
  <2>1. CASE words' = AT!ResponseCancelled
    BY <1>1, <2>1 DEF AT!ResponseCancelled, AT!ResetResponseGuards, WordsRecord
  <2>2. CASE words' = AT!ResponseDone
    <3>1. PICK x : x = [words EXCEPT !.inProgress = FALSE, !.requested = FALSE,
                                     !.responseId = 0, !.cancelSentFor = 0]
      OBVIOUS
    <3>2. /\ x \in WordsRecord /\ x.item = words.item
          /\ x.interrupted = words.interrupted
          /\ x.truncateSentFor = words.truncateSentFor
          /\ x.committed = words.committed /\ x.buffer = words.buffer
          /\ x.lastText = words.lastText /\ x.inProgress = FALSE /\ x.responseId = 0
      BY <1>1, <3>1 DEF WordsRecord
    <3>3. words' = AT!SetAwaitingCustomerInput(x)
      BY <2>2, <3>1 DEF AT!ResponseDone
    <3>4. QED
      BY <3>2, <3>3 DEF AT!SetAwaitingCustomerInput, WordsRecord
  <2>3. QED
    BY <2>1, <2>2
<1>3. /\ openai' \in OpenAiRecord /\ openai'.active = 0 /\ openai'.said = openai.said
      /\ openai'.made = openai.made /\ openai'.announced = openai.announced
      /\ openai'.truncated = openai.truncated /\ openai'.done = openai.done
  BY <1>1 DEF OpenAiRecord
<1>4. ~AT!Speaking /\ ~AT!Truncates(words) /\ openai.active # 0
  BY DEF AT!Quiet, AT!Speaking, WordsInv, CourseAgrees
<1>5. out' \in Seq(FrameRecord')
  <2>1. FrameRecord \subseteq FrameRecord'
    BY <1>1, <1>2, <1>3 DEF FrameRecord, OpenAiRecord
  <2>2. QED
    BY <2>1, SeqOfMore
<1>6. WordsTypes'
  BY <1>2, <1>3 DEF WordsInv, WordsTypes
<1>7. CourseAgrees'
  BY <1>2, <1>3, <1>4 DEF WordsInv, CourseAgrees, AT!Speaking, AT!Truncates
<1>8. TextsAgree'
  <2>1. openai.active = openai.made
    BY <1>4 DEF WordsInv, CourseAgrees
  <2>2. openai.done \/ kept[openai.made] = {}
    BY <1>4, <2>1 DEF WordsInv, CourseAgrees, TextsAgree, AT!Quiet
  <2>3. QED
    BY <1>2, <1>3, <1>4, <2>1, <2>2 DEF WordsInv, TextsAgree, AT!Speaking, AT!Said
<1>9. SegmentsAgree'
  <2>1. openai.done \/ kept[openai.active] = {}
    BY <1>4 DEF WordsInv, CourseAgrees, TextsAgree, AT!Quiet
  <2>2. QED
    BY <1>3, <2>1 DEF WordsInv, SegmentsAgree, AT!AnswersRecorded, AT!Said
<1>10. QED
  BY <1>5, <1>6, <1>7, <1>8, <1>9 DEF WordsInv
\* A text that is recorded is the segment after the others.
LEMMA RecordedText ==
  ASSUME WordsTypes, NEW item \in Nat, NEW text \in Text, text # {},
         segments' = AT!Record(item, text)
  PROVE  /\ segments' \in Seq(SegmentRecord)
         /\ DOMAIN segments' = DOMAIN segments \cup {Len(segments) + 1}
         /\ Len(segments) + 1 \notin DOMAIN segments
         /\ \A i \in DOMAIN segments : segments'[i] = segments[i]
         /\ segments'[Len(segments) + 1] =
              [item |-> item, text |-> text, of |-> openai.active]
<1>1. PICK m : m = [item |-> item, text |-> text, of |-> openai.active]
  OBVIOUS
<1>2. m \in SegmentRecord
  BY <1>1 DEF SegmentRecord, WordsTypes, OpenAiRecord
<1>3. segments' = Append(segments, m) /\ segments \in Seq(SegmentRecord)
  BY <1>1 DEF AT!Record, WordsTypes
<1>4. QED
  BY <1>1, <1>2, <1>3

\* The transcript of the running response ends: its segment is the first of it,
\* and the only one.
LEMMA AnswerRecorded ==
  ASSUME WordsInv, AT!Speaking, NEW text \in Text,
         openai' \in OpenAiRecord, openai'.active = openai.active,
         openai'.made = openai.made, openai'.done,
         segments' = AT!Record(openai.active, text),
         \A r \in 1..MaxAnswers : r # openai.active => kept'[r] = kept[r],
         kept'[openai.active] # {} =>
           /\ kept'[openai.active] \subseteq text
           /\ text \subseteq AT!Said(openai.active)
  PROVE  segments' \in Seq(SegmentRecord) /\ SegmentsAgree'
<1>1. /\ openai.active # 0 /\ openai.active \in Nat /\ openai.made \in Nat
      /\ openai.active = openai.made /\ openai.made <= MaxAnswers
      /\ ~openai.done /\ MaxAnswers \in Nat
  BY VoiceAssumptions
     DEF WordsInv, WordsTypes, CourseAgrees, OpenAiRecord, AT!Speaking, AT!BoundsAssumption
<1>2. \A i \in DOMAIN segments : segments[i].of <= openai.made
                                 /\ segments[i].of # openai.active
  BY <1>1 DEF WordsInv, SegmentsAgree
<1>3. \A r \in 1..openai.made : r # openai.active => kept'[r] = kept[r]
  BY <1>1
<1>4. CASE text = {}
  <2>1. segments' = segments /\ kept'[openai.active] = {}
    BY <1>4 DEF AT!Record
  <2>2. segments \in Seq(SegmentRecord)
    BY DEF WordsInv, WordsTypes
  <2>3. AT!AnswersRecorded'
    BY <1>3, <2>1 DEF WordsInv, SegmentsAgree, AT!AnswersRecorded, AT!Said
  <2>4. QED
    BY <1>2, <2>1, <2>2, <2>3 DEF SegmentsAgree
<1>5. CASE text # {}
  <2> DEFINE n == Len(segments) + 1
  <2>1. /\ segments' \in Seq(SegmentRecord)
        /\ DOMAIN segments' = DOMAIN segments \cup {n} /\ n \notin DOMAIN segments
        /\ \A i \in DOMAIN segments : segments'[i] = segments[i]
        /\ segments'[n] = [item |-> openai.active, text |-> text, of |-> openai.active]
    BY <1>1, <1>5, RecordedText DEF WordsInv
  <2>2. /\ segments'[n].of = openai.active /\ segments'[n].item = openai.active
        /\ segments'[n].text = text
    BY <2>1
  <2> HIDE DEF n
  <2>3. \A i \in DOMAIN segments' : segments'[i].of <= openai.made
    BY <1>1, <1>2, <2>1, <2>2
  <2>4. ASSUME NEW r \in 1..openai.made, r # openai.active, kept'[r] # {}
        PROVE  \E i \in DOMAIN segments' :
                 /\ segments'[i].of = r /\ segments'[i].item = r
                 /\ kept'[r] \subseteq segments'[i].text
                 /\ segments'[i].text \subseteq AT!Said(r)
                 /\ \A j \in DOMAIN segments' : segments'[j].of = r => j = i
    <3>1. PICK i \in DOMAIN segments :
            /\ segments[i].of = r /\ segments[i].item = r
            /\ kept[r] \subseteq segments[i].text /\ segments[i].text \subseteq AT!Said(r)
            /\ \A j \in DOMAIN segments : segments[j].of = r => j = i
      BY <1>3, <2>4 DEF WordsInv, SegmentsAgree, AT!AnswersRecorded
    <3>2. QED
      BY <1>3, <2>1, <2>2, <2>4, <3>1
  <2>5. kept'[openai.active] # {} =>
          \E i \in DOMAIN segments' :
            /\ segments'[i].of = openai.active /\ segments'[i].item = openai.active
            /\ kept'[openai.active] \subseteq segments'[i].text
            /\ segments'[i].text \subseteq AT!Said(openai.active)
            /\ \A j \in DOMAIN segments' : segments'[j].of = openai.active => j = i
    BY <1>2, <2>1, <2>2
  <2>6. AT!AnswersRecorded'
    BY <2>4, <2>5 DEF AT!AnswersRecorded, AT!Said
  <2>7. QED
    BY <2>1, <2>3, <2>6 DEF SegmentsAgree
<1>6. QED
  BY <1>4, <1>5

\* The transcript of a response ends.
LEMMA DoneStep == ASSUME WordsInv, AT!TranscriptDone PROVE WordsInv'
<1> DEFINE heard == AT!Heard(openai.active)
<1>1. words \in WordsRecord /\ openai \in OpenAiRecord /\ out \in Seq(FrameRecord)
  BY DEF WordsInv, WordsTypes
<1>2. /\ openai' \in OpenAiRecord /\ openai'.active = openai.active
      /\ openai'.made = openai.made /\ openai'.said = openai.said
      /\ openai'.announced = openai.announced /\ openai'.truncated = openai.truncated
      /\ openai'.done = TRUE
  BY <1>1 DEF AT!TranscriptDone, OpenAiRecord
<1>3. AT!Speaking /\ out' = out /\ ~AT!Speaking' /\ openai.announced
  BY <1>2 DEF AT!TranscriptDone, AT!Speaking
<1>4. /\ openai.active # 0 /\ openai.active = openai.made /\ words.item = openai.active
      /\ openai.active \in 1..MaxAnswers /\ openai.active \in Nat /\ ~openai.done
  BY <1>1, <1>3, VoiceAssumptions
     DEF WordsInv, WordsTypes, CourseAgrees, OpenAiRecord, AT!BoundsAssumption, AT!Speaking
<1>5. heard \subseteq AT!Said(openai.active) /\ heard \in Text
  BY HeardIsSaid DEF WordsInv
<1>6. heard' = heard
  BY <1>2 DEF AT!Heard
<1> HIDE DEF heard
<1>7. CASE AT!DoneAfterInterrupt
  <2>1. /\ words.interrupted = openai.active /\ ~words.committed /\ kept' = kept
        /\ words.truncateSentFor = openai.active
    BY <1>3, <1>7 DEF AT!DoneAfterInterrupt, WordsInv, CourseAgrees
  <2>2. PICK text : text = AT!ResolveInterruptedAssistantText(words)
    OBVIOUS
  <2>3. text \in Text
    BY <1>1, <2>2 DEF AT!ResolveInterruptedAssistantText, WordsRecord
  <2>4. segments' = AT!Record(openai.active, text)
    BY <1>7, <2>1, <2>2 DEF AT!DoneAfterInterrupt
  <2>5. PICK b \in BOOLEAN : b = (words.committed \/ text # {})
    OBVIOUS
  <2>6. words' = [words EXCEPT !.buffer = {}, !.committed = b]
    BY <1>7, <2>2, <2>5 DEF AT!DoneAfterInterrupt
  <2>7. /\ words' \in WordsRecord /\ words'.item = words.item
        /\ words'.interrupted = words.interrupted
        /\ words'.truncateSentFor = words.truncateSentFor /\ words'.buffer = {}
        /\ words'.lastText = words.lastText /\ words'.inProgress = words.inProgress
        /\ words'.responseId = words.responseId
    BY <1>1, <2>6 DEF WordsRecord, Text
  <2>8. kept[openai.active] # {} =>
          /\ kept[openai.active] \subseteq text /\ text \subseteq AT!Said(openai.active)
          /\ kept[openai.active] \subseteq words.lastText
          /\ words.lastText \subseteq AT!Said(openai.active)
    BY <1>3, <2>1, <2>2 DEF WordsInv, TextsAgree, AT!ResolveInterruptedAssistantText
  <2>9. segments' \in Seq(SegmentRecord) /\ SegmentsAgree'
    BY <1>2, <1>3, <2>1, <2>3, <2>4, <2>8, AnswerRecorded
  <2>10. out' \in Seq(FrameRecord')
    BY <1>1, <1>2, <1>3, <2>7 DEF FrameRecord
  <2>11. WordsTypes'
    BY <1>2, <2>1, <2>7, <2>9 DEF WordsInv, WordsTypes
  <2>12. CourseAgrees'
    BY <1>2, <1>3, <1>4, <2>1, <2>7 DEF WordsInv, CourseAgrees, AT!Truncates
  <2>13. TextsAgree'
    BY <1>2, <1>3, <1>4, <1>6, <2>1, <2>7, <2>8
       DEF WordsInv, TextsAgree, heard, AT!Said
  <2>14. QED
    BY <2>9, <2>10, <2>11, <2>12, <2>13 DEF WordsInv
<1>8. CASE AT!DoneWhole
  <2>1. words.interrupted # openai.active /\ ~openai.truncated
    BY <1>4, <1>8 DEF AT!DoneWhole, WordsInv, CourseAgrees
  <2>2. PICK text : text = AT!DoneText
    OBVIOUS
  <2>3. text \in Text /\ (heard # {} => text = heard)
    BY <1>1, <1>5, <2>2 DEF AT!DoneText, WordsRecord, heard
  <2>4. segments' = AT!Record(openai.active, text)
    BY <1>4, <1>8, <2>2 DEF AT!DoneWhole
  <2>5. PICK lastText \in Text : lastText = IF text = {} THEN words.lastText ELSE text
    BY <1>1, <2>3 DEF WordsRecord
  <2>6. words' = [words EXCEPT !.lastText = lastText, !.buffer = {}, !.item = 0]
    BY <1>8, <2>2, <2>5 DEF AT!DoneWhole
  <2>7. /\ words' \in WordsRecord /\ words'.item = 0
        /\ words'.interrupted = words.interrupted
        /\ words'.truncateSentFor = words.truncateSentFor /\ words'.buffer = {}
        /\ words'.lastText = lastText /\ words'.inProgress = words.inProgress
        /\ words'.responseId = words.responseId
    BY <1>1, <2>5, <2>6 DEF WordsRecord, Text
  <2>8. kept' = [kept EXCEPT ![openai.active] = heard]
    BY <1>8 DEF AT!DoneWhole, heard
  <2>9. /\ kept' \in [1..MaxAnswers -> Text] /\ kept'[openai.active] = heard
        /\ \A r \in 1..MaxAnswers : r # openai.active => kept'[r] = kept[r]
    BY <1>4, <1>5, <2>8 DEF WordsInv, WordsTypes
  <2>10. segments' \in Seq(SegmentRecord) /\ SegmentsAgree'
    BY <1>2, <1>3, <1>5, <2>3, <2>4, <2>9, AnswerRecorded
  <2>11. out' \in Seq(FrameRecord')
    <3>1. FrameRecord' = FrameRecord
      BY <1>2, <2>7 DEF FrameRecord
    <3>2. QED
      BY <1>1, <1>3, <3>1
  <2>12. WordsTypes'
    BY <1>2, <2>7, <2>9, <2>10 DEF WordsInv, WordsTypes
  <2>13. CourseAgrees'
    BY <1>2, <1>3, <1>4, <2>1, <2>7 DEF WordsInv, CourseAgrees, AT!Truncates
  <2>14. TextsAgree'
    <3>1. heard # {} => lastText = heard
      BY <2>3, <2>5
    <3>2. \A r \in 1..MaxAnswers : r > openai.made => kept'[r] = {}
      BY <1>1, <1>4, <2>9 DEF WordsInv, TextsAgree, OpenAiRecord
    <3>3. QED
      BY <1>2, <1>3, <1>4, <1>5, <1>6, <2>1, <2>7, <2>9, <3>1, <3>2
         DEF TextsAgree, heard, AT!Said
  <2>15. QED
    BY <2>10, <2>11, <2>12, <2>13, <2>14 DEF WordsInv
<1>9. QED
  BY <1>7, <1>8 DEF AT!TranscriptDone

\* The assistant's words are disturbed only by AssistantTranscript's own steps.
LEMMA WordsAct ==
  ASSUME [MCNext]_allVars
  PROVE  AT!Next \/ UNCHANGED transcriptVars
BY DEF MCNext, allVars, transcriptVars

\* Every step keeps the invariant.
LEMMA WordsStep == WordsInv /\ [MCNext]_allVars => WordsInv'
<1> SUFFICES ASSUME WordsInv, [MCNext]_allVars PROVE WordsInv'
  OBVIOUS
<1>1. CASE UNCHANGED transcriptVars
  BY <1>1, SMTT(60)
     DEF transcriptVars, WordsInv, WordsTypes, CourseAgrees, FrameRecord, TextsAgree,
     SegmentsAgree, AT!AnswersRecorded, AT!Speaking, AT!Truncates, AT!Heard
<1>2. CASE AT!Commit
  BY <1>2, RequestStep DEF AT!Commit, AT!Send
<1>3. CASE AT!AskToSpeak
  <2>1. words = [words EXCEPT !.wasInterrupted = words.wasInterrupted]
        /\ words.wasInterrupted \in BOOLEAN
    BY DEF WordsInv, WordsTypes, WordsRecord
  <2>2. words' = AT!SendResponseCreate([words EXCEPT !.wasInterrupted = words.wasInterrupted])
    BY <1>3, <2>1 DEF AT!AskToSpeak
  <2>3. QED
    BY <1>3, <2>1, <2>2, RequestStep DEF AT!AskToSpeak, AT!Send
<1>4. CASE AT!VadResponds
  BY <1>4, StartStep DEF AT!VadResponds, WordsInv
<1>5. CASE AT!ResponseEnds
  BY <1>5, EndsStep DEF AT!ResponseEnds, AT!history, WordsInv
<1>6. CASE AT!OpenAiTakes
  <2>1. out # <<>> /\ out \in Seq(FrameRecord) /\ Tail(out) \in Seq(FrameRecord)
    BY <1>6 DEF AT!OpenAiTakes, WordsInv
  <2>2. CASE Head(out).type = "create" /\ AT!Starts(Tail(out))
             /\ UNCHANGED <<segments, kept>>
    BY <2>1, <2>2, StartStep
  <2>3. CASE /\ Head(out).type = "truncate" /\ words' = AT!ItemTruncated(Head(out).item)
             /\ openai' = [openai EXCEPT !.truncated = @ \/ openai.active = Head(out).item]
             /\ out' = Tail(out) /\ UNCHANGED <<segments, kept>>
    BY <2>1, <2>3, TruncatedStep
  <2>4. CASE /\ AT!Quiet /\ openai' = [openai EXCEPT !.active = 0]
             /\ words' \in {AT!ResponseDone, AT!ResponseCancelled}
             /\ out' = Tail(out) /\ UNCHANGED <<segments, kept>>
    BY <2>1, <2>4, EndsStep
  <2>5. CASE /\ words' = AT!ResetResponseGuards(words) /\ out' = Tail(out)
             /\ UNCHANGED <<openai, segments, kept>>
    BY <2>1, <2>5, RefusedStep
  <2>6. QED
    BY <1>6, <2>2, <2>3, <2>4, <2>5 DEF AT!OpenAiTakes, AT!history
<1>7. QED
  BY <1>1, <1>2, <1>3, <1>4, <1>5, <1>6, BargeInStep, CustomerTurnStep, ItemAddedStep,
     DeltaStep, DoneStep, WordsAct DEF AT!Next
\* The requests for a response that are on their way.
Requests(q) == {i \in DOMAIN q : q[i].type = "create"}

\* As long as every response answers a turn: the provider knows whether a
\* response runs, has asked for at most one more, and only when none runs, and
\* has an interruption to tell of only when it was the last response's.
CutInv ==
  /\ ~strayed =>
       /\ words.inProgress <=> openai.active # 0
       /\ \A i, j \in Requests(out) : i = j
       /\ Requests(out) # {} => /\ words.requested /\ words.pending
                                /\ openai.active = 0
       /\ words.wasInterrupted => /\ openai.made >= 1 /\ openai.made \in barged
                                  /\ Requests(out) = {}
  /\ AT!CutIsTold

\* Frames that are no requests add no request.
LEMMA NoRequestAdded ==
  ASSUME NEW M, NEW q \in Seq(M), NEW e \in Seq(M), Requests(e) = {}
  PROVE  Requests(q \o e) = Requests(q)
<1>1. /\ Len(q) \in Nat /\ Len(e) \in Nat /\ DOMAIN q = 1..Len(q) /\ DOMAIN e = 1..Len(e)
      /\ DOMAIN (q \o e) = 1..(Len(q) + Len(e))
  OBVIOUS
<1>2. ASSUME NEW i \in 1..(Len(q) + Len(e))
      PROVE  i \in Requests(q \o e) <=> i \in Requests(q)
  <2>1. CASE i <= Len(q)
    <3>1. i \in DOMAIN q /\ (q \o e)[i] = q[i]
      BY <1>1, <2>1
    <3>2. QED
      BY <1>1, <3>1 DEF Requests
  <2>2. CASE i > Len(q)
    <3>1. i - Len(q) \in DOMAIN e /\ (q \o e)[i] = e[i - Len(q)] /\ i \notin DOMAIN q
      BY <1>1, <2>2
    <3>2. QED
      BY <1>1, <3>1 DEF Requests
  <2>3. QED
    BY <1>1, <2>1, <2>2
<1>3. DOMAIN q \subseteq 1..(Len(q) + Len(e))
  BY <1>1
<1>4. QED
  BY <1>1, <1>2, <1>3 DEF Requests

\* The first request is the only one.
LEMMA RequestAdded ==
  ASSUME NEW M, NEW q \in Seq(M), Requests(q) = {}
  PROVE  Requests(q \o <<[type |-> "create"]>>) = {Len(q) + 1}
<1> DEFINE f == <<[type |-> "create"]>>
<1>1. /\ Len(q) \in Nat /\ DOMAIN q = 1..Len(q) /\ Len(f) = 1
      /\ DOMAIN (q \o f) = 1..(Len(q) + 1)
      /\ (q \o f)[Len(q) + 1] = [type |-> "create"]
  OBVIOUS
<1>2. \A i \in 1..Len(q) : (q \o f)[i] = q[i]
  BY <1>1
<1>3. \A i \in 1..(Len(q) + 1) : i \in 1..Len(q) \/ i = Len(q) + 1
  BY <1>1
<1>4. \A i \in 1..Len(q) : q[i].type # "create"
  BY <1>1 DEF Requests
<1>5. \A i \in 1..(Len(q) + 1) : (q \o f)[i].type = "create" <=> i = Len(q) + 1
  BY <1>1, <1>2, <1>3, <1>4
<1>6. Len(q) + 1 \in 1..(Len(q) + 1)
  BY <1>1
<1> HIDE DEF f
<1>7. QED
  BY <1>1, <1>5, <1>6 DEF Requests, f

\* A frame that OpenAI takes leaves the requests after it.
LEMMA RequestsAfterHead ==
  ASSUME NEW M, NEW q \in Seq(M), q # <<>>
  PROVE  /\ \A i \in Requests(Tail(q)) : i \in Nat /\ i # 0 /\ i + 1 \in Requests(q)
         /\ Head(q).type = "create" => 1 \in Requests(q)
<1>1. /\ Len(q) \in Nat /\ Len(q) # 0 /\ DOMAIN q = 1..Len(q) /\ Head(q) = q[1]
      /\ DOMAIN Tail(q) = 1..(Len(q) - 1)
  OBVIOUS
<1>2. \A i \in 1..(Len(q) - 1) : Tail(q)[i] = q[i + 1] /\ i + 1 \in 1..Len(q)
  BY <1>1
<1>3. QED
  BY <1>1, <1>2 DEF Requests

\* What changes neither the flags nor the requests keeps CutInv.
LEMMA CutKept ==
  ASSUME CutInv, words'.inProgress = words.inProgress,
         words'.requested = words.requested, words'.pending = words.pending,
         words'.wasInterrupted = words.wasInterrupted,
         openai'.active = openai.active, openai'.made = openai.made,
         Requests(out)' = Requests(out), UNCHANGED <<barged, strayed, told>>
  PROVE  CutInv'
BY DEF CutInv, AT!CutIsTold, AT!NotTold, AT!Said

\* A turn opens, an item is announced, its transcript goes on or ends.
LEMMA CutAside ==
  ASSUME WordsInv, CutInv,
         AT!CustomerTurn \/ AT!ItemAdded \/ AT!TranscriptDelta \/ AT!TranscriptDone
  PROVE  CutInv'
<1>1. words \in WordsRecord /\ openai \in OpenAiRecord
  BY DEF WordsInv, WordsTypes
<1>2. UNCHANGED <<out, barged, strayed, told>>
  BY DEF AT!CustomerTurn, AT!ItemAdded, AT!TranscriptDelta, AT!TranscriptDone, AT!history
<1>3. openai'.active = openai.active /\ openai'.made = openai.made
  BY <1>1 DEF AT!CustomerTurn, AT!ItemAdded, AT!TranscriptDelta, AT!TranscriptDone,
              OpenAiRecord
<1>4. Requests(out)' = Requests(out)
  BY <1>2
<1>5. \/ words' = [words EXCEPT !.confirmed = TRUE, !.awaiting = FALSE]
      \/ \E a : words' = [words EXCEPT !.item = a]
      \/ \E a : words' = [words EXCEPT !.buffer = a]
      \/ \E a, b : words' = [words EXCEPT !.buffer = a, !.committed = b]
      \/ \E a, b, d : words' = [words EXCEPT !.lastText = a, !.buffer = b, !.item = d]
  <2>1. CASE AT!CustomerTurn
    BY <2>1 DEF AT!CustomerTurn, AT!ConfirmCustomerTurn
  <2>2. CASE AT!ItemAdded
    BY <2>2 DEF AT!ItemAdded
  <2>3. CASE AT!TranscriptDelta
    BY <2>3 DEF AT!TranscriptDelta
  <2>4. CASE AT!TranscriptDone
    <3>1. CASE AT!DoneAfterInterrupt
      BY <3>1 DEF AT!DoneAfterInterrupt
    <3>2. CASE AT!DoneWhole
      BY <3>2 DEF AT!DoneWhole
    <3>3. QED
      BY <2>4, <3>1, <3>2 DEF AT!TranscriptDone
  <2>5. QED
    BY <2>1, <2>2, <2>3, <2>4
<1>6. /\ words'.inProgress = words.inProgress /\ words'.requested = words.requested
      /\ words'.pending = words.pending
      /\ words'.wasInterrupted = words.wasInterrupted
  BY <1>1, <1>5 DEF WordsRecord
<1>7. QED
  BY <1>2, <1>3, <1>4, <1>6, CutKept

\* An interruption is of the response that runs, which is the last.
LEMMA CutBargeIn == ASSUME WordsInv, CutInv, AT!BargeIn PROVE CutInv'
<1> DEFINE cancels == AT!ShouldCancelResponse(words)
<1>1. words \in WordsRecord /\ openai \in OpenAiRecord /\ out \in Seq(FrameRecord)
  BY DEF WordsInv, WordsTypes
<1>2. words.inProgress /\ UNCHANGED <<openai, strayed, told>>
      /\ barged' = barged \cup {words.responseId}
  BY DEF AT!BargeIn
<1>3. openai.active # 0 /\ words.responseId = openai.made /\ openai.made >= 1
  BY <1>1, <1>2 DEF WordsInv, CourseAgrees, OpenAiRecord
<1>4. PICK x : x = IF AT!Truncates(words) THEN AT!TruncateInterruptedItem(words) ELSE words
  OBVIOUS
<1>5. PICK y : y = IF cancels THEN AT!CancelInterruptedResponse(x) ELSE x
  OBVIOUS
<1>6. words' = AT!ConfirmCustomerTurn([y EXCEPT !.bargedIn = TRUE])
  BY <1>4, <1>5 DEF AT!BargeIn
<1>7. x \in WordsRecord
      /\ x.inProgress = words.inProgress /\ x.requested = words.requested
      /\ x.pending = words.pending /\ x.wasInterrupted = words.wasInterrupted
  <2>1. PICK text : text = AT!ResolveInterruptedAssistantText(words)
    OBVIOUS
  <2>2. text \in Text
    BY <1>1, <2>1 DEF AT!ResolveInterruptedAssistantText, WordsRecord
  <2>3. x = words \/ x = [words EXCEPT !.truncateSentFor = words.item,
                                       !.interrupted = words.item, !.lastText = text]
    BY <1>4, <2>1 DEF AT!TruncateInterruptedItem
  <2>4. QED
    BY <1>1, <2>2, <2>3 DEF WordsRecord
<1>8. y \in WordsRecord /\ y.inProgress = x.inProgress /\ y.requested = x.requested
      /\ y.pending = x.pending
  BY <1>5, <1>7 DEF WordsRecord, AT!CancelInterruptedResponse
<1>9. PICK z : z = [y EXCEPT !.bargedIn = TRUE]
  OBVIOUS
<1>10. z \in WordsRecord /\ z.inProgress = y.inProgress /\ z.requested = y.requested
       /\ z.pending = y.pending
  BY <1>8, <1>9 DEF WordsRecord
<1>11. /\ words'.inProgress = words.inProgress /\ words'.requested = words.requested
       /\ words'.pending = words.pending
  BY <1>6, <1>7, <1>8, <1>9, <1>10 DEF WordsRecord, AT!ConfirmCustomerTurn
<1>12. Requests(out)' = Requests(out)
  <2>1. PICK a : a = IF AT!Truncates(words)
                     THEN <<[type |-> "truncate", item |-> words.item]>> ELSE <<>>
    OBVIOUS
  <2>2. PICK b : b = IF cancels THEN <<[type |-> "cancel"]>> ELSE <<>>
    OBVIOUS
  <2>3. PICK M : M = FrameRecord \cup {[type |-> "truncate", item |-> words.item],
                                       [type |-> "cancel"]}
    OBVIOUS
  <2>4. /\ FrameRecord \subseteq M /\ [type |-> "cancel"] \in M
        /\ [type |-> "truncate", item |-> words.item] \in M
    BY <2>3
  <2>5. a \in Seq(M) /\ b \in Seq(M)
    BY <2>1, <2>2, <2>4
  <2>6. out \in Seq(M)
    BY <1>1, <2>4, SeqOfMore
  <2>7. Requests(a) = {} /\ Requests(b) = {}
    BY <2>1, <2>2 DEF Requests
  <2>8. out' = out \o (a \o b)
    BY <2>1, <2>2 DEF AT!BargeIn, AT!Send, cancels
  <2>9. a \o b \in Seq(M) /\ Requests(a \o b) = {}
    BY <2>5, <2>7, NoRequestAdded
  <2>10. QED
    BY <2>6, <2>8, <2>9, NoRequestAdded
<1>13. QED
  BY <1>2, <1>3, <1>11, <1>12 DEF CutInv, AT!CutIsTold, AT!NotTold, AT!Said

\* The fields that a request changes.
LEMMA RequestedFields ==
  ASSUME WordsTypes, NEW b \in BOOLEAN,
         words' = AT!SendResponseCreate([words EXCEPT !.wasInterrupted = b])
  PROVE  /\ words'.inProgress = words.inProgress /\ words'.requested = TRUE
         /\ words'.pending = TRUE /\ words'.wasInterrupted = b
<1>1. PICK y : y = [words EXCEPT !.wasInterrupted = b]
  OBVIOUS
<1>2. y \in WordsRecord /\ y.inProgress = words.inProgress /\ y.wasInterrupted = b
  BY <1>1 DEF WordsTypes, WordsRecord
<1>3. QED
  BY <1>1, <1>2 DEF WordsRecord, AT!SendResponseCreate

\* The next answer is told of the interruption of the last one.
LEMMA CutCommit == ASSUME WordsInv, CutInv, AT!Commit PROVE CutInv'
<1>1. words \in WordsRecord /\ openai \in OpenAiRecord /\ out \in Seq(FrameRecord)
  BY DEF WordsInv, WordsTypes
<1>2. /\ ~words.inProgress /\ ~words.requested
      /\ out' = out \o <<[type |-> "create"]>> /\ told' = AT!TurnInstructions
      /\ UNCHANGED <<openai, barged, strayed>>
  BY DEF AT!Commit, AT!Active, AT!Send
<1>3. /\ words'.inProgress = words.inProgress /\ words'.requested = TRUE
      /\ words'.pending = TRUE /\ words'.wasInterrupted = FALSE
  BY RequestedFields DEF AT!Commit, WordsInv
<1>4. ~strayed => /\ openai.active = 0
                  /\ Requests(out) = {} /\ Requests(out)' = {Len(out) + 1}
  BY <1>1, <1>2, RequestAdded DEF CutInv
<1>5. ~strayed /\ told' # AT!NotTold =>
        /\ told'.after \in barged
        /\ told'.kept # {} => /\ told'.kept \subseteq told'.text
                              /\ told'.text \subseteq AT!Said(told'.after)
  <2> SUFFICES ASSUME ~strayed, told' # AT!NotTold
               PROVE  /\ told'.after \in barged
                      /\ told'.kept # {} => /\ told'.kept \subseteq told'.text
                                            /\ told'.text \subseteq AT!Said(told'.after)
    OBVIOUS
  <2>1. words.wasInterrupted
    BY <1>2 DEF AT!TurnInstructions
  <2>2. openai.made >= 1 /\ openai.made \in barged
    BY <2>1 DEF CutInv
  <2>3. words.buffer = {}
    BY <1>4 DEF WordsInv, CourseAgrees, TextsAgree
  <2>4. /\ told'.text = words.lastText /\ told'.after = openai.made
        /\ told'.kept = kept[openai.made]
    BY <1>1, <1>2, <2>1, <2>2, <2>3
       DEF AT!TurnInstructions, AT!ResolveInterruptedAssistantText, OpenAiRecord
  <2>5. kept[openai.made] # {} =>
          /\ kept[openai.made] \subseteq words.lastText
          /\ words.lastText \subseteq AT!Said(openai.made)
    BY <1>4, <2>2 DEF WordsInv, TextsAgree
  <2>6. QED
    BY <2>2, <2>4, <2>5
<1>6. QED
  BY <1>2, <1>3, <1>4, <1>5 DEF CutInv, AT!CutIsTold, AT!NotTold, AT!Said

\* The greeting follows no interruption; after it, the response strays.
LEMMA CutAskToSpeak == ASSUME WordsInv, CutInv, AT!AskToSpeak PROVE CutInv'
<1>1. words \in WordsRecord /\ openai \in OpenAiRecord /\ out \in Seq(FrameRecord)
  BY DEF WordsInv, WordsTypes
<1>2. /\ ~words.inProgress /\ ~words.requested
      /\ out' = out \o <<[type |-> "create"]>>
      /\ UNCHANGED <<openai, barged, told>>
  BY DEF AT!AskToSpeak, AT!Active, AT!Send
<1>3. /\ words'.inProgress = words.inProgress /\ words'.requested = TRUE
      /\ words'.pending = TRUE /\ words'.wasInterrupted = words.wasInterrupted
  BY <1>1 DEF AT!AskToSpeak, AT!SendResponseCreate, WordsRecord
<1>4. ~strayed => /\ openai.active = 0
                  /\ Requests(out) = {} /\ Requests(out)' = {Len(out) + 1}
  BY <1>1, <1>2, RequestAdded DEF CutInv
<1>5. strayed \/ openai.made > 0 => strayed'
  BY DEF AT!AskToSpeak
<1>6. ~strayed' => ~strayed /\ openai.made = 0
  BY <1>1, <1>5 DEF OpenAiRecord
<1>7. QED
  BY <1>2, <1>3, <1>4, <1>6 DEF CutInv, AT!CutIsTold, AT!NotTold, AT!Said

\* A response ends.
LEMMA CutEnds ==
  ASSUME WordsInv, CutInv, AT!Quiet, openai' = [openai EXCEPT !.active = 0],
         words' \in {AT!ResponseDone, AT!ResponseCancelled},
         out' = out \/ (out # <<>> /\ out' = Tail(out)),
         UNCHANGED <<barged, strayed, told>>
  PROVE  CutInv'
<1>1. words \in WordsRecord /\ openai \in OpenAiRecord /\ out \in Seq(FrameRecord)
  BY DEF WordsInv, WordsTypes
<1>2. openai'.active = 0 /\ openai'.made = openai.made /\ openai.active # 0
  BY <1>1 DEF OpenAiRecord, AT!Quiet
<1>3. words'.inProgress = FALSE /\ words'.wasInterrupted = words.wasInterrupted
  <2>1. CASE words' = AT!ResponseCancelled
    BY <1>1, <2>1 DEF AT!ResponseCancelled, AT!ResetResponseGuards, WordsRecord
  <2>2. CASE words' = AT!ResponseDone
    <3>1. PICK x : x = [words EXCEPT !.inProgress = FALSE, !.requested = FALSE,
                                     !.responseId = 0, !.cancelSentFor = 0]
      OBVIOUS
    <3>2. x \in WordsRecord /\ x.inProgress = FALSE
          /\ x.wasInterrupted = words.wasInterrupted
      BY <1>1, <3>1 DEF WordsRecord
    <3>3. words' = AT!SetAwaitingCustomerInput(x)
      BY <2>2, <3>1 DEF AT!ResponseDone
    <3>4. QED
      BY <3>2, <3>3 DEF AT!SetAwaitingCustomerInput, WordsRecord
  <2>3. QED
    BY <2>1, <2>2
<1>4. ~strayed => Requests(out) = {}
  BY <1>2 DEF CutInv
<1>5. Requests(out) = {} => Requests(out)' = {}
  BY <1>1, RequestsAfterHead
<1>6. QED
  BY <1>2, <1>3, <1>4, <1>5 DEF CutInv, AT!CutIsTold, AT!NotTold, AT!Said

\* OpenAI starts the response that was asked for.
LEMMA CutStart ==
  ASSUME WordsInv, CutInv, out # <<>>, Head(out).type = "create",
         AT!Starts(Tail(out)), UNCHANGED <<barged, strayed, told>>
  PROVE  CutInv'
<1>1. words \in WordsRecord /\ openai \in OpenAiRecord /\ out \in Seq(FrameRecord)
  BY DEF WordsInv, WordsTypes
<1>2. 1 \in Requests(out) /\ \A i \in Requests(Tail(out)) : i # 1 - 1 /\ i \in Nat
                                                           /\ i + 1 \in Requests(out)
  BY <1>1, RequestsAfterHead
<1>3. ~strayed => AT!Authorized /\ ~words.wasInterrupted /\ Requests(Tail(out)) = {}
  <2>1. ~strayed => words.pending /\ ~words.wasInterrupted
                    /\ \A i, j \in Requests(out) : i = j
    BY <1>2 DEF CutInv
  <2>2. ~strayed => Requests(Tail(out)) = {}
    BY <1>2, <2>1
  <2>3. QED
    BY <2>1, <2>2 DEF AT!Authorized
<1>4. openai'.active # 0
  BY <1>1 DEF AT!Starts, OpenAiRecord
<1>5. AT!Authorized => /\ words'.inProgress = TRUE
                       /\ words'.wasInterrupted = words.wasInterrupted
                       /\ out' = Tail(out)
  BY <1>1 DEF AT!Starts, AT!ResponseCreated, WordsRecord
<1>6. QED
  BY <1>3, <1>4, <1>5 DEF CutInv, AT!CutIsTold, AT!NotTold, AT!Said

\* Every step keeps it.
LEMMA CutStep == WordsInv /\ CutInv /\ [MCNext]_allVars => CutInv'
<1> SUFFICES ASSUME WordsInv, CutInv, [MCNext]_allVars PROVE CutInv'
  OBVIOUS
<1>1. CASE UNCHANGED transcriptVars
  BY <1>1 DEF transcriptVars, CutInv, Requests, AT!CutIsTold, AT!NotTold, AT!Said
<1>2. CASE AT!VadResponds
  BY <1>2 DEF AT!VadResponds, CutInv, AT!CutIsTold
<1>3. CASE AT!ResponseEnds
  BY <1>3, CutEnds DEF AT!ResponseEnds, AT!history
<1>4. CASE AT!OpenAiTakes
  <2>1. CASE Head(out).type = "create" /\ AT!Starts(Tail(out))
             /\ UNCHANGED <<barged, strayed, told>> /\ out # <<>>
    BY <2>1, CutStart
  <2>2. CASE /\ Head(out).type = "truncate" /\ words' = AT!ItemTruncated(Head(out).item)
             /\ openai' = [openai EXCEPT !.truncated = @ \/ openai.active = Head(out).item]
             /\ out' = Tail(out) /\ UNCHANGED <<barged, strayed, told>> /\ out # <<>>
    <3>1. words \in WordsRecord /\ openai \in OpenAiRecord /\ out \in Seq(FrameRecord)
      BY DEF WordsInv, WordsTypes
    <3>2. openai'.active = openai.active /\ openai'.made = openai.made
      BY <2>2, <3>1 DEF OpenAiRecord
    <3>3. /\ words'.inProgress = words.inProgress /\ words'.requested = words.requested
          /\ words'.pending = words.pending
          /\ words'.wasInterrupted = words.wasInterrupted
      BY <2>2, <3>1 DEF WordsRecord, AT!ItemTruncated
    <3>4. \A i \in Requests(out)' : i \in Nat /\ i + 1 \in Requests(out)
      BY <2>2, <3>1, RequestsAfterHead
    <3>5. (\A i, j \in Requests(out) : i = j) => \A i, j \in Requests(out)' : i = j
      <4> SUFFICES ASSUME \A i, j \in Requests(out) : i = j,
                          NEW i \in Requests(out)', NEW j \in Requests(out)'
                   PROVE  i = j
        OBVIOUS
      <4>1. i + 1 = j + 1 /\ i \in Nat /\ j \in Nat
        BY <3>4
      <4>2. QED
        BY <4>1
    <3>6. Requests(out) = {} => Requests(out)' = {}
      BY <3>4
    <3>7. QED
      BY <2>2, <3>2, <3>3, <3>5, <3>6 DEF CutInv, AT!CutIsTold, AT!NotTold, AT!Said
  <2>3. CASE /\ AT!Quiet /\ openai' = [openai EXCEPT !.active = 0]
             /\ words' \in {AT!ResponseDone, AT!ResponseCancelled}
             /\ out' = Tail(out) /\ UNCHANGED <<barged, strayed, told>> /\ out # <<>>
    BY <2>3, CutEnds
  <2>4. CASE strayed' = TRUE
    BY <2>4 DEF CutInv, AT!CutIsTold
  <2>5. QED
    BY <1>4, <2>1, <2>2, <2>3, <2>4 DEF AT!OpenAiTakes, AT!history
<1>5. QED
  BY <1>1, <1>2, <1>3, <1>4, CutAside, CutBargeIn, CutCommit, CutAskToSpeak, WordsAct
     DEF AT!Next

\* Nothing has been said at first.
LEMMA WordsInit == MCInit => WordsInv /\ CutInv
<1> SUFFICES ASSUME AT!Init PROVE WordsInv /\ CutInv
  BY DEF MCInit
<1>1. MaxAnswers \in Nat /\ Deltas \in Nat
  BY VoiceAssumptions DEF AT!BoundsAssumption
<1>2. WordsTypes
  BY <1>1 DEF AT!Init, AT!Response, WordsTypes, WordsRecord, OpenAiRecord, Text
<1>3. CourseAgrees
  BY DEF AT!Init, CourseAgrees, AT!Speaking, AT!Truncates
<1>4. out \in Seq(FrameRecord) /\ Requests(out) = {}
  BY DEF AT!Init, Requests
<1>5. TextsAgree
  BY DEF AT!Init, AT!Response, TextsAgree, AT!Speaking
<1>6. SegmentsAgree
  BY DEF AT!Init, SegmentsAgree, AT!AnswersRecorded
<1>7. CutInv
  BY <1>4 DEF AT!Init, CutInv, AT!CutIsTold
<1>8. QED
  BY <1>2, <1>3, <1>4, <1>5, <1>6, <1>7 DEF WordsInv

\* However many responses there are, and wherever the customer cuts in: each
\* answer is recorded once, under its item and with its words, and OpenAI is told
\* of an interruption only when the last answer was cut off, and in its words.
THEOREM AnswersAreQuoted == MCSpec => []AssistantQuoted
<1>1. WordsInv /\ CutInv /\ [MCNext]_allVars => (WordsInv /\ CutInv)'
  BY WordsStep, CutStep
<1>2. WordsInv /\ CutInv => AssistantQuoted
  BY DEF WordsInv, SegmentsAgree, CutInv, AssistantQuoted
<1>3. QED
  BY WordsInit, <1>1, <1>2, PTL DEF MCSpec

-----------------------------------------------------------------------------
(* The recording's timeline.                                               *)

\* A chunk of the recording: rounding starts it one sample early at most, and
\* none starts before the time it arrived.
PlacedChunk ==
  [direction : RT!Direction, offset : Nat, start : Nat, samples : Nat \ {0},
   silent : BOOLEAN, arrived : Nat]
Placed(m) == m.start <= m.offset /\ m.offset <= m.start + 1 /\ m.arrived <= m.offset
EndOf(m) == m.offset + m.samples

\* The chunks of a direction follow one another up to its cursor, and the mixed
\* buffer has room for all.
TimelineInv ==
  /\ clock \in Nat /\ length \in Nat
  /\ cursor \in [RT!Direction -> Nat] /\ chunks \in Seq(PlacedChunk)
  /\ \A i \in DOMAIN chunks :
       Placed(chunks[i]) /\ EndOf(chunks[i]) <= cursor[chunks[i].direction]
  /\ \A i, j \in DOMAIN chunks :
       (i < j /\ chunks[i].direction = chunks[j].direction)
         => EndOf(chunks[i]) <= chunks[j].offset
  /\ state = "finalized" => \A i \in DOMAIN chunks : EndOf(chunks[i]) <= length

\* The larger of two numbers.
LEMMA LargerOfTwo ==
  ASSUME NEW a \in Nat, NEW b \in Nat
  PROVE  RT!Max({a, b}) \in {a, b} /\ a <= RT!Max({a, b}) /\ b <= RT!Max({a, b})
<1>1. \E x \in {a, b} : \A y \in {a, b} : x >= y
  OBVIOUS
<1>2. RT!Max({a, b}) \in {a, b} /\ \A y \in {a, b} : RT!Max({a, b}) >= y
  BY <1>1 DEF RT!Max
<1>3. QED
  BY <1>2

\* The largest of numbers that have a bound.
LEMMA LargestOfBounded ==
  ASSUME NEW S, S \subseteq Nat, S # {}, NEW bound \in Nat, \A x \in S : x <= bound
  PROVE  RT!Max(S) \in S /\ \A y \in S : RT!Max(S) >= y
<1> DEFINE U == {u \in Nat : \A x \in S : x <= u}
<1>1. U \subseteq Nat /\ bound \in U
  OBVIOUS
<1>2. PICK least \in U : \A u \in U : ~ (<<u, least>> \in OpToRel(<, Nat))
  BY <1>1, NatLessThanWellFounded, WFMin
<1>3. \A u \in U : ~(u < least)
  BY <1>1, <1>2 DEF OpToRel
<1>4. least \in S
  <2>1. SUFFICES ASSUME least \notin S PROVE FALSE
    OBVIOUS
  <2>2. \A x \in S : x < least
    BY <2>1
  <2>3. PICK x \in S : TRUE
    OBVIOUS
  <2>4. x \in Nat /\ x < least /\ least \in Nat
    BY <2>2
  <2>5. least - 1 \in Nat /\ \A y \in S : y <= least - 1
    BY <2>2, <2>4
  <2>6. QED
    BY <1>3, <2>4, <2>5
<1>5. \E x \in S : \A y \in S : x >= y
  BY <1>4
<1>6. QED
  BY <1>5 DEF RT!Max

\* What a chunk is.
LEMMA ChunksArePlaced ==
  ASSUME TimelineInv, NEW i \in DOMAIN chunks
  PROVE  /\ chunks[i] \in PlacedChunk
         /\ chunks[i].direction \in RT!Direction /\ chunks[i].offset \in Nat
         /\ chunks[i].start \in Nat /\ chunks[i].samples \in Nat \ {0}
         /\ EndOf(chunks[i]) \in Nat /\ chunks[i].arrived \in Nat
         /\ chunks[i].silent \in BOOLEAN
<1>1. \A m \in PlacedChunk : /\ m.direction \in RT!Direction /\ m.offset \in Nat
                             /\ m.start \in Nat /\ m.samples \in Nat \ {0}
                             /\ EndOf(m) \in Nat /\ m.arrived \in Nat
                             /\ m.silent \in BOOLEAN
  BY DEF PlacedChunk, EndOf
<1>2. chunks[i] \in PlacedChunk
  BY ElementOfSeq DEF TimelineInv
<1>3. QED
  BY <1>1, <1>2

\* A chunk is placed behind the last one of its direction.
LEMMA ChunkAppended ==
  ASSUME TimelineInv, NEW d \in RT!Direction, NEW n \in Lengths, NEW lead \in {0, 1},
         NEW silent \in BOOLEAN, RT!AppendTimeline(d, n, lead, silent)
  PROVE  TimelineInv'
<1>1. n \in Nat \ {0} /\ PerMs \in Nat
  BY VoiceAssumptions DEF RT!TimelineAssumption
<1>2. PICK now \in Nat : now = clock * PerMs
  BY <1>1 DEF TimelineInv
<1>3. PICK offset \in Nat : /\ offset = RT!RecordingOffset(d)
                            /\ now <= offset /\ cursor[d] <= offset
  <2>1. cursor[d] \in Nat
    BY DEF TimelineInv
  <2>2. QED
    BY <1>2, <2>1, LargerOfTwo DEF RT!RecordingOffset
<1>4. PICK m : m = [direction |-> d, offset |-> offset, start |-> offset - lead,
                    samples |-> n, silent |-> silent, arrived |-> now]
  OBVIOUS
<1>5. /\ chunks' = Append(chunks, m) /\ cursor' = [cursor EXCEPT ![d] = offset + n]
      /\ state = "active" /\ UNCHANGED <<clock, state, length>> /\ lead <= offset
  BY <1>2, <1>3, <1>4 DEF RT!AppendTimeline
<1>6. offset - lead \in Nat
  BY <1>5
<1>7. /\ m \in PlacedChunk /\ Placed(m) /\ EndOf(m) = offset + n /\ m.direction = d
      /\ m.offset = offset
  BY <1>1, <1>3, <1>4, <1>6 DEF PlacedChunk, Placed, EndOf
<1> DEFINE k == Len(chunks) + 1
<1>8. /\ chunks' \in Seq(PlacedChunk) /\ DOMAIN chunks' = DOMAIN chunks \cup {k}
      /\ chunks'[k] = m /\ \A i \in DOMAIN chunks : chunks'[i] = chunks[i] /\ i < k
      /\ k \in Nat /\ DOMAIN chunks \subseteq Nat
  BY <1>5, <1>7 DEF TimelineInv
<1> HIDE DEF k
<1>9. /\ cursor' \in [RT!Direction -> Nat] /\ cursor'[d] = offset + n
      /\ \A e \in RT!Direction : cursor[e] <= cursor'[e]
  BY <1>1, <1>3, <1>5 DEF TimelineInv
<1>10. \A i \in DOMAIN chunks : /\ EndOf(chunks[i]) \in Nat
                                /\ chunks[i].direction \in RT!Direction
  BY ChunksArePlaced
<1>11. ASSUME NEW i \in DOMAIN chunks'
       PROVE  Placed(chunks'[i]) /\ EndOf(chunks'[i]) <= cursor'[chunks'[i].direction]
  <2>1. CASE i = k
    BY <1>1, <1>7, <1>8, <1>9, <2>1
  <2>2. CASE i \in DOMAIN chunks
    <3>1. /\ EndOf(chunks[i]) <= cursor[chunks[i].direction]
          /\ cursor[chunks[i].direction] <= cursor'[chunks[i].direction]
          /\ cursor[chunks[i].direction] \in Nat /\ cursor'[chunks[i].direction] \in Nat
      BY <1>9, <1>10, <2>2 DEF TimelineInv
    <3>2. QED
      BY <1>8, <1>10, <2>2, <3>1 DEF TimelineInv
  <2>3. QED
    BY <1>8, <2>1, <2>2
<1>12. ASSUME NEW i \in DOMAIN chunks', NEW j \in DOMAIN chunks', i < j,
              chunks'[i].direction = chunks'[j].direction
       PROVE  EndOf(chunks'[i]) <= chunks'[j].offset
  <2>1. i \in DOMAIN chunks
    BY <1>8, <1>12
  <2>2. CASE j = k
    <3>1. EndOf(chunks[i]) <= cursor[d] /\ cursor[d] \in Nat
      BY <1>7, <1>8, <1>12, <2>1, <2>2 DEF TimelineInv
    <3>2. QED
      BY <1>3, <1>7, <1>8, <1>10, <2>1, <2>2, <3>1
  <2>3. CASE j \in DOMAIN chunks
    BY <1>8, <1>12, <2>1, <2>3 DEF TimelineInv
  <2>4. QED
    BY <1>8, <2>2, <2>3
<1>13. QED
  BY <1>5, <1>8, <1>9, <1>11, <1>12 DEF TimelineInv

\* The mixed buffer has room for every chunk.
LEMMA TimelineFinalized == ASSUME TimelineInv, RT!Finalize PROVE TimelineInv'
<1> DEFINE S == {chunks[i].offset + chunks[i].samples : i \in DOMAIN chunks}
<1>1. state' = "finalized" /\ UNCHANGED <<clock, cursor, chunks>>
  BY DEF RT!Finalize
<1>2. S \subseteq Nat /\ \A i \in DOMAIN chunks : EndOf(chunks[i]) \in S
  BY ChunksArePlaced DEF EndOf
<1>3. PICK bound \in Nat : \A d \in RT!Direction : cursor[d] <= bound
  <2>1. cursor["inbound"] \in Nat /\ cursor["outbound"] \in Nat
    BY DEF TimelineInv, RT!Direction
  <2>2. cursor["inbound"] + cursor["outbound"] \in Nat
    BY <2>1
  <2>3. \A d \in RT!Direction : cursor[d] <= cursor["inbound"] + cursor["outbound"]
    BY <2>1 DEF RT!Direction
  <2>4. QED
    BY <2>2, <2>3
<1>4. \A x \in S : x <= bound
  <2>1. ASSUME NEW i \in DOMAIN chunks PROVE chunks[i].offset + chunks[i].samples <= bound
    <3>1. /\ EndOf(chunks[i]) <= cursor[chunks[i].direction]
          /\ cursor[chunks[i].direction] <= bound
          /\ cursor[chunks[i].direction] \in Nat /\ EndOf(chunks[i]) \in Nat
      BY <1>3, ChunksArePlaced DEF TimelineInv
    <3>2. QED
      BY <3>1 DEF EndOf
  <2>2. QED
    BY <2>1
<1>5. CASE chunks = <<>>
  <2>1. DOMAIN chunks' = {} /\ length' = length
    BY <1>1, <1>5 DEF RT!Finalize
  <2>2. QED
    BY <1>1, <2>1 DEF TimelineInv
<1>6. CASE chunks # <<>>
  <2>1. 1 \in DOMAIN chunks
    BY <1>6 DEF TimelineInv
  <2>2. S # {}
    BY <1>2, <2>1
  <2> HIDE DEF S
  <2>3. RT!Max(S) \in S /\ \A y \in S : RT!Max(S) >= y
    BY <1>2, <1>4, <2>2, LargestOfBounded
  <2>4. PICK more \in {0, 1} : length' = RT!Max(S) + more
    BY <1>6 DEF RT!Finalize, RT!TimelineLength, S
  <2>5. length' \in Nat /\ \A y \in S : y <= length'
    <3>1. PICK largest \in S : largest = RT!Max(S)
      BY <2>3
    <3>2. largest \in Nat /\ \A y \in S : y \in Nat /\ y <= largest
      BY <1>2, <2>3, <3>1
    <3>3. length' = largest + more
      BY <2>4, <3>1
    <3>4. QED
      BY <3>2, <3>3
  <2>6. QED
    BY <1>1, <1>2, <2>5 DEF TimelineInv
<1>7. QED
  BY <1>5, <1>6

\* The timeline's variables are disturbed only by its own steps.
LEMMA TimelineActs ==
  ASSUME [MCNext]_allVars
  PROVE  RT!Next \/ UNCHANGED timelineVars
BY DEF MCNext, allVars, timelineVars

\* Every step keeps the invariant.
LEMMA TimelineStep == TimelineInv /\ [MCNext]_allVars => TimelineInv'
<1> SUFFICES ASSUME TimelineInv, [MCNext]_allVars PROVE TimelineInv'
  OBVIOUS
<1>1. CASE UNCHANGED timelineVars
  BY <1>1 DEF timelineVars, TimelineInv
<1>2. CASE RT!Start
  BY <1>2 DEF RT!Start, TimelineInv
<1>3. CASE RT!Tick
  BY <1>3 DEF RT!Tick, TimelineInv
<1>4. QED
  BY <1>1, <1>2, <1>3, ChunkAppended, TimelineFinalized, TimelineActs DEF RT!Next

\* A chunk is heard wherever no later inbound one covers it.
LEMMA ChunkIsHeard ==
  ASSUME TimelineInv, NEW i \in DOMAIN chunks, NEW position \in Nat, RT!Covers(i, position),
         chunks[i].direction = "inbound" =>
           \A j \in DOMAIN chunks :
             j > i /\ chunks[j].direction = "inbound" => ~RT!Covers(j, position)
  PROVE  i \in RT!Heard(position)
<1>1. chunks[i].direction \in {"inbound", "outbound"}
  BY ChunksArePlaced DEF RT!Direction
<1>2. CASE chunks[i].direction = "outbound"
  <2>1. i \in RT!Covering("outbound", position)
    BY <1>2 DEF RT!Covering
  <2>2. QED
    BY <2>1 DEF RT!Heard
<1>3. CASE chunks[i].direction = "inbound"
  <2> DEFINE C == RT!Covering("inbound", position)
  <2>1. i \in C /\ C \subseteq DOMAIN chunks /\ DOMAIN chunks \subseteq Nat
    BY <1>3 DEF RT!Covering, TimelineInv
  <2>2. \A j \in C : ~(j > i)
    BY <1>3 DEF RT!Covering
  <2>3. \A j \in C : i >= j
    BY <2>1, <2>2
  <2> HIDE DEF C
  <2>4. RT!Max(C) \in C /\ \A j \in C : RT!Max(C) >= j
    BY <2>1, <2>3 DEF RT!Max
  <2>5. RT!Max(C) = i
    BY <2>1, <2>3, <2>4
  <2>6. QED
    BY <2>1, <2>5 DEF RT!Heard, C
<1>4. QED
  BY <1>1, <1>2, <1>3

\* A later chunk of the same direction, which covers a sample of an earlier one,
\* starts early, and it is the last sample.
LEMMA LaterStartsEarly ==
  ASSUME TimelineInv, NEW i \in DOMAIN chunks, NEW j \in DOMAIN chunks, j > i,
         chunks[i].direction = chunks[j].direction,
         NEW k \in Nat, k < chunks[i].samples, RT!Covers(j, chunks[i].start + k)
  PROVE  k = chunks[i].samples - 1 /\ chunks[j].start < chunks[j].offset
<1>1. /\ chunks[i].start \in Nat /\ chunks[i].samples \in Nat \ {0} /\ chunks[i].offset \in Nat
      /\ chunks[j].start \in Nat /\ chunks[j].offset \in Nat /\ DOMAIN chunks \subseteq Nat
  BY ChunksArePlaced, SMTT(60) DEF TimelineInv
<1>2. EndOf(chunks[i]) <= chunks[j].offset
  BY <1>1 DEF TimelineInv
<1>3. Placed(chunks[i]) /\ Placed(chunks[j])
  BY DEF TimelineInv
<1>4. chunks[j].start <= chunks[i].start + k
  BY <1>1 DEF RT!Covers
<1>5. QED
  BY <1>1, <1>2, <1>3, <1>4 DEF EndOf, Placed

\* However long the chunks are and however they arrive, in bursts, with gaps, and
\* across one another: the mixed recording loses no sample of either direction
\* but the last of a chunk where rounding starts the next one early, and has none
\* before its time.
THEOREM SamplesAreKept == MCSpec => []RT!SamplesKept
<1>1. MCInit => TimelineInv
  BY DEF MCInit, RT!Init, TimelineInv
<1>2. TimelineInv => RT!SamplesKept
  <2> SUFFICES ASSUME TimelineInv, state = "finalized", NEW i \in DOMAIN chunks
               PROVE  /\ chunks[i].start + 1 >= chunks[i].arrived
                      /\ ~chunks[i].silent =>
                           /\ \A k \in 0..(chunks[i].samples - 2) :
                                i \in RT!Heard(chunks[i].start + k)
                           /\ \/ i \in RT!Heard(chunks[i].start + chunks[i].samples - 1)
                              \/ \E j \in DOMAIN chunks :
                                   /\ j > i /\ chunks[j].direction = "inbound"
                                   /\ chunks[j].start < chunks[j].offset
    BY DEF RT!SamplesKept
  <2>1. /\ chunks[i].start \in Nat /\ chunks[i].samples \in Nat \ {0}
        /\ chunks[i].offset \in Nat /\ chunks[i].arrived \in Nat /\ Placed(chunks[i])
        /\ EndOf(chunks[i]) <= length /\ length \in Nat
    BY ChunksArePlaced DEF TimelineInv
  <2>2. chunks[i].start + 1 >= chunks[i].arrived
    BY <2>1 DEF Placed
  <2>3. ASSUME ~chunks[i].silent, NEW k \in Nat, k < chunks[i].samples
        PROVE  chunks[i].start + k \in Nat /\ RT!Covers(i, chunks[i].start + k)
    BY <2>1, <2>3 DEF RT!Covers, EndOf, Placed
  <2>4. ASSUME ~chunks[i].silent, NEW k \in 0..(chunks[i].samples - 2)
        PROVE  i \in RT!Heard(chunks[i].start + k)
    <3>1. k \in Nat /\ k < chunks[i].samples - 1 /\ k < chunks[i].samples
      BY <2>1, <2>4
    <3>2. ASSUME NEW j \in DOMAIN chunks, j > i, chunks[i].direction = "inbound",
                 chunks[j].direction = "inbound"
          PROVE  ~RT!Covers(j, chunks[i].start + k)
      BY <2>1, <3>1, <3>2, LaterStartsEarly
    <3>3. QED
      BY <2>3, <2>4, <3>1, <3>2, ChunkIsHeard
  <2>5. ASSUME ~chunks[i].silent
        PROVE  \/ i \in RT!Heard(chunks[i].start + chunks[i].samples - 1)
               \/ \E j \in DOMAIN chunks : /\ j > i /\ chunks[j].direction = "inbound"
                                           /\ chunks[j].start < chunks[j].offset
    <3>1. PICK k \in Nat : k = chunks[i].samples - 1
      BY <2>1
    <3>2. k < chunks[i].samples
          /\ chunks[i].start + chunks[i].samples - 1 = chunks[i].start + k
      BY <2>1, <3>1
    <3>3. ASSUME NEW j \in DOMAIN chunks, j > i, chunks[i].direction = "inbound",
                 chunks[j].direction = "inbound", RT!Covers(j, chunks[i].start + k)
          PROVE  chunks[j].start < chunks[j].offset
      BY <3>2, <3>3, LaterStartsEarly
    <3>4. QED
      BY <2>3, <2>5, <3>2, <3>3, ChunkIsHeard
  <2>6. QED
    BY <2>2, <2>4, <2>5
<1>3. QED
  BY <1>1, <1>2, TimelineStep, PTL DEF MCSpec

-----------------------------------------------------------------------------
(* OutboundAudio: OutboundWhole.                                           *)

\* What a response that was given the number r is heard as.
OwnSample(r) == {OA!Silence} \cup ({r} \X Nat)
Voiced(r) == Seq(Seq(OwnSample(r)))
PipeOf(r) == [remainder : Seq(OwnSample(r)), buffer : Voiced(r), sent : Voiced(r)]

\* Telephony samples hold the samples after the a-th up to the b-th, each once
\* and in their order.
HoldsNext(r, q, a, b) ==
  /\ \A m \in (a + 1)..b : \E k \in DOMAIN q : \E i \in DOMAIN q[k] : q[k][i] = <<r, m>>
  /\ \A k \in DOMAIN q : \A i \in DOMAIN q[k] :
       OA!FirstUse(q[k], i) =>
         /\ q[k][i][2] \in (a + 1)..b
         /\ \A l \in 1..k : \A j \in DOMAIN q[l] :
              (OA!FirstUse(q[l], j) /\ (l = k => j < i)) => q[l][j][2] < q[k][i][2]

\* Numbered samples.
InARow(r, s, a) == \A i \in DOMAIN s : s[i] = <<r, a + i>>

\* A pipe holds the first n samples: the last of them wait in the downsampler.
PipeHolds(r, pipe, n) ==
  \E a \in Nat :
    /\ n = a + Len(pipe.remainder)
    /\ InARow(r, pipe.remainder, a)
    /\ HoldsNext(r, pipe.sent \o pipe.buffer, 0, a)

\* The constants, as OutboundAudio has them.
LEMMA OutboundConstants ==
  Ratio \in Nat \ {0, 1} /\ Chunk \in Nat \ {0} /\ MaxResponses \in Nat /\ MaxSamples \in Nat
BY VoiceAssumptions DEF OA!OutboundAssumption

\* A sample is a pair of numbers.
LEMMA SampleIsNumbered ==
  ASSUME NEW r \in Nat, NEW x \in OwnSample(r)
  PROVE  x[2] \in Nat /\ (x = OA!Silence \/ x = <<r, x[2]>>)
BY DEF OwnSample, OA!Silence

\* The samples of a sequence of telephony samples.
LEMMA VoicedSample ==
  ASSUME NEW r \in Nat, NEW q \in Voiced(r), NEW k \in DOMAIN q, NEW i \in DOMAIN q[k]
  PROVE  /\ k \in 1..Len(q) /\ q[k] \in Seq(OwnSample(r)) /\ i \in 1..Len(q[k])
         /\ q[k][i] \in OwnSample(r) /\ q[k][i][2] \in Nat
<1>1. k \in 1..Len(q) /\ q[k] \in Seq(OwnSample(r))
  BY DEF Voiced
<1>2. i \in 1..Len(q[k]) /\ q[k][i] \in OwnSample(r)
  BY <1>1
<1>3. QED
  BY <1>1, <1>2, SampleIsNumbered

\* What follows holds what comes next.
LEMMA HoldsBoth ==
  ASSUME NEW r \in Nat, NEW q \in Voiced(r), NEW e \in Voiced(r),
         NEW a \in Nat, NEW b \in Nat, NEW z \in Nat, a <= b, b <= z,
         HoldsNext(r, q, a, b), HoldsNext(r, e, b, z)
  PROVE  HoldsNext(r, q \o e, a, z)
<1> DEFINE s == q \o e
<1>1. /\ s \in Voiced(r) /\ DOMAIN s = 1..(Len(q) + Len(e))
      /\ Len(q) \in Nat /\ Len(e) \in Nat /\ DOMAIN q = 1..Len(q) /\ DOMAIN e = 1..Len(e)
      /\ \A k \in 1..Len(q) : s[k] = q[k]
      /\ \A k \in 1..Len(e) : s[Len(q) + k] = e[k]
  BY DEF Voiced
<1>2. \A k \in DOMAIN s : \/ k \in DOMAIN q /\ s[k] = q[k]
                          \/ k - Len(q) \in DOMAIN e /\ s[k] = e[k - Len(q)]
                             /\ k = (k - Len(q)) + Len(q) /\ k > Len(q)
  BY <1>1
<1>3. ASSUME NEW m \in (a + 1)..z
      PROVE  \E k \in DOMAIN s : \E i \in DOMAIN s[k] : s[k][i] = <<r, m>>
  <2>1. CASE m \in (a + 1)..b
    <3>1. PICK k \in DOMAIN q : \E i \in DOMAIN q[k] : q[k][i] = <<r, m>>
      BY <2>1 DEF HoldsNext
    <3>2. k \in DOMAIN s /\ s[k] = q[k]
      BY <1>1
    <3>3. QED
      BY <3>1, <3>2
  <2>2. CASE m \in (b + 1)..z
    <3>1. PICK k \in DOMAIN e : \E i \in DOMAIN e[k] : e[k][i] = <<r, m>>
      BY <2>2 DEF HoldsNext
    <3>2. Len(q) + k \in DOMAIN s /\ s[Len(q) + k] = e[k]
      BY <1>1
    <3>3. QED
      BY <3>1, <3>2
  <2>3. QED
    BY <1>3, <2>1, <2>2, SMTT(60)
<1>4. ASSUME NEW k \in DOMAIN s, NEW i \in DOMAIN s[k], OA!FirstUse(s[k], i)
      PROVE  s[k][i][2] \in (a + 1)..z
  <2>1. s[k][i][2] \in (a + 1)..b \/ s[k][i][2] \in (b + 1)..z
    BY <1>2, <1>4 DEF HoldsNext
  <2>2. QED
    BY <2>1
<1>5. ASSUME NEW k \in DOMAIN s, NEW i \in DOMAIN s[k], OA!FirstUse(s[k], i),
             NEW l \in 1..k, NEW j \in DOMAIN s[l], OA!FirstUse(s[l], j),
             l = k => j < i
      PROVE  s[l][j][2] < s[k][i][2]
  <2>1. l \in DOMAIN s /\ k \in Nat /\ l \in Nat /\ l <= k
    BY <1>1
  <2>2. CASE k \in DOMAIN q
    <3>1. l \in DOMAIN q /\ s[l] = q[l] /\ s[k] = q[k]
      BY <1>1, <2>1, <2>2
    <3>2. QED
      BY <1>5, <2>2, <3>1 DEF HoldsNext
  <2>3. CASE l \in DOMAIN q /\ k - Len(q) \in DOMAIN e /\ s[k] = e[k - Len(q)]
    <3>1. s[l] = q[l]
      BY <1>1, <2>3
    <3>2. s[l][j][2] \in (a + 1)..b
      BY <1>5, <2>3, <3>1 DEF HoldsNext
    <3>3. s[k][i][2] \in (b + 1)..z
      BY <1>5, <2>3 DEF HoldsNext
    <3>4. PICK u \in (a + 1)..b : u = s[l][j][2]
      BY <3>2
    <3>5. PICK w \in (b + 1)..z : w = s[k][i][2]
      BY <3>3
    <3>6. u < w
      OBVIOUS
    <3>7. QED
      BY <3>4, <3>5, <3>6
  <2>4. CASE /\ k - Len(q) \in DOMAIN e /\ s[k] = e[k - Len(q)]
             /\ l - Len(q) \in DOMAIN e /\ s[l] = e[l - Len(q)]
    <3>1. PICK kk \in DOMAIN e : kk = k - Len(q)
      BY <2>4
    <3>2. PICK ll \in DOMAIN e : ll = l - Len(q)
      BY <2>4
    <3>3. s[k] = e[kk] /\ s[l] = e[ll]
      BY <2>4, <3>1, <3>2
    <3>4. ll \in 1..kk /\ (ll = kk => l = k)
      BY <1>1, <2>1, <3>1, <3>2
    <3>5. QED
      BY <1>5, <3>3, <3>4 DEF HoldsNext
  <2>5. QED
    BY <1>2, <2>1, <2>2, <2>3, <2>4
<1>6. QED
  BY <1>3, <1>4, <1>5 DEF HoldsNext

\* Padding, or nothing at all, holds no sample.
LEMMA PaddingHoldsNothing ==
  ASSUME NEW r \in Nat, NEW a \in Nat, NEW q \in Voiced(r),
         \A k \in DOMAIN q : \A i \in DOMAIN q[k] : q[k][i] = OA!Silence
  PROVE  HoldsNext(r, q, a, a)
BY DEF HoldsNext, OA!FirstUse

\* A telephony sample whose first n samples follow the a-th, and repeats them or
\* is silent in the rest.
LEMMA GroupHolds ==
  ASSUME NEW r \in Nat, NEW g \in Seq(OwnSample(r)), NEW a \in Nat, NEW n \in Nat,
         n <= Len(g), \A i \in 1..n : g[i] = <<r, a + i>>,
         \A i \in (n + 1)..Len(g) :
           g[i] = OA!Silence \/ \E j \in 1..n : g[j] = g[i]
  PROVE  HoldsNext(r, <<g>>, a, a + n)
<1> DEFINE q == <<g>>
<1>1. DOMAIN q = {1} /\ q[1] = g /\ DOMAIN g = 1..Len(g) /\ Len(g) \in Nat
  OBVIOUS
<1>2. ASSUME NEW i \in DOMAIN g, OA!FirstUse(g, i)
      PROVE  i \in 1..n /\ g[i][2] = a + i
  <2>1. i \in 1..n
    BY <1>1, <1>2 DEF OA!FirstUse
  <2>2. QED
    BY <2>1
<1>3. ASSUME NEW m \in (a + 1)..(a + n)
      PROVE  \E i \in DOMAIN g : g[i] = <<r, m>>
  <2>1. PICK i \in 1..n : i = m - a
    OBVIOUS
  <2>2. g[i] = <<r, m>> /\ i \in DOMAIN g
    BY <2>1, <1>1
  <2>3. QED
    BY <2>2
<1>4. \A k \in DOMAIN q : \A i \in DOMAIN q[k] : OA!FirstUse(q[k], i) =>
        /\ q[k][i][2] \in (a + 1)..(a + n)
        /\ \A l \in 1..k : \A j \in DOMAIN q[l] :
             (OA!FirstUse(q[l], j) /\ (l = k => j < i)) => q[l][j][2] < q[k][i][2]
  <2>1. ASSUME NEW i \in DOMAIN g, OA!FirstUse(g, i)
        PROVE  /\ g[i][2] \in (a + 1)..(a + n)
               /\ \A j \in DOMAIN g :
                    (OA!FirstUse(g, j) /\ j < i) => g[j][2] < g[i][2]
    BY <1>2, <2>1
  <2>2. ASSUME NEW k \in DOMAIN q, NEW i \in DOMAIN q[k], OA!FirstUse(q[k], i)
        PROVE  /\ q[k][i][2] \in (a + 1)..(a + n)
               /\ \A l \in 1..k : \A j \in DOMAIN q[l] :
                    (OA!FirstUse(q[l], j) /\ (l = k => j < i)) => q[l][j][2] < q[k][i][2]
    <3>1. k = 1 /\ q[k] = g
      BY <1>1
    <3>2. i \in DOMAIN g /\ OA!FirstUse(g, i)
      BY <2>2, <3>1
    <3>3. \A l \in 1..k : l = k /\ q[l] = g
      BY <3>1
    <3> HIDE DEF q
    <3>4. QED
      BY <2>1, <3>1, <3>2, <3>3
  <2> HIDE DEF q
  <2>3. QED
    BY <2>2
<1>5. QED
  BY <1>1, <1>3, <1>4 DEF HoldsNext

\* A number is made of its quotient and its rest.
LEMMA QuotientAndRest ==
  ASSUME NEW n \in Nat \ {0}, NEW x \in Nat
  PROVE  \E y \in Nat : \E z \in 0..(n - 1) :
           /\ y = x \div n /\ z = x % n
           /\ x = y * n + z /\ y * n \in Nat
<1>1. x \div n \in Int /\ x % n \in 0..(n - 1)
  OBVIOUS
<1>2. PICK y \in Int : y = x \div n
  BY <1>1
<1>3. PICK z \in 0..(n - 1) : z = x % n
  BY <1>1
<1>4. x = y * n + z
  BY <1>2, <1>3
<1>5. y \in Nat
  <2>1. y < 0 => y * n + n <= 0
    OBVIOUS
  <2>2. y * n \in Int
    OBVIOUS
  <2>3. QED
    BY <1>4, <2>1, <2>2
<1>6. QED
  BY <1>2, <1>3, <1>4, <1>5

\* Multiples of a number lie at least that number apart.
LEMMA MultiplesLieApart ==
  ASSUME NEW n \in Nat, NEW k \in Nat, NEW l \in Nat, l < k
  PROVE  l * n + n <= k * n /\ l * n \in Nat /\ k * n \in Nat
OBVIOUS

\* Groups of size numbered samples each, after the a-th.
LEMMA GroupsHold ==
  ASSUME NEW r \in Nat, NEW size \in Nat \ {0}, NEW full \in Nat, NEW a \in Nat,
         NEW q \in Voiced(r), Len(q) = full,
         \A k \in 1..full : /\ Len(q[k]) = size
                            /\ \A i \in 1..size : q[k][i] = <<r, a + (k - 1) * size + i>>
  PROVE  HoldsNext(r, q, a, a + full * size)
<1>1. /\ full * size \in Nat /\ DOMAIN q = 1..full
      /\ \A k \in 1..full : DOMAIN q[k] = 1..size
  <2>1. full * size \in Nat /\ DOMAIN q = 1..full
    BY DEF Voiced
  <2>2. ASSUME NEW k \in 1..full PROVE DOMAIN q[k] = 1..size
    <3>1. q[k] \in Seq(OwnSample(r))
      BY <2>1 DEF Voiced
    <3>2. QED
      BY <3>1
  <2>3. QED
    BY <2>1, <2>2
<1>2. ASSUME NEW m \in (a + 1)..(a + full * size)
      PROVE  \E k \in DOMAIN q : \E i \in DOMAIN q[k] : q[k][i] = <<r, m>>
  <2>1. PICK x \in Nat : x = m - (a + 1) /\ x < full * size
    BY <1>1
  <2>2. PICK y \in Nat : \E z \in 0..(size - 1) : x = y * size + z /\ y * size \in Nat
    BY QuotientAndRest
  <2>3. PICK z \in 0..(size - 1) : x = y * size + z
    BY <2>2
  <2>5. y < full
    <3>1. PICK w \in Nat : w = y * size
      BY <2>2
    <3>2. PICK v \in Nat : v = full * size
      BY <1>1
    <3>3. CASE full < y
      <4>1. v + size <= w
        BY <3>1, <3>2, <3>3, MultiplesLieApart
      <4>2. x < v /\ x = w + z
        BY <2>1, <2>3, <3>1, <3>2
      <4>3. QED
        BY <4>1, <4>2
    <3>4. CASE full = y
      BY <2>1, <2>3, <3>1, <3>2, <3>4
    <3>5. QED
      BY <3>3, <3>4
  <2>6. PICK k \in 1..full : y = k - 1
    BY <2>5
  <2>7. PICK i \in 1..size : z = i - 1
    OBVIOUS
  <2>8. q[k][i] = <<r, a + y * size + i>>
    BY <2>6
  <2>9. a + y * size + i = m
    <3>1. PICK w \in Nat : w = y * size
      BY <2>2
    <3>2. QED
      BY <2>1, <2>3, <2>7, <3>1
  <2>10. QED
    BY <1>1, <2>8, <2>9
<1>3. ASSUME NEW k \in 1..full, NEW i \in 1..size
      PROVE  q[k][i][2] \in (a + 1)..(a + full * size)
  <2>1. PICK y \in Nat : y = k - 1 /\ y < full
    OBVIOUS
  <2>2. PICK w \in Nat : w = y * size /\ w + size <= full * size
    BY <2>1, MultiplesLieApart
  <2>3. q[k][i][2] = a + w + i
    BY <2>1, <2>2
  <2>4. PICK v \in Nat : v = full * size
    BY <1>1
  <2>5. w + size <= v
    BY <2>2, <2>4
  <2>6. a + w + i \in (a + 1)..(a + v)
    BY <2>5
  <2>7. QED
    BY <2>3, <2>4, <2>6
<1>4. ASSUME NEW k \in 1..full, NEW i \in 1..size, NEW l \in 1..k, NEW j \in 1..size,
             l = k => j < i
      PROVE  q[l][j][2] < q[k][i][2]
  <2>1. PICK y \in Nat : y = k - 1
    OBVIOUS
  <2>2. PICK x \in Nat : x = l - 1 /\ x <= y
    BY <2>1
  <2>3. PICK w \in Nat : w = y * size
    BY <2>1
  <2>4. PICK v \in Nat : v = x * size
    BY <2>2
  <2>5. q[k][i][2] = a + w + i
    <3>1. q[k][i] = <<r, a + (k - 1) * size + i>>
      OBVIOUS
    <3>2. (k - 1) * size = w
      BY <2>1, <2>3
    <3>3. QED
      BY <3>1, <3>2
  <2>6. q[l][j][2] = a + v + j
    <3>1. l \in 1..full
      OBVIOUS
    <3>2. QED
      BY <3>1, <2>2, <2>4
  <2>7. a + v + j < a + w + i
    <3>1. CASE x < y
      <4>1. v + size <= w
        BY <3>1, <2>3, <2>4, MultiplesLieApart
      <4>2. QED
        BY <4>1
    <3>2. CASE x = y
      <4>1. v = w /\ l = k
        BY <3>2, <2>1, <2>2, <2>3, <2>4
      <4>2. QED
        BY <1>4, <4>1
    <3>3. QED
      BY <2>2, <3>1, <3>2
  <2>8. QED
    BY <2>5, <2>6, <2>7
<1>5. QED
  <2>1. ASSUME NEW k \in DOMAIN q, NEW i \in DOMAIN q[k]
        PROVE  /\ q[k][i][2] \in (a + 1)..(a + full * size)
               /\ \A l \in 1..k : \A j \in DOMAIN q[l] :
                    (l = k => j < i) => q[l][j][2] < q[k][i][2]
    <3>1. k \in 1..full /\ i \in 1..size
      BY <1>1
    <3>2. \A l \in 1..k : l \in 1..full
      BY <3>1
    <3>3. QED
      BY <1>1, <1>3, <1>4, <3>1, <3>2
  <2>2. QED
    BY <1>2, <2>1 DEF HoldsNext

\* One after the other.
LEMMA VoicedTogether ==
  ASSUME NEW r \in Nat, NEW q \in Voiced(r), NEW e \in Voiced(r), NEW f \in Voiced(r)
  PROVE  q \o e \in Voiced(r) /\ (q \o e) \o f = q \o (e \o f)
<1> DEFINE S == Seq(OwnSample(r))
<1>1. q \in Seq(S) /\ e \in Seq(S) /\ f \in Seq(S)
  BY DEF Voiced
<1> HIDE DEF S
<1>2. (q \o e) \o f = q \o (e \o f)
  BY <1>1, ConcatAssociative, SMTT(60)
<1>3. q \o e \in Seq(S)
  BY <1>1
<1>4. QED
  BY <1>2, <1>3 DEF Voiced, S

\* push: the telephony samples it adds hold the complete groups of the remainder
\* and the new samples, and what is left fills no group.
LEMMA PushKeeps ==
  ASSUME NEW r \in Nat, NEW pipe \in PipeOf(r), NEW s \in Seq(OwnSample(r)),
         NEW new, new = OA!Push(pipe, s)
  PROVE  /\ new \in PipeOf(r) /\ Len(new.remainder) < Ratio /\ new.sent = pipe.sent
         /\ \A n \in Nat : (PipeHolds(r, pipe, n) /\ InARow(r, s, n))
                             => PipeHolds(r, new, n + Len(s))
<1> DEFINE all == pipe.remainder \o s
<1>1. /\ pipe.remainder \in Seq(OwnSample(r)) /\ pipe.buffer \in Voiced(r)
      /\ pipe.sent \in Voiced(r)
  BY DEF PipeOf
<1>2. /\ all \in Seq(OwnSample(r)) /\ Len(all) = Len(pipe.remainder) + Len(s)
      /\ Len(all) \in Nat /\ Len(pipe.remainder) \in Nat /\ Len(s) \in Nat
      /\ \A i \in 1..Len(pipe.remainder) : all[i] = pipe.remainder[i]
      /\ \A i \in 1..Len(s) : all[Len(pipe.remainder) + i] = s[i]
      /\ DOMAIN pipe.remainder = 1..Len(pipe.remainder) /\ DOMAIN s = 1..Len(s)
  BY <1>1
<1>3. PICK full \in Nat : \E z \in 0..(Ratio - 1) :
        full = Len(all) \div Ratio /\ Len(all) = full * Ratio + z /\ full * Ratio \in Nat
  BY <1>2, OutboundConstants, QuotientAndRest
<1>4. PICK z \in 0..(Ratio - 1) : Len(all) = full * Ratio + z
  BY <1>3
<1>5. PICK w \in Nat : w = full * Ratio /\ Len(all) = w + z
  BY <1>3, <1>4
<1> DEFINE groups == [g \in 1..full |-> SubSeq(all, (g - 1) * Ratio + 1, g * Ratio)]
           rest == SubSeq(all, w + 1, Len(all))
<1>6. new = [remainder |-> rest, buffer |-> pipe.buffer \o groups, sent |-> pipe.sent]
  BY <1>3, <1>5 DEF OA!Push, PipeOf
<1>7. ASSUME NEW g \in 1..full
      PROVE  /\ groups[g] \in Seq(OwnSample(r)) /\ Len(groups[g]) = Ratio
             /\ \A i \in 1..Ratio : /\ groups[g][i] = all[(g - 1) * Ratio + i]
                                    /\ (g - 1) * Ratio + i \in 1..Len(all)
  <2>1. PICK y \in Nat : y = g - 1 /\ y < full
    OBVIOUS
  <2>2. PICK v \in Nat : v = y * Ratio /\ v + Ratio <= w
    BY <1>5, <2>1, MultiplesLieApart, OutboundConstants
  <2>3. g * Ratio = v + Ratio /\ (g - 1) * Ratio = v
    BY <2>1, <2>2, OutboundConstants
  <2>4. groups[g] = SubSeq(all, v + 1, v + Ratio)
    BY <2>3
  <2>5. v + Ratio <= Len(all)
    BY <1>5, <2>2, OutboundConstants
  <2>6. \A i \in (v + 1)..(v + Ratio) : all[i] \in OwnSample(r)
    BY <1>2, <2>5, OutboundConstants
  <2> HIDE DEF groups, all
  <2>7. /\ groups[g] \in Seq(OwnSample(r)) /\ Len(groups[g]) = Ratio
        /\ \A i \in 1..Ratio : groups[g][i] = all[v + 1 + i - 1]
    BY <2>4, <2>6, OutboundConstants, SubSeqProperties
  <2>8. \A i \in 1..Ratio : v + 1 + i - 1 = v + i /\ v + i \in 1..Len(all)
    BY <1>2, <2>5, OutboundConstants
  <2>9. QED
    BY <2>3, <2>7, <2>8
<1>8. groups \in Voiced(r) /\ Len(groups) = full
  <2>1. DOMAIN groups = 1..full /\ groups = [g \in 1..full |-> groups[g]]
    OBVIOUS
  <2> HIDE DEF groups
  <2>2. groups \in [1..full -> Seq(OwnSample(r))]
    BY <1>7, <2>1
  <2>3. QED
    BY <2>1, <2>2 DEF Voiced
<1>9. /\ rest \in Seq(OwnSample(r)) /\ Len(rest) = z
      /\ \A i \in 1..z : rest[i] = all[w + i] /\ w + i \in 1..Len(all)
  <2>1. \A i \in (w + 1)..Len(all) : all[i] \in OwnSample(r)
    BY <1>2
  <2> HIDE DEF all
  <2>2. /\ rest \in Seq(OwnSample(r))
        /\ Len(rest) = IF w + 1 <= Len(all) THEN Len(all) - (w + 1) + 1 ELSE 0
        /\ \A i \in 1..(Len(all) - (w + 1) + 1) : rest[i] = all[w + 1 + i - 1]
    BY <1>2, <2>1, SubSeqProperties
  <2>3. Len(all) - (w + 1) + 1 = z /\ (w + 1 <= Len(all) <=> z # 0)
    BY <1>5
  <2>4. \A i \in 1..z : w + 1 + i - 1 = w + i /\ w + i \in 1..Len(all)
    BY <1>4, <1>5
  <2> HIDE DEF rest
  <2>5. QED
    BY <2>2, <2>3, <2>4
<1> HIDE DEF all, groups, rest
<1>10. pipe.buffer \o groups \in Voiced(r)
  BY <1>1, <1>8 DEF Voiced
<1>11. new \in PipeOf(r) /\ Len(new.remainder) < Ratio /\ new.sent = pipe.sent
  BY <1>1, <1>6, <1>9, <1>10, OutboundConstants DEF PipeOf
<1>12. ASSUME NEW n \in Nat, PipeHolds(r, pipe, n), InARow(r, s, n)
       PROVE  PipeHolds(r, new, n + Len(s))
  <2>1. PICK a \in Nat : /\ n = a + Len(pipe.remainder)
                         /\ InARow(r, pipe.remainder, a)
                         /\ HoldsNext(r, pipe.sent \o pipe.buffer, 0, a)
    BY <1>12 DEF PipeHolds
  <2>2. ASSUME NEW i \in 1..Len(all) PROVE all[i] = <<r, a + i>>
    <3>1. CASE i \in 1..Len(pipe.remainder)
      BY <1>2, <2>1, <3>1 DEF InARow
    <3>2. CASE i \in (Len(pipe.remainder) + 1)..Len(all)
      <4>1. i - Len(pipe.remainder) \in 1..Len(s)
            /\ i = Len(pipe.remainder) + (i - Len(pipe.remainder))
        BY <1>2, <3>2
      <4> PICK k \in 1..Len(s) : i = Len(pipe.remainder) + k
        BY <4>1
      <4>2. all[i] = <<r, n + k>>
        BY <1>2, <1>12 DEF InARow
      <4>3. n + k = a + i
        BY <1>2, <2>1
      <4>4. QED
        BY <4>2, <4>3
    <3>3. QED
      BY <1>2, <3>1, <3>2
  <2>3. ASSUME NEW g \in 1..full, NEW i \in 1..Ratio
        PROVE  groups[g][i] = <<r, a + (g - 1) * Ratio + i>>
    <3>1. PICK v \in Nat : v = (g - 1) * Ratio
      BY OutboundConstants
    <3>2. groups[g][i] = <<r, a + (v + i)>>
      BY <1>7, <2>2, <3>1
    <3>3. a + (v + i) = a + v + i
      BY OutboundConstants
    <3>4. QED
      BY <3>1, <3>2, <3>3
  <2>4. HoldsNext(r, groups, a, a + w)
    BY <1>5, <1>7, <1>8, <2>3, GroupsHold, OutboundConstants
  <2>5. HoldsNext(r, (pipe.sent \o pipe.buffer) \o groups, 0, a + w)
    <3>1. pipe.sent \o pipe.buffer \in Voiced(r)
      BY <1>1 DEF Voiced
    <3>2. QED
      BY <1>8, <2>1, <2>4, <3>1, HoldsBoth
  <2>6. HoldsNext(r, pipe.sent \o (pipe.buffer \o groups), 0, a + w)
    <3>1. (pipe.sent \o pipe.buffer) \o groups = pipe.sent \o (pipe.buffer \o groups)
      <4>1. r \in Nat
        OBVIOUS
      <4>2. QED
        BY <1>1, <1>8, <4>1, VoicedTogether, Zenon
    <3>2. QED
      BY <2>5, <3>1
  <2>7. InARow(r, rest, a + w)
    <3>1. ASSUME NEW i \in 1..z PROVE rest[i] = <<r, a + w + i>>
      <4>1. rest[i] = <<r, a + (w + i)>>
        BY <1>9, <2>2
      <4>2. a + (w + i) = a + w + i
        OBVIOUS
      <4>3. QED
        BY <4>1, <4>2
    <3>2. DOMAIN rest = 1..z
      BY <1>9
    <3>3. QED
      BY <3>1, <3>2 DEF InARow
  <2>8. n + Len(s) = (a + w) + Len(rest)
    <3>1. PICK k \in Nat : k = Len(pipe.remainder)
      BY <1>2
    <3>2. n = a + k /\ k + Len(s) = w + z /\ Len(rest) = z
      BY <1>2, <1>5, <1>9, <2>1, <3>1
    <3>3. QED
      BY <1>2, <3>2
  <2>9. QED
    BY <1>6, <2>6, <2>7, <2>8 DEF PipeHolds
<1>13. QED
  BY <1>11, <1>12

\* flushOutboundPcmRemainder: the samples of a part group are heard, however
\* often it puts them into the group.
LEMMA RemainderIsHeard ==
  ASSUME NEW r \in Nat, NEW pipe \in PipeOf(r), Len(pipe.remainder) < Ratio,
         NEW new, new = OA!FlushOutboundPcmRemainder(pipe)
  PROVE  /\ new \in PipeOf(r) /\ new.remainder = <<>> /\ new.sent = pipe.sent
         /\ pipe.remainder = <<>> => new = pipe
         /\ \A n \in Nat : PipeHolds(r, pipe, n) => PipeHolds(r, new, n)
<1>1. /\ pipe.remainder \in Seq(OwnSample(r)) /\ pipe.buffer \in Voiced(r)
      /\ pipe.sent \in Voiced(r)
  BY DEF PipeOf
<1>2. CASE pipe.remainder = <<>>
  BY <1>2 DEF OA!FlushOutboundPcmRemainder
<1>3. CASE pipe.remainder # <<>>
  <2>1. PICK k \in Nat : k = Len(pipe.remainder) /\ k > 0 /\ k < Ratio
    BY <1>1, <1>3
  <2> DEFINE silence == [i \in 1..(Ratio - k) |-> OA!Silence]
             s == pipe.remainder \o silence
             all == pipe.remainder \o s
             pushed == OA!Push(pipe, s)
  <2>2. /\ silence \in Seq(OwnSample(r)) /\ Len(silence) = Ratio - k
        /\ \A i \in 1..(Ratio - k) : silence[i] = OA!Silence
    <3>1. PICK m \in Nat : m = Ratio - k
      BY <2>1, OutboundConstants, SMTT(60)
    <3>2. OA!Silence \in OwnSample(r)
      BY DEF OwnSample
    <3>3. QED
      BY <3>1, <3>2
  <2>3. new = [pushed EXCEPT !.remainder = <<>>]
    BY <1>3, <2>1 DEF OA!FlushOutboundPcmRemainder
  <2> HIDE DEF silence
  <2>4. /\ s \in Seq(OwnSample(r)) /\ Len(s) = Ratio
        /\ \A i \in 1..k : s[i] = pipe.remainder[i]
        /\ \A i \in 1..(Ratio - k) : s[k + i] = OA!Silence
    BY <1>1, <2>1, <2>2, OutboundConstants
  <2> HIDE DEF s
  <2>5. /\ all \in Seq(OwnSample(r)) /\ Len(all) = k + Ratio
        /\ \A i \in 1..k : all[i] = pipe.remainder[i]
        /\ \A i \in 1..Ratio : all[k + i] = s[i]
    BY <1>1, <2>1, <2>4, OutboundConstants
  <2>6. Len(all) \div Ratio = 1
    <3>1. PICK y \in Nat : \E z \in 0..(Ratio - 1) :
            /\ y = (k + Ratio) \div Ratio /\ k + Ratio = y * Ratio + z
            /\ y * Ratio \in Nat
      <4>1. PICK x \in Nat : x = k + Ratio
        BY <2>1, OutboundConstants
      <4>2. \E y \in Nat : \E z \in 0..(Ratio - 1) :
              y = x \div Ratio /\ z = x % Ratio /\ x = y * Ratio + z /\ y * Ratio \in Nat
        BY OutboundConstants, QuotientAndRest, Zenon
      <4>3. QED
        BY <4>1, <4>2
    <3>2. PICK v \in Nat : v = y * Ratio
      BY <3>1
    <3>3. v <= k + Ratio /\ k + Ratio < v + Ratio
      <4>1. PICK z \in 0..(Ratio - 1) : k + Ratio = v + z
        BY <3>1, <3>2
      <4>2. QED
        BY <2>1, <4>1, OutboundConstants
    <3>4. ~(1 < y)
      <4>1. 1 < y => 1 * Ratio + Ratio <= y * Ratio
        BY OutboundConstants, MultiplesLieApart
      <4>2. 1 * Ratio = Ratio
        BY OutboundConstants
      <4>3. QED
        BY <2>1, <3>2, <3>3, <4>1, <4>2, OutboundConstants
    <3>5. y # 0
      BY <2>1, <3>2, <3>3, OutboundConstants
    <3>6. QED
      BY <2>5, <3>1, <3>4, <3>5
  <2> DEFINE group == SubSeq(all, 1, Ratio)
  <2>7. /\ pushed \in PipeOf(r) /\ pushed.sent = pipe.sent
        /\ pushed.buffer = pipe.buffer \o <<group>>
    <3>1. pushed \in PipeOf(r) /\ pushed.sent = pipe.sent
      BY <2>4, PushKeeps
    <3>2. pushed.buffer = pipe.buffer
            \o [g \in 1..1 |-> SubSeq(all, (g - 1) * Ratio + 1, g * Ratio)]
      BY <2>6 DEF OA!Push, PipeOf
    <3>3. [g \in 1..1 |-> SubSeq(all, (g - 1) * Ratio + 1, g * Ratio)] = <<group>>
      <4>1. (1 - 1) * Ratio + 1 = 1 /\ 1 * Ratio = Ratio
        BY OutboundConstants
      <4>2. \A g \in 1..1 : g = 1
        OBVIOUS
      <4>3. \A g \in 1..1 : (g - 1) * Ratio + 1 = 1 /\ g * Ratio = Ratio
        BY <4>1, <4>2
      <4>4. [g \in 1..1 |-> SubSeq(all, (g - 1) * Ratio + 1, g * Ratio)]
              = [g \in 1..1 |-> group]
        BY <4>3, Zenon
      <4> HIDE DEF group
      <4>5. [g \in 1..1 |-> group] = <<group>>
        OBVIOUS
      <4>6. QED
        BY <4>4, <4>5
    <3>4. QED
      BY <3>1, <3>2, <3>3
  <2> HIDE DEF pushed
  <2>8. /\ new \in PipeOf(r) /\ new.remainder = <<>> /\ new.sent = pipe.sent
        /\ new.buffer = pipe.buffer \o <<group>>
    <3> HIDE DEF group
    <3>1. /\ new.remainder = <<>> /\ new.sent = pushed.sent /\ new.buffer = pushed.buffer
          /\ <<>> \in Seq(OwnSample(r))
      BY <2>3, <2>7 DEF PipeOf
    <3>2. new \in PipeOf(r)
      BY <2>3, <2>7, <3>1 DEF PipeOf
    <3>3. QED
      BY <2>7, <3>1, <3>2
  <2> HIDE DEF all
  <2>9. /\ group \in Seq(OwnSample(r)) /\ Len(group) = Ratio
        /\ \A i \in 1..Ratio : group[i] = all[i]
    <3>1. \A i \in 1..Ratio : all[i] \in OwnSample(r)
      BY <2>1, <2>5, OutboundConstants
    <3>2. /\ group \in Seq(OwnSample(r)) /\ Len(group) = Ratio - 1 + 1
          /\ \A i \in 1..(Ratio - 1 + 1) : group[i] = all[1 + i - 1]
      BY <3>1, OutboundConstants, SubSeqProperties
    <3>3. Ratio - 1 + 1 = Ratio /\ \A i \in 1..Ratio : 1 + i - 1 = i
      BY OutboundConstants
    <3> HIDE DEF group
    <3>4. QED
      BY <3>2, <3>3
  <2> HIDE DEF group
  <2>10. ASSUME NEW n \in Nat, PipeHolds(r, pipe, n)
         PROVE  PipeHolds(r, new, n)
    <3>1. PICK a \in Nat : /\ n = a + k
                           /\ InARow(r, pipe.remainder, a)
                           /\ HoldsNext(r, pipe.sent \o pipe.buffer, 0, a)
      BY <2>1, <2>10 DEF PipeHolds
    <3>2. \A i \in 1..k : group[i] = <<r, a + i>>
      <4>1. DOMAIN pipe.remainder = 1..k
        BY <1>1, <2>1
      <4>2. \A i \in 1..k : i \in 1..Ratio
        BY <2>1, OutboundConstants
      <4>3. QED
        BY <2>5, <2>9, <3>1, <4>1, <4>2 DEF InARow
    <3>3. ASSUME NEW i \in (k + 1)..Ratio
          PROVE  group[i] = OA!Silence \/ \E j \in 1..k : group[j] = group[i]
      <4>0. i - k \in 1..Ratio /\ i = k + (i - k)
        BY <2>1, OutboundConstants
      <4>1. PICK j \in 1..Ratio : i = k + j
        BY <4>0
      <4>2. group[i] = s[j]
        BY <2>1, <2>5, <2>9, <4>1, SMTT(60)
      <4>3. CASE j \in 1..k
        <5>1. group[j] = pipe.remainder[j] /\ s[j] = pipe.remainder[j]
          BY <2>1, <2>4, <2>5, <2>9, <4>3
        <5>2. QED
          BY <4>2, <4>3, <5>1
      <4>4. CASE j > k
        <5>0. j - k \in 1..(Ratio - k) /\ j = k + (j - k)
          BY <2>1, <4>1, <4>4, OutboundConstants
        <5>1. PICK h \in 1..(Ratio - k) : j = k + h
          BY <5>0
        <5>2. QED
          BY <2>4, <4>2, <5>1
      <4>5. QED
        BY <2>1, <4>3, <4>4
    <3>4. HoldsNext(r, <<group>>, a, a + k)
      <4>1. k <= Len(group) /\ (k + 1)..Len(group) = (k + 1)..Ratio
        BY <2>1, <2>9
      <4>2. QED
        BY <2>9, <3>2, <3>3, <4>1, GroupHolds
    <3>5. <<group>> \in Voiced(r)
      BY <2>9 DEF Voiced
    <3>6. HoldsNext(r, (pipe.sent \o pipe.buffer) \o <<group>>, 0, a + k)
      <4>1. pipe.sent \o pipe.buffer \in Voiced(r)
        BY <1>1 DEF Voiced
      <4>2. QED
        BY <3>1, <3>4, <3>5, <4>1, HoldsBoth
    <3>7. (pipe.sent \o pipe.buffer) \o <<group>> = new.sent \o new.buffer
      <4>1. (pipe.sent \o pipe.buffer) \o <<group>> = pipe.sent \o (pipe.buffer \o <<group>>)
        BY <1>1, <3>5, VoicedTogether, Zenon
      <4>2. QED
        BY <2>8, <4>1
    <3>8. InARow(r, <<>>, n) /\ n = n + Len(<<>>)
      BY DEF InARow
    <3>9. HoldsNext(r, new.sent \o new.buffer, 0, n)
      BY <3>1, <3>6, <3>7
    <3>10. QED
      BY <2>8, <3>8, <3>9 DEF PipeHolds
  <2>11. QED
    BY <1>3, <2>8, <2>10
<1>4. QED
  BY <1>2, <1>3

\* flushOutboundMulaw: frames only move telephony samples from the buffer to the
\* caller; a buffer of whole frames is emptied.
LEMMA FramesMoveSamples ==
  ASSUME NEW r \in Nat, NEW pipe \in PipeOf(r), NEW new, new = OA!FlushOutboundMulaw(pipe)
  PROVE  /\ new \in PipeOf(r) /\ new.remainder = pipe.remainder
         /\ new.sent \o new.buffer = pipe.sent \o pipe.buffer
         /\ Len(pipe.buffer) % Chunk = 0 => new.buffer = <<>>
         /\ \A n \in Nat : PipeHolds(r, pipe, n) => PipeHolds(r, new, n)
<1>1. pipe.buffer \in Voiced(r) /\ pipe.sent \in Voiced(r) /\ Len(pipe.buffer) \in Nat
  BY DEF PipeOf, Voiced
<1>2. PICK full \in 0..Len(pipe.buffer) :
        full = Len(pipe.buffer) - (Len(pipe.buffer) % Chunk)
  <2>1. PICK x \in Nat : x = Len(pipe.buffer)
    BY <1>1
  <2>2. PICK y \in Nat : \E z \in 0..(Chunk - 1) :
          z = x % Chunk /\ x = y * Chunk + z /\ y * Chunk \in Nat
    BY OutboundConstants, QuotientAndRest
  <2>3. x % Chunk \in 0..x
    BY <2>2, OutboundConstants
  <2>4. QED
    BY <2>1, <2>3
<1> DEFINE filled == SubSeq(pipe.buffer, 1, full)
           unfilled == SubSeq(pipe.buffer, full + 1, Len(pipe.buffer))
<1>3. new = [pipe EXCEPT !.buffer = unfilled, !.sent = pipe.sent \o filled]
  BY <1>2 DEF OA!FlushOutboundMulaw, PipeOf
<1>4. filled \in Voiced(r) /\ unfilled \in Voiced(r) /\ filled \o unfilled = pipe.buffer
  <2> DEFINE S == Seq(OwnSample(r))
  <2>1. pipe.buffer \in Seq(S)
    BY <1>1 DEF Voiced
  <2> HIDE DEF S
  <2>2. filled \in Seq(S) /\ unfilled \in Seq(S)
    BY <1>1, <1>2, <2>1
  <2>3. filled \o unfilled = SubSeq(pipe.buffer, 1, Len(pipe.buffer))
    <3>1. /\ 1 \in 1..(Len(pipe.buffer) + 1) /\ full \in (1 - 1)..Len(pipe.buffer)
          /\ Len(pipe.buffer) \in full..Len(pipe.buffer)
      BY <1>1, <1>2
    <3>2. QED
      BY <2>1, <3>1, ConcatAdjacentSubSeq
  <2>4. QED
    BY <2>1, <2>2, <2>3, SubSeqFull DEF Voiced, S
<1>5. Len(pipe.buffer) % Chunk = 0 => unfilled = <<>>
  BY <1>1, <1>2, SubSeqEmpty
<1> HIDE DEF filled, unfilled
<1>6. /\ pipe.sent \o filled \in Voiced(r)
      /\ (pipe.sent \o filled) \o unfilled = pipe.sent \o pipe.buffer
  <2>1. /\ pipe.sent \o filled \in Voiced(r)
        /\ (pipe.sent \o filled) \o unfilled = pipe.sent \o (filled \o unfilled)
    BY <1>1, <1>4, VoicedTogether, ZenonT(60)
  <2>2. QED
    BY <1>4, <2>1
<1>7. /\ new \in PipeOf(r) /\ new.remainder = pipe.remainder
      /\ new.buffer = unfilled /\ new.sent = pipe.sent \o filled
  BY <1>3, <1>4, <1>6 DEF PipeOf
<1>8. new.sent \o new.buffer = pipe.sent \o pipe.buffer
  BY <1>6, <1>7
<1>9. QED
  BY <1>5, <1>7, <1>8 DEF PipeHolds

\* What the padding adds makes a multiple.
LEMMA PaddingFillsUp ==
  ASSUME NEW n \in Nat \ {0}, NEW x \in Nat
  PROVE  (x + ((n - (x % n)) % n)) % n = 0
OBVIOUS

\* flushRemainingOutbound: the padding makes whole frames, so the buffer is
\* emptied, and it holds no sample.
LEMMA LastFrameIsFilled ==
  ASSUME NEW r \in Nat, NEW pipe \in PipeOf(r),
         NEW new, new = OA!FlushRemainingOutbound(pipe)
  PROVE  /\ new \in PipeOf(r) /\ new.remainder = pipe.remainder /\ new.buffer = <<>>
         /\ \A n \in Nat : PipeHolds(r, pipe, n) => PipeHolds(r, new, n)
<1>1. pipe.buffer \in Voiced(r) /\ pipe.sent \in Voiced(r) /\ Len(pipe.buffer) \in Nat
  BY DEF PipeOf, Voiced
<1>2. PICK x \in Nat : x = Len(pipe.buffer)
  BY <1>1
<1>3. PICK missing \in Nat : missing = (Chunk - (x % Chunk)) % Chunk
  BY OutboundConstants
<1>4. (x + missing) % Chunk = 0
  <2>1. (x + ((Chunk - (x % Chunk)) % Chunk)) % Chunk = 0
    BY OutboundConstants, PaddingFillsUp
  <2>2. QED
    BY <1>3, <2>1
<1> DEFINE padding == [i \in 1..missing |-> <<OA!Silence>>]
           padded == [pipe EXCEPT !.buffer = pipe.buffer \o padding]
<1>5. /\ padding \in Voiced(r) /\ Len(padding) = missing
      /\ \A k \in DOMAIN padding : padding[k] = <<OA!Silence>>
  <2>1. <<OA!Silence>> \in Seq(OwnSample(r))
    BY DEF OwnSample
  <2>2. QED
    BY <2>1 DEF Voiced
<1>6. new = OA!FlushOutboundMulaw(padded)
  BY <1>2, <1>3 DEF OA!FlushRemainingOutbound
<1> HIDE DEF padding
<1>7. pipe.buffer \o padding \in Voiced(r) /\ Len(pipe.buffer \o padding) = x + missing
  <2> DEFINE S == Seq(OwnSample(r))
  <2>1. pipe.buffer \in Seq(S) /\ padding \in Seq(S)
    BY <1>1, <1>5 DEF Voiced
  <2> HIDE DEF S
  <2>2. /\ pipe.buffer \o padding \in Seq(S)
        /\ Len(pipe.buffer \o padding) = Len(pipe.buffer) + Len(padding)
    BY <2>1
  <2>3. QED
    BY <1>2, <1>5, <2>2 DEF Voiced, S
<1>8. /\ padded \in PipeOf(r) /\ padded.remainder = pipe.remainder
      /\ padded.sent = pipe.sent /\ padded.buffer = pipe.buffer \o padding
  BY <1>7 DEF PipeOf
<1> HIDE DEF padded
<1>9. ASSUME NEW n \in Nat, PipeHolds(r, pipe, n) PROVE PipeHolds(r, padded, n)
  <2>1. PICK a \in Nat : /\ n = a + Len(pipe.remainder)
                         /\ InARow(r, pipe.remainder, a)
                         /\ HoldsNext(r, pipe.sent \o pipe.buffer, 0, a)
    BY <1>9 DEF PipeHolds
  <2>2. HoldsNext(r, padding, a, a)
    <3>1. \A k \in DOMAIN padding : \A i \in DOMAIN padding[k] : padding[k][i] = OA!Silence
      BY <1>5
    <3>2. QED
      BY <1>5, <3>1, PaddingHoldsNothing
  <2>3. /\ pipe.sent \o pipe.buffer \in Voiced(r)
        /\ (pipe.sent \o pipe.buffer) \o padding = pipe.sent \o (pipe.buffer \o padding)
    BY <1>1, <1>5, VoicedTogether, ZenonT(60)
  <2>4. HoldsNext(r, (pipe.sent \o pipe.buffer) \o padding, 0, a)
    <3>1. 0 \in Nat /\ 0 <= a /\ a <= a
      OBVIOUS
    <3>2. QED
      BY <1>5, <2>1, <2>2, <2>3, <3>1, HoldsBoth, Zenon
  <2>5. HoldsNext(r, padded.sent \o padded.buffer, 0, a)
    BY <1>8, <2>3, <2>4
  <2>6. QED
    BY <1>8, <2>1, <2>5 DEF PipeHolds
<1>10. Len(padded.buffer) % Chunk = 0
  BY <1>4, <1>7, <1>8
<1>11. QED
  BY <1>6, <1>8, <1>9, <1>10, FramesMoveSamples, ZenonT(60)

\* The two flushes leave nothing to send.
LEMMA FlushSendsAll ==
  ASSUME NEW r \in Nat, NEW pipe \in PipeOf(r), Len(pipe.remainder) < Ratio,
         NEW new, new = OA!FlushAll(pipe)
  PROVE  /\ new \in PipeOf(r) /\ new.remainder = <<>> /\ new.buffer = <<>>
         /\ \A n \in Nat : PipeHolds(r, pipe, n) => PipeHolds(r, new, n)
<1>1. PICK mid : mid = OA!FlushOutboundPcmRemainder(pipe)
  OBVIOUS
<1>2. /\ mid \in PipeOf(r) /\ mid.remainder = <<>>
      /\ \A n \in Nat : PipeHolds(r, pipe, n) => PipeHolds(r, mid, n)
  BY <1>1, RemainderIsHeard
<1>3. new = OA!FlushRemainingOutbound(mid)
  BY <1>1 DEF OA!FlushAll
<1>4. QED
  BY <1>2, <1>3, LastFrameIsFilled

\* A function on 1..n is a sequence.
LEMMA FunctionIsSeq ==
  ASSUME NEW S, NEW n \in Nat, NEW f \in [1..n -> S]
  PROVE  f \in Seq(S) /\ Len(f) = n
OBVIOUS

\* The samples of a delta, and each as a telephony sample of its own.
DeltaOf(r, at, n) == [i \in 1..n |-> <<r, at + i>>]
SinglesOf(s, n) == [i \in 1..n |-> <<s[i]>>]
Longer(pipe, q) == [pipe EXCEPT !.buffer = pipe.buffer \o q]

\* The samples of a delta are numbered on.
LEMMA DeltaIsNumbered ==
  ASSUME NEW r \in Nat, NEW at \in Nat, NEW n \in Nat \ {0}
  PROVE  /\ DeltaOf(r, at, n) \in Seq(OwnSample(r)) /\ Len(DeltaOf(r, at, n)) = n
         /\ \A i \in 1..n : DeltaOf(r, at, n)[i] = <<r, at + i>>
         /\ InARow(r, DeltaOf(r, at, n), at)
<1> DEFINE s == DeltaOf(r, at, n)
<1>1. \A i \in 1..n : <<r, at + i>> \in OwnSample(r)
  BY DEF OwnSample
<1>2. s \in [1..n -> OwnSample(r)] /\ n \in Nat /\ DOMAIN s = 1..n
  BY <1>1 DEF DeltaOf
<1>3. \A i \in 1..n : s[i] = <<r, at + i>>
  BY DEF DeltaOf
<1> HIDE DEF s
<1>4. s \in Seq(OwnSample(r)) /\ Len(s) = n
  BY <1>2, FunctionIsSeq, Zenon
<1>5. InARow(r, s, at)
  BY <1>2, <1>3 DEF InARow
<1>6. QED
  BY <1>3, <1>4, <1>5 DEF s

\* handleAudioDelta of g711_ulaw: each sample is a telephony sample of its own.
LEMMA DeltaOneByOne ==
  ASSUME NEW r \in Nat, NEW pipe \in PipeOf(r), pipe.remainder = <<>>,
         NEW at \in Nat, NEW n \in Nat \ {0}, NEW s, s = DeltaOf(r, at, n),
         NEW new, new = Longer(pipe, SinglesOf(s, n))
  PROVE  /\ new \in PipeOf(r) /\ new.remainder = <<>>
         /\ PipeHolds(r, pipe, at) => PipeHolds(r, new, at + n)
<1>1. /\ s \in Seq(OwnSample(r)) /\ Len(s) = n
      /\ \A i \in 1..n : s[i] = <<r, at + i>>
  BY DeltaIsNumbered
<1> DEFINE singles == SinglesOf(s, n)
<1>2. /\ singles \in Voiced(r) /\ Len(singles) = n
      /\ \A k \in 1..n : singles[k] = <<s[k]>>
  <2>1. ASSUME NEW k \in 1..n PROVE s[k] \in OwnSample(r)
    <3>1. k \in 1..Len(s)
      BY <1>1
    <3>2. QED
      BY <1>1, <3>1, ElementOfSeq, Zenon
  <2>2. \A k \in 1..n : <<s[k]>> \in Seq(OwnSample(r))
    BY <2>1
  <2>3. /\ singles \in [1..n -> Seq(OwnSample(r))] /\ DOMAIN singles = 1..n /\ n \in Nat
        /\ \A k \in 1..n : singles[k] = <<s[k]>>
    BY <2>2 DEF SinglesOf
  <2> HIDE DEF singles
  <2>4. QED
    BY <2>3, FunctionIsSeq, Zenon DEF Voiced
<1>3. new = [pipe EXCEPT !.buffer = pipe.buffer \o singles]
  BY DEF Longer
<1> HIDE DEF singles
<1>4. /\ pipe.remainder \in Seq(OwnSample(r)) /\ pipe.buffer \in Voiced(r)
      /\ pipe.sent \in Voiced(r)
  BY DEF PipeOf
<1>5. pipe.buffer \o singles \in Voiced(r)
  BY <1>2, <1>4 DEF Voiced
<1>6. /\ new \in PipeOf(r) /\ new.remainder = pipe.remainder /\ new.sent = pipe.sent
      /\ new.buffer = pipe.buffer \o singles
  BY <1>3, <1>5 DEF PipeOf
<1>7. ASSUME PipeHolds(r, pipe, at) PROVE PipeHolds(r, new, at + n)
  <2>1. HoldsNext(r, pipe.sent \o pipe.buffer, 0, at)
    BY <1>7 DEF PipeHolds
  <2>2. HoldsNext(r, singles, at, at + n)
    <3>1. \A k \in 1..n : /\ Len(singles[k]) = 1
                          /\ \A i \in 1..1 : singles[k][i] = <<r, at + (k - 1) * 1 + i>>
      <4>1. ASSUME NEW k \in 1..n
            PROVE  singles[k][1] = <<r, at + (k - 1) * 1 + 1>>
        <5>1. at + (k - 1) * 1 + 1 = at + k
          OBVIOUS
        <5>2. QED
          BY <1>1, <1>2, <5>1
      <4>2. \A k \in 1..n : Len(<<s[k]>>) = 1 /\ singles[k] = <<s[k]>>
        BY <1>2
      <4>3. \A i \in 1..1 : i = 1
        OBVIOUS
      <4>4. QED
        BY <4>1, <4>2, <4>3
    <3>2. HoldsNext(r, singles, at, at + n * 1)
      <4>1. 1 \in Nat \ {0} /\ n \in Nat
        OBVIOUS
      <4>2. QED
        BY <1>2, <3>1, <4>1, GroupsHold, Zenon
    <3>3. n * 1 = n
      OBVIOUS
    <3>4. QED
      BY <3>2, <3>3
  <2>3. /\ pipe.sent \o pipe.buffer \in Voiced(r)
        /\ (pipe.sent \o pipe.buffer) \o singles = pipe.sent \o (pipe.buffer \o singles)
    BY <1>2, <1>4, VoicedTogether, ZenonT(60)
  <2>4. HoldsNext(r, (pipe.sent \o pipe.buffer) \o singles, 0, at + n)
    <3>1. 0 \in Nat /\ 0 <= at /\ at <= at + n /\ at + n \in Nat
      OBVIOUS
    <3>2. QED
      BY <1>2, <2>1, <2>2, <2>3, <3>1, HoldsBoth, Zenon
  <2>5. HoldsNext(r, new.sent \o new.buffer, 0, at + n)
    BY <1>6, <2>3, <2>4
  <2>6. /\ InARow(r, new.remainder, at + n) /\ Len(new.remainder) = 0
        /\ at + n \in Nat /\ at + n = at + n + 0
    BY <1>6 DEF InARow
  <2>7. QED
    BY <2>5, <2>6 DEF PipeHolds
<1>8. QED
  BY <1>6, <1>7

\* The pipe holds all that the response has brought unless something cut it
\* short; between responses it is empty.
OutboundTypes ==
  /\ pcm \in BOOLEAN /\ response \in Nat /\ generated \in Nat /\ intact \in BOOLEAN
  /\ phase \in {"none", "speaking", "audio_done", "done"}
  /\ OA!Pipe \in PipeOf(response) /\ Len(remainder) < Ratio
OutboundInv ==
  /\ OutboundTypes
  /\ phase \in {"none", "done"} => remainder = <<>> /\ buffer = <<>>
  /\ ~pcm => remainder = <<>>
  /\ intact => PipeHolds(response, OA!Pipe, generated)

\* An empty pipe.
LEMMA EmptyPipe ==
  ASSUME NEW r \in Nat, NEW pipe,
         pipe = [remainder |-> <<>>, buffer |-> <<>>, sent |-> <<>>]
  PROVE  /\ pipe \in PipeOf(r) /\ pipe.remainder = <<>> /\ pipe.buffer = <<>>
         /\ Len(pipe.remainder) < Ratio /\ PipeHolds(r, pipe, 0)
<1>1. pipe \in PipeOf(r)
  BY DEF PipeOf, Voiced
<1>2. pipe.remainder = <<>> /\ pipe.buffer = <<>> /\ Len(pipe.remainder) = 0
  OBVIOUS
<1>3. pipe.sent \o pipe.buffer = <<>>
  OBVIOUS
<1>4. HoldsNext(r, <<>>, 0, 0) /\ InARow(r, <<>>, 0)
  BY DEF HoldsNext, InARow
<1>5. PipeHolds(r, pipe, 0)
  BY <1>2, <1>3, <1>4 DEF PipeHolds
<1>6. QED
  BY <1>1, <1>2, <1>5, OutboundConstants

\* A step that turns the pipe into new.
LEMMA PipeStep ==
  ASSUME NEW new, OA!Becomes(new), response' \in Nat, new \in PipeOf(response'),
         Len(new.remainder) < Ratio,
         pcm' \in BOOLEAN, generated' \in Nat, intact' \in BOOLEAN,
         phase' \in {"none", "speaking", "audio_done", "done"},
         phase' \in {"none", "done"} => new.remainder = <<>> /\ new.buffer = <<>>,
         ~pcm' => new.remainder = <<>>,
         intact' => PipeHolds(response', new, generated')
  PROVE  OutboundInv'
<1>1. remainder' = new.remainder /\ buffer' = new.buffer /\ sent' = new.sent
  BY DEF OA!Becomes
<1>2. OA!Pipe' = new
  BY <1>1 DEF OA!Pipe, PipeOf
<1>3. OutboundTypes'
  BY <1>1, <1>2 DEF OutboundTypes
<1>4. intact' => PipeHolds(response, OA!Pipe, generated)'
  BY <1>2
<1>5. QED
  BY <1>1, <1>3, <1>4 DEF OutboundInv

\* Every step keeps the pipe.
LEMMA OutboundStep == OutboundInv /\ [MCNext]_allVars => OutboundInv'
<1> SUFFICES ASSUME OutboundInv, [MCNext]_allVars PROVE OutboundInv'
  OBVIOUS
<1> DEFINE r == response
<1>1. CASE UNCHANGED outboundVars
  <2>1. UNCHANGED <<pcm, response, generated, phase, remainder, buffer, sent, intact>>
    BY <1>1 DEF outboundVars
  <2>2. OA!Pipe' = OA!Pipe
    BY <2>1 DEF OA!Pipe
  <2>3. OutboundTypes'
    BY <2>1, <2>2 DEF OutboundInv, OutboundTypes
  <2>4. intact' => PipeHolds(response, OA!Pipe, generated)'
    BY <2>1, <2>2 DEF OutboundInv
  <2>5. QED
    BY <2>1, <2>3, <2>4 DEF OutboundInv
<1>2. CASE part = "outbound" /\ OA!Next
  <2>1. /\ r \in Nat /\ OA!Pipe \in PipeOf(r) /\ Len(OA!Pipe.remainder) < Ratio
        /\ OA!Pipe.remainder = remainder /\ OA!Pipe.buffer = buffer /\ OA!Pipe.sent = sent
        /\ generated \in Nat /\ pcm \in BOOLEAN /\ intact \in BOOLEAN
        /\ phase \in {"none", "speaking", "audio_done", "done"}
    BY DEF OutboundInv, OutboundTypes, OA!Pipe
  <2>2. /\ phase \in {"none", "done"} => remainder = <<>> /\ buffer = <<>>
        /\ ~pcm => remainder = <<>>
        /\ intact => PipeHolds(r, OA!Pipe, generated)
    BY DEF OutboundInv
  <2>3. \A b \in BOOLEAN : b \/ ~b
    OBVIOUS
  <2> HIDE DEF r
  <2>4. ASSUME NEW authorized \in BOOLEAN, OA!ResponseCreated(authorized)
        PROVE  OutboundInv'
    <3>1. PICK new : new = [remainder |-> <<>>, buffer |-> <<>>, sent |-> <<>>]
      OBVIOUS
    <3>2. /\ response' = response + 1 /\ generated' = 0 /\ phase' = "speaking"
          /\ intact' = TRUE /\ pcm' = pcm /\ phase \in {"none", "done"}
      BY <2>4 DEF OA!ResponseCreated
    <3>3. [(IF authorized THEN OA!Empty(OA!Pipe) ELSE OA!Pipe) EXCEPT !.sent = <<>>] = new
      <4>1. remainder = <<>> /\ buffer = <<>>
        BY <2>2, <3>2
      <4>2. OA!Empty(OA!Pipe) = OA!Pipe
        <5>1. OA!Pipe.remainder = <<>> /\ OA!Pipe.buffer = <<>>
          BY <2>1, <4>1
        <5>2. OA!Empty(OA!Pipe) = OA!Pipe
          BY <2>1, <5>1 DEF OA!Empty, PipeOf
        <5>3. QED
          BY <5>2
      <4>3. [OA!Pipe EXCEPT !.sent = <<>>] = new
        BY <3>1, <4>1 DEF OA!Pipe
      <4>4. (IF authorized THEN OA!Empty(OA!Pipe) ELSE OA!Pipe) = OA!Pipe
        BY <4>2
      <4>5. QED
        BY <4>3, <4>4
    <3>4. OA!Becomes(new)
      BY <2>4, <3>3 DEF OA!ResponseCreated
    <3>5. response' \in Nat
      BY <2>1, <3>2 DEF r
    <3>6. QED
      BY <2>1, <3>1, <3>2, <3>4, <3>5, EmptyPipe, PipeStep
  <2>5. ASSUME NEW n \in 1..MaxSamples, OA!OutputAudioDelta(n)
        PROVE  OutboundInv'
    <3>1. PICK s : s = DeltaOf(r, generated, n)
      OBVIOUS
    <3>2. PICK mid : mid = IF pcm THEN OA!Push(OA!Pipe, s)
                           ELSE Longer(OA!Pipe, SinglesOf(s, n))
      OBVIOUS
    <3>3. PICK new : new = OA!FlushOutboundMulaw(mid)
      OBVIOUS
    <3>4. /\ response' = response /\ generated' = generated + n /\ phase' = phase
          /\ phase = "speaking" /\ intact' = intact /\ pcm' = pcm
      BY <2>5 DEF OA!OutputAudioDelta
    <3>5. OA!Becomes(new)
      BY <2>1, <2>5, <3>1, <3>2, <3>3
         DEF OA!OutputAudioDelta, r, DeltaOf, SinglesOf, Longer
    <3>6. n \in Nat \ {0}
      BY OutboundConstants
    <3>7. /\ mid \in PipeOf(r) /\ Len(mid.remainder) < Ratio
          /\ ~pcm => mid.remainder = <<>>
          /\ PipeHolds(r, OA!Pipe, generated) => PipeHolds(r, mid, generated + n)
      <4>1. CASE pcm
        <5>1. mid = OA!Push(OA!Pipe, s)
          BY <3>2, <4>1
        <5>2. s \in Seq(OwnSample(r)) /\ Len(s) = n /\ InARow(r, s, generated)
          BY <2>1, <3>1, <3>6, DeltaIsNumbered, Zenon
        <5>3. /\ mid \in PipeOf(r) /\ Len(mid.remainder) < Ratio
              /\ \A m \in Nat : (PipeHolds(r, OA!Pipe, m) /\ InARow(r, s, m))
                                  => PipeHolds(r, mid, m + Len(s))
          BY <2>1, <5>1, <5>2, PushKeeps, Zenon
        <5>4. QED
          BY <2>1, <4>1, <5>2, <5>3
      <4>2. CASE ~pcm
        <5>1. mid = Longer(OA!Pipe, SinglesOf(s, n))
          BY <3>2, <4>2
        <5>2. OA!Pipe.remainder = <<>>
          BY <2>1, <2>2, <4>2
        <5>3. /\ mid \in PipeOf(r) /\ mid.remainder = <<>>
              /\ PipeHolds(r, OA!Pipe, generated) => PipeHolds(r, mid, generated + n)
          BY <2>1, <3>1, <3>6, <5>1, <5>2, DeltaOneByOne, SMTT(60)
        <5>4. QED
          BY <5>3, OutboundConstants
      <4>3. QED
        BY <4>1, <4>2
    <3>8. /\ new \in PipeOf(r) /\ new.remainder = mid.remainder
          /\ \A m \in Nat : PipeHolds(r, mid, m) => PipeHolds(r, new, m)
      BY <2>1, <3>3, <3>7, FramesMoveSamples
    <3>9. generated + n \in Nat
      BY <2>1, <3>6
    <3>10. QED
      BY <2>1, <2>2, <3>4, <3>5, <3>7, <3>8, <3>9, PipeStep DEF r
  <2>6. ASSUME OA!Becomes(OA!FlushAll(OA!Pipe)), response' = response, pcm' = pcm,
               generated' = generated, intact' = intact,
               phase' \in {"none", "speaking", "audio_done", "done"}
        PROVE  OutboundInv'
    <3>1. PICK new : new = OA!FlushAll(OA!Pipe)
      OBVIOUS
    <3>2. /\ new \in PipeOf(r) /\ new.remainder = <<>> /\ new.buffer = <<>>
          /\ \A m \in Nat : PipeHolds(r, OA!Pipe, m) => PipeHolds(r, new, m)
      BY <2>1, <3>1, FlushSendsAll
    <3>3. Len(new.remainder) < Ratio
      BY <3>2, OutboundConstants
    <3>4. QED
      BY <2>1, <2>2, <2>6, <3>1, <3>2, <3>3, PipeStep DEF r
  <2>7. ASSUME OA!OutputAudioDone PROVE OutboundInv'
    BY <2>6, <2>7 DEF OA!OutputAudioDone
  <2>8. ASSUME OA!ResponseDone PROVE OutboundInv'
    BY <2>6, <2>8 DEF OA!ResponseDone
  <2>9. ASSUME OA!CallEndMaxWaitFires PROVE OutboundInv'
    BY <2>1, <2>6, <2>9 DEF OA!CallEndMaxWaitFires
  <2>10. ASSUME OA!ResetResponseGuards, phase' \in {phase, "done"} PROVE OutboundInv'
    <3>1. PICK new : new = OA!Empty(OA!Pipe)
      OBVIOUS
    <3>2. /\ new \in PipeOf(r) /\ new.remainder = <<>> /\ new.buffer = <<>>
      <4>1. /\ new.remainder = <<>> /\ new.buffer = <<>>
            /\ <<>> \in Seq(OwnSample(r)) /\ <<>> \in Voiced(r)
        BY <2>1, <3>1 DEF OA!Empty, OA!Pipe, Voiced
      <4>2. QED
        BY <2>1, <3>1, <4>1 DEF OA!Empty, PipeOf
    <3>3. Len(new.remainder) < Ratio
      BY <3>2, OutboundConstants
    <3>4. /\ response' = response /\ generated' = generated /\ pcm' = pcm
          /\ intact' = FALSE /\ OA!Becomes(new)
          /\ phase' \in {"none", "speaking", "audio_done", "done"}
      BY <2>1, <2>10, <3>1 DEF OA!ResetResponseGuards
    <3>5. QED
      BY <2>1, <3>2, <3>3, <3>4, PipeStep DEF r
  <2>11. ASSUME OA!ErrorEvent \/ OA!ResponseCancelled PROVE OutboundInv'
    BY <2>10, <2>11 DEF OA!ErrorEvent, OA!ResponseCancelled
  <2>12. ASSUME OA!Interrupt PROVE OutboundInv'
    <3>1. PICK new : new = [OA!Pipe EXCEPT !.buffer = <<>>]
      OBVIOUS
    <3>2. /\ new \in PipeOf(r) /\ new.remainder = remainder /\ new.buffer = <<>>
          /\ new.sent = sent
      <4>1. /\ new.remainder = remainder /\ new.buffer = <<>> /\ new.sent = sent
            /\ <<>> \in Voiced(r)
        BY <2>1, <3>1 DEF OA!Pipe, Voiced
      <4>2. QED
        BY <2>1, <3>1, <4>1 DEF PipeOf
    <3>3. /\ response' = response /\ generated' = generated /\ pcm' = pcm
          /\ intact' = FALSE /\ phase' = phase /\ OA!Becomes(new)
      BY <2>12, <3>2 DEF OA!Interrupt, OA!Becomes
    <3>4. QED
      BY <2>1, <2>2, <3>2, <3>3, PipeStep DEF r
  <2>13. ASSUME OA!EndSession PROVE OutboundInv'
    <3>1. PICK new : new = OA!FlushRemainingOutbound(OA!Pipe)
      OBVIOUS
    <3>2. /\ new \in PipeOf(r) /\ new.remainder = remainder /\ new.buffer = <<>>
          /\ \A m \in Nat : PipeHolds(r, OA!Pipe, m) => PipeHolds(r, new, m)
      BY <2>1, <3>1, LastFrameIsFilled
    <3>3. /\ response' = response /\ generated' = generated /\ pcm' = pcm
          /\ intact' = (intact /\ phase \in {"none", "done"}) /\ phase' = phase
          /\ OA!Becomes(new)
      BY <2>13, <3>1 DEF OA!EndSession
    <3>4. intact' \in BOOLEAN /\ (intact' => intact)
      BY <3>3
    <3>5. QED
      BY <2>1, <2>2, <3>2, <3>3, <3>4, PipeStep DEF r
  <2>14. QED
    BY <1>2, <2>4, <2>5, <2>7, <2>8, <2>9, <2>11, <2>12, <2>13 DEF OA!Next
<1>3. QED
  BY <1>1, <1>2 DEF MCNext, allVars, outboundVars

\* A response that nothing cut short is heard whole.
LEMMA HeardWhole == OutboundInv => OA!OutboundWhole
<1> SUFFICES ASSUME OutboundInv PROVE OA!OutboundWhole
  OBVIOUS
<1>1. /\ response \in Nat /\ remainder \in Seq(OwnSample(response))
      /\ buffer \in Voiced(response) /\ sent \in Voiced(response)
      /\ OA!Pipe = [remainder |-> remainder, buffer |-> buffer, sent |-> sent]
      /\ generated \in Nat
  BY DEF OutboundInv, OutboundTypes, PipeOf, OA!Pipe
<1>2. \A k \in DOMAIN sent : \A i \in DOMAIN sent[k] :
        sent[k][i] = OA!Silence \/ sent[k][i][1] = response
  <2>1. ASSUME NEW k \in DOMAIN sent, NEW i \in DOMAIN sent[k]
        PROVE  sent[k][i] = OA!Silence \/ sent[k][i][1] = response
    <3>1. sent[k][i] \in OwnSample(response)
      BY <1>1, VoicedSample
    <3>2. QED
      BY <3>1 DEF OwnSample
  <2>2. QED
    BY <2>1
<1>3. ASSUME NEW q, NEW n \in Nat, HoldsNext(response, q, 0, n)
      PROVE  OA!HoldsAll(q, n)
  <2>1. (0 + 1)..n = 1..n
    OBVIOUS
  <2>2. QED
    BY <1>3, <2>1 DEF HoldsNext, OA!HoldsAll
<1>4. ASSUME intact
      PROVE  /\ OA!HoldsAll(sent \o buffer \o <<remainder>>, generated)
             /\ phase = "done" => OA!HoldsAll(sent, generated)
  <2>1. PICK a \in Nat : /\ generated = a + Len(remainder)
                         /\ InARow(response, remainder, a)
                         /\ HoldsNext(response, sent \o buffer, 0, a)
    BY <1>1, <1>4 DEF OutboundInv, PipeHolds
  <2>2. Len(remainder) \in Nat /\ DOMAIN remainder = 1..Len(remainder)
    BY <1>1
  <2>3. HoldsNext(response, <<remainder>>, a, generated)
    <3>1. /\ Len(remainder) <= Len(remainder)
          /\ \A i \in 1..Len(remainder) : remainder[i] = <<response, a + i>>
          /\ (Len(remainder) + 1)..Len(remainder) = {}
      BY <2>1, <2>2 DEF InARow
    <3>2. HoldsNext(response, <<remainder>>, a, a + Len(remainder))
      BY <1>1, <2>2, <3>1, GroupHolds
    <3>3. QED
      BY <2>1, <3>2
  <2>4. sent \o buffer \in Voiced(response) /\ <<remainder>> \in Voiced(response)
    BY <1>1 DEF Voiced
  <2>5. 0 \in Nat /\ 0 <= a /\ a <= generated
    BY <2>1, <2>2
  <2>6. HoldsNext(response, sent \o buffer \o <<remainder>>, 0, generated)
    BY <1>1, <2>1, <2>3, <2>4, <2>5, HoldsBoth, Zenon
  <2>7. ASSUME phase = "done" PROVE OA!HoldsAll(sent, generated)
    <3>1. remainder = <<>> /\ buffer = <<>>
      BY <2>7 DEF OutboundInv
    <3>2. sent \o buffer = sent /\ generated = a
      <4>1. sent \o <<>> = sent
        BY <1>1 DEF Voiced
      <4>2. QED
        BY <2>1, <3>1, <4>1
    <3>3. QED
      BY <1>1, <1>3, <2>1, <3>2
  <2>8. QED
    BY <1>1, <1>3, <2>6, <2>7
<1>5. QED
  BY <1>2, <1>4 DEF OA!OutboundWhole

\* No audio is lost: the recording keeps both directions (SamplesAreKept), and an
\* answer that nobody cuts short is sent to the caller to its last sample, in order
\* and once, whatever the lengths of OpenAI's deltas, the frames' size and the
\* downsampler's ratio.
THEOREM AudioIsKept == MCSpec => []AudioKept
<1>1. MCInit => OutboundInv
  <2> SUFFICES ASSUME MCInit PROVE OutboundInv
    OBVIOUS
  <2>1. /\ pcm \in BOOLEAN /\ response = 0 /\ generated = 0 /\ phase = "none"
        /\ intact = TRUE /\ remainder = <<>> /\ buffer = <<>> /\ sent = <<>>
    BY DEF MCInit, OA!Init
  <2>2. OA!Pipe = [remainder |-> <<>>, buffer |-> <<>>, sent |-> <<>>]
    BY <2>1 DEF OA!Pipe
  <2>3. /\ OA!Pipe \in PipeOf(response) /\ PipeHolds(response, OA!Pipe, generated)
        /\ Len(remainder) < Ratio
    BY <2>1, <2>2, EmptyPipe
  <2>4. QED
    BY <2>1, <2>3 DEF OutboundInv, OutboundTypes
<1>2. MCSpec => []OA!OutboundWhole
  BY <1>1, OutboundStep, HeardWhole, PTL DEF MCSpec
<1>3. QED
  BY <1>2, SamplesAreKept, PTL DEF AudioKept

=============================================================================
