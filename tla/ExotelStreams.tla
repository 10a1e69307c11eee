---------------------------- MODULE ExotelStreams ----------------------------
(***************************************************************************)
(* Exotel streams under the two registers that name them: the maps of      *)
(* VoiceSessionService and those of VoiceSocketRegistry.  A socket has a   *)
(* fallback stream id from its URL until the start event names another,    *)
(* and a call that reconnects comes back under the same fallback id.       *)
(*                                                                         *)
(* AudioGateway, ExotelStreamAdapter and VoiceStreamRuntimeBridge are the  *)
(* handlers; a step is the code between two awaits that really suspend.    *)
(***************************************************************************)
EXTENDS Naturals, Sequences, FiniteSets

CONSTANTS
  None,
  Socket,      \* WebSockets
  Call,        \* provider call SIDs
  CallOf,      \* the callSid in a socket's URL, or None
  ByFrame,     \* sockets whose URL does not name the provider
  MaxRecent    \* MAX_RECENT_ENDED_SESSIONS

ExotelStreamsAssumption ==
  /\ CallOf \in [Socket -> Call \cup {None}]
  /\ ByFrame \subseteq Socket
  /\ MaxRecent \in Nat \ {0}
  /\ None \notin Socket \cup Call

\* Stream ids: Exotel's own, a call SID in its place, or the fallback.
Own(w) == <<"own", w>>
Id == ({"own", "fallback"} \X Socket) \cup ({"call", "fallback"} \X Call)

IdAssumption == None \notin Id

FinalizerKind == {"stop", "disconnect"}

VARIABLES
  sock,      \* the sockets: "none", "open" or "closed"
  routed,    \* sockets whose frames go to the Exotel adapter
  ses,       \* VoiceSessionService
  reg,       \* VoiceSocketRegistry
  auth,      \* authorizeStart of every socket: where it is, and its stream id
  runtime,   \* ids with a session in the realtime runtime
  rec,       \* VoiceRecordingService, of every id
  fin        \* the finalizers

vars == <<sock, routed, ses, reg, auth, runtime, rec, fin>>

NoSession == [sid |-> None, status |-> "none", app |-> "unset", exotel |-> FALSE]

Init ==
  /\ sock = [w \in Socket |-> "none"]
  /\ routed = {}
  /\ ses = [of |-> [w \in Socket |-> NoSession], bySocket |-> {},
            byStream |-> [i \in Id |-> None], toStream |-> [w \in Socket |-> None],
            recent |-> <<>>, recentBy |-> [i \in Id |-> None], pending |-> {}]
  /\ reg = [sockets |-> {}, byStream |-> [i \in Id |-> None],
            toStream |-> [w \in Socket |-> None], exotel |-> {}]
  /\ auth = [w \in Socket |-> [pc |-> "idle", id |-> None]]
  /\ runtime = {}
  /\ rec = [i \in Id |-> "none"]
  /\ fin = [f \in Socket \X FinalizerKind |->
              [pc |-> "idle", id |-> None]]

-----------------------------------------------------------------------------
(* VoiceSocketRegistry.                                                    *)

BindStream(w, i, r) ==
  IF w \in r.sockets
  THEN [r EXCEPT !.byStream[i] = w, !.toStream[w] = i, !.exotel = @ \cup {i}]
  ELSE r

\* Mutant: the entry of the previous id stays.
RebindOnly(w, old, i, r) == BindStream(w, i, r)

RebindStreamSid(w, old, i, r) ==
  IF w \in r.sockets
  THEN BindStream(w, i, [r EXCEPT !.byStream[old] = None, !.exotel = @ \ {old}])
  ELSE r

RemoveBySocketSessionId(w, r) ==
  LET i == r.toStream[w]
      gone == [r EXCEPT !.sockets = @ \ {w}]
  IN  IF i = None THEN gone
      ELSE [gone EXCEPT !.byStream[i] = None, !.toStream[w] = None,
                        !.exotel = @ \ {i}]

\* The sockets removeByStreamSid may forget: the first whose id it is.
Mapped(i, r) == {w \in Socket : r.toStream[w] = i}

RemoveByStreamSid(i, w, r) ==
  LET gone == [r EXCEPT !.byStream[i] = None, !.exotel = @ \ {i}]
  IN  IF w = None THEN gone
      ELSE [gone EXCEPT !.toStream[w] = None, !.sockets = @ \ {w}]

-----------------------------------------------------------------------------
(* VoiceSessionService.                                                    *)

CreateSocketSession(w, s) ==
  [s EXCEPT !.bySocket = @ \cup {w}, !.of[w].status = "PENDING"]

Fallback(w) ==
  IF CallOf[w] # None THEN <<"fallback", CallOf[w]>> ELSE <<"fallback", w>>

InitializeExotelSessionOnConnect(w, s) ==
  [s EXCEPT !.of[w].sid = Fallback(w), !.of[w].exotel = TRUE,
            !.byStream[Fallback(w)] = w, !.toStream[w] = Fallback(w)]

BindStreamSid(w, i, s) ==
  LET old == s.of[w].sid
      moved == IF old \notin {None, i}
               THEN [s EXCEPT !.byStream[old] = None, !.pending = @ \ {old}]
               ELSE s
  IN  IF w \in s.bySocket
      THEN [moved EXCEPT !.of[w].sid = i, !.of[w].status = "ACTIVE",
                         !.byStream[i] = w, !.toStream[w] = i]
      ELSE s

\* getByStreamSid: the socket whose session it is, ended recently perhaps.
ByStreamSid(i, s) ==
  IF s.byStream[i] # None THEN s.byStream[i] ELSE s.recentBy[i]

IsAppInitiatedStream(i, s) ==
  LET w == ByStreamSid(i, s)
  IN  IF w # None /\ s.of[w].app # "unset" THEN s.of[w].app = "yes"
      ELSE i \in s.pending

MarkAppInitiated(i, app, s) ==
  LET w == s.byStream[i]
  IN  IF w = None THEN s ELSE [s EXCEPT !.of[w].app = app]

\* The oldest ended session goes, and with it whatever its id now names.
TrimRecent(s) ==
  IF Len(s.recent) <= MaxRecent THEN s
  ELSE [s EXCEPT !.recent = Tail(@),
                 !.recentBy[s.of[Head(s.recent)].sid] = None]

\* Mutant: the socket stays in the map until its stop event.
EndKeepsSocket(w, s) ==
  LET i == s.of[w].sid
  IN  TrimRecent([s EXCEPT !.of[w].status = "ENDED",
                           !.byStream[i] = None, !.toStream[w] = None,
                           !.recent = Append(@, w), !.recentBy[i] = w])

\* endSession: an Exotel session always has an id and is always kept.
EndSession(w, s) ==
  LET i == s.of[w].sid
  IN  TrimRecent([s EXCEPT !.of[w].status = "ENDED", !.bySocket = @ \ {w},
                           !.byStream[i] = None, !.toStream[w] = None,
                           !.recent = Append(@, w), !.recentBy[i] = w])

\* discardSession: a socket that was never routed to Exotel and never started.
DiscardSession(w, s) ==
  [s EXCEPT !.of[w].status = "ENDED", !.bySocket = @ \ {w}]

EndByStreamSid(i, s) ==
  LET w == s.byStream[i]
  IN  IF w = None THEN s ELSE EndSession(w, s)

EndBySocketSessionId(w, s) ==
  IF w \notin s.bySocket THEN s
  ELSE IF s.of[w].exotel THEN EndSession(w, s) ELSE DiscardSession(w, s)

-----------------------------------------------------------------------------
(* AudioGateway.handleConnection and the events of the stream.             *)

\* activateExotelRouting
Activated(w, s) == InitializeExotelSessionOnConnect(w, s)

Connect(w) ==
  /\ sock[w] = "none"
  /\ sock' = [sock EXCEPT ![w] = "open"]
  /\ LET s == CreateSocketSession(w, ses)
         r == [reg EXCEPT !.sockets = @ \cup {w}]
     IN  IF w \in ByFrame
           THEN routed' = routed /\ ses' = s /\ reg' = r
           ELSE /\ routed' = routed \cup {w}
                /\ ses' = Activated(w, s)
                /\ reg' = BindStream(w, Fallback(w), r)
  /\ UNCHANGED <<auth, runtime, rec, fin>>

\* The id of a start event: its stream_sid, or the call SID in its place, or
\* nothing, which leaves the socket's own.  A socket that was not routed by its
\* URL is routed by a start event with a stream_sid.
StartId(w) ==
  IF w \notin routed THEN {Own(w)}
  ELSE {Own(w), ses.toStream[w]} \cup
       (IF CallOf[w] # None THEN {<<"call", CallOf[w]>>} ELSE {})

\* VoiceRecordingService.start: nothing for an id that has a recording.
StartRecording(i) ==
  rec' = [rec EXCEPT ![i] = IF @ = "none" THEN "empty" ELSE @]

HandleStart(w) ==
  /\ sock[w] = "open" /\ ses.of[w].status = "PENDING" /\ auth[w].pc = "idle"
  /\ \E i \in StartId(w) :
       LET s == IF w \in routed THEN ses ELSE Activated(w, ses)
           r == IF w \in routed THEN reg ELSE BindStream(w, Fallback(w), reg)
           old == s.of[w].sid
           bound == BindStreamSid(w, i, s)
       IN  /\ i # None
           /\ routed' = routed \cup {w}
           /\ ses' = [bound EXCEPT !.pending = @ \cup {i}]
           /\ reg' = [IF old # i THEN RebindStreamSid(w, old, i, r)
                                 ELSE BindStream(w, i, r)
                      EXCEPT !.exotel = @ \cup {i}]
           /\ StartRecording(i)
           /\ auth' = [auth EXCEPT ![w] = [pc |-> "waiting", id |-> i]]
  /\ UNCHANGED <<sock, runtime, fin>>

\* authorizeAndStartRuntime goes on when authorizeStart has answered.
AuthorizeAndStartRuntime(w) ==
  /\ auth[w].pc = "waiting"
  /\ \E app \in {"yes", "no"} :
       /\ ses' = MarkAppInitiated(auth[w].id, app,
                                  [ses EXCEPT !.pending = @ \ {auth[w].id}])
       /\ runtime' = IF app = "yes" THEN runtime \cup {auth[w].id} ELSE runtime
  /\ auth' = [auth EXCEPT ![w] = [pc |-> "done", id |-> None]]
  /\ UNCHANGED <<sock, routed, reg, rec, fin>>

Appended(i) == [rec EXCEPT ![i] = IF @ = "empty" THEN "audio" ELSE @]

\* handleMedia and handleInboundPcm16.  The normaliser empties the audio of a
\* frame without a stream_sid, so that only Exotel's own id gets any.
HandleMedia(w) ==
  /\ sock[w] = "open" /\ w \in routed
  /\ IsAppInitiatedStream(Own(w), ses)
  /\ rec' = Appended(Own(w))
  /\ UNCHANGED <<sock, routed, ses, reg, auth, runtime, fin>>

\* sendMedia: audio of the runtime goes to the socket of its id.
SendMedia(i) ==
  /\ i \in runtime
  /\ reg.byStream[i] # None /\ sock[reg.byStream[i]] = "open"
  /\ rec' = Appended(i)
  /\ UNCHANGED <<sock, routed, ses, reg, auth, runtime, fin>>

-----------------------------------------------------------------------------
(* Finalizers: finalizeOnStop and finalizeAndDisconnect.                   *)

\* handleStop, for a stream that started: the id of the event or, without one,
\* that of the socket.
HandleStop(w) ==
  /\ sock[w] = "open" /\ auth[w].pc # "idle" /\ fin[<<w, "stop">>].pc = "idle"
  /\ \E i \in {ses.of[w].sid, ses.toStream[w]} \ {None} :
       fin' = [fin EXCEPT ![<<w, "stop">>] =
                 [pc |-> IF IsAppInitiatedStream(i, ses) THEN "runtime" ELSE "end",
                  id |-> i]]
  /\ UNCHANGED <<sock, routed, ses, reg, auth, runtime, rec>>

\* handleDisconnect: a finalizer, which looks at once whether there is anything
\* to record; or no finalizer, for a session that has ended.
HandleDisconnect(w) ==
  /\ sock[w] = "open"
  /\ sock' = [sock EXCEPT ![w] = "closed"]
  /\ IF ses.of[w].sid # None /\ ses.of[w].status \in {"PENDING", "ACTIVE"}
       THEN /\ fin' = [fin EXCEPT ![<<w, "disconnect">>] =
                         [pc |-> IF IsAppInitiatedStream(ses.of[w].sid, ses)
                                   THEN "runtime" ELSE "unrecorded",
                          id |-> ses.of[w].sid]]
            /\ UNCHANGED <<ses, reg>>
       ELSE /\ ses' = EndBySocketSessionId(w, ses)
            /\ reg' = RemoveBySocketSessionId(w, reg)
            /\ UNCHANGED fin
  /\ UNCHANGED <<routed, auth, runtime, rec>>

EndRuntimeForStream(f) ==
  /\ fin[f].pc \in {"runtime", "unrecorded"}
  /\ runtime' = runtime \ {fin[f].id}
  /\ fin' = [fin EXCEPT ![f].pc = IF @ = "runtime" THEN "record" ELSE "end"]
  /\ UNCHANGED <<sock, routed, ses, reg, auth, rec>>

\* finalizeRecording: what was recorded under the id is mixed, uploaded and
\* handed to the post-call job (VoiceStream has the steps of that).
FinalizeRecording(f) ==
  /\ fin[f].pc = "record"
  /\ rec' = [rec EXCEPT ![fin[f].id] = CASE @ = "audio" -> "finalized"
                                         [] @ = "empty" -> "none"
                                         [] OTHER -> @]
  /\ fin' = [fin EXCEPT ![f].pc = "end"]
  /\ UNCHANGED <<sock, routed, ses, reg, auth, runtime>>

EndOnStop(w) ==
  LET f == <<w, "stop">>
      i == fin[f].id
  IN  /\ fin[f].pc = "end"
      /\ fin' = [fin EXCEPT ![f] = [pc |-> "done", id |-> None]]
      /\ ses' = EndByStreamSid(i, ses)
      /\ \E v \in IF Mapped(i, reg) = {} THEN {None} ELSE Mapped(i, reg) :
           reg' = RemoveByStreamSid(i, v, reg)
      /\ UNCHANGED <<sock, routed, auth, runtime, rec>>

EndOnDisconnect(w) ==
  LET f == <<w, "disconnect">>
  IN  /\ fin[f].pc = "end"
      /\ fin' = [fin EXCEPT ![f] = [pc |-> "done", id |-> None]]
      /\ ses' = EndBySocketSessionId(w, ses)
      /\ reg' = RemoveBySocketSessionId(w, reg)
      /\ UNCHANGED <<sock, routed, auth, runtime, rec>>

-----------------------------------------------------------------------------
Finalizer == Socket \X FinalizerKind

Next ==
  \/ \E w \in Socket : Connect(w)
  \/ \E w \in Socket : HandleStart(w)
  \/ \E w \in Socket : AuthorizeAndStartRuntime(w)
  \/ \E w \in Socket : HandleMedia(w)
  \/ \E i \in Id : SendMedia(i)
  \/ \E w \in Socket : HandleStop(w)
  \/ \E w \in Socket : HandleDisconnect(w)
  \/ \E f \in Finalizer : EndRuntimeForStream(f)
  \/ \E f \in Finalizer : FinalizeRecording(f)
  \/ \E w \in Socket : EndOnStop(w)
  \/ \E w \in Socket : EndOnDisconnect(w)

Spec == Init /\ [][Next]_vars

\* Waits of a finalizer end: the runtime's have timeouts, uploads answer.
FinalizerSteps(w) ==
  \/ \E k \in FinalizerKind :
       \/ EndRuntimeForStream(<<w, k>>) \/ FinalizeRecording(<<w, k>>)
  \/ EndOnStop(w) \/ EndOnDisconnect(w)

Fairness == WF_vars(\E w \in Socket : FinalizerSteps(w))

FairSpec == Spec /\ Fairness

-----------------------------------------------------------------------------
(* Properties.                                                             *)

\* The two registers agree, although they are kept apart and two sockets may
\* come under one id: the audio for an id goes to the socket whose session has
\* that id, and that is the session the service finds under it.  (Or the service
\* finds that of a socket the registry no longer knows: when a stream stops, the
\* socket that is forgotten may be another one that has come under its id and
\* has not started, and its start event then binds nothing.)
RegistersAgree ==
  \A i \in Id : \A w \in Socket : reg.byStream[i] = w =>
    /\ ses.of[w].sid = i
    /\ ses.byStream[i] \in {w, None} \/ ses.byStream[i] \notin reg.sockets

\* No trace of a socket that has gone is left in any of the maps, whichever of
\* the finalizers, its own or that of another socket with its id, ran last.
Forgotten(w) ==
  /\ w \notin ses.bySocket /\ w \notin reg.sockets
  /\ ses.toStream[w] = None /\ reg.toStream[w] = None
  /\ \A i \in Id : w \notin {ses.byStream[i], reg.byStream[i]}

\* (Again and again: a closed socket stays closed.)
GoneIsForgotten == []<>(\A w \in Socket : sock[w] = "closed" => Forgotten(w))
=============================================================================
