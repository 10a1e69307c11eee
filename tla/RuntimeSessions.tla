--------------------------- MODULE RuntimeSessions ---------------------------
(***************************************************************************)
(* The session map of OpenAiRealtimeProvider: prewarming a session when a  *)
(* call is dialled, adopting it when the call's stream starts, expiring it *)
(* when no stream comes, and endSession, which holds the entry of its key  *)
(* for seconds before it deletes whatever is under that key.               *)
(*                                                                         *)
(* What one session says to OpenAI is VoiceRuntime; here a session is the  *)
(* entry it has, the stream it serves and its WebSocket.                   *)
(***************************************************************************)
EXTENDS Naturals, FiniteSets

CONSTANTS
  None,
  Sid,          \* provider call SIDs
  Phone,        \* normalised telephone numbers
  Dial,         \* calls that are dialled
  DialSid,      \* the call SID a prewarm is given, or None (Exotel)
  DialPhone,    \* ... and the customer's number
  Stream,       \* streams
  StreamSid,    \* the callSid of a stream's start event, or None
  StreamPhones, \* its numbers <<to, from>>
  MaxSessions,  \* bound: sessions that are started
  MaxStarts     \* bound: start events of one stream

RuntimeSessionsAssumption ==
  /\ DialSid \in [Dial -> Sid \cup {None}]
  /\ DialPhone \in [Dial -> Phone]
  /\ StreamSid \in [Stream -> Sid \cup {None}]
  /\ StreamPhones \in [Stream -> Phone \X Phone]
  /\ MaxSessions \in Nat /\ MaxStarts \in Nat
  /\ None \notin Stream

\* A prewarm is kept under its call SID or, without one, under its number:
\* the key of prewarmByCallSid and of the stream id `prewarm:<key>`.
Key == Sid \cup Phone
Prewarm == {"prewarm"} \X Key
Entry == Prewarm \cup Stream

KeyOf(d) == IF DialSid[d] # None THEN DialSid[d] ELSE DialPhone[d]

\* A stream id is no prewarm's, and a call SID or a number stands for one number.
EntryAssumption ==
  /\ (Stream \cup {None}) \cap Prewarm = {}
  /\ \A d, other \in Dial : KeyOf(d) = KeyOf(other) => DialPhone[d] = DialPhone[other]

Session == 1 .. MaxSessions

VARIABLES
  sessions,  \* streamSid -> session, 0 for no entry
  info,      \* the sessions: stream they serve, key they were started under
  byKey,     \* prewarmByCallSid
  byPhone,   \* prewarmByPhone
  cleanups,  \* prewarmCleanupTimers: key -> the keys the timer will clear
  endings,   \* endSession calls on their way
  stream,    \* of every stream: where it is, and its start events
  displaced  \* history: sessions deleted from the map while not closing

vars == <<sessions, info, byKey, byPhone, cleanups, endings, stream, displaced>>

NoTimer == [on |-> FALSE, sid |-> None, phone |-> None]

Init ==
  /\ sessions = [e \in Entry |-> 0]
  /\ info = <<>>
  /\ byKey = [k \in Key |-> None]
  /\ byPhone = [p \in Phone |-> None]
  /\ cleanups = [k \in Key |-> NoTimer]
  /\ endings = {}
  /\ stream = [t \in Stream |-> [pc |-> "none", starts |-> 0]]
  /\ displaced = {}

-----------------------------------------------------------------------------
Started == DOMAIN info
Closing(n) == info[n].closing

\* Map.delete, and what it loses when the entry is of another session by now.
Delete(e) ==
  /\ sessions' = [sessions EXCEPT ![e] = 0]
  /\ displaced' = displaced \cup {n \in Started : n = sessions[e] /\ ~Closing(n)}

\* startOpenAiSession: the entry is set, whatever was there.
StartOpenAiSession(e, t) ==
  /\ Cardinality(Started) < MaxSessions
  /\ info' = [n \in Started \cup {Cardinality(Started) + 1} |->
                IF n \in Started THEN info[n]
                ELSE [origin |-> e, stream |-> t, ws |-> "open", closing |-> FALSE]]
  /\ sessions' = [sessions EXCEPT ![e] = Cardinality(Started) + 1]

\* endSession up to its first await.
BeginEnd(e) ==
  IF sessions[e] = 0
    THEN UNCHANGED <<info, endings>>
    ELSE /\ info' = [info EXCEPT ![sessions[e]].closing = TRUE]
         /\ endings' = endings \cup {[entry |-> e, session |-> sessions[e]]}

-----------------------------------------------------------------------------
(* Prewarming.                                                             *)

\* Mutant: the call is prewarmed although its key is.
NotPrewarmedYet(d) == TRUE

\* Nothing is prewarmed for a key that has an entry.
Unprewarmed(d) == byKey[KeyOf(d)] = None

PrewarmAuthorizedCall(d) ==
  /\ Unprewarmed(d)
  /\ byKey' = [byKey EXCEPT ![KeyOf(d)] = <<"prewarm", KeyOf(d)>>]
  /\ byPhone' = [byPhone EXCEPT ![DialPhone[d]] = <<"prewarm", KeyOf(d)>>]
  /\ cleanups' = [cleanups EXCEPT ![KeyOf(d)] =
                    [on |-> TRUE, sid |-> DialSid[d], phone |-> DialPhone[d]]]
  /\ StartOpenAiSession(<<"prewarm", KeyOf(d)>>, None)
  /\ UNCHANGED <<endings, stream, displaced>>

\* The timer of schedulePrewarmCleanup; it fires once.
PrewarmExpires(k) ==
  LET e == <<"prewarm", k>>
  IN  /\ cleanups[k].on
      /\ cleanups' = [cleanups EXCEPT ![k] = NoTimer]
      /\ IF byKey[k] = e
           THEN /\ byKey' = [byKey EXCEPT ![k] = None]
                /\ byPhone' = [byPhone EXCEPT ![cleanups[k].phone] = None]
                /\ BeginEnd(e)
           ELSE UNCHANGED <<info, byKey, byPhone, endings>>
      /\ UNCHANGED <<sessions, stream, displaced>>

\* resolvePrewarmStreamSid: by the call SID, then by `to`, then by `from`.
PrewarmFor(t) ==
  LET bySid == IF StreamSid[t] # None THEN byKey[StreamSid[t]] ELSE None
      byTo == byPhone[StreamPhones[t][1]]
      byFrom == byPhone[StreamPhones[t][2]]
      Has(e) == e # None /\ sessions[e] # 0
  IN  CASE Has(bySid) -> bySid
        [] ~Has(bySid) /\ Has(byTo) -> byTo
        [] ~Has(bySid) /\ ~Has(byTo) /\ Has(byFrom) -> byFrom
        [] OTHER -> None

\* clearPrewarmMappings with the keys of the stream: the key a call without a
\* SID was prewarmed under stays when the stream has one.
ClearPrewarmMappings(e, t) ==
  LET key == IF StreamSid[t] # None THEN StreamSid[t] ELSE StreamPhones[t][1]
      to == StreamPhones[t][1]
  IN  /\ cleanups' = [cleanups EXCEPT ![key] = NoTimer]
      /\ byKey' = [byKey EXCEPT ![key] = IF @ = e THEN None ELSE @]
      /\ byPhone' = [byPhone EXCEPT ![to] = IF @ = e THEN None ELSE @]

\* Mutant: the entry of the prewarm stays beside that of the stream.
RekeyedTwice(e, t) == [sessions EXCEPT ![t] = sessions[e]]

\* Mutant: the entry of the stream is set before that of the prewarm goes.
RekeyedAway(e, t) == [sessions EXCEPT ![e] = 0]

\* The entry moves from the prewarm to the stream.
Rekeyed(e, t) == [sessions EXCEPT ![e] = 0, ![t] = sessions[e]]

\* adoptPrewarmSession
Adopt(e, t) ==
  /\ ClearPrewarmMappings(e, t)
  /\ sessions' = Rekeyed(e, t)
  /\ info' = [info EXCEPT ![sessions[e]].stream = t]
  /\ stream' = [stream EXCEPT ![t] = [pc |-> "served", starts |-> @.starts + 1]]
  /\ UNCHANGED <<endings, displaced>>

-----------------------------------------------------------------------------
(* Streams.                                                                *)

\* createSession for a stream that starts, up to its first await.
CreateSession(t) ==
  /\ stream[t].pc \in {"none", "served"} /\ stream[t].starts < MaxStarts
  /\ LET e == PrewarmFor(t)
     IN  IF e # None
           THEN Adopt(e, t)
           ELSE /\ IF sessions[t] # 0
                     THEN /\ BeginEnd(t)
                          /\ stream' = [stream EXCEPT ![t] =
                               [pc |-> "restart", starts |-> @.starts + 1]]
                          /\ UNCHANGED sessions
                     ELSE /\ StartOpenAiSession(t, t)
                          /\ stream' = [stream EXCEPT ![t] =
                               [pc |-> "served", starts |-> @.starts + 1]]
                          /\ UNCHANGED endings
                /\ UNCHANGED <<byKey, byPhone, cleanups, displaced>>

\* ... and when its endSession has ended.
CreateAgain(t) ==
  /\ stream[t].pc = "restart"
  /\ \A x \in endings : x.entry # t
  /\ StartOpenAiSession(t, t)
  /\ stream' = [stream EXCEPT ![t].pc = "served"]
  /\ UNCHANGED <<byKey, byPhone, cleanups, endings, displaced>>

\* endRuntimeForStream: the stream has stopped or its socket has gone.
StreamStops(t) ==
  /\ stream[t].pc = "served"
  /\ stream' = [stream EXCEPT ![t].pc = "gone"]
  /\ BeginEnd(t)
  /\ UNCHANGED <<sessions, byKey, byPhone, cleanups, displaced>>

-----------------------------------------------------------------------------
(* The ends of sessions.                                                   *)

\* ws 'close': ours after ws.close(), or OpenAI's own.  The entry deleted is
\* the one the session was started under.
SocketCloses(n) ==
  /\ info[n].ws = "open"
  /\ info' = [info EXCEPT ![n].ws = "closed"]
  /\ IF Closing(n) THEN Delete(info[n].origin) ELSE UNCHANGED <<sessions, displaced>>
  /\ UNCHANGED <<byKey, byPhone, cleanups, endings, stream>>

\* endSession goes on: the close came, or its two seconds are over.
EndSession(x) ==
  /\ x \in endings
  /\ endings' = endings \ {x}
  /\ Delete(x.entry)
  /\ UNCHANGED <<info, byKey, byPhone, cleanups, stream>>

Next ==
  \/ \E d \in Dial : PrewarmAuthorizedCall(d)
  \/ \E k \in Key : PrewarmExpires(k)
  \/ \E t \in Stream : CreateSession(t)
  \/ \E t \in Stream : CreateAgain(t)
  \/ \E t \in Stream : StreamStops(t)
  \/ \E n \in Started : SocketCloses(n)
  \/ \E x \in endings : EndSession(x)

Spec == Init /\ [][Next]_vars

\* Timers fire, a socket that was closed reports it, and a session that was
\* taken out of the map is ended.  (None of these can be put off for ever: the
\* others run out.)
Due ==
  \/ \E k \in Key : PrewarmExpires(k)
  \/ \E n \in Started : Closing(n) /\ SocketCloses(n)
  \/ \E x \in endings : EndSession(x)

Fairness == WF_vars(Due)

FairSpec == Spec /\ Fairness

-----------------------------------------------------------------------------
(* Properties.                                                             *)

\* The stream a session serves, and what may end it: a session that was
\* adopted is out of reach of the expiry of its prewarm, whose timer may still
\* run when the stream was matched through another key.
ExpirySparesCalls ==
  [][\A n \in Started :
       (info[n].stream # None /\ ~info[n].closing /\ info'[n].closing)
         => stream'[info[n].stream].pc \in {"gone", "restart"}]_vars

\* A stream that was given a session finds it under its id as long as it runs,
\* unless the late close of an earlier session of the stream took the entry.
StreamIsServed ==
  \A t \in Stream : stream[t].pc = "served" =>
    \E n \in Started : /\ info[n].stream = t /\ ~info[n].closing
                       /\ sessions[t] = n \/ n \in displaced

\* Connected to OpenAI for a call whose stream has not come.
Idle(n) == info[n].stream = None /\ info[n].ws = "open"

\* The connection to OpenAI that was opened for a call nobody answered is
\* closed, unless an earlier prewarm of the same key was still ending and took
\* its entry: that one is out of everybody's reach.
\* (There comes a time, again and again, when no such connection is left: in a
\* model that starts finitely many sessions, each of them is closed.)
UnusedPrewarmCloses == []<>(\A n \in Started : ~Idle(n) \/ n \in displaced)
=============================================================================
