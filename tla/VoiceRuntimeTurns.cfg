SPECIFICATION Spec
CONSTANTS
  Vads = {TRUE, FALSE}
  Fallbacks = {TRUE}
  SpeechMin = 1
  MaxRetries = 1
  MaxResponses = 3
  MaxTranscripts = 1
  MaxOut = 2
INVARIANT GreetedOnce
INVARIANT MutedIsWatched
PROPERTY AnswersFreshSpeech
PROPERTY NoHangupAfterEnd
PROPERTY OpeningSettles
PROPERTY GoodbyeEndsCall
CHECK_DEADLOCK FALSE
