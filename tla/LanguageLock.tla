---------------------------- MODULE LanguageLock ----------------------------
(***************************************************************************)
(* Which language the agent answers in: voice-language.util, called with   *)
(* every transcript of the customer.                                       *)
(*                                                                         *)
(* A transcript is abstracted to its word counts after tokenizing: words   *)
(* in Devanagari, Hindi words in Latin script, other Latin words, words in *)
(* no letters such as numbers, and whether a filler such as `ok' is among  *)
(* them.  A filler in Devanagari is not recognised: the tokenizer drops    *)
(* the vowel signs, which are marks and not letters, and cuts the word.    *)
(***************************************************************************)
EXTENDS Naturals

CONSTANTS
  Counts    \* word counts of the transcripts considered, by kind

CountsAssumption ==
  Counts \in [dev : SUBSET Nat, latin : SUBSET Nat, english : SUBSET Nat,
             other : SUBSET Nat]

VARIABLES
  lock,          \* lockedLanguage
  hindiTurns,    \* consecutivePrimaryHindiTurns, up to 2
  otherTurns,    \* consecutivePrimaryEnglishHinglishTurns, up to 2
  last,          \* what the last transcript that counted was made of,
  previous       \* and the one before it

vars == <<lock, hindiTurns, otherTurns, last, previous>>

Utterance == [dev : Counts.dev, latin : Counts.latin, english : Counts.english,
              other : Counts.other, filler : BOOLEAN]

Hindi(u) == u.dev + u.latin
Words(u) == u.dev + u.latin + u.english + u.other

\* hindiWordRatio is at least p hundredths.
HindiShare(u, p) == 100 * Hindi(u) >= p * Words(u)

\* detectCustomerLanguage
Detected(u) ==
  CASE u.dev > 0 /\ u.english > 0 -> "hinglish"
    [] u.dev > 0 /\ u.english = 0 -> "hindi"
    [] u.dev = 0 /\ u.latin > 0 /\ u.english > 0 ->
         IF HindiShare(u, 55) /\ Words(u) >= 4 THEN "hinglish"
         ELSE IF u.latin <= 2 /\ u.english >= 2 THEN "english" ELSE "hinglish"
    [] u.dev = 0 /\ u.latin > 0 /\ u.english = 0 ->
         IF u.latin >= 3 /\ Words(u) >= 4 THEN "hindi" ELSE "unknown"
    [] u.dev = 0 /\ u.latin = 0 -> IF u.english > 0 THEN "english" ELSE "unknown"

\* assessCustomerUtteranceLanguage
Class(u) ==
  CASE Words(u) = 0 -> "filler_only"
    [] u.dev > 0 /\ HindiShare(u, 60) /\ Words(u) >= 3 -> "hindi"
    [] ~(u.dev > 0 /\ HindiShare(u, 60) /\ Words(u) >= 3)
       /\ HindiShare(u, 55) /\ Words(u) >= 5 ->
         IF Hindi(u) < 6 /\ u.english >= 2 THEN "hinglish" ELSE "hindi"
    [] OTHER ->
         IF HindiShare(u, 20) /\ (u.english > 0 \/ u.filler) THEN "hinglish"
         ELSE IF Detected(u) = "english" \/ ~HindiShare(u, 20) THEN "english"
         ELSE Detected(u)

\* A single utterance that locks Hindi.
Strong(u) ==
  \/ u.dev > 0 /\ HindiShare(u, 65) /\ Words(u) >= 4
  \/ u.dev = 0 /\ HindiShare(u, 55) /\ Words(u) >= 6

UpTo2(n) == IF n >= 2 THEN 2 ELSE n + 1

\* More Hindi than English; not Hindi alone; four words or more.
MadeOf(u) == [mostlyHindi |-> Hindi(u) > u.english,
              notOnlyHindi |-> u.english > 0 \/ u.other > 0 \/ u.filler,
              long |-> Words(u) >= 4]

Silence == [mostlyHindi |-> FALSE, notOnlyHindi |-> FALSE, long |-> FALSE]

Init ==
  /\ lock = "english_hinglish"
  /\ hindiTurns = 0 /\ otherTurns = 0
  /\ last = Silence /\ previous = Silence

Counted(u) == last' = MadeOf(u) /\ previous' = last

HearHindi(u) ==
  /\ Class(u) = "hindi"
  /\ hindiTurns' = UpTo2(hindiTurns) /\ otherTurns' = 0
  /\ lock' = IF Strong(u) \/ hindiTurns' >= 2 THEN "hindi" ELSE lock
  /\ Counted(u)

HearOtherKeepsCount(u) ==
  /\ Class(u) \in {"english", "hinglish"}
  /\ otherTurns' = UpTo2(otherTurns) /\ UNCHANGED hindiTurns
  /\ lock' = IF lock = "hindi" /\ otherTurns' >= 2 THEN "english_hinglish" ELSE lock
  /\ Counted(u)

HearOther(u) ==
  /\ Class(u) \in {"english", "hinglish"}
  /\ otherTurns' = UpTo2(otherTurns) /\ hindiTurns' = 0
  /\ lock' = IF lock = "hindi" /\ otherTurns' >= 2 THEN "english_hinglish" ELSE lock
  /\ Counted(u)

\* Fillers and what cannot be classified change nothing, the counters included.
HearUnknown(u) ==
  /\ Class(u) \in {"filler_only", "unknown"}
  /\ UNCHANGED vars

Next == \E u \in Utterance : HearHindi(u) \/ HearOther(u) \/ HearUnknown(u)

Spec == Init /\ [][Next]_vars

-----------------------------------------------------------------------------

\* The agent changes to Hindi only after a customer who spoke more Hindi than
\* English in one longer utterance or in two in a row, and back only after two
\* in a row that were not Hindi alone: the thresholds on word ratios, the
\* detection by script and the counters agree with each other over every
\* combination of word counts.
LockFollowsCustomer ==
  [][ /\ (lock # "hindi" /\ lock' = "hindi")
           => last'.mostlyHindi /\ (previous'.mostlyHindi \/ last'.long)
      /\ (lock = "hindi" /\ lock' # "hindi")
           => last'.notOnlyHindi /\ previous'.notOnlyHindi ]_vars

=============================================================================
