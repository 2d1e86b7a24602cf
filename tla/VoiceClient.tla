---------------------------- MODULE VoiceClient ----------------------------
(***************************************************************************)
(* The voice channel's page: a turn listens, transcribes, asks the agent   *)
(* and speaks its reply, in one function that awaits each; clicks, timers  *)
(* and the continuation of another turn come between.  What can be         *)
(* cancelled hangs on globals that name the latest recognition, recorder,  *)
(* request or playback, whosever turn it belongs to.  What is said is left *)
(* out, and so are the Tauri providers.                                    *)
(***************************************************************************)
EXTENDS Naturals, FiniteSets

CONSTANT MaxTurns  \* bound: how many turns are started

ASSUME TurnsAssumption == MaxTurns \in Nat

VARIABLES
  stt,         \* "browser" or "http", the provider that is configured
  agent,       \* "opencode", which can be aborted, or "openai"
  tts,         \* "browser" or "http"
  status,      \* state.status
  isListening, \* state.isListening
  processing,  \* what the buttons were last drawn for: mic disabled, cancel shown
  continuous,  \* settings.app.continuousListening
  turn,        \* per turn, what it awaits
  activeSTT,   \* the turn of __activeRecognition or __activeRecorder
  activeTTS,   \* the turn of __activeTTS
  aborter,     \* the turn of opencode._abort
  session,     \* whether opencode._sessionId is set
  recovers,    \* an error's timer is pending
  left,        \* the page was made idle with a turn still going (history)
  hasty        \* a click to stop came while the microphone was not granted yet (history)

choiceVars == <<stt, agent, tts>>
globalVars == <<activeSTT, activeTTS, aborter, session>>
voiceVars == <<choiceVars, status, isListening, processing, continuous, turn, globalVars,
               recovers, left, hasty>>

VoiceTurns == 1..MaxTurns
NoTurn == 0
Resting == {"unused", "refused", "pausing", "hung", "over"}

VoiceTypeOK ==
  /\ stt \in {"browser", "http"} /\ agent \in {"opencode", "openai"} /\ tts \in {"browser", "http"}
  /\ status \in {"idle", "listening", "transcribing", "thinking", "speaking", "error"}
  /\ {isListening, processing, continuous, session, recovers, left, hasty} \subseteq BOOLEAN
  /\ turn \in [VoiceTurns -> Resting \cup {"permission", "capturing", "captured", "uploading",
                                      "creating", "asking", "fetching", "playing", "cut"}]
  /\ {activeSTT, activeTTS, aborter} \subseteq 0..MaxTurns

VoiceInit ==
  /\ stt \in {"browser", "http"} /\ agent \in {"opencode", "openai"} /\ tts \in {"browser", "http"}
  /\ status = "idle" /\ isListening = FALSE /\ processing = FALSE /\ continuous = FALSE
  /\ turn = [t \in VoiceTurns |-> "unused"]
  /\ activeSTT = NoTurn /\ activeTTS = NoTurn /\ aborter = NoTurn
  /\ session = FALSE /\ recovers = FALSE /\ left = FALSE /\ hasty = FALSE

\* setStatus with, and without, updateUI.
Shows(s) == status' = s /\ processing' = (s \in {"transcribing", "thinking", "speaking"})
Says(s) == status' = s /\ UNCHANGED processing

-----------------------------------------------------------------------------
(* cancelSTT, stopListening, cancelTTS: what they do to the turns awaiting. *)

\* The recording ends and its turn goes on with it; an aborted recognition is an
\* error.
Silenced(f, how) ==
  IF activeSTT # NoTurn /\ f[activeSTT] = "capturing" THEN [f EXCEPT ![activeSTT] = how] ELSE f

Stopped(f) == Silenced(f, "captured")
SttCancelled(f) == Silenced(f, IF stt = "browser" THEN "cut" ELSE "captured")

\* Speech synthesis ends with an error for all that is queued; a paused audio
\* element ends in no way, and its turn waits for ever.
TtsCancelled(f) ==
  IF activeTTS = NoTurn THEN f
  ELSE IF tts = "browser" THEN [t \in VoiceTurns |-> IF f[t] = "playing" THEN "cut" ELSE f[t]]
  ELSE IF f[activeTTS] = "playing" THEN [f EXCEPT ![activeTTS] = "hung"] ELSE f

Silence(f) == turn' = SttCancelled(TtsCancelled(f)) /\ activeSTT' = NoTurn /\ activeTTS' = NoTurn

-----------------------------------------------------------------------------
(* startVoiceTurn, from await to await.                                     *)

\* A bug: a turn is started whatever else goes on.
Startable_Any == TRUE

Startable == status = "idle"

\* f: the turns as the caller leaves them.  A turn that finds no agent configured
\* says so; the buttons are not drawn anew.
StartsTurn(f) ==
  \E t \in VoiceTurns :
    /\ turn[t] = "unused" /\ \A u \in 1..(t - 1) : turn[u] # "unused"
    /\ \/ /\ Says("error")
          /\ turn' = [f EXCEPT ![t] = "refused"] /\ UNCHANGED <<isListening, activeSTT>>
       \/ /\ Shows("listening") /\ isListening' = TRUE
          /\ IF stt = "browser"
             THEN turn' = [f EXCEPT ![t] = "capturing"] /\ activeSTT' = t
             ELSE turn' = [f EXCEPT ![t] = "permission"] /\ UNCHANGED activeSTT

\* The page is made idle.
Leaves == left' = (left \/ \E t \in VoiceTurns : turn'[t] \notin Resting)

\* The timer of a turn without an agent asks nobody.
Excused(t) ==
  /\ turn[t] = "refused" /\ turn' = [turn EXCEPT ![t] = "over"]
  /\ Says("idle") /\ Leaves
  /\ UNCHANGED <<choiceVars, isListening, continuous, globalVars, recovers, hasty>>

\* The microphone is granted, and the recorder started.
Granted(t) ==
  /\ turn[t] = "permission" /\ turn' = [turn EXCEPT ![t] = "capturing"]
  /\ activeSTT' = t
  /\ UNCHANGED <<choiceVars, status, isListening, processing, continuous, activeTTS, aborter,
                 session, recovers, left, hasty>>

\* A recognition ends when nobody speaks any more, a recorder when its microphone is
\* taken from it, if ever.
CaptureEnds(t) ==
  /\ turn[t] = "capturing"
  /\ turn' = [turn EXCEPT ![t] = "captured"]
  /\ UNCHANGED <<choiceVars, status, isListening, processing, continuous, globalVars, recovers, left, hasty>>

\* The buttons are not drawn anew.
Upload(t) ==
  /\ turn[t] = "captured" /\ stt = "http"
  /\ turn' = [turn EXCEPT ![t] = "uploading"]
  /\ Says("transcribing")
  /\ UNCHANGED <<choiceVars, isListening, continuous, globalVars, recovers, left, hasty>>

\* There is a transcript; an empty one ends the turn.
Transcribed(t) ==
  /\ turn[t] = IF stt = "http" THEN "uploading" ELSE "captured"
  /\ isListening' = FALSE
  /\ \/ /\ Shows("idle")
        /\ turn' = [turn EXCEPT ![t] = "over"] /\ UNCHANGED aborter
     \/ /\ Shows("thinking")
        /\ IF agent = "opencode" /\ ~session
           THEN turn' = [turn EXCEPT ![t] = "creating"] /\ UNCHANGED aborter
           ELSE /\ turn' = [turn EXCEPT ![t] = "asking"]
                /\ aborter' = IF agent = "opencode" THEN t ELSE aborter
  /\ UNCHANGED <<choiceVars, continuous, activeSTT, activeTTS, session, recovers, left, hasty>>

\* opencode has a new session.
Created(t) ==
  /\ turn[t] = "creating" /\ turn' = [turn EXCEPT ![t] = "asking"]
  /\ session' = TRUE /\ aborter' = t
  /\ UNCHANGED <<choiceVars, status, isListening, processing, continuous, activeSTT, activeTTS,
                 recovers, left, hasty>>

\* Back to idle, and on after a pause if that is wanted.
Finish(t) ==
  /\ Shows("idle")
  /\ turn' = [turn EXCEPT ![t] = IF continuous THEN "pausing" ELSE "over"]

\* The reply is there; an empty one is not spoken.
Replied(t) ==
  /\ turn[t] = "asking"
  /\ aborter' = NoTurn
  /\ \/ Finish(t) /\ UNCHANGED activeTTS
     \/ /\ Shows("speaking")
        /\ IF tts = "browser"
           THEN turn' = [turn EXCEPT ![t] = "playing"] /\ activeTTS' = t
           ELSE turn' = [turn EXCEPT ![t] = "fetching"] /\ UNCHANGED activeTTS
  /\ UNCHANGED <<choiceVars, isListening, continuous, activeSTT, session, recovers, left, hasty>>

Plays(t) ==
  /\ turn[t] = "fetching" /\ turn' = [turn EXCEPT ![t] = "playing"]
  /\ activeTTS' = t
  /\ UNCHANGED <<choiceVars, status, isListening, processing, continuous, activeSTT, aborter,
                 session, recovers, left, hasty>>

Spoken(t) ==
  /\ turn[t] = "playing" /\ Finish(t)
  /\ UNCHANGED <<choiceVars, isListening, continuous, globalVars, recovers, left, hasty>>

\* The pause is over; a turn somebody started meanwhile is left alone.
Continue(t) ==
  /\ turn[t] = "pausing"
  /\ LET f == [turn EXCEPT ![t] = "over"] IN
     IF Startable THEN StartsTurn(f)
     ELSE turn' = f /\ UNCHANGED <<status, processing, isListening, activeSTT>>
  /\ UNCHANGED <<choiceVars, continuous, activeTTS, aborter, session, recovers, left, hasty>>

\* A bug: the error stays.
Recovering_Not == recovers

Recovering == TRUE

\* What is awaited fails: speech and listening are cancelled, whosever they are.
TurnFails(t) ==
  /\ turn[t] \notin Resting /\ ~(turn[t] = "captured" /\ stt = "http")
  /\ Silence([turn EXCEPT ![t] = "over"])
  /\ aborter' = IF turn[t] = "asking" THEN NoTurn ELSE aborter
  /\ isListening' = FALSE
  /\ Shows("error") /\ recovers' = Recovering
  /\ UNCHANGED <<choiceVars, continuous, session, left, hasty>>

Recover ==
  /\ recovers /\ recovers' = FALSE
  /\ IF status = "error" THEN Says("idle") ELSE UNCHANGED <<status, processing>>
  /\ UNCHANGED <<choiceVars, isListening, continuous, turn, globalVars, left, hasty>>

-----------------------------------------------------------------------------
(* The buttons.                                                             *)

Mic ==
  /\ ~processing
  /\ IF isListening
     THEN /\ turn' = Stopped(turn) /\ activeSTT' = NoTurn
          /\ isListening' = FALSE
          /\ hasty' = (hasty \/ \E t \in VoiceTurns : turn[t] = "permission")
          /\ UNCHANGED <<status, processing>>
     ELSE Startable /\ StartsTurn(turn) /\ UNCHANGED hasty
  /\ UNCHANGED <<choiceVars, continuous, activeTTS, aborter, session, recovers, left>>

\* The aborted request ends its turn without a word.
Aborted == IF aborter = NoTurn THEN turn ELSE [turn EXCEPT ![aborter] = "over"]

Cancel ==
  /\ processing
  /\ Silence(Aborted) /\ aborter' = NoTurn
  /\ isListening' = FALSE
  /\ Shows("idle")
  /\ Leaves
  /\ UNCHANGED <<choiceVars, continuous, session, recovers, hasty>>

Continuous ==
  /\ continuous' = ~continuous
  /\ processing' = (status \in {"transcribing", "thinking", "speaking"})
  /\ UNCHANGED <<choiceVars, status, isListening, turn, globalVars, recovers, left, hasty>>

NewConversation ==
  /\ session' = FALSE
  /\ UNCHANGED <<choiceVars, status, isListening, processing, continuous, turn, activeSTT, activeTTS,
                 aborter, recovers, left, hasty>>

-----------------------------------------------------------------------------
Awaited(t) ==
  \/ Excused(t) \/ Granted(t) \/ (stt = "browser" /\ CaptureEnds(t)) \/ Upload(t) \/ Transcribed(t) \/ Created(t) \/ Replied(t)
  \/ Plays(t) \/ Spoken(t) \/ Continue(t)
  \/ turn[t] # "capturing" /\ TurnFails(t)

VoiceNext ==
  \/ \E t \in VoiceTurns : Awaited(t) \/ CaptureEnds(t) \/ TurnFails(t)
  \/ Recover \/ Mic \/ Cancel \/ Continuous \/ NewConversation

VoiceSpec == VoiceInit /\ [][VoiceNext]_voiceVars

\* Providers answer or fail, and a recognition ends; a recording needs a click.
VoiceFairness == WF_voiceVars(Recover) /\ \A t \in VoiceTurns : WF_voiceVars(Awaited(t))

LiveVoiceSpec == VoiceSpec /\ VoiceFairness

(***************************************************************************)
(* Properties.                                                             *)
(***************************************************************************)
\* One turn at a time, and while it records, the microphone button stops it: as
\* long as the page was not made idle over a turn that goes on (a cancel does not
\* reach one that transcribes or waits for an agent that cannot be aborted, and
\* does not wait for the end of one whose speech it cuts; the timer of a turn that
\* found no agent does not look), and nobody clicked before the microphone was
\* granted.
OneTurnUnlessLeft ==
  ~left =>
    /\ Cardinality({t \in VoiceTurns : turn[t] \notin Resting}) <= 1
    /\ ~hasty => \A t \in VoiceTurns : turn[t] = "capturing" => activeSTT = t /\ isListening /\ ~processing

\* The page comes back from whatever it was busy with, though turns, errors and
\* cancels of several turns set its status in any order.
MicComesBack ==
  status \in {"transcribing", "thinking", "speaking", "error"} ~> status \in {"idle", "listening"}
=============================================================================
