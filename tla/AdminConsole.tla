---------------------------- MODULE AdminConsole ----------------------------
(***************************************************************************)
(* The page of the admin console: a token kept in localStorage, which the  *)
(* tabs of a browser share, a gate that locks and unlocks the page, and    *)
(* loaders that take the token, await an answer and act on it, whatever    *)
(* became of the token meanwhile.  A timer loads the containers again.     *)
(* What is shown of the containers is their version; of the other answers  *)
(* only their status matters.                                              *)
(***************************************************************************)
EXTENDS Naturals, Bags

CONSTANTS
  InFlight,      \* bound: requests under way when a user or the timer begins another
  MaxRotations,  \* bound: how often the server's token is changed
  MaxUpdates,    \* bound: how often the containers change
  MaxElsewhere   \* bound: how often another tab logs in or out

ASSUME ConsoleAssumption == {InFlight, MaxRotations, MaxUpdates, MaxElsewhere} \subseteq Nat

VARIABLES
  good,           \* the token the server takes, numbered by its changes
  world,          \* the version of the containers
  stored,         \* the token in localStorage
  locked,         \* authLocked
  busy,           \* authLoading
  pollTimer,      \* the timer of startContainerPolling is set
  containerData,  \* what is shown of the containers
  calls,          \* the requests under way, a bag
  elsewhere       \* what other tabs did, counted

consoleVars == <<good, world, stored, locked, busy, pollTimer, containerData, calls, elsewhere>>
outsideVars == <<good, world, elsewhere>>
ownVars == <<stored, locked, busy, pollTimer, containerData, calls>>

Tokens == 0..MaxRotations
ContainerVersions == 0..MaxUpdates
NoToken == MaxRotations + 1
Nothing == MaxUpdates + 1  \* containerData is null

\* A request: `token` is the one it was sent with, `ends` says that a login goes on
\* with its end, `answer` how the server answered, `saw` the containers in it.
Call(what, token, ends) ==
  [what |-> what, token |-> token, ends |-> ends, answer |-> "none", saw |-> Nothing]

ConsoleTypeOK ==
  /\ good \in Tokens /\ world \in ContainerVersions /\ elsewhere \in 0..MaxElsewhere
  /\ stored \in Tokens \cup {NoToken} /\ containerData \in ContainerVersions \cup {Nothing}
  /\ {locked, busy, pollTimer} \subseteq BOOLEAN
  /\ IsABag(calls)
  /\ BagToSet(calls) \subseteq
       [what : {"login", "mount", "health", "opencode", "containers", "loader", "action", "apply"},
        token : Tokens, ends : BOOLEAN, answer : {"none", "ok", "refused", "failed"},
        saw : ContainerVersions \cup {Nothing}]

\* A page that was just opened: its onMount has found a token, or none.
ConsoleInit ==
  /\ good = 0 /\ world = 0 /\ elsewhere = 0
  /\ stored \in {0, NoToken}
  /\ locked = TRUE /\ pollTimer = FALSE /\ containerData = Nothing
  /\ busy = (stored # NoToken)
  /\ calls = IF busy THEN SetToBag({Call("mount", stored, FALSE)}) ELSE EmptyBag

-----------------------------------------------------------------------------
(* Loaders take the token that is stored; one that finds none locks the page. *)

Load_Unguarded(whats, token, ends) == SetToBag({Call(w, token, ends) : w \in whats})
Load(whats, token, ends) ==
  IF token = NoToken THEN EmptyBag ELSE SetToBag({Call(w, token, ends) : w \in whats})

\* Several loaders begun in one stretch after `rest` of the requests are left, on a
\* page that is otherwise locked or not.
Loads(whats, rest, isLocked, isShown) ==
  /\ calls' = rest (+) Load(whats, stored, FALSE)
  /\ locked' = (isLocked \/ (whats # {} /\ stored = NoToken))
  /\ containerData' = IF "containers" \in whats /\ stored = NoToken THEN Nothing ELSE isShown

\* The timer has a place of its own, so that the bound never keeps it waiting.
Room == BagCardinality(calls) < InFlight
TimerRoom == BagCardinality(calls) <= InFlight

\* The buttons, the tabs and the timer.  Only one "apply" is under way at a time
\* (anyDangerousLoading); an action without a token does nothing.
Applying == \E c \in BagToSet(calls) : c.what = "apply"

Click(what) ==
  /\ ~locked /\ Room
  /\ what = "apply" => ~Applying
  /\ what = "action" => stored # NoToken
  /\ Loads({what}, calls, locked, containerData)
  /\ UNCHANGED <<outsideVars, stored, busy, pollTimer>>

\* The callback of the interval.
MayPoll == ~locked /\ containerData # Nothing

Tick ==
  /\ pollTimer /\ MayPoll /\ TimerRoom
  /\ Loads({"containers"}, calls, locked, containerData)
  /\ UNCHANGED <<outsideVars, stored, busy, pollTimer>>

-----------------------------------------------------------------------------
(* Logging in and out. *)

\* The gate asks for a token unless one is being validated.
Login(token) ==
  /\ locked /\ ~busy /\ Room
  /\ busy' = TRUE /\ calls' = calls (+) SetToBag({Call("login", token, FALSE)})
  /\ UNCHANGED <<outsideVars, stored, locked, pollTimer, containerData>>

Logout ==
  /\ ~locked
  /\ stored' = NoToken /\ locked' = TRUE /\ pollTimer' = FALSE /\ containerData' = Nothing
  /\ UNCHANGED <<outsideVars, busy, calls>>

\* applyInvalidTokenState, which leaves the timer as it is.
Invalidated == stored' = NoToken /\ locked' = TRUE

\* What catch blocks take for an invalid token.
Refuses_AnyError(c) == c.answer \in {"refused", "failed"}
Refuses(c) == c.answer = "refused"

\* validateToken, which catches what fetch throws, says no for whatever is not yes:
\* then the page drops the token it has, which need not be the one it asked about.
Validated(c) ==
  LET rest == calls (-) SetToBag({c})
  IN  IF c.answer # "ok"
      THEN /\ Invalidated /\ busy' = FALSE /\ calls' = rest
           /\ UNCHANGED <<pollTimer, containerData>>
      ELSE /\ pollTimer' = TRUE
           /\ IF c.what = "login"
              THEN /\ stored' = c.token /\ locked' = FALSE
                   /\ calls' = rest (+) Load({"health"}, c.token, TRUE)
                   /\ UNCHANGED <<busy, containerData>>
              ELSE /\ Loads({"health", "containers", "loader"}, rest, FALSE, containerData)
                   /\ busy' = FALSE /\ UNCHANGED stored

\* loadHealth asks for the status of OpenCode after that of the services, with the
\* token it began with; a login goes on behind it.
HealthAnswered(c) ==
  /\ calls' = (calls (-) SetToBag({c})) (+) Load({"opencode"}, c.token, c.ends)
  /\ UNCHANGED <<stored, locked, busy, pollTimer, containerData>>

Unlocked_OnSuccess(c) == busy' = IF c.ends /\ c.answer = "ok" THEN FALSE ELSE busy
Unlocked(c) == busy' = IF c.ends THEN FALSE ELSE busy

OpencodeAnswered(c) ==
  LET rest == calls (-) SetToBag({c})
  IN  /\ Unlocked(c) /\ UNCHANGED pollTimer
      /\ IF Refuses(c)
         THEN /\ Invalidated /\ calls' = rest
              /\ containerData' = IF c.ends THEN Nothing ELSE containerData
         ELSE /\ UNCHANGED stored
              /\ Loads(IF c.ends THEN {"containers", "loader"} ELSE {}, rest, locked, containerData)

ContainersAnswered(c) ==
  /\ calls' = calls (-) SetToBag({c})
  /\ containerData' = c.saw
  /\ IF Refuses(c) THEN Invalidated ELSE UNCHANGED <<stored, locked>>
  /\ UNCHANGED <<busy, pollTimer>>

\* Automations, capabilities, artifacts; an action loads the containers after it.
OtherAnswered(c) ==
  LET rest == calls (-) SetToBag({c})
  IN  /\ IF Refuses(c) THEN Invalidated /\ calls' = rest /\ UNCHANGED containerData
         ELSE /\ UNCHANGED stored
              /\ IF c.what = "action" /\ c.answer = "ok"
                 THEN Loads({"containers"}, rest, locked, containerData)
                 ELSE calls' = rest /\ UNCHANGED <<locked, containerData>>
      /\ UNCHANGED <<busy, pollTimer>>

Arrive(c) ==
  /\ c.answer # "none" /\ UNCHANGED outsideVars
  /\ \/ c.what \in {"login", "mount"} /\ Validated(c)
     \/ c.what = "health" /\ HealthAnswered(c)
     \/ c.what = "opencode" /\ OpencodeAnswered(c)
     \/ c.what = "containers" /\ ContainersAnswered(c)
     \/ c.what \in {"loader", "action", "apply"} /\ OtherAnswered(c)

-----------------------------------------------------------------------------
(* The server, the stack and other tabs. *)

\* The server answers by the token it has, or fails, or is not there.
Serve(c) ==
  /\ c.answer = "none" /\ UNCHANGED <<good, elsewhere, stored, locked, busy, pollTimer, containerData>>
  /\ \E answer \in {IF c.token = good \/ c.what = "health" THEN "ok" ELSE "refused", "failed"} :
       /\ world' \in IF c.what \in {"action", "apply"} /\ answer = "ok" /\ world < MaxUpdates
                     THEN {world + 1} ELSE {world}
       /\ calls' = (calls (-) SetToBag({c}))
                   (+) SetToBag({[c EXCEPT !.answer = answer,
                                           !.saw = IF c.what = "containers" /\ answer = "ok"
                                                   THEN world ELSE Nothing]})

Rotate == good < MaxRotations /\ good' = good + 1 /\ UNCHANGED <<world, elsewhere, ownVars>>

Change == world < MaxUpdates /\ world' = world + 1 /\ UNCHANGED <<good, elsewhere, ownVars>>

OtherTab ==
  /\ elsewhere < MaxElsewhere /\ elsewhere' = elsewhere + 1
  /\ stored' \in {good, NoToken}
  /\ UNCHANGED <<good, world, locked, busy, pollTimer, containerData, calls>>

ConsoleNext ==
  \/ \E what \in {"health", "containers", "loader", "action", "apply"} : Click(what)
  \/ \E token \in Tokens : Login(token)
  \/ \E c \in BagToSet(calls) : Serve(c) \/ Arrive(c)
  \/ Logout \/ Tick \/ Rotate \/ Change \/ OtherTab

\* The timer fires; requests of the kinds the properties wait for are answered, or
\* fail, and the page goes on.  None on users, tabs or other requests.
GoesOn(What(_)) == WF_consoleVars(\E c \in BagToSet(calls) : What(c) /\ (Serve(c) \/ Arrive(c)))
IsValidation(c) == c.what \in {"login", "mount"}
EndsLogin(c) == c.ends
IsContainers(c) == c.what = "containers"

ConsoleFairness ==
  /\ WF_consoleVars(Tick)
  /\ GoesOn(IsValidation) /\ GoesOn(EndsLogin) /\ GoesOn(IsContainers)

ConsoleSpec == ConsoleInit /\ [][ConsoleNext]_consoleVars /\ ConsoleFairness

-----------------------------------------------------------------------------
\* A session holds: a page that is unlocked is locked by its user only, or since the
\* token is gone from the browser, or once the server has another; a server that
\* fails or does not answer, and answers of earlier sessions, log nobody out.
SessionHolds == [][~locked /\ locked' => Logout \/ stored = NoToken \/ good > 0]_consoleVars

\* Every attempt to log in is decided, and the gate can be used again.
LoginEnds == busy ~> ~busy

\* Where loading does not fail, polling brings what happened to the stack to the page,
\* in whatever order answers come; and a page whose token another tab dropped is
\* locked by it.
PollingKeepsUp ==
  /\ <>[](~locked /\ containerData # Nothing) => <>[](containerData = world /\ stored # NoToken)
  /\ <>[](containerData # Nothing /\ stored = NoToken /\ pollTimer) => <>[]locked

ConsoleGoesOn == LoginEnds /\ PollingKeepsUp

-----------------------------------------------------------------------------
(* Dictation and reading aloud, in the navigation bar: two buttons, one      *)
(* `status` for both, the recognition that is current, and a browser whose   *)
(* recognitions and utterances start and end when they like.  What is said   *)
(* and the field it goes to are left out.  No variable is shared.            *)

CONSTANT MaxSounds  \* bound: how many recognitions, and how many utterances, are made

ASSUME SoundsAssumption == MaxSounds \in Nat

VARIABLES
  mounted,      \* the navigation bar with the buttons is shown
  micStatus,    \* voiceState.status
  recognition,  \* voiceState.recognition
  heard,        \* per recognition, what the browser does with it
  utterance,    \* per utterance, likewise
  talkedOver    \* an utterance set the status while a recognition was live (history)

dictationVars == <<mounted, micStatus, recognition, heard, utterance, talkedOver>>

Sounds == 1..MaxSounds
NoRecognition == 0
Live == {i \in Sounds : heard[i] = "live"}

DictationTypeOK ==
  /\ {mounted, talkedOver} \subseteq BOOLEAN
  /\ micStatus \in {"idle", "listening", "speaking"}
  /\ recognition \in {NoRecognition} \cup Sounds
  /\ heard \in [Sounds -> {"unused", "live", "stopping", "over"}]
  /\ utterance \in [Sounds -> {"unused", "queued", "spoken", "cancelled", "over"}]

DictationInit ==
  /\ mounted = TRUE /\ micStatus = "idle" /\ recognition = NoRecognition /\ talkedOver = FALSE
  /\ heard = [i \in Sounds |-> "unused"] /\ utterance = [u \in Sounds |-> "unused"]

\* The next recognition or utterance that was not made yet.
Fresh(f, i) == f[i] = "unused" /\ \A j \in Sounds : j < i => f[j] # "unused"

-----------------------------------------------------------------------------
(* The microphone. *)

\* startListening, which does nothing while the status is "listening".
MayListen == micStatus # "listening"

\* A browser may end an older recognition when another starts, with an event the
\* page ignores, or start none at all.
StartListening(i) ==
  /\ mounted /\ MayListen /\ Fresh(heard, i)
  /\ \/ /\ heard' \in {[heard EXCEPT ![i] = "live"],
                       [j \in Sounds |-> IF j = i THEN "live"
                                         ELSE IF heard[j] = "live" THEN "stopping" ELSE heard[j]]}
        /\ micStatus' = "listening" /\ recognition' = i
     \/ /\ heard' = [heard EXCEPT ![i] = "over"]
        /\ micStatus' = "idle" /\ recognition' = NoRecognition
  /\ UNCHANGED <<mounted, utterance, talkedOver>>

\* stopListening: a recognition told to stop still delivers what it heard.
Hushed ==
  IF recognition # NoRecognition /\ heard[recognition] = "live"
  THEN [heard EXCEPT ![recognition] = "stopping"] ELSE heard

StopListening ==
  /\ mounted /\ micStatus = "listening"
  /\ heard' = Hushed /\ recognition' = NoRecognition /\ micStatus' = "idle"
  /\ UNCHANGED <<mounted, utterance, talkedOver>>

\* onend and onerror, which only the current recognition may act on.
ActsOnEnd_Any(i) == TRUE
ActsOnEnd(i) == recognition = i

RecognitionOver(i) ==
  /\ heard[i] \in {"live", "stopping"}
  /\ heard' = [heard EXCEPT ![i] = "over"]
  /\ IF ActsOnEnd(i) THEN micStatus' = "idle" /\ recognition' = NoRecognition
     ELSE UNCHANGED <<micStatus, recognition>>
  /\ UNCHANGED <<mounted, utterance, talkedOver>>

-----------------------------------------------------------------------------
(* Reading aloud. *)

\* speechSynthesis.cancel(): the events of what it cancels come later.
Silent ==
  [u \in Sounds |-> IF utterance[u] \in {"queued", "spoken"} THEN "cancelled" ELSE utterance[u]]

SpeakText(u) ==
  /\ mounted /\ micStatus # "speaking" /\ Fresh(utterance, u)
  /\ utterance' = [Silent EXCEPT ![u] = "queued"]
  /\ UNCHANGED <<mounted, micStatus, recognition, heard, talkedOver>>

StopSpeaking ==
  /\ mounted /\ micStatus = "speaking"
  /\ utterance' = Silent /\ micStatus' = "idle"
  /\ UNCHANGED <<mounted, recognition, heard, talkedOver>>

UtteranceStarts(u) ==
  /\ utterance[u] = "queued"
  /\ utterance' = [utterance EXCEPT ![u] = "spoken"]
  /\ micStatus' = "speaking" /\ talkedOver' = (talkedOver \/ Live # {})
  /\ UNCHANGED <<mounted, recognition, heard>>

\* One that fails may never have started.
UtteranceOver(u) ==
  /\ utterance[u] \in {"queued", "spoken", "cancelled"}
  /\ utterance' = [utterance EXCEPT ![u] = "over"]
  /\ micStatus' = "idle" /\ talkedOver' = (talkedOver \/ Live # {})
  /\ UNCHANGED <<mounted, recognition, heard>>

-----------------------------------------------------------------------------
\* destroyVoice, when the console is locked, and the bar shown again.
DestroyVoice ==
  /\ mounted /\ mounted' = FALSE
  /\ heard' = Hushed /\ recognition' = NoRecognition /\ utterance' = Silent /\ micStatus' = "idle"
  /\ UNCHANGED talkedOver

InitVoice ==
  /\ ~mounted /\ mounted' = TRUE
  /\ UNCHANGED <<micStatus, recognition, heard, utterance, talkedOver>>

DictationNext ==
  \/ \E i \in Sounds : StartListening(i) \/ RecognitionOver(i)
  \/ \E u \in Sounds : SpeakText(u) \/ UtteranceStarts(u) \/ UtteranceOver(u)
  \/ StopListening \/ StopSpeaking \/ DestroyVoice \/ InitVoice

DictationSpec == DictationInit /\ [][DictationNext]_dictationVars

-----------------------------------------------------------------------------
\* The microphone is in reach: while the page says "listening" the current
\* recognition is live, so that its end will be noticed; and a live one is the
\* current one and said to be, so that a click or the locking of the console
\* stops it, unless something was read aloud meanwhile.
MicInReach ==
  /\ micStatus = "listening" => recognition \in Live
  /\ talkedOver \/ (Live \subseteq {recognition} /\ (Live # {} => micStatus = "listening"))

=============================================================================
