---------------------------- MODULE WizardPages ----------------------------
(***************************************************************************)
(* The pages of the setup wizard up to the review: how a provider comes to *)
(* be ready, which takes calls whose answers arrive in any order and may   *)
(* find the card changed meanwhile, and how the user gets from page to     *)
(* page.  What follows the review is in SetupWizard.                       *)
(***************************************************************************)
EXTENDS Integers, FiniteSets

CONSTANTS
  Vendors,     \* the providers: those the hardcoded list and OpenCode both know
  Detectable,  \* the ones looked for on this machine
  Ollama, Custom,
  Roles,       \* of the models that must be chosen: chat and embedding
  NoChoice,
  MaxAsks,    \* bound: calls made for providers
  MaxPolls     \* how often an authorization is asked for (120)

ASSUME PagesAssumption ==
  /\ Detectable \subseteq Vendors /\ Ollama \in Detectable /\ Custom \in Vendors
  /\ NoChoice \notin Vendors /\ MaxAsks \in Nat /\ MaxPolls \in Nat \ {0}

VARIABLES
  source,     \* of the providers: "asking", "hardcoded", "loading" or "opencode"
  detected,   \* the local providers have been looked for
  listed,     \* opencodeProviders
  selected, ready, verifying, polling, offering,  \* of providerState (offering: some models)
  ollamaMode,
  newest,     \* verifyGeneration
  made,       \* how many calls were made (bound); it also numbers them
  asks,       \* the calls on their way and the waits between them
  page, maxVisited,
  invalid,    \* the pages whose form would not pass (0: identity, 4: options)
  chosen, shown,  \* modelSelection; the providers whose models are on display
  answered    \* what the newest verification found, if nothing was done since (history)

formVars == <<page, maxVisited, invalid, chosen, shown>>
cardVars == <<source, detected, listed, selected, ollamaMode>>
pageVars == <<cardVars, ready, verifying, polling, offering, newest, made, asks, formVars, answered>>

Discovering == source \in {"loading", "opencode"}

PagesTypeOK ==
  /\ source \in {"asking", "hardcoded", "loading", "opencode"} /\ detected \in BOOLEAN
  /\ \A S \in {listed, selected, ready, verifying, polling, offering, shown} : S \subseteq Vendors
  /\ ollamaMode \in {"unset", "running", "instack"}
  /\ newest \in [Vendors -> 0..MaxAsks] /\ made \in 0..MaxAsks
  /\ asks \subseteq [by : {"verify", "connect", "authorize", "wait", "callback"},
                      of : Vendors, id : 1..MaxAsks, left : 0..MaxPolls]
  /\ page \in 0..5 /\ maxVisited \in page..5 /\ invalid \subseteq {0, 4}
  /\ chosen \in [Roles -> Vendors \cup {NoChoice}]
  /\ answered \in [Vendors -> {"open", "works", "fails"}]

PagesInit ==
  /\ source = "asking" /\ detected = FALSE
  /\ listed = {} /\ selected = {} /\ ready = {} /\ verifying = {} /\ polling = {} /\ offering = {}
  /\ ollamaMode = "unset" /\ newest = [p \in Vendors |-> 0] /\ made = 0 /\ asks = {}
  /\ page = 0 /\ maxVisited = 0 /\ invalid = {0}
  /\ chosen = [r \in Roles |-> NoChoice] /\ shown = {}
  /\ answered = [p \in Vendors |-> "open"]

\* getVerifiedProviders
Verified == ready \cap (IF Discovering THEN listed ELSE Vendors)

\* A set of providers becomes ready, or stops being so.
Counts(p, now) == ready' = IF now THEN ready \cup {p} ELSE ready \ {p}

Forgets(p) == answered' = [answered EXCEPT ![p] = "open"]

Asks(P, by) ==
  /\ IF P = {} THEN UNCHANGED made ELSE made < MaxAsks /\ made' = made + 1
  /\ verifying' = verifying \cup P
  /\ asks' = asks \cup {[by |-> by, of |-> p, id |-> made', left |-> 0] : p \in P}

-----------------------------------------------------------------------------
(* Discovery, when the page is opened.                                      *)

StatusAnswered ==
  /\ source = "asking" /\ source' \in {"hardcoded", "loading"}
  /\ UNCHANGED <<detected, listed, selected, ollamaMode, ready, verifying, polling, offering,
                 newest, made, asks, formVars, answered>>

\* OpenCode's providers, some of which have models, and the local ones; or no answer.
ProvidersAnswered ==
  /\ source = "loading" /\ source' = "opencode"
  /\ \/ UNCHANGED <<listed, offering>>
     \/ \E L \in SUBSET Vendors : \E M \in SUBSET L :
          /\ listed' = L \cup Detectable \cup {Custom} /\ offering' = offering \cup M
  /\ UNCHANGED <<detected, selected, ollamaMode, ready, verifying, polling,
                 newest, made, asks, formVars, answered>>

\* verifyProvider: an Ollama that will be part of the stack is not asked.
Verifies(P) ==
  LET asked == {p \in P : ~(p = Ollama /\ ollamaMode' = "instack")} IN
  /\ ready' = ready \cup (P \ asked)
  /\ Asks(asked, "verify")
  /\ newest' = [p \in Vendors |-> IF p \in asked THEN made' ELSE newest[p]]
  /\ answered' = [p \in Vendors |-> IF p \in P THEN "open" ELSE answered[p]]

\* detectProviders; a failure finds none.
Detected ==
  /\ source \in {"hardcoded", "opencode"} /\ ~detected /\ detected' = TRUE
  /\ \E F \in SUBSET Detectable :
       /\ selected' = IF Discovering THEN selected ELSE selected \cup F
       /\ ollamaMode' = IF ~Discovering /\ Ollama \in F \ selected THEN "running" ELSE ollamaMode
       /\ Verifies(F)
  /\ UNCHANGED <<source, listed, polling, offering, formVars>>

-----------------------------------------------------------------------------
(* The cards of the hardcoded providers.  Until OpenCode's are shown they   *)
(* can be clicked whatever the source.                                      *)
Hardcoded == page = 1 /\ source # "opencode"

Select(p) ==
  /\ Hardcoded /\ p \notin selected /\ selected' = selected \cup {p}
  /\ UNCHANGED <<source, detected, listed, ollamaMode, ready, verifying, polling, offering,
                 newest, made, asks, formVars, answered>>

Deselect(p) ==
  /\ Hardcoded /\ p \in selected /\ selected' = selected \ {p}
  /\ Counts(p, FALSE) /\ Forgets(p)
  /\ verifying' = verifying \ {p} /\ offering' = offering \ {p}
  /\ ollamaMode' = IF p = Ollama THEN "unset" ELSE ollamaMode
  /\ UNCHANGED <<source, detected, listed, polling, newest, made, asks, formVars>>

SetOllamaMode(m) ==
  /\ Hardcoded /\ Ollama \in selected /\ ollamaMode = "unset" /\ ollamaMode' = m
  /\ UNCHANGED <<source, detected, listed, selected, ready, verifying, polling, offering,
                 newest, made, asks, formVars, answered>>

\* The button is disabled during a verification, but for an Ollama in the stack.
Verify(p) ==
  /\ \/ /\ Hardcoded /\ p \in selected
        /\ IF p # Ollama THEN p \notin verifying
           ELSE \/ ollamaMode = "running" /\ p \notin verifying
                \/ ollamaMode = "instack" /\ p \notin ready
     \/ /\ page = 1 /\ source = "opencode" /\ p \in listed
        /\ p = Custom /\ p \notin ready \cup verifying
  /\ UNCHANGED cardVars
  /\ Verifies({p})
  /\ UNCHANGED <<polling, offering, formVars>>

\* A bug: every answer counts, in the order of their arrival.
Heeded_Any(c) == TRUE

\* No newer verification was started meanwhile.
Heeded(c) == c.id = newest[c.of]

VerifyAnswered(c) ==
  /\ c.by = "verify" /\ asks' = asks \ {c}
  /\ \E works, models \in BOOLEAN :
       /\ IF Heeded(c)
          THEN /\ Counts(c.of, works) /\ verifying' = verifying \ {c.of}
               /\ offering' = IF works /\ models THEN offering \cup {c.of} ELSE offering \ {c.of}
          ELSE UNCHANGED <<ready, verifying, offering>>
       /\ answered' = IF c.id # newest[c.of] THEN answered
                      ELSE [answered EXCEPT ![c.of] = IF works THEN "works" ELSE "fails"]
  /\ UNCHANGED <<cardVars, polling, newest, made, formVars>>

-----------------------------------------------------------------------------
(* The cards of OpenCode's providers; which of them take a key, an          *)
(* authorization or nothing is left open.                                   *)
OpenCard(p) == page = 1 /\ source = "opencode" /\ p \in listed

Disconnect(p) ==
  /\ OpenCard(p) /\ p \in ready /\ Counts(p, FALSE) /\ Forgets(p)
  /\ UNCHANGED <<cardVars, verifying, polling, offering, newest, made, asks, formVars>>

MarkReady(p) ==
  /\ OpenCard(p) /\ p \notin ready /\ Counts(p, TRUE) /\ Forgets(p)
  /\ UNCHANGED <<cardVars, verifying, polling, offering, newest, made, asks, formVars>>

\* connectOpenCodeApiKey and startOpenCodeOAuth.
Connect(p) ==
  /\ OpenCard(p) /\ p \notin ready \cup verifying
  /\ Asks({p}, "connect") \/ Asks({p}, "authorize")
  /\ UNCHANGED <<cardVars, ready, polling, offering, newest, formVars, answered>>

Connected(c) ==
  /\ c.by = "connect" /\ asks' = asks \ {c}
  /\ \E works \in BOOLEAN : Counts(c.of, works)
  /\ verifying' = verifying \ {c.of} /\ Forgets(c.of)
  /\ UNCHANGED <<cardVars, polling, offering, newest, made, formVars>>

\* The authorization page is open and the polls begin; or that failed.
Authorized(c) ==
  /\ c.by = "authorize"
  /\ \/ /\ asks' = (asks \ {c}) \cup {[c EXCEPT !.by = "wait", !.left = MaxPolls]}
        /\ polling' = polling \cup {c.of} /\ UNCHANGED verifying
     \/ /\ asks' = asks \ {c}
        /\ polling' = polling \ {c.of} /\ verifying' = verifying \ {c.of}
  /\ UNCHANGED <<cardVars, ready, offering, newest, made, formVars, answered>>

\* Five seconds on; what was cancelled is not polled for, unless it was begun anew.
Waited(c) ==
  /\ c.by = "wait"
  /\ asks' = (asks \ {c}) \cup {[c EXCEPT !.by = "callback"] : p \in {c.of} \cap polling}
  /\ UNCHANGED <<cardVars, ready, verifying, polling, offering, newest, made, formVars, answered>>

\* The last poll of an authorization that nobody cancelled.
TimesOut(c) == c.left = 1 /\ c.of \in polling

CalledBack(c) ==
  /\ c.by = "callback"
  /\ \E works \in BOOLEAN :
       /\ IF works THEN Counts(c.of, TRUE) /\ Forgets(c.of) ELSE UNCHANGED <<ready, answered>>
       /\ IF works \/ TimesOut(c)
          THEN polling' = polling \ {c.of} /\ verifying' = verifying \ {c.of}
          ELSE UNCHANGED <<polling, verifying>>
       /\ asks' = (asks \ {c}) \cup {[c EXCEPT !.by = "wait", !.left = @ - 1] :
                      p \in {q \in {c.of} \cap polling : ~works /\ c.left > 1}}
  /\ UNCHANGED <<cardVars, offering, newest, made, formVars>>

CancelOAuth(p) ==
  /\ OpenCard(p) /\ p \in polling /\ p \notin ready
  /\ polling' = polling \ {p} /\ verifying' = verifying \ {p}
  /\ UNCHANGED <<cardVars, ready, offering, newest, made, asks, formVars, answered>>

-----------------------------------------------------------------------------
(* The pages.                                                               *)

Offers == Verified \cap offering

ModelsChosen == \A r \in Roles : chosen[r] # NoChoice

\* buildModelOptions: a role without a choice gets one of what is on display.
Builds(c) ==
  /\ shown' = Offers
  /\ chosen' \in [Roles -> Vendors \cup {NoChoice}]
  /\ \A r \in Roles : IF c[r] = NoChoice /\ Offers # {} THEN chosen'[r] \in Offers ELSE chosen'[r] = c[r]

goToStep(n) ==
  /\ page' = n /\ maxVisited' = IF n > maxVisited THEN n ELSE maxVisited
  /\ IF n = 2 THEN Builds(chosen) ELSE shown' = {} /\ UNCHANGED chosen
  /\ UNCHANGED <<cardVars, ready, verifying, polling, offering, newest, made, asks, invalid, answered>>

NextPage ==
  /\ page < 5
  /\ page \in {0, 4} => page \notin invalid
  /\ page = 1 => Verified # {}
  /\ page = 2 => ModelsChosen
  /\ goToStep(page + 1)

BackPage == page > 0 /\ goToStep(page - 1)

\* To a page that was seen before, and forward only past forms that pass.
MayJump(n) ==
  /\ n <= maxVisited
  /\ n > page =>
       /\ n >= 1 => 0 \notin invalid
       /\ n >= 2 => Verified # {}
       /\ n >= 3 => ModelsChosen
       /\ n >= 5 => 4 \notin invalid

\* The labels of the progress bar; the edit buttons of the review lead back as they do.
JumpTo(n) == n \in 0..5 /\ MayJump(n) /\ goToStep(n)

\* Typing and toggling make a form pass, or no longer.
Edit ==
  /\ page \in {0, 4}
  /\ invalid' = IF page \in invalid THEN invalid \ {page} ELSE invalid \cup {page}
  /\ UNCHANGED <<cardVars, ready, verifying, polling, offering, newest, made, asks,
                 page, maxVisited, chosen, shown, answered>>

Choose(r, p) ==
  /\ page = 2 /\ p \in shown /\ Builds([chosen EXCEPT ![r] = p])
  /\ UNCHANGED <<cardVars, ready, verifying, polling, offering, newest, made, asks,
                 page, maxVisited, invalid, answered>>

-----------------------------------------------------------------------------
Answers(c) == VerifyAnswered(c) \/ Connected(c) \/ Authorized(c) \/ Waited(c) \/ CalledBack(c)

PagesNext ==
  \/ StatusAnswered \/ ProvidersAnswered \/ Detected
  \/ \E p \in Vendors :
       \/ Select(p) \/ Deselect(p) \/ Verify(p)
       \/ Disconnect(p) \/ MarkReady(p) \/ Connect(p) \/ CancelOAuth(p)
  \/ \E m \in {"running", "instack"} : SetOllamaMode(m)
  \/ \E c \in asks : Answers(c)
  \/ NextPage \/ BackPage \/ Edit
  \/ \E n \in 0..5 : JumpTo(n)
  \/ \E r \in Roles, p \in Vendors : Choose(r, p)

PagesSpec == PagesInit /\ [][PagesNext]_pageVars

(***************************************************************************)
(* Properties.                                                             *)
(***************************************************************************)
\* In whatever order answers arrive, a provider that nothing else was done to
\* is ready just when the newest verification found it to work.
NewestDecides ==
  \A p \in Vendors :
    /\ answered[p] = "works" => p \in ready
    /\ answered[p] = "fails" => p \notin ready

\* However the review was reached, by the buttons, the labels or back and forth
\* with edits between, both forms pass and every required model is chosen.
ReviewComplete == page = 5 => invalid = {} /\ ModelsChosen

\* No card spins for ever: whatever was cancelled, begun anew or overtaken, a
\* call or a wait is under way whose end stops the spinner.
SpinnerHasEnd ==
  \A p \in verifying : \E c \in asks :
    /\ c.of = p
    /\ c.by = "verify" => c.id = newest[p]
    /\ c.by \in {"wait", "callback"} => p \in polling

PagesHold == PagesTypeOK /\ NewestDecides /\ ReviewComplete /\ SpinnerHasEnd
=============================================================================
