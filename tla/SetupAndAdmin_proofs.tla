------------------------ MODULE SetupAndAdmin_proofs ------------------------
(***************************************************************************)
(* What a browser is shown of a stack.  While it is set up: the pages of   *)
(* the wizard, for any number of providers, roles, calls and polls: the    *)
(* newest verification decides, the review is reached complete, and no     *)
(* card spins without an end.  The payload made of what they collect, step *)
(* by step: what the disk has of it when the setup says that it is done.   *)
(* The files of an installation: what a run that succeeds has seen to, and *)
(* what it may overwrite.  And afterwards, the admin console: who is       *)
(* logged out, what a late answer may change, and that what is shown of    *)
(* providers, lists and the microphone is so.                              *)
(***************************************************************************)
EXTENDS WizardPages, SetupPayload, Installation, MCAdmin, FiniteSetTheorems, TLAPS

(***************************************************************************)
(* The pages.                                                              *)
(***************************************************************************)
Asked == [by : {"verify", "connect", "authorize", "wait", "callback"},
          of : Vendors, id : 1..MaxAsks, left : 0..MaxPolls]

\* An authorization under way has a poll left.
PollsLeft == \A c \in asks : c.by \in {"wait", "callback"} => c.left > 0

\* What the page one is on says of the forms behind it: ReviewComplete speaks of
\* the last page only, and is reached step by step.
FormsPass ==
  /\ page >= 1 => 0 \notin invalid
  /\ page >= 3 => ModelsChosen
  /\ page = 5 => 4 \notin invalid

PagesInv == PagesTypeOK /\ PollsLeft /\ NewestDecides /\ FormsPass /\ SpinnerHasEnd

\* All that a form does not touch.
restVars == <<cardVars, ready, verifying, polling, offering, newest, made, asks, answered>>

(***************************************************************************)
(* The forms and the pages.                                                *)
(***************************************************************************)
\* Filling the roles that are open takes no choice away.
LEMMA BuildsKeeps ==
  ASSUME NEW c \in [Roles -> Vendors \cup {NoChoice}], Builds(c), NoChoice \notin Vendors,
         ready \subseteq Vendors, offering \subseteq Vendors
  PROVE  /\ chosen' \in [Roles -> Vendors \cup {NoChoice}] /\ shown' \subseteq Vendors
         /\ \A r \in Roles : c[r] # NoChoice => chosen'[r] # NoChoice
BY DEF Builds, Offers, Verified

\* Going to a page keeps the types and the choices made.
LEMMA GoesToStep ==
  ASSUME PagesTypeOK, NEW n \in 0..5, goToStep(n)
  PROVE  /\ PagesTypeOK' /\ page' = n /\ UNCHANGED restVars /\ invalid' = invalid
         /\ ModelsChosen => ModelsChosen'
<1>1. chosen \in [Roles -> Vendors \cup {NoChoice}] /\ NoChoice \notin Vendors /\ ready \subseteq Vendors /\ offering \subseteq Vendors
  BY PagesAssumption DEF PagesTypeOK
<1>2. /\ chosen' \in [Roles -> Vendors \cup {NoChoice}] /\ shown' \subseteq Vendors
      /\ \A r \in Roles : chosen[r] # NoChoice => chosen'[r] # NoChoice
  <2>1. CASE n = 2
    BY <1>1, <2>1, BuildsKeeps DEF goToStep
  <2>2. CASE n # 2
    BY <1>1, <2>2 DEF goToStep
  <2> QED BY <2>1, <2>2
<1>3. ModelsChosen => ModelsChosen'
  BY <1>2 DEF ModelsChosen
<1>4. page' = n /\ UNCHANGED restVars /\ invalid' = invalid
  BY DEF goToStep, restVars
<1>5. page' \in 0..5 /\ maxVisited' \in page'..5
  BY DEF goToStep, PagesTypeOK
<1>6. PagesTypeOK'
  BY <1>2, <1>4, <1>5 DEF PagesTypeOK, restVars, cardVars
<1> QED BY <1>3, <1>4, <1>6

\* The forms behind the page one is on pass, whichever way one goes.
LEMMA FormStep ==
  ASSUME PagesTypeOK, FormsPass,
         NextPage \/ BackPage \/ Edit \/ (\E n \in 0..5 : JumpTo(n)) \/ \E r \in Roles, p \in Vendors : Choose(r, p)
  PROVE  PagesTypeOK' /\ FormsPass' /\ UNCHANGED restVars
<1>0. page \in 0..5 /\ maxVisited \in page..5
  BY DEF PagesTypeOK
<1>1. CASE NextPage
  <2>1. page + 1 \in 0..5 /\ goToStep(page + 1)
    BY <1>0, <1>1 DEF NextPage
  <2>2. PagesTypeOK' /\ page' = page + 1 /\ UNCHANGED restVars /\ invalid' = invalid /\ (ModelsChosen => ModelsChosen')
    BY <2>1, GoesToStep
  <2>3. page = 0 => 0 \notin invalid
    BY <1>1 DEF NextPage
  <2>4. page = 2 => ModelsChosen
    BY <1>1 DEF NextPage
  <2>5. page = 4 => 4 \notin invalid
    BY <1>1 DEF NextPage
  <2>6. page' >= 3 => ModelsChosen'
    BY <1>0, <2>2, <2>4 DEF FormsPass
  <2>7. (page' >= 1 => 0 \notin invalid') /\ (page' = 5 => 4 \notin invalid')
    BY <1>0, <2>2, <2>3, <2>5 DEF FormsPass
  <2> QED BY <2>2, <2>6, <2>7 DEF FormsPass
<1>2. CASE BackPage
  <2>1. page - 1 \in 0..5 /\ goToStep(page - 1)
    BY <1>0, <1>2 DEF BackPage
  <2>2. PagesTypeOK' /\ page' = page - 1 /\ UNCHANGED restVars /\ invalid' = invalid /\ (ModelsChosen => ModelsChosen')
    BY <2>1, GoesToStep
  <2>3. page' >= 3 => ModelsChosen'
    BY <1>0, <2>2 DEF FormsPass
  <2>4. (page' >= 1 => 0 \notin invalid') /\ (page' = 5 => 4 \notin invalid')
    BY <1>0, <2>2 DEF FormsPass
  <2> QED BY <2>2, <2>3, <2>4 DEF FormsPass
<1>3. CASE Edit
  <2>1. UNCHANGED restVars /\ page' = page /\ maxVisited' = maxVisited /\ chosen' = chosen /\ shown' = shown
    BY <1>3 DEF Edit, restVars
  <2>2. invalid' \subseteq {0, 4} /\ page \in {0, 4}
    BY <1>3 DEF Edit, PagesTypeOK
  <2>3. page = 4 => (0 \in invalid' <=> 0 \in invalid)
    BY <1>3 DEF Edit
  <2>4. PagesTypeOK'
    BY <2>1, <2>2 DEF PagesTypeOK, restVars, cardVars
  <2>5. FormsPass'
    BY <2>1, <2>2, <2>3 DEF FormsPass, ModelsChosen
  <2> QED BY <2>1, <2>4, <2>5
<1>4. ASSUME NEW n \in 0..5, JumpTo(n) PROVE PagesTypeOK' /\ FormsPass' /\ UNCHANGED restVars
  <2>1. goToStep(n) /\ MayJump(n)
    BY <1>4 DEF JumpTo
  <2>2. PagesTypeOK' /\ page' = n /\ UNCHANGED restVars /\ invalid' = invalid /\ (ModelsChosen => ModelsChosen')
    BY <2>1, GoesToStep
  <2>3. n >= 3 => ModelsChosen
    BY <1>0, <2>1 DEF MayJump, FormsPass
  <2>4. (n >= 1 => 0 \notin invalid) /\ (n = 5 => 4 \notin invalid)
    BY <1>0, <2>1 DEF MayJump, FormsPass
  <2> QED BY <2>2, <2>3, <2>4 DEF FormsPass
<1>5. ASSUME NEW r \in Roles, NEW p \in Vendors, Choose(r, p) PROVE PagesTypeOK' /\ FormsPass' /\ UNCHANGED restVars
  <2> DEFINE c == [chosen EXCEPT ![r] = p]
  <2>1. page = 2 /\ Builds(c)
    BY <1>5 DEF Choose
  <2>2. c \in [Roles -> Vendors \cup {NoChoice}] /\ NoChoice \notin Vendors /\ ready \subseteq Vendors /\ offering \subseteq Vendors
    BY PagesAssumption DEF PagesTypeOK
  <2>3. chosen' \in [Roles -> Vendors \cup {NoChoice}] /\ shown' \subseteq Vendors
    <3> HIDE DEF c
    <3> QED BY <2>1, <2>2, BuildsKeeps
  <2>4. UNCHANGED restVars /\ page' = page /\ maxVisited' = maxVisited /\ invalid' = invalid
    BY <1>5 DEF Choose, restVars
  <2>5. PagesTypeOK'
    BY <2>3, <2>4 DEF PagesTypeOK, restVars, cardVars
  <2> QED BY <2>1, <2>4, <2>5 DEF FormsPass
<1> QED BY <1>1, <1>2, <1>3, <1>4, <1>5

\* What touches neither page nor forms leaves them right.
LEMMA FormsRest ==
  ASSUME FormsPass, UNCHANGED formVars
  PROVE  FormsPass'
BY DEF FormsPass, ModelsChosen, formVars

\* What touches the forms only leaves the cards right.
LEMMA CardsRest ==
  ASSUME PollsLeft, NewestDecides, SpinnerHasEnd, UNCHANGED restVars
  PROVE  PollsLeft' /\ NewestDecides' /\ SpinnerHasEnd'
BY DEF PollsLeft, NewestDecides, SpinnerHasEnd, restVars

(***************************************************************************)
(* The cards.                                                              *)
(***************************************************************************)
\* What the cards owe: all of the invariant but the forms.
CardsInv == PagesTypeOK /\ PollsLeft /\ NewestDecides /\ SpinnerHasEnd

\* Calls that are made are numbered anew, each for a provider that spins.
LEMMA AsksTyped ==
  ASSUME PagesTypeOK, NEW P \in SUBSET Vendors, NEW by \in {"verify", "connect", "authorize"}, Asks(P, by)
  PROVE  /\ made' \in 0..MaxAsks /\ verifying' = verifying \cup P /\ asks' \subseteq Asked
         /\ asks \subseteq asks'
         /\ \A p \in P : [by |-> by, of |-> p, id |-> made', left |-> 0] \in asks'
         /\ \A c \in asks' \ asks : c.by = by /\ c.of \in P
<1>1. MaxAsks \in Nat /\ MaxPolls \in Nat \ {0} /\ made \in 0..MaxAsks /\ asks \subseteq Asked
  BY PagesAssumption DEF PagesTypeOK, Asked
<1>2. made' \in 0..MaxAsks /\ (P # {} => made' \in 1..MaxAsks)
  BY <1>1 DEF Asks
<1>3. asks' = asks \cup {[by |-> by, of |-> p, id |-> made', left |-> 0] : p \in P} /\ verifying' = verifying \cup P
  BY DEF Asks
<1>4. ASSUME NEW p \in P PROVE [by |-> by, of |-> p, id |-> made', left |-> 0] \in Asked
  BY <1>1, <1>2 DEF Asked
<1> QED BY <1>1, <1>2, <1>3, <1>4

\* A verification overtakes the ones before it, and ends what they left spinning.
LEMMA VerifiesStep ==
  ASSUME CardsInv, NEW P \in SUBSET Vendors, Verifies(P), polling' = polling
  PROVE  /\ ready' \subseteq Vendors /\ verifying' \subseteq Vendors /\ asks' \subseteq Asked
         /\ made' \in 0..MaxAsks /\ newest' \in [Vendors -> 0..MaxAsks]
         /\ answered' \in [Vendors -> {"open", "works", "fails"}]
         /\ PollsLeft' /\ NewestDecides' /\ SpinnerHasEnd'
<1> DEFINE sent == {p \in P : ~(p = Ollama /\ ollamaMode' = "instack")}
<1>1. sent \in SUBSET Vendors /\ sent \subseteq P
  OBVIOUS
<1>2. /\ ready' = ready \cup (P \ sent) /\ Asks(sent, "verify")
      /\ newest' = [p \in Vendors |-> IF p \in sent THEN made' ELSE newest[p]]
      /\ answered' = [p \in Vendors |-> IF p \in P THEN "open" ELSE answered[p]]
  BY DEF Verifies
<1> HIDE DEF sent
<1>3. PagesTypeOK /\ PollsLeft /\ NewestDecides /\ SpinnerHasEnd
  BY DEF CardsInv
<1>4. /\ made' \in 0..MaxAsks /\ verifying' = verifying \cup sent /\ asks' \subseteq Asked
      /\ asks \subseteq asks'
      /\ \A p \in sent : [by |-> "verify", of |-> p, id |-> made', left |-> 0] \in asks'
      /\ \A c \in asks' \ asks : c.by = "verify" /\ c.of \in sent
  BY <1>1, <1>2, <1>3, AsksTyped
<1>5. PollsLeft'
  BY <1>3, <1>4 DEF PollsLeft
<1>6. ready' \subseteq Vendors /\ verifying' \subseteq Vendors
  BY <1>1, <1>2, <1>3, <1>4 DEF PagesTypeOK
<1>7. newest' \in [Vendors -> 0..MaxAsks]
  BY <1>2, <1>3, <1>4 DEF PagesTypeOK
<1>8. answered' \in [Vendors -> {"open", "works", "fails"}]
  BY <1>2, <1>3 DEF PagesTypeOK
<1>9. NewestDecides'
  <2>1. ASSUME NEW p \in Vendors
        PROVE  /\ answered'[p] = "works" => p \in ready'
               /\ answered'[p] = "fails" => p \notin ready'
    <3>1. CASE p \in P
      BY <1>2, <3>1
    <3>2. CASE p \notin P
      <4>1. answered'[p] = answered[p]
        BY <1>2, <3>2
      <4>2. p \in ready' <=> p \in ready
        BY <1>2, <3>2
      <4> QED BY <1>3, <4>1, <4>2 DEF NewestDecides
    <3> QED BY <3>1, <3>2
  <2> QED BY <2>1 DEF NewestDecides
<1>10. SpinnerHasEnd'
  <2>1. ASSUME NEW p \in Vendors, p \in sent
        PROVE  \E c \in asks' : c.of = p /\ c.by = "verify" /\ c.id = newest'[p]
    <3> DEFINE d == [by |-> "verify", of |-> p, id |-> made', left |-> 0]
    <3>1. d \in asks' /\ newest'[p] = made'
      BY <1>2, <1>4, <2>1
    <3>2. d.of = p /\ d.id = newest'[p] /\ d.by = "verify"
      BY <3>1
    <3> HIDE DEF d
    <3> QED BY <3>1, <3>2
  <2>2. ASSUME NEW p \in Vendors, p \in verifying' \ sent
        PROVE  p \in verifying /\ newest'[p] = newest[p]
    BY <1>2, <1>4, <2>2
  <2> QED BY <1>3, <1>4, <1>6, <2>1, <2>2 DEF SpinnerHasEnd
<1> QED BY <1>4, <1>5, <1>6, <1>7, <1>8, <1>9, <1>10

\* The page is opened, and finds its providers.
LEMMA DiscoveryStep ==
  ASSUME CardsInv, StatusAnswered \/ ProvidersAnswered \/ Detected
  PROVE  CardsInv' /\ UNCHANGED formVars
<1>0. PagesTypeOK /\ PollsLeft /\ NewestDecides /\ SpinnerHasEnd
  BY DEF CardsInv
<1>1. CASE StatusAnswered
  <2>1. PagesTypeOK'
    BY <1>0, <1>1 DEF StatusAnswered, PagesTypeOK, formVars
  <2>2. PollsLeft' /\ NewestDecides' /\ SpinnerHasEnd'
    BY <1>0, <1>1 DEF StatusAnswered, PollsLeft, NewestDecides, SpinnerHasEnd
  <2> QED BY <1>1, <2>1, <2>2 DEF StatusAnswered, CardsInv
<1>2. CASE ProvidersAnswered
  <2>1. listed' \subseteq Vendors /\ offering' \subseteq Vendors
    BY <1>0, <1>2, PagesAssumption DEF ProvidersAnswered, PagesTypeOK
  <2>2. PagesTypeOK'
    BY <1>0, <1>2, <2>1 DEF ProvidersAnswered, PagesTypeOK, formVars
  <2>3. PollsLeft' /\ NewestDecides' /\ SpinnerHasEnd'
    BY <1>0, <1>2 DEF ProvidersAnswered, PollsLeft, NewestDecides, SpinnerHasEnd
  <2> QED BY <1>2, <2>2, <2>3 DEF ProvidersAnswered, CardsInv
<1>3. CASE Detected
  <2>1. PICK F \in SUBSET Detectable :
          /\ selected' = IF Discovering THEN selected ELSE selected \cup F
          /\ ollamaMode' = IF ~Discovering /\ Ollama \in F \ selected THEN "running" ELSE ollamaMode
          /\ Verifies(F)
    BY <1>3 DEF Detected
  <2>2. F \in SUBSET Vendors /\ selected' \subseteq Vendors /\ ollamaMode' \in {"unset", "running", "instack"}
    BY <1>0, <2>1, PagesAssumption DEF PagesTypeOK
  <2>3. polling' = polling /\ source' = source /\ listed' = listed /\ offering' = offering /\ UNCHANGED formVars /\ detected' = TRUE
    BY <1>3 DEF Detected
  <2>4. /\ ready' \subseteq Vendors /\ verifying' \subseteq Vendors /\ asks' \subseteq Asked
        /\ made' \in 0..MaxAsks /\ newest' \in [Vendors -> 0..MaxAsks]
        /\ answered' \in [Vendors -> {"open", "works", "fails"}]
        /\ PollsLeft' /\ NewestDecides' /\ SpinnerHasEnd'
    BY <2>1, <2>2, <2>3, VerifiesStep
  <2>5. PagesTypeOK'
    BY <1>0, <2>2, <2>3, <2>4 DEF PagesTypeOK, formVars, Asked
  <2> QED BY <2>3, <2>4, <2>5 DEF CardsInv
<1> QED BY <1>1, <1>2, <1>3

\* A click on a card.
LEMMA ClickStep ==
  ASSUME CardsInv, NEW p \in Vendors,
         \/ Select(p) \/ Deselect(p) \/ Verify(p) \/ Disconnect(p) \/ MarkReady(p) \/ Connect(p) \/ CancelOAuth(p)
  PROVE  CardsInv' /\ UNCHANGED formVars
<1>0. PagesTypeOK /\ PollsLeft /\ NewestDecides /\ SpinnerHasEnd
  BY DEF CardsInv
<1>a. answered \in [Vendors -> {"open", "works", "fails"}]
  BY <1>0 DEF PagesTypeOK
<1>b. ASSUME Forgets(p), ready' \in {ready, ready \cup {p}, ready \ {p}} PROVE NewestDecides' /\ answered' \in [Vendors -> {"open", "works", "fails"}]
  BY <1>0, <1>a, <1>b DEF Forgets, NewestDecides
<1>1. CASE Select(p)
  <2>1. PagesTypeOK'
    BY <1>0, <1>1 DEF Select, PagesTypeOK, formVars
  <2>2. PollsLeft' /\ NewestDecides' /\ SpinnerHasEnd'
    BY <1>0, <1>1 DEF Select, PollsLeft, NewestDecides, SpinnerHasEnd
  <2> QED BY <1>1, <2>1, <2>2 DEF Select, CardsInv
<1>2. CASE Deselect(p)
  <2>1. NewestDecides' /\ answered' \in [Vendors -> {"open", "works", "fails"}]
    BY <1>b, <1>2 DEF Deselect, Counts
  <2>2. PagesTypeOK'
    BY <1>0, <1>2, <2>1 DEF Deselect, Counts, PagesTypeOK, formVars
  <2>3. PollsLeft' /\ SpinnerHasEnd'
    BY <1>0, <1>2 DEF Deselect, PollsLeft, SpinnerHasEnd
  <2> QED BY <1>2, <2>1, <2>2, <2>3 DEF Deselect, CardsInv
<1>3. CASE Verify(p)
  <2>1. Verifies({p}) /\ polling' = polling /\ offering' = offering /\ UNCHANGED cardVars /\ UNCHANGED formVars
    BY <1>3 DEF Verify
  <2>2. {p} \in SUBSET Vendors
    OBVIOUS
  <2>3. /\ ready' \subseteq Vendors /\ verifying' \subseteq Vendors /\ asks' \subseteq Asked
        /\ made' \in 0..MaxAsks /\ newest' \in [Vendors -> 0..MaxAsks]
        /\ answered' \in [Vendors -> {"open", "works", "fails"}]
        /\ PollsLeft' /\ NewestDecides' /\ SpinnerHasEnd'
    BY <2>1, <2>2, VerifiesStep
  <2>4. PagesTypeOK'
    BY <1>0, <2>1, <2>3 DEF PagesTypeOK, formVars, cardVars, Asked
  <2> QED BY <2>1, <2>3, <2>4 DEF CardsInv
<1>4. CASE Disconnect(p)
  <2>1. NewestDecides' /\ answered' \in [Vendors -> {"open", "works", "fails"}]
    BY <1>b, <1>4 DEF Disconnect, Counts
  <2>2. PagesTypeOK'
    BY <1>0, <1>4, <2>1 DEF Disconnect, Counts, PagesTypeOK, formVars, cardVars
  <2>3. PollsLeft' /\ SpinnerHasEnd'
    BY <1>0, <1>4 DEF Disconnect, PollsLeft, SpinnerHasEnd
  <2> QED BY <1>4, <2>1, <2>2, <2>3 DEF Disconnect, CardsInv
<1>5. CASE MarkReady(p)
  <2>1. NewestDecides' /\ answered' \in [Vendors -> {"open", "works", "fails"}]
    BY <1>b, <1>5 DEF MarkReady, Counts
  <2>2. PagesTypeOK'
    BY <1>0, <1>5, <2>1 DEF MarkReady, Counts, PagesTypeOK, formVars, cardVars
  <2>3. PollsLeft' /\ SpinnerHasEnd'
    BY <1>0, <1>5 DEF MarkReady, PollsLeft, SpinnerHasEnd
  <2> QED BY <1>5, <2>1, <2>2, <2>3 DEF MarkReady, CardsInv
<1>6. CASE Connect(p)
  <2>1. PICK by \in {"connect", "authorize"} : Asks({p}, by)
    BY <1>6 DEF Connect
  <2>2. UNCHANGED <<cardVars, ready, polling, offering, newest, formVars, answered>>
    BY <1>6 DEF Connect
  <2>3. /\ made' \in 0..MaxAsks /\ verifying' = verifying \cup {p} /\ asks' \subseteq Asked
        /\ asks \subseteq asks'
        /\ [by |-> by, of |-> p, id |-> made', left |-> 0] \in asks'
        /\ \A c \in asks' \ asks : c.by = by
    <3>1. {p} \in SUBSET Vendors /\ by \in {"verify", "connect", "authorize"}
      OBVIOUS
    <3> QED BY <1>0, <2>1, <3>1, AsksTyped
  <2>4. PagesTypeOK'
    BY <1>0, <2>2, <2>3 DEF PagesTypeOK, formVars, cardVars, Asked
  <2>5. PollsLeft'
    BY <1>0, <2>3 DEF PollsLeft
  <2>6. NewestDecides'
    BY <1>0, <2>2 DEF NewestDecides
  <2>7. SpinnerHasEnd'
    <3> DEFINE d == [by |-> by, of |-> p, id |-> made', left |-> 0]
    <3>1. d \in asks' /\ d.of = p /\ d.by \notin {"verify", "wait", "callback"}
      BY <2>3
    <3> HIDE DEF d
    <3> QED BY <1>0, <2>2, <2>3, <3>1 DEF SpinnerHasEnd
  <2> QED BY <2>2, <2>4, <2>5, <2>6, <2>7 DEF CardsInv
<1>7. CASE CancelOAuth(p)
  <2>1. PagesTypeOK'
    BY <1>0, <1>7 DEF CancelOAuth, PagesTypeOK, formVars, cardVars
  <2>2. PollsLeft' /\ NewestDecides' /\ SpinnerHasEnd'
    BY <1>0, <1>7 DEF CancelOAuth, PollsLeft, NewestDecides, SpinnerHasEnd
  <2> QED BY <1>7, <2>1, <2>2 DEF CancelOAuth, CardsInv
<1> QED BY <1>1, <1>2, <1>3, <1>4, <1>5, <1>6, <1>7

(***************************************************************************)
(* Answers.                                                                *)
(***************************************************************************)
\* The wait before a poll is for the same provider.
LEMMA BecomesWait ==
  ASSUME NEW c \in Asked, NEW n \in 1..MaxPolls
  PROVE  /\ [c EXCEPT !.by = "wait", !.left = n] \in Asked
         /\ [c EXCEPT !.by = "wait", !.left = n].of = c.of
         /\ [c EXCEPT !.by = "wait", !.left = n].by = "wait"
         /\ [c EXCEPT !.by = "wait", !.left = n].left = n
<1>1. n \in 0..MaxPolls
  BY PagesAssumption
<1> QED BY <1>1 DEF Asked

\* The poll after a wait is the same one.
LEMMA BecomesPoll ==
  ASSUME NEW c \in Asked
  PROVE  /\ [c EXCEPT !.by = "callback"] \in Asked
         /\ [c EXCEPT !.by = "callback"].of = c.of
         /\ [c EXCEPT !.by = "callback"].by = "callback"
         /\ [c EXCEPT !.by = "callback"].left = c.left
BY DEF Asked

\* What an answer may do to the calls: the call ends, or goes on as another that
\* has polls left; a provider that still spins keeps one.
LEMMA CallsGoOn ==
  ASSUME CardsInv, NEW c \in asks, NEW N \in SUBSET Asked, asks' = (asks \ {c}) \cup N,
         newest' = newest, verifying' \subseteq verifying,
         \A d \in N : d.of = c.of /\ d.by \in {"wait", "callback"} /\ d.left > 0,
         \A q \in polling : q # c.of => q \in polling',
         \/ c.of \notin verifying'
         \/ c.by = "verify" /\ c.id # newest[c.of] /\ polling' = polling
         \/ N # {} /\ c.of \in polling'
         \/ c.by \in {"wait", "callback"} /\ c.of \notin polling /\ polling' = polling
  PROVE  asks' \subseteq Asked /\ PollsLeft' /\ SpinnerHasEnd'
<1>1. PagesTypeOK /\ PollsLeft /\ SpinnerHasEnd /\ asks \subseteq Asked
  BY DEF CardsInv, PagesTypeOK, Asked
<1>2. asks' \subseteq Asked
  BY <1>1
<1>3. PollsLeft'
  BY <1>1 DEF PollsLeft
<1>4. ASSUME NEW p \in verifying'
      PROVE  \E d \in asks' : /\ d.of = p
                              /\ d.by = "verify" => d.id = newest[p]
                              /\ d.by \in {"wait", "callback"} => p \in polling'
  <2>1. PICK e \in asks : /\ e.of = p
                          /\ e.by = "verify" => e.id = newest[p]
                          /\ e.by \in {"wait", "callback"} => p \in polling
    BY <1>1 DEF SpinnerHasEnd
  <2>2. CASE p # c.of
    <3>1. e \in asks'
      BY <2>1, <2>2
    <3> QED BY <2>1, <2>2, <3>1
  <2>3. CASE p = c.of /\ N # {} /\ c.of \in polling'
    <3>1. PICK d \in N : TRUE
      BY <2>3
    <3>2. d \in asks' /\ d.of = p /\ d.by \in {"wait", "callback"}
      BY <2>3, <3>1
    <3> QED BY <2>3, <3>2
  <2>4. CASE p = c.of /\ ~(N # {} /\ c.of \in polling')
    <3>1. polling' = polling /\ e # c
      BY <2>1, <2>4
    <3> QED BY <2>1, <3>1
  <2> QED BY <2>2, <2>3, <2>4
<1>5. SpinnerHasEnd'
  BY <1>4 DEF SpinnerHasEnd
<1> QED BY <1>2, <1>3, <1>5

\* Whatever comes back, in whatever order.
LEMMA AnswerStep ==
  ASSUME CardsInv, NEW c \in asks, Answers(c)
  PROVE  CardsInv' /\ UNCHANGED formVars
<1>0. PagesTypeOK /\ PollsLeft /\ NewestDecides /\ SpinnerHasEnd
  BY DEF CardsInv
<1>1. c \in Asked /\ c.of \in Vendors /\ asks \subseteq Asked /\ MaxPolls \in Nat \ {0}
  BY <1>0, PagesAssumption DEF PagesTypeOK, Asked
<1>2. {} \in SUBSET Asked /\ asks \ {c} = (asks \ {c}) \cup {}
  OBVIOUS
<1>3. CASE VerifyAnswered(c)
  <2>1. PICK works \in BOOLEAN, models \in BOOLEAN :
          /\ IF Heeded(c)
             THEN /\ Counts(c.of, works) /\ verifying' = verifying \ {c.of}
                  /\ offering' = IF works /\ models THEN offering \cup {c.of} ELSE offering \ {c.of}
             ELSE UNCHANGED <<ready, verifying, offering>>
          /\ answered' = IF c.id # newest[c.of] THEN answered
                         ELSE [answered EXCEPT ![c.of] = IF works THEN "works" ELSE "fails"]
    BY <1>3 DEF VerifyAnswered
  <2>2. c.by = "verify" /\ asks' = asks \ {c} /\ UNCHANGED <<cardVars, polling, newest, made, formVars>>
    BY <1>3 DEF VerifyAnswered
  <2>3. /\ ready' \subseteq Vendors /\ verifying' \subseteq Vendors /\ verifying' \subseteq verifying /\ offering' \subseteq Vendors
        /\ answered' \in [Vendors -> {"open", "works", "fails"}]
    BY <1>0, <1>1, <2>1 DEF PagesTypeOK, Counts
  <2>4. NewestDecides'
    <3>1. CASE c.id = newest[c.of]
      BY <1>0, <1>1, <2>1, <3>1 DEF NewestDecides, Counts, Heeded, PagesTypeOK
    <3>2. CASE c.id # newest[c.of]
      BY <1>0, <2>1, <3>2 DEF NewestDecides, Heeded
    <3> QED BY <3>1, <3>2
  <2>5. c.of \notin verifying' \/ (c.by = "verify" /\ c.id # newest[c.of] /\ polling' = polling)
    BY <2>1, <2>2 DEF Heeded
  <2>6. asks' \subseteq Asked /\ PollsLeft' /\ SpinnerHasEnd'
    <3>1. asks' = (asks \ {c}) \cup {} /\ newest' = newest /\ polling' = polling
      BY <1>2, <2>2
    <3> QED BY <1>2, <2>3, <2>5, <3>1, CallsGoOn
  <2>7. PagesTypeOK'
    BY <1>0, <2>2, <2>3, <2>6 DEF PagesTypeOK, formVars, cardVars, Asked
  <2> QED BY <2>2, <2>4, <2>6, <2>7 DEF CardsInv
<1>4. CASE Connected(c)
  <2>1. /\ asks' = asks \ {c} /\ verifying' = verifying \ {c.of} /\ Forgets(c.of)
        /\ ready' \in {ready \cup {c.of}, ready \ {c.of}}
        /\ UNCHANGED <<cardVars, polling, offering, newest, made, formVars>>
    BY <1>4 DEF Connected, Counts
  <2>2. ready' \subseteq Vendors /\ verifying' \subseteq verifying /\ answered' \in [Vendors -> {"open", "works", "fails"}]
    BY <1>0, <1>1, <2>1 DEF PagesTypeOK, Forgets
  <2>3. NewestDecides'
    BY <1>0, <1>1, <2>1 DEF PagesTypeOK, Forgets, NewestDecides
  <2>4. asks' \subseteq Asked /\ PollsLeft' /\ SpinnerHasEnd'
    <3>1. asks' = (asks \ {c}) \cup {} /\ newest' = newest /\ polling' = polling /\ c.of \notin verifying'
      BY <1>2, <2>1
    <3> QED BY <1>2, <2>2, <3>1, CallsGoOn
  <2>5. PagesTypeOK'
    BY <1>0, <2>1, <2>2, <2>4 DEF PagesTypeOK, formVars, cardVars, Asked
  <2> QED BY <2>1, <2>3, <2>4, <2>5 DEF CardsInv
<1>5. CASE Authorized(c)
  <2>1. UNCHANGED <<cardVars, ready, offering, newest, made, formVars, answered>>
    BY <1>5 DEF Authorized
  <2>2. NewestDecides'
    BY <1>0, <2>1 DEF NewestDecides
  <2>3. polling' \subseteq Vendors /\ verifying' \subseteq verifying
    BY <1>0, <1>1, <1>5 DEF Authorized, PagesTypeOK
  <2>4. asks' \subseteq Asked /\ PollsLeft' /\ SpinnerHasEnd'
    <3> DEFINE d == [c EXCEPT !.by = "wait", !.left = MaxPolls]
    <3>1. d \in Asked /\ d.of = c.of /\ d.by = "wait" /\ d.left > 0
      <4>1. MaxPolls \in 1..MaxPolls /\ MaxPolls > 0
        BY <1>1
      <4> QED BY <1>1, <4>1, BecomesWait
    <3>2. CASE asks' = (asks \ {c}) \cup {d} /\ polling' = polling \cup {c.of}
      <4> HIDE DEF d
      <4>1. {d} \in SUBSET Asked /\ newest' = newest
        BY <2>1, <3>1
      <4> QED BY <2>3, <3>1, <3>2, <4>1, CallsGoOn
    <3>3. CASE asks' = asks \ {c} /\ polling' = polling \ {c.of} /\ verifying' = verifying \ {c.of}
      <4>1. asks' = (asks \ {c}) \cup {} /\ newest' = newest /\ c.of \notin verifying'
        BY <1>2, <2>1, <3>3
      <4> QED BY <1>2, <2>3, <3>3, <4>1, CallsGoOn
    <3> QED BY <1>5, <3>2, <3>3 DEF Authorized
  <2>5. PagesTypeOK'
    BY <1>0, <2>1, <2>3, <2>4 DEF PagesTypeOK, formVars, cardVars, Asked
  <2> QED BY <2>1, <2>2, <2>4, <2>5 DEF CardsInv
<1>6. CASE Waited(c)
  <2>1. UNCHANGED <<cardVars, ready, verifying, polling, offering, newest, made, formVars, answered>>
    BY <1>6 DEF Waited
  <2>2. NewestDecides'
    BY <1>0, <2>1 DEF NewestDecides
  <2>3. asks' \subseteq Asked /\ PollsLeft' /\ SpinnerHasEnd'
    <3> DEFINE d == [c EXCEPT !.by = "callback"]
               N == {d : p \in {c.of} \cap polling}
    <3>1. c.by = "wait" /\ asks' = (asks \ {c}) \cup N
      BY <1>6 DEF Waited
    <3>2. c.left > 0 /\ c.left \in 1..MaxPolls
      BY <1>0, <1>1, <3>1 DEF PollsLeft, Asked
    <3>3. d \in Asked /\ d.of = c.of /\ d.by = "callback" /\ d.left > 0
      BY <1>1, <3>2, BecomesPoll
    <3> HIDE DEF d
    <3>4. N \in SUBSET Asked /\ (\A e \in N : e = d) /\ (N # {} <=> c.of \in polling)
      BY <3>3
    <3> HIDE DEF N
    <3>5. newest' = newest /\ verifying' \subseteq verifying /\ polling' = polling
      BY <2>1
    <3> QED BY <3>1, <3>3, <3>4, <3>5, CallsGoOn
  <2>4. PagesTypeOK'
    BY <1>0, <2>1, <2>3 DEF PagesTypeOK, formVars, cardVars, Asked
  <2> QED BY <2>1, <2>2, <2>3, <2>4 DEF CardsInv
<1>7. CASE CalledBack(c)
  <2>1. UNCHANGED <<cardVars, offering, newest, made, formVars>> /\ c.by = "callback"
    BY <1>7 DEF CalledBack
  <2>2. PICK works \in BOOLEAN :
       /\ IF works THEN Counts(c.of, TRUE) /\ Forgets(c.of) ELSE UNCHANGED <<ready, answered>>
       /\ IF works \/ TimesOut(c)
          THEN polling' = polling \ {c.of} /\ verifying' = verifying \ {c.of}
          ELSE UNCHANGED <<polling, verifying>>
       /\ asks' = (asks \ {c}) \cup {[c EXCEPT !.by = "wait", !.left = @ - 1] :
                      p \in {q \in {c.of} \cap polling : ~works /\ c.left > 1}}
    BY <1>7 DEF CalledBack
  <2>3. NewestDecides' /\ ready' \subseteq Vendors /\ answered' \in [Vendors -> {"open", "works", "fails"}]
    BY <1>0, <1>1, <2>2 DEF NewestDecides, Counts, Forgets, PagesTypeOK
  <2>4. polling' \subseteq Vendors /\ verifying' \subseteq verifying /\ newest' = newest
    BY <1>0, <2>1, <2>2 DEF PagesTypeOK
  <2>5. c.left \in 1..MaxPolls
    BY <1>0, <1>1, <2>1 DEF PollsLeft, Asked
  <2>6. asks' \subseteq Asked /\ PollsLeft' /\ SpinnerHasEnd'
    <3>1. CASE works \/ c.left = 1 \/ c.of \notin polling
      <4>1. asks' = (asks \ {c}) \cup {}
        BY <2>2, <2>5, <3>1
      <4>2. \/ c.of \notin verifying'
            \/ c.by \in {"wait", "callback"} /\ c.of \notin polling /\ polling' = polling
        BY <2>1, <2>2, <3>1 DEF TimesOut
      <4>3. \A q \in polling : q # c.of => q \in polling'
        BY <2>2
      <4> QED BY <1>2, <2>4, <4>1, <4>2, <4>3, CallsGoOn
    <3>2. CASE ~works /\ c.left # 1 /\ c.of \in polling
      <4> DEFINE d == [c EXCEPT !.by = "wait", !.left = c.left - 1]
      <4>1. c.left - 1 \in 1..MaxPolls /\ c.left > 1 /\ c.left - 1 > 0
        BY <1>1, <2>5, <3>2
      <4>2. d \in Asked /\ d.of = c.of /\ d.by = "wait" /\ d.left > 0
        BY <1>1, <4>1, BecomesWait
      <4>3. asks' = (asks \ {c}) \cup {d}
        BY <2>2, <3>2, <4>1
      <4>4. polling' = polling
        BY <2>2, <3>2 DEF TimesOut
      <4> HIDE DEF d
      <4>5. {d} \in SUBSET Asked
        BY <4>2
      <4> QED BY <2>4, <3>2, <4>2, <4>3, <4>4, <4>5, CallsGoOn
    <3> QED BY <3>1, <3>2
  <2>7. PagesTypeOK'
    BY <1>0, <2>1, <2>3, <2>4, <2>6 DEF PagesTypeOK, formVars, cardVars, Asked
  <2> QED BY <2>1, <2>3, <2>6, <2>7 DEF CardsInv
<1> QED BY <1>3, <1>4, <1>5, <1>6, <1>7 DEF Answers

(***************************************************************************)
(* The theorems.                                                           *)
(***************************************************************************)
\* The page that opens satisfies the invariant.
LEMMA PagesInitially == PagesInit => PagesInv
<1> SUFFICES ASSUME PagesInit PROVE PagesInv
  OBVIOUS
<1>1. PagesTypeOK
  <2>1. newest \in [Vendors -> 0..MaxAsks] /\ made \in 0..MaxAsks
    BY PagesAssumption DEF PagesInit
  <2>2. chosen \in [Roles -> Vendors \cup {NoChoice}] /\ answered \in [Vendors -> {"open", "works", "fails"}]
    BY DEF PagesInit
  <2>3. page \in 0..5 /\ maxVisited \in page..5 /\ invalid \subseteq {0, 4}
    BY DEF PagesInit
  <2> QED BY <2>1, <2>2, <2>3 DEF PagesInit, PagesTypeOK
<1> QED BY <1>1 DEF PagesInit, PagesInv, PollsLeft, NewestDecides, FormsPass, SpinnerHasEnd

\* Every step keeps it.
LEMMA PagesStep == PagesInv /\ [PagesNext]_pageVars => PagesInv'
<1> SUFFICES ASSUME PagesInv, [PagesNext]_pageVars PROVE PagesInv'
  OBVIOUS
<1>1. CardsInv /\ PagesTypeOK /\ PollsLeft /\ NewestDecides /\ FormsPass /\ SpinnerHasEnd
  BY DEF PagesInv, CardsInv
<1>2. ASSUME CardsInv' /\ UNCHANGED formVars PROVE PagesInv'
  BY <1>1, <1>2, FormsRest DEF PagesInv, CardsInv
<1>3. ASSUME PagesTypeOK' /\ FormsPass' /\ UNCHANGED restVars PROVE PagesInv'
  BY <1>1, <1>3, CardsRest DEF PagesInv
<1>4. CASE StatusAnswered \/ ProvidersAnswered \/ Detected
  BY <1>1, <1>2, <1>4, DiscoveryStep
<1>5. ASSUME NEW p \in Vendors,
             \/ Select(p) \/ Deselect(p) \/ Verify(p) \/ Disconnect(p) \/ MarkReady(p) \/ Connect(p) \/ CancelOAuth(p)
      PROVE  PagesInv'
  BY <1>1, <1>2, <1>5, ClickStep
<1>6. ASSUME NEW m \in {"running", "instack"}, SetOllamaMode(m) PROVE PagesInv'
  <2>1. PagesTypeOK' /\ UNCHANGED formVars
    BY <1>1, <1>6 DEF SetOllamaMode, PagesTypeOK, formVars
  <2>2. PollsLeft' /\ NewestDecides' /\ SpinnerHasEnd'
    BY <1>1, <1>6 DEF SetOllamaMode, PollsLeft, NewestDecides, SpinnerHasEnd
  <2> QED BY <1>2, <2>1, <2>2 DEF CardsInv
<1>7. ASSUME NEW c \in asks, Answers(c) PROVE PagesInv'
  BY <1>1, <1>2, <1>7, AnswerStep
<1>8. CASE NextPage \/ BackPage \/ Edit \/ (\E n \in 0..5 : JumpTo(n)) \/ \E r \in Roles, p \in Vendors : Choose(r, p)
  BY <1>1, <1>3, <1>8, FormStep
<1>9. CASE UNCHANGED pageVars
  <2>1. UNCHANGED restVars /\ UNCHANGED formVars
    BY <1>9 DEF pageVars, restVars, cardVars, formVars
  <2>2. PagesTypeOK'
    BY <1>1, <2>1 DEF PagesTypeOK, restVars, cardVars, formVars
  <2> QED BY <1>1, <1>3, <2>1, <2>2, FormsRest
<1> QED BY <1>4, <1>5, <1>6, <1>7, <1>8, <1>9 DEF PagesNext

\* For any providers, calls and polls: an older verification never decides, the
\* review is never shown with something missing, and no card spins without an end.
THEOREM PagesAreSound == PagesSpec => []PagesHold
<1>1. PagesInv => PagesHold
  <2>1. PagesInv => ReviewComplete
    <3> SUFFICES ASSUME PagesInv, page = 5 PROVE invalid = {} /\ ModelsChosen
      BY DEF ReviewComplete
    <3>1. invalid \subseteq {0, 4}
      BY DEF PagesInv, PagesTypeOK
    <3> QED BY <3>1 DEF PagesInv, FormsPass
  <2> QED BY <2>1 DEF PagesInv, PagesHold
<1> QED BY <1>1, PagesInitially, PagesStep, PTL DEF PagesSpec

(***************************************************************************)
(* The payload of a setup.                                                 *)
(***************************************************************************)
\* A form with which the review can be had.
Passes(f) ==
  /\ f \in Forms /\ f.model["llm"] # NoProvider /\ f.model["embeddings"] # NoProvider
  /\ \A c \in f.extras \cap Channels : f.token[c] # NoSecret

\* What the payload made of a review has of it.
Faithful(P, R) ==
  /\ \A r \in ModelRoles :
       /\ P.capabilities[r].model = R.model[r]
       /\ \/ P.capabilities[r].provider = R.model[r]
          \/ r # "slm" /\ P.capabilities[r].provider = NoProvider /\ R.model[r] \notin DOMAIN P.connections
  /\ P.userId = R.userId \/ (R.userId = NoId /\ P.userId # OddId)
  /\ P.reranking = R.reranking
  /\ \A p \in DOMAIN P.connections : P.connections[p] = R.key[p]
  /\ \A c \in R.extras \cap Channels : R.token[c] # NoSecret => c \in DOMAIN P.credentials /\ P.credentials[c] = R.token[c]

Refused(P) == P.userId = OddId \/ P.capabilities["embeddings"].provider = NoProvider

\* What the disk has of a payload.
HasSecrets(d, P) ==
  /\ ~Refused(P)
  /\ \A p \in DOMAIN P.connections \cap Keyed : P.connections[p] # NoSecret => d.key[p] = P.connections[p]
  /\ \A c \in DOMAIN P.credentials : d.token[c] = P.credentials[c]
HasSpec(d, P) ==
  d.spec # None /\ d.spec.capabilities = P.capabilities /\ d.spec.userId = P.userId /\ d.spec.reranking = P.reranking
Coherent(d) ==
  /\ d.spec # None /\ d.resolved # None
  /\ \A r \in ModelRoles :
       /\ d.resolved[r].cap = d.spec.capabilities[r]
       /\ d.resolved[r].key = IF d.spec.capabilities[r].provider \in Keyed
                              THEN d.key[d.spec.capabilities[r].provider] ELSE NoSecret

\* How the pages, the setup that is under way and the disk go together.
Together(sc, rv, po, st, sa, se, d, pa) ==
  /\ po \in Posts \/ po = None
  /\ st # "idle" => po \in Posts /\ sa \in {"nothing", "waiting"}
  /\ se = "going" => st = "idle"
  /\ sc \in {"review", "deploy"} \/ sa # "nothing" => Passes(rv)
  /\ po \in Posts /\ ~po.edited => Passes(po.review) /\ Faithful(po.payload, po.review)
  /\ st \in {"system", "spec", "resolve", "complete"} => HasSecrets(d, po.payload)
  /\ st \in {"resolve", "complete"} => HasSpec(d, po.payload)
  /\ st = "complete" => Coherent(d)
  /\ po \in Posts /\ (se = "going" \/ sa = "done") => HasSecrets(d, po.payload) /\ HasSpec(d, po.payload) /\ Coherent(d)
  /\ sa = "refused" => po \in Posts /\ Refused(po.payload)
  /\ d.complete => pa # "none"
  /\ d.complete /\ pa # "cut" /\ st \in {"idle", "check"} => Coherent(d)

PayloadInv == PayloadTypeOK /\ Together(screen, review, posted, step, said, server, disk, past)

\* What a review is made of is a form that passes, and so on.
LEMMA PayloadInvBounds == PayloadInv => PayloadHolds /\ CompleteIsOneSetup
<1> SUFFICES ASSUME PayloadInv PROVE PayloadHolds /\ CompleteIsOneSetup
  OBVIOUS
<1>1. PayloadTypeOK /\ Together(screen, review, posted, step, said, server, disk, past)
  BY DEF PayloadInv
<1>2. CompleteIsOneSetup
  BY <1>1 DEF Together, CompleteIsOneSetup, Coherent, KeyOf
<1>3. RefusedForCause
  <2> SUFFICES ASSUME said = "refused", posted.review.userId # OddId, ~posted.edited
               PROVE  posted.review.model["embeddings"] \notin DOMAIN Payload.connections
    BY DEF RefusedForCause
  <2>1. PICK P, R : P = posted.payload /\ R = posted.review
    OBVIOUS
  <2>2. Refused(P) /\ Passes(R) /\ Faithful(P, R)
    BY <1>1, <2>1 DEF Together
  <2>3. P.userId # OddId
    BY <2>1, <2>2 DEF Faithful
  <2>4. P.capabilities["embeddings"].provider = NoProvider
    BY <2>2, <2>3 DEF Refused
  <2>5. R.model["embeddings"] \notin DOMAIN P.connections
    BY <2>2, <2>4 DEF Faithful, Passes, ModelRoles
  <2> QED BY <2>1, <2>5 DEF Payload
<1>4. InstalledAsReviewed
  <2> SUFFICES ASSUME said = "done", posted # None, ~posted.edited
               PROVE  /\ \A r \in ModelRoles :
                           /\ disk.resolved[r].cap.model = posted.review.model[r]
                           /\ \/ disk.resolved[r].cap.provider = posted.review.model[r]
                              \/ r = "llm" /\ disk.resolved[r].cap.provider = NoProvider
                           /\ disk.resolved[r].cap.provider \in DOMAIN Payload.connections \cap Keyed /\ posted.review.key[disk.resolved[r].cap.provider] # NoSecret
                                => disk.resolved[r].key = posted.review.key[disk.resolved[r].cap.provider]
                           /\ disk.resolved[r].cap.provider \notin Keyed => disk.resolved[r].key = NoSecret
                      /\ disk.spec.userId = posted.review.userId \/ posted.review.userId = NoId
                      /\ disk.spec.reranking = posted.review.reranking
                      /\ \A c \in posted.review.extras \cap Channels : disk.token[c] = posted.review.token[c]
    BY DEF InstalledAsReviewed
  <2>1. PICK P, R, d : P = posted.payload /\ R = posted.review /\ d = disk
    OBVIOUS
  <2>2. posted \in Posts /\ P \in Payloads /\ R \in Forms /\ d \in Disks
    <3>1. posted \in Posts /\ disk \in Disks
      BY <1>1 DEF PayloadTypeOK
    <3> QED BY <1>1, <2>1, <3>1 DEF Posts
  <2>3. Passes(R) /\ Faithful(P, R) /\ HasSecrets(d, P) /\ HasSpec(d, P) /\ Coherent(d)
    BY <1>1, <2>1, <2>2 DEF Together
  <2>4. P.capabilities["embeddings"].provider # NoProvider
    BY <2>3 DEF HasSecrets, Refused
  <2>5. ASSUME NEW r \in ModelRoles
        PROVE  /\ d.resolved[r].cap.model = R.model[r]
               /\ d.resolved[r].cap.provider = R.model[r] \/ (r = "llm" /\ d.resolved[r].cap.provider = NoProvider)
               /\ d.resolved[r].cap.provider \in DOMAIN P.connections \cap Keyed /\ R.key[d.resolved[r].cap.provider] # NoSecret
                    => d.resolved[r].key = R.key[d.resolved[r].cap.provider]
               /\ d.resolved[r].cap.provider \notin Keyed => d.resolved[r].key = NoSecret
    <3>1. PICK c : c = P.capabilities[r]
      OBVIOUS
    <3>2. d.resolved[r].cap = c /\ d.resolved[r].key = IF c.provider \in Keyed THEN d.key[c.provider] ELSE NoSecret
      BY <2>3, <3>1 DEF Coherent, HasSpec
    <3>3. c.model = R.model[r] /\ (c.provider = R.model[r] \/ (r # "slm" /\ c.provider = NoProvider))
      BY <2>3, <3>1 DEF Faithful
    <3>4. c.provider = R.model[r] \/ (r = "llm" /\ c.provider = NoProvider)
      BY <2>4, <3>1, <3>3 DEF ModelRoles
    <3>5. c.provider \in DOMAIN P.connections \cap Keyed /\ R.key[c.provider] # NoSecret => d.key[c.provider] = R.key[c.provider]
      BY <2>3 DEF Faithful, HasSecrets
    <3> QED BY <3>2, <3>3, <3>4, <3>5
  <2>6. /\ d.spec.userId = R.userId \/ R.userId = NoId
        /\ d.spec.reranking = R.reranking
    BY <2>3 DEF HasSpec, Faithful
  <2>7. \A c \in R.extras \cap Channels : d.token[c] = R.token[c]
    BY <2>3 DEF Passes, Faithful, HasSecrets
  <2>8. ASSUME NEW r \in ModelRoles
        PROVE  /\ disk.resolved[r].cap.model = posted.review.model[r]
               /\ \/ disk.resolved[r].cap.provider = posted.review.model[r]
                  \/ r = "llm" /\ disk.resolved[r].cap.provider = NoProvider
               /\ disk.resolved[r].cap.provider \in DOMAIN Payload.connections \cap Keyed /\ posted.review.key[disk.resolved[r].cap.provider] # NoSecret
                    => disk.resolved[r].key = posted.review.key[disk.resolved[r].cap.provider]
               /\ disk.resolved[r].cap.provider \notin Keyed => disk.resolved[r].key = NoSecret
    <3>1. P.connections = Payload.connections
      BY <2>1 DEF Payload
    <3> QED BY <2>1, <2>5, <3>1
  <2> QED BY <2>1, <2>6, <2>7, <2>8
<1> QED BY <1>1, <1>2, <1>3, <1>4 DEF PayloadHolds

\* A payload that is made of a form is one, and what is made of a form that
\* the review shows is faithful to it.
LEMMA PayloadIsMade ==
  ASSUME NEW f \in Forms, verified \subseteq Providers
  PROVE  buildPayload(f) \in Payloads /\ Faithful(buildPayload(f), f)
<1> DEFINE P == buildPayload(f)
<1>1. /\ f.model \in [ModelRoles -> Providers \cup {NoProvider}]
      /\ f.key \in [Providers -> Secrets \cup {NoSecret}]
      /\ f.owner \in Latin \cup Foreign /\ f.userId \in UserIds
      /\ f.extras \in SUBSET Extras /\ f.token \in [Channels -> Secrets \cup {NoSecret}]
      /\ f.reranking \in Rerankings
  BY DEF Forms
<1>2. /\ P.capabilities = [r \in ModelRoles |-> Capability(f, r)] /\ P.userId = UserId(f)
      /\ P.reranking = f.reranking /\ P.connections = [p \in Connections(f) |-> f.key[p]]
      /\ P.addons = f.extras /\ P.credentials = Credentials(f)
  BY DEF buildPayload
<1>3. ASSUME NEW r \in ModelRoles
      PROVE  /\ Capability(f, r) \in Capable
             /\ Capability(f, r).model = f.model[r]
             /\ \/ Capability(f, r).provider = f.model[r]
                \/ r # "slm" /\ Capability(f, r).provider = NoProvider /\ f.model[r] \notin Connections(f)
  BY <1>1 DEF Capability, NoCapability, Capable
<1>4. UserId(f) \in UserIds /\ (UserId(f) = f.userId \/ (f.userId = NoId /\ UserId(f) # OddId))
  BY <1>1, PayloadAssumption DEF UserId, Slug, UserIds, PayloadAssumption
<1>5. Connections(f) \subseteq Providers
  BY DEF Connections
<1>6. [p \in Connections(f) |-> f.key[p]] \in [Connections(f) -> Secrets \cup {NoSecret}]
  BY <1>1, <1>5
<1>7. Credentials(f) \in [{d \in f.extras \cap Channels : f.token[d] # NoSecret} -> Secrets]
  BY <1>1 DEF Credentials
<1>8. P \in Payloads
  <2>1. P.capabilities \in Capabilities
    BY <1>2, <1>3 DEF Capabilities
  <2>2. P.connections \in UNION {[S -> Secrets \cup {NoSecret}] : S \in SUBSET Providers}
    BY <1>2, <1>5, <1>6
  <2>3. P.credentials \in UNION {[S -> Secrets] : S \in SUBSET Channels}
    <3>1. {d \in f.extras \cap Channels : f.token[d] # NoSecret} \in SUBSET Channels
      OBVIOUS
    <3> QED BY <1>2, <1>7, <3>1
  <2> QED BY <1>1, <1>2, <1>4, <2>1, <2>2, <2>3 DEF Payloads, buildPayload
<1>9. Faithful(P, f)
  <2>1. DOMAIN P.connections = Connections(f)
    BY <1>2
  <2>2. ASSUME NEW c \in f.extras \cap Channels, f.token[c] # NoSecret
        PROVE  c \in DOMAIN P.credentials /\ P.credentials[c] = f.token[c]
    BY <1>2, <2>2 DEF Credentials
  <2>3. \A r \in ModelRoles : P.capabilities[r] = Capability(f, r)
    BY <1>2
  <2> HIDE DEF P
  <2> QED BY <1>2, <1>3, <1>4, <2>1, <2>2, <2>3 DEF Faithful
<1> QED BY <1>8, <1>9

\* What the pages do on their own keeps the invariant, as long as the review
\* shows a form that passes.
LEMMA PagesAlone ==
  ASSUME PayloadInv, form' \in Forms, verified' \subseteq Providers,
         screen' \in {"form", "review"}, review' = review \/ Passes(review'),
         screen' = "review" => Passes(review'),
         edits' \in 0..MaxEdits, UNCHANGED ServerSide
  PROVE  PayloadInv'
<1>1. PayloadTypeOK'
  BY DEF PayloadInv, PayloadTypeOK, ServerSide, Passes
<1>2. Together(screen', review', posted, step, said, server, disk, past)
  BY DEF PayloadInv, Together
<1>3. Together(screen', review', posted', step', said', server', disk', past')
  BY <1>2 DEF ServerSide
<1> QED BY <1>1, <1>3 DEF PayloadInv

LEMMA NewFormIsForm == NewForm \in Forms
<1>1. (CHOOSE n \in Latin : TRUE) \in Latin
  BY PayloadAssumption DEF PayloadAssumption
<1> QED BY <1>1, PayloadAssumption DEF PayloadAssumption, NewForm, Forms, UserIds, Rerankings, Extras

LEMMA PayloadStarts == PayloadInit => PayloadInv
<1> SUFFICES ASSUME PayloadInit PROVE PayloadInv
  OBVIOUS
<1>2. NewForm \in Forms
  BY NewFormIsForm
<1>3. disk \in Disks
  BY DEF PayloadInit, Disks
<1>4. PayloadTypeOK
  BY <1>2, <1>3, PayloadAssumption DEF PayloadAssumption, PayloadInit, PayloadTypeOK
<1>5. posted \notin Posts
  BY PayloadAssumption DEF PayloadAssumption, PayloadInit
<1>6. Together(screen, review, posted, step, said, server, disk, past)
  BY <1>5 DEF PayloadInit, Together
<1> QED BY <1>4, <1>6 DEF PayloadInv

\* A card may change while any page is open, and write to auth.json.
LEMMA CardKeeps == ASSUME PayloadInv, NEW q \in Providers, CardChanges(q) PROVE PayloadInv'
<1>1. PayloadTypeOK /\ Together(screen, review, posted, step, said, server, disk, past)
  BY DEF PayloadInv
<1>2. edits' \in 0..MaxEdits
  BY <1>1, PayloadAssumption DEF PayloadAssumption, CardChanges, CountEdit, PayloadTypeOK
<1>3. form' \in Forms /\ verified' \subseteq Providers
  <2>1. CASE verified' = verified \ {q} /\ UNCHANGED form
    BY <1>1, <2>1 DEF PayloadTypeOK
  <2>2. CASE \E k \in Secrets \cup {NoSecret} :
               verified' = verified \cup {q} /\ form' = [form EXCEPT !.key[q] = IF screen = "form" THEN k ELSE @]
    <3>1. PICK k \in Secrets \cup {NoSecret} :
            verified' = verified \cup {q} /\ form' = [form EXCEPT !.key[q] = IF screen = "form" THEN k ELSE @]
      BY <2>2
    <3>2. form \in Forms
      BY <1>1 DEF PayloadTypeOK
    <3>3. (IF screen = "form" THEN k ELSE form.key[q]) \in Secrets \cup {NoSecret}
      BY <3>2 DEF Forms
    <3>4. [form.key EXCEPT ![q] = IF screen = "form" THEN k ELSE @] \in [Providers -> Secrets \cup {NoSecret}]
      BY <3>2, <3>3 DEF Forms
    <3> QED BY <1>1, <3>1, <3>2, <3>4 DEF PayloadTypeOK, Forms
  <2> QED BY <2>1, <2>2 DEF CardChanges
<1>4. disk' = disk \/ \E a \in Secrets : disk' = [disk EXCEPT !.auth[q] = a]
  BY DEF CardChanges
<1>5. disk \in Disks
  BY <1>1 DEF PayloadTypeOK
<1>6. /\ disk' \in Disks /\ disk'.key = disk.key /\ disk'.token = disk.token /\ disk'.spec = disk.spec
      /\ disk'.resolved = disk.resolved /\ disk'.complete = disk.complete
  <2>1. CASE disk' = disk
    BY <1>5, <2>1
  <2>2. CASE \E a \in Secrets : disk' = [disk EXCEPT !.auth[q] = a]
    <3>1. PICK a \in Secrets : disk' = [disk EXCEPT !.auth[q] = a]
      BY <2>2
    <3>2. [disk.auth EXCEPT ![q] = a] \in [Providers -> Secrets \cup {NoSecret}]
      BY <1>5 DEF Disks
    <3> QED BY <1>5, <3>1, <3>2 DEF Disks
  <2> QED BY <1>4, <2>1, <2>2
<1>7. PayloadTypeOK'
  BY <1>1, <1>2, <1>3, <1>6 DEF CardChanges, PayloadTypeOK
<1>8. ASSUME NEW d, d.key = disk.key, d.token = disk.token, d.spec = disk.spec, d.resolved = disk.resolved, d.complete = disk.complete
      PROVE  Together(screen, review, posted, step, said, server, d, past)
  BY <1>1, <1>8 DEF Together, HasSecrets, HasSpec, Coherent
<1>9. Together(screen', review', posted', step', said', server', disk', past')
  BY <1>6, <1>8 DEF CardChanges
<1> QED BY <1>7, <1>9 DEF PayloadInv

\* The pages: models are picked, answers typed, the review opened and left.
LEMMA PicksKeeps == ASSUME PayloadInv, PicksModels PROVE PayloadInv'
<1>1. form' \in Forms
  BY DEF PayloadInv, PayloadTypeOK, PicksModels, Forms
<1> QED BY <1>1, PagesAlone DEF PicksModels, PayloadInv, PayloadTypeOK

LEMMA TypesKeeps == ASSUME PayloadInv, NEW f \in Forms, Types(f) PROVE PayloadInv'
<1>1. edits' \in 0..MaxEdits
  BY PayloadAssumption DEF PayloadAssumption, Types, CountEdit, PayloadInv, PayloadTypeOK
<1> QED BY <1>1, PagesAlone DEF Types, PayloadInv, PayloadTypeOK

LEMMA OptionsKeeps == ASSUME PayloadInv, OpensOptions PROVE PayloadInv'
<1>1. form' \in Forms
  BY DEF PayloadInv, PayloadTypeOK, OpensOptions, Slug, Forms, UserIds
<1> QED BY <1>1, PagesAlone DEF OpensOptions, PayloadInv, PayloadTypeOK

LEMMA OpensKeeps == ASSUME PayloadInv, OpensReview PROVE PayloadInv'
<1>1. Passes(review')
  BY DEF PayloadInv, PayloadTypeOK, OpensReview, Passes, TokensGiven
<1> QED BY <1>1, PagesAlone DEF OpensReview, PayloadInv, PayloadTypeOK

LEMMA LeavesKeeps == ASSUME PayloadInv, LeavesReview PROVE PayloadInv'
  BY PagesAlone DEF LeavesReview, PayloadInv, PayloadTypeOK

\* Every answer that is typed leaves a form.
LEMMA TypedIsForm ==
  ASSUME NEW f \in Forms
  PROVE  /\ \A r \in ModelRoles, p \in Providers : [f EXCEPT !.model[r] = p] \in Forms
         /\ \A n \in Latin \cup Foreign : [f EXCEPT !.owner = n] \in Forms
         /\ \A u \in UserIds : [f EXCEPT !.userId = u] \in Forms
         /\ \A e \in Extras : [f EXCEPT !.extras = IF e \in @ THEN @ \ {e} ELSE @ \cup {e}] \in Forms
         /\ \A c \in Channels, t \in Secrets : [f EXCEPT !.token[c] = t] \in Forms
         /\ \A m \in Rerankings : [f EXCEPT !.reranking = m] \in Forms
<1>1. ASSUME NEW r \in ModelRoles, NEW p \in Providers PROVE [f EXCEPT !.model[r] = p] \in Forms
  <2>1. [f.model EXCEPT ![r] = p] \in [ModelRoles -> Providers \cup {NoProvider}]
    BY DEF Forms
  <2> QED BY <2>1 DEF Forms
<1>2. ASSUME NEW e \in Extras PROVE [f EXCEPT !.extras = IF e \in @ THEN @ \ {e} ELSE @ \cup {e}] \in Forms
  <2>1. (IF e \in f.extras THEN f.extras \ {e} ELSE f.extras \cup {e}) \in SUBSET Extras
    BY DEF Forms
  <2> QED BY <2>1 DEF Forms
<1>3. ASSUME NEW c \in Channels, NEW t \in Secrets PROVE [f EXCEPT !.token[c] = t] \in Forms
  <2>1. [f.token EXCEPT ![c] = t] \in [Channels -> Secrets \cup {NoSecret}]
    BY DEF Forms
  <2> QED BY <2>1 DEF Forms
<1> QED BY <1>1, <1>2, <1>3 DEF Forms

\* The server and the setup.
LEMMA ReloadsKeeps == ASSUME PayloadInv, ReloadsPage PROVE PayloadInv'
<1>1. PayloadTypeOK'
  BY NewFormIsForm, PayloadAssumption
     DEF PayloadAssumption, ReloadsPage, Opens, CountEdit, PayloadInv, PayloadTypeOK
<1>2. Together(screen, review, posted, step, said, server, disk, past)
  BY DEF PayloadInv
<1>3. PICK sc : sc = screen' /\ sc \in {"form", "away"}
  BY DEF ReloadsPage, Opens, PayloadInv, PayloadTypeOK
<1>4. Together(sc, None, posted, step, "nothing", server, disk, past)
  BY <1>2, <1>3 DEF Together
<1>5. Together(screen', review', posted', step', said', server', disk', past')
  BY <1>3, <1>4 DEF ReloadsPage, Opens
<1> QED BY <1>1, <1>5 DEF PayloadInv

LEMMA InstallsKeeps == ASSUME PayloadInv, Installs PROVE PayloadInv'
<1>1. PayloadTypeOK /\ Together(screen, review, posted, step, said, server, disk, past)
  BY DEF PayloadInv
<1>2. screen \in {"review", "deploy"} /\ step = "idle" /\ Passes(review)
  BY <1>1 DEF Installs, Together
<1>3. CASE server = "going"
  <2>1. /\ screen' = "deploy" /\ said' = "done"
        /\ UNCHANGED <<form, verified, review, posted, step, server, disk, enabled, edits, kills, past>>
    BY <1>3 DEF Installs
  <2>2. Together("deploy", review, posted, step, "done", server, disk, past)
    BY <1>1, <1>2, <1>3 DEF Together
  <2>3. PayloadTypeOK'
    BY <1>1, <2>1 DEF PayloadTypeOK
  <2>4. Together(screen', review', posted', step', said', server', disk', past')
    BY <2>1, <2>2
  <2> QED BY <2>3, <2>4 DEF PayloadInv
<1>4. CASE server # "going"
  <2>1. PICK P : P = [payload |-> buildPayload(form), review |-> review, edited |-> form # review]
    OBVIOUS
  <2>2. /\ posted' = P /\ step' = "check" /\ said' = "waiting" /\ screen' = screen
        /\ UNCHANGED <<form, verified, review, server, disk, enabled, edits, kills, past>>
    BY <1>4, <2>1 DEF Installs
  <2>3. buildPayload(form) \in Payloads /\ Faithful(buildPayload(form), form)
    BY <1>1, PayloadIsMade DEF PayloadTypeOK
  <2>4. P \in Posts /\ P.payload = buildPayload(form) /\ P.review = review /\ P.edited = (form # review)
    BY <1>2, <2>1, <2>3 DEF Posts, Passes
  <2>5. ~P.edited => Passes(P.review) /\ Faithful(P.payload, P.review)
    BY <1>2, <2>3, <2>4
  <2>6. Together(screen, review, P, "check", "waiting", server, disk, past)
    BY <1>1, <1>2, <1>4, <2>4, <2>5 DEF Together
  <2>7. PayloadTypeOK'
    BY <1>1, <2>2, <2>4 DEF PayloadTypeOK
  <2>8. Together(screen', review', posted', step', said', server', disk', past')
    BY <2>2, <2>6
  <2> QED BY <2>7, <2>8 DEF PayloadInv
<1> QED BY <1>3, <1>4

LEMMA DeploymentKeeps == ASSUME PayloadInv, DeploymentFails PROVE PayloadInv'
<1>1. PayloadTypeOK'
  BY DEF DeploymentFails, PayloadInv, PayloadTypeOK
<1>2. Together(screen, review, posted, step, said, "failed", disk, past)
  BY DEF DeploymentFails, PayloadInv, Together
<1>3. Together(screen', review', posted', step', said', server', disk', past')
  BY <1>2 DEF DeploymentFails
<1> QED BY <1>1, <1>3 DEF PayloadInv

\* What is refused is what the invariant says is refused.
LEMMA RejectedKeeps == ASSUME PayloadInv, Rejected PROVE PayloadInv'
<1>1. PayloadTypeOK /\ Together(screen, review, posted, step, said, server, disk, past)
  BY DEF PayloadInv
<1>2. PICK sa : sa = said' /\ sa \in {"nothing", "refused"} /\ (sa # "nothing" => said # "nothing")
  BY <1>1 DEF Rejected, Tells, Together
<1>3. Refused(posted.payload)
  BY DEF Rejected, Invalid, Refused, Payload
<1>4. step = "check"
  BY DEF Rejected
<1>5. Together(screen, review, posted, "idle", sa, server, disk, past)
  BY <1>1, <1>2, <1>3, <1>4 DEF Together
<1>6. PayloadTypeOK'
  BY <1>1, <1>2 DEF Rejected, PayloadTypeOK
<1>7. Together(screen', review', posted', step', said', server', disk', past')
  BY <1>2, <1>5 DEF Rejected
<1> QED BY <1>6, <1>7 DEF PayloadInv

\* The keys of the payload and the tokens are on the disk: no key of auth.json
\* stands before one that was typed.
LEMMA SavedSecretsKeep == ASSUME PayloadInv, SavesSecrets PROVE PayloadInv'
<1>1. PayloadTypeOK /\ Together(screen, review, posted, step, said, server, disk, past)
  BY DEF PayloadInv
<1>2. PICK d : d = disk'
  OBVIOUS
<1>3. step = "check" /\ posted \in Posts /\ ~Refused(posted.payload)
  BY <1>1 DEF SavesSecrets, Does, Invalid, Refused, Payload, Together
<1>4. disk \in Disks
  BY <1>1 DEF PayloadTypeOK
<1>5. PICK P : P = posted.payload /\ P \in Payloads
  BY <1>3 DEF Posts
<1>6. PICK S \in SUBSET Providers : P.connections \in [S -> Secrets \cup {NoSecret}]
  BY <1>5 DEF Payloads
<1>7. PICK C \in SUBSET Channels : P.credentials \in [C -> Secrets]
  BY <1>5 DEF Payloads
<1>8. PICK k : k = [q \in Keyed |-> Key(q)]
  OBVIOUS
<1>9. PICK t : t = [c \in Channels |-> IF c \in DOMAIN P.credentials THEN P.credentials[c] ELSE disk.token[c]]
  OBVIOUS
<1>10. d = [disk EXCEPT !.admin = TRUE, !.key = k, !.token = t]
  BY <1>2, <1>5, <1>8, <1>9 DEF SavesSecrets, Payload
<1>11. ASSUME NEW q \in Keyed
       PROVE  Key(q) \in Secrets \cup {NoSecret} /\ (q \in S /\ P.connections[q] # NoSecret => Key(q) = P.connections[q])
  <2>1. disk.auth[q] \in Secrets \cup {NoSecret} /\ disk.key[q] \in Secrets \cup {NoSecret}
    BY <1>4, PayloadAssumption DEF Disks, PayloadAssumption
  <2>2. q \in S => P.connections[q] \in Secrets \cup {NoSecret}
    BY <1>6
  <2>3. DOMAIN P.connections = S
    BY <1>6
  <2> QED BY <1>5, <2>1, <2>2, <2>3 DEF Key, Payload
<1>12. k \in [Keyed -> Secrets \cup {NoSecret}]
  BY <1>8, <1>11
<1>13. t \in [Channels -> Secrets \cup {NoSecret}] /\ \A c \in C : t[c] = P.credentials[c]
  BY <1>4, <1>7, <1>9 DEF Disks
<1>14. d \in Disks /\ d.key = k /\ d.token = t /\ d.complete = disk.complete
  BY <1>4, <1>10, <1>12, <1>13 DEF Disks
<1>15. \A q \in DOMAIN P.connections \cap Keyed : P.connections[q] # NoSecret => d.key[q] = P.connections[q]
  BY <1>6, <1>8, <1>11, <1>14
<1>16. \A c \in DOMAIN P.credentials : d.token[c] = P.credentials[c]
  BY <1>7, <1>13, <1>14
<1>17. HasSecrets(d, posted.payload)
  BY <1>3, <1>5, <1>15, <1>16 DEF HasSecrets
<1>18. Together(screen, review, posted, "system", said, server, d, past)
  BY <1>1, <1>3, <1>14, <1>17 DEF Together
<1>19. PayloadTypeOK'
  BY <1>1, <1>2, <1>14 DEF SavesSecrets, Does, Continues, PayloadTypeOK
<1>20. Together(screen', review', posted', step', said', server', disk', past')
  BY <1>2, <1>18 DEF SavesSecrets, Does, Continues
<1> QED BY <1>19, <1>20 DEF PayloadInv

LEMMA TokensKeep == ASSUME PayloadInv, SavesTokens PROVE PayloadInv'
<1>1. PayloadTypeOK'
  BY DEF SavesTokens, Does, Continues, PayloadInv, PayloadTypeOK
<1>2. Together(screen, review, posted, "spec", said, server, disk, past)
  BY DEF SavesTokens, Does, PayloadInv, Together
<1>3. Together(screen', review', posted', step', said', server', disk', past')
  BY <1>2 DEF SavesTokens, Does, Continues
<1> QED BY <1>1, <1>3 DEF PayloadInv

LEMMA SpecKeeps == ASSUME PayloadInv, SavesSpec PROVE PayloadInv'
<1>1. PayloadTypeOK /\ Together(screen, review, posted, step, said, server, disk, past)
  BY DEF PayloadInv
<1>2. step = "spec" /\ posted \in Posts /\ disk \in Disks
  BY <1>1 DEF SavesSpec, Does, PayloadTypeOK, Together
<1>3. PICK d, P, s : /\ d = disk' /\ P = posted.payload
                     /\ s = [capabilities |-> P.capabilities, userId |-> P.userId, reranking |-> P.reranking]
  OBVIOUS
<1>4. s \in Specs
  <2>1. P \in Payloads
    BY <1>2, <1>3 DEF Posts
  <2> QED BY <1>3, <2>1 DEF Payloads, Specs
<1>5. d = [disk EXCEPT !.spec = s]
  BY <1>3 DEF SavesSpec, Payload
<1>6. d \in Disks /\ d.spec = s /\ d.key = disk.key /\ d.token = disk.token /\ d.complete = disk.complete
  BY <1>2, <1>4, <1>5 DEF Disks
<1>7. HasSecrets(d, P)
  BY <1>1, <1>2, <1>3, <1>6 DEF Together, HasSecrets
<1>8. HasSpec(d, P)
  BY <1>3, <1>4, <1>6, PayloadAssumption DEF HasSpec, PayloadAssumption
<1>9. Together(screen, review, posted, "resolve", said, server, d, past)
  BY <1>1, <1>2, <1>3, <1>6, <1>7, <1>8 DEF Together
<1>10. PayloadTypeOK'
  BY <1>1, <1>3, <1>6 DEF SavesSpec, Does, Continues, PayloadTypeOK
<1>11. Together(screen', review', posted', step', said', server', disk', past')
  BY <1>3, <1>9 DEF SavesSpec, Does, Continues
<1> QED BY <1>10, <1>11 DEF PayloadInv

LEMMA ResolvesKeeps == ASSUME PayloadInv, Resolves PROVE PayloadInv'
<1>1. PayloadTypeOK /\ Together(screen, review, posted, step, said, server, disk, past)
  BY DEF PayloadInv
<1>2. step = "resolve" /\ posted \in Posts /\ disk \in Disks
  BY <1>1 DEF Resolves, Does, PayloadTypeOK, Together
<1>3. HasSecrets(disk, posted.payload) /\ HasSpec(disk, posted.payload)
  BY <1>1, <1>2 DEF Together
<1>4. PICK s : s = disk.spec /\ s \in Specs
  BY <1>2, <1>3 DEF HasSpec, Disks
<1>5. PICK k : k = disk.key /\ k \in [Keyed -> Secrets \cup {NoSecret}]
  BY <1>2 DEF Disks
<1>6. PICK w : w = [r \in ModelRoles |->
                      [cap |-> s.capabilities[r],
                       key |-> IF s.capabilities[r].provider \in Keyed THEN k[s.capabilities[r].provider] ELSE NoSecret]]
  OBVIOUS
<1>7. PICK d : d = disk' /\ d = [disk EXCEPT !.resolved = w]
  BY <1>4, <1>5, <1>6 DEF Resolves, KeyOf
<1>8. ASSUME NEW r \in ModelRoles PROVE w[r] \in [cap : Capable, key : Secrets \cup {NoSecret}]
  <2>1. PICK c : c = s.capabilities[r] /\ c \in Capable
    BY <1>4 DEF Specs, Capabilities
  <2>2. (IF c.provider \in Keyed THEN k[c.provider] ELSE NoSecret) \in Secrets \cup {NoSecret}
    BY <1>5, <2>1 DEF Capable
  <2> QED BY <1>6, <2>1, <2>2
<1>9. w \in Resolutions
  BY <1>6, <1>8 DEF Resolutions
<1>10. /\ d \in Disks /\ d.resolved = w /\ d.spec = s /\ d.key = k /\ d.token = disk.token
       /\ d.complete = disk.complete
  BY <1>2, <1>4, <1>5, <1>7, <1>9 DEF Disks
<1>11. Coherent(d)
  <2>1. s # None /\ w # None
    BY <1>4, <1>9, PayloadAssumption DEF PayloadAssumption
  <2>2. ASSUME NEW r \in ModelRoles
        PROVE  /\ w[r].cap = s.capabilities[r]
               /\ w[r].key = IF s.capabilities[r].provider \in Keyed THEN k[s.capabilities[r].provider] ELSE NoSecret
    BY <1>6
  <2> QED BY <1>10, <2>1, <2>2 DEF Coherent
<1>12. HasSecrets(d, posted.payload) /\ HasSpec(d, posted.payload)
  BY <1>3, <1>4, <1>5, <1>10 DEF HasSecrets, HasSpec
<1>13. Together(screen, review, posted, "complete", said, server, d, past)
  BY <1>1, <1>2, <1>10, <1>11, <1>12 DEF Together
<1>14. PayloadTypeOK'
  BY <1>1, <1>7, <1>10 DEF Resolves, Does, Continues, PayloadTypeOK
<1>15. Together(screen', review', posted', step', said', server', disk', past')
  BY <1>7, <1>13 DEF Resolves, Does, Continues
<1> QED BY <1>14, <1>15 DEF PayloadInv

LEMMA CompletesKeeps == ASSUME PayloadInv, Completes PROVE PayloadInv'
<1>1. PayloadTypeOK /\ Together(screen, review, posted, step, said, server, disk, past)
  BY DEF PayloadInv
<1>2. step = "complete" /\ posted \in Posts /\ disk \in Disks
  BY <1>1 DEF Completes, Does, PayloadTypeOK, Together
<1>3. PICK d : d = disk' /\ d = [disk EXCEPT !.complete = TRUE]
  BY DEF Completes
<1>4. /\ d \in Disks /\ d.resolved = disk.resolved /\ d.spec = disk.spec /\ d.key = disk.key
      /\ d.token = disk.token
  BY <1>2, <1>3 DEF Disks
<1>5. HasSecrets(d, posted.payload) /\ HasSpec(d, posted.payload) /\ Coherent(d)
  <2>1. HasSecrets(disk, posted.payload) /\ HasSpec(disk, posted.payload) /\ Coherent(disk)
    BY <1>1, <1>2 DEF Together
  <2> QED BY <1>4, <2>1 DEF HasSecrets, HasSpec, Coherent
<1>6. PICK sa, sc : /\ sa = said' /\ sa \in {"nothing", "done"} /\ (sa # "nothing" => said # "nothing")
                    /\ sc = screen' /\ (sc = screen \/ said # "nothing") /\ sc \in {"form", "review", "deploy", "away"}
  <2>1. said \in {"nothing", "waiting"}
    BY <1>1, <1>2 DEF Together
  <2>2. screen' = screen \/ (screen' = "deploy" /\ said # "nothing")
    BY <2>1 DEF Completes
  <2> QED BY <1>1, <2>1, <2>2 DEF Completes, Tells, PayloadTypeOK
<1>7. Together(sc, review, posted, "idle", sa, "going", d, "whole")
  BY <1>1, <1>2, <1>5, <1>6 DEF Together
<1>8. PayloadTypeOK'
  BY <1>1, <1>3, <1>4, <1>6 DEF Completes, Does, PayloadTypeOK
<1>9. Together(screen', review', posted', step', said', server', disk', past')
  BY <1>3, <1>6, <1>7 DEF Completes, Does
<1> QED BY <1>8, <1>9 DEF PayloadInv

\* A setup that is cut short leaves what may be of two setups, and past says so.
LEMMA FailsKeeps == ASSUME PayloadInv, WriteFails PROVE PayloadInv'
<1>1. PayloadTypeOK /\ Together(screen, review, posted, step, said, server, disk, past)
  BY DEF PayloadInv
<1>2. PICK sa : sa = said' /\ sa \in {"nothing", "failed"} /\ (sa # "nothing" => said # "nothing")
  BY <1>1 DEF WriteFails, Running, Tells, Together
<1>3. PICK pa : pa = past' /\ pa \in {"none", "cut"} /\ (pa = "none" => past = "none")
  BY DEF WriteFails, CutsShort
<1>4. step # "idle"
  BY DEF WriteFails, Running
<1>5. Together(screen, review, posted, "idle", sa, server, disk, pa)
  BY <1>1, <1>2, <1>3, <1>4 DEF Together
<1>6. kills' \in 0..MaxKills
  BY <1>1, PayloadAssumption DEF WriteFails, PayloadTypeOK, PayloadAssumption
<1>7. PayloadTypeOK'
  BY <1>1, <1>2, <1>3, <1>6 DEF WriteFails, PayloadTypeOK
<1>8. Together(screen', review', posted', step', said', server', disk', past')
  BY <1>2, <1>3, <1>5 DEF WriteFails
<1> QED BY <1>7, <1>8 DEF PayloadInv

LEMMA KilledKeeps == ASSUME PayloadInv, Killed PROVE PayloadInv'
<1>1. PayloadTypeOK /\ Together(screen, review, posted, step, said, server, disk, past)
  BY DEF PayloadInv
<1>2. PICK pa : /\ pa = past' /\ pa \in {"none", "whole", "cut"}
                /\ (pa = "none" => past = "none")
                /\ (pa # "cut" => pa = past /\ (step = "idle" \/ past = "none"))
  BY <1>1 DEF Killed, CutsShort, Running, PayloadTypeOK
<1>3. PICK sc : sc = screen' /\ sc \in {"form", "away"}
  BY DEF Killed, Opens
<1>4. None \notin Posts
  BY PayloadAssumption DEF PayloadAssumption
<1>5. Together(sc, None, None, "idle", "nothing", "open", disk, pa)
  BY <1>1, <1>2, <1>3, <1>4 DEF Together
<1>6. kills' \in 0..MaxKills
  BY <1>1, PayloadAssumption DEF Killed, PayloadTypeOK, PayloadAssumption
<1>7. PayloadTypeOK'
  BY <1>1, <1>2, <1>3, <1>6, NewFormIsForm DEF Killed, Opens, PayloadTypeOK
<1>8. Together(screen', review', posted', step', said', server', disk', past')
  BY <1>2, <1>3, <1>5 DEF Killed, Opens
<1> QED BY <1>7, <1>8 DEF PayloadInv

LEMMA EnablesKeeps == ASSUME PayloadInv, NEW a \in Extras, EnablesAddon(a) PROVE PayloadInv'
<1>1. edits' \in 0..MaxEdits
  BY PayloadAssumption DEF PayloadAssumption, EnablesAddon, CountEdit, PayloadInv, PayloadTypeOK
<1>2. PayloadTypeOK'
  BY <1>1 DEF EnablesAddon, PayloadInv, PayloadTypeOK
<1>3. Together(screen', review', posted', step', said', server', disk', past')
  BY DEF EnablesAddon, PayloadInv
<1> QED BY <1>2, <1>3 DEF PayloadInv

LEMMA PayloadStep == PayloadInv /\ [PayloadNext]_payloadVars => PayloadInv'
<1> SUFFICES ASSUME PayloadInv, [PayloadNext]_payloadVars PROVE PayloadInv'
  OBVIOUS
<1> form \in Forms
  BY DEF PayloadInv, PayloadTypeOK
<1>1. ASSUME NEW q \in Providers, CardChanges(q) PROVE PayloadInv'
  BY <1>1, CardKeeps
<1>2. ASSUME NEW q \in Providers, NEW r \in ModelRoles, ChoosesModel(r, q) PROVE PayloadInv'
  BY <1>2, TypedIsForm, TypesKeeps DEF ChoosesModel
<1>3. ASSUME NEW n \in Latin \cup Foreign, NamesOwner(n) PROVE PayloadInv'
  BY <1>3, TypedIsForm, TypesKeeps DEF NamesOwner
<1>4. ASSUME NEW u \in {OddId, NoId}, NamesUser(u) PROVE PayloadInv'
  BY <1>4, TypedIsForm, TypesKeeps DEF NamesUser, UserIds
<1>5. ASSUME NEW e \in Extras, Toggles(e) PROVE PayloadInv'
  BY <1>5, TypedIsForm, TypesKeeps DEF Toggles
<1>6. ASSUME NEW c \in Channels, NEW t \in Secrets, TypesToken(c, t) PROVE PayloadInv'
  BY <1>6, TypedIsForm, TypesKeeps DEF TypesToken
<1>7. ASSUME NEW m \in Rerankings, SetsReranking(m) PROVE PayloadInv'
  BY <1>7, TypedIsForm, TypesKeeps DEF SetsReranking
<1>8. CASE PicksModels \/ OpensOptions \/ OpensReview \/ LeavesReview \/ ReloadsPage
  BY <1>8, PicksKeeps, OptionsKeeps, OpensKeeps, LeavesKeeps, ReloadsKeeps
<1>9. ASSUME NEW e \in Extras, EnablesAddon(e) PROVE PayloadInv'
  BY <1>9, EnablesKeeps
<1>10. CASE Installs \/ DeploymentFails \/ Rejected \/ SavesSecrets \/ SavesTokens \/ SavesSpec
  BY <1>10, InstallsKeeps, DeploymentKeeps, RejectedKeeps, SavedSecretsKeep, TokensKeep, SpecKeeps
<1>11. CASE Resolves \/ Completes \/ WriteFails \/ Killed
  BY <1>11, ResolvesKeeps, CompletesKeeps, FailsKeeps, KilledKeeps
<1>12. CASE UNCHANGED payloadVars
  BY <1>12 DEF payloadVars, PayloadInv, PayloadTypeOK
<1> QED BY <1>1, <1>2, <1>3, <1>4, <1>5, <1>6, <1>7, <1>8, <1>9, <1>10, <1>11, <1>12 DEF PayloadNext

\* What the setup says of itself is so: done means that the stack has what the
\* review showed, refused that there was a cause, for any number of providers,
\* channels, edits and setups cut short.
THEOREM PayloadIsHeld == PayloadSpec => []PayloadHolds
<1>1. PayloadSpec => []PayloadInv
  BY PayloadStarts, PayloadStep, PTL DEF PayloadSpec
<1> QED BY <1>1, PayloadInvBounds, PTL

\* A stack that counts as complete is of one setup, unless a later one was cut
\* short.
THEOREM CompleteIsOne == PayloadSpec => []CompleteIsOneSetup
<1>1. PayloadSpec => []PayloadInv
  BY PayloadStarts, PayloadStep, PTL DEF PayloadSpec
<1> QED BY <1>1, PayloadInvBounds, PTL

(***************************************************************************)
(* The files of an installation.                                           *)
(***************************************************************************)
\* Nothing is missing of what the program carries.
Seeded == \A f \in Range(EMBEDDED_ASSETS) : home[f] # Absent

\* Every file of the release is there, but for what was changed since.
Released == \A f \in Range(Downloaded) : home[f] = version \/ f \in meanwhile

\* What is edited has a backup, or was edited since, or there was no installation.
Backed == fresh \/ \A f \in Files : home[f] = Edited => f \in saved \cup meanwhile

InstallInv ==
  /\ InstallationTypeOK /\ InstallIsWhole
  /\ pc \in {"download", "secrets", "ready"} => Seeded
  /\ pc = "download" => ~fetched
  /\ pc = "secrets" /\ fetched => Released
  /\ pc \in {"seed", "download"} => Backed
  /\ pc = "seed" => ~fetched

\* The lists of files.
LEMMA TheFiles ==
  /\ Range(EMBEDDED_ASSETS) = {"compose", "registry", "memoryConf", "schemas"} /\ Len(EMBEDDED_ASSETS) = 4
  /\ Range(Downloaded) = {"compose", "registry", "schemas", "assistant"} /\ Len(Downloaded) = 4
  /\ Range(MANAGED_ASSETS) = {"compose", "assistant", "schemas"} /\ Len(MANAGED_ASSETS) = 3
  /\ UpTo(EMBEDDED_ASSETS, 4) = Range(EMBEDDED_ASSETS) /\ UpTo(Downloaded, 4) = Range(Downloaded)
  /\ \A n \in 0..4 : UpTo(Downloaded, n) \subseteq Range(Downloaded) /\ UpTo(EMBEDDED_ASSETS, n) \subseteq Range(EMBEDDED_ASSETS)
  /\ \A n \in 0..3 : Downloaded[n + 1] \in Range(Downloaded) /\ EMBEDDED_ASSETS[n + 1] \in Range(EMBEDDED_ASSETS)
  /\ \A n \in 0..3 : UpTo(MANAGED_ASSETS, n) \subseteq Range(MANAGED_ASSETS)
  /\ \A n \in 0..2 : MANAGED_ASSETS[n + 1] \in UpTo(MANAGED_ASSETS, n + 1)
  /\ \A n \in 0..3, b \in 0..3 : n <= b => UpTo(MANAGED_ASSETS, n) \subseteq UpTo(MANAGED_ASSETS, b)
<1>1. Range(EMBEDDED_ASSETS) = {"compose", "registry", "memoryConf", "schemas"} /\ Len(EMBEDDED_ASSETS) = 4
  BY DEF Range, EMBEDDED_ASSETS
<1>2. Range(Downloaded) = {"compose", "registry", "schemas", "assistant"} /\ Len(Downloaded) = 4
  BY DEF Range, Downloaded
<1>3. Range(MANAGED_ASSETS) = {"compose", "assistant", "schemas"} /\ Len(MANAGED_ASSETS) = 3
  BY DEF Range, MANAGED_ASSETS
<1>4. UpTo(EMBEDDED_ASSETS, 4) = Range(EMBEDDED_ASSETS) /\ UpTo(Downloaded, 4) = Range(Downloaded)
  BY DEF Range, UpTo, EMBEDDED_ASSETS, Downloaded
<1>5. \A n \in 0..4 : UpTo(Downloaded, n) \subseteq Range(Downloaded) /\ UpTo(EMBEDDED_ASSETS, n) \subseteq Range(EMBEDDED_ASSETS)
  BY <1>4 DEF UpTo
<1>6. \A n \in 0..3 : Downloaded[n + 1] \in Range(Downloaded) /\ EMBEDDED_ASSETS[n + 1] \in Range(EMBEDDED_ASSETS)
  BY <1>4 DEF UpTo
<1>7. \A n \in 0..3 : UpTo(MANAGED_ASSETS, n) \subseteq Range(MANAGED_ASSETS)
  BY DEF Range, UpTo, MANAGED_ASSETS
<1>8. \A n \in 0..2 : MANAGED_ASSETS[n + 1] \in UpTo(MANAGED_ASSETS, n + 1)
  BY DEF UpTo
<1>9. \A n \in 0..3, b \in 0..3 : n <= b => UpTo(MANAGED_ASSETS, n) \subseteq UpTo(MANAGED_ASSETS, b)
  BY DEF UpTo
<1> QED BY <1>1, <1>2, <1>3, <1>4, <1>5, <1>6, <1>7, <1>8, <1>9

\* A file that was written is new or torn, and was to be written; the others are as they were.
LEMMA WrittenIs ==
  ASSUME NEW order, NEW S, NEW n \in Nat, NEW of, NEW begun \in BOOLEAN
  PROVE  /\ \A f \in Files : \/ f \in S \cap UpTo(order, n) /\ Written(order, S, n, of, begun)[f] = of
                             \/ begun /\ n < Len(order) /\ f = order[n + 1] /\ f \in S /\ Written(order, S, n, of, begun)[f] = Torn
                             \/ f \notin S \cap UpTo(order, n) /\ Written(order, S, n, of, begun)[f] = home[f]
         /\ of \in Versions /\ home \in [Files -> Versions \cup {Absent, Torn, Edited}] =>
              Written(order, S, n, of, begun) \in [Files -> Versions \cup {Absent, Torn, Edited}]
BY DEF Written

\* No version, and no torn file, is absent or edited.
LEMMA Versioned ==
  /\ Bundled \in Versions /\ Main \in Versions
  /\ \A v \in Versions : v \notin {Absent, Torn, Edited}
BY InstallationAssumption DEF InstallationAssumption, Versions

\* The step is the one of the edits.
EditStep ==
  \A f \in EditedOf(Files) : home'[f] # Edited =>
    \/ home'["userEnv"] = Absent /\ f \notin Unpurged
    \/ f \in Range(Downloaded) /\ (f \in saved' \/ f \in meanwhile \/ (fresh /\ pc # "upgrade"))
    \/ f = "registry" /\ pc = "refresh"

\* A step that takes no edit away.
LEMMA NoEditLost == ASSUME \A f \in Files : home[f] = Edited => home'[f] = Edited PROVE EditStep
BY DEF EditStep, EditedOf

LEMMA InstallStarts == InstallationInit => InstallInv
<1> SUFFICES ASSUME InstallationInit PROVE InstallInv
  OBVIOUS
<1>1. InstallationTypeOK
  <2>1. home \in [Files -> Versions \cup {Absent, Torn, Edited}] /\ tag \in Releases \cup {Absent, "latest"}
    BY DEF InstallationInit, Versions
  <2>2. 0 \in 0..MaxRuns /\ 0 \in 0..MaxChanges
    BY InstallationAssumption DEF InstallationAssumption
  <2> QED BY <2>1, <2>2, Versioned DEF InstallationInit, InstallationTypeOK
<1>2. pc = "idle"
  BY DEF InstallationInit
<1> QED BY <1>1, <1>2 DEF InstallInv, InstallIsWhole

\* A command is begun.
LEMMA BeginKeeps ==
  ASSUME InstallInv, NEW v \in Versions, NEW force \in BOOLEAN, Install(force, v) \/ Upgrade(v) \/ RefreshCatalog(v)
  PROVE  InstallInv' /\ EditStep
<1>1. InstallationTypeOK
  BY DEF InstallInv
<1>2. home' = home /\ tag' = tag /\ pc' \in {"seed", "upgrade", "refresh"} /\ version' = v /\ meanwhile' = {} /\ changes' = changes
  BY DEF Install, Upgrade, RefreshCatalog, Begins
<1>3. runs' \in 0..MaxRuns
  BY <1>1, InstallationAssumption DEF InstallationAssumption, Install, Upgrade, RefreshCatalog, Begins, InstallationTypeOK
<1>4. fetched' \in BOOLEAN /\ fresh' \in BOOLEAN /\ saved' \subseteq Files
  BY <1>1 DEF Install, Upgrade, RefreshCatalog, runVars, alreadyInstalled, BackedUp, EditedOf, InstallationTypeOK
<1>5. InstallationTypeOK'
  BY <1>1, <1>2, <1>3, <1>4 DEF InstallationTypeOK
<1>6. pc' = "seed" => ~fetched' /\ Backed'
  <2>1. CASE Install(force, v)
    BY <1>2, <2>1 DEF Install, Backed, BackedUp, EditedOf, alreadyInstalled
  <2>2. CASE Upgrade(v) \/ RefreshCatalog(v)
    BY <2>2 DEF Upgrade, RefreshCatalog, Begins
  <2> QED BY <2>1, <2>2
<1>7. EditStep
  BY <1>2, NoEditLost
<1> QED BY <1>2, <1>5, <1>6, <1>7 DEF InstallInv, InstallIsWhole

LEMMA SeedKeeps == ASSUME InstallInv, seedEmbeddedAssets PROVE InstallInv' /\ EditStep
<1> DEFINE h == Written(EMBEDDED_ASSETS, Missing, 4, Bundled, FALSE)
<1>1. /\ InstallationTypeOK /\ Backed /\ ~fetched
      /\ pc' = "download" /\ tag' = tag /\ version' = version /\ fresh' = fresh /\ meanwhile' = meanwhile
      /\ runs' = runs /\ changes' = changes /\ fetched' = fetched /\ saved' = saved
  BY DEF InstallInv, seedEmbeddedAssets, Goes
<1>2. home' = h
  BY TheFiles DEF seedEmbeddedAssets
<1>w. /\ \A f \in Files : \/ f \in Missing \cap UpTo(EMBEDDED_ASSETS, 4) /\ h[f] = Bundled
                          \/ f \notin Missing \cap UpTo(EMBEDDED_ASSETS, 4) /\ h[f] = home[f]
      /\ h \in [Files -> Versions \cup {Absent, Torn, Edited}]
  <2>1. 4 \in Nat /\ FALSE \in BOOLEAN /\ Bundled \in Versions /\ home \in [Files -> Versions \cup {Absent, Torn, Edited}]
    BY <1>1, Versioned DEF InstallationTypeOK
  <2> QED BY <2>1 DEF Written
<1>3. /\ \A f \in Files : (f \in Missing /\ home'[f] = Bundled) \/ (f \notin Missing /\ home'[f] = home[f])
      /\ home' \in [Files -> Versions \cup {Absent, Torn, Edited}]
  <2>1. Missing \cap UpTo(EMBEDDED_ASSETS, 4) = Missing
    BY TheFiles DEF Missing
  <2> QED BY <1>2, <1>w, <2>1
<1>4. InstallationTypeOK'
  BY <1>1, <1>3 DEF InstallationTypeOK
<1>5. \A f \in Files : (home[f] = Edited <=> home'[f] = Edited) /\ (f \in Range(EMBEDDED_ASSETS) => home'[f] # Absent)
  BY <1>3, Versioned, InstallationAssumption DEF Missing, InstallationAssumption
<1>6. Seeded'
  BY <1>5, TheFiles DEF Seeded, Files
<1>7. Backed'
  BY <1>1, <1>5 DEF Backed
<1> QED BY <1>1, <1>4, <1>5, <1>6, <1>7, NoEditLost DEF InstallInv, InstallIsWhole

\* What the download makes of the files.
LEMMA DownloadWrites ==
  ASSUME InstallInv, pc = "download", NEW n \in 0..4, NEW begun \in BOOLEAN,
         home' = Written(Downloaded, Files, n, version, begun)
  PROVE  /\ home' \in [Files -> Versions \cup {Absent, Torn, Edited}]
         /\ \A f \in Files : \/ f \in Range(Downloaded) /\ home'[f] \in {version, Torn}
                             \/ home'[f] = home[f]
         /\ n = 4 => \A f \in Range(Downloaded) : home'[f] = version
<1>1. version \in Versions /\ home \in [Files -> Versions \cup {Absent, Torn, Edited}]
  BY DEF InstallInv, InstallationTypeOK
<1>2. \A f \in Files : \/ f \in Files \cap UpTo(Downloaded, n) /\ home'[f] = version
                       \/ begun /\ n < Len(Downloaded) /\ f = Downloaded[n + 1] /\ f \in Files /\ home'[f] = Torn
                       \/ f \notin Files \cap UpTo(Downloaded, n) /\ home'[f] = home[f]
  BY DEF Written
<1>3. home' \in [Files -> Versions \cup {Absent, Torn, Edited}]
  <2>1. n \in Nat
    OBVIOUS
  <2> QED BY <1>1, <2>1, WrittenIs
<1>4. UpTo(Downloaded, n) \subseteq Range(Downloaded) /\ Len(Downloaded) = 4 /\ (n < 4 => Downloaded[n + 1] \in Range(Downloaded))
  BY TheFiles
<1>5. ASSUME n = 4, NEW f \in Range(Downloaded) PROVE home'[f] = version
  <2>1. f \in Files /\ f \in UpTo(Downloaded, n)
    BY <1>5, TheFiles DEF Files
  <2> QED BY <1>2, <1>4, <1>5, <2>1
<1> QED BY <1>2, <1>3, <1>4, <1>5

\* What is torn or of a release is neither absent nor edited.
LEMMA DownloadKeepsEdits ==
  ASSUME InstallInv, pc = "download", saved' = saved,
         \A f \in Files : (f \in Range(Downloaded) /\ home'[f] \in {version, Torn}) \/ home'[f] = home[f]
  PROVE  EditStep /\ \A f \in Files : home[f] # Absent => home'[f] # Absent
<1>1. Backed /\ version \in Versions
  BY DEF InstallInv, InstallationTypeOK
<1>2. EditStep
  BY <1>1 DEF EditStep, EditedOf, Backed
<1> QED BY <1>1, <1>2, Versioned, InstallationAssumption DEF InstallationAssumption

LEMMA DownloadKeeps == ASSUME InstallInv, seedOpenPalmDir PROVE InstallInv' /\ EditStep
<1>1. /\ InstallationTypeOK /\ Seeded /\ ~fetched /\ pc = "download"
      /\ pc' = "secrets" /\ tag' = tag /\ version' = version /\ fresh' = fresh /\ meanwhile' = meanwhile
      /\ runs' = runs /\ changes' = changes /\ saved' = saved
  BY DEF InstallInv, seedOpenPalmDir, Goes
<1>2. PICK n \in 0..4, begun \in BOOLEAN :
        home' = Written(Downloaded, Files, n, version, begun) /\ (fetched' => n = 4) /\ fetched' \in BOOLEAN
  <2>1. CASE home' = Written(Downloaded, Files, 4, version, FALSE) /\ fetched' = TRUE
    <3> WITNESS 4 \in 0..4, FALSE \in BOOLEAN
    <3> QED BY <2>1
  <2>2. CASE \E n \in 0..3, begun \in BOOLEAN : home' = Written(Downloaded, Files, n, version, begun) /\ fetched' = fetched
    <3>1. PICK n \in 0..3, begun \in BOOLEAN : home' = Written(Downloaded, Files, n, version, begun) /\ fetched' = fetched
      BY <2>2
    <3>2. n \in 0..4 /\ ~fetched' /\ fetched' \in BOOLEAN
      BY <1>1, <3>1 DEF InstallationTypeOK
    <3> QED BY <3>1, <3>2
  <2>3. \/ home' = Written(Downloaded, Files, 4, version, FALSE) /\ fetched' = TRUE
        \/ \E n \in 0..4 - 1, begun \in BOOLEAN : home' = Written(Downloaded, Files, n, version, begun) /\ fetched' = fetched
    BY TheFiles DEF seedOpenPalmDir
  <2>4. 0..4 - 1 = 0..3
    OBVIOUS
  <2> QED BY <2>1, <2>2, <2>3, <2>4
<1>3. /\ home' \in [Files -> Versions \cup {Absent, Torn, Edited}]
      /\ \A f \in Files : (f \in Range(Downloaded) /\ home'[f] \in {version, Torn}) \/ home'[f] = home[f]
      /\ n = 4 => \A f \in Range(Downloaded) : home'[f] = version
  BY <1>1, <1>2, DownloadWrites
<1>4. EditStep /\ \A f \in Files : home[f] # Absent => home'[f] # Absent
  BY <1>1, <1>3, DownloadKeepsEdits
<1>5. Seeded'
  BY <1>1, <1>4, TheFiles DEF Seeded, Files
<1>6. fetched' => Released'
  BY <1>1, <1>2, <1>3 DEF Released
<1>7. InstallationTypeOK'
  BY <1>1, <1>2, <1>3 DEF InstallationTypeOK
<1> QED BY <1>1, <1>4, <1>5, <1>6, <1>7 DEF InstallInv, InstallIsWhole

LEMMA SecretsKeep == ASSUME InstallInv, ensureSecrets PROVE InstallInv' /\ EditStep
<1>1. /\ InstallationTypeOK /\ Seeded /\ (fetched => Released)
      /\ pc' = "ready" /\ tag' = TagOf(version) /\ version' = version /\ fresh' = fresh /\ meanwhile' = meanwhile
      /\ runs' = runs /\ changes' = changes /\ saved' = saved /\ fetched' = fetched
      /\ home' = [home EXCEPT !["userEnv"] = IF @ = Absent THEN Bundled ELSE @]
  BY DEF InstallInv, ensureSecrets, Goes
<1>2. /\ home' \in [Files -> Versions \cup {Absent, Torn, Edited}] /\ home'["userEnv"] # Absent
      /\ \A f \in Files \ {"userEnv"} : home'[f] = home[f]
      /\ \A f \in Files : home[f] = Edited => home'[f] = Edited
  BY <1>1, Versioned, InstallationAssumption DEF InstallationTypeOK, Files, InstallationAssumption
<1>3. tag' \in Releases \cup {"latest"} /\ (version \in Releases => tag' = version)
  BY <1>1 DEF TagOf, InstallationTypeOK
<1>4. tag' # Absent
  BY <1>3, InstallationAssumption DEF InstallationAssumption
<1>5. InstallationTypeOK'
  BY <1>1, <1>2, <1>3 DEF InstallationTypeOK
<1>6. InstallIsWhole'
  BY <1>1, <1>2, <1>3, <1>4, TheFiles DEF InstallIsWhole, Seeded, Released, Files
<1>7. Seeded'
  BY <1>1, <1>2, TheFiles DEF Seeded, Files
<1> QED BY <1>1, <1>2, <1>5, <1>6, <1>7, NoEditLost DEF InstallInv

LEMMA UpgradeKeeps == ASSUME InstallInv, refreshCoreAssets PROVE InstallInv' /\ EditStep
<1>1. /\ InstallationTypeOK /\ pc = "upgrade"
      /\ pc' = "idle" /\ tag' = tag /\ version' = version /\ fresh' = fresh /\ meanwhile' = meanwhile
      /\ runs' = runs /\ changes' = changes /\ fetched' = fetched
  BY DEF InstallInv, refreshCoreAssets, Goes
<1> DEFINE S == Outdated(version)
<1>2. PICK n \in 0..3, b \in 0..3, begun \in BOOLEAN :
        /\ n <= b /\ (begun => b = n + 1)
        /\ home' = Written(MANAGED_ASSETS, S, n, version, begun)
        /\ saved' = saved \cup EditedOf(S \cap UpTo(MANAGED_ASSETS, b))
  <2>1. PICK n, b \in 0..Len(MANAGED_ASSETS), begun \in BOOLEAN :
          /\ b \in n..n + 1 /\ (begun => b = n + 1)
          /\ home' = Written(MANAGED_ASSETS, Outdated(version), n, version, begun)
          /\ saved' = saved \cup EditedOf(Outdated(version) \cap UpTo(MANAGED_ASSETS, b))
    BY DEF refreshCoreAssets
  <2>2. n \in 0..3 /\ b \in 0..3 /\ n <= b
    BY <2>1, TheFiles
  <2>3. /\ n <= b /\ (begun => b = n + 1)
        /\ home' = Written(MANAGED_ASSETS, S, n, version, begun)
        /\ saved' = saved \cup EditedOf(S \cap UpTo(MANAGED_ASSETS, b))
    BY <2>1, <2>2
  <2> HIDE DEF S
  <2> QED BY <2>2, <2>3
<1>3. S \subseteq Range(MANAGED_ASSETS) /\ S \subseteq Files
  BY TheFiles DEF Outdated, Files
<1>4. home' \in [Files -> Versions \cup {Absent, Torn, Edited}]
  BY <1>1, <1>2 DEF Written, InstallationTypeOK
<1>5. \A f \in Files : f \in S \cap UpTo(MANAGED_ASSETS, b) \/ home'[f] = home[f]
  <2>1. ASSUME NEW f \in Files, home'[f] # home[f] PROVE f \in S \cap UpTo(MANAGED_ASSETS, b)
    <3>1. \/ f \in S \cap UpTo(MANAGED_ASSETS, n)
          \/ begun /\ n < 3 /\ f \in S /\ f = MANAGED_ASSETS[n + 1]
      BY <1>2, <2>1, TheFiles DEF Written
    <3>2. CASE f \in S \cap UpTo(MANAGED_ASSETS, n)
      BY <1>2, <3>2, TheFiles
    <3>3. CASE begun /\ n < 3 /\ f \in S /\ f = MANAGED_ASSETS[n + 1]
      <4>1. n \in 0..2 /\ b = n + 1
        BY <1>2, <3>3
      <4> QED BY <3>3, <4>1, TheFiles
    <3> QED BY <3>1, <3>2, <3>3
  <2> QED BY <2>1
<1>6. EditStep
  <2>1. ASSUME NEW f \in EditedOf(Files), home'[f] # Edited PROVE f \in Range(Downloaded) /\ f \in saved'
    <3>1. f \in S \cap UpTo(MANAGED_ASSETS, b)
      BY <1>5, <2>1 DEF EditedOf
    <3>2. f \in saved'
      BY <1>2, <2>1, <3>1 DEF EditedOf
    <3> QED BY <1>3, <3>1, <3>2, TheFiles
  <2> QED BY <2>1 DEF EditStep
<1>7. saved' \subseteq Files
  BY <1>1, <1>2, <1>3 DEF InstallationTypeOK, EditedOf
<1> QED BY <1>1, <1>4, <1>6, <1>7 DEF InstallInv, InstallationTypeOK, InstallIsWhole

\* What a command that ends, or removes files, leaves of the invariant are the types.
LEMMA IdleKeeps ==
  ASSUME InstallInv, home' \in [Files -> Versions \cup {Absent, Torn, Edited}], tag' \in {tag, Absent}, pc' = "idle", UNCHANGED <<runVars, saved, meanwhile, changes>>,
         runs' \in 0..MaxRuns
  PROVE  InstallInv'
BY DEF InstallInv, InstallationTypeOK, InstallIsWhole, runVars

LEMMA CatalogKeeps == ASSUME InstallInv, materializeRegistryCatalog PROVE InstallInv' /\ EditStep
<1>1. InstallationTypeOK /\ version \in Versions /\ pc = "refresh"
  BY DEF InstallInv, InstallationTypeOK, materializeRegistryCatalog, Goes
<1>2. PICK c \in {version, Absent, Torn} : home' = home \/ home' = [home EXCEPT !["registry"] = c]
  BY DEF materializeRegistryCatalog
<1>3. home' \in [Files -> Versions \cup {Absent, Torn, Edited}] /\ \A f \in Files \ {"registry"} : home'[f] = home[f]
  BY <1>1, <1>2 DEF InstallationTypeOK
<1>4. InstallInv'
  BY <1>1, <1>3, IdleKeeps DEF materializeRegistryCatalog, Goes, InstallationTypeOK, runVars
<1>5. EditStep
  BY <1>1, <1>3 DEF EditStep, EditedOf
<1> QED BY <1>4, <1>5

LEMMA PurgeKeeps == ASSUME InstallInv, Purge PROVE InstallInv' /\ EditStep
<1>1. InstallationTypeOK
  BY DEF InstallInv
<1>2. home' = [f \in Files |-> IF f \in Unpurged THEN home[f] ELSE Absent]
  BY DEF Purge
<1>3. home' \in [Files -> Versions \cup {Absent, Torn, Edited}]
  BY <1>1, <1>2 DEF InstallationTypeOK
<1>4. runs' \in 0..MaxRuns
  BY <1>1, InstallationAssumption DEF Purge, InstallationTypeOK, InstallationAssumption
<1>5. InstallInv'
  BY <1>3, <1>4, IdleKeeps DEF Purge, runVars
<1>6. EditStep
  BY <1>2 DEF EditStep, EditedOf, Unpurged, Files
<1> QED BY <1>5, <1>6

LEMMA KillKeeps == ASSUME InstallInv, Kill PROVE InstallInv' /\ EditStep
<1>1. /\ InstallationTypeOK /\ pc \notin {"idle", "upgrade", "refresh"} /\ pc' = "idle" /\ version \in Versions
      /\ UNCHANGED <<runVars, saved, meanwhile, runs, changes>> /\ tag' = tag /\ runs' \in 0..MaxRuns
  BY DEF InstallInv, InstallationTypeOK, Kill
<1>2. CASE home' = home
  <2>1. home' \in [Files -> Versions \cup {Absent, Torn, Edited}]
    BY <1>1, <1>2 DEF InstallationTypeOK
  <2> QED BY <1>1, <1>2, <2>1, IdleKeeps, NoEditLost
<1>3. CASE pc = "seed" /\ \E n \in 0..4 : home' = Written(EMBEDDED_ASSETS, Missing, n, Bundled, TRUE)
  <2>1. PICK n \in 0..4 : home' = Written(EMBEDDED_ASSETS, Missing, n, Bundled, TRUE)
    BY <1>3
  <2>2. home' \in [Files -> Versions \cup {Absent, Torn, Edited}]
    BY <1>1, <2>1, Versioned DEF Written, InstallationTypeOK
  <2>3. \A f \in Files : home[f] = Edited => home'[f] = Edited
    BY <2>1, InstallationAssumption DEF Written, Missing, InstallationAssumption
  <2> QED BY <1>1, <2>2, <2>3, IdleKeeps, NoEditLost
<1>4. CASE pc = "download" /\ \E n \in 0..4, begun \in BOOLEAN : home' = Written(Downloaded, Files, n, version, begun)
  <2>1. PICK n \in 0..4, begun \in BOOLEAN : home' = Written(Downloaded, Files, n, version, begun)
    BY <1>4
  <2>2. /\ home' \in [Files -> Versions \cup {Absent, Torn, Edited}]
        /\ \A f \in Files : (f \in Range(Downloaded) /\ home'[f] \in {version, Torn}) \/ home'[f] = home[f]
    BY <1>4, <2>1, DownloadWrites
  <2>3. EditStep
    BY <1>1, <1>4, <2>2, DownloadKeepsEdits
  <2> QED BY <1>1, <2>2, <2>3, IdleKeeps
<1>5. CASE home' = [home EXCEPT !["userEnv"] = IF @ = Absent THEN Bundled ELSE @]
  <2>1. /\ home' \in [Files -> Versions \cup {Absent, Torn, Edited}]
        /\ \A f \in Files : home[f] = Edited => home'[f] = Edited
    BY <1>1, <1>5, Versioned, InstallationAssumption DEF InstallationTypeOK, Files, InstallationAssumption
  <2> QED BY <1>1, <2>1, IdleKeeps, NoEditLost
<1> QED BY <1>2, <1>3, <1>4, <1>5, TheFiles DEF Kill

LEMMA ChangeKeeps == ASSUME InstallInv, NEW f \in Files, ChangeFile(f) PROVE InstallInv' /\ EditStep
<1>1. /\ InstallationTypeOK /\ home[f] # Absent
      /\ pc' = pc /\ tag' = tag /\ version' = version /\ fresh' = fresh /\ fetched' = fetched /\ runs' = runs
      /\ saved' = saved \ {f} /\ meanwhile' = IF pc = "idle" THEN meanwhile ELSE meanwhile \cup {f}
      /\ home' = [home EXCEPT ![f] = Edited]
  BY DEF InstallInv, ChangeFile, runVars
<1>2. changes' \in 0..MaxChanges
  BY <1>1, InstallationAssumption DEF ChangeFile, InstallationTypeOK, InstallationAssumption
<1>3. /\ home' \in [Files -> Versions \cup {Absent, Torn, Edited}] /\ home'[f] = Edited
      /\ \A g \in Files \ {f} : home'[g] = home[g]
      /\ \A g \in Files : home[g] # Absent => home'[g] # Absent
  BY <1>1, InstallationAssumption DEF InstallationTypeOK, InstallationAssumption
<1>4. InstallationTypeOK'
  BY <1>1, <1>2, <1>3 DEF InstallationTypeOK
<1>5. Range(EMBEDDED_ASSETS) \subseteq Files /\ Range(Downloaded) \subseteq Files /\ "userEnv" \in Files
  BY TheFiles DEF Files
<1>6. Seeded => Seeded'
  BY <1>3, <1>5 DEF Seeded
<1>7. pc # "idle" /\ Released => Released'
  BY <1>1, <1>3, <1>5 DEF Released
<1>8. pc # "idle" /\ Backed => Backed'
  BY <1>1, <1>3 DEF Backed
<1>9. InstallIsWhole => InstallIsWhole'
  BY <1>1, <1>3, <1>5 DEF InstallIsWhole
<1>10. EditStep
  BY <1>3, NoEditLost
<1> QED BY <1>1, <1>4, <1>6, <1>7, <1>8, <1>9, <1>10 DEF InstallInv

LEMMA InstallStep == InstallInv /\ [InstallationNext]_installationVars => InstallInv' /\ (EditStep \/ UNCHANGED installationVars)
<1> SUFFICES ASSUME InstallInv, [InstallationNext]_installationVars PROVE InstallInv' /\ (EditStep \/ UNCHANGED installationVars)
  OBVIOUS
<1>1. ASSUME NEW force \in BOOLEAN, NEW v \in Versions, Install(force, v) PROVE InstallInv' /\ EditStep
  BY <1>1, BeginKeeps
<1>2. ASSUME NEW v \in Versions, Upgrade(v) \/ RefreshCatalog(v) PROVE InstallInv' /\ EditStep
  <2>1. TRUE \in BOOLEAN
    OBVIOUS
  <2> QED BY <1>2, <2>1, BeginKeeps
<1>3. CASE SetUp
  <2>1. home' \in [Files -> Versions \cup {Absent, Torn, Edited}] /\ runs' \in 0..MaxRuns
    BY <1>3 DEF InstallInv, InstallationTypeOK, SetUp, Goes
  <2> QED BY <1>3, <2>1, IdleKeeps, NoEditLost DEF SetUp, Goes, runVars
<1>4. CASE UNCHANGED installationVars
  BY <1>4 DEF installationVars, InstallInv, InstallationTypeOK, InstallIsWhole, Seeded, Released, Backed
<1> QED BY <1>1, <1>2, <1>3, <1>4, SeedKeeps, DownloadKeeps, SecretsKeep, UpgradeKeeps, CatalogKeeps, PurgeKeeps, KillKeeps, ChangeKeeps
         DEF InstallationNext

\* For any releases, commands, changes and kills: an installation that gets to its setup
\* is whole and of one release, and what the user has edited is overwritten with a backup,
\* but for the cases the property names.
THEOREM InstallationHolds == InstallationSpec => InstallHolds
<1>1. InstallInv => InstallationTypeOK /\ InstallIsWhole
  BY DEF InstallInv
<1>2. InstallInv /\ [InstallationNext]_installationVars => InstallInv'
  BY InstallStep
<1>3. InstallInv /\ [InstallationNext]_installationVars => [EditStep]_installationVars
  BY InstallStep
<1>4. [EditStep]_installationVars =>
        [\A f \in EditedOf(Files) : home'[f] # Edited =>
           \/ home'["userEnv"] = Absent /\ f \notin Unpurged
           \/ f \in Range(Downloaded) /\ (f \in saved' \/ f \in meanwhile \/ (fresh /\ pc # "upgrade"))
           \/ f = "registry" /\ pc = "refresh"]_installationVars
  BY DEF EditStep
<1> QED BY <1>1, <1>2, <1>3, <1>4, InstallStarts, PTL DEF InstallationSpec, InstallHolds, EditsSurvive

(***************************************************************************)
(* The voice buttons.                                                      *)
(***************************************************************************)
MicInv == DictationTypeOK /\ MicInReach

LEMMA HushedEnds ==
  ASSUME MicInv
  PROVE  /\ Hushed \in [Sounds -> {"unused", "live", "stopping", "over"}]
         /\ ~talkedOver => \A i \in Sounds : Hushed[i] # "live"
<1>1. /\ heard \in [Sounds -> {"unused", "live", "stopping", "over"}]
      /\ 0 \notin Sounds /\ recognition \in {0} \cup Sounds
      /\ ~talkedOver => \A i \in Sounds : heard[i] = "live" => i = recognition
  BY SoundsAssumption DEF MicInv, DictationTypeOK, MicInReach, Live, Sounds, NoRecognition
<1> QED BY <1>1 DEF Hushed, NoRecognition

LEMMA SilentOK ==
  ASSUME DictationTypeOK
  PROVE  Silent \in [Sounds -> {"unused", "queued", "spoken", "cancelled", "over"}]
BY DEF DictationTypeOK, Silent

LEMMA StartListens ==
  ASSUME MicInv, NEW i \in Sounds, StartListening(i)
  PROVE  MicInv'
<1>1. /\ heard \in [Sounds -> {"unused", "live", "stopping", "over"}] /\ heard[i] = "unused"
      /\ micStatus # "listening" /\ 0 \notin Sounds
      /\ ~talkedOver => \A j \in Sounds : heard[j] # "live"
  BY SoundsAssumption DEF MicInv, DictationTypeOK, MicInReach, Live, Sounds, StartListening, MayListen, Fresh
<1>2. CASE micStatus' = "listening" /\ recognition' = i
  <2>1. heard' \in {[heard EXCEPT ![i] = "live"],
                    [j \in Sounds |-> IF j = i THEN "live"
                                      ELSE IF heard[j] = "live" THEN "stopping" ELSE heard[j]]}
    BY <1>1, <1>2 DEF StartListening
  <2>2. /\ heard' \in [Sounds -> {"unused", "live", "stopping", "over"}] /\ heard'[i] = "live"
        /\ ~talkedOver => \A j \in Sounds : heard'[j] = "live" => j = i
    BY <2>1, <1>1
  <2>3. UNCHANGED <<mounted, utterance, talkedOver>>
    BY DEF StartListening
  <2> QED BY <1>2, <2>2, <2>3 DEF MicInv, DictationTypeOK, MicInReach, Live, NoRecognition
<1>3. CASE ~(micStatus' = "listening" /\ recognition' = i)
  <2>1. heard' = [heard EXCEPT ![i] = "over"] /\ micStatus' = "idle" /\ recognition' = NoRecognition
    BY <1>3 DEF StartListening
  <2>2. /\ heard' \in [Sounds -> {"unused", "live", "stopping", "over"}]
        /\ ~talkedOver => \A j \in Sounds : heard'[j] # "live"
    BY <2>1, <1>1
  <2>3. UNCHANGED <<mounted, utterance, talkedOver>>
    BY DEF StartListening
  <2> QED BY <2>1, <2>2, <2>3 DEF MicInv, DictationTypeOK, MicInReach, Live
<1> QED BY <1>2, <1>3

LEMMA StopListens ==
  ASSUME MicInv, StopListening \/ DestroyVoice
  PROVE  MicInv'
<1>1. /\ heard' \in [Sounds -> {"unused", "live", "stopping", "over"}]
      /\ ~talkedOver => \A i \in Sounds : heard'[i] # "live"
  BY HushedEnds DEF StopListening, DestroyVoice
<1>2. utterance' \in [Sounds -> {"unused", "queued", "spoken", "cancelled", "over"}]
  BY SilentOK DEF MicInv, DictationTypeOK, StopListening, DestroyVoice
<1> QED BY <1>1, <1>2 DEF MicInv, DictationTypeOK, MicInReach, Live, StopListening, DestroyVoice

LEMMA RecognitionEnds ==
  ASSUME MicInv, NEW i \in Sounds, RecognitionOver(i)
  PROVE  MicInv'
<1>1. heard' = [heard EXCEPT ![i] = "over"] /\ UNCHANGED <<mounted, utterance, talkedOver>>
  BY DEF RecognitionOver
<1>2. heard' \in [Sounds -> {"unused", "live", "stopping", "over"}] /\ Live' = Live \ {i}
  BY <1>1 DEF MicInv, DictationTypeOK, Live
<1>3. CASE recognition = i
  BY <1>1, <1>2, <1>3 DEF MicInv, DictationTypeOK, MicInReach, RecognitionOver, ActsOnEnd
<1>4. CASE recognition # i
  BY <1>1, <1>2, <1>4 DEF MicInv, DictationTypeOK, MicInReach, RecognitionOver, ActsOnEnd
<1> QED BY <1>3, <1>4

LEMMA UtteranceSteps ==
  ASSUME MicInv, NEW u \in Sounds,
         SpeakText(u) \/ UtteranceStarts(u) \/ UtteranceOver(u) \/ StopSpeaking \/ InitVoice
  PROVE  MicInv'
<1>1. UNCHANGED <<heard, recognition>>
  BY DEF SpeakText, UtteranceStarts, UtteranceOver, StopSpeaking, InitVoice
<1>2. utterance' \in [Sounds -> {"unused", "queued", "spoken", "cancelled", "over"}]
  BY SilentOK DEF MicInv, DictationTypeOK, SpeakText, UtteranceStarts, UtteranceOver, StopSpeaking, InitVoice
<1>3. CASE SpeakText(u) \/ InitVoice
  BY <1>1, <1>2, <1>3 DEF MicInv, DictationTypeOK, MicInReach, Live, SpeakText, InitVoice
<1>4. CASE StopSpeaking
  BY <1>1, <1>2, <1>4 DEF MicInv, DictationTypeOK, MicInReach, Live, StopSpeaking
<1>5. CASE UtteranceStarts(u)
  BY <1>1, <1>2, <1>5 DEF MicInv, DictationTypeOK, MicInReach, Live, UtteranceStarts
<1>6. CASE UtteranceOver(u)
  BY <1>1, <1>2, <1>6 DEF MicInv, DictationTypeOK, MicInReach, Live, UtteranceOver
<1> QED BY <1>3, <1>4, <1>5, <1>6

LEMMA DictationStep ==
  ASSUME MicInv, [DictationNext]_dictationVars
  PROVE  MicInv'
<1>1. CASE UNCHANGED dictationVars
  BY <1>1 DEF dictationVars, MicInv, DictationTypeOK, MicInReach, Live
<1>2. CASE DictationNext
  <2>1. CASE StopSpeaking \/ InitVoice
    <3>1. CASE Sounds = {}
      BY <2>1, <3>1, SilentOK DEF MicInv, DictationTypeOK, MicInReach, Live, StopSpeaking, InitVoice
    <3>2. CASE Sounds # {}
      <4>1. PICK u \in Sounds : TRUE
        BY <3>2
      <4> QED BY <2>1, <4>1, UtteranceSteps
    <3> QED BY <3>1, <3>2
  <2> QED BY <1>2, <2>1, StartListens, StopListens, RecognitionEnds, UtteranceSteps DEF DictationNext
<1> QED BY <1>1, <1>2

LEMMA DictationBegins == DictationInit => MicInv
BY SoundsAssumption DEF DictationInit, MicInv, DictationTypeOK, MicInReach, Live, NoRecognition

(***************************************************************************)
(* The form of the capabilities.                                           *)
(***************************************************************************)
\* What a form of the user shows is what was loaded, or nothing.
ShowsLoaded(c, t, b) ==
  \A x \in Fields : x \notin t =>
    /\ x \in DOMAIN b => c[x] = b[x] \/ (x = "instructions" /\ c[x] = legacy)
    /\ x \notin DOMAIN b /\ x # "instructions" => c[x] = Empty

CapsInv ==
  /\ FormTypeOK
  /\ ShowsLoaded(caps, touched, base)
  /\ \A p \in posts : ShowsLoaded(p.caps, p.touched, p.base)

\* A request that is sent has a number that no other has.
LEMMA NewIdIsNew ==
  ASSUME NEW under, IsFiniteSet(under)
  PROVE  NewId(under) \in Nat /\ \A r \in under : r.id # NewId(under)
<1> DEFINE ids == {r.id : r \in under}
           room == 1..Cardinality(under) + 1
<1>1. IsFiniteSet(ids) /\ Cardinality(ids) <= Cardinality(under) /\ Cardinality(under) \in Nat
  <2>1. IsFiniteSet(under)
    OBVIOUS
  <2>2. IsFiniteSet(ids) /\ Cardinality(ids) <= Cardinality(under)
    <3> DEFINE f == [r \in under |-> r.id]
    <3>1. f \in Surjection(under, ids)
      BY DEF Surjection
    <3> QED BY <2>1, <3>1, FS_Surjection
  <2> QED BY <2>1, <2>2, FS_CardinalityType
<1>2. IsFiniteSet(room) /\ Cardinality(room) = Cardinality(under) + 1
  BY <1>1, FS_Interval
<1>3. ~(room \subseteq ids)
  <2>1. SUFFICES ASSUME room \subseteq ids PROVE FALSE
    OBVIOUS
  <2>2. Cardinality(room) <= Cardinality(ids) /\ Cardinality(ids) \in Nat
    BY <1>1, <2>1, FS_Subset, FS_CardinalityType
  <2> QED BY <1>1, <1>2, <2>2
<1>4. PICK n \in room : n \notin ids
  BY <1>3
<1>5. n \in 1..Cardinality(under) + 1 /\ \A r \in under : r.id # n
  BY <1>4
<1>6. NewId(under) \in 1..Cardinality(under) + 1 /\ \A r \in under : r.id # NewId(under)
  BY <1>5 DEF NewId
<1> QED BY <1>1, <1>6

\* Requests that are numbered stay so when each is changed in place.
LEMMA NumberedUnchanged ==
  ASSUME NEW under, NEW f, Numbered(under), DOMAIN f = under, \A r \in under : f[r].id = r.id
  PROVE  Numbered({f[r] : r \in under})
BY DEF Numbered

LEMMA LoadSteps ==
  ASSUME CapsInv, ProvidersLoaded \/ AssignmentsRead \/ AssignmentsShown \/ MemoryConfigLoaded
  PROVE  CapsInv'
<1>1. UNCHANGED <<spec, legacy, posts, entries, outside>>
  BY DEF ProvidersLoaded, AssignmentsRead, AssignmentsShown, MemoryConfigLoaded
<1>2. /\ Blank \in [Fields -> Filled] /\ [Fields -> Filled] \subseteq Partial
      /\ \A c \in [Fields -> Filled] : DOMAIN c = Fields
  BY DEF Blank, Filled, Partial
<1>3. /\ caps' \in [Fields -> Filled] /\ got' \in [Fields -> Filled]
      /\ loadAt' \in {"providers", "assignments", "answered", "memory", "over"}
      /\ touched' \subseteq Fields /\ base' \in Partial
  BY <1>2 DEF CapsInv, FormTypeOK, ProvidersLoaded, AssignmentsRead, AssignmentsShown, MemoryConfigLoaded
<1>4. ShowsLoaded(caps, touched, base)'
  <2>1. CASE ProvidersLoaded \/ AssignmentsRead
    BY <2>1 DEF CapsInv, ShowsLoaded, ProvidersLoaded, AssignmentsRead
  <2>2. CASE AssignmentsShown
    BY <1>2, <2>2 DEF CapsInv, FormTypeOK, ShowsLoaded, AssignmentsShown
  <2>3. CASE MemoryConfigLoaded
    <3>1. caps \in [Fields -> Filled] /\ "instructions" \in Fields
      BY DEF CapsInv, FormTypeOK, Fields
    <3>2. CASE caps' = caps
      BY <3>2, <2>3 DEF CapsInv, ShowsLoaded, MemoryConfigLoaded
    <3>3. CASE caps' = [caps EXCEPT !.instructions = legacy]
      BY <3>1, <3>3, <2>3 DEF CapsInv, ShowsLoaded, MemoryConfigLoaded
    <3> QED BY <2>3, <3>2, <3>3 DEF MemoryConfigLoaded
  <2> QED BY <2>1, <2>2, <2>3
<1>5. \A p \in posts' : ShowsLoaded(p.caps, p.touched, p.base)'
  BY <1>1 DEF CapsInv, ShowsLoaded
<1>6. FormTypeOK'
  BY <1>1, <1>3 DEF CapsInv, FormTypeOK, Numbered
<1> QED BY <1>4, <1>5, <1>6 DEF CapsInv

LEMMA EnterStep ==
  ASSUME CapsInv, NEW x \in Fields, NEW v \in Filled, Enter(x, v)
  PROVE  CapsInv'
<1>1. /\ UNCHANGED <<spec, legacy, loadVars, posts, base, outside>> /\ caps \in [Fields -> Filled]
      /\ entries' \in 0..MaxEntries /\ touched \subseteq Fields
      /\ {"provider", "model"} \subseteq Fields /\ Empty \in Filled
  BY FormAssumption DEF Enter, CapsInv, FormTypeOK, Fields, Filled
<1>2. caps' = Entered(x, v) /\ touched' = touched \cup (IF x = "provider" THEN {"provider", "model"} ELSE {x})
  BY DEF Enter
<1>3. caps' \in [Fields -> Filled] /\ \A y \in Fields \ touched' : caps'[y] = caps[y]
  <2>1. CASE x = "provider"
    BY <1>1, <1>2, <2>1 DEF Entered
  <2>2. CASE x # "provider"
    BY <1>1, <1>2, <2>2 DEF Entered
  <2> QED BY <2>1, <2>2
<1>4. touched' \subseteq Fields /\ touched \subseteq touched'
  BY <1>1, <1>2
<1>5. ShowsLoaded(caps, touched, base)'
  BY <1>1, <1>3, <1>4 DEF CapsInv, ShowsLoaded
<1>6. \A p \in posts' : ShowsLoaded(p.caps, p.touched, p.base)'
  BY <1>1 DEF CapsInv, ShowsLoaded
<1>7. FormTypeOK'
  BY <1>1, <1>3, <1>4 DEF CapsInv, FormTypeOK, Numbered, loadVars
<1> QED BY <1>5, <1>6, <1>7 DEF CapsInv

Saves == [id : Nat, caps : [Fields -> Filled], touched : SUBSET Fields, base : Partial,
          mine : BOOLEAN, answer : {"none", "ok", "failed"}]

\* The posts under way, those of a form that is left too.
PostsOK(under) ==
  /\ IsFiniteSet(under) /\ Numbered(under)
  /\ under \subseteq Saves
  /\ \A p \in under : ShowsLoaded(p.caps, p.touched, p.base)
  /\ \A p, q \in under : p.mine /\ q.mine => p = q

LEMMA AtMostOneElement ==
  ASSUME NEW S, \A x, y \in S : x = y
  PROVE  IsFiniteSet(S) /\ Cardinality(S) <= 1
<1>1. CASE S = {}
  BY <1>1, FS_EmptySet
<1>2. CASE S # {}
  <2>1. PICK x \in S : TRUE
    BY <1>2
  <2>2. S = {x}
    BY <2>1
  <2>3. IsFiniteSet(S) /\ Cardinality(S) = 1
    BY <2>2, FS_Singleton
  <2> QED BY <2>3
<1> QED BY <1>1, <1>2

LEMMA OneElement ==
  ASSUME NEW S, IsFiniteSet(S), Cardinality(S) <= 1
  PROVE  \A x, y \in S : x = y
<1>1. SUFFICES ASSUME NEW x \in S, NEW y \in S, x # y PROVE FALSE
  OBVIOUS
<1>2. {x, y} \subseteq S /\ Cardinality({x, y}) = 2
  <2>1. {x, y} = {x} \cup {y} /\ y \notin {x}
    BY <1>1
  <2>2. IsFiniteSet({x}) /\ Cardinality({x}) = 1
    BY FS_Singleton
  <2>3. Cardinality({x} \cup {y}) = Cardinality({x}) + 1
    BY <2>1, <2>2, FS_AddElement
  <2> QED BY <2>1, <2>2, <2>3
<1>3. Cardinality({x, y}) <= Cardinality(S) /\ Cardinality(S) \in Nat
  BY <1>2, FS_Subset, FS_CardinalityType
<1> QED BY <1>2, <1>3

LEMMA PostsHold == CapsInv <=> PostsOK(posts) /\ ShowsLoaded(caps, touched, base) /\ FormTypeOK
<1>1. ASSUME CapsInv PROVE PostsOK(posts)
  <2> DEFINE own == {p \in posts : p.mine}
  <2>1. IsFiniteSet(posts) /\ Cardinality(own) <= 1
    BY <1>1 DEF CapsInv, FormTypeOK
  <2>2. IsFiniteSet(own)
    BY <2>1, FS_Subset
  <2>3. \A x, y \in own : x = y
    <3> HIDE DEF own
    <3> QED BY <2>1, <2>2, OneElement
  <2>4. \A p, q \in posts : p.mine /\ q.mine => p = q
    BY <2>3
  <2> QED BY <1>1, <2>4 DEF CapsInv, FormTypeOK, PostsOK, Saves
<1>2. ASSUME PostsOK(posts), FormTypeOK PROVE \A p \in posts : ShowsLoaded(p.caps, p.touched, p.base)
  BY <1>2 DEF PostsOK
<1> QED BY <1>1, <1>2 DEF CapsInv

\* The types, where the posts are as they should be.
LEMMA FormTypesHold ==
  ASSUME PostsOK(posts)',
         spec' \in [Fields -> Filled], legacy' \in Filled, caps' \in [Fields -> Filled],
         got' \in [Fields -> Filled],
         loadAt' \in {"providers", "assignments", "answered", "memory", "over"},
         touched' \subseteq Fields, base' \in Partial, entries' \in 0..MaxEntries,
         outside' \in 0..MaxOutside, ShowsLoaded(caps, touched, base)'
  PROVE  CapsInv'
<1>1. (Cardinality({p \in posts : p.mine}) <= 1)'
  <2> DEFINE own == {p \in posts' : p.mine}
  <2>1. \A p, q \in own : p = q
    BY DEF PostsOK
  <2>2. Cardinality(own) <= 1
    <3> HIDE DEF own
    <3> QED BY <2>1, AtMostOneElement
  <2> QED BY <2>2
<1> QED BY <1>1 DEF PostsOK, CapsInv, FormTypeOK, Saves

LEMMA SaveStep ==
  ASSUME CapsInv, Save
  PROVE  CapsInv'
<1>1. PostsOK(posts) /\ ShowsLoaded(caps, touched, base) /\ FormTypeOK
  BY PostsHold
<1>2. UNCHANGED <<spec, legacy, caps, loadVars, touched, base, entries, outside>>
  BY DEF Save
<1>3. PICK n : n = NewId(posts)
  OBVIOUS
<1>4. n \in Nat /\ \A r \in posts : r.id # n
  BY <1>1, <1>3, NewIdIsNew DEF PostsOK
<1>5. PICK new : new = [id |-> n, caps |-> caps, touched |-> touched, base |-> base, mine |-> TRUE, answer |-> "none"]
  OBVIOUS
<1>6. /\ new.id = n /\ new.caps = caps /\ new.touched = touched /\ new.base = base
      /\ new.mine = TRUE /\ new.answer = "none"
  BY <1>5
<1>7. posts' = posts \cup {new} /\ \A p \in posts : ~p.mine
  BY <1>3, <1>5 DEF Save, MaySave, Post
<1>8. /\ new.caps \in [Fields -> Filled] /\ new.touched \subseteq Fields /\ new.base \in Partial
      /\ ShowsLoaded(new.caps, new.touched, new.base)
  BY <1>1, <1>6 DEF FormTypeOK
<1>9. PostsOK(posts \cup {new})
  <2>1. IsFiniteSet(posts \cup {new})
    BY <1>1, FS_AddElement DEF PostsOK
  <2>2. Numbered(posts \cup {new})
    BY <1>1, <1>4, <1>6 DEF PostsOK, Numbered
  <2>3. \A p, q \in posts \cup {new} : p.mine /\ q.mine => p = q
    BY <1>7
  <2>4. posts \subseteq Saves /\ \A p \in posts : ShowsLoaded(p.caps, p.touched, p.base)
    BY <1>1 DEF PostsOK
  <2>5. new \in Saves
    BY <1>4, <1>5, <1>8, <1>6 DEF Saves
  <2> QED BY <2>1, <2>2, <2>3, <2>4, <2>5, <1>8 DEF PostsOK
<1>10. PostsOK(posts)'
  BY <1>2, <1>7, <1>9 DEF PostsOK, ShowsLoaded
<1>11. ShowsLoaded(caps, touched, base)'
  BY <1>1, <1>2 DEF ShowsLoaded
<1> QED BY <1>1, <1>2, <1>10, <1>11, FormTypesHold DEF FormTypeOK, loadVars

LEMMA RemountStep ==
  ASSUME CapsInv, Remount
  PROVE  CapsInv'
<1>1. PostsOK(posts) /\ FormTypeOK
  BY PostsHold
<1>2. UNCHANGED <<spec, legacy, entries>>
  BY DEF Remount
<1>3. DOMAIN <<>> = {} /\ <<>> \in [{} -> Filled]
  OBVIOUS
<1>4. base' \in Partial /\ caps' \in [Fields -> Filled] /\ got' \in [Fields -> Filled] /\ touched' = {}
  <2>1. {} \in SUBSET Fields
    OBVIOUS
  <2>2. base' \in Partial
    BY <1>3, <2>1 DEF Remount, Partial
  <2> QED BY <2>2 DEF Remount, Blank, Filled
<1>5. ShowsLoaded(caps, touched, base)'
  <2>1. \A x \in Fields : caps'[x] = Empty /\ x \notin DOMAIN base'
    BY <1>3 DEF Remount, Blank
  <2> QED BY <2>1 DEF ShowsLoaded
<1>6. PICK f : f = [p \in posts |-> [p EXCEPT !.mine = FALSE]]
  OBVIOUS
<1>7. posts' = {f[p] : p \in posts} /\ DOMAIN f = posts
  BY <1>6 DEF Remount
<1>8. PostsOK(posts')
  <2>1. IsFiniteSet(posts')
    <3>1. f \in Surjection(posts, posts')
      BY <1>6, <1>7 DEF Surjection
    <3> QED BY <3>1, <1>1, FS_Surjection DEF PostsOK
  <2>2. \A p \in posts : /\ f[p] \in Saves /\ f[p].id = p.id /\ f[p].caps = p.caps
                         /\ f[p].touched = p.touched /\ f[p].base = p.base /\ f[p].mine = FALSE
    BY <1>1, <1>6 DEF PostsOK, Saves
  <2>3. Numbered(posts')
    BY <1>1, <1>7, <2>2 DEF PostsOK, Numbered
  <2>4. posts' \subseteq Saves /\ \A p \in posts' : ShowsLoaded(p.caps, p.touched, p.base) /\ ~p.mine
    BY <1>1, <1>7, <2>2 DEF PostsOK
  <2> QED BY <2>1, <2>3, <2>4 DEF PostsOK
<1>9. outside' \in 0..MaxOutside /\ loadAt' = "providers"
  BY FormAssumption, <1>1 DEF Remount, FormTypeOK
<1>10. PostsOK(posts)'
  BY <1>2, <1>8 DEF PostsOK, ShowsLoaded
<1> QED BY <1>1, <1>2, <1>4, <1>5, <1>9, <1>10, FormTypesHold DEF FormTypeOK

\* One of the posts is answered, or gone.
LEMMA PostsLeft ==
  ASSUME PostsOK(posts), NEW p \in posts
  PROVE  PostsOK(posts \ {p})
<1>1. IsFiniteSet(posts \ {p})
  BY FS_RemoveElement DEF PostsOK
<1> QED BY <1>1 DEF PostsOK, Numbered

LEMMA PostsServed ==
  ASSUME PostsOK(posts), NEW p \in posts, NEW answer \in {"ok", "failed"}
  PROVE  PostsOK((posts \ {p}) \cup {[p EXCEPT !.answer = answer]})
<1>1. PICK q : q = [p EXCEPT !.answer = answer]
  OBVIOUS
<1>2. p \in Saves /\ ShowsLoaded(p.caps, p.touched, p.base)
  BY DEF PostsOK
<1>3. /\ q \in Saves /\ q.id = p.id /\ q.caps = p.caps /\ q.touched = p.touched /\ q.base = p.base
      /\ q.mine = p.mine
  BY <1>1, <1>2 DEF Saves
<1>4. IsFiniteSet((posts \ {p}) \cup {q})
  BY FS_RemoveElement, FS_AddElement DEF PostsOK
<1>5. Numbered((posts \ {p}) \cup {q})
  BY <1>3 DEF PostsOK, Numbered
<1>6. \A r, s \in (posts \ {p}) \cup {q} : r.mine /\ s.mine => r = s
  BY <1>3 DEF PostsOK
<1> QED BY <1>1, <1>2, <1>3, <1>4, <1>5, <1>6 DEF PostsOK

\* What of a form is sent and stored.
LEMMA Stored ==
  ASSUME spec \in [Fields -> Filled], NEW c \in [Fields -> Filled]
  PROVE  /\ Merged(Body(c)) \in [Fields -> Filled]
         /\ \A x \in Fields :
              Merged(Body(c))[x] =
                IF x = "instructions" \/ (c[x] # Empty /\ (x = "model" => c.provider # Empty))
                THEN c[x] ELSE spec[x]
<1>1. "instructions" \in Fields
  BY DEF Fields
<1>2. PICK sent : sent = {x \in Fields : c[x] # Empty /\ (x = "model" => c.provider # Empty)} \cup {"instructions"}
  OBVIOUS
<1>3. Body(c) = [x \in sent |-> c[x]] /\ sent \subseteq Fields
  BY <1>1, <1>2 DEF Body
<1>4. PICK b : b = Body(c)
  OBVIOUS
<1>5. Merged(b) = [x \in Fields |-> IF x \in sent THEN c[x] ELSE spec[x]]
  <2>1. DOMAIN b = sent /\ DOMAIN spec = Fields /\ DOMAIN b \cup DOMAIN spec = Fields
    BY <1>3, <1>4
  <2>2. \A x \in sent : b[x] = c[x]
    BY <1>3, <1>4
  <2>3. Merged(b) = [x \in Fields |-> IF x \in DOMAIN b THEN b[x] ELSE spec[x]]
    BY <2>1 DEF Merged
  <2> QED BY <2>1, <2>2, <2>3
<1> QED BY <1>1, <1>2, <1>4, <1>5

LEMMA ServeSteps ==
  ASSUME CapsInv, NEW p \in posts, ServePost(p) \/ PostAnswered(p)
  PROVE  CapsInv'
<1>1. PostsOK(posts) /\ FormTypeOK /\ ShowsLoaded(caps, touched, base)
  BY PostsHold
<1>2. UNCHANGED <<legacy, caps, loadVars, touched, base, entries, outside>>
  BY DEF ServePost, PostAnswered
<1>3. spec' \in [Fields -> Filled]
  <2>1. p.caps \in [Fields -> Filled] /\ spec \in [Fields -> Filled]
    BY <1>1 DEF PostsOK, Saves, FormTypeOK
  <2> QED BY <2>1, Stored DEF ServePost, PostAnswered
<1>4. PostsOK(posts')
  BY <1>1, PostsLeft, PostsServed DEF ServePost, PostAnswered
<1>5. PostsOK(posts)' /\ ShowsLoaded(caps, touched, base)'
  BY <1>1, <1>2, <1>4 DEF PostsOK, ShowsLoaded
<1> QED BY <1>1, <1>2, <1>3, <1>5, FormTypesHold DEF FormTypeOK, loadVars

LEMMA ElsewhereStep ==
  ASSUME CapsInv, Elsewhere
  PROVE  CapsInv'
<1>1. PostsOK(posts) /\ FormTypeOK /\ ShowsLoaded(caps, touched, base)
  BY PostsHold
<1>2. UNCHANGED <<legacy, caps, loadVars, posts, touched, base, entries>>
  BY DEF Elsewhere
<1>3. PICK x \in Fields, v \in Choices :
        spec' = [spec EXCEPT ![x] = v, !.provider = IF x = "model" /\ @ = Empty THEN v ELSE @]
  BY DEF Elsewhere
<1>4. spec' \in [Fields -> Filled]
  BY <1>1, <1>3 DEF FormTypeOK, Filled
<1>5. outside' \in 0..MaxOutside
  <2>1. outside < MaxOutside /\ outside' = outside + 1 /\ outside \in 0..MaxOutside
    BY <1>1 DEF Elsewhere, FormTypeOK
  <2> QED BY <2>1, FormAssumption
<1>6. PostsOK(posts)' /\ ShowsLoaded(caps, touched, base)'
  BY <1>1, <1>2 DEF PostsOK, ShowsLoaded
<1> QED BY <1>1, <1>2, <1>4, <1>5, <1>6, FormTypesHold DEF FormTypeOK, loadVars

LEMMA CapsStep ==
  ASSUME CapsInv, [FormNext]_capsVars
  PROVE  CapsInv'
<1>1. CASE UNCHANGED capsVars
  BY <1>1 DEF capsVars, CapsInv, FormTypeOK, Numbered, ShowsLoaded
<1>2. CASE FormNext
  BY <1>2, LoadSteps, EnterStep, SaveStep, RemountStep, ServeSteps, ElsewhereStep DEF FormNext
<1> QED BY <1>1, <1>2

LEMMA CapsBegins == FormInit => CapsInv
<1>1. SUFFICES ASSUME FormInit PROVE CapsInv
  OBVIOUS
<1>2. DOMAIN <<>> = {} /\ <<>> \in [{} -> Filled] /\ {} \in SUBSET Fields
  OBVIOUS
<1>3. base \in Partial /\ caps \in [Fields -> Filled] /\ got \in [Fields -> Filled]
  BY <1>1, <1>2 DEF FormInit, NotLoaded, Partial, Blank, Filled
<1>4. \A x \in Fields : caps[x] = Empty /\ x \notin DOMAIN base
  BY <1>1, <1>2 DEF FormInit, NotLoaded, Blank
<1>5. IsFiniteSet(posts) /\ Cardinality({p \in posts : p.mine}) <= 1 /\ Numbered(posts)
  <2>1. posts = {} /\ {p \in posts : p.mine} = {}
    BY <1>1 DEF FormInit
  <2>2. Cardinality({p \in posts : p.mine}) = 0 /\ IsFiniteSet(posts)
    BY <2>1, FS_EmptySet
  <2> QED BY <2>1, <2>2 DEF Numbered
<1>6. entries \in 0..MaxEntries /\ outside \in 0..MaxOutside
  BY <1>1, FormAssumption DEF FormInit
<1>7. FormTypeOK
  BY <1>1, <1>3, <1>5, <1>6 DEF FormInit, NotLoaded, FormTypeOK
<1> QED BY <1>1, <1>4, <1>7 DEF FormInit, CapsInv, ShowsLoaded

\* Whichever step the server's carrying out a save is, it is that save's.
LEMMA ServedIsServe ==
  ASSUME CapsInv, FormNext, NEW p \in posts, Served(p)
  PROVE  ServePost(p) /\ spec' = Merged(Body(p.caps))
<1>1. PostsOK(posts)
  BY PostsHold
<1>2. PICK ok : ok = [p EXCEPT !.answer = "ok"]
  OBVIOUS
<1>3. /\ p.answer = "none" /\ ok \in posts' /\ p \notin posts' /\ p \in Saves
      /\ ok.id = p.id /\ ok.answer = "ok" /\ ok \notin posts
  <2>1. p.answer = "none" /\ ok \in posts' /\ p \notin posts' /\ p \in Saves
    BY <1>1, <1>2 DEF Served, PostsOK
  <2>2. ok.id = p.id /\ ok.answer = "ok"
    BY <1>2, <2>1 DEF Saves
  <2>3. ok \notin posts
    BY <1>1, <2>1, <2>2 DEF PostsOK, Numbered
  <2> QED BY <2>1, <2>2, <2>3
<1>4. CASE Remount
  <2>1. PICK q \in posts : ok = [q EXCEPT !.mine = FALSE]
    BY <1>3, <1>4 DEF Remount
  <2>2. q \in Saves /\ ok.id = q.id /\ ok.answer = q.answer
    BY <1>1, <2>1 DEF PostsOK, Saves
  <2> QED BY <1>1, <1>3, <2>2 DEF PostsOK, Numbered
<1>5. ASSUME NEW q \in posts, ServePost(q)
      PROVE  ServePost(p) /\ spec' = Merged(Body(p.caps))
  <2>1. q = p
    BY <1>3, <1>5 DEF ServePost
  <2>2. CASE posts' = (posts \ {p}) \cup {[p EXCEPT !.answer = "failed"]}
    <3>1. PICK failed : failed = [p EXCEPT !.answer = "failed"]
      OBVIOUS
    <3>2. failed.answer = "failed"
      BY <1>3, <3>1 DEF Saves
    <3> QED BY <1>3, <2>2, <3>1, <3>2
  <2> QED BY <1>5, <2>1, <2>2 DEF ServePost
<1>6. ASSUME NEW q \in posts, PostAnswered(q)
      PROVE  FALSE
  BY <1>3, <1>6 DEF PostAnswered
<1>7. CASE ~(Remount \/ \E q \in posts : ServePost(q) \/ PostAnswered(q))
  <2>1. posts \subseteq posts'
    BY <1>7 DEF FormNext, ProvidersLoaded, AssignmentsRead, AssignmentsShown, MemoryConfigLoaded, Enter, Save, Elsewhere
  <2> QED BY <1>3, <2>1
<1> QED BY <1>4, <1>5, <1>6, <1>7

LEMMA SaveKeepsRest ==
  ASSUME CapsInv, FormNext, NEW p \in posts, Served(p)
  PROVE  UntouchedStays(p) /\ SavedIsShown(p)
<1>1. PostsOK(posts) /\ spec \in [Fields -> Filled]
  BY PostsHold DEF FormTypeOK
<1>2. PICK c : c = p.caps
  OBVIOUS
<1>3. c \in [Fields -> Filled] /\ ShowsLoaded(c, p.touched, p.base)
  BY <1>1, <1>2 DEF PostsOK, Saves
<1>4. \A x \in Fields :
        spec'[x] = IF x = "instructions" \/ (c[x] # Empty /\ (x = "model" => c.provider # Empty))
                   THEN c[x] ELSE spec[x]
  BY <1>1, <1>2, <1>3, ServedIsServe, Stored
<1>5. UntouchedStays(p)
  BY <1>2, <1>3, <1>4 DEF UntouchedStays, ShowsLoaded
<1>6. SavedIsShown(p)
  BY <1>2, <1>3, <1>4 DEF SavedIsShown
<1> QED BY <1>5, <1>6

(***************************************************************************)
(* Bags of requests.                                                       *)
(***************************************************************************)
\* At most one of these is in a bag, once.
Single(b, S) == \A r, s \in BagToSet(b) \cap S : r = s /\ b[r] = 1

LEMMA BagAdds ==
  ASSUME NEW b, IsABag(b), NEW S
  PROVE  /\ IsABag(b (+) SetToBag(S))
         /\ BagToSet(b (+) SetToBag(S)) = BagToSet(b) \cup S
         /\ \A r \in BagToSet(b) \ S : (b (+) SetToBag(S))[r] = b[r]
         /\ \A r \in S \ BagToSet(b) : (b (+) SetToBag(S))[r] = 1
BY DEF IsABag, BagToSet, (+), SetToBag

LEMMA BagDrops ==
  ASSUME NEW b, IsABag(b), NEW c \in BagToSet(b)
  PROVE  /\ IsABag(b (-) SetToBag({c}))
         /\ BagToSet(b (-) SetToBag({c})) \subseteq BagToSet(b)
         /\ \A r \in BagToSet(b) : r # c => r \in BagToSet(b (-) SetToBag({c}))
         /\ \A r \in BagToSet(b (-) SetToBag({c})) : r # c => (b (-) SetToBag({c}))[r] = b[r]
         /\ b[c] = 1 => c \notin BagToSet(b (-) SetToBag({c}))
         /\ c \in BagToSet(b (-) SetToBag({c})) => (b (-) SetToBag({c}))[c] < b[c]
BY DEF IsABag, BagToSet, (-), SetToBag

LEMMA SingleAfterDrop ==
  ASSUME NEW b, IsABag(b), NEW c \in BagToSet(b), NEW S, Single(b, S)
  PROVE  /\ Single(b (-) SetToBag({c}), S)
         /\ c \in S => BagToSet(b (-) SetToBag({c})) \cap S = {}
<1>1. PICK d : d = b (-) SetToBag({c})
  OBVIOUS
<1>2. /\ BagToSet(d) \subseteq BagToSet(b)
      /\ \A r \in BagToSet(d) : r # c => d[r] = b[r]
      /\ b[c] = 1 => c \notin BagToSet(d)
  BY <1>1, BagDrops
<1>3. c \in S => b[c] = 1 /\ \A r \in BagToSet(b) \cap S : r = c
  BY DEF Single
<1> QED BY <1>1, <1>2, <1>3 DEF Single

LEMMA SingleAfterAdd ==
  ASSUME NEW b, IsABag(b), NEW T, NEW S, Single(b, S),
         T \cap S = {} \/ (BagToSet(b) \cap S = {} /\ \A r, s \in T : r = s)
  PROVE  Single(b (+) SetToBag(T), S)
<1>1. PICK d : d = b (+) SetToBag(T)
  OBVIOUS
<1>2. /\ BagToSet(d) = BagToSet(b) \cup T
      /\ \A r \in BagToSet(b) \ T : d[r] = b[r]
      /\ \A r \in T \ BagToSet(b) : d[r] = 1
  BY <1>1, BagAdds
<1> QED BY <1>1, <1>2 DEF Single

\* A bag of one request, and none.
LEMMA BagOfOne ==
  ASSUME NEW c
  PROVE  /\ IsABag(EmptyBag) /\ BagToSet(EmptyBag) = {}
         /\ IsABag(SetToBag({c})) /\ BagToSet(SetToBag({c})) = {c} /\ SetToBag({c})[c] = 1
         /\ SetToBag({c}) (-) SetToBag({c}) = EmptyBag
         /\ SetToBag({c}) # EmptyBag
<1>1. IsABag(EmptyBag) /\ BagToSet(EmptyBag) = {}
  BY DEF EmptyBag, SetToBag, IsABag, BagToSet
<1>2. IsABag(SetToBag({c})) /\ BagToSet(SetToBag({c})) = {c} /\ SetToBag({c})[c] = 1
  BY DEF EmptyBag, SetToBag, IsABag, BagToSet
<1>3. SetToBag({c}) # EmptyBag
  BY <1>1, <1>2
<1>4. SetToBag({c}) (-) SetToBag({c}) = EmptyBag
  BY DEF EmptyBag, SetToBag, BagToSet, (-)
<1> QED BY <1>1, <1>2, <1>3, <1>4

LEMMA NoneAndMore ==
  ASSUME NEW S, NEW b, IsABag(b)
  PROVE  /\ EmptyBag (+) SetToBag(S) = SetToBag(S)
         /\ b (+) EmptyBag = b
         /\ S # {} => b (+) SetToBag(S) # EmptyBag
         /\ b = EmptyBag <=> BagToSet(b) = {}
<1>1. EmptyBag (+) SetToBag(S) = SetToBag(S)
  BY DEF EmptyBag, SetToBag, (+)
<1>2. b (+) EmptyBag = b
  BY DEF EmptyBag, SetToBag, (+), IsABag
<1>3. b = EmptyBag <=> BagToSet(b) = {}
  BY DEF EmptyBag, SetToBag, IsABag, BagToSet
<1>4. S # {} => b (+) SetToBag(S) # EmptyBag
  <2>1. PICK d : d = b (+) SetToBag(S)
    OBVIOUS
  <2>2. BagToSet(d) = BagToSet(b) \cup S
    BY <2>1, BagAdds
  <2>3. BagToSet(EmptyBag) = {}
    BY BagOfOne
  <2> QED BY <2>1, <2>2, <2>3
<1> QED BY <1>1, <1>2, <1>3, <1>4

(***************************************************************************)
(* The page of the console.                                                *)
(***************************************************************************)
Calls ==
  [what : {"login", "mount", "health", "opencode", "containers", "loader", "action", "apply"},
   token : Tokens, ends : BOOLEAN, answer : {"none", "ok", "refused", "failed"},
   saw : ContainerVersions \cup {Nothing}]

\* The requests that stand between the gate and the page.
Gates == {c \in Calls : IsValidation(c) \/ c.ends}

\* One of them is under way at a time, while the gate is busy, and one that validates
\* a token finds the page locked.
GateHolds(b, isBusy, isLocked) ==
  /\ IsABag(b) /\ BagToSet(b) \subseteq Calls
  /\ Single(b, Gates)
  /\ BagToSet(b) \cap Gates # {} => isBusy
  /\ \A c \in BagToSet(b) : IsValidation(c) => isLocked

\* While the server has its first token the page asks with that one only, except who
\* is just logging in.
AsksWithFirst(c) ==
  /\ c.what # "login" => c.token = 0 /\ c.answer # "refused"
  /\ c.what = "login" /\ c.answer = "ok" => c.token = 0

FirstToken(b, token, now) ==
  now = 0 => token \in {0, NoToken} /\ \A c \in BagToSet(b) : AsksWithFirst(c)

ConsoleInv ==
  ConsoleTypeOK /\ GateHolds(calls, busy, locked) /\ FirstToken(calls, stored, good)

LEMMA TokenTypes ==
  /\ 0 \in Tokens /\ NoToken \notin Tokens /\ NoToken # 0
  /\ 0 \in ContainerVersions
BY ConsoleAssumption DEF Tokens, NoToken, ContainerVersions

\* Requests that are begun with no gate behind them.
LoadSet(whats, token, ends) ==
  IF token = NoToken THEN {} ELSE {Call(w, token, ends) : w \in whats}

LEMMA LoadIsSet ==
  ASSUME NEW whats, NEW token, NEW ends
  PROVE  Load(whats, token, ends) = SetToBag(LoadSet(whats, token, ends))
BY DEF Load, LoadSet, EmptyBag

LEMMA LoadTypes ==
  ASSUME NEW whats, whats \subseteq {"health", "opencode", "containers", "loader", "action", "apply"},
         NEW token \in Tokens \cup {NoToken}, NEW ends \in BOOLEAN
  PROVE  /\ LoadSet(whats, token, ends) \subseteq Calls
         /\ ~ends => LoadSet(whats, token, ends) \cap Gates = {}
         /\ \A c \in LoadSet(whats, token, ends) :
              ~IsValidation(c) /\ (token \in {0, NoToken} => AsksWithFirst(c))
<1>1. SUFFICES ASSUME NEW c \in LoadSet(whats, token, ends)
               PROVE  /\ c \in Calls /\ (~ends => c \notin Gates) /\ ~IsValidation(c)
                      /\ (token \in {0, NoToken} => AsksWithFirst(c))
  OBVIOUS
<1>2. PICK w \in whats : c = Call(w, token, ends)
  BY DEF LoadSet
<1>3. token \in Tokens
  BY <1>1 DEF LoadSet
<1>4. c \in Calls
  BY <1>2, <1>3 DEF Call, Calls
<1>5. c.what = w /\ c.token = token /\ c.ends = ends /\ c.answer = "none"
  BY <1>2 DEF Call
<1>6. w \notin {"login", "mount"} /\ (token \in {0, NoToken} => token = 0)
  BY <1>3, TokenTypes
<1>7. ~IsValidation(c) /\ (token \in {0, NoToken} => AsksWithFirst(c))
  BY <1>5, <1>6 DEF IsValidation, AsksWithFirst
<1> QED BY <1>4, <1>5, <1>7 DEF Gates

LEMMA AddsCalls ==
  ASSUME NEW b, NEW isBusy, NEW isLocked, GateHolds(b, isBusy, isLocked),
         NEW T, T \subseteq Calls, T \cap Gates = {}
  PROVE  GateHolds(b (+) SetToBag(T), isBusy, isLocked)
<1>1. PICK d : d = b (+) SetToBag(T)
  OBVIOUS
<1>2. IsABag(d) /\ BagToSet(d) = BagToSet(b) \cup T
  BY <1>1, BagAdds DEF GateHolds
<1>3. Single(d, Gates)
  BY <1>1, SingleAfterAdd DEF GateHolds
<1>4. \A c \in T : ~IsValidation(c)
  BY DEF Gates
<1> QED BY <1>1, <1>2, <1>3, <1>4 DEF GateHolds

\* The last request at the gate: it is answered, or the page goes on with another.
LEMMA GateAfterDrop ==
  ASSUME NEW b, NEW isBusy, NEW isLocked, GateHolds(b, isBusy, isLocked), NEW c \in BagToSet(b)
  PROVE  /\ GateHolds(b (-) SetToBag({c}), isBusy, isLocked)
         /\ c \in Gates => \A nowBusy, nowLocked : GateHolds(b (-) SetToBag({c}), nowBusy, nowLocked)
         /\ c \in Gates => BagToSet(b (-) SetToBag({c})) \cap Gates = {}
<1>1. PICK d : d = b (-) SetToBag({c})
  OBVIOUS
<1>2. IsABag(d) /\ BagToSet(d) \subseteq BagToSet(b)
  BY <1>1, BagDrops DEF GateHolds
<1>3. Single(d, Gates) /\ (c \in Gates => BagToSet(d) \cap Gates = {})
  BY <1>1, SingleAfterDrop DEF GateHolds
<1>4. c \in Gates => \A e \in BagToSet(d) : ~IsValidation(e)
  BY <1>2, <1>3 DEF Gates, GateHolds
<1> QED BY <1>1, <1>2, <1>3, <1>4 DEF GateHolds

LEMMA GateAfterOne ==
  ASSUME NEW b, IsABag(b), BagToSet(b) \subseteq Calls, BagToSet(b) \cap Gates = {},
         NEW c \in Calls, NEW isLocked, IsValidation(c) => isLocked
  PROVE  GateHolds(b (+) SetToBag({c}), TRUE, isLocked)
<1>1. PICK d : d = b (+) SetToBag({c})
  OBVIOUS
<1>2. IsABag(d) /\ BagToSet(d) = BagToSet(b) \cup {c}
  BY <1>1, BagAdds
<1>3. Single(b, Gates)
  BY DEF Single
<1>4. Single(d, Gates)
  BY <1>1, <1>3, SingleAfterAdd
<1>5. \A e \in BagToSet(b) : ~IsValidation(e)
  BY DEF Gates
<1> QED BY <1>1, <1>2, <1>4, <1>5 DEF GateHolds

LEMMA FirstAfterDrop ==
  ASSUME NEW b, IsABag(b), NEW token, NEW now, FirstToken(b, token, now), NEW c \in BagToSet(b)
  PROVE  FirstToken(b (-) SetToBag({c}), token, now)
<1>1. BagToSet(b (-) SetToBag({c})) \subseteq BagToSet(b)
  BY BagDrops
<1> QED BY <1>1 DEF FirstToken

LEMMA FirstAfterAdd ==
  ASSUME NEW b, IsABag(b), NEW token, NEW now, FirstToken(b, token, now), NEW T,
         now = 0 => \A c \in T : AsksWithFirst(c)
  PROVE  FirstToken(b (+) SetToBag(T), token, now)
<1>1. BagToSet(b (+) SetToBag(T)) = BagToSet(b) \cup T
  BY BagAdds
<1> QED BY <1>1 DEF FirstToken

\* Loaders that begin after `rest` of the requests is left.
LEMMA LoadsKeep ==
  ASSUME NEW whats, whats \subseteq {"health", "opencode", "containers", "loader", "action", "apply"},
         NEW rest, NEW isBusy \in BOOLEAN, NEW isLocked \in BOOLEAN, NEW isShown \in ContainerVersions \cup {Nothing},
         stored \in Tokens \cup {NoToken},
         GateHolds(rest, isBusy, isLocked), FirstToken(rest, stored, good),
         Loads(whats, rest, isLocked, isShown)
  PROVE  /\ GateHolds(calls', isBusy, locked') /\ FirstToken(calls', stored, good)
         /\ locked' \in BOOLEAN /\ (locked' => isLocked \/ stored = NoToken)
         /\ containerData' \in ContainerVersions \cup {Nothing}
<1>1. PICK T : T = LoadSet(whats, stored, FALSE)
  OBVIOUS
<1>2. /\ T \subseteq Calls /\ T \cap Gates = {}
      /\ \A c \in T : stored \in {0, NoToken} => AsksWithFirst(c)
  <2>1. FALSE \in BOOLEAN
    OBVIOUS
  <2> QED BY <1>1, <2>1, LoadTypes
<1>3. calls' = rest (+) SetToBag(T)
  BY <1>1, LoadIsSet DEF Loads
<1>4. GateHolds(calls', isBusy, isLocked)
  BY <1>2, <1>3, AddsCalls
<1>5. locked' = (isLocked \/ (whats # {} /\ stored = NoToken))
  BY DEF Loads
<1>6. GateHolds(calls', isBusy, locked')
  BY <1>4, <1>5 DEF GateHolds
<1>7. FirstToken(calls', stored, good)
  <2>1. IsABag(rest)
    BY DEF GateHolds
  <2>2. good = 0 => \A c \in T : AsksWithFirst(c)
    BY <1>2 DEF FirstToken
  <2> QED BY <1>3, <2>1, <2>2, FirstAfterAdd
<1>8. containerData' \in ContainerVersions \cup {Nothing}
  BY DEF Loads
<1> QED BY <1>5, <1>6, <1>7, <1>8

LEMMA ConsoleHolds ==
  ASSUME good' \in Tokens, world' \in ContainerVersions, elsewhere' \in 0..MaxElsewhere,
         stored' \in Tokens \cup {NoToken}, containerData' \in ContainerVersions \cup {Nothing},
         locked' \in BOOLEAN, busy' \in BOOLEAN, pollTimer' \in BOOLEAN,
         GateHolds(calls', busy', locked'), FirstToken(calls', stored', good')
  PROVE  ConsoleInv'
<1>1. IsABag(calls)' /\ (BagToSet(calls) \subseteq Calls)'
  BY DEF GateHolds
<1>2. ConsoleTypeOK'
  BY <1>1 DEF ConsoleTypeOK, Calls
<1>3. GateHolds(calls, busy, locked)'
  BY DEF GateHolds, IsValidation
<1>4. FirstToken(calls, stored, good)'
  BY DEF FirstToken, AsksWithFirst
<1> QED BY <1>2, <1>3, <1>4 DEF ConsoleInv

LEMMA ConsoleTypes ==
  ASSUME ConsoleInv
  PROVE  /\ good \in Tokens /\ world \in ContainerVersions /\ elsewhere \in 0..MaxElsewhere
         /\ stored \in Tokens \cup {NoToken} /\ containerData \in ContainerVersions \cup {Nothing}
         /\ locked \in BOOLEAN /\ busy \in BOOLEAN /\ pollTimer \in BOOLEAN
         /\ IsABag(calls) /\ BagToSet(calls) \subseteq Calls
         /\ GateHolds(calls, busy, locked) /\ FirstToken(calls, stored, good)
BY DEF ConsoleInv, ConsoleTypeOK, Calls

LEMMA ClickSteps ==
  ASSUME ConsoleInv, NEW what \in {"health", "containers", "loader", "action", "apply"}, Click(what) \/ Tick
  PROVE  ConsoleInv' /\ ~locked /\ (locked' => stored = NoToken)
<1>1. PICK whats : whats \subseteq {"health", "opencode", "containers", "loader", "action", "apply"}
                   /\ Loads(whats, calls, locked, containerData)
  BY DEF Click, Tick
<1>2. UNCHANGED <<good, world, elsewhere, stored, busy, pollTimer>> /\ ~locked
  BY DEF Click, Tick, outsideVars, MayPoll
<1>3. /\ GateHolds(calls', busy, locked') /\ FirstToken(calls', stored, good)
      /\ locked' \in BOOLEAN /\ (locked' => locked \/ stored = NoToken)
      /\ containerData' \in ContainerVersions \cup {Nothing}
  BY <1>1, ConsoleTypes, LoadsKeep
<1> QED BY <1>2, <1>3, ConsoleTypes, ConsoleHolds

LEMMA LoginStep ==
  ASSUME ConsoleInv, NEW token \in Tokens, Login(token)
  PROVE  ConsoleInv' /\ locked
<1>1. /\ UNCHANGED <<good, world, elsewhere, stored, locked, pollTimer, containerData>>
      /\ locked /\ ~busy /\ busy' = TRUE
  BY DEF Login, outsideVars
<1>2. PICK c : c = Call("login", token, FALSE)
  OBVIOUS
<1>3. c \in Calls /\ AsksWithFirst(c)
  <2>1. c.what = "login" /\ c.answer = "none"
    BY <1>2 DEF Call
  <2>2. c \in Calls
    BY <1>2 DEF Call, Calls
  <2> QED BY <2>1, <2>2 DEF AsksWithFirst
<1>4. calls' = calls (+) SetToBag({c})
  BY <1>2 DEF Login
<1>5. BagToSet(calls) \cap Gates = {}
  BY <1>1, ConsoleTypes DEF GateHolds
<1>6. GateHolds(calls', busy', locked')
  BY <1>1, <1>3, <1>4, <1>5, ConsoleTypes, GateAfterOne
<1>7. FirstToken(calls', stored, good)
  BY <1>3, <1>4, ConsoleTypes, FirstAfterAdd
<1> QED BY <1>1, <1>6, <1>7, ConsoleTypes, ConsoleHolds

LEMMA OutsideSteps ==
  ASSUME ConsoleInv, Rotate \/ Change \/ OtherTab
  PROVE  ConsoleInv' /\ UNCHANGED locked
<1>1. UNCHANGED <<locked, busy, pollTimer, containerData, calls>>
  BY DEF Rotate, Change, OtherTab, ownVars
<1>2. good' \in Tokens /\ (good' = 0 => good = 0)
  BY ConsoleTypes, ConsoleAssumption DEF Rotate, Change, OtherTab, Tokens
<1>3. world' \in ContainerVersions
  BY ConsoleTypes, ConsoleAssumption DEF Rotate, Change, OtherTab, ContainerVersions
<1>4. elsewhere' \in 0..MaxElsewhere
  BY ConsoleTypes, ConsoleAssumption DEF Rotate, Change, OtherTab
<1>5. stored' \in Tokens \cup {NoToken} /\ (stored' = stored \/ (good' = good /\ stored' \in {good, NoToken}))
  BY ConsoleTypes DEF Rotate, Change, OtherTab, ownVars
<1>6. FirstToken(calls', stored', good')
  BY <1>1, <1>2, <1>5, ConsoleTypes DEF FirstToken
<1>7. GateHolds(calls', busy', locked')
  BY <1>1, ConsoleTypes
<1> QED BY <1>1, <1>2, <1>3, <1>4, <1>5, <1>6, <1>7, ConsoleTypes, ConsoleHolds

LEMMA LogoutStep ==
  ASSUME ConsoleInv, Logout
  PROVE  ConsoleInv'
<1>1. UNCHANGED <<good, world, elsewhere, busy, calls>> /\ stored' = NoToken /\ locked' = TRUE
      /\ pollTimer' = FALSE /\ containerData' = Nothing
  BY DEF Logout, outsideVars
<1>2. GateHolds(calls', busy', locked') /\ FirstToken(calls', stored', good')
  BY <1>1, ConsoleTypes DEF GateHolds, FirstToken
<1> QED BY <1>1, <1>2, ConsoleTypes, ConsoleHolds

LEMMA ServeStep ==
  ASSUME ConsoleInv, NEW c \in BagToSet(calls), Serve(c)
  PROVE  ConsoleInv' /\ UNCHANGED locked
<1>1. UNCHANGED <<good, elsewhere, stored, locked, busy, pollTimer, containerData>>
  BY DEF Serve
<1>2. PICK answer \in {IF c.token = good \/ c.what = "health" THEN "ok" ELSE "refused", "failed"} :
        /\ world' \in IF c.what \in {"action", "apply"} /\ answer = "ok" /\ world < MaxUpdates
                     THEN {world + 1} ELSE {world}
        /\ calls' = (calls (-) SetToBag({c}))
                   (+) SetToBag({[c EXCEPT !.answer = answer,
                                           !.saw = IF c.what = "containers" /\ answer = "ok"
                                                   THEN world ELSE Nothing]})
  BY DEF Serve
<1>3. world' \in ContainerVersions
  BY <1>2, ConsoleTypes, ConsoleAssumption DEF ContainerVersions
<1>4. PICK saw : saw = IF c.what = "containers" /\ answer = "ok" THEN world ELSE Nothing
  OBVIOUS
<1>5. PICK d : d = [c EXCEPT !.answer = answer, !.saw = saw]
  OBVIOUS
<1>6. c \in Calls /\ saw \in ContainerVersions \cup {Nothing} /\ answer \in {"ok", "refused", "failed"}
  BY <1>2, <1>4, ConsoleTypes
<1>7. /\ d \in Calls /\ d.what = c.what /\ d.token = c.token /\ d.ends = c.ends /\ d.answer = answer
  BY <1>5, <1>6 DEF Calls
<1>8. PICK rest : rest = calls (-) SetToBag({c})
  OBVIOUS
<1>9. calls' = rest (+) SetToBag({d})
  BY <1>2, <1>4, <1>5, <1>8
<1>10. GateHolds(rest, busy, locked) /\ (c \in Gates => BagToSet(rest) \cap Gates = {})
  BY <1>8, ConsoleTypes, GateAfterDrop
<1>11. GateHolds(calls', busy, locked)
  <2>1. CASE c \in Gates
    <3>1. busy = TRUE /\ (IsValidation(d) => locked)
      BY <1>7, <2>1, ConsoleTypes DEF GateHolds, IsValidation
    <3>2. IsABag(rest) /\ BagToSet(rest) \subseteq Calls
      BY <1>10 DEF GateHolds
    <3> QED BY <1>7, <1>9, <1>10, <2>1, <3>1, <3>2, GateAfterOne
  <2>2. CASE c \notin Gates
    <3>1. {d} \subseteq Calls /\ {d} \cap Gates = {}
      BY <1>6, <1>7, <2>2 DEF Gates, IsValidation
    <3> QED BY <1>9, <1>10, <3>1, AddsCalls
  <2> QED BY <2>1, <2>2
<1>12. FirstToken(calls', stored, good)
  <2>1. FirstToken(rest, stored, good) /\ IsABag(rest)
    BY <1>8, <1>10, ConsoleTypes, FirstAfterDrop DEF GateHolds
  <2>2. good = 0 => AsksWithFirst(d)
    <3>1. good = 0 => AsksWithFirst(c)
      BY ConsoleTypes DEF FirstToken
    <3> QED BY <1>2, <1>7, <3>1 DEF AsksWithFirst
  <2> QED BY <1>9, <2>1, <2>2, FirstAfterAdd
<1> QED BY <1>1, <1>3, <1>11, <1>12, ConsoleTypes, ConsoleHolds

\* What an answer may do to the lock of the page.
LocksByRight == ~locked /\ locked' => stored = NoToken \/ good > 0

LEMMA ValidatedStep ==
  ASSUME ConsoleInv, NEW c \in BagToSet(calls), UNCHANGED outsideVars, IsValidation(c), Validated(c)
  PROVE  ConsoleInv' /\ LocksByRight
<1>1. UNCHANGED <<good, world, elsewhere>>
  BY DEF outsideVars
<1>2. PICK rest : rest = calls (-) SetToBag({c})
  OBVIOUS
<1>3. c \in Calls /\ c \in Gates /\ locked /\ busy
  BY ConsoleTypes DEF Gates, GateHolds
<1>4. /\ \A nowBusy, nowLocked : GateHolds(rest, nowBusy, nowLocked)
      /\ BagToSet(rest) \cap Gates = {}
  BY <1>2, <1>3, ConsoleTypes, GateAfterDrop
<1>5. FirstToken(rest, stored, good) /\ IsABag(rest) /\ BagToSet(rest) \subseteq Calls
  BY <1>2, <1>4, ConsoleTypes, FirstAfterDrop DEF GateHolds
<1>6. CASE c.answer # "ok"
  <2>1. /\ stored' = NoToken /\ locked' = TRUE /\ busy' = FALSE /\ calls' = rest
        /\ UNCHANGED <<pollTimer, containerData>>
    BY <1>2, <1>6 DEF Validated, Invalidated
  <2>2. GateHolds(calls', busy', locked') /\ FirstToken(calls', stored', good')
    BY <1>1, <1>4, <1>5, <2>1 DEF FirstToken
  <2> QED BY <1>1, <1>3, <2>1, <2>2, ConsoleTypes, ConsoleHolds DEF LocksByRight
<1>7. CASE c.answer = "ok" /\ c.what = "login"
  <2>1. /\ stored' = c.token /\ locked' = FALSE /\ calls' = rest (+) Load({"health"}, c.token, TRUE)
        /\ UNCHANGED <<busy, containerData>> /\ pollTimer' = TRUE
    BY <1>2, <1>7 DEF Validated
  <2>2. c.token \in Tokens /\ (good = 0 => c.token = 0)
    BY <1>3, <1>7, ConsoleTypes DEF Calls, FirstToken, AsksWithFirst
  <2>3. PICK d : d = Call("health", c.token, TRUE)
    OBVIOUS
  <2>4. d \in Calls /\ d.what = "health" /\ d.token = c.token /\ d.answer = "none"
    BY <2>2, <2>3 DEF Call, Calls
  <2>5. calls' = rest (+) SetToBag({d})
    <3>1. LoadSet({"health"}, c.token, TRUE) = {d}
      BY <2>2, <2>3, TokenTypes DEF LoadSet
    <3> QED BY <2>1, <3>1, LoadIsSet
  <2>6. GateHolds(calls', busy', locked')
    <3>1. ~IsValidation(d) /\ busy' = TRUE
      BY <1>3, <2>1, <2>4 DEF IsValidation, ConsoleInv
    <3>2. GateHolds(calls', TRUE, locked')
      BY <1>4, <1>5, <2>4, <2>5, <3>1, GateAfterOne
    <3> QED BY <3>1, <3>2
  <2>7. FirstToken(calls', stored', good')
    <3>1. FirstToken(rest, c.token, good)
      BY <1>5, <2>2 DEF FirstToken
    <3>2. good = 0 => AsksWithFirst(d)
      BY <2>2, <2>4 DEF AsksWithFirst
    <3>3. FirstToken(calls', c.token, good)
      BY <1>5, <2>5, <3>1, <3>2, FirstAfterAdd
    <3> QED BY <1>1, <2>1, <3>3
  <2> QED BY <1>1, <1>3, <2>1, <2>2, <2>6, <2>7, ConsoleTypes, ConsoleHolds DEF LocksByRight
<1>8. CASE c.answer = "ok" /\ c.what # "login"
  <2>1. /\ Loads({"health", "containers", "loader"}, rest, FALSE, containerData)
        /\ busy' = FALSE /\ UNCHANGED stored /\ pollTimer' = TRUE
    BY <1>2, <1>8 DEF Validated
  <2>2. GateHolds(rest, FALSE, FALSE)
    BY <1>4
  <2>3. /\ GateHolds(calls', FALSE, locked') /\ FirstToken(calls', stored, good)
        /\ locked' \in BOOLEAN /\ containerData' \in ContainerVersions \cup {Nothing}
    <3> DEFINE whats == {"health", "containers", "loader"}
    <3>1. whats \subseteq {"health", "opencode", "containers", "loader", "action", "apply"} /\ FALSE \in BOOLEAN
      OBVIOUS
    <3>2. Loads(whats, rest, FALSE, containerData)
      BY <2>1
    <3> HIDE DEF whats
    <3> QED BY <1>5, <2>2, <3>1, <3>2, ConsoleTypes, LoadsKeep
  <2> QED BY <1>1, <1>3, <2>1, <2>3, ConsoleTypes, ConsoleHolds DEF LocksByRight
<1> QED BY <1>6, <1>7, <1>8

LEMMA HealthStep ==
  ASSUME ConsoleInv, NEW c \in BagToSet(calls), UNCHANGED outsideVars, c.what = "health", HealthAnswered(c)
  PROVE  ConsoleInv' /\ LocksByRight
<1>1. UNCHANGED <<good, world, elsewhere, stored, locked, busy, pollTimer, containerData>>
  BY DEF outsideVars, HealthAnswered
<1>2. PICK rest : rest = calls (-) SetToBag({c})
  OBVIOUS
<1>3. c \in Calls /\ c.token \in Tokens /\ (good = 0 => c.token = 0)
  BY ConsoleTypes DEF Calls, FirstToken, AsksWithFirst
<1>4. GateHolds(rest, busy, locked) /\ (c \in Gates => BagToSet(rest) \cap Gates = {})
  BY <1>2, ConsoleTypes, GateAfterDrop
<1>5. FirstToken(rest, stored, good) /\ IsABag(rest) /\ BagToSet(rest) \subseteq Calls
  BY <1>2, <1>4, ConsoleTypes, FirstAfterDrop DEF GateHolds
<1>6. PICK d : d = Call("opencode", c.token, c.ends)
  OBVIOUS
<1>7. d \in Calls /\ d.what = "opencode" /\ d.token = c.token /\ d.answer = "none" /\ d.ends = c.ends
  BY <1>3, <1>6 DEF Call, Calls
<1>8. calls' = rest (+) SetToBag({d})
  <2>1. LoadSet({"opencode"}, c.token, c.ends) = {d}
    BY <1>3, <1>6, TokenTypes DEF LoadSet
  <2> QED BY <1>2, <2>1, LoadIsSet DEF HealthAnswered
<1>9. ~IsValidation(d)
  BY <1>7 DEF IsValidation
<1>10. GateHolds(calls', busy, locked)
  <2>1. CASE c \in Gates
    <3>1. busy = TRUE
      BY <2>1, ConsoleTypes DEF GateHolds
    <3> QED BY <1>4, <1>5, <1>7, <1>8, <1>9, <2>1, <3>1, GateAfterOne
  <2>2. CASE c \notin Gates
    <3>1. {d} \subseteq Calls /\ {d} \cap Gates = {}
      BY <1>3, <1>7, <1>9, <2>2 DEF Gates
    <3> QED BY <1>4, <1>8, <3>1, AddsCalls
  <2> QED BY <2>1, <2>2
<1>11. FirstToken(calls', stored, good)
  <2>1. good = 0 => AsksWithFirst(d)
    BY <1>3, <1>7 DEF AsksWithFirst
  <2> QED BY <1>5, <1>8, <2>1, FirstAfterAdd
<1> QED BY <1>1, <1>10, <1>11, ConsoleTypes, ConsoleHolds DEF LocksByRight

\* What is left when an answer is taken that is no validation's, on a page that is
\* locked or not by then; and that a refusal comes late.
LEMMA AnswerTaken ==
  ASSUME ConsoleInv, NEW c \in BagToSet(calls), ~IsValidation(c), NEW rest, rest = calls (-) SetToBag({c})
  PROVE  /\ c \in Calls /\ IsABag(rest) /\ FirstToken(rest, stored, good)
         /\ GateHolds(rest, busy, locked) /\ GateHolds(rest, IF c.ends THEN FALSE ELSE busy, locked)
         /\ \A isBusy : GateHolds(rest, isBusy, locked) => GateHolds(rest, isBusy, TRUE)
         /\ FirstToken(rest, NoToken, good)
         /\ Refuses(c) => good > 0
<1>1. c \in Calls
  BY ConsoleTypes
<1>2. GateHolds(rest, busy, locked)
  BY ConsoleTypes, GateAfterDrop
<1>3. GateHolds(rest, IF c.ends THEN FALSE ELSE busy, locked)
  <2>1. CASE c.ends
    <3>1. c \in Gates
      BY <1>1, <2>1 DEF Gates
    <3>2. GateHolds(rest, FALSE, locked)
      BY <3>1, ConsoleTypes, GateAfterDrop
    <3> QED BY <2>1, <3>2
  <2>2. CASE ~c.ends
    BY <1>2, <2>2
  <2> QED BY <2>1, <2>2
<1>4. \A isBusy : GateHolds(rest, isBusy, locked) => GateHolds(rest, isBusy, TRUE)
  BY DEF GateHolds
<1>5. IsABag(rest) /\ FirstToken(rest, stored, good)
  BY ConsoleTypes, FirstAfterDrop, <1>2 DEF GateHolds
<1>6. FirstToken(rest, NoToken, good)
  BY <1>5 DEF FirstToken
<1>7. Refuses(c) => good > 0
  <2>1. good = 0 => AsksWithFirst(c)
    BY ConsoleTypes DEF FirstToken
  <2>2. c.what # "login"
    BY DEF IsValidation
  <2>3. good \in Nat
    BY ConsoleTypes DEF Tokens
  <2> QED BY <2>1, <2>2, <2>3 DEF AsksWithFirst, Refuses
<1> QED BY <1>1, <1>2, <1>3, <1>4, <1>5, <1>6, <1>7

LEMMA OpencodeStep ==
  ASSUME ConsoleInv, NEW c \in BagToSet(calls), UNCHANGED outsideVars, c.what = "opencode", OpencodeAnswered(c)
  PROVE  ConsoleInv' /\ LocksByRight
<1>1. UNCHANGED <<good, world, elsewhere, pollTimer>> /\ busy' = (IF c.ends THEN FALSE ELSE busy)
  BY DEF outsideVars, OpencodeAnswered, Unlocked
<1>2. PICK rest : rest = calls (-) SetToBag({c})
  OBVIOUS
<1>3. ~IsValidation(c)
  BY DEF IsValidation
<1>4. /\ c \in Calls /\ FirstToken(rest, stored, good) /\ GateHolds(rest, busy', locked)
      /\ GateHolds(rest, busy', TRUE) /\ FirstToken(rest, NoToken, good) /\ (Refuses(c) => good > 0)
  BY <1>1, <1>2, <1>3, AnswerTaken
<1>5. busy' \in BOOLEAN
  BY <1>1, ConsoleTypes
<1>6. CASE Refuses(c)
  <2>1. /\ stored' = NoToken /\ locked' = TRUE /\ calls' = rest
        /\ containerData' = IF c.ends THEN Nothing ELSE containerData
    BY <1>2, <1>6 DEF OpencodeAnswered, Invalidated
  <2>2. GateHolds(calls', busy', locked') /\ FirstToken(calls', stored', good')
    BY <1>1, <1>4, <2>1
  <2> QED BY <1>1, <1>4, <1>5, <1>6, <2>1, <2>2, ConsoleTypes, ConsoleHolds DEF LocksByRight
<1>7. CASE ~Refuses(c)
  <2>1. PICK whats : /\ whats \subseteq {"health", "opencode", "containers", "loader", "action", "apply"}
                     /\ Loads(whats, rest, locked, containerData)
    BY <1>2, <1>7 DEF OpencodeAnswered
  <2>2. stored' = stored
    BY <1>7 DEF OpencodeAnswered
  <2>3. /\ GateHolds(calls', busy', locked') /\ FirstToken(calls', stored, good)
        /\ locked' \in BOOLEAN /\ (locked' => locked \/ stored = NoToken)
        /\ containerData' \in ContainerVersions \cup {Nothing}
    BY <1>4, <1>5, <2>1, ConsoleTypes, LoadsKeep
  <2> QED BY <1>1, <1>5, <2>2, <2>3, ConsoleTypes, ConsoleHolds DEF LocksByRight
<1> QED BY <1>6, <1>7

LEMMA ContainersStep ==
  ASSUME ConsoleInv, NEW c \in BagToSet(calls), UNCHANGED outsideVars, c.what = "containers", ContainersAnswered(c)
  PROVE  ConsoleInv' /\ LocksByRight
<1>1. UNCHANGED <<good, world, elsewhere, pollTimer, busy>> /\ containerData' = c.saw
  BY DEF outsideVars, ContainersAnswered
<1>2. PICK rest : rest = calls (-) SetToBag({c})
  OBVIOUS
<1>3. ~IsValidation(c)
  BY DEF IsValidation
<1>4. /\ c \in Calls /\ FirstToken(rest, stored, good) /\ GateHolds(rest, busy, locked)
      /\ GateHolds(rest, busy, TRUE) /\ FirstToken(rest, NoToken, good) /\ (Refuses(c) => good > 0)
  BY <1>2, <1>3, AnswerTaken
<1>5. calls' = rest /\ c.saw \in ContainerVersions \cup {Nothing}
  BY <1>2, <1>4 DEF ContainersAnswered, Calls
<1>6. CASE Refuses(c)
  <2>1. stored' = NoToken /\ locked' = TRUE
    BY <1>6 DEF ContainersAnswered, Invalidated
  <2> QED BY <1>1, <1>4, <1>5, <1>6, <2>1, ConsoleTypes, ConsoleHolds DEF LocksByRight
<1>7. CASE ~Refuses(c)
  <2>1. UNCHANGED <<stored, locked>>
    BY <1>7 DEF ContainersAnswered
  <2> QED BY <1>1, <1>4, <1>5, <2>1, ConsoleTypes, ConsoleHolds DEF LocksByRight
<1> QED BY <1>6, <1>7

LEMMA OtherStep ==
  ASSUME ConsoleInv, NEW c \in BagToSet(calls), UNCHANGED outsideVars,
         c.what \in {"loader", "action", "apply"}, OtherAnswered(c)
  PROVE  ConsoleInv' /\ LocksByRight
<1>1. UNCHANGED <<good, world, elsewhere, pollTimer, busy>>
  BY DEF outsideVars, OtherAnswered
<1>2. PICK rest : rest = calls (-) SetToBag({c})
  OBVIOUS
<1>3. ~IsValidation(c)
  BY DEF IsValidation
<1>4. /\ c \in Calls /\ FirstToken(rest, stored, good) /\ GateHolds(rest, busy, locked)
      /\ GateHolds(rest, busy, TRUE) /\ FirstToken(rest, NoToken, good) /\ (Refuses(c) => good > 0)
  BY <1>2, <1>3, AnswerTaken
<1>5. CASE Refuses(c)
  <2>1. stored' = NoToken /\ locked' = TRUE /\ calls' = rest /\ containerData' = containerData
    BY <1>2, <1>5 DEF OtherAnswered, Invalidated
  <2> QED BY <1>1, <1>4, <1>5, <2>1, ConsoleTypes, ConsoleHolds DEF LocksByRight
<1>6. CASE ~Refuses(c) /\ ~(c.what = "action" /\ c.answer = "ok")
  <2>1. calls' = rest /\ UNCHANGED <<stored, locked, containerData>>
    BY <1>2, <1>6 DEF OtherAnswered
  <2> QED BY <1>1, <1>4, <2>1, ConsoleTypes, ConsoleHolds DEF LocksByRight
<1>7. CASE ~Refuses(c) /\ c.what = "action" /\ c.answer = "ok"
  <2>1. PICK whats : /\ whats \subseteq {"health", "opencode", "containers", "loader", "action", "apply"}
                     /\ Loads(whats, rest, locked, containerData)
    BY <1>2, <1>7 DEF OtherAnswered
  <2>2. stored' = stored
    BY <1>7 DEF OtherAnswered
  <2>3. /\ GateHolds(calls', busy, locked') /\ FirstToken(calls', stored, good)
        /\ locked' \in BOOLEAN /\ (locked' => locked \/ stored = NoToken)
        /\ containerData' \in ContainerVersions \cup {Nothing}
    BY <1>4, <2>1, ConsoleTypes, LoadsKeep
  <2> QED BY <1>1, <2>2, <2>3, ConsoleTypes, ConsoleHolds DEF LocksByRight
<1> QED BY <1>5, <1>6, <1>7

LEMMA ConsoleStep ==
  ASSUME ConsoleInv, [ConsoleNext]_consoleVars
  PROVE  ConsoleInv' /\ (LocksByRight \/ Logout)
<1>1. CASE UNCHANGED consoleVars
  <2>1. UNCHANGED <<good, world, stored, locked, busy, pollTimer, containerData, calls, elsewhere>>
    BY <1>1 DEF consoleVars
  <2> QED BY <2>1, ConsoleTypes, ConsoleHolds DEF LocksByRight
<1>2. ASSUME NEW what \in {"health", "containers", "loader", "action", "apply"}, Click(what) \/ Tick
      PROVE  ConsoleInv' /\ LocksByRight
  BY <1>2, ClickSteps DEF LocksByRight
<1>3. CASE Tick
  <2>1. "health" \in {"health", "containers", "loader", "action", "apply"}
    OBVIOUS
  <2> QED BY <1>3, <2>1, <1>2
<1>4. ASSUME NEW token \in Tokens, Login(token)
      PROVE  ConsoleInv' /\ LocksByRight
  BY <1>4, LoginStep DEF LocksByRight
<1>5. CASE Rotate \/ Change \/ OtherTab
  BY <1>5, OutsideSteps DEF LocksByRight
<1>6. CASE Logout
  BY <1>6, LogoutStep
<1>7. ASSUME NEW c \in BagToSet(calls), Serve(c)
      PROVE  ConsoleInv' /\ LocksByRight
  BY <1>7, ServeStep DEF LocksByRight
<1>8. ASSUME NEW c \in BagToSet(calls), Arrive(c)
      PROVE  ConsoleInv' /\ LocksByRight
  <2>1. UNCHANGED outsideVars
    BY <1>8 DEF Arrive
  <2>2. CASE c.what \in {"login", "mount"} /\ Validated(c)
    BY <2>1, <2>2, ValidatedStep DEF IsValidation
  <2>3. CASE c.what = "health" /\ HealthAnswered(c)
    BY <2>1, <2>3, HealthStep
  <2>4. CASE c.what = "opencode" /\ OpencodeAnswered(c)
    BY <2>1, <2>4, OpencodeStep
  <2>5. CASE c.what = "containers" /\ ContainersAnswered(c)
    BY <2>1, <2>5, ContainersStep
  <2>6. CASE c.what \in {"loader", "action", "apply"} /\ OtherAnswered(c)
    BY <2>1, <2>6, OtherStep
  <2> QED BY <1>8, <2>2, <2>3, <2>4, <2>5, <2>6 DEF Arrive
<1> QED BY <1>1, <1>2, <1>3, <1>4, <1>5, <1>6, <1>7, <1>8 DEF ConsoleNext

LEMMA ConsoleBegins == ConsoleInit => ConsoleInv
<1>1. SUFFICES ASSUME ConsoleInit PROVE ConsoleInv
  OBVIOUS
<1>2. /\ good = 0 /\ world = 0 /\ elsewhere = 0 /\ stored \in {0, NoToken} /\ locked = TRUE
      /\ pollTimer = FALSE /\ containerData = Nothing /\ busy = (stored # NoToken)
      /\ calls = IF busy THEN SetToBag({Call("mount", stored, FALSE)}) ELSE EmptyBag
  BY <1>1 DEF ConsoleInit
<1>3. good \in Tokens /\ world \in ContainerVersions /\ elsewhere \in 0..MaxElsewhere
  BY <1>2, TokenTypes, ConsoleAssumption
<1>4. GateHolds(calls, busy, locked) /\ FirstToken(calls, stored, good)
  <2>1. CASE stored = NoToken
    <3>1. calls = EmptyBag /\ IsABag(calls) /\ BagToSet(calls) = {}
      BY <1>2, <2>1, BagOfOne
    <3> QED BY <1>2, <3>1 DEF GateHolds, FirstToken, Single
  <2>2. CASE stored # NoToken
    <3>1. PICK c : c = Call("mount", stored, FALSE)
      OBVIOUS
    <3>2. stored = 0 /\ 0 \in Tokens
      BY <1>2, <2>2, TokenTypes
    <3>3. c \in Calls /\ c.what = "mount" /\ c.token = 0 /\ c.answer = "none"
      BY <3>1, <3>2 DEF Call, Calls
    <3>4. calls = EmptyBag (+) SetToBag({c}) /\ IsABag(EmptyBag) /\ BagToSet(EmptyBag) = {}
      BY <1>2, <2>2, <3>1, BagOfOne, NoneAndMore
    <3>5. GateHolds(calls, TRUE, locked)
      BY <1>2, <3>3, <3>4, GateAfterOne
    <3>6. calls = SetToBag({c}) /\ BagToSet(calls) = {c}
      BY <1>2, <2>2, <3>1, BagOfOne
    <3>7. FirstToken(calls, stored, good)
      BY <1>2, <3>3, <3>6 DEF FirstToken, AsksWithFirst
    <3> QED BY <1>2, <2>2, <3>5, <3>7
  <2> QED BY <2>1, <2>2
<1>5. ConsoleTypeOK
  <2>1. IsABag(calls) /\ BagToSet(calls) \subseteq Calls
    BY <1>4 DEF GateHolds
  <2> QED BY <1>2, <1>3, <2>1 DEF ConsoleTypeOK, Calls
<1> QED BY <1>4, <1>5 DEF ConsoleInv

(***************************************************************************)
(* The lists.                                                              *)
(***************************************************************************)
ReqRecords == [what : {"act", "load"}, item : Items \cup {NoItem}, want : BOOLEAN, last : BOOLEAN,
               answer : {"none", "ok", "failed"}, saw : SUBSET Items]
Reqs == {r \in ReqRecords : r.what = "act" => r.item \in Items}
Acts == {r \in Reqs : OfAction(r)}

\* Of secrets one action is under way at a time, and a row is at work while it is.
OneAction(b, atWork) ==
  /\ IsABag(b) /\ BagToSet(b) \subseteq Reqs
  /\ tab = "secrets" => Single(b, Acts) /\ (atWork = NoItem => BagToSet(b) \cap Acts = {})

\* Where requests did not overlap there is one, and an answer that is on its way is true.
OneRequest(b, isOver, isWaived, isOn) ==
  /\ ~isOver => b = EmptyBag \/ \E r \in Reqs : b = SetToBag({r})
  /\ ~isOver /\ ~isWaived => \A r \in BagToSet(b) : r.what = "load" /\ r.answer = "ok" => r.saw = isOn

CatalogInv ==
  /\ tab \in {"addons", "automations", "secrets"}
  /\ on \in SUBSET Items /\ rows \in SUBSET Items /\ complaints \subseteq {"act", "load"}
  /\ listing \in BOOLEAN /\ overlaps \in BOOLEAN /\ waived \in BOOLEAN /\ acting \in Items \cup {NoItem}
  /\ OneAction(requests, acting) /\ OneRequest(requests, overlaps, waived, on) /\ ListHonest

LEMMA CatalogTypes == CatalogInv => CatalogTypeOK
<1>1. SUFFICES ASSUME CatalogInv PROVE CatalogTypeOK
  OBVIOUS
<1>2. IsABag(requests) /\ BagToSet(requests) \subseteq Reqs
  BY <1>1 DEF CatalogInv, OneAction
<1>3. ASSUME tab = "secrets" PROVE Cardinality({r \in BagToSet(requests) : OfAction(r)}) <= 1
  <2> DEFINE own == {r \in BagToSet(requests) : OfAction(r)}
  <2>1. own \subseteq BagToSet(requests) \cap Acts
    BY <1>2 DEF Acts
  <2>2. \A r, s \in own : r = s
    BY <1>1, <1>3, <2>1 DEF CatalogInv, OneAction, Single
  <2>3. Cardinality(own) <= 1
    <3> HIDE DEF own
    <3> QED BY <2>2, AtMostOneElement
  <2> QED BY <2>3
<1>4. BagToSet(requests) \subseteq ReqRecords
  BY <1>2 DEF Reqs
<1> QED BY <1>1, <1>2, <1>3, <1>4 DEF CatalogInv, CatalogTypeOK, ReqRecords

LEMMA RequestTypes ==
  ASSUME NEW what \in {"act", "load"}, NEW item \in Items \cup {NoItem}, NEW want \in BOOLEAN, NEW last \in BOOLEAN,
         what = "act" => item \in Items, NEW r, r = Request(what, item, want, last)
  PROVE  /\ r \in Reqs /\ r.what = what /\ r.last = last /\ r.answer = "none"
         /\ r \in Acts <=> what = "act" \/ last
<1>1. r \in Reqs /\ r.what = what /\ r.last = last /\ r.answer = "none"
  BY DEF Request, Reqs, ReqRecords
<1> QED BY <1>1 DEF Acts, OfAction

\* Another request, after which rows are at work or not.
LEMMA OneActionAdds ==
  ASSUME NEW b, NEW atWork, OneAction(b, atWork), NEW r \in Reqs, NEW nowAtWork,
         tab = "secrets" =>
           IF r \in Acts THEN BagToSet(b) \cap Acts = {} /\ nowAtWork # NoItem
           ELSE nowAtWork = NoItem => atWork = NoItem
  PROVE  OneAction(b (+) SetToBag({r}), nowAtWork)
<1>1. PICK d : d = b (+) SetToBag({r})
  OBVIOUS
<1>2. IsABag(d) /\ BagToSet(d) = BagToSet(b) \cup {r}
  BY <1>1, BagAdds DEF OneAction
<1>3. tab = "secrets" => Single(d, Acts)
  <2>1. CASE r \in Acts
    BY <1>1, <2>1, SingleAfterAdd DEF OneAction
  <2>2. CASE r \notin Acts
    <3>1. {r} \cap Acts = {}
      BY <2>2
    <3> QED BY <1>1, <3>1, SingleAfterAdd DEF OneAction
  <2> QED BY <2>1, <2>2
<1> QED BY <1>1, <1>2, <1>3 DEF OneAction

LEMMA OneActionDrops ==
  ASSUME NEW b, NEW atWork, OneAction(b, atWork), NEW r \in BagToSet(b)
  PROVE  /\ OneAction(b (-) SetToBag({r}), atWork)
         /\ r \in Acts => \A nowAtWork : OneAction(b (-) SetToBag({r}), nowAtWork)
         /\ tab = "secrets" /\ r \in Acts =>
              BagToSet(b (-) SetToBag({r})) \cap Acts = {} /\ atWork # NoItem
<1>1. PICK d : d = b (-) SetToBag({r})
  OBVIOUS
<1>2. IsABag(d) /\ BagToSet(d) \subseteq BagToSet(b)
  BY <1>1, BagDrops DEF OneAction
<1>3. tab = "secrets" => Single(d, Acts) /\ (r \in Acts => BagToSet(d) \cap Acts = {})
  BY <1>1, SingleAfterDrop DEF OneAction
<1> QED BY <1>1, <1>2, <1>3 DEF OneAction

\* What overlaps nothing is the only one.
LEMMA OnlyRequest ==
  ASSUME CatalogInv, NEW r \in BagToSet(requests), ~overlaps
  PROVE  requests (-) SetToBag({r}) = EmptyBag
<1>1. requests # EmptyBag
  BY BagOfOne
<1>2. PICK q \in Reqs : requests = SetToBag({q})
  BY <1>1 DEF CatalogInv, OneRequest
<1>3. r = q
  BY <1>2, BagOfOne
<1> QED BY <1>2, <1>3, BagOfOne

LEMMA AloneAfterAdd ==
  ASSUME NEW b, IsABag(b), NEW r \in Reqs, NEW isOver, NEW isWaived, NEW isOn,
         ~isOver => b = EmptyBag, r.answer = "none" \/ r.what = "act" \/ r.saw = isOn \/ r.answer = "failed"
  PROVE  OneRequest(b (+) SetToBag({r}), isOver, isWaived, isOn) /\ b (+) SetToBag({r}) # EmptyBag
<1>1. ~isOver => b (+) SetToBag({r}) = SetToBag({r})
  BY NoneAndMore
<1>2. BagToSet(SetToBag({r})) = {r}
  BY BagOfOne
<1>3. b (+) SetToBag({r}) # EmptyBag
  BY NoneAndMore
<1> QED BY <1>1, <1>2, <1>3 DEF OneRequest

LEMMA CatalogHolds ==
  ASSUME tab' = tab, CatalogInv, on' \in SUBSET Items, rows' \in SUBSET Items, complaints' \subseteq {"act", "load"},
         listing' \in BOOLEAN, overlaps' \in BOOLEAN, waived' \in BOOLEAN, acting' \in Items \cup {NoItem},
         OneAction(requests', acting'), OneRequest(requests', overlaps', waived', on'), ListHonest'
  PROVE  CatalogInv'
<1>1. OneAction(requests, acting)'
  BY DEF OneAction
<1>2. OneRequest(requests, overlaps, waived, on)'
  BY DEF OneRequest
<1> QED BY <1>1, <1>2 DEF CatalogInv

LEMMA ClickRowStep ==
  ASSUME CatalogInv, NEW i \in Items, ClickRow(i)
  PROVE  CatalogInv'
<1>1. PICK want \in BOOLEAN : requests' = requests (+) SetToBag({Request("act", i, want, FALSE)})
  BY DEF ClickRow
<1>2. PICK r : r = Request("act", i, want, FALSE)
  OBVIOUS
<1>3. r \in Reqs /\ r \in Acts /\ r.answer = "none"
  <2>1. "act" \in {"act", "load"} /\ i \in Items \cup {NoItem} /\ FALSE \in BOOLEAN /\ want \in BOOLEAN /\ i \in Items
    BY <1>1
  <2>2. r \in Reqs /\ r.what = "act" /\ r.answer = "none"
    BY <1>2, <2>1 DEF Request, Reqs, ReqRecords
  <2> QED BY <2>2 DEF Acts, OfAction
<1>4. /\ acting' = i /\ i # NoItem /\ complaints' \subseteq complaints
      /\ overlaps' = (overlaps \/ requests # EmptyBag)
      /\ UNCHANGED <<tab, on, rows, listing, waived>>
      /\ tab = "secrets" => acting = NoItem
  BY CatalogAssumption DEF ClickRow, MayClick
<1>5. OneAction(requests', acting')
  <2>1. tab = "secrets" => BagToSet(requests) \cap Acts = {}
    BY <1>4 DEF CatalogInv, OneAction
  <2> QED BY <1>1, <1>2, <1>3, <1>4, <2>1, OneActionAdds DEF CatalogInv
<1>6. OneRequest(requests', overlaps', waived', on') /\ requests' # EmptyBag
  <2>1. IsABag(requests) /\ (~overlaps' => requests = EmptyBag)
    BY <1>4 DEF CatalogInv, OneAction
  <2> QED BY <1>1, <1>2, <1>3, <2>1, AloneAfterAdd
<1>7. ListHonest'
  BY <1>6 DEF ListHonest
<1> QED BY <1>4, <1>5, <1>6, <1>7, CatalogHolds DEF CatalogInv

LEMMA ReloadStep ==
  ASSUME CatalogInv, Reload
  PROVE  CatalogInv'
<1>1. PICK r : r = Request("load", NoItem, FALSE, FALSE)
  OBVIOUS
<1>2. r \in Reqs /\ r \notin Acts /\ r.answer = "none"
  <2>1. FALSE \in BOOLEAN /\ NoItem \in Items \cup {NoItem}
    OBVIOUS
  <2> QED BY <1>1, <2>1, RequestTypes
<1>3. /\ requests' = requests (+) SetToBag({r}) /\ listing' = TRUE /\ complaints' \subseteq complaints
      /\ overlaps' = (overlaps \/ requests # EmptyBag)
      /\ UNCHANGED <<tab, on, rows, acting, waived>>
  BY <1>1 DEF Reload
<1>4. OneAction(requests', acting')
  BY <1>2, <1>3, OneActionAdds DEF CatalogInv
<1>5. OneRequest(requests', overlaps', waived', on') /\ requests' # EmptyBag
  <2>1. IsABag(requests) /\ (~overlaps' => requests = EmptyBag)
    BY <1>3 DEF CatalogInv, OneAction
  <2> QED BY <1>2, <1>3, <2>1, AloneAfterAdd
<1>6. ListHonest'
  BY <1>5 DEF ListHonest
<1> QED BY <1>3, <1>4, <1>5, <1>6, CatalogHolds DEF CatalogInv

LEMMA ServeRequestStep ==
  ASSUME CatalogInv, NEW r \in BagToSet(requests), ServeRequest(r)
  PROVE  CatalogInv'
<1>1. UNCHANGED <<tab, rows, complaints, acting, listing, overlaps, waived>> /\ r \in Reqs
  BY DEF ServeRequest, CatalogInv, OneAction
<1>2. PICK answer \in {"ok", "failed"} :
        /\ on' \in {After(r)} \cup (IF answer = "failed" THEN {on} ELSE {})
        /\ requests' = (requests (-) SetToBag({r})) (+) SetToBag({[r EXCEPT !.answer = answer,
                        !.saw = IF r.what = "load" /\ answer = "ok" THEN on ELSE {}]})
  BY DEF ServeRequest
<1>3. on' \in SUBSET Items /\ (r.what = "load" => on' = on)
  <2>1. on \subseteq Items /\ r.item \in Items \cup {NoItem}
    BY <1>1 DEF CatalogInv, Reqs, ReqRecords
  <2>2. r.what # "load" => r.item \in Items
    BY <1>1 DEF Reqs, ReqRecords
  <2> QED BY <1>2, <2>1, <2>2 DEF After
<1>4. PICK saw : saw = IF r.what = "load" /\ answer = "ok" THEN on ELSE {}
  OBVIOUS
<1>5. PICK d : d = [r EXCEPT !.answer = answer, !.saw = saw]
  OBVIOUS
<1>6. /\ d \in Reqs /\ d.what = r.what /\ d.last = r.last /\ d.answer = answer /\ d.saw = saw
      /\ d \in Acts <=> r \in Acts
  <2>1. saw \in SUBSET Items
    BY <1>4 DEF CatalogInv
  <2>2. d \in Reqs /\ d.what = r.what /\ d.last = r.last /\ d.answer = answer /\ d.saw = saw
    BY <1>1, <1>5, <2>1 DEF Reqs, ReqRecords
  <2> QED BY <1>1, <2>2 DEF Acts, OfAction
<1>7. PICK rest : rest = requests (-) SetToBag({r})
  OBVIOUS
<1>8. requests' = rest (+) SetToBag({d})
  BY <1>2, <1>4, <1>5, <1>7
<1>9. OneAction(requests', acting')
  <2>1. /\ OneAction(rest, acting)
        /\ tab = "secrets" /\ r \in Acts => BagToSet(rest) \cap Acts = {} /\ acting # NoItem
    BY <1>7, OneActionDrops DEF CatalogInv
  <2> QED BY <1>1, <1>6, <1>8, <2>1, OneActionAdds
<1>10. OneRequest(requests', overlaps', waived', on') /\ requests' # EmptyBag
  <2>1. IsABag(rest)
    BY <1>7, OneActionDrops DEF CatalogInv, OneAction
  <2>2. ~overlaps' => rest = EmptyBag
    BY <1>1, <1>7, OnlyRequest
  <2>3. d.what = "act" \/ d.saw = on' \/ d.answer = "failed"
    BY <1>1, <1>3, <1>4, <1>6 DEF Reqs, ReqRecords
  <2> QED BY <1>6, <1>8, <2>1, <2>2, <2>3, AloneAfterAdd
<1>11. ListHonest'
  BY <1>10 DEF ListHonest
<1> QED BY <1>1, <1>3, <1>9, <1>10, <1>11, CatalogHolds DEF CatalogInv

LEMMA ActedStep ==
  ASSUME CatalogInv, NEW r \in BagToSet(requests), Acted(r)
  PROVE  CatalogInv'
<1>1. /\ UNCHANGED <<tab, on, rows, overlaps, waived>> /\ r \in Reqs /\ r \in Acts /\ IsABag(requests)
  BY DEF Acted, CatalogInv, OneAction, Acts, OfAction
<1>2. PICK rest : rest = requests (-) SetToBag({r})
  OBVIOUS
<1>3. /\ \A nowAtWork : OneAction(rest, nowAtWork)
      /\ tab = "secrets" => BagToSet(rest) \cap Acts = {} /\ acting # NoItem
  BY <1>1, <1>2, OneActionDrops DEF CatalogInv
<1>4. IsABag(rest) /\ (~overlaps => rest = EmptyBag)
  BY <1>2, <1>3, OnlyRequest DEF OneAction
<1>5. CASE r.answer = "ok"
  <2>1. PICK d : d = Request("load", NoItem, FALSE, TRUE)
    OBVIOUS
  <2>2. d \in Reqs /\ d \in Acts /\ d.answer = "none"
    <3>1. /\ "load" \in {"act", "load"} /\ NoItem \in Items \cup {NoItem} /\ FALSE \in BOOLEAN /\ TRUE \in BOOLEAN
          /\ "load" # "act"
      OBVIOUS
    <3> QED BY <2>1, <3>1, RequestTypes
  <2>3. /\ requests' = rest (+) SetToBag({d}) /\ complaints' \subseteq complaints /\ listing' = TRUE
        /\ acting' = acting
    BY <1>2, <1>5, <2>1 DEF Acted, ReloadsAfter
  <2>4. OneAction(requests', acting')
    BY <1>3, <2>2, <2>3, OneActionAdds
  <2>5. OneRequest(requests', overlaps', waived', on') /\ requests' # EmptyBag
    BY <1>1, <1>4, <2>2, <2>3, AloneAfterAdd
  <2>6. ListHonest'
    BY <2>5 DEF ListHonest
  <2> QED BY <1>1, <2>3, <2>4, <2>5, <2>6, CatalogHolds DEF CatalogInv
<1>6. CASE r.answer # "ok"
  <2>1. requests' = rest /\ acting' = NoItem /\ complaints' = complaints \cup {"act"} /\ listing' = listing
    BY <1>2, <1>6 DEF Acted, ReloadsAfter
  <2>2. OneRequest(requests', overlaps', waived', on')
    <3>1. BagToSet(EmptyBag) = {}
      BY BagOfOne
    <3> QED BY <1>1, <1>4, <2>1, <3>1 DEF OneRequest
  <2>3. ListHonest'
    BY <2>1 DEF ListHonest
  <2> QED BY <1>1, <1>3, <2>1, <2>2, <2>3, CatalogHolds DEF CatalogInv
<1> QED BY <1>5, <1>6

LEMMA LoadedStep ==
  ASSUME CatalogInv, NEW r \in BagToSet(requests), Loaded(r)
  PROVE  CatalogInv'
<1>1. /\ UNCHANGED <<tab, on>> /\ r \in Reqs /\ listing' = FALSE /\ r.what = "load" /\ r.answer # "none"
  BY DEF Loaded, CatalogInv, OneAction
<1>2. PICK rest : rest = requests (-) SetToBag({r})
  OBVIOUS
<1>3. requests' = rest /\ acting' = (IF r.last THEN NoItem ELSE acting)
  BY <1>2 DEF Loaded, Frees
<1>4. OneAction(requests', acting')
  <2>1. CASE r.last
    <3>1. r \in Acts
      BY <1>1, <2>1 DEF Acts, OfAction
    <3> QED BY <1>2, <1>3, <3>1, OneActionDrops DEF CatalogInv
  <2>2. CASE ~r.last
    <3>1. acting' = acting
      BY <1>3, <2>2
    <3> QED BY <1>2, <1>3, <3>1, OneActionDrops DEF CatalogInv
  <2> QED BY <2>1, <2>2
<1>5. /\ rows' = IF r.answer = "ok" THEN r.saw ELSE rows
      /\ complaints' = IF r.answer = "ok" THEN complaints ELSE complaints \cup {"load"}
  BY DEF Loaded
<1>6. rows' \in SUBSET Items /\ complaints' \subseteq {"act", "load"} /\ acting' \in Items \cup {NoItem}
  BY <1>1, <1>3, <1>5 DEF CatalogInv, Reqs, ReqRecords
<1>7. BagToSet(EmptyBag) = {} /\ (~overlaps => rest = EmptyBag)
  BY <1>2, BagOfOne, OnlyRequest
<1>8. CASE requests' = EmptyBag /\ rows' = on
  <2>1. overlaps' = FALSE /\ waived' = FALSE
    BY <1>8 DEF Loaded
  <2>2. OneRequest(requests', overlaps', waived', on')
    BY <1>7, <1>8 DEF OneRequest
  <2>3. ListHonest'
    BY <1>1, <1>8 DEF ListHonest
  <2> QED BY <1>1, <1>4, <1>6, <2>1, <2>2, <2>3, CatalogHolds DEF CatalogInv
<1>9. CASE ~(requests' = EmptyBag /\ rows' = on)
  <2>1. overlaps' = overlaps /\ waived' = waived
    BY <1>9 DEF Loaded
  <2>2. OneRequest(requests', overlaps', waived', on')
    BY <1>3, <1>7, <2>1 DEF OneRequest
  <2>3. ListHonest'
    <3>1. SUFFICES ASSUME ~overlaps, ~waived, complaints' = {}
                   PROVE  rows' = on
      BY <1>1, <2>1 DEF ListHonest
    <3>2. r.answer = "ok"
      BY <1>5, <3>1
    <3>3. r.saw = on
      BY <1>1, <3>1, <3>2 DEF CatalogInv, OneRequest
    <3> QED BY <1>5, <3>2, <3>3
  <2> QED BY <1>1, <1>4, <1>6, <2>1, <2>2, <2>3, CatalogHolds DEF CatalogInv
<1> QED BY <1>8, <1>9

LEMMA AsideSteps ==
  ASSUME CatalogInv, Switched \/ DismissComplaint
  PROVE  CatalogInv'
<1>1. UNCHANGED <<tab, rows, acting, listing, requests, overlaps>> /\ waived' = TRUE
  BY DEF Switched, DismissComplaint
<1>2. on' \in SUBSET Items /\ complaints' \subseteq {"act", "load"}
  BY DEF Switched, DismissComplaint, CatalogInv
<1>3. OneRequest(requests', overlaps', waived', on') /\ ListHonest'
  BY <1>1 DEF CatalogInv, OneRequest, ListHonest
<1> QED BY <1>1, <1>2, <1>3, CatalogHolds DEF CatalogInv

LEMMA CatalogStep ==
  ASSUME CatalogInv, [CatalogNext]_catalogVars
  PROVE  CatalogInv'
<1>1. CASE UNCHANGED catalogVars
  BY <1>1, CatalogHolds DEF catalogVars, CatalogInv, OneRequest, ListHonest
<1>2. CASE CatalogNext
  BY <1>2, ClickRowStep, ReloadStep, ServeRequestStep, ActedStep, LoadedStep, AsideSteps DEF CatalogNext
<1> QED BY <1>1, <1>2

LEMMA CatalogBegins == CatalogInit => CatalogInv
<1>1. SUFFICES ASSUME CatalogInit PROVE CatalogInv
  OBVIOUS
<1>2. PICK r : r = Request("load", NoItem, FALSE, FALSE)
  OBVIOUS
<1>3. r \in Reqs /\ r \notin Acts /\ r.answer = "none"
  <2>1. FALSE \in BOOLEAN /\ NoItem \in Items \cup {NoItem}
    OBVIOUS
  <2> QED BY <1>2, <2>1, RequestTypes
<1>4. requests = SetToBag({r}) /\ IsABag(requests) /\ BagToSet(requests) = {r} /\ requests # EmptyBag
  BY <1>1, <1>2, BagOfOne DEF CatalogInit
<1>5. OneAction(requests, acting)
  BY <1>3, <1>4 DEF OneAction, Single
<1>6. OneRequest(requests, overlaps, waived, on)
  BY <1>3, <1>4 DEF OneRequest
<1> QED BY <1>1, <1>4, <1>5, <1>6 DEF CatalogInit, CatalogInv, ListHonest

(***************************************************************************)
(* The providers.                                                          *)
(***************************************************************************)
Sent == [id : Nat, what : {"load", "save", "start", "finish", "custom", "callback"},
         of : ProviderIds \cup {Nobody}, mine : BOOLEAN, newest : BOOLEAN,
         answer : {"none", "done", "code", "auto", "refused", "broken", "lost"},
         saw : {"none", "offline", "stale", "fresh"}]
Editors == [of : ProviderIds \cup {Nobody}, result : {"none", "failed", "ok", "code", "auto"},
            status : {"idle", "pending", "timed_out", "complete", "error"},
            submitting : BOOLEAN, timers : 0..MaxTimers + 1, deadline : BOOLEAN, crossed : BOOLEAN]

AskedOK(under) ==
  /\ IsFiniteSet(under) /\ under \subseteq Sent
  /\ \A c, d \in under : c.what = d.what /\ c.of = d.of /\ c.id = d.id => c = d

\* What an editor has under way: one action, while it is submitting, and sign-ins, of
\* which one is the newest; and its status is that one's.
EditorOK(under, editor) ==
  /\ editor \in Editors
  /\ \A c \in under : c.mine => c.of = editor.of /\ c.of # Nobody /\ c.what \notin {"load", "custom"}
  /\ \A c \in under : c.newest => c.mine /\ c.what = "callback"
  /\ \A c, d \in under : c.newest /\ d.newest => c = d
  /\ \A c, d \in under : c.mine /\ d.mine /\ c.what # "callback" /\ d.what # "callback" => c = d
  /\ \A c \in under : c.mine /\ c.what # "callback" => editor.submitting
  /\ editor.submitting => editor.timers <= MaxTimers
  /\ editor.status = "pending" => editor.deadline /\ \E c \in under : c.newest
  /\ editor.status = "complete" => editor.crossed \/ \A c \in under : ~c.newest

\* A change whose answer is on its way, after which the page is loaded again.
Changed(c) ==
  /\ c.what \in {"save", "finish", "custom", "callback"}
  /\ c.answer \in {"done", "lost"} \/ (c.what = "finish" /\ c.answer = "broken")

\* Where nothing excuses it one load is under way at a time, and what is stale, on the
\* page or in an answer, is followed by a load.
LoadEnds(c) ==
  c.what = "load" => c.answer \in {"none", "done", "lost"} /\ (c.answer = "done" => c.saw # "none")

LoadsOK(under, pg, isLoading, isExcused) ==
  /\ \A c \in under : LoadEnds(c)
  /\ isLoading => \E c \in under : c.what = "load"
  /\ ~isExcused =>
       /\ \A c, d \in under : c.what = "load" /\ d.what = "load" => c = d
       /\ \A c \in under : c.what = "load" /\ c.saw = "stale" => \E d \in under : Changed(d)
       /\ pg = "stale" => \E d \in under : Changed(d) \/ (d.what = "load" /\ d.saw # "stale")

PageTypes(pg, last, chosenId) ==
  /\ pg \in {"offline", "stale", "fresh"} /\ last \in ProviderIds \cup {Nobody}
  /\ chosenId \in ProviderIds \cup {Nobody}
  /\ last # Nobody => chosenId = last

PanelInv ==
  /\ PageTypes(pageState, lastResult, selectedProvider) /\ loading \in BOOLEAN /\ excused \in BOOLEAN
  /\ AskedOK(asked) /\ EditorOK(asked, ed) /\ LoadsOK(asked, pageState, loading, excused)
  /\ ed.of = Active(pageState, lastResult, selectedProvider)

LEMMA PanelTypes == PanelInv => PanelTypeOK /\ PanelShowsTruth
<1>1. SUFFICES ASSUME PanelInv PROVE PanelTypeOK /\ PanelShowsTruth
  OBVIOUS
<1>2. \A c \in asked : Numbered(Alike(asked, c.what, c.of))
  BY <1>1 DEF PanelInv, AskedOK, Numbered, Alike
<1>3. PanelTypeOK
  BY <1>1, <1>2 DEF PanelInv, PanelTypeOK, PageTypes, AskedOK, Sent, EditorOK, Editors
<1>4. StatusIsOwn
  BY <1>1 DEF PanelInv, EditorOK, StatusIsOwn
<1>5. PageIsFresh
  BY <1>1 DEF PanelInv, LoadsOK, PageIsFresh
<1> QED BY <1>3, <1>4, <1>5 DEF PanelShowsTruth

LEMMA PanelHolds ==
  ASSUME PageTypes(pageState', lastResult', selectedProvider'), loading' \in BOOLEAN, excused' \in BOOLEAN,
         AskedOK(asked'), EditorOK(asked', ed'), LoadsOK(asked', pageState', loading', excused'),
         ed'.of = Active(pageState', lastResult', selectedProvider')
  PROVE  PanelInv'
<1>1. PageTypes(pageState, lastResult, selectedProvider)' /\ AskedOK(asked)'
  BY DEF PageTypes, AskedOK
<1>2. EditorOK(asked, ed)'
  BY DEF EditorOK
<1>3. LoadsOK(asked, pageState, loading, excused)'
  BY DEF LoadsOK, LoadEnds, Changed
<1>4. (ed.of = Active(pageState, lastResult, selectedProvider))'
  BY DEF Active
<1> QED BY <1>1, <1>2, <1>3, <1>4 DEF PanelInv

-----------------------------------------------------------------------------
\* Requests that are changed one by one, but not in what they ask.
LEMMA AskedMapped ==
  ASSUME NEW S, AskedOK(S), NEW f, DOMAIN f = S,
         \A c \in S : f[c] \in Sent /\ f[c].what = c.what /\ f[c].of = c.of /\ f[c].id = c.id
  PROVE  AskedOK({f[c] : c \in S})
<1>1. PICK T : T = {f[c] : c \in S}
  OBVIOUS
<1>2. IsFiniteSet(T)
  <2>1. PICK g : g = [c \in S |-> f[c]]
    OBVIOUS
  <2>2. g \in Surjection(S, T)
    BY <1>1, <2>1 DEF Surjection
  <2> QED BY <2>2, FS_Surjection DEF AskedOK
<1>3. T \subseteq Sent
  BY <1>1
<1>4. \A c, d \in T : c.what = d.what /\ c.of = d.of /\ c.id = d.id => c = d
  BY <1>1 DEF AskedOK
<1> QED BY <1>1, <1>2, <1>3, <1>4 DEF AskedOK

LEMMA LoadsMapped ==
  ASSUME NEW S, NEW f, NEW pg, NEW isLoading, NEW isExcused, LoadsOK(S, pg, isLoading, isExcused),
         \A c \in S : f[c].what = c.what /\ f[c].answer = c.answer /\ f[c].saw = c.saw
  PROVE  LoadsOK({f[c] : c \in S}, pg, isLoading, isExcused)
<1>1. PICK T : T = {f[c] : c \in S}
  OBVIOUS
<1>2. \A c \in S : f[c] \in T /\ (Changed(c) => Changed(f[c]))
  BY <1>1 DEF Changed
<1>3. \A e \in T : \E c \in S : e = f[c]
  BY <1>1
<1>4. \A e \in T : LoadEnds(e)
  BY <1>3 DEF LoadsOK, LoadEnds
<1>5. isLoading => \E c \in T : c.what = "load"
  BY <1>2 DEF LoadsOK
<1>6. ASSUME ~isExcused
      PROVE  \A c, d \in T : c.what = "load" /\ d.what = "load" => c = d
  BY <1>3, <1>6 DEF LoadsOK
<1>7. (\E d \in S : Changed(d)) => \E d \in T : Changed(d)
  BY <1>2
<1>8. ASSUME ~isExcused
      PROVE  \A c \in T : c.what = "load" /\ c.saw = "stale" => \E d \in T : Changed(d)
  BY <1>3, <1>7, <1>8 DEF LoadsOK
<1>9. ASSUME ~isExcused, pg = "stale"
      PROVE  \E d \in T : Changed(d) \/ (d.what = "load" /\ d.saw # "stale")
  BY <1>2, <1>9 DEF LoadsOK
<1> QED BY <1>1, <1>4, <1>5, <1>6, <1>8, <1>9 DEF LoadsOK

LEMMA EditorMapped ==
  ASSUME NEW S, NEW f, NEW editor, EditorOK(S, editor),
         \A c \in S : f[c].what = c.what /\ f[c].of = c.of /\ f[c].mine = c.mine /\ f[c].newest = c.newest
  PROVE  EditorOK({f[c] : c \in S}, editor)
<1>1. PICK T : T = {f[c] : c \in S}
  OBVIOUS
<1>2. \A c \in S : f[c] \in T
  BY <1>1
<1>3. \A e \in T : \E c \in S : e = f[c]
  BY <1>1
<1>4. /\ \A c \in T : c.mine => c.of = editor.of /\ c.of # Nobody /\ c.what \notin {"load", "custom"}
      /\ \A c \in T : c.newest => c.mine /\ c.what = "callback"
      /\ \A c \in T : c.mine /\ c.what # "callback" => editor.submitting
  BY <1>3 DEF EditorOK
<1>5. \A c, d \in T : c.newest /\ d.newest => c = d
  BY <1>3 DEF EditorOK
<1>6. \A c, d \in T : c.mine /\ d.mine /\ c.what # "callback" /\ d.what # "callback" => c = d
  BY <1>3 DEF EditorOK
<1>7. /\ editor \in Editors /\ (editor.submitting => editor.timers <= MaxTimers)
      /\ editor.status = "pending" => editor.deadline /\ \E c \in T : c.newest
  BY <1>2 DEF EditorOK
<1>8. editor.status = "complete" => editor.crossed \/ \A c \in T : ~c.newest
  BY <1>3 DEF EditorOK
<1> QED BY <1>1, <1>4, <1>5, <1>6, <1>7, <1>8 DEF EditorOK

\* A request that is sent.
LEMMA AskIsNew ==
  ASSUME NEW under, AskedOK(under), NEW what, NEW of, NEW n, n = NewId(Alike(under, what, of))
  PROVE  n \in Nat /\ \A a \in Sent : a.id = n /\ a.what = what /\ a.of = of => AskedOK(under \cup {a})
<1>1. n \in Nat /\ \A c \in under : c.what = what /\ c.of = of => c.id # n
  <2>1. PICK alike : alike = Alike(under, what, of)
    OBVIOUS
  <2>2. IsFiniteSet(alike) /\ \A c \in under : c.what = what /\ c.of = of => c \in alike
    <3>1. alike \subseteq under
      BY <2>1 DEF Alike
    <3> QED BY <2>1, <3>1, FS_Subset DEF Alike, AskedOK
  <2> QED BY <2>1, <2>2, NewIdIsNew
<1>2. ASSUME NEW a \in Sent, a.id = n, a.what = what, a.of = of
      PROVE  AskedOK(under \cup {a})
  <2>1. IsFiniteSet(under \cup {a})
    BY FS_AddElement DEF AskedOK
  <2>2. \A c \in under : c.what = a.what /\ c.of = a.of => c.id # a.id
    BY <1>1, <1>2
  <2> QED BY <2>1, <2>2 DEF AskedOK
<1> QED BY <1>1, <1>2

\* The requests that are left when one has ended.
LEMMA LeftKeeps ==
  ASSUME NEW c \in asked, AskedOK(asked)
  PROVE  /\ AskedOK(Left(c))
         /\ \A editor : EditorOK(asked \ {c}, editor) => EditorOK(Left(c), editor)
         /\ \A pg, isLoading, isExcused :
              LoadsOK(asked \ {c}, pg, isLoading, isExcused) => LoadsOK(Left(c), pg, isLoading, isExcused)
<1>1. PICK S : S = asked \ {c}
  OBVIOUS
<1>2. PICK f : f = [d \in S |-> IF d.what = c.what /\ d.of = c.of /\ d.id > c.id
                                THEN [d EXCEPT !.id = @ - 1] ELSE d]
  OBVIOUS
<1>3. Left(c) = {f[d] : d \in S} /\ DOMAIN f = S
  BY <1>1, <1>2 DEF Left
<1>4. \A d \in S : /\ d \in Sent /\ f[d] \in Sent
                   /\ f[d].what = d.what /\ f[d].of = d.of /\ f[d].mine = d.mine /\ f[d].newest = d.newest
                   /\ f[d].answer = d.answer /\ f[d].saw = d.saw
                   /\ f[d].id = IF d.what = c.what /\ d.of = c.of /\ d.id > c.id THEN d.id - 1 ELSE d.id
  <2>1. SUFFICES ASSUME NEW d \in S
                 PROVE  /\ d \in Sent /\ f[d] \in Sent
                        /\ f[d].what = d.what /\ f[d].of = d.of /\ f[d].mine = d.mine /\ f[d].newest = d.newest
                        /\ f[d].answer = d.answer /\ f[d].saw = d.saw
                        /\ f[d].id = IF d.what = c.what /\ d.of = c.of /\ d.id > c.id THEN d.id - 1 ELSE d.id
    OBVIOUS
  <2>2. d \in Sent /\ c \in Sent
    BY <1>1 DEF AskedOK
  <2>3. d.id \in Nat /\ c.id \in Nat /\ (d.id > c.id => d.id - 1 \in Nat)
    BY <2>2 DEF Sent
  <2>4. CASE d.what = c.what /\ d.of = c.of /\ d.id > c.id
    <3>1. f[d] = [d EXCEPT !.id = d.id - 1]
      BY <1>2, <2>4
    <3> QED BY <2>2, <2>3, <2>4, <3>1 DEF Sent
  <2>5. CASE ~(d.what = c.what /\ d.of = c.of /\ d.id > c.id)
    <3>1. f[d] = d
      BY <1>2, <2>5
    <3> QED BY <2>2, <2>5, <3>1
  <2> QED BY <2>4, <2>5
<1>5. AskedOK(Left(c))
  <2>1. IsFiniteSet(Left(c))
    <3>1. IsFiniteSet(S)
      BY <1>1, FS_RemoveElement DEF AskedOK
    <3>2. f \in Surjection(S, Left(c))
      BY <1>2, <1>3 DEF Surjection
    <3> QED BY <3>1, <3>2, FS_Surjection
  <2>2. Left(c) \subseteq Sent
    BY <1>3, <1>4
  <2>3. ASSUME NEW d \in S, NEW e \in S, f[d].what = f[e].what, f[d].of = f[e].of, f[d].id = f[e].id
        PROVE  d = e
    <3>1. d.what = e.what /\ d.of = e.of /\ d \in asked /\ e \in asked /\ d # c /\ e # c
      BY <1>1, <1>4, <2>3
    <3>2. d.id \in Nat /\ e.id \in Nat /\ c.id \in Nat
      BY <1>1, <1>4 DEF Sent, AskedOK
    <3>3. d.id = e.id
      <4>1. CASE d.what = c.what /\ d.of = c.of
        <5>1. d.id # c.id /\ e.id # c.id
          BY <3>1, <4>1 DEF AskedOK
        <5>2. /\ f[d].id = IF d.id > c.id THEN d.id - 1 ELSE d.id
              /\ f[e].id = IF e.id > c.id THEN e.id - 1 ELSE e.id
          BY <1>4, <3>1, <4>1
        <5>3. PICK i, j, k : i = d.id /\ j = e.id /\ k = c.id
          OBVIOUS
        <5>4. (IF i > k THEN i - 1 ELSE i) = (IF j > k THEN j - 1 ELSE j)
          BY <5>2, <5>3, <2>3
        <5> QED BY <3>2, <5>1, <5>3, <5>4
      <4>2. CASE ~(d.what = c.what /\ d.of = c.of)
        BY <1>4, <2>3, <3>1, <4>2
      <4> QED BY <4>1, <4>2
    <3> QED BY <3>1, <3>3 DEF AskedOK
  <2>4. \A x, y \in Left(c) : x.what = y.what /\ x.of = y.of /\ x.id = y.id => x = y
    BY <1>3, <2>3
  <2> QED BY <2>1, <2>2, <2>4 DEF AskedOK
<1>6. \A editor : EditorOK(S, editor) => EditorOK(Left(c), editor)
  BY <1>3, <1>4, EditorMapped
<1>7. \A pg, isLoading, isExcused :
        LoadsOK(S, pg, isLoading, isExcused) => LoadsOK(Left(c), pg, isLoading, isExcused)
  BY <1>3, <1>4, LoadsMapped
<1> QED BY <1>1, <1>5, <1>6, <1>7

\* An editor that is left leaves its requests behind.
LEMMA OrphansKeep ==
  ASSUME NEW S, AskedOK(S), NEW of \in ProviderIds \cup {Nobody}
  PROVE  /\ AskedOK(Orphans(S)) /\ EditorOK(Orphans(S), Editor(of)) /\ Editor(of).of = of
         /\ \A pg, isLoading, isExcused :
              LoadsOK(S, pg, isLoading, isExcused) => LoadsOK(Orphans(S), pg, isLoading, isExcused)
<1>1. PICK f : f = [c \in S |-> [c EXCEPT !.mine = FALSE, !.newest = FALSE]]
  OBVIOUS
<1>2. Orphans(S) = {f[c] : c \in S} /\ DOMAIN f = S
  BY <1>1 DEF Orphans
<1>3. \A c \in S : /\ f[c] \in Sent /\ f[c].what = c.what /\ f[c].of = c.of /\ f[c].id = c.id
                   /\ f[c].answer = c.answer /\ f[c].saw = c.saw /\ f[c].mine = FALSE /\ f[c].newest = FALSE
  BY <1>1 DEF AskedOK, Sent
<1>4. AskedOK(Orphans(S))
  BY <1>2, <1>3, AskedMapped
<1>5. \A c \in Orphans(S) : c.mine = FALSE /\ c.newest = FALSE
  BY <1>2, <1>3
<1>6. PICK e : e = Editor(of)
  OBVIOUS
<1>7. /\ e \in Editors /\ e.of = of /\ e.submitting = FALSE /\ e.status = "idle"
  <2>1. 0 \in 0..MaxTimers + 1
    BY PanelAssumption
  <2> QED BY <1>6, <2>1 DEF Editor, Editors
<1>8. EditorOK(Orphans(S), e)
  BY <1>5, <1>7 DEF EditorOK
<1>9. \A pg, isLoading, isExcused :
        LoadsOK(S, pg, isLoading, isExcused) => LoadsOK(Orphans(S), pg, isLoading, isExcused)
  BY <1>2, <1>3, LoadsMapped
<1> QED BY <1>4, <1>6, <1>7, <1>8, <1>9

LEMMA ActiveTypes ==
  ASSUME NEW pg, NEW last \in ProviderIds \cup {Nobody}, NEW chosenId \in ProviderIds \cup {Nobody}
  PROVE  Active(pg, last, chosenId) \in ProviderIds \cup {Nobody}
BY PanelAssumption DEF Active

\* What is rendered after a step keeps the invariant, if what the step did does.
LEMMA RendersKeep ==
  ASSUME NEW pg, NEW last, NEW chosenId, NEW editor, NEW under, PageTypes(pg, last, chosenId),
         AskedOK(under), EditorOK(under, editor), LoadsOK(under, pg, loading', excused'),
         loading' \in BOOLEAN, excused' \in BOOLEAN, Renders(pg, last, chosenId, editor, under)
  PROVE  PanelInv' /\ ed'.of = Active(pg, last, chosenId)
<1>1. pageState' = pg /\ lastResult' = last /\ selectedProvider' = chosenId
  BY DEF Renders
<1>2. CASE Active(pg, last, chosenId) = editor.of
  <2>1. ed' = editor /\ asked' = under
    BY <1>2 DEF Renders
  <2> QED BY <1>1, <1>2, <2>1, PanelHolds
<1>3. CASE Active(pg, last, chosenId) # editor.of
  <2>1. PICK of : of = Active(pg, last, chosenId)
    OBVIOUS
  <2>2. of \in ProviderIds \cup {Nobody}
    BY <2>1, ActiveTypes DEF PageTypes
  <2>3. ed' = Editor(of) /\ asked' = Orphans(under)
    BY <1>3, <2>1 DEF Renders
  <2>4. AskedOK(asked') /\ EditorOK(asked', ed') /\ ed'.of = of /\ LoadsOK(asked', pg, loading', excused')
    BY <2>2, <2>3, OrphansKeep
  <2> QED BY <1>1, <2>1, <2>4, PanelHolds
<1> QED BY <1>2, <1>3

-----------------------------------------------------------------------------
(* The user and the timers. *)

LEMMA SelectStep ==
  ASSUME PanelInv, NEW p \in ProviderIds, SelectProvider(p)
  PROVE  PanelInv'
<1>1. Renders(pageState, Nobody, p, ed, asked) /\ loading' = loading /\ excused' = excused
  BY DEF SelectProvider
<1>2. PageTypes(pageState, Nobody, p)
  BY DEF PanelInv, PageTypes
<1> QED BY <1>1, <1>2, RendersKeep DEF PanelInv

\* One more request that is no load leaves the page as it is.
LEMMA LoadsWithMore ==
  ASSUME NEW under, NEW pg, NEW isLoading, NEW isExcused, LoadsOK(under, pg, isLoading, isExcused),
         NEW a, a.what # "load"
  PROVE  LoadsOK(under \cup {a}, pg, isLoading, isExcused)
BY DEF LoadsOK, LoadEnds

LEMMA SubmitStep ==
  ASSUME PanelInv, NEW what \in {"save", "start", "finish"}, Submit(what)
  PROVE  PanelInv' /\ ed'.of = ed.of
<1>1. /\ UNCHANGED <<pageState, loading, selectedProvider, lastResult, excused>>
      /\ ed.of # Nobody /\ ~ed.submitting /\ ed.timers < MaxTimers
      /\ ed' = [ed EXCEPT !.submitting = TRUE, !.result = "none"]
  BY DEF Submit, PanelRoom
<1>2. PICK a : a = Ask(asked, what, ed.of, TRUE)
  OBVIOUS
<1>3. ed \in Editors /\ ed.of \in ProviderIds \cup {Nobody}
  BY DEF PanelInv, EditorOK, Editors
<1>4. /\ AskedOK(asked \cup {a})
      /\ a.what = what /\ a.of = ed.of /\ a.mine = TRUE /\ a.newest = FALSE
  <2>6. AskedOK(asked)
    BY DEF PanelInv
  <2>1. PICK n : n = NewId(Alike(asked, what, ed.of))
    OBVIOUS
  <2>2. n \in Nat /\ \A x \in Sent : x.id = n /\ x.what = what /\ x.of = ed.of => AskedOK(asked \cup {x})
    BY <2>6, <2>1, AskIsNew
  <2>3. a = [id |-> n, what |-> what, of |-> ed.of, mine |-> TRUE, newest |-> FALSE,
           answer |-> "none", saw |-> "none"]
    BY <1>2, <2>1 DEF Ask
  <2>4. /\ a.id = n /\ a.what = what /\ a.of = ed.of /\ a.mine = TRUE /\ a.newest = FALSE
        /\ a.answer = "none" /\ a.saw = "none"
    BY <2>3
  <2>5. a \in Sent
    BY <1>3, <2>2, <2>3 DEF Sent
  <2> QED BY <2>2, <2>4, <2>5
<1>5. asked' = asked \cup {a}
  BY <1>2 DEF Submit
<1>6. /\ ed' \in Editors /\ ed'.of = ed.of /\ ed'.submitting = TRUE /\ ed'.timers = ed.timers
      /\ ed'.status = ed.status /\ ed'.deadline = ed.deadline /\ ed'.crossed = ed.crossed
  BY <1>1, <1>3 DEF Editors
<1>7. EditorOK(asked', ed')
  <2>1. EditorOK(asked, ed)
    BY DEF PanelInv
  <2>2. ed.timers <= MaxTimers
    BY <1>1, <1>3, PanelAssumption DEF Editors
  <2>3. \A c \in asked : ~(c.mine /\ c.what # "callback")
    BY <1>1, <2>1 DEF EditorOK
  <2>4. a.what \notin {"load", "custom"}
    BY <1>4
  <2>5. /\ \A c \in asked' : c.mine => c.of = ed.of /\ c.of # Nobody /\ c.what \notin {"load", "custom"}
        /\ \A c \in asked' : c.newest => c.mine /\ c.what = "callback"
        /\ \A c, d \in asked' : c.newest /\ d.newest => c = d
    BY <1>1, <1>4, <1>5, <2>1, <2>4 DEF EditorOK
  <2>6. \A c, d \in asked' : c.mine /\ d.mine /\ c.what # "callback" /\ d.what # "callback" => c = d
    BY <1>5, <2>3
  <2>7. ed.status = "pending" => ed.deadline /\ \E c \in asked' : c.newest
    BY <1>5, <2>1 DEF EditorOK
  <2>8. ed.status = "complete" => ed.crossed \/ \A c \in asked' : ~c.newest
    BY <1>4, <1>5, <2>1 DEF EditorOK
  <2> QED BY <1>6, <2>2, <2>5, <2>6, <2>7, <2>8 DEF EditorOK
<1>8. LoadsOK(asked', pageState, loading, excused)
  <2>1. a.what # "load"
    BY <1>4
  <2> QED BY <1>5, <2>1, LoadsWithMore DEF PanelInv
<1> QED BY <1>1, <1>4, <1>5, <1>6, <1>7, <1>8, PanelHolds DEF PanelInv

LEMMA SubmitCustomStep ==
  ASSUME PanelInv, NEW p \in ProviderIds, SubmitCustom(p)
  PROVE  PanelInv' /\ ed'.of = ed.of
<1>1. UNCHANGED <<pageState, loading, selectedProvider, lastResult, ed, excused>>
  BY DEF SubmitCustom
<1>2. PICK a : a = Ask(asked, "custom", p, FALSE)
  OBVIOUS
<1>3. AskedOK(asked \cup {a}) /\ a.what = "custom" /\ a.mine = FALSE /\ a.newest = FALSE
  <2>6. AskedOK(asked)
    BY DEF PanelInv
  <2>1. PICK n : n = NewId(Alike(asked, "custom", p))
    OBVIOUS
  <2>2. n \in Nat /\ \A x \in Sent : x.id = n /\ x.what = "custom" /\ x.of = p => AskedOK(asked \cup {x})
    BY <2>6, <2>1, AskIsNew
  <2>3. a = [id |-> n, what |-> "custom", of |-> p, mine |-> FALSE, newest |-> FALSE,
           answer |-> "none", saw |-> "none"]
    BY <1>2, <2>1 DEF Ask
  <2>4. /\ a.id = n /\ a.what = "custom" /\ a.of = p /\ a.mine = FALSE /\ a.newest = FALSE
        /\ a.answer = "none" /\ a.saw = "none"
    BY <2>3
  <2>5. a \in Sent
    BY <2>2, <2>3 DEF Sent
  <2> QED BY <2>2, <2>4, <2>5
<1>4. asked' = asked \cup {a}
  BY <1>2 DEF SubmitCustom
<1>5. EditorOK(asked', ed')
  <2>1. EditorOK(asked, ed)
    BY DEF PanelInv
  <2> QED BY <1>1, <1>3, <1>4, <2>1 DEF EditorOK
<1>6. LoadsOK(asked', pageState, loading, excused)
  BY <1>3, <1>4, LoadsWithMore DEF PanelInv
<1> QED BY <1>1, <1>3, <1>4, <1>5, <1>6, PanelHolds DEF PanelInv

LEMMA TimerSteps ==
  ASSUME PanelInv, Dismiss \/ Clears \/ SignInTimesOut
  PROVE  PanelInv' /\ ed'.of = ed.of
<1>1. UNCHANGED <<pageState, loading, selectedProvider, lastResult, asked, excused>>
  BY DEF Dismiss, Clears, SignInTimesOut
<1>2. ed \in Editors /\ EditorOK(asked, ed)
  BY DEF PanelInv, EditorOK
<1>3. /\ ed' \in Editors /\ ed'.of = ed.of /\ ed'.submitting = ed.submitting /\ ed'.timers <= ed.timers
      /\ ed'.crossed = ed.crossed
      /\ ed'.status = "pending" => ed.status = "pending" /\ ed'.deadline = ed.deadline
      /\ ed'.status = "complete" => ed.status = "complete"
  <2>1. ed.timers \in 0..MaxTimers + 1 /\ MaxTimers \in Nat
    BY <1>2, PanelAssumption DEF Editors
  <2>2. CASE Dismiss
    BY <1>2, <2>1, <2>2 DEF Dismiss, Editors
  <2>3. CASE Clears
    <3>1. PICK r : r = IF ed.result \in {"ok", "code", "auto"} THEN "none" ELSE ed.result
      OBVIOUS
    <3>2. ed' = [ed EXCEPT !.timers = ed.timers - 1, !.result = r] /\ ed.timers > 0
      BY <2>3, <3>1 DEF Clears
    <3>3. ed.timers - 1 \in 0..MaxTimers + 1 /\ ed.timers - 1 <= ed.timers /\ r \in {"none", "failed", "ok", "code", "auto"}
      BY <1>2, <2>1, <3>1, <3>2 DEF Editors
    <3> QED BY <1>2, <3>2, <3>3 DEF Editors
  <2>4. CASE SignInTimesOut
    <3>1. PICK s : s = IF ed.status = "pending" THEN "timed_out" ELSE ed.status
      OBVIOUS
    <3>2. ed' = [ed EXCEPT !.deadline = FALSE, !.status = s]
      BY <2>4, <3>1 DEF SignInTimesOut
    <3>3. s # "pending" /\ s \in {"idle", "pending", "timed_out", "complete", "error"} /\ (s = "complete" => ed.status = "complete")
      BY <1>2, <3>1 DEF Editors
    <3>4. ed' \in Editors
      BY <1>2, <3>2, <3>3 DEF Editors
    <3>5. /\ ed'.of = ed.of /\ ed'.submitting = ed.submitting /\ ed'.timers = ed.timers
          /\ ed'.crossed = ed.crossed /\ ed'.status = s
      BY <1>2, <3>2 DEF Editors
    <3>6. ed'.timers <= ed.timers
      BY <2>1, <3>5
    <3> QED BY <3>3, <3>4, <3>5, <3>6
  <2> QED BY <2>2, <2>3, <2>4
<1>4. EditorOK(asked', ed')
  <2>1. ed'.submitting => ed'.timers <= MaxTimers
    <3>1. PICK t, u : t = ed.timers /\ u = ed'.timers
      OBVIOUS
    <3>2. t \in Nat /\ u \in Nat /\ u <= t /\ MaxTimers \in Nat
      BY <1>2, <1>3, <3>1, PanelAssumption DEF Editors
    <3> QED BY <1>2, <1>3, <3>1, <3>2 DEF EditorOK
  <2> QED BY <1>1, <1>2, <1>3, <2>1 DEF EditorOK
<1> QED BY <1>1, <1>3, <1>4, PanelHolds DEF PanelInv

-----------------------------------------------------------------------------
(* The server. *)

LEMMA ServeAskedStep ==
  ASSUME PanelInv, NEW c \in asked, ServeAsked(c)
  PROVE  PanelInv' /\ ed'.of = ed.of
<1>1. UNCHANGED <<loading, selectedProvider, lastResult, ed, excused>> /\ c.answer = "none"
  BY DEF ServeAsked
<1>2. PICK answer \in AnswersTo(c.what) : \E altered \in Changes(c.what, answer) :
        \E saw \in Seen(c.what, answer) :
          LET rest == asked \ {c}
              aged == {[d EXCEPT !.saw = Ages(@)] : d \in rest}
          IN  /\ asked' = (IF altered THEN aged ELSE rest)
                          \cup {[c EXCEPT !.answer = answer, !.saw = saw]}
              /\ pageState' = IF altered THEN Ages(pageState) ELSE pageState
  BY DEF ServeAsked
<1>3. PICK altered \in Changes(c.what, answer), saw \in Seen(c.what, answer) :
        /\ asked' = (IF altered THEN {[d EXCEPT !.saw = Ages(@)] : d \in asked \ {c}} ELSE asked \ {c})
                    \cup {[c EXCEPT !.answer = answer, !.saw = saw]}
        /\ pageState' = IF altered THEN Ages(pageState) ELSE pageState
  BY <1>2
<1>4. PICK f : f = [d \in asked |-> IF d = c THEN [c EXCEPT !.answer = answer, !.saw = saw]
                                   ELSE IF altered THEN [d EXCEPT !.saw = Ages(@)] ELSE d]
  OBVIOUS
<1>5. asked' = {f[d] : d \in asked} /\ DOMAIN f = asked
  <2>1. CASE altered
    BY <1>3, <1>4, <2>1
  <2>2. CASE ~altered
    BY <1>3, <1>4, <2>2
  <2> QED BY <2>1, <2>2
<1>6. /\ answer \in {"done", "code", "auto", "refused", "broken", "lost"}
      /\ saw \in {"none", "offline", "fresh"} /\ (c.what = "load" /\ answer = "done" => saw # "none")
      /\ altered \in BOOLEAN
      /\ altered => /\ c.what \notin {"load", "start"}
                    /\ answer \in {"done", "lost"} \/ (c.what = "finish" /\ answer = "broken")
  BY <1>2, <1>3 DEF AnswersTo, Prepared, Completed, Seen, Changes
<1>7. /\ asked \subseteq Sent
      /\ \A d \in asked : /\ f[d] \in Sent /\ f[d].what = d.what /\ f[d].of = d.of /\ f[d].id = d.id
                           /\ f[d].mine = d.mine /\ f[d].newest = d.newest
                           /\ f[d].answer = (IF d = c THEN answer ELSE d.answer)
                           /\ f[d].saw = (IF d = c THEN saw ELSE IF altered THEN Ages(d.saw) ELSE d.saw)
  <2>1. asked \subseteq Sent
    BY DEF PanelInv, AskedOK
  <2>2. \A s \in {"none", "offline", "stale", "fresh"} : Ages(s) \in {"none", "offline", "stale", "fresh"}
    BY DEF Ages
  <2>3. ASSUME NEW d \in asked
        PROVE  /\ f[d] \in Sent /\ f[d].what = d.what /\ f[d].of = d.of /\ f[d].id = d.id
               /\ f[d].mine = d.mine /\ f[d].newest = d.newest
               /\ f[d].answer = (IF d = c THEN answer ELSE d.answer)
               /\ f[d].saw = (IF d = c THEN saw ELSE IF altered THEN Ages(d.saw) ELSE d.saw)
    <3>1. CASE d = c
      <4>1. f[d] = [c EXCEPT !.answer = answer, !.saw = saw]
        BY <1>4, <3>1
      <4> QED BY <1>6, <2>1, <3>1, <4>1 DEF Sent
    <3>2. CASE d # c /\ altered
      <4>1. f[d] = [d EXCEPT !.saw = Ages(d.saw)] /\ d \in Sent
        BY <1>4, <2>1, <3>2
      <4>2. Ages(d.saw) \in {"none", "offline", "stale", "fresh"}
        BY <2>2, <4>1 DEF Sent
      <4> QED BY <3>2, <4>1, <4>2 DEF Sent
    <3>3. CASE d # c /\ ~altered
      BY <1>4, <2>1, <3>3
    <3> QED BY <3>1, <3>2, <3>3
  <2> QED BY <2>1, <2>3
<1>8. AskedOK(asked')
  BY <1>5, <1>7, AskedMapped DEF PanelInv
<1>9. EditorOK(asked', ed)
  BY <1>5, <1>7, EditorMapped DEF PanelInv
<1>10. LoadsOK(asked', pageState', loading, excused)
  <2>1. LoadsOK(asked, pageState, loading, excused)
    BY DEF PanelInv
  <2>2. \A e \in asked' : \E d \in asked : e = f[d]
    BY <1>5
  <2>3. \A d \in asked : f[d] \in asked'
    BY <1>5
  <2>4. \A e \in asked' : LoadEnds(e)
    <3>1. \A s : Ages(s) = "none" => s = "none"
      BY DEF Ages
    <3>2. c.what = "load" => answer \in {"done", "lost"}
      BY <1>2 DEF AnswersTo
    <3>3. ASSUME NEW d \in asked, d.what = "load"
          PROVE  f[d].answer \in {"none", "done", "lost"} /\ (f[d].answer = "done" => f[d].saw # "none")
      BY <1>6, <1>7, <2>1, <3>1, <3>2, <3>3 DEF LoadsOK, LoadEnds
    <3> QED BY <1>7, <2>2, <3>3 DEF LoadEnds
  <2>5. loading => \E e \in asked' : e.what = "load"
    BY <1>7, <2>1, <2>3 DEF LoadsOK
  <2>6. ASSUME ~excused
        PROVE  \A x, y \in asked' : x.what = "load" /\ y.what = "load" => x = y
    BY <1>7, <2>1, <2>2, <2>6 DEF LoadsOK
  <2>7. CASE altered
    <3>1. Changed(f[c])
      BY <1>6, <1>7, <2>7 DEF Changed, Sent
    <3>2. \E e \in asked' : Changed(e)
      BY <2>3, <3>1
    <3> QED BY <2>4, <2>5, <2>6, <3>2 DEF LoadsOK
  <2>8. CASE ~altered
    <3>1. pageState' = pageState /\ ~Changed(c)
      BY <1>1, <1>3, <2>8 DEF Changed
    <3>2. \A d \in asked : Changed(d) => Changed(f[d])
      BY <1>7, <3>1 DEF Changed
    <3>3. (\E d \in asked : Changed(d)) => \E e \in asked' : Changed(e)
      BY <2>3, <3>2
    <3>4. \A d \in asked : f[d].what = d.what /\ (f[d].saw = "stale" => d.saw = "stale")
      BY <1>6, <1>7, <2>8
    <3>5. ASSUME ~excused, NEW e \in asked', e.what = "load", e.saw = "stale"
          PROVE  \E d \in asked' : Changed(d)
      BY <2>1, <2>2, <3>3, <3>4, <3>5 DEF LoadsOK
    <3>6. ASSUME ~excused, pageState' = "stale"
          PROVE  \E d \in asked' : Changed(d) \/ (d.what = "load" /\ d.saw # "stale")
      <4>1. PICK d \in asked : Changed(d) \/ (d.what = "load" /\ d.saw # "stale")
        BY <2>1, <3>1, <3>6 DEF LoadsOK
      <4>2. Changed(f[d]) \/ (f[d].what = "load" /\ f[d].saw # "stale")
        BY <3>2, <3>4, <4>1
      <4> QED BY <2>3, <4>2
    <3> QED BY <2>4, <2>5, <2>6, <3>5, <3>6 DEF LoadsOK
  <2> QED BY <1>6, <2>7, <2>8
<1>11. /\ pageState' \in {"offline", "stale", "fresh"}
       /\ Active(pageState', lastResult, selectedProvider) = Active(pageState, lastResult, selectedProvider)
  BY <1>3 DEF PanelInv, PageTypes, Ages, Active
<1>12. PageTypes(pageState', lastResult', selectedProvider')
  BY <1>1, <1>11 DEF PanelInv, PageTypes
<1> QED BY <1>1, <1>8, <1>9, <1>10, <1>11, <1>12, PanelHolds DEF PanelInv

-----------------------------------------------------------------------------
(* Answers. *)

\* What the provider is that is rendered: it changes by no answer to its own editor.
LEMMA ActiveStays ==
  ASSUME PanelInv, ed.of # Nobody, NEW pg, pg # "offline", NEW named \in {Nobody, ed.of}
  PROVE  Active(pg, named, Chosen(named)) = ed.of /\ Active(pg, lastResult, selectedProvider) = ed.of
<1>1. /\ ed.of = Active(pageState, lastResult, selectedProvider)
      /\ lastResult # Nobody => selectedProvider = lastResult
  BY DEF PanelInv, PageTypes
<1>2. pageState # "offline"
  BY <1>1 DEF Active
<1>3. Active(pg, lastResult, selectedProvider) = ed.of
  BY <1>1, <1>2 DEF Active
<1>4. CASE named = Nobody
  BY <1>1, <1>2, <1>4 DEF Active, Chosen
<1>5. CASE named = ed.of
  <2>1. named # Nobody
    BY <1>5
  <2> QED BY <1>3, <1>5, <2>1 DEF Active
<1> QED BY <1>3, <1>4, <1>5

\* A request that is not the editor's changes nothing of it.
LEMMA EditorWithMore ==
  ASSUME NEW under, NEW editor, EditorOK(under, editor), NEW a, a.mine = FALSE, a.newest = FALSE
  PROVE  EditorOK(under \cup {a}, editor)
BY DEF EditorOK

\* The page is loaded again after an action.
LEMMA ReloadKeeps ==
  ASSUME NEW under, NEW rest, NEW pg, NEW editor, AskedOK(under), EditorOK(under, editor),
         \A d \in under : LoadEnds(d), excused \in BOOLEAN,
         (\E d \in under : d.what = "load") => \E d \in rest : d.what = "load",
         Reloads(rest)
  PROVE  /\ AskedOK(Reloaded(under)) /\ EditorOK(Reloaded(under), editor)
         /\ LoadsOK(Reloaded(under), pg, loading', excused')
         /\ loading' \in BOOLEAN /\ excused' \in BOOLEAN
<1>1. loading' = TRUE /\ excused' = (excused \/ \E d \in rest : d.what = "load")
  BY DEF Reloads
<1>2. PICK a : a = Ask(under, "load", Nobody, FALSE)
  OBVIOUS
<1>3. /\ AskedOK(under \cup {a}) /\ a.what = "load" /\ a.mine = FALSE /\ a.newest = FALSE
      /\ a.answer = "none" /\ a.saw = "none"
  <2>1. PICK n : n = NewId(Alike(under, "load", Nobody))
    OBVIOUS
  <2>2. n \in Nat /\ \A x \in Sent : x.id = n /\ x.what = "load" /\ x.of = Nobody => AskedOK(under \cup {x})
    BY <2>1, AskIsNew
  <2>3. a = [id |-> n, what |-> "load", of |-> Nobody, mine |-> FALSE, newest |-> FALSE,
           answer |-> "none", saw |-> "none"]
    BY <1>2, <2>1 DEF Ask
  <2>4. /\ a.id = n /\ a.what = "load" /\ a.of = Nobody /\ a.mine = FALSE /\ a.newest = FALSE
        /\ a.answer = "none" /\ a.saw = "none"
    BY <2>3
  <2>5. a \in Sent
    BY <2>2, <2>3 DEF Sent
  <2> QED BY <2>2, <2>4, <2>5
<1>4. Reloaded(under) = under \cup {a}
  BY <1>2 DEF Reloaded
<1>5. EditorOK(under \cup {a}, editor)
  BY <1>3, EditorWithMore
<1>6. LoadsOK(under \cup {a}, pg, TRUE, excused')
  <2>1. PICK S : S = under \cup {a}
    OBVIOUS
  <2>2. a \in S /\ \A d \in S : LoadEnds(d)
    BY <1>3, <2>1 DEF LoadEnds
  <2>3. ASSUME ~excused'
        PROVE  \A d \in S : d.what = "load" => d = a
    BY <1>1, <2>1, <2>3
  <2>4. a.saw # "stale"
    BY <1>3
  <2> QED BY <1>3, <2>1, <2>2, <2>3, <2>4 DEF LoadsOK
<1> QED BY <1>1, <1>3, <1>4, <1>5, <1>6

\* A sign-in that is begun: a callback more, the newest if the editor is the one that asked.
LEMMA AwaitedKeeps ==
  ASSUME NEW c, c.of \in ProviderIds \cup {Nobody}, c.mine \in BOOLEAN, NEW under, AskedOK(under),
         \A d \in under : LoadEnds(d), NEW editor, EditorOK(under, editor)
  PROVE  /\ AskedOK(Awaited(c, under)) /\ \A d \in Awaited(c, under) : LoadEnds(d)
         /\ (\E d \in Awaited(c, under) : d.what = "load") => \E d \in under : d.what = "load"
         /\ ~c.mine => EditorOK(Awaited(c, under), editor)
         /\ c.mine /\ editor.of = c.of /\ c.of # Nobody => EditorOK(Awaited(c, under), Awaits(editor))
<1>1. PICK f : f = [d \in under |-> IF c.mine THEN [d EXCEPT !.newest = FALSE] ELSE d]
  OBVIOUS
<1>2. PICK older : older = {f[d] : d \in under}
  OBVIOUS
<1>3. older = IF c.mine THEN {[d EXCEPT !.newest = FALSE] : d \in under} ELSE under
  <2>1. CASE c.mine
    BY <1>1, <1>2, <2>1
  <2>2. CASE ~c.mine
    BY <1>1, <1>2, <2>2
  <2> QED BY <2>1, <2>2
<1>4. PICK a : a = Ask(older, "callback", c.of, c.mine)
  OBVIOUS
<1>5. Awaited(c, under) = older \cup {a}
  BY <1>3, <1>4 DEF Awaited
<1>6. /\ under \subseteq Sent
      /\ \A d \in under : /\ f[d] \in Sent /\ f[d].what = d.what /\ f[d].of = d.of /\ f[d].id = d.id
                           /\ f[d].mine = d.mine /\ f[d].answer = d.answer /\ f[d].saw = d.saw
                           /\ f[d].newest = IF c.mine THEN FALSE ELSE d.newest
  <2>1. under \subseteq Sent
    BY DEF AskedOK
  <2>2. CASE c.mine
    BY <1>1, <2>1, <2>2 DEF Sent
  <2>3. CASE ~c.mine
    BY <1>1, <2>1, <2>3
  <2> QED BY <2>1, <2>2, <2>3
<1>7. AskedOK(older)
  <2>1. DOMAIN f = under
    BY <1>1
  <2>2. \A d \in under : f[d] \in Sent /\ f[d].what = d.what /\ f[d].of = d.of /\ f[d].id = d.id
    BY <1>6
  <2>3. AskedOK({f[d] : d \in under})
    BY <2>1, <2>2, AskedMapped
  <2> QED BY <1>2, <2>3
<1>8. /\ AskedOK(older \cup {a}) /\ a.what = "callback" /\ a.of = c.of /\ a.mine = c.mine
      /\ a.newest = c.mine
  <2>1. PICK n : n = NewId(Alike(older, "callback", c.of))
    OBVIOUS
  <2>2. n \in Nat /\ \A x \in Sent : x.id = n /\ x.what = "callback" /\ x.of = c.of => AskedOK(older \cup {x})
    BY <1>7, <2>1, AskIsNew
  <2>3. a = [id |-> n, what |-> "callback", of |-> c.of, mine |-> c.mine, newest |-> c.mine,
           answer |-> "none", saw |-> "none"]
    BY <1>4, <2>1 DEF Ask
  <2>4. /\ a.id = n /\ a.what = "callback" /\ a.of = c.of /\ a.mine = c.mine /\ a.newest = c.mine
        /\ a.answer = "none" /\ a.saw = "none"
    BY <2>3
  <2>5. a \in Sent
    BY <2>2, <2>3 DEF Sent
  <2> QED BY <2>2, <2>4, <2>5
<1>9. /\ \A d \in older \cup {a} : LoadEnds(d)
      /\ (\E d \in older \cup {a} : d.what = "load") => \E d \in under : d.what = "load"
  <2>1. \A d \in under : LoadEnds(f[d])
    BY <1>6 DEF LoadEnds
  <2>2. \A d \in older : LoadEnds(d)
    BY <1>2, <2>1
  <2>3. a.what # "load"
    BY <1>8
  <2>4. LoadEnds(a)
    BY <2>3 DEF LoadEnds
  <2>5. \A d \in older : d.what = "load" => \E x \in under : x.what = "load"
    <3>1. ASSUME NEW d \in under, f[d].what = "load"
          PROVE  \E x \in under : x.what = "load"
      BY <1>6, <3>1
    <3>2. \A d \in older : \E x \in under : d = f[x]
      BY <1>2
    <3> QED BY <3>1, <3>2
  <2> QED BY <2>2, <2>3, <2>4, <2>5
<1>10. ASSUME ~c.mine
       PROVE  EditorOK(older \cup {a}, editor)
  <2>1. older = under /\ a.mine = FALSE /\ a.newest = FALSE
    BY <1>3, <1>8, <1>10
  <2> QED BY <2>1, EditorWithMore
<1>11. ASSUME c.mine, editor.of = c.of, c.of # Nobody
       PROVE  EditorOK(older \cup {a}, Awaits(editor))
  <2>1. PICK S, e : S = older \cup {a} /\ e = Awaits(editor)
    OBVIOUS
  <2>2. /\ e \in Editors /\ e.of = c.of /\ e.status = "pending" /\ e.deadline = TRUE
        /\ e.submitting = editor.submitting /\ e.timers = editor.timers
    BY <1>11, <2>1 DEF EditorOK, Editors, Awaits
  <2>3. \A d \in S : d.newest => d = a
    BY <1>2, <1>6, <1>11, <2>1
  <2>4. a \in S /\ a.mine /\ a.newest
    BY <1>8, <1>11, <2>1
  <2>5. \A x \in S : x.what # "callback" => \E d \in under : x = f[d]
    BY <1>2, <1>8, <2>1
  <2>6. \A x \in S : x.mine => x.of = e.of /\ x.of # Nobody /\ x.what \notin {"load", "custom"}
    <3>1. ASSUME NEW d \in under, f[d].mine
          PROVE  f[d].of = e.of /\ f[d].of # Nobody /\ f[d].what \notin {"load", "custom"}
      <4>1. d.mine /\ f[d].of = d.of /\ f[d].what = d.what
        BY <1>6, <3>1
      <4> QED BY <1>11, <2>2, <4>1 DEF EditorOK
    <3>2. a.of = e.of /\ a.of # Nobody /\ a.what \notin {"load", "custom"}
      BY <1>8, <1>11, <2>2
    <3>3. \A x \in S : x = a \/ \E d \in under : x = f[d]
      BY <1>2, <2>1
    <3> QED BY <3>1, <3>2, <3>3
  <2>10. \A d \in under : f[d].mine = d.mine /\ f[d].what = d.what
    BY <1>6
  <2>7. \A x, y \in S : x.mine /\ y.mine /\ x.what # "callback" /\ y.what # "callback" => x = y
    <3>1. ASSUME NEW x \in S, NEW y \in S, x.mine, y.mine, x.what # "callback", y.what # "callback"
          PROVE  x = y
      <4>1. PICK d \in under : x = f[d]
        BY <2>5, <3>1
      <4>2. PICK g \in under : y = f[g]
        BY <2>5, <3>1
      <4>3. d.mine /\ d.what # "callback" /\ g.mine /\ g.what # "callback"
        BY <2>10, <3>1, <4>1, <4>2
      <4>4. d = g
        BY <4>3 DEF EditorOK
      <4> QED BY <4>1, <4>2, <4>4
    <3> QED BY <3>1
  <2>8. \A x \in S : x.mine /\ x.what # "callback" => e.submitting
    <3>1. ASSUME NEW x \in S, x.mine, x.what # "callback"
          PROVE  e.submitting
      <4>1. PICK d \in under : x = f[d]
        BY <2>5, <3>1
      <4>2. d.mine /\ d.what # "callback"
        BY <2>10, <3>1, <4>1
      <4>3. editor.submitting
        BY <4>2 DEF EditorOK
      <4> QED BY <2>2, <4>3
    <3> QED BY <3>1
  <2>9. e.submitting => e.timers <= MaxTimers
    BY <2>2 DEF EditorOK
  <2> QED BY <1>8, <2>1, <2>2, <2>3, <2>4, <2>6, <2>7, <2>8, <2>9 DEF EditorOK
<1> QED BY <1>5, <1>8, <1>9, <1>10, <1>11

\* The requests but the one that ends.
LEMMA OthersStay ==
  ASSUME PanelInv, NEW c \in asked
  PROVE  /\ c \in Sent /\ asked \ {c} \subseteq Sent
         /\ AskedOK(Left(c)) /\ \A d \in Left(c) : LoadEnds(d)
         /\ (c.mine \/ c.newest) => c.of = ed.of /\ c.of # Nobody /\ c.what \notin {"load", "custom"}
         /\ c.newest => c.mine /\ c.what = "callback"
         /\ c.what # "load" => \A pg : LoadsOK(Left(c), pg, loading, TRUE)
         /\ c.what # "load" /\ ~Changed(c) => LoadsOK(Left(c), pageState, loading, excused)
<1>1. LoadsOK(asked, pageState, loading, excused) /\ AskedOK(asked) /\ EditorOK(asked, ed)
  BY DEF PanelInv
<1>2. /\ AskedOK(Left(c))
      /\ \A pg, isLoading, isExcused :
           LoadsOK(asked \ {c}, pg, isLoading, isExcused) => LoadsOK(Left(c), pg, isLoading, isExcused)
  BY <1>1, LeftKeeps
<1>3. LoadsOK(asked \ {c}, pageState, FALSE, TRUE)
  BY <1>1 DEF LoadsOK
<1>4. \A d \in Left(c) : LoadEnds(d)
  BY <1>2, <1>3 DEF LoadsOK
<1>5. ASSUME c.what # "load", NEW pg
      PROVE  LoadsOK(Left(c), pg, loading, TRUE)
  <2>1. LoadsOK(asked \ {c}, pg, loading, TRUE)
    BY <1>1, <1>5 DEF LoadsOK
  <2> QED BY <1>2, <2>1
<1>6. ASSUME c.what # "load", ~Changed(c)
      PROVE  LoadsOK(Left(c), pageState, loading, excused)
  <2>1. LoadsOK(asked \ {c}, pageState, loading, excused)
    BY <1>1, <1>6 DEF LoadsOK
  <2> QED BY <1>2, <2>1
<1>7. c \in Sent /\ asked \ {c} \subseteq Sent
  BY <1>1 DEF AskedOK
<1>8. c.newest => c.mine /\ c.what = "callback"
  BY <1>1 DEF EditorOK
<1>9. (c.mine \/ c.newest) => c.of = ed.of /\ c.of # Nobody /\ c.what \notin {"load", "custom"}
  BY <1>1, <1>8 DEF EditorOK
<1> QED BY <1>2, <1>4, <1>5, <1>6, <1>7, <1>8, <1>9

\* What the answer to an action leaves of the editor that asked.
LEMMA EditorTold ==
  ASSUME PanelInv, NEW c \in asked, c.mine, c.what # "callback", NEW told,
         told = [ed EXCEPT !.submitting = FALSE, !.result = ResultOf(c.answer),
                           !.timers = IF ResultOf(c.answer) = "failed" THEN @ ELSE @ + 1]
  PROVE  /\ EditorOK(asked \ {c}, told) /\ told.of = ed.of
         /\ EditorOK(asked \ {c}, [told EXCEPT !.status = "idle"])
<1>1. EditorOK(asked, ed) /\ ed \in Editors /\ c \in Sent
  BY DEF PanelInv, EditorOK, AskedOK
<1>2. ed.submitting /\ ~c.newest /\ \A d \in asked \ {c} : d.mine => d.what = "callback"
  BY <1>1 DEF EditorOK
<1>3. PICK r, t : r = ResultOf(c.answer) /\ t = IF r = "failed" THEN ed.timers ELSE ed.timers + 1
  OBVIOUS
<1>4. r \in {"none", "failed", "ok", "code", "auto"}
  BY <1>1, <1>3 DEF ResultOf, Sent
<1>5. t \in 0..MaxTimers + 1
  <2>1. PICK n : n = ed.timers
    OBVIOUS
  <2>2. n \in 0..MaxTimers + 1 /\ n <= MaxTimers /\ MaxTimers \in Nat
    BY <1>1, <1>2, <2>1, PanelAssumption DEF EditorOK, Editors
  <2> QED BY <1>3, <2>1, <2>2
<1>6. told = [ed EXCEPT !.submitting = FALSE, !.result = r, !.timers = t]
  BY <1>3
<1>7. /\ told \in Editors /\ told.of = ed.of /\ told.submitting = FALSE /\ told.status = ed.status
      /\ told.deadline = ed.deadline /\ told.crossed = ed.crossed
  BY <1>1, <1>4, <1>5, <1>6 DEF Editors
<1>8. PICK idle : idle = [told EXCEPT !.status = "idle"]
  OBVIOUS
<1>9. idle \in Editors /\ idle.of = ed.of /\ idle.submitting = FALSE /\ idle.status = "idle"
  BY <1>7, <1>8 DEF Editors
<1>10. /\ \A d \in asked \ {c} : d.mine => d.of = ed.of /\ d.of # Nobody /\ d.what \notin {"load", "custom"}
       /\ \A d \in asked \ {c} : d.newest => d.mine /\ d.what = "callback"
       /\ \A d, e \in asked \ {c} : d.newest /\ e.newest => d = e
       /\ ed.status = "pending" => ed.deadline /\ \E d \in asked \ {c} : d.newest
       /\ ed.status = "complete" => ed.crossed \/ \A d \in asked \ {c} : ~d.newest
  BY <1>1, <1>2 DEF EditorOK
<1>11. EditorOK(asked \ {c}, told)
  BY <1>2, <1>7, <1>10 DEF EditorOK
<1>12. EditorOK(asked \ {c}, idle)
  BY <1>2, <1>9, <1>10 DEF EditorOK
<1> QED BY <1>7, <1>8, <1>11, <1>12

LEMMA ChosenTypes ==
  ASSUME PanelInv, NEW of \in ProviderIds \cup {Nobody}
  PROVE  PageTypes(pageState, of, Chosen(of)) /\ PageTypes(pageState, lastResult, selectedProvider)
<1>1. PageTypes(pageState, lastResult, selectedProvider)
  BY DEF PanelInv
<1>2. CASE of = Nobody
  BY <1>1, <1>2 DEF PageTypes, Chosen
<1>3. CASE of # Nobody
  BY <1>1, <1>3 DEF PageTypes, Chosen
<1> QED BY <1>1, <1>2, <1>3

\* Where another's request ends the editor is as before.
LEMMA EditorUntold ==
  ASSUME PanelInv, NEW c \in asked, ~c.mine
  PROVE  EditorOK(Left(c), ed)
<1>1. AskedOK(asked) /\ EditorOK(asked, ed)
  BY DEF PanelInv
<1>2. EditorOK(asked \ {c}, ed)
  BY <1>1 DEF EditorOK
<1> QED BY <1>1, <1>2, LeftKeeps

LEMMA ActionStep ==
  ASSUME PanelInv, NEW c \in asked, c.what \in {"save", "start", "finish", "custom"}, ActionAnswered(c)
  PROVE  PanelInv' /\ (c.mine => ed'.of = ed.of)
<1>1. PICK rest : rest = Left(c)
  OBVIOUS
<1>2. PICK named : named = IF c.answer = "broken" THEN Nobody ELSE c.of
  OBVIOUS
<1>3. PICK told : told = [ed EXCEPT !.submitting = FALSE, !.result = ResultOf(c.answer),
                                    !.timers = IF ResultOf(c.answer) = "failed" THEN @ ELSE @ + 1]
  OBVIOUS
<1>4. PICK editor : editor = IF ~c.mine THEN ed
                             ELSE IF c.answer = "auto" THEN Awaits(told)
                             ELSE IF c.answer = "lost" THEN told
                             ELSE [told EXCEPT !.status = "idle"]
  OBVIOUS
<1>5. IF c.answer = "lost"
      THEN /\ Renders(pageState, lastResult, selectedProvider, editor, rest)
           /\ excused' = TRUE /\ UNCHANGED loading
      ELSE /\ Reloads(rest)
           /\ Renders(pageState, named, Chosen(named), editor,
                      Reloaded(IF c.answer = "auto" THEN Awaited(c, rest) ELSE rest))
  BY <1>1, <1>2, <1>3, <1>4 DEF ActionAnswered
<1>6. /\ c \in Sent /\ AskedOK(rest) /\ \A d \in rest : LoadEnds(d)
      /\ c.mine => c.of = ed.of /\ c.of # Nobody
      /\ LoadsOK(rest, pageState, loading, TRUE)
  BY <1>1, OthersStay
<1>7. /\ c.of \in ProviderIds \cup {Nobody} /\ c.mine \in BOOLEAN /\ named \in ProviderIds \cup {Nobody}
      /\ loading \in BOOLEAN /\ excused \in BOOLEAN
  BY <1>2, <1>6 DEF Sent, PanelInv
<1>8. ASSUME c.mine
      PROVE  EditorOK(rest, told) /\ told.of = ed.of /\ EditorOK(rest, [told EXCEPT !.status = "idle"])
  <2>1. /\ EditorOK(asked \ {c}, told) /\ told.of = ed.of
        /\ EditorOK(asked \ {c}, [told EXCEPT !.status = "idle"])
    BY <1>3, <1>8, EditorTold
  <2>2. AskedOK(asked)
    BY DEF PanelInv
  <2>3. \A e : EditorOK(asked \ {c}, e) => EditorOK(rest, e)
    BY <1>1, <2>2, LeftKeeps
  <2> QED BY <2>1, <2>3
<1>9. ~c.mine => EditorOK(rest, ed)
  BY <1>1, EditorUntold
<1>10. ASSUME c.mine
       PROVE  /\ Active(pageState, named, Chosen(named)) = ed.of
              /\ Active(pageState, lastResult, selectedProvider) = ed.of
  <2>1. ed.of # Nobody /\ named \in {Nobody, ed.of}
    BY <1>2, <1>6, <1>10
  <2>2. pageState # "offline"
    BY <2>1 DEF PanelInv, Active
  <2> QED BY <2>1, <2>2, ActiveStays
<1>11. PageTypes(pageState, named, Chosen(named)) /\ PageTypes(pageState, lastResult, selectedProvider)
  BY <1>7, ChosenTypes
<1>12. CASE c.answer = "lost"
  <2>1. EditorOK(rest, editor)
    BY <1>4, <1>8, <1>9, <1>12
  <2>2. loading' \in BOOLEAN /\ excused' \in BOOLEAN /\ LoadsOK(rest, pageState, loading', excused')
    BY <1>5, <1>6, <1>7, <1>12
  <2>3. Renders(pageState, lastResult, selectedProvider, editor, rest)
    BY <1>5, <1>12
  <2>4. PanelInv' /\ ed'.of = Active(pageState, lastResult, selectedProvider)
    BY <1>6, <1>11, <2>1, <2>2, <2>3, RendersKeep
  <2> QED BY <1>10, <2>4
<1>13. CASE c.answer # "lost"
  <2>1. PICK more : more = IF c.answer = "auto" THEN Awaited(c, rest) ELSE rest
    OBVIOUS
  <2>2. Reloads(rest) /\ Renders(pageState, named, Chosen(named), editor, Reloaded(more))
    BY <1>5, <1>13, <2>1
  <2>3. /\ AskedOK(more) /\ EditorOK(more, editor) /\ \A d \in more : LoadEnds(d)
        /\ (\E d \in more : d.what = "load") => \E d \in rest : d.what = "load"
    <3>1. CASE c.answer = "auto" /\ c.mine
      <4>1. EditorOK(rest, told) /\ told.of = c.of /\ c.of # Nobody
        BY <1>6, <1>8, <3>1
      <4>2. /\ AskedOK(Awaited(c, rest)) /\ \A d \in Awaited(c, rest) : LoadEnds(d)
            /\ (\E d \in Awaited(c, rest) : d.what = "load") => \E d \in rest : d.what = "load"
            /\ EditorOK(Awaited(c, rest), Awaits(told))
        BY <1>6, <1>7, <3>1, <4>1, AwaitedKeeps
      <4>3. more = Awaited(c, rest) /\ editor = Awaits(told)
        BY <1>4, <2>1, <3>1
      <4> QED BY <4>2, <4>3
    <3>2. CASE c.answer = "auto" /\ ~c.mine
      <4>1. /\ AskedOK(Awaited(c, rest)) /\ \A d \in Awaited(c, rest) : LoadEnds(d)
            /\ (\E d \in Awaited(c, rest) : d.what = "load") => \E d \in rest : d.what = "load"
            /\ EditorOK(Awaited(c, rest), ed)
        BY <1>6, <1>7, <1>9, <3>2, AwaitedKeeps
      <4>2. more = Awaited(c, rest) /\ editor = ed
        BY <1>4, <2>1, <3>2
      <4> QED BY <4>1, <4>2
    <3>3. CASE c.answer # "auto"
      <4>1. more = rest /\ EditorOK(rest, editor)
        BY <1>4, <1>8, <1>9, <1>13, <2>1, <3>3
      <4> QED BY <1>6, <4>1
    <3> QED BY <3>1, <3>2, <3>3
  <2>4. /\ AskedOK(Reloaded(more)) /\ EditorOK(Reloaded(more), editor)
        /\ LoadsOK(Reloaded(more), pageState, loading', excused')
        /\ loading' \in BOOLEAN /\ excused' \in BOOLEAN
    BY <1>7, <2>2, <2>3, ReloadKeeps
  <2>5. PanelInv' /\ ed'.of = Active(pageState, named, Chosen(named))
    BY <1>11, <2>2, <2>4, RendersKeep
  <2> QED BY <1>10, <2>5
<1> QED BY <1>12, <1>13

LEMMA CallbackStep ==
  ASSUME PanelInv, NEW c \in asked, c.what = "callback", CallbackAnswered(c)
  PROVE  PanelInv' /\ (c.mine => ed'.of = ed.of)
<1>1. PICK rest : rest = Left(c)
  OBVIOUS
<1>2. PICK editor : editor = IF ~c.mine THEN ed
                ELSE [ed EXCEPT !.status = IF c.answer = "done" THEN "complete" ELSE "error",
                                !.deadline = FALSE, !.crossed = @ \/ ~c.newest]
  OBVIOUS
<1>3. IF c.answer = "done"
      THEN Reloads(rest) /\ Renders(pageState, c.of, Chosen(c.of), editor, Reloaded(rest))
      ELSE /\ Renders(pageState, lastResult, selectedProvider, editor, rest)
           /\ excused' = (excused \/ c.answer = "lost") /\ UNCHANGED loading
  BY <1>1, <1>2 DEF CallbackAnswered
<1>4. /\ c \in Sent /\ AskedOK(rest) /\ \A d \in rest : LoadEnds(d)
      /\ c.mine => c.of = ed.of /\ c.of # Nobody
      /\ LoadsOK(rest, pageState, loading, TRUE)
      /\ ~Changed(c) => LoadsOK(rest, pageState, loading, excused)
  BY <1>1, OthersStay
<1>5. c.of \in ProviderIds \cup {Nobody} /\ loading \in BOOLEAN /\ excused \in BOOLEAN
  BY <1>4 DEF Sent, PanelInv
<1>6. EditorOK(rest, editor)
  <2>1. CASE ~c.mine
    BY <1>1, <1>2, <2>1, EditorUntold
  <2>2. CASE c.mine
    <3>1. EditorOK(asked, ed) /\ ed \in Editors /\ AskedOK(asked)
      BY DEF PanelInv, EditorOK
    <3>2. PICK s, x : /\ s = IF c.answer = "done" THEN "complete" ELSE "error"
                      /\ x = (ed.crossed \/ ~c.newest)
      OBVIOUS
    <3>3. editor = [ed EXCEPT !.status = s, !.deadline = FALSE, !.crossed = x]
      BY <1>2, <2>2, <3>2
    <3>4. x \in BOOLEAN /\ s \in {"complete", "error"}
      BY <3>2
    <3>5. /\ editor \in Editors /\ editor.of = ed.of /\ editor.status = s /\ editor.crossed = x
          /\ editor.submitting = ed.submitting /\ editor.timers = ed.timers
      BY <3>1, <3>3, <3>4 DEF Editors
    <3>6. x \/ \A d \in asked \ {c} : ~d.newest
      BY <3>1, <3>2 DEF EditorOK
    <3>7. /\ \A d \in asked \ {c} : d.mine => d.of = ed.of /\ d.of # Nobody /\ d.what \notin {"load", "custom"}
          /\ \A d \in asked \ {c} : d.newest => d.mine /\ d.what = "callback"
          /\ \A d, e \in asked \ {c} : d.newest /\ e.newest => d = e
          /\ \A d, e \in asked \ {c} : d.mine /\ e.mine /\ d.what # "callback" /\ e.what # "callback" => d = e
          /\ \A d \in asked \ {c} : d.mine /\ d.what # "callback" => ed.submitting
          /\ ed.submitting => ed.timers <= MaxTimers
      BY <3>1 DEF EditorOK
    <3>8. EditorOK(asked \ {c}, editor)
      BY <3>4, <3>5, <3>6, <3>7 DEF EditorOK
    <3> QED BY <1>1, <3>1, <3>8, LeftKeeps
  <2> QED BY <2>1, <2>2
<1>7. ASSUME c.mine
      PROVE  /\ Active(pageState, c.of, Chosen(c.of)) = ed.of
             /\ Active(pageState, lastResult, selectedProvider) = ed.of
  <2>1. ed.of # Nobody /\ c.of \in {Nobody, ed.of}
    BY <1>4, <1>7
  <2>2. pageState # "offline"
    BY <2>1 DEF PanelInv, Active
  <2> QED BY <2>1, <2>2, ActiveStays
<1>8. PageTypes(pageState, c.of, Chosen(c.of)) /\ PageTypes(pageState, lastResult, selectedProvider)
  BY <1>5, ChosenTypes
<1>9. CASE c.answer = "done"
  <2>1. Reloads(rest) /\ Renders(pageState, c.of, Chosen(c.of), editor, Reloaded(rest))
    BY <1>3, <1>9
  <2>2. /\ AskedOK(Reloaded(rest)) /\ EditorOK(Reloaded(rest), editor)
        /\ LoadsOK(Reloaded(rest), pageState, loading', excused')
        /\ loading' \in BOOLEAN /\ excused' \in BOOLEAN
    BY <1>4, <1>5, <1>6, <2>1, ReloadKeeps
  <2>3. PanelInv' /\ ed'.of = Active(pageState, c.of, Chosen(c.of))
    BY <1>8, <2>1, <2>2, RendersKeep
  <2> QED BY <1>7, <2>3
<1>10. CASE c.answer # "done"
  <2>1. /\ Renders(pageState, lastResult, selectedProvider, editor, rest)
        /\ excused' = (excused \/ c.answer = "lost") /\ loading' = loading
    BY <1>3, <1>10
  <2>2. LoadsOK(rest, pageState, loading', excused')
    <3>1. CASE c.answer = "lost"
      BY <1>4, <2>1, <3>1
    <3>2. CASE c.answer # "lost"
      <4>1. ~Changed(c)
        BY <1>10, <3>2 DEF Changed
      <4>2. LoadsOK(rest, pageState, loading, excused)
        BY <1>4, <4>1
      <4>3. excused' = excused
        BY <1>5, <2>1, <3>2
      <4> QED BY <2>1, <4>2, <4>3
    <3> QED BY <3>1, <3>2
  <2>3. loading' \in BOOLEAN /\ excused' \in BOOLEAN
    BY <1>5, <2>1
  <2>4. PanelInv' /\ ed'.of = Active(pageState, lastResult, selectedProvider)
    BY <1>4, <1>6, <1>8, <2>1, <2>2, <2>3, RendersKeep
  <2> QED BY <1>7, <2>4
<1> QED BY <1>9, <1>10

LEMMA LoadStep ==
  ASSUME PanelInv, NEW c \in asked, c.what = "load", c.answer # "none", LoadAnswered(c)
  PROVE  PanelInv' /\ (pageState' # "offline" /\ ed.of # Nobody => ed'.of = ed.of)
<1>1. PICK rest, pg : rest = Left(c) /\ pg = IF c.answer = "done" THEN c.saw ELSE pageState
  OBVIOUS
<1>2. /\ loading' = FALSE
      /\ excused' = ((excused /\ ~((~\E d \in rest : d.what = "load") /\ c.saw = "fresh")) \/ c.answer = "lost")
      /\ Renders(pg, lastResult, selectedProvider, ed, rest)
  BY <1>1 DEF LoadAnswered
<1>3. c \in Sent /\ AskedOK(rest) /\ ~c.mine
  BY <1>1, OthersStay
<1>4. LoadsOK(asked, pageState, loading, excused) /\ AskedOK(asked)
  BY DEF PanelInv
<1>5. c.answer \in {"done", "lost"} /\ (c.answer = "done" => c.saw # "none")
  BY <1>4 DEF LoadsOK, LoadEnds
<1>6. PageTypes(pg, lastResult, selectedProvider)
  BY <1>1, <1>3, <1>5 DEF PanelInv, PageTypes, Sent
<1>7. EditorOK(rest, ed)
  BY <1>1, <1>3, EditorUntold
<1>8. (\E d \in asked \ {c} : d.what = "load") => \E d \in rest : d.what = "load"
  <2>1. ASSUME NEW d \in asked \ {c}, d.what = "load"
        PROVE  \E e \in rest : e.what = "load"
    <3>1. PICK e : e = IF d.what = c.what /\ d.of = c.of /\ d.id > c.id THEN [d EXCEPT !.id = @ - 1] ELSE d
      OBVIOUS
    <3>2. e \in rest
      BY <1>1, <3>1 DEF Left
    <3>3. d \in Sent
      BY <1>4 DEF AskedOK
    <3>4. e.what = "load"
      BY <2>1, <3>1, <3>3 DEF Sent
    <3> QED BY <3>2, <3>4
  <2> QED BY <2>1
<1>9. LoadsOK(rest, pg, FALSE, excused')
  <2>1. LoadsOK(asked \ {c}, pg, FALSE, excused')
    <3>1. \A d \in asked \ {c} : LoadEnds(d)
      BY <1>4 DEF LoadsOK
    <3>2. ASSUME ~excused'
          PROVE  \A d \in asked \ {c} : d.what # "load"
      BY <1>2, <1>4, <1>8, <3>2 DEF LoadsOK
    <3>3. ASSUME ~excused', pg = "stale"
          PROVE  \E d \in asked \ {c} : Changed(d)
      <4>1. c.answer = "done" /\ c.saw = "stale"
        BY <1>1, <1>2, <1>5, <3>3
      <4>2. ~excused
        BY <1>2, <3>3, <4>1
      <4>3. PICK d \in asked : Changed(d)
        BY <1>4, <4>1, <4>2 DEF LoadsOK
      <4>4. d # c
        BY <4>3 DEF Changed
      <4> QED BY <4>3, <4>4
    <3> QED BY <3>1, <3>2, <3>3 DEF LoadsOK
  <2> QED BY <1>1, <1>4, <2>1, LeftKeeps
<1>10. loading' \in BOOLEAN /\ excused' \in BOOLEAN
  BY <1>2
<1>11. PanelInv' /\ ed'.of = Active(pg, lastResult, selectedProvider) /\ pageState' = pg
  <2>1. LoadsOK(rest, pg, loading', excused')
    BY <1>2, <1>9
  <2>2. pageState' = pg
    BY <1>2 DEF Renders
  <2> QED BY <1>2, <1>3, <1>6, <1>7, <1>10, <2>1, <2>2, RendersKeep
<1>12. ASSUME pg # "offline", ed.of # Nobody
       PROVE  Active(pg, lastResult, selectedProvider) = ed.of
  BY <1>12, ActiveStays
<1> QED BY <1>11, <1>12

\* The editor is the user's, as EditorStays says it of a step.
OwnEditor ==
  ed.of # Nobody /\ ed'.of # ed.of =>
    \/ \E p \in ProviderIds : SelectProvider(p)
    \/ pageState' = "offline"
    \/ \E c \in asked : c.what # "load" /\ ~c.mine /\ ArriveAsked(c)

LEMMA PanelStep ==
  ASSUME PanelInv, [PanelNext]_panelVars
  PROVE  PanelInv' /\ OwnEditor
<1>1. CASE UNCHANGED panelVars
  <2>1. UNCHANGED <<pageState, loading, selectedProvider, lastResult, ed, asked, excused>>
    BY <1>1 DEF panelVars
  <2> QED BY <2>1, PanelHolds DEF PanelInv, OwnEditor
<1>2. ASSUME NEW p \in ProviderIds, SelectProvider(p)
      PROVE  PanelInv' /\ OwnEditor
  BY <1>2, SelectStep DEF OwnEditor
<1>3. ASSUME NEW p \in ProviderIds, SubmitCustom(p)
      PROVE  PanelInv' /\ OwnEditor
  BY <1>3, SubmitCustomStep DEF OwnEditor
<1>4. ASSUME NEW what \in {"save", "start", "finish"}, Submit(what)
      PROVE  PanelInv' /\ OwnEditor
  BY <1>4, SubmitStep DEF OwnEditor
<1>5. CASE Dismiss \/ Clears \/ SignInTimesOut
  BY <1>5, TimerSteps DEF OwnEditor
<1>6. ASSUME NEW c \in asked, ServeAsked(c)
      PROVE  PanelInv' /\ OwnEditor
  BY <1>6, ServeAskedStep DEF OwnEditor
<1>7. ASSUME NEW c \in asked, ArriveAsked(c)
      PROVE  PanelInv' /\ OwnEditor
  <2>1. c.answer # "none"
    BY <1>7 DEF ArriveAsked
  <2>2. CASE c.what \in {"save", "start", "finish", "custom"} /\ ActionAnswered(c)
    <3>1. PanelInv' /\ (c.mine => ed'.of = ed.of)
      BY <2>2, ActionStep
    <3> QED BY <1>7, <2>2, <3>1 DEF OwnEditor
  <2>3. CASE c.what = "callback" /\ CallbackAnswered(c)
    <3>1. PanelInv' /\ (c.mine => ed'.of = ed.of)
      BY <2>3, CallbackStep
    <3> QED BY <1>7, <2>3, <3>1 DEF OwnEditor
  <2>4. CASE c.what = "load" /\ LoadAnswered(c)
    <3>1. PanelInv' /\ (pageState' # "offline" /\ ed.of # Nobody => ed'.of = ed.of)
      BY <2>1, <2>4, LoadStep
    <3> QED BY <3>1 DEF OwnEditor
  <2> QED BY <1>7, <2>2, <2>3, <2>4 DEF ArriveAsked
<1> QED BY <1>1, <1>2, <1>3, <1>4, <1>5, <1>6, <1>7 DEF PanelNext

LEMMA PanelBegins == PanelInit => PanelInv
<1>1. SUFFICES ASSUME PanelInit PROVE PanelInv
  OBVIOUS
<1>2. PICK n, a, e : /\ n = NewId(Alike({}, "load", Nobody)) /\ a = Ask({}, "load", Nobody, FALSE)
                     /\ e = Editor(Nobody)
  OBVIOUS
<1>3. /\ pageState = "offline" /\ loading = TRUE /\ selectedProvider = Nobody /\ lastResult = Nobody
      /\ ed = e /\ excused = FALSE /\ asked = {a}
  BY <1>1, <1>2 DEF PanelInit
<1>4. AskedOK({})
  BY FS_EmptySet DEF AskedOK
<1>5. n \in Nat /\ \A x \in Sent : x.id = n /\ x.what = "load" /\ x.of = Nobody => AskedOK({} \cup {x})
  BY <1>2, <1>4, AskIsNew
<1>6. a = [id |-> n, what |-> "load", of |-> Nobody, mine |-> FALSE, newest |-> FALSE,
           answer |-> "none", saw |-> "none"]
  BY <1>2 DEF Ask
<1>7. /\ a.id = n /\ a.what = "load" /\ a.of = Nobody /\ a.mine = FALSE /\ a.newest = FALSE
      /\ a.answer = "none" /\ a.saw = "none"
  BY <1>6
<1>8. a \in Sent
  BY <1>5, <1>6 DEF Sent
<1>9. AskedOK(asked)
  <2>1. {} \cup {a} = asked
    BY <1>3
  <2>2. AskedOK({} \cup {a})
    BY <1>5, <1>7, <1>8
  <2> QED BY <2>1, <2>2
<1>10. e \in Editors /\ e.of = Nobody /\ e.submitting = FALSE /\ e.status = "idle"
  <2>1. 0 \in 0..MaxTimers + 1
    BY PanelAssumption
  <2> QED BY <1>2, <2>1 DEF Editor, Editors
<1>11. EditorOK(asked, ed)
  BY <1>3, <1>7, <1>10 DEF EditorOK
<1>12. LoadsOK(asked, pageState, loading, excused)
  BY <1>3, <1>7 DEF LoadsOK, LoadEnds
<1> QED BY <1>3, <1>9, <1>10, <1>11, <1>12 DEF PanelInv, PageTypes, Active

(***************************************************************************)
(* The console: its parts rest or step, one at a time.                     *)
(***************************************************************************)
AdminInv == ConsoleInv /\ PanelInv /\ MicInv /\ CapsInv /\ CatalogInv

\* What SessionHolds says of a step.
StillIn == ~locked /\ locked' => Logout \/ stored = NoToken \/ good > 0

LEMMA AdminBegins == AdminInit => AdminInv
BY ConsoleBegins, PanelBegins, DictationBegins, CapsBegins, CatalogBegins DEF AdminInit, AdminInv

LEMMA AdminStep ==
  AdminInv /\ [AdminNext]_adminVars =>
    AdminInv' /\ [OwnEditor]_panelVars /\ [StillIn]_consoleVars
    /\ [\A p \in posts : Served(p) => UntouchedStays(p) /\ SavedIsShown(p)]_capsVars
<1>1. SUFFICES ASSUME AdminInv, [AdminNext]_adminVars
               PROVE  /\ AdminInv' /\ [OwnEditor]_panelVars /\ [StillIn]_consoleVars
                      /\ [\A p \in posts : Served(p) => UntouchedStays(p) /\ SavedIsShown(p)]_capsVars
  OBVIOUS
<1>2. /\ [ConsoleNext]_consoleVars /\ [PanelNext]_panelVars /\ [DictationNext]_dictationVars
      /\ [FormNext]_capsVars /\ [CatalogNext]_catalogVars
  BY <1>1 DEF AdminNext, adminVars
<1>3. ConsoleInv /\ PanelInv /\ MicInv /\ CapsInv /\ CatalogInv
  BY <1>1 DEF AdminInv
<1>4. ConsoleInv' /\ StillIn
  BY <1>2, <1>3, ConsoleStep DEF LocksByRight, StillIn
<1>5. PanelInv' /\ OwnEditor
  BY <1>2, <1>3, PanelStep
<1>6. MicInv' /\ CapsInv' /\ CatalogInv'
  BY <1>2, <1>3, DictationStep, CapsStep, CatalogStep
<1>7. [\A p \in posts : Served(p) => UntouchedStays(p) /\ SavedIsShown(p)]_capsVars
  BY <1>2, <1>3, SaveKeepsRest
<1> QED BY <1>4, <1>5, <1>6, <1>7 DEF AdminInv

LEMMA AdminInvariant == AdminSpec => []AdminInv
<1>1. AdminInv /\ [AdminNext]_adminVars => AdminInv'
  BY AdminStep
<1> QED BY <1>1, AdminBegins, PTL DEF AdminSpec

\* For any requests under way, rotations, providers, timers, recordings, rows and tabs:
\* what the console shows of providers, sign-ins, lists and the microphone is so.
THEOREM ConsoleShowsTruth == AdminSpec => []AdminShowsTruth
<1>1. AdminInv => AdminShowsTruth
  <2>1. SUFFICES ASSUME AdminInv PROVE AdminShowsTruth
    OBVIOUS
  <2>2. PanelTypeOK /\ PanelShowsTruth
    BY <2>1, PanelTypes DEF AdminInv
  <2>3. CatalogTypeOK /\ ListHonest
    BY <2>1, CatalogTypes DEF AdminInv, CatalogInv
  <2> QED BY <2>1, <2>2, <2>3 DEF AdminInv, ConsoleInv, MicInv, CapsInv, AdminShowsTruth
<1> QED BY <1>1, AdminInvariant, PTL

\* A user whose page is unlocked is logged out by himself, by a tab that dropped the
\* token, or after the server got another: by no failure, and no late answer.
THEOREM SessionIsKept == AdminSpec => SessionHolds
<1>1. AdminInv /\ [AdminNext]_adminVars =>
        [~locked /\ locked' => Logout \/ stored = NoToken \/ good > 0]_consoleVars
  BY AdminStep DEF StillIn
<1> QED BY <1>1, AdminInvariant, PTL DEF AdminSpec, SessionHolds

\* No answer to an editor's own request opens another, and a save that the server
\* carries out, however late, changes what was entered or what was changed elsewhere.
THEOREM AnswersAreAsked == AdminSpec => NothingUnasked
<1>1. AdminInv /\ [AdminNext]_adminVars =>
        [ed.of # Nobody /\ ed'.of # ed.of =>
           \/ \E p \in ProviderIds : SelectProvider(p)
           \/ pageState' = "offline"
           \/ \E c \in asked : c.what # "load" /\ ~c.mine /\ ArriveAsked(c)]_panelVars
  BY AdminStep DEF OwnEditor
<1>2. AdminInv /\ [AdminNext]_adminVars =>
        [\A p \in posts : Served(p) => UntouchedStays(p) /\ SavedIsShown(p)]_capsVars
  BY AdminStep
<1>3. AdminSpec => EditorStays
  BY <1>1, AdminInvariant, PTL DEF AdminSpec, EditorStays
<1>4. AdminSpec => SavesOnlyEdits
  BY <1>2, AdminInvariant, PTL DEF AdminSpec, SavesOnlyEdits
<1> QED BY <1>3, <1>4 DEF NothingUnasked
=============================================================================
