--------------------------- MODULE ProviderPanel ---------------------------
(***************************************************************************)
(* The providers of OpenCode in the admin console: a page that is loaded   *)
(* again after every action, an editor for the provider that is active,    *)
(* and sign-ins that OpenCode completes in its own time, with timers       *)
(* beside them.  A configuration is fresh or stale, an editor is the       *)
(* present one or was left; filters, and tokens, are left out.             *)
(***************************************************************************)
EXTENDS Requests

CONSTANTS
  ProviderIds,  \* the ids of providers
  First,        \* the one the server lists first
  Nobody,       \* no provider
  Panel,        \* bound: requests under way when a user begins another
  MaxTimers     \* bound: messages waiting to be cleared when a user acts

ASSUME PanelAssumption ==
  First \in ProviderIds /\ Nobody \notin ProviderIds /\ {Panel, MaxTimers} \subseteq Nat

VARIABLES
  pageState,         \* "offline", or the configuration it shows
  loading,           \* the cards are hidden
  selectedProvider,  \* selectedProviderId
  lastResult,        \* lastActionResult's provider
  ed,                \* the editor that is shown
  asked,             \* the requests under way
  excused            \* loads overlapped, one failed or an answer was lost (history)

panelVars == <<pageState, loading, selectedProvider, lastResult, ed, asked, excused>>

\* Requests that ask the same are numbered; when one ends those after it move up.
Alike(under, what, of) == {c \in under : c.what = what /\ c.of = of}

Left(c) ==
  {IF d.what = c.what /\ d.of = c.of /\ d.id > c.id THEN [d EXCEPT !.id = @ - 1] ELSE d :
     d \in asked \ {c}}

\* A request: `mine` if the editor that is shown sent it, `newest` if it awaits the
\* last sign-in of that editor, `saw` the configuration in the answer.
Ask(under, what, of, mine) ==
  [id |-> NewId(Alike(under, what, of)), what |-> what, of |-> of, mine |-> mine, newest |-> mine /\ what = "callback",
   answer |-> "none", saw |-> "none"]

\* An editor, as it is mounted; `crossed` says that an older sign-in ended after the
\* newest began (history).
Editor(p) ==
  [of |-> p, result |-> "none", status |-> "idle", submitting |-> FALSE, timers |-> 0,
   deadline |-> FALSE, crossed |-> FALSE]

PanelTypeOK ==
  /\ pageState \in {"offline", "stale", "fresh"}
  /\ {loading, excused} \subseteq BOOLEAN
  /\ {selectedProvider, lastResult} \subseteq ProviderIds \cup {Nobody}
  /\ ed \in [of : ProviderIds \cup {Nobody}, result : {"none", "failed", "ok", "code", "auto"},
             status : {"idle", "pending", "timed_out", "complete", "error"},
             submitting : BOOLEAN, timers : 0..MaxTimers + 1,
             deadline : BOOLEAN, crossed : BOOLEAN]
  /\ IsFiniteSet(asked) /\ \A c \in asked : Numbered(Alike(asked, c.what, c.of))
  /\ asked \subseteq
       [id : Nat, what : {"load", "save", "start", "finish", "custom", "callback"},
        of : ProviderIds \cup {Nobody}, mine : BOOLEAN, newest : BOOLEAN,
        answer : {"none", "done", "code", "auto", "refused", "broken", "lost"},
        saw : {"none", "offline", "stale", "fresh"}]

PanelInit ==
  /\ pageState = "offline" /\ loading = TRUE /\ selectedProvider = Nobody /\ lastResult = Nobody
  /\ ed = Editor(Nobody) /\ excused = FALSE
  /\ asked = {Ask({}, "load", Nobody, FALSE)}

-----------------------------------------------------------------------------
(* What is rendered. *)

\* activeProvider: the one of the last result, else the one selected, else the first.
Active(pg, l, c) ==
  IF pg = "offline" THEN Nobody ELSE IF l # Nobody THEN l ELSE IF c # Nobody THEN c ELSE First

\* Requests of an editor that is left are nobody's.
Orphans(under) == {[c EXCEPT !.mine = FALSE, !.newest = FALSE] : c \in under}

\* The page after a step: an editor keeps its state as long as its provider stays.
Renders(pg, l, c, editor, under) ==
  /\ pageState' = pg /\ lastResult' = l /\ selectedProvider' = c
  /\ IF Active(pg, l, c) = editor.of THEN ed' = editor /\ asked' = under
     ELSE ed' = Editor(Active(pg, l, c)) /\ asked' = Orphans(under)

\* load, begun while others are under way.
Reloads(under) ==
  /\ loading' = TRUE
  /\ excused' = (excused \/ \E c \in under : c.what = "load")
Reloaded(under) == under \cup {Ask(under, "load", Nobody, FALSE)}

-----------------------------------------------------------------------------
(* The user. *)

PanelRoom == Cardinality(asked) < Panel /\ ed.timers < MaxTimers

SelectProvider(p) ==
  /\ pageState # "offline" /\ ~loading
  /\ Renders(pageState, Nobody, p, ed, asked)
  /\ UNCHANGED <<loading, excused>>

\* submitAction; the code of a sign-in can be pasted where its form is shown.
Submit(what) ==
  /\ ed.of # Nobody /\ ~ed.submitting /\ PanelRoom
  /\ what = "finish" => ed.result = "code"
  /\ ed' = [ed EXCEPT !.submitting = TRUE, !.result = "none"]
  /\ asked' = asked \cup {Ask(asked, what, ed.of, TRUE)}
  /\ UNCHANGED <<pageState, loading, selectedProvider, lastResult, excused>>

Dismiss ==
  /\ ed.result # "none" /\ ed' = [ed EXCEPT !.result = "none"]
  /\ UNCHANGED <<pageState, loading, selectedProvider, lastResult, asked, excused>>

\* The form for a provider of one's own, here one that is overwritten.
SubmitCustom(p) ==
  /\ PanelRoom /\ ~\E c \in asked : c.what = "custom"
  /\ asked' = asked \cup {Ask(asked, "custom", p, FALSE)}
  /\ UNCHANGED <<pageState, loading, selectedProvider, lastResult, ed, excused>>

-----------------------------------------------------------------------------
(* The server. *)

\* What an answer may be: of the actions, of preparing a sign-in and of completing
\* it, of loading the page.  Only a refusal and a success name the provider; a
\* request whose answer is lost may have been carried out.
Prepared == {"code", "auto", "broken", "lost"}
Completed == {"done", "broken", "lost"}

AnswersTo(what) ==
  CASE what = "start" -> Prepared
    [] what = "callback" -> Completed
    [] what = "load" -> {"done", "lost"}
    [] OTHER -> {"done", "refused", "broken", "lost"}

Seen(what, answer) ==
  IF what = "load" /\ answer = "done" THEN {"fresh", "offline"} ELSE {"none"}

Changes(what, answer) ==
  IF what \in {"load", "start"} THEN {FALSE}
  ELSE CASE answer = "done" -> {TRUE}
         [] answer = "lost" \/ (what = "finish" /\ answer = "broken") -> BOOLEAN
         [] OTHER -> {FALSE}

Ages(x) == IF x = "fresh" THEN "stale" ELSE x

ServeAsked(c) ==
  /\ c.answer = "none"
  /\ \E answer \in AnswersTo(c.what) : \E changes \in Changes(c.what, answer) :
     \E saw \in Seen(c.what, answer) :
       LET rest == asked \ {c}
           aged == {[d EXCEPT !.saw = Ages(@)] : d \in rest}
       IN  /\ asked' = (IF changes THEN aged ELSE rest)
                       \cup {[c EXCEPT !.answer = answer, !.saw = saw]}
           /\ pageState' = IF changes THEN Ages(pageState) ELSE pageState
  /\ UNCHANGED <<loading, selectedProvider, lastResult, ed, excused>>

-----------------------------------------------------------------------------
(* Answers. *)

\* handleAction of the panel: the result's provider, if it names one, is selected.
Chosen_Kept(of) == selectedProvider
Chosen(of) == IF of = Nobody THEN selectedProvider ELSE of

\* startAutoCallback: what was awaited before is still awaited, by nobody's name.
Awaits_Unreset(editor) == [editor EXCEPT !.deadline = TRUE]
Awaits(editor) == [editor EXCEPT !.status = "pending", !.deadline = TRUE, !.crossed = FALSE]

Awaited(c, under) ==
  LET older == IF c.mine THEN {[d EXCEPT !.newest = FALSE] : d \in under} ELSE under
  IN  older \cup {Ask(older, "callback", c.of, c.mine)}

\* The editor that asked shows the result for a while, unless it was left.
ResultOf(answer) ==
  CASE answer = "done" -> "ok" [] answer \in {"code", "auto"} -> answer [] OTHER -> "failed"

ActionAnswered(c) ==
  LET rest == Left(c)
      named == IF c.answer = "broken" THEN Nobody ELSE c.of
      told == [ed EXCEPT !.submitting = FALSE, !.result = ResultOf(c.answer),
                         !.timers = IF ResultOf(c.answer) = "failed" THEN @ ELSE @ + 1]
      editor == IF ~c.mine THEN ed
                ELSE IF c.answer = "auto" THEN Awaits(told)
                ELSE IF c.answer = "lost" THEN told
                ELSE [told EXCEPT !.status = "idle"]
  IN  IF c.answer = "lost"
      THEN /\ Renders(pageState, lastResult, selectedProvider, editor, rest)
           /\ excused' = TRUE /\ UNCHANGED loading
      ELSE /\ Reloads(rest)
           /\ Renders(pageState, named, Chosen(named), editor,
                      Reloaded(IF c.answer = "auto" THEN Awaited(c, rest) ELSE rest))

\* The callback of a sign-in ended; what the editor shows need not be its own.
CallbackAnswered(c) ==
  LET rest == Left(c)
      editor == IF ~c.mine THEN ed
                ELSE [ed EXCEPT !.status = IF c.answer = "done" THEN "complete" ELSE "error",
                                !.deadline = FALSE, !.crossed = @ \/ ~c.newest]
  IN  IF c.answer = "done"
      THEN Reloads(rest) /\ Renders(pageState, c.of, Chosen(c.of), editor, Reloaded(rest))
      ELSE /\ Renders(pageState, lastResult, selectedProvider, editor, rest)
           /\ excused' = (excused \/ c.answer = "lost") /\ UNCHANGED loading

\* load ends: an answer is shown whatever came before it, a failure changes nothing.
LoadAnswered(c) ==
  LET rest == Left(c)
      alone == ~\E d \in rest : d.what = "load"
  IN  /\ loading' = FALSE
      /\ excused' = ((excused /\ ~(alone /\ c.saw = "fresh")) \/ c.answer = "lost")
      /\ Renders(IF c.answer = "done" THEN c.saw ELSE pageState, lastResult, selectedProvider, ed, rest)

ArriveAsked(c) ==
  /\ c.answer # "none"
  /\ \/ c.what \in {"save", "start", "finish", "custom"} /\ ActionAnswered(c)
     \/ c.what = "callback" /\ CallbackAnswered(c)
     \/ c.what = "load" /\ LoadAnswered(c)

-----------------------------------------------------------------------------
(* The timers of the editor. *)

\* Four seconds after a success: whatever success is shown by then goes.
Clears ==
  /\ ed.timers > 0
  /\ ed' = [ed EXCEPT !.timers = @ - 1,
                      !.result = IF @ \in {"ok", "code", "auto"} THEN "none" ELSE @]
  /\ UNCHANGED <<pageState, loading, selectedProvider, lastResult, asked, excused>>

\* Ten minutes after a sign-in was launched.
SignInTimesOut ==
  /\ ed.deadline
  /\ ed' = [ed EXCEPT !.deadline = FALSE, !.status = IF @ = "pending" THEN "timed_out" ELSE @]
  /\ UNCHANGED <<pageState, loading, selectedProvider, lastResult, asked, excused>>

PanelNext ==
  \/ \E p \in ProviderIds : SelectProvider(p) \/ SubmitCustom(p)
  \/ \E what \in {"save", "start", "finish"} : Submit(what)
  \/ \E c \in asked : ServeAsked(c) \/ ArriveAsked(c)
  \/ Dismiss \/ Clears \/ SignInTimesOut

PanelSpec == PanelInit /\ [][PanelNext]_panelVars

-----------------------------------------------------------------------------
\* "Waiting" is shown while the newest sign-in of the editor is awaited, with a
\* deadline; and it is "complete" once that one ended, unless an older one did.
StatusIsOwn ==
  LET awaited == \E c \in asked : c.newest
  IN  /\ ed.status = "pending" => awaited /\ ed.deadline
      /\ ed.status = "complete" => ~awaited \/ ed.crossed

\* Once nothing is under way the page shows the configuration, unless loads
\* overlapped, a load failed or the answer to a request was lost.
PageIsFresh == asked = {} /\ ~excused => pageState # "stale" /\ ~loading

PanelShowsTruth == StatusIsOwn /\ PageIsFresh

\* The editor is the user's: its provider changes when another is selected, when
\* OpenCode goes or comes back, or by the answer to what was asked elsewhere, the
\* form for custom providers or an editor that was left; by no answer to itself.
EditorStays ==
  [][ed.of # Nobody /\ ed'.of # ed.of =>
       \/ \E p \in ProviderIds : SelectProvider(p)
       \/ pageState' = "offline"
       \/ \E c \in asked : c.what # "load" /\ ~c.mine /\ ArriveAsked(c)]_panelVars

=============================================================================
