------------------------------ MODULE AdminTabs ------------------------------
(***************************************************************************)
(* Tabs of the admin console that write what they show.  The capabilities  *)
(* tab is one form over all that stack.yml says of models, voice and       *)
(* memory, which is loaded in three requests when the page unlocks and     *)
(* never again, and whose every save sends all of it.  Other pages and     *)
(* commands write stack.yml too.  Of the capabilities there are one that   *)
(* is optional and has two parts, and the instructions of the memory,      *)
(* which are read from a second file as well.                              *)
(***************************************************************************)
EXTENDS Requests, Bags

CONSTANTS
  Choices,     \* what can be entered into a field
  Empty,       \* a field that is empty, a capability that is not configured
  MaxEntries,  \* bound: how often the user changes a field
  MaxOutside   \* bound: how often others write stack.yml, or the page is unlocked again

ASSUME FormAssumption == Empty \notin Choices /\ {MaxEntries, MaxOutside} \subseteq Nat

Fields == {"provider", "model", "instructions"}
Filled == Choices \cup {Empty}
Blank == [x \in Fields |-> Empty]
Partial == UNION {[S -> Filled] : S \in SUBSET Fields}

VARIABLES
  spec,     \* the capabilities in stack.yml
  legacy,   \* custom_instructions in the configuration file of the memory
  caps,     \* what is shown
  loadAt,   \* the request of loadAll that is awaited
  got,      \* the answer that is under way
  posts,    \* the saves under way
  touched,  \* the fields the user changed since they were loaded (history)
  base,     \* what was loaded (history)
  entries, outside

capsVars == <<spec, legacy, caps, loadAt, got, posts, touched, base, entries, outside>>
loadVars == <<loadAt, got>>

\* A save: the form as it was sent, and whether the tab that sent it is still there.
Post(f, t, b) == [id |-> NewId(posts), caps |-> f, touched |-> t, base |-> b, mine |-> TRUE, answer |-> "none"]

\* All is well-typed, and one save of this form is under way at a time.
FormTypeOK ==
  /\ spec \in [Fields -> Filled]
  /\ legacy \in Filled /\ caps \in [Fields -> Filled] /\ got \in [Fields -> Filled]
  /\ loadAt \in {"providers", "assignments", "answered", "memory", "over"}
  /\ IsFiniteSet(posts) /\ Numbered(posts)
  /\ posts \subseteq [id : Nat, caps : [Fields -> Filled], touched : SUBSET Fields, base : Partial,
                      mine : BOOLEAN, answer : {"none", "ok", "failed"}]
  /\ Cardinality({p \in posts : p.mine}) <= 1
  /\ touched \subseteq Fields /\ base \in Partial
  /\ entries \in 0..MaxEntries /\ outside \in 0..MaxOutside

\* An empty form, whose loading begins.
NotLoaded == caps = Blank /\ loadAt = "providers" /\ got = Blank /\ touched = {} /\ base = <<>>

FormInit ==
  /\ spec \in {s \in [Fields -> Filled] : s.provider = Empty => s.model = Empty}
  /\ legacy \in Filled
  /\ NotLoaded /\ posts = {} /\ entries = 0 /\ outside = 0

-----------------------------------------------------------------------------
(* loadAll: the providers, whose failure matters as little as their names;  *)
(* the capabilities; the configuration of the memory.                       *)

ProvidersLoaded ==
  /\ loadAt = "providers" /\ loadAt' = "assignments"
  /\ UNCHANGED <<spec, legacy, caps, got, posts, touched, base, entries, outside>>

\* The server answers, or the request fails, of which nothing is shown.
AssignmentsRead ==
  /\ loadAt = "assignments"
  /\ \/ loadAt' = "answered" /\ got' = spec
     \/ loadAt' = "memory" /\ UNCHANGED got
  /\ UNCHANGED <<spec, legacy, caps, posts, touched, base, entries, outside>>

\* Every field takes what was loaded, also one that the user has changed meanwhile.
AssignmentsShown ==
  /\ loadAt = "answered" /\ loadAt' = "memory"
  /\ caps' = got /\ base' = got /\ touched' = {} /\ got' = Blank
  /\ UNCHANGED <<spec, legacy, posts, entries, outside>>

\* Instructions in that other file take the place of those in stack.yml.
MemoryConfigLoaded ==
  /\ loadAt = "memory" /\ loadAt' = "over"
  /\ caps' \in {caps} \cup (IF legacy = Empty THEN {} ELSE {[caps EXCEPT !.instructions = legacy]})
  /\ UNCHANGED <<spec, legacy, got, posts, touched, base, entries, outside>>

-----------------------------------------------------------------------------
(* The user. *)

\* Another provider starts without a model.
Entered(x, v) ==
  IF x = "provider" THEN [caps EXCEPT !.provider = v, !.model = Empty] ELSE [caps EXCEPT ![x] = v]

Enter(x, v) ==
  /\ entries < MaxEntries /\ entries' = entries + 1
  /\ v # caps[x]
  /\ caps' = Entered(x, v)
  /\ touched' = touched \cup (IF x = "provider" THEN {"provider", "model"} ELSE {x})
  /\ UNCHANGED <<spec, legacy, loadVars, posts, base, outside>>

\* handleSave, for which every button waits.
MaySave_Always == TRUE
MaySave == ~\E p \in posts : p.mine

Save ==
  /\ MaySave
  /\ posts' = posts \cup {Post(caps, touched, base)}
  /\ UNCHANGED <<spec, legacy, caps, loadVars, touched, base, entries, outside>>

\* The page is locked and unlocked: another form, which is loaded anew.
Remount ==
  /\ outside < MaxOutside /\ outside' = outside + 1
  /\ caps' = Blank /\ loadAt' = "providers" /\ got' = Blank /\ touched' = {} /\ base' = <<>>
  /\ posts' = {[p EXCEPT !.mine = FALSE] : p \in posts}
  /\ UNCHANGED <<spec, legacy, entries>>

-----------------------------------------------------------------------------
(* The server. *)

\* What of a form is sent: JSON has no undefined, which is what empty fields are
\* made to be, and those of a capability without a provider.  The memory is sent.
Body_Everything(f) == f
Body(f) ==
  LET sent == {x \in Fields : f[x] # Empty /\ (x = "model" => f.provider # Empty)}
  IN  [x \in sent \cup {"instructions"} |-> f[x]]

Merged(body) == [x \in Fields |-> IF x \in DOMAIN body THEN body[x] ELSE spec[x]]

\* POST: what is sent is merged into what there is; or it fails, and nothing is.
ServePost(p) ==
  /\ p.answer = "none"
  /\ \/ spec' = Merged(Body(p.caps)) /\ posts' = (posts \ {p}) \cup {[p EXCEPT !.answer = "ok"]}
     \/ UNCHANGED spec /\ posts' = (posts \ {p}) \cup {[p EXCEPT !.answer = "failed"]}
  /\ UNCHANGED <<legacy, caps, loadVars, touched, base, entries, outside>>

\* The answer arrives, or is lost.
PostAnswered(p) ==
  /\ p.answer # "none" /\ posts' = posts \ {p}
  /\ UNCHANGED <<spec, legacy, caps, loadVars, touched, base, entries, outside>>

\* The wizard, another tab, a route that sets one capability.
Elsewhere ==
  /\ outside < MaxOutside /\ outside' = outside + 1
  /\ \E x \in Fields, v \in Choices :
       spec' = [spec EXCEPT ![x] = v, !.provider = IF x = "model" /\ @ = Empty THEN v ELSE @]
  /\ UNCHANGED <<legacy, caps, loadVars, posts, touched, base, entries>>

FormNext ==
  \/ ProvidersLoaded \/ AssignmentsRead \/ AssignmentsShown \/ MemoryConfigLoaded
  \/ \E x \in Fields, v \in Filled : Enter(x, v)
  \/ Save \/ Remount \/ Elsewhere
  \/ \E p \in posts : ServePost(p) \/ PostAnswered(p)

FormSpec == FormInit /\ [][FormNext]_capsVars

-----------------------------------------------------------------------------
\* A form that sends all it shows changes only what its user entered, or what others
\* have changed since it was loaded; but the instructions also if it never was, and
\* where those of the other file have taken their place.
UntouchedStays(p) ==
  \A x \in Fields : spec'[x] # spec[x] =>
    \/ x \in p.touched
    \/ x \in DOMAIN p.base /\ p.base[x] # spec[x]
    \/ x = "instructions" /\ (x \notin DOMAIN p.base \/ p.caps[x] = legacy)

\* What was shown is what is stored, except where nothing was shown.
SavedIsShown(p) ==
  \A x \in Fields : spec'[x] = p.caps[x] \/ p.caps[x] = Empty \/ (x = "model" /\ p.caps.provider = Empty)

\* The server carries out a save.
Served(p) == p.answer = "none" /\ [p EXCEPT !.answer = "ok"] \in posts' /\ p \notin posts'

\* One form saves all of stack.yml at every button, without looking at what it says
\* by then: a save that was sent before the form was loaded, after others wrote, or by
\* a tab that is gone stores what was shown and changes nothing else.
SavesOnlyEdits == [][\A p \in posts : Served(p) => UntouchedStays(p) /\ SavedIsShown(p)]_capsVars


-----------------------------------------------------------------------------
(* The tabs that list what can be switched: addons, automations of the       *)
(* catalogue, secrets.  A button asks for the opposite of what the row shows *)
(* and the list is loaded again after it.  One field says which row is at    *)
(* work; loads may overlap and overtake each other, and requests fail before *)
(* or after they were carried out.  No variable is shared with the form.     *)

CONSTANTS
  Items,    \* the rows: addons, automations or keys of secrets
  NoItem,   \* no row is at work
  MaxCalls  \* bound: how many requests are under way at a time

ASSUME CatalogAssumption == NoItem \notin Items /\ MaxCalls \in Nat

VARIABLES
  tab,       \* which list it is
  on,        \* the rows that are enabled, installed, there
  rows,      \* the rows that are shown so
  complaints,  \* the errors that are shown, of actions and of loads; of a
               \* refused token the gate that closes over the list of addons instead
  acting,    \* actionLoading: the row whose button is disabled
  listing,   \* whether the buttons that load the list are disabled
  requests,  \* the requests under way
  overlaps,  \* two requests were under way at a time since the list was true (history)
  waived     \* an error was dismissed since, or others changed the rows (history)

catalogVars == <<tab, on, rows, complaints, acting, listing, requests, overlaps, waived>>

\* A request: an action on a row, or a load, which may be the last step of an action.
Request(what, item, want, last) ==
  [what |-> what, item |-> item, want |-> want, last |-> last, answer |-> "none", saw |-> {}]

OfAction(r) == r.what = "act" \/ r.last

\* All is well-typed, and of secrets one action is under way at a time.
CatalogTypeOK ==
  /\ tab = "secrets" => Cardinality({r \in BagToSet(requests) : OfAction(r)}) <= 1
  /\ tab \in {"addons", "automations", "secrets"}
  /\ {on, rows} \subseteq SUBSET Items /\ {listing, overlaps, waived} \subseteq BOOLEAN
  /\ complaints \subseteq {"act", "load"}
  /\ acting \in Items \cup {NoItem}
  /\ IsABag(requests)
  /\ BagToSet(requests) \subseteq
       [what : {"act", "load"}, item : Items \cup {NoItem}, want : BOOLEAN, last : BOOLEAN,
        answer : {"none", "ok", "failed"}, saw : SUBSET Items]

\* The tab is opened: its list is loaded.
CatalogInit ==
  /\ tab \in {"addons", "automations", "secrets"}
  /\ on \in SUBSET Items /\ rows = {}
  /\ complaints = {} /\ acting = NoItem /\ listing = TRUE
  /\ requests = SetToBag({Request("load", NoItem, FALSE, FALSE)})
  /\ overlaps = FALSE /\ waived = FALSE

UnderWay == BagCardinality(requests)

\* Of secrets the errors of actions and of loads have a place of their own.
ClearedByClick == IF tab = "secrets" THEN {"act"} ELSE {}
ClearedByLoad == IF tab = "secrets" THEN {"load"} ELSE {"act", "load"}
Dismissible == CASE tab = "addons" -> {} [] tab = "automations" -> {"act", "load"} [] tab = "secrets" -> {"act"}

-----------------------------------------------------------------------------
(* The user.  A list of addons is hidden by its error; the others stay.  The *)
(* buttons of secrets wait for each other, those of other rows do not.       *)

MayClick_Always(i) == TRUE
MayClick(i) == IF tab = "secrets" THEN acting = NoItem ELSE acting # i

\* Enable, disable, install, uninstall, delete; a secret is also written if it is there.
ClickRow(i) ==
  /\ UnderWay < MaxCalls
  /\ tab = "addons" => complaints = {}
  /\ MayClick(i)
  /\ \E want \in BOOLEAN :
       /\ want = (i \notin rows) \/ (tab = "secrets" /\ want)
       /\ requests' = requests (+) SetToBag({Request("act", i, want, FALSE)})
  /\ acting' = i
  /\ complaints' = complaints \ ClearedByClick
  /\ overlaps' = (overlaps \/ requests # EmptyBag)
  /\ UNCHANGED <<tab, on, rows, listing, waived>>

\* Refresh, which waits for a load; and Retry under the error of the addons.
Reload ==
  /\ UnderWay < MaxCalls /\ (listing => tab = "addons" /\ complaints # {})
  /\ requests' = requests (+) SetToBag({Request("load", NoItem, FALSE, FALSE)})
  /\ complaints' = complaints \ ClearedByLoad /\ listing' = TRUE
  /\ overlaps' = (overlaps \/ requests # EmptyBag)
  /\ UNCHANGED <<tab, on, rows, acting, waived>>

-----------------------------------------------------------------------------
(* The server. *)

\* An automation is not installed, or removed, twice.
Declined(r) == tab = "automations" /\ (r.item \in on) = r.want

After(r) ==
  IF r.what = "load" \/ Declined(r) THEN on ELSE IF r.want THEN on \cup {r.item} ELSE on \ {r.item}

\* It does what it is asked and says so; or refuses; or fails; or the answer is lost.
ServeRequest(r) ==
  /\ r.answer = "none"
  /\ \E answer \in {"ok", "failed"} :
       /\ Declined(r) /\ r.what = "act" => answer = "failed"
       /\ on' \in {After(r)} \cup (IF answer = "failed" THEN {on} ELSE {})
       /\ requests' = (requests (-) SetToBag({r})) (+) SetToBag({[r EXCEPT !.answer = answer,
                        !.saw = IF r.what = "load" /\ answer = "ok" THEN on ELSE {}]})
  /\ UNCHANGED <<tab, rows, complaints, acting, listing, overlaps, waived>>

\* The command line, another tab.
Switched ==
  /\ ~waived /\ waived' = TRUE
  /\ \E i \in Items : on' = IF i \in on THEN on \ {i} ELSE on \cup {i}
  /\ UNCHANGED <<tab, rows, complaints, acting, listing, requests, overlaps>>

-----------------------------------------------------------------------------
(* Answers. *)

\* After an action that went well the list is loaded, and only then is the button free.
ReloadsAfter_Never(r) == FALSE
ReloadsAfter(r) == r.answer = "ok"

Acted(r) ==
  /\ r.what = "act" /\ r.answer # "none"
  /\ IF ReloadsAfter(r)
     THEN /\ requests' = (requests (-) SetToBag({r})) (+) SetToBag({Request("load", NoItem, FALSE, TRUE)})
          /\ complaints' = complaints \ ClearedByLoad /\ listing' = TRUE /\ UNCHANGED acting
     ELSE /\ requests' = requests (-) SetToBag({r}) /\ acting' = NoItem
          /\ complaints' = IF r.answer = "ok" THEN complaints ELSE complaints \cup {"act"}
          /\ UNCHANGED listing
  /\ UNCHANGED <<tab, on, rows, overlaps, waived>>

\* What ends the action: both a load that came and one that did not.
Frees_OnSuccess(r) == r.last /\ r.answer = "ok"
Frees(r) == r.last

Loaded(r) ==
  /\ r.what = "load" /\ r.answer # "none"
  /\ requests' = requests (-) SetToBag({r})
  /\ listing' = FALSE
  /\ IF r.answer = "ok" THEN rows' = r.saw /\ UNCHANGED complaints
                        ELSE complaints' = complaints \cup {"load"} /\ UNCHANGED rows
  /\ acting' = IF Frees(r) THEN NoItem ELSE acting
  /\ IF requests' = EmptyBag /\ rows' = on THEN overlaps' = FALSE /\ waived' = FALSE ELSE UNCHANGED <<overlaps, waived>>
  /\ UNCHANGED <<tab, on>>

DismissComplaint ==
  /\ complaints \cap Dismissible # {} /\ complaints' = complaints \ Dismissible
  /\ waived' = TRUE
  /\ UNCHANGED <<tab, on, rows, acting, listing, requests, overlaps>>

CatalogNext ==
  \/ \E i \in Items : ClickRow(i)
  \/ Reload \/ Switched \/ DismissComplaint
  \/ \E r \in BagToSet(requests) : ServeRequest(r) \/ Acted(r) \/ Loaded(r)

\* The requests an action consists of are ended by the server and the browser.
CatalogFairness ==
  /\ WF_catalogVars(\E r \in BagToSet(requests) : OfAction(r) /\ ServeRequest(r))
  /\ WF_catalogVars(\E r \in BagToSet(requests) : Acted(r))
  /\ WF_catalogVars(\E r \in BagToSet(requests) : r.last /\ Loaded(r))

CatalogSpec == CatalogInit /\ [][CatalogNext]_catalogVars /\ CatalogFairness

-----------------------------------------------------------------------------
\* A list at rest that shows no error shows what is, if requests were made one after
\* the other, nobody else switched a row and no error was dismissed.
ListHonest ==
  requests = EmptyBag /\ complaints = {} /\ ~overlaps /\ ~waived => rows = on

\* A row is not at work for good, whatever becomes of its requests.
RowSettles == acting # NoItem ~> acting = NoItem
=============================================================================
