---------------------------- MODULE SetupPayload ----------------------------
(***************************************************************************)
(* What becomes of the answers given to the setup wizard: the pages that   *)
(* collect them, the review that shows them, the payload put together when *)
(* Install is clicked, the server that checks it, and performSetup, which  *)
(* writes it file by file and may be cut short.  How a provider comes to   *)
(* be ready is in WizardPages, what is done around the setup in            *)
(* SetupWizard.                                                            *)
(***************************************************************************)
EXTENDS Integers, FiniteSets

CONSTANTS
  None,
  Providers, NoProvider,
  Keyed,                 \* the providers that have a variable for their key
  Secrets, NoSecret,     \* API keys, and the tokens of channels
  Channels,              \* the optional ones, which want a token
  Services,              \* and what else wants none
  Recommended,           \* chosen unless the user says no
  Latin, Foreign,        \* names of the owner; no user id can be made of a foreign one
  OddId, DefaultId, NoId,
  MaxEdits, MaxKills     \* bounds

ModelRoles == {"llm", "embeddings", "slm"}
Extras == Channels \cup Services
UserIds == Latin \cup {OddId, DefaultId, NoId}  \* an id made of a name is that name
Rerankings == {"disabled", "llm", "dedicated"}

Forms ==
  [model : [ModelRoles -> Providers \cup {NoProvider}],  \* a model, named by its provider
   key : [Providers -> Secrets \cup {NoSecret}],
   owner : Latin \cup Foreign, userId : UserIds,
   extras : SUBSET Extras, token : [Channels -> Secrets \cup {NoSecret}],
   reranking : Rerankings]

\* The provider of a capability in stack.yml and the provider whose model it names.
Capable == [provider : Providers \cup {NoProvider}, model : Providers \cup {NoProvider}]
Capabilities == [ModelRoles -> Capable]

Payloads ==
  [capabilities : Capabilities, userId : UserIds, reranking : Rerankings,
   connections : UNION {[S -> Secrets \cup {NoSecret}] : S \in SUBSET Providers},
   addons : SUBSET Extras, credentials : UNION {[S -> Secrets] : S \in SUBSET Channels}]

NoCapability == [provider |-> NoProvider, model |-> NoProvider]

Specs == [capabilities : Capabilities, userId : UserIds, reranking : Rerankings]

\* What is resolved of a capability is the capability and the key of its provider.
Resolutions == [ModelRoles -> [cap : Capable, key : Secrets \cup {NoSecret}]]

\* What is set up: a payload, with the review it was posted from.
Posts == [payload : Payloads, review : Forms, edited : BOOLEAN]

Disks ==
  [key : [Keyed -> Secrets \cup {NoSecret}], auth : [Providers -> Secrets \cup {NoSecret}],
   token : [Channels -> Secrets \cup {NoSecret}], spec : Specs \cup {None},
   resolved : Resolutions \cup {None}, admin : BOOLEAN, complete : BOOLEAN]

ASSUME PayloadAssumption ==
  /\ Keyed \subseteq Providers /\ NoProvider \notin Providers /\ NoSecret \notin Secrets
  /\ Recommended \subseteq Services /\ Latin # {} /\ Latin \cap Foreign = {} /\ {OddId, DefaultId, NoId} \cap (Latin \cup Foreign) = {}
  /\ OddId # DefaultId /\ NoId \notin {OddId, DefaultId}
  /\ None \notin Specs /\ None \notin Resolutions /\ None \notin Posts
  /\ MaxEdits \in Nat /\ MaxKills \in Nat

VARIABLES
  form,     \* what the pages hold
  verified,    \* the providers that are verified
  screen,     \* "form", "review", "deploy", or "away" from the wizard
  review,   \* what the review says, as it was when it was rendered
  posted,   \* the payload that is being set up, and the review it was posted from
  step,     \* what performSetup does next; "idle" when nothing is set up
  said,     \* to the page: "nothing", then "waiting" until it is "done", "refused" or "failed"
  server,   \* "open", "going" when a setup is complete, "failed" when its deployment is
  disk,     \* stack.env with the keys, tokens and capabilities; stack.yml; auth.json
  enabled,  \* the addons in stack/addons
  edits, kills,  \* bounds
  past      \* no setup was completed, the newest was "whole", or one after it was "cut" (history)

payloadVars == <<form, verified, screen, review, posted, step, said, server, disk, enabled, edits, kills, past>>

PayloadTypeOK ==
  /\ form \in Forms /\ verified \subseteq Providers /\ screen \in {"form", "review", "deploy", "away"}
  /\ review \in Forms \cup {None}
  /\ posted \in Posts \cup {None}
  /\ step \in {"idle", "check", "secrets", "system", "spec", "resolve", "complete"}
  /\ said \in {"nothing", "waiting", "done", "refused", "failed"}
  /\ server \in {"open", "going", "failed"}
  /\ disk \in Disks
  /\ enabled \subseteq Extras /\ edits \in 0..MaxEdits /\ kills \in 0..MaxKills /\ past \in {"none", "whole", "cut"}

NewForm ==
  [model |-> [r \in ModelRoles |-> NoProvider], key |-> [p \in Providers |-> NoSecret],
   owner |-> CHOOSE n \in Latin : TRUE, userId |-> NoId,
   extras |-> Recommended, token |-> [c \in Channels |-> NoSecret],
   reranking |-> "disabled"]

PayloadInit ==
  /\ form = NewForm /\ verified = {} /\ screen = "form" /\ review = None /\ posted = None
  /\ step = "idle" /\ said = "nothing" /\ server = "open"
  /\ disk = [key |-> [p \in Keyed |-> NoSecret], auth |-> [p \in Providers |-> NoSecret],
             token |-> [c \in Channels |-> NoSecret], spec |-> None, resolved |-> None, admin |-> FALSE,
             complete |-> FALSE]
  /\ enabled = {} /\ edits = 0 /\ kills = 0 /\ past = "none"

ServerSide == <<posted, step, said, server, disk, enabled, kills, past>>
CountEdit == edits < MaxEdits /\ edits' = edits + 1

-----------------------------------------------------------------------------
(* The pages.                                                               *)

\* A card: the key is kept, and with OpenCode it or an account's token is in auth.json.
\* Answers may come while another page is open, the review as well.
CardChanges(p) ==
  /\ CountEdit
  /\ \/ verified' = verified \ {p} /\ UNCHANGED <<form, disk>>
     \/ \E k \in Secrets \cup {NoSecret}, a \in Secrets \cup {NoSecret} :
          /\ verified' = verified \cup {p}
          /\ form' = [form EXCEPT !.key[p] = IF screen = "form" THEN k ELSE @]
          /\ disk' = IF a = NoSecret THEN disk ELSE [disk EXCEPT !.auth[p] = a]
  /\ UNCHANGED <<screen, review, posted, step, said, server, enabled, kills, past>>

\* buildModelOptions: a role without a model gets one; then one may be chosen.
PicksModels ==
  /\ screen = "form" /\ verified # {}
  /\ \E m \in [ModelRoles -> Providers] :
       /\ \A r \in ModelRoles : IF form.model[r] = NoProvider THEN m[r] \in verified ELSE m[r] = form.model[r]
       /\ form' = [form EXCEPT !.model = m]
  /\ form' # form
  /\ UNCHANGED <<verified, screen, review, edits, ServerSide>>

Types(f) == screen = "form" /\ CountEdit /\ form' = f /\ UNCHANGED <<verified, screen, review, ServerSide>>

ChoosesModel(r, p) == p \in verified /\ form.model[r] # NoProvider /\ Types([form EXCEPT !.model[r] = p])
NamesOwner(n) == Types([form EXCEPT !.owner = n])
NamesUser(u) == Types([form EXCEPT !.userId = u])
Toggles(e) == Types([form EXCEPT !.extras = IF e \in @ THEN @ \ {e} ELSE @ \cup {e}])
TypesToken(c, t) == c \in form.extras /\ Types([form EXCEPT !.token[c] = t])
SetsReranking(m) == Types([form EXCEPT !.reranking = m])

\* The user id that is made of a name.
Slug(n) == IF n \in Latin THEN n ELSE NoId

\* initStep4, which the way to the review leads through: a missing user id is made up.
OpensOptions ==
  /\ screen = "form" /\ form.userId = NoId /\ Slug(form.owner) # NoId
  /\ form' = [form EXCEPT !.userId = Slug(form.owner)]
  /\ UNCHANGED <<verified, screen, review, edits, ServerSide>>

\* validateStep4.
TokensGiven == \A c \in form.extras \cap Channels : form.token[c] # NoSecret

\* A review can be had when every page's form passes; it is rendered once.
OpensReview ==
  /\ screen = "form" /\ screen' = "review" /\ review' = form
  /\ verified # {} /\ form.model["llm"] # NoProvider /\ form.model["embeddings"] # NoProvider
  /\ TokensGiven
  /\ UNCHANGED <<form, verified, edits, ServerSide>>

\* The edit buttons, also while the setup is on its way.
LeavesReview ==
  /\ screen = "review" /\ screen' = "form" /\ UNCHANGED <<form, verified, review, edits, ServerSide>>

-----------------------------------------------------------------------------
(* The payload.                                                             *)

\* The capabilities of the connections: the providers of models that are ready now.
Connections(f) == {p \in verified : \E r \in ModelRoles : f.model[r] = p}

\* A bug: the small model goes by the chat model's provider.
Capability_OfChat(f, r) ==
  IF f.model[r] = NoProvider THEN NoCapability
  ELSE [provider |-> f.model["llm"], model |-> f.model[r]]

\* Chat and embedding models are looked up among the connections, the small one is not.
Capability(f, r) ==
  IF f.model[r] = NoProvider THEN NoCapability
  ELSE [provider |-> IF r = "slm" \/ f.model[r] \in Connections(f) THEN f.model[r] ELSE NoProvider,
        model |-> f.model[r]]

\* A bug: the name is taken as it is.
UserId_Name(f) == IF f.userId # NoId THEN f.userId ELSE f.owner

UserId(f) == IF f.userId # NoId THEN f.userId
             ELSE IF Slug(f.owner) # NoId THEN Slug(f.owner) ELSE DefaultId

\* buildChannelsConfig: the tokens of the enabled channels.
Credentials(f) == [c \in {d \in f.extras \cap Channels : f.token[d] # NoSecret} |-> f.token[c]]

buildPayload(f) ==
  [capabilities |-> [r \in ModelRoles |-> Capability(f, r)],
   userId |-> UserId(f), reranking |-> f.reranking,
   connections |-> [p \in Connections(f) |-> f.key[p]],
   addons |-> f.extras, credentials |-> Credentials(f)]

\* isSetupComplete, where an admin token will do for want of the mark; the server's own
\* state counts as well.
Complete == disk.complete \/ disk.admin

\* The wizard is opened, and nothing it held is kept.  It asks whether the setup is
\* complete and then leaves for a page the server does not have; an error is ignored.
Opens(complete) ==
  /\ form' = NewForm /\ verified' = {} /\ review' = None /\ said' = "nothing"
  /\ screen' = "form" \/ (complete /\ screen' = "away")

\* performSetup does not wait for anything: nobody is served between its steps.
ReloadsPage ==
  /\ step \in {"idle", "check"} /\ Opens(Complete \/ server # "open") /\ CountEdit /\ UNCHANGED <<posted, step, server, disk, enabled, kills, past>>

\* handleInstall, or Retry under a failed deployment, of which no review is rendered
\* anew.  What the server has completed it does not do again.
Installs ==
  /\ screen = "review" \/ (screen = "deploy" /\ server = "failed")
  /\ step = "idle"
  /\ IF server = "going"
     THEN screen' = "deploy" /\ said' = "done" /\ UNCHANGED <<posted, step>>
     ELSE /\ posted' = [payload |-> buildPayload(form), review |-> review, edited |-> form # review]
          /\ step' = "check" /\ said' = "waiting" /\ UNCHANGED screen
  /\ UNCHANGED <<form, verified, review, server, disk, enabled, edits, kills, past>>

DeploymentFails ==
  /\ server = "going" /\ server' = "failed" /\ step = "idle" /\ edits < MaxEdits
  /\ UNCHANGED <<form, verified, screen, review, posted, step, said, disk, enabled, edits, kills, past>>

-----------------------------------------------------------------------------
(* performSetup.                                                            *)
Payload == posted.payload

\* The page that waits is answered; one that was opened since is not.
Tells(a) == said' = IF said = "waiting" THEN a ELSE said

\* A bug: the user id that stands in for a missing one is refused as well.
Invalid_Default == Payload.userId \in {OddId, DefaultId} \/ Payload.capabilities["embeddings"].provider = NoProvider

\* validateSetupSpec: the chat model only has to be a string with something in it.
Invalid == Payload.userId = OddId \/ Payload.capabilities["embeddings"].provider = NoProvider

Rejected ==
  /\ step = "check" /\ Invalid /\ step' = "idle" /\ Tells("refused")
  /\ UNCHANGED <<form, verified, screen, review, posted, server, disk, enabled, edits, kills, past>>

Does(s, t) == step = s /\ step' = t
Continues == UNCHANGED <<form, verified, screen, review, posted, said, server, enabled, edits, kills, past>>

\* buildSecretsFromSetup and extractAuthJsonKeys: a key of the payload, then one of
\* auth.json; where there is no variable for it, a key is dropped.
Key(p) ==
  LET typed == IF p \in DOMAIN Payload.connections THEN Payload.connections[p] ELSE NoSecret IN
  IF typed # NoSecret THEN typed ELSE IF disk.auth[p] # NoSecret THEN disk.auth[p] ELSE disk.key[p]

\* ensureSecrets, which saves the admin token at once, and updateSecretsEnv: what the
\* payload does not name is kept.
SavesSecrets ==
  /\ Does("check", "system") /\ ~Invalid
  /\ disk' = [disk EXCEPT !.admin = TRUE, !.key = [p \in Keyed |-> Key(p)],
                          !.token = [c \in Channels |-> IF c \in DOMAIN Payload.credentials
                                                        THEN Payload.credentials[c] ELSE disk.token[c]]]
  /\ Continues

\* A bug: the setup is marked complete along with the tokens.
SavesTokens_Marks ==
  Does("system", "spec") /\ disk' = [disk EXCEPT !.complete = TRUE] /\ Continues

\* updateSystemSecretsEnv and writeSetupTokenFile.
SavesTokens == Does("system", "spec") /\ UNCHANGED disk /\ Continues

\* writeStackSpec.
SavesSpec ==
  /\ Does("spec", "resolve")
  /\ disk' = [disk EXCEPT !.spec = [capabilities |-> Payload.capabilities, userId |-> Payload.userId,
                                    reranking |-> Payload.reranking]]
  /\ Continues

KeyOf(p) == IF p \in Keyed THEN disk.key[p] ELSE NoSecret

\* writeCapabilityVars: every capability with its provider's key, if there can be one,
\* the user id beside them.
Resolves ==
  /\ Does("resolve", "complete")
  /\ disk' = [disk EXCEPT !.resolved =
       [r \in ModelRoles |-> [cap |-> disk.spec.capabilities[r], key |-> KeyOf(disk.spec.capabilities[r].provider)]]]
  /\ Continues

\* OP_SETUP_COMPLETE.
Completes ==
  /\ Does("complete", "idle") /\ Tells("done") /\ disk' = [disk EXCEPT !.complete = TRUE]
  /\ screen' = IF said = "waiting" THEN "deploy" ELSE screen
  /\ server' = "going" /\ past' = "whole"
  /\ UNCHANGED <<form, verified, review, posted, enabled, edits, kills>>

Running == step # "idle"

CutsShort == past' = IF past = "none" THEN "none" ELSE "cut"

\* A write fails: the page is told so and may try again.
WriteFails ==
  /\ Running /\ ~(step = "check" /\ Invalid) /\ step' = "idle" /\ Tells("failed")
  /\ CutsShort /\ kills < MaxKills /\ kills' = kills + 1
  /\ UNCHANGED <<form, verified, screen, review, posted, server, disk, enabled, edits>>

\* The process is killed, or has ended; the next installation opens a wizard of its own.
Killed ==
  /\ kills < MaxKills /\ kills' = kills + 1
  /\ IF Running THEN CutsShort ELSE UNCHANGED past
  /\ Opens(Complete) /\ posted' = None /\ step' = "idle" /\ server' = "open"
  /\ UNCHANGED <<disk, enabled, edits>>

\* openpalm addon enable; Lifecycle has the whole of it.
EnablesAddon(a) ==
  /\ step = "idle" /\ a \notin enabled /\ enabled' = enabled \cup {a} /\ CountEdit
  /\ UNCHANGED <<form, verified, screen, review, posted, step, said, server, disk, kills, past>>

-----------------------------------------------------------------------------
PayloadNext ==
  \/ \E p \in Providers : CardChanges(p) \/ \E r \in ModelRoles : ChoosesModel(r, p)
  \/ PicksModels \/ OpensOptions \/ OpensReview \/ LeavesReview \/ ReloadsPage
  \/ \E n \in Latin \cup Foreign : NamesOwner(n)
  \/ \E u \in {OddId, NoId} : NamesUser(u)
  \/ \E e \in Extras : Toggles(e) \/ EnablesAddon(e)
  \/ \E c \in Channels, t \in Secrets : TypesToken(c, t)
  \/ \E m \in Rerankings : SetsReranking(m)
  \/ Installs \/ DeploymentFails \/ Rejected \/ SavesSecrets \/ SavesTokens \/ SavesSpec
  \/ Resolves \/ Completes \/ WriteFails \/ Killed

PayloadSpec == PayloadInit /\ [][PayloadNext]_payloadVars

(***************************************************************************)
(* Properties.                                                             *)
(***************************************************************************)
\* Done means that the stack has what the review showed: every model, under
\* its own provider and with the key that was typed for it, the user, the
\* tokens and the reranking, whatever earlier setups have left on the disk
\* and whichever cards changed since the review.  But for a chat model whose
\* provider was no longer ready, which is written without a provider; keys of
\* providers that are not ready; a key typed for a provider that has no variable
\* for it, which no capability gets; a user id that was cleared; and what was
\* edited while the setup was on its way and then retried.
InstalledAsReviewed ==
  said = "done" /\ posted # None /\ ~posted.edited => LET R == posted.review IN
    /\ \A r \in ModelRoles : LET c == disk.resolved[r].cap IN
         /\ c.model = R.model[r]
         /\ c.provider = R.model[r] \/ (r = "llm" /\ c.provider = NoProvider)
         /\ c.provider \in DOMAIN Payload.connections \cap Keyed /\ R.key[c.provider] # NoSecret
              => disk.resolved[r].key = R.key[c.provider]
         /\ c.provider \notin Keyed => disk.resolved[r].key = NoSecret
    /\ disk.spec.userId = R.userId \/ R.userId = NoId
    /\ disk.spec.reranking = R.reranking
    /\ \A c \in R.extras \cap Channels : disk.token[c] = R.token[c]

\* What has passed every page is refused at the end only for a user id no page
\* has looked at, or since the embedding model's provider was no longer ready.
RefusedForCause ==
  said = "refused" => \/ posted.review.userId = OddId \/ posted.edited
                      \/ posted.review.model["embeddings"] \notin DOMAIN Payload.connections

\* Whenever the setup counts as complete and none is under way, stack.yml, the
\* capabilities and the keys are of one setup, unless one that was to be done
\* again has been cut short and none has been completed since.
CompleteIsOneSetup ==
  disk.complete /\ step = "idle" /\ past # "cut" =>
    /\ disk.spec # None /\ disk.resolved # None
    /\ \A r \in ModelRoles : /\ disk.resolved[r].cap = disk.spec.capabilities[r]
                        /\ disk.resolved[r].key = KeyOf(disk.spec.capabilities[r].provider)

\* The states are well-typed, and what the setup says of itself is so.
PayloadHolds == PayloadTypeOK /\ InstalledAsReviewed /\ RefusedForCause
=============================================================================
