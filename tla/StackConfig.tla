----------------------------- MODULE StackConfig ----------------------------
(***************************************************************************)
(* What the stack is to use, in three files: stack.yml says which provider,*)
(* stack.env holds the keys, the tokens, what the capabilities were        *)
(* resolved to and whether the setup is complete, and the index names the  *)
(* custom secrets in it.  They are written by the setup, by the routes of  *)
(* the admin and by every reconciliation, in processes that share no lock: *)
(* a process writes one file after the other, what others write comes in   *)
(* between, and any write may fail, or its process be killed in it, with   *)
(* the file truncated already.  A writer reads a file anew just before it  *)
(* writes it; the two are taken as one step.  All capabilities are         *)
(* resolved alike, so one stands for them, and the key of its provider for *)
(* key and base URL.                                                       *)
(***************************************************************************)
EXTENDS Naturals, Sequences

CONSTANTS
  Writers,      \* the processes
  Providers,
  Keyed,        \* those that have a variable for their key in stack.env,
  OpenAI,       \* one of which also takes the keys of the others
  MaxCalls,     \* bound: operations begun; the n-th brings the key and the token n
  MaxMishaps,   \* bound: writes that fail
  MaxNotes      \* bound: keys the user comments out

ASSUME StackConfigAssumption ==
  /\ {MaxCalls, MaxMishaps, MaxNotes} \subseteq Nat /\ "none" \notin Providers
  /\ OpenAI \in Keyed /\ Keyed \subseteq Providers

VARIABLES
  stackYml,     \* the provider of the capability, "none" if there is no file that can be read
  keyLines,     \* per key's variable, named by its provider, the lines of stack.env
  tokens,       \* the admin's and the assistant's
  resolved,     \* OP_CAP_*: the provider and the key
  setupMark,    \* OP_SETUP_COMPLETE
  indexed,      \* whether the custom secret is in the index
  stored,       \* whether its variable has a value
  todo,         \* per process, the writes its operation has still to make
  job,          \* and what it makes them of
  calls, mishaps, notes,
  saved,        \* per variable the key last saved in it (history)
  noted,        \* the variables the user has commented out (history)
  overlapped,          \* the processes whose operation overlapped another (history)
  astray,       \* why the resolved capability may not be the configured one (history)
  torn          \* the files that were truncated, and "entry" once a removal that overlapped
                \* another operation has left no index entry (history)

envFile == <<keyLines, tokens, resolved, setupMark, stored>>
configHistory == <<saved, noted, overlapped, astray, torn>>
configVars == <<stackYml, envFile, indexed, todo, job, calls, mishaps, notes, configHistory>>

Unset == "none"
Old == MaxCalls + 1         \* the key and the tokens there were at the start
Numbers == 0..Old           \* of keys and tokens; 0 is none
Steps == {"ensure", "keys", "tokens", "yml", "caps", "mark", "patch", "systemEnv",
          "token", "index", "custom", "blank", "unindex"}
FileOf(step) == CASE step = "yml" -> "yml"
                  [] step \in {"index", "unindex"} -> "index"
                  [] OTHER -> "env"
NoTokens == [admin |-> 0, assistant |-> 0]
NoJob == [provider |-> Unset, number |-> 0, assistant |-> 0]
AtRest == \A w \in Writers : todo[w] = <<>>

ConfigTypeOK ==
  /\ stackYml \in Providers \cup {Unset}
  /\ keyLines \in [Keyed -> Seq([live : BOOLEAN, key : Numbers])]
  /\ tokens \in [admin : Numbers, assistant : Numbers]
  /\ resolved \in [provider : Providers \cup {Unset}, key : Numbers]
  /\ setupMark \in {"absent", "false", "true"} /\ indexed \in BOOLEAN /\ stored \in BOOLEAN
  /\ todo \in [Writers -> Seq(Steps)]
  /\ job \in [Writers -> [provider : Providers \cup {Unset}, number : Numbers, assistant : Numbers]]
  /\ calls \in Numbers /\ mishaps \in 0..MaxMishaps /\ notes \in 0..MaxNotes
  /\ saved \in [Keyed -> Numbers] /\ noted \subseteq Keyed /\ overlapped \subseteq Writers
  /\ astray \subseteq {"failed", "overlapped", "key saved alone"} /\ torn \subseteq {"yml", "env", "index", "entry"}

-----------------------------------------------------------------------------
(* mergeEnvContent, for the lines about one variable, and what dotenv reads. *)

\* The first line that has the variable takes the value, with `uncomment` also
\* one that is commented out; else a line is appended.
Merged(lines, key, uncomment) ==
  LET hits == {i \in DOMAIN lines : lines[i].live \/ uncomment} IN
  IF hits = {} THEN Append(lines, [live |-> TRUE, key |-> key])
  ELSE [lines EXCEPT ![CHOOSE i \in hits : \A j \in hits : i <= j] = [live |-> TRUE, key |-> key]]

\* Of several lines the last one counts.
KeyIn(lines) ==
  LET live == {i \in DOMAIN lines : lines[i].live} IN
  IF live = {} THEN 0 ELSE lines[CHOOSE i \in live : \A j \in live : j <= i].key

\* What writeCapabilityVars makes of a specification: without a variable, no key.
Resolve(p) == [provider |-> p, key |-> IF p \in Keyed THEN KeyIn(keyLines[p]) ELSE 0]

isSetupComplete == IF setupMark = "absent" THEN tokens.admin # 0 ELSE setupMark = "true"

-----------------------------------------------------------------------------
(* Fresh from ensureStackEnv, or with a setup that has worked.               *)

ConfigInit ==
  /\ stackYml \in Providers \cup {Unset}
  /\ keyLines = [p \in Keyed |-> IF p = stackYml THEN <<[live |-> TRUE, key |-> Old]>> ELSE <<>>]
  /\ saved = [p \in Keyed |-> IF p = stackYml THEN Old ELSE 0]
  /\ resolved = Resolve(stackYml)
  /\ IF stackYml = Unset THEN tokens = NoTokens /\ setupMark = "absent"
     ELSE tokens = [admin |-> Old, assistant |-> Old] /\ setupMark = "true"
  /\ indexed = FALSE /\ stored = FALSE
  /\ todo = [w \in Writers |-> <<>>] /\ job = [w \in Writers |-> NoJob]
  /\ calls = 0 /\ mishaps = 0 /\ notes = 0
  /\ noted = {} /\ overlapped = {} /\ astray = {} /\ torn = {}

-----------------------------------------------------------------------------
(* The operations: the writes each has to make, in their order.              *)

\* createState has made the tokens before performSetup writes what it was given.
performSetup == <<"ensure", "keys", "tokens", "yml", "caps", "mark">>

\* A bug: what is resolved is resolved with the key there was.
SaveCapabilities_ResolvesFirst == <<"yml", "caps", "patch">>

\* POST /admin/capabilities, with a key.
SaveCapabilities == <<"patch", "yml", "caps">>

\* POST /admin/capabilities/assignments, POST /admin/opencode/model.
AssignCapabilities == <<"yml", "caps">>

writeRuntimeFiles == <<"systemEnv", "caps">>

\* An API key that is put into the secrets or, by /admin/opencode, patched in.
KeyAlone == {<<"keys">>, <<"patch">>}

\* PlaintextBackend.write and remove, of a custom secret and of the assistant's token.
WriteSecret == <<"index", "custom">>
RemoveSecret == <<"index", "blank", "unindex">>
WriteToken == <<"token">>

Calls(w, steps, p, n) ==
  /\ todo[w] = <<>> /\ calls < MaxCalls
  /\ calls' = calls + 1
  /\ todo' = [todo EXCEPT ![w] = steps]
  /\ job' = [job EXCEPT ![w] = [provider |-> p, number |-> n, assistant |-> 0]]
  /\ overlapped' = LET others == {v \in Writers \ {w} : todo[v] # <<>>}
            IN IF others = {} THEN overlapped \ {w} ELSE overlapped \cup others \cup {w}
  /\ astray' = IF steps \in KeyAlone THEN astray \cup {"key saved alone"} ELSE astray
  /\ UNCHANGED <<stackYml, envFile, indexed, mishaps, notes, saved, noted, torn>>

\* A removal writes an empty value.
Call(w) ==
  \/ \E p \in Providers :
       \/ \E steps \in {performSetup, SaveCapabilities} : Calls(w, steps, p, calls + 1)
       \/ stackYml # Unset /\ Calls(w, AssignCapabilities, p, 0)
  \/ \E p \in Keyed, steps \in KeyAlone, n \in {0, calls + 1} : Calls(w, steps, p, n)
  \/ \E steps \in {writeRuntimeFiles, WriteSecret, RemoveSecret} : Calls(w, steps, Unset, 0)
  \/ \E n \in {0, calls + 1} : Calls(w, WriteToken, Unset, n)

-----------------------------------------------------------------------------
(* The writes.                                                               *)

Done(w, step) == todo[w] # <<>> /\ Head(todo[w]) = step /\ todo' = [todo EXCEPT ![w] = Tail(@)]

\* ensureSystemSecrets: what is missing is made; performSetup then takes what is there.
EnsureSecrets(w) ==
  LET n == job[w].number IN
  /\ Done(w, "ensure")
  /\ tokens' = [admin |-> IF tokens.admin = 0 THEN n ELSE tokens.admin,
                assistant |-> IF tokens.assistant = 0 THEN n ELSE tokens.assistant]
  /\ job' = [job EXCEPT ![w].assistant = tokens'.assistant]
  /\ UNCHANGED <<stackYml, keyLines, resolved, setupMark, indexed, stored, calls, mishaps, notes, configHistory>>

\* The variable a key is saved in: that of its provider, or else OpenAI's.
Variable(p) == IF p \in Keyed THEN p ELSE OpenAI

\* updateSecretsEnv takes a commented line for the variable, patchSecretsEnvFile does not.
\* The setup drops a key that has no variable, POST /admin/capabilities does not.
SaveKey(w, step) ==
  LET p == job[w].provider IN
  /\ step \in {"keys", "patch"} /\ Done(w, step)
  /\ IF p \in Keyed \/ step = "patch"
     THEN /\ keyLines' = [keyLines EXCEPT ![Variable(p)] = Merged(@, job[w].number, step = "keys")]
          /\ saved' = [saved EXCEPT ![Variable(p)] = job[w].number]
     ELSE UNCHANGED <<keyLines, saved>>
  /\ UNCHANGED <<stackYml, tokens, resolved, setupMark, indexed, stored, job, calls, mishaps, notes, noted, overlapped, astray, torn>>

\* buildSystemSecretsFromSetup keeps the token it has seen.
AssistantToken(w) == job[w].assistant

UpdateTokens(w) ==
  /\ Done(w, "tokens")
  /\ tokens' = [admin |-> job[w].number, assistant |-> AssistantToken(w)]
  /\ UNCHANGED <<stackYml, keyLines, resolved, setupMark, indexed, stored, job, calls, mishaps, notes, configHistory>>

TokenWritten(w) ==
  /\ Done(w, "token")
  /\ tokens' = [tokens EXCEPT !.assistant = job[w].number]
  /\ UNCHANGED <<stackYml, keyLines, resolved, setupMark, indexed, stored, job, calls, mishaps, notes, configHistory>>

\* writeStackSpec; updateAndPersistCapabilities throws where there is nothing to update.
WriteStackSpec(w) ==
  /\ IF stackYml = Unset /\ todo[w] = AssignCapabilities
     THEN /\ todo' = [todo EXCEPT ![w] = <<>>] /\ UNCHANGED stackYml
          /\ astray' = astray \cup {"failed"}
     ELSE /\ Done(w, "yml") /\ stackYml' = job[w].provider /\ UNCHANGED astray
  /\ UNCHANGED <<envFile, indexed, job, calls, mishaps, notes, saved, noted, overlapped, torn>>

\* writeCapabilityVars: of the specification it was given or, in writeRuntimeFiles,
\* of the one there is.
WriteCapabilityVars(w) ==
  LET p == IF job[w].provider = Unset THEN stackYml ELSE job[w].provider IN
  /\ Done(w, "caps")
  /\ IF p = Unset THEN UNCHANGED <<resolved, astray>>
     ELSE /\ resolved' = Resolve(p)
          /\ astray' = IF w \in overlapped THEN {"overlapped"} ELSE {}
  /\ UNCHANGED <<stackYml, keyLines, tokens, setupMark, indexed, stored, job, calls, mishaps, notes, saved, noted, overlapped, torn>>

MarkSetup(w) ==
  /\ \/ Done(w, "mark") /\ setupMark' = "true"
     \/ Done(w, "systemEnv") /\ setupMark' = IF setupMark = "true" THEN "true" ELSE "false"
  /\ UNCHANGED <<stackYml, keyLines, tokens, resolved, indexed, stored, job, calls, mishaps, notes, configHistory>>

\* ensurePlaintextSecretEntry, removePlaintextSecretEntry, and the variable itself.
CustomSecret(w) ==
  /\ \/ Done(w, "index") /\ indexed' = TRUE /\ torn' = torn \ {"entry"} /\ UNCHANGED stored
     \/ /\ Done(w, "unindex") /\ indexed' = FALSE /\ UNCHANGED stored
        /\ torn' = IF w \in overlapped THEN torn \cup {"entry"} ELSE torn
     \/ Done(w, "custom") /\ stored' = TRUE /\ UNCHANGED <<indexed, torn>>
     \/ Done(w, "blank") /\ stored' = FALSE /\ UNCHANGED <<indexed, torn>>
  /\ UNCHANGED <<stackYml, keyLines, tokens, resolved, setupMark, job, calls, mishaps, notes, saved, noted, overlapped, astray>>

\* A write fails, or its process is killed in it: the file is as it was, or empty.
Mishap(w) ==
  /\ todo[w] # <<>> /\ mishaps < MaxMishaps
  /\ mishaps' = mishaps + 1
  /\ todo' = [todo EXCEPT ![w] = <<>>]
  /\ astray' = astray \cup {"failed"}
  /\ \/ UNCHANGED <<stackYml, envFile, indexed, torn>>
     \/ /\ torn' = torn \cup {FileOf(Head(todo[w]))}
        /\ CASE FileOf(Head(todo[w])) = "yml" -> stackYml' = Unset /\ UNCHANGED <<envFile, indexed>>
             [] FileOf(Head(todo[w])) = "index" -> indexed' = FALSE /\ UNCHANGED <<stackYml, envFile>>
             [] OTHER -> /\ keyLines' = [p \in Keyed |-> <<>>]
                         /\ tokens' = NoTokens /\ resolved' = [provider |-> Unset, key |-> 0]
                         /\ setupMark' = "absent" /\ stored' = FALSE
                         /\ UNCHANGED <<stackYml, indexed>>
  /\ UNCHANGED <<job, calls, notes, saved, noted, overlapped>>

\* The user puts a new key under the old one, which stays as a comment.
Note(p) ==
  /\ notes < MaxNotes /\ calls < MaxCalls /\ KeyIn(keyLines[p]) # 0
  /\ notes' = notes + 1 /\ calls' = calls + 1
  /\ keyLines' = [keyLines EXCEPT ![p] =
       Append([i \in DOMAIN @ |-> [@[i] EXCEPT !.live = FALSE]], [live |-> TRUE, key |-> calls + 1])]
  /\ saved' = [saved EXCEPT ![p] = calls + 1] /\ noted' = noted \cup {p}
  /\ astray' = astray \cup {"key saved alone"}
  /\ UNCHANGED <<stackYml, tokens, resolved, setupMark, indexed, stored, todo, job, mishaps, overlapped, torn>>

ConfigNext ==
  \/ \E w \in Writers :
       \/ Call(w) \/ EnsureSecrets(w) \/ SaveKey(w, "keys") \/ SaveKey(w, "patch")
       \/ UpdateTokens(w) \/ TokenWritten(w) \/ WriteStackSpec(w) \/ WriteCapabilityVars(w)
       \/ MarkSetup(w) \/ CustomSecret(w) \/ Mishap(w)
  \/ \E p \in Keyed : Note(p)

ConfigSpec == ConfigInit /\ [][ConfigNext]_configVars

(***************************************************************************)
(* Properties.                                                             *)
(***************************************************************************)
\* The services are given what is configured: between operations the resolved
\* capability is that of stack.yml with the key there is, unless since it was last
\* resolved an operation failed, two overlapped, or a key was saved on its own.
CapabilitiesAgree == AtRest /\ astray = {} => resolved = Resolve(stackYml)

\* A setup that counts as complete has left a specification; without the mark an
\* admin's token counts as one, which a setup that failed has left too.
CompleteIsConfigured ==
  AtRest /\ isSetupComplete => \/ stackYml # Unset \/ "yml" \in torn
                               \/ setupMark = "absent" /\ mishaps > 0

\* A custom secret that has a value can be listed and removed, at any time, unless the
\* index was truncated or a removal overlapped another operation.
StoredIsIndexed == stored => indexed \/ torn \cap {"index", "entry"} # {}

\* The key that counts is the one last saved in its variable, unless the user keeps an
\* old one as a comment: above the key in use it takes what is saved next.
SavedKeyCounts == \A p \in Keyed : KeyIn(keyLines[p]) = saved[p] \/ p \in noted \/ "env" \in torn

\* The token the assistant runs with is never exchanged for another unless that is
\* asked for, or by a setup that overlapped another operation.
TokenStays ==
  \/ tokens.assistant = 0 \/ tokens'.assistant \in {tokens.assistant, 0}
  \/ \E w \in Writers : TokenWritten(w) \/ (w \in overlapped /\ UpdateTokens(w))

\* A setup that was completed stays so: neither a reconciliation nor a setup that is
\* repeated and fails sends the user through the wizard again.
MarkStays == setupMark = "true" => setupMark' = "true" \/ "env" \in torn'

\* The files that belong together stay together, and are well-typed.
ConfigurationHolds ==
  [][/\ ConfigTypeOK' /\ CapabilitiesAgree' /\ CompleteIsConfigured' /\ StoredIsIndexed'
     /\ SavedKeyCounts' /\ TokenStays /\ MarkStays]_configVars
=============================================================================
