--------------------------- MODULE ChannelSecrets ---------------------------
(***************************************************************************)
(* The guardian's secrets file and the cache in front of it.  The file is  *)
(* written by another process (truncated, then filled), read without       *)
(* blocking, and cached by modification time and age.  Content stands for  *)
(* what parseChannelSecrets makes of the file for one channel.             *)
(***************************************************************************)
EXTENDS Clock

CONSTANTS
  Requests,
  Secrets,              \* the secrets the channel may be given
  NoSecret,             \* the channel has none: absent, file empty or gone
  Pending,              \* loadChannelSecrets has not returned
  SECRETS_CACHE_TTL_MS, \* 30 000 ms unless configured, never below 5 000
  MaxWrites             \* bound on the writes of the file

ASSUME SecretsAssumption ==
  /\ {SECRETS_CACHE_TTL_MS, MaxTime, MaxWrites} \subseteq Nat
  /\ NoSecret \notin Secrets
  /\ Pending \notin Secrets \cup {NoSecret}

VARIABLES
  file,         \* [content, mtime, readable, writing, writes]
  secretsCache, \* the set of the cached entry [mtime, loadedAt, secrets], or {}
  loading,      \* the loads under way: request |-> [mtime, content]
  returned,     \* what loadChannelSecrets returned to each request
  asked,        \* the requests that called it (history)
  current,      \* what the file held since each request asked (history)
  ambiguous     \* the stamps a load took between two changes that bear them (history)

fileVars == <<file, ambiguous>>
loadVars == <<secretsCache, loading, returned, asked>>
secretsVars == <<now, fileVars, loadVars, current>>

Content == Secrets \cup {NoSecret}
NoStamp == -1          \* Bun's stamp of a missing file is a constant
Stamps == Times \cup {NoStamp}
Entries == [mtime : Stamps, loadedAt : Times, secrets : Content]

SecretsTypeOK ==
  /\ now \in Times
  /\ file \in [content : Content, mtime : Stamps, readable : BOOLEAN, writing : BOOLEAN,
               writes : 0..MaxWrites]
  /\ secretsCache \in {{}} \cup {{e} : e \in Entries}
  /\ loading \in [Requests -> [mtime : Stamps, content : Content \cup {Pending}]]
  /\ returned \in [Requests -> Content \cup {Pending}]
  /\ asked \subseteq Requests
  /\ current \in [Requests -> SUBSET Content]
  /\ ambiguous \subseteq Stamps

SecretsInit ==
  /\ now = 0
  /\ \E s \in Content :
       file = [content |-> s, mtime |-> 0, readable |-> TRUE, writing |-> FALSE, writes |-> 0]
  /\ secretsCache = {}
  /\ loading = [r \in Requests |-> [mtime |-> 0, content |-> Pending]]
  /\ returned = [r \in Requests |-> Pending]
  /\ asked = {}
  /\ current = [r \in Requests |-> {}]
  /\ ambiguous = {}

-----------------------------------------------------------------------------
(* loadChannelSecrets.                                                     *)

\* A bug: the time stamp is taken when the read is over.
Stamp_AtTheEnd(r) == file.mtime

Hit(e) == e.mtime = file.mtime /\ now - e.loadedAt < SECRETS_CACHE_TTL_MS

Waiting(r) == r \in asked /\ returned[r] = Pending

\* A cached answer, or the start of a read with the stamp seen before it.
Load(r) ==
  /\ r \notin asked
  /\ asked' = asked \cup {r}
  /\ \/ \E e \in secretsCache :
          /\ Hit(e)
          /\ returned' = [returned EXCEPT ![r] = e.secrets]
          /\ UNCHANGED loading
     \/ /\ \A e \in secretsCache : ~Hit(e)
        /\ loading' = [loading EXCEPT ![r] = [mtime |-> file.mtime, content |-> Pending]]
        /\ UNCHANGED returned
  /\ current' = [current EXCEPT ![r] = {file.content}]
  /\ UNCHANGED <<now, fileVars, secretsCache>>

\* The operating system serves the read.
Read(r) ==
  /\ Waiting(r) /\ loading[r].content = Pending /\ file.readable
  /\ loading' = [loading EXCEPT ![r] = [mtime |-> @.mtime, content |-> file.content]]
  /\ UNCHANGED <<now, fileVars, secretsCache, returned, asked, current>>

Stamp(r) == loading[r].mtime

\* The read resolves: parse, cache, return.
Loaded(r) ==
  /\ Waiting(r) /\ loading[r].content # Pending
  /\ secretsCache' = {[mtime |-> Stamp(r), loadedAt |-> now, secrets |-> loading[r].content]}
  /\ returned' = [returned EXCEPT ![r] = loading[r].content]
  /\ UNCHANGED <<now, fileVars, loading, asked, current>>

\* The read fails: no secrets for this request, the cache stays.
Unreadable(r) ==
  /\ Waiting(r) /\ loading[r].content = Pending /\ ~file.readable
  /\ returned' = [returned EXCEPT ![r] = NoSecret]
  /\ UNCHANGED <<now, fileVars, secretsCache, loading, asked, current>>

-----------------------------------------------------------------------------
(* The writer, and time.                                                   *)

\* The stamps of loads under way or cached.
Taken == {e.mtime : e \in secretsCache} \cup {loading[r].mtime : r \in {x \in Requests : Waiting(x)}}

\* The file becomes f: whoever waits for a load may see it.
Becomes(f) ==
  /\ file' = f
  /\ ambiguous' = ambiguous \cup ({f.mtime} \cap Taken)
  /\ current' = [r \in Requests |-> IF Waiting(r) THEN current[r] \cup {f.content} ELSE current[r]]
  /\ UNCHANGED <<now, loadVars>>

\* writeFileSync truncates the file, and then fills it.
Truncate ==
  /\ ~file.writing /\ file.writes < MaxWrites
  /\ Becomes([file EXCEPT !.content = NoSecret, !.mtime = now, !.readable = TRUE,
                          !.writing = TRUE, !.writes = @ + 1])

Fill ==
  /\ file.writing
  /\ \E s \in Content : Becomes([file EXCEPT !.content = s, !.mtime = now, !.writing = FALSE])

\* The file is removed.
Withdraw ==
  /\ ~file.writing /\ file.readable /\ file.writes < MaxWrites
  /\ Becomes([file EXCEPT !.content = NoSecret, !.mtime = NoStamp, !.readable = FALSE, !.writes = @ + 1])

SecretsTick ==
  /\ Advance
  /\ UNCHANGED <<fileVars, loadVars, current>>

SecretsNext ==
  \/ \E r \in Requests : Load(r) \/ Read(r) \/ Loaded(r) \/ Unreadable(r)
  \/ Truncate \/ Fill \/ Withdraw
  \/ SecretsTick

SecretsSpec == SecretsInit /\ [][SecretsNext]_secretsVars

(***************************************************************************)
(* Properties.                                                             *)
(***************************************************************************)
\* "mtime-based hot-reload": the cache never holds, under the stamp the file
\* has now, anything but what the file holds now.  A slow read never passes for
\* a later write, unless a load took its stamp between two changes of one
\* instant.
CacheMatchesStamp ==
  \A e \in secretsCache :
    e.mtime = file.mtime /\ file.mtime \notin ambiguous => e.secrets = file.content
=============================================================================
