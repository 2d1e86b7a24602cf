----------------------- MODULE GuardianInbound_proofs -----------------------
(***************************************************************************)
(* What the guardian promises of a message, for any number of requests,    *)
(* writes of the secrets file, kills and ticks: no message passes on a     *)
(* secret that had left the file before its request came; none passes      *)
(* twice, but for a flood; and every answer is counted once, and logged    *)
(* once unless the log failed it or the guardian was killed.               *)
(***************************************************************************)
EXTENDS GuardianInbound, FiniteSetTheorems, TLAPS

(***************************************************************************)
(* The cache in front of the file.                                         *)
(***************************************************************************)
\* A read that was served under the stamp the file has holds what the file holds;
\* CacheMatchesStamp is not kept without it, since reads become cache entries.
ReadsMatchStamp ==
  \A r \in Requests :
    /\ Waiting(r) /\ loading[r].content # Pending
    /\ loading[r].mtime = file.mtime /\ file.mtime \notin ambiguous
    => loading[r].content = file.content

\* While a request waits, what the file holds, and what was read for it, is noted.
WaitingSees ==
  \A r \in Requests : Waiting(r) =>
    /\ file.content \in current[r]
    /\ loading[r].content \in current[r] \cup {Pending}

\* What was returned was in the file, or is nothing, unless stamps were ambiguous.
ReturnedWasSeen ==
  ambiguous = {} => \A r \in asked : returned[r] \in current[r] \cup {NoSecret, Pending}

NothingUnasked == \A r \in Requests \ asked : returned[r] = Pending

SecretsInv ==
  SecretsTypeOK /\ CacheMatchesStamp /\ ReadsMatchStamp /\ WaitingSees /\ ReturnedWasSeen /\ NothingUnasked

\* A new content under a stamp that was taken makes the stamp ambiguous, so that
\* nothing is promised of it; under any other stamp nothing was cached or read.
LEMMA BecomesKeeps ==
  ASSUME SecretsInv, NEW f, Becomes(f),
         f \in [content : Content, mtime : Stamps, readable : BOOLEAN, writing : BOOLEAN, writes : 0..MaxWrites]
  PROVE  SecretsInv'
<1>0. SecretsTypeOK /\ CacheMatchesStamp /\ ReadsMatchStamp /\ WaitingSees /\ ReturnedWasSeen /\ NothingUnasked
  BY DEF SecretsInv
<1>1. /\ file' = f /\ ambiguous' = ambiguous \cup ({f.mtime} \cap Taken)
      /\ current' = [r \in Requests |-> IF Waiting(r) THEN current[r] \cup {f.content} ELSE current[r]]
      /\ now' = now /\ secretsCache' = secretsCache /\ loading' = loading /\ returned' = returned /\ asked' = asked
  BY DEF Becomes, loadVars
<1>2. SecretsTypeOK'
  BY <1>0, <1>1 DEF SecretsTypeOK
<1>3. CacheMatchesStamp'
  BY <1>0, <1>1 DEF CacheMatchesStamp, Taken
<1>4. ReadsMatchStamp'
  BY <1>0, <1>1 DEF ReadsMatchStamp, Taken, Waiting
<1>5. WaitingSees'
  BY <1>0, <1>1 DEF WaitingSees, Waiting
<1>6. ReturnedWasSeen' /\ NothingUnasked'
  BY <1>0, <1>1 DEF ReturnedWasSeen, NothingUnasked, SecretsTypeOK
<1> QED BY <1>2, <1>3, <1>4, <1>5, <1>6 DEF SecretsInv

\* The writer of the file, and time.
LEMMA WriterKeeps ==
  ASSUME SecretsInv, Truncate \/ Fill \/ Withdraw \/ SecretsTick
  PROVE  SecretsInv'
<1>0. SecretsTypeOK /\ CacheMatchesStamp /\ ReadsMatchStamp /\ WaitingSees /\ ReturnedWasSeen /\ NothingUnasked
  BY DEF SecretsInv
<1>1. now \in Stamps /\ NoStamp \in Stamps /\ NoSecret \in Content /\ MaxWrites \in Nat
  BY <1>0, SecretsAssumption DEF SecretsTypeOK, Stamps, Content
<1>2. file \in [content : Content, mtime : Stamps, readable : BOOLEAN, writing : BOOLEAN, writes : 0..MaxWrites]
  BY <1>0 DEF SecretsTypeOK
<1>3. CASE Truncate
  <2> DEFINE f == [file EXCEPT !.content = NoSecret, !.mtime = now, !.readable = TRUE, !.writing = TRUE, !.writes = @ + 1]
  <2>1. Becomes(f) /\ file.writes < MaxWrites
    BY <1>3 DEF Truncate
  <2>2. f \in [content : Content, mtime : Stamps, readable : BOOLEAN, writing : BOOLEAN, writes : 0..MaxWrites]
    <3>1. file.writes + 1 \in 0..MaxWrites
      BY <1>1, <1>2, <2>1
    <3> QED BY <1>1, <1>2, <3>1
  <2> HIDE DEF f
  <2> QED BY <2>1, <2>2, BecomesKeeps
<1>4. CASE Fill
  <2>1. PICK s \in Content : Becomes([file EXCEPT !.content = s, !.mtime = now, !.writing = FALSE])
    BY <1>4 DEF Fill
  <2> DEFINE f == [file EXCEPT !.content = s, !.mtime = now, !.writing = FALSE]
  <2>2. f \in [content : Content, mtime : Stamps, readable : BOOLEAN, writing : BOOLEAN, writes : 0..MaxWrites]
    BY <1>1, <1>2
  <2>3. Becomes(f)
    BY <2>1
  <2> HIDE DEF f
  <2> QED BY <2>2, <2>3, BecomesKeeps
<1>5. CASE Withdraw
  <2> DEFINE f == [file EXCEPT !.content = NoSecret, !.mtime = NoStamp, !.readable = FALSE, !.writes = @ + 1]
  <2>1. Becomes(f) /\ file.writes < MaxWrites
    BY <1>5 DEF Withdraw
  <2>2. f \in [content : Content, mtime : Stamps, readable : BOOLEAN, writing : BOOLEAN, writes : 0..MaxWrites]
    <3>1. file.writes + 1 \in 0..MaxWrites
      BY <1>1, <1>2, <2>1
    <3> QED BY <1>1, <1>2, <3>1
  <2> HIDE DEF f
  <2> QED BY <2>1, <2>2, BecomesKeeps
<1>6. CASE SecretsTick
  <2>1. now' \in Times /\ UNCHANGED <<file, ambiguous, secretsCache, loading, returned, asked, current>>
    BY <1>0, <1>6, SecretsAssumption DEF SecretsTick, Advance, SecretsTypeOK, Times, fileVars, loadVars
  <2>2. SecretsTypeOK'
    BY <1>0, <2>1 DEF SecretsTypeOK
  <2>3. CacheMatchesStamp' /\ ReadsMatchStamp' /\ WaitingSees' /\ ReturnedWasSeen' /\ NothingUnasked'
    BY <1>0, <2>1 DEF CacheMatchesStamp, ReadsMatchStamp, WaitingSees, ReturnedWasSeen, NothingUnasked, Waiting
  <2> QED BY <2>2, <2>3 DEF SecretsInv
<1> QED BY <1>3, <1>4, <1>5, <1>6

\* loadChannelSecrets, from its call to its return.
LEMMA LoadKeeps ==
  ASSUME SecretsInv, NEW r \in Requests, Load(r) \/ Read(r) \/ Loaded(r) \/ Unreadable(r)
  PROVE  SecretsInv'
<1>0. SecretsTypeOK /\ CacheMatchesStamp /\ ReadsMatchStamp /\ WaitingSees /\ ReturnedWasSeen /\ NothingUnasked
  BY DEF SecretsInv
<1>t. /\ now \in Times /\ file.content \in Content /\ file.mtime \in Stamps
      /\ loading \in [Requests -> [mtime : Stamps, content : Content \cup {Pending}]]
      /\ returned \in [Requests -> Content \cup {Pending}] /\ asked \subseteq Requests
      /\ current \in [Requests -> SUBSET Content] /\ ambiguous \subseteq Stamps
      /\ secretsCache \in {{}} \cup {{e} : e \in Entries}
      /\ Pending \notin Content /\ NoSecret \in Content
  BY <1>0, SecretsAssumption DEF SecretsTypeOK, Content
<1>1. CASE Load(r)
  <2>1. /\ r \notin asked /\ asked' = asked \cup {r} /\ current' = [current EXCEPT ![r] = {file.content}]
        /\ UNCHANGED <<now, file, ambiguous, secretsCache>>
    BY <1>1 DEF Load, fileVars
  <2>2. \/ /\ \E e \in secretsCache : e.mtime = file.mtime /\ returned' = [returned EXCEPT ![r] = e.secrets]
           /\ loading' = loading
        \/ /\ loading' = [loading EXCEPT ![r] = [mtime |-> file.mtime, content |-> Pending]]
           /\ returned' = returned
    BY <1>1 DEF Load, Hit
  <2>3. /\ loading' \in [Requests -> [mtime : Stamps, content : Content \cup {Pending}]]
        /\ returned' \in [Requests -> Content \cup {Pending}]
    <3>1. CASE \E e \in secretsCache : e.mtime = file.mtime /\ returned' = [returned EXCEPT ![r] = e.secrets] /\ loading' = loading
      <4>1. PICK e \in secretsCache : returned' = [returned EXCEPT ![r] = e.secrets]
        BY <3>1
      <4>2. e.secrets \in Content
        BY <1>t DEF Entries
      <4> QED BY <1>t, <3>1, <4>1, <4>2
    <3>2. CASE loading' = [loading EXCEPT ![r] = [mtime |-> file.mtime, content |-> Pending]] /\ returned' = returned
      BY <1>t, <3>2
    <3> QED BY <2>2, <3>1, <3>2
  <2>4. \A q \in Requests \ {r} : (Waiting(q)' <=> Waiting(q)) /\ loading'[q] = loading[q] /\ returned'[q] = returned[q] /\ current'[q] = current[q]
    BY <1>t, <2>1, <2>2 DEF Waiting
  <2>5. Waiting(r)' => loading'[r].content = Pending /\ current'[r] = {file.content}
    <3>1. CASE \E e \in secretsCache : e.mtime = file.mtime /\ returned' = [returned EXCEPT ![r] = e.secrets] /\ loading' = loading
      <4>1. PICK e \in secretsCache : returned' = [returned EXCEPT ![r] = e.secrets]
        BY <3>1
      <4>2. e.secrets \in Content
        BY <1>t DEF Entries
      <4> QED BY <1>t, <4>1, <4>2 DEF Waiting
    <3>2. CASE loading' = [loading EXCEPT ![r] = [mtime |-> file.mtime, content |-> Pending]] /\ returned' = returned
      BY <1>t, <2>1, <3>2
    <3> QED BY <2>2, <3>1, <3>2
  <2>6. SecretsTypeOK'
    BY <1>0, <1>t, <2>1, <2>3 DEF SecretsTypeOK
  <2>7. CacheMatchesStamp'
    BY <1>0, <2>1 DEF CacheMatchesStamp
  <2>8. ReadsMatchStamp'
    BY <1>0, <2>1, <2>4, <2>5 DEF ReadsMatchStamp
  <2>9. WaitingSees'
    BY <1>0, <2>1, <2>4, <2>5 DEF WaitingSees
  <2>10. ReturnedWasSeen'
    <3> SUFFICES ASSUME ambiguous = {}, NEW q \in asked'
                 PROVE  returned'[q] \in current'[q] \cup {NoSecret, Pending}
      BY <2>1 DEF ReturnedWasSeen
    <3>1. CASE q # r
      BY <1>0, <1>t, <2>1, <2>4, <3>1 DEF ReturnedWasSeen
    <3>2. CASE q = r
      BY <1>0, <1>t, <2>1, <2>2, <3>2 DEF CacheMatchesStamp, NothingUnasked
    <3> QED BY <3>1, <3>2
  <2>11. NothingUnasked'
    BY <1>0, <2>1, <2>4 DEF NothingUnasked
  <2> QED BY <2>6, <2>7, <2>8, <2>9, <2>10, <2>11 DEF SecretsInv
<1>2. CASE Read(r)
  <2>1. /\ Waiting(r) /\ loading' = [loading EXCEPT ![r] = [mtime |-> loading[r].mtime, content |-> file.content]]
        /\ UNCHANGED <<now, file, ambiguous, secretsCache, returned, asked, current>>
    BY <1>2 DEF Read, fileVars
  <2>2. SecretsTypeOK'
    BY <1>0, <1>t, <2>1 DEF SecretsTypeOK
  <2>3. CacheMatchesStamp' /\ ReturnedWasSeen' /\ NothingUnasked'
    BY <1>0, <2>1 DEF CacheMatchesStamp, ReturnedWasSeen, NothingUnasked
  <2>4. ReadsMatchStamp'
    BY <1>0, <1>t, <2>1 DEF ReadsMatchStamp, Waiting
  <2>5. WaitingSees'
    BY <1>0, <1>t, <2>1 DEF WaitingSees, Waiting
  <2> QED BY <2>2, <2>3, <2>4, <2>5 DEF SecretsInv
<1>3. CASE Loaded(r)
  <2>1. /\ Waiting(r) /\ loading[r].content # Pending
        /\ secretsCache' = {[mtime |-> loading[r].mtime, loadedAt |-> now, secrets |-> loading[r].content]}
        /\ returned' = [returned EXCEPT ![r] = loading[r].content]
        /\ UNCHANGED <<now, file, ambiguous, loading, asked, current>>
    BY <1>3 DEF Loaded, Stamp, fileVars
  <2>2. loading[r].mtime \in Stamps /\ loading[r].content \in Content
    BY <1>t, <2>1
  <2>3. [mtime |-> loading[r].mtime, loadedAt |-> now, secrets |-> loading[r].content] \in Entries
    BY <1>t, <2>2 DEF Entries
  <2>4. returned' \in [Requests -> Content \cup {Pending}]
    BY <1>t, <2>1, <2>2
  <2>5. SecretsTypeOK'
    BY <1>0, <2>1, <2>3, <2>4 DEF SecretsTypeOK
  <2>6. CacheMatchesStamp'
    BY <1>0, <2>1 DEF CacheMatchesStamp, ReadsMatchStamp
  <2>7. \A q \in Requests : Waiting(q)' => Waiting(q)
    BY <1>t, <2>1, <2>2 DEF Waiting
  <2>8. ReadsMatchStamp'
    BY <1>0, <2>1, <2>7 DEF ReadsMatchStamp
  <2>9. WaitingSees'
    BY <1>0, <2>1, <2>7 DEF WaitingSees
  <2>10. ReturnedWasSeen'
    <3>1. loading[r].content \in current[r]
      BY <1>0, <2>1 DEF WaitingSees
    <3> QED BY <1>0, <1>t, <2>1, <3>1 DEF ReturnedWasSeen
  <2>11. NothingUnasked'
    BY <1>0, <1>t, <2>1 DEF NothingUnasked, Waiting
  <2> QED BY <2>5, <2>6, <2>8, <2>9, <2>10, <2>11 DEF SecretsInv
<1>4. CASE Unreadable(r)
  <2>1. /\ Waiting(r) /\ returned' = [returned EXCEPT ![r] = NoSecret]
        /\ UNCHANGED <<now, file, ambiguous, secretsCache, loading, asked, current>>
    BY <1>4 DEF Unreadable, fileVars
  <2>2. SecretsTypeOK' /\ CacheMatchesStamp'
    BY <1>0, <1>t, <2>1 DEF SecretsTypeOK, CacheMatchesStamp
  <2>3. \A q \in Requests : Waiting(q)' => Waiting(q)
    BY <1>t, <2>1 DEF Waiting
  <2>4. ReadsMatchStamp' /\ WaitingSees'
    BY <1>0, <2>1, <2>3 DEF ReadsMatchStamp, WaitingSees
  <2>5. ReturnedWasSeen' /\ NothingUnasked'
    BY <1>0, <1>t, <2>1 DEF ReturnedWasSeen, NothingUnasked, Waiting
  <2> QED BY <2>2, <2>4, <2>5 DEF SecretsInv
<1> QED BY <1>1, <1>2, <1>3, <1>4

\* A guardian that is killed forgets the cache and the reads under way.
LEMMA KillKeeps ==
  ASSUME SecretsInv, Kill
  PROVE  SecretsInv'
<1>0. SecretsTypeOK /\ CacheMatchesStamp /\ ReadsMatchStamp /\ WaitingSees /\ ReturnedWasSeen /\ NothingUnasked
  BY DEF SecretsInv
<1>1. /\ secretsCache' = {} /\ loading' = [r \in Requests |-> [mtime |-> 0, content |-> Pending]]
      /\ returned' = [r \in Requests |-> IF Waiting(r) THEN NoSecret ELSE returned[r]]
      /\ UNCHANGED <<now, file, ambiguous, asked, current>>
  BY DEF Kill, fileVars
<1>2. 0 \in Stamps /\ NoSecret \in Content /\ Pending # NoSecret
  BY SecretsAssumption DEF Stamps, Times, Content
<1>3. \A r \in Requests : ~Waiting(r)'
  BY <1>1, <1>2 DEF Waiting
<1>4. SecretsTypeOK'
  <2>1. returned' \in [Requests -> Content \cup {Pending}]
    BY <1>0, <1>1, <1>2 DEF SecretsTypeOK
  <2>2. loading' \in [Requests -> [mtime : Stamps, content : Content \cup {Pending}]]
    BY <1>1, <1>2
  <2> QED BY <1>0, <1>1, <2>1, <2>2 DEF SecretsTypeOK
<1>5. CacheMatchesStamp' /\ ReadsMatchStamp' /\ WaitingSees'
  BY <1>1, <1>3 DEF CacheMatchesStamp, ReadsMatchStamp, WaitingSees
<1>6. ReturnedWasSeen' /\ NothingUnasked'
  BY <1>0, <1>1 DEF ReturnedWasSeen, NothingUnasked, SecretsTypeOK, Waiting
<1> QED BY <1>4, <1>5, <1>6 DEF SecretsInv

(***************************************************************************)
(* The handler.                                                            *)
(***************************************************************************)
\* A request at work for its message passed on what was returned to it.
WorksOnReturned ==
  \A r \in Requests : stage[r] = "working" =>
    r \in asked /\ returned[r] \notin {NoSecret, Pending} /\ msg[r].key = returned[r]

InboundInv == SecretsInv /\ stage \in [Requests -> Stages] /\ WorksOnReturned

\* What was returned to a request stays, whatever others load.
LEMMA ReturnedStays ==
  ASSUME SecretsInv, NEW q \in Requests, Load(q) \/ Read(q) \/ Loaded(q) \/ Unreadable(q)
  PROVE  \A r \in asked : r \in asked' /\ (returned[r] # Pending => returned'[r] = returned[r])
<1>1. returned \in [Requests -> Content \cup {Pending}] /\ asked \subseteq Requests
  BY DEF SecretsInv, SecretsTypeOK
<1>2. CASE Load(q)
  BY <1>1, <1>2 DEF Load
<1>3. CASE Read(q)
  BY <1>3 DEF Read
<1>4. CASE Loaded(q)
  BY <1>1, <1>4 DEF Loaded, Waiting
<1>5. CASE Unreadable(q)
  BY <1>1, <1>5 DEF Unreadable, Waiting
<1> QED BY <1>2, <1>3, <1>4, <1>5

\* An answer leaves the other requests at their work, and ends this one's.
LEMMA AnswersKeep ==
  ASSUME InboundInv, NEW r \in Requests, NEW status, Answer(r, status), UNCHANGED secretsVars
  PROVE  InboundInv'
<1>1. SecretsInv /\ stage \in [Requests -> Stages] /\ WorksOnReturned
  BY DEF InboundInv
<1>2. /\ UNCHANGED <<now, file, ambiguous, secretsCache, loading, returned, asked, current>>
      /\ stage' = [stage EXCEPT ![r] = "done"] /\ msg' = msg
  BY DEF Answer, secretsVars, fileVars, loadVars
<1>3. SecretsInv'
  BY <1>1, <1>2 DEF SecretsInv, SecretsTypeOK, CacheMatchesStamp, ReadsMatchStamp, WaitingSees,
                    ReturnedWasSeen, NothingUnasked, Waiting
<1>4. stage' \in [Requests -> Stages] /\ \A q \in Requests : stage'[q] = "working" => stage[q] = "working"
  BY <1>1, <1>2 DEF Stages
<1>5. WorksOnReturned'
  BY <1>1, <1>2, <1>4 DEF WorksOnReturned
<1> QED BY <1>3, <1>4, <1>5 DEF InboundInv

\* What touches neither the secrets nor where requests are.
LEMMA InboundRests ==
  ASSUME InboundInv, UNCHANGED <<secretsVars, stage, msg>>
  PROVE  InboundInv'
<1>1. UNCHANGED <<now, file, ambiguous, secretsCache, loading, returned, asked, current, stage, msg>>
  BY DEF secretsVars, fileVars, loadVars
<1>2. SecretsInv'
  BY <1>1 DEF InboundInv, SecretsInv, SecretsTypeOK, CacheMatchesStamp, ReadsMatchStamp, WaitingSees,
              ReturnedWasSeen, NothingUnasked, Waiting
<1> QED BY <1>1, <1>2 DEF InboundInv, WorksOnReturned

\* The checks: the one step that lets a message pass.
LEMMA CheckKeeps ==
  ASSUME InboundInv, NEW r \in Requests, Check(r)
  PROVE  InboundInv'
<1>1. SecretsInv /\ stage \in [Requests -> Stages] /\ WorksOnReturned
  BY DEF InboundInv
<1>2. UNCHANGED secretsVars /\ stage[r] = "checking" /\ returned[r] # Pending
  BY DEF Check
<1>3. CASE \E status : Answer(r, status)
  BY <1>2, <1>3, AnswersKeep
<1>4. CASE Signed(r) /\ stage' = [stage EXCEPT ![r] = "working"] /\ msg' = msg
  <2>1. UNCHANGED <<now, file, ambiguous, secretsCache, loading, returned, asked, current>>
    BY <1>2 DEF secretsVars, fileVars, loadVars
  <2>2. SecretsInv'
    BY <1>1, <2>1 DEF SecretsInv, SecretsTypeOK, CacheMatchesStamp, ReadsMatchStamp, WaitingSees,
                      ReturnedWasSeen, NothingUnasked, Waiting
  <2>3. r \in asked
    BY <1>1, <1>2 DEF SecretsInv, NothingUnasked
  <2>4. stage' \in [Requests -> Stages]
    BY <1>1, <1>4 DEF Stages
  <2>5. WorksOnReturned'
    BY <1>1, <1>2, <1>4, <2>1, <2>3 DEF WorksOnReturned, Signed
  <2> QED BY <2>2, <2>4, <2>5 DEF InboundInv
<1> QED BY <1>3, <1>4 DEF Check

\* Every step keeps the invariant.
LEMMA InboundStep == InboundInv /\ [Next]_vars => InboundInv'
<1> SUFFICES ASSUME InboundInv, [Next]_vars PROVE InboundInv'
  OBVIOUS
<1>1. SecretsInv /\ stage \in [Requests -> Stages] /\ WorksOnReturned
  BY DEF InboundInv
<1>2. ASSUME NEW r \in Requests, Malformed(r) \/ Finish(r) PROVE InboundInv'
  BY <1>2, AnswersKeep DEF Malformed, Finish
<1>3. ASSUME NEW r \in Requests, AskSecrets(r) PROVE InboundInv'
  <2>1. Load(r) /\ stage' = [stage EXCEPT ![r] = "checking"] /\ msg' = msg
    BY <1>3 DEF AskSecrets
  <2>2. SecretsInv'
    BY <1>1, <2>1, LoadKeeps
  <2>3. stage' \in [Requests -> Stages] /\ \A q \in Requests : stage'[q] = "working" => stage[q] = "working"
    BY <1>1, <2>1 DEF Stages
  <2>4. WorksOnReturned'
    BY <1>1, <2>1, <2>3, ReturnedStays DEF WorksOnReturned
  <2> QED BY <2>2, <2>3, <2>4 DEF InboundInv
<1>4. ASSUME NEW r \in Requests, Check(r) PROVE InboundInv'
  BY <1>4, CheckKeeps
<1>5. CASE Flush \/ Sigterm \/ Prune
  BY <1>5, InboundRests DEF Flush, Sigterm, Prune, workVars
<1>6. CASE Kill
  <2>1. SecretsInv'
    BY <1>1, <1>6, KillKeeps
  <2>2. stage' = [r \in Requests |-> AfterKill(r)]
    BY <1>6 DEF Kill
  <2>3. stage' \in [Requests -> Stages] /\ \A r \in Requests : stage'[r] # "working"
    BY <2>2 DEF AfterKill, Stages
  <2> QED BY <2>1, <2>3 DEF InboundInv, WorksOnReturned
<1>7. CASE Environment
  <2>1. stage' = stage /\ msg' = msg
    BY <1>7 DEF Environment, workVars
  <2>2. ASSUME NEW r \in Requests, Read(r) \/ Loaded(r) \/ Unreadable(r) PROVE InboundInv'
    <3>1. SecretsInv'
      BY <1>1, <2>2, LoadKeeps
    <3>2. WorksOnReturned'
      BY <1>1, <2>1, <2>2, ReturnedStays DEF WorksOnReturned
    <3> QED BY <1>1, <2>1, <3>1, <3>2 DEF InboundInv
  <2>3. CASE Truncate \/ Fill \/ Withdraw \/ SecretsTick
    <3>1. SecretsInv'
      BY <1>1, <2>3, WriterKeeps
    <3>2. returned' = returned /\ asked' = asked
      BY <2>3 DEF Truncate, Fill, Withdraw, SecretsTick, Becomes, loadVars
    <3> QED BY <1>1, <2>1, <3>1, <3>2 DEF InboundInv, WorksOnReturned
  <2> QED BY <1>7, <2>2, <2>3 DEF Environment
<1>8. CASE UNCHANGED vars
  BY <1>8, InboundRests DEF vars, workVars
<1> QED BY <1>2, <1>3, <1>4, <1>5, <1>6, <1>7, <1>8 DEF Next

\* At the start nothing is cached, read or returned.
LEMMA InboundInitially == Init => InboundInv
<1> SUFFICES ASSUME Init PROVE InboundInv
  OBVIOUS
<1>1. PICK s \in Content :
        file = [content |-> s, mtime |-> 0, readable |-> TRUE, writing |-> FALSE, writes |-> 0]
  BY DEF Init, SecretsInit
<1>2. /\ now = 0 /\ secretsCache = {} /\ asked = {} /\ ambiguous = {} /\ current = [r \in Requests |-> {}]
      /\ loading = [r \in Requests |-> [mtime |-> 0, content |-> Pending]]
      /\ returned = [r \in Requests |-> Pending] /\ stage = [r \in Requests |-> "new"]
  BY DEF Init, SecretsInit
<1>3. SecretsTypeOK
  <2>1. 0 \in Times /\ 0 \in Stamps /\ 0 \in 0..MaxWrites
    BY SecretsAssumption DEF Times, Stamps
  <2> QED BY <1>1, <1>2, <2>1 DEF SecretsTypeOK
<1>4. SecretsInv
  BY <1>2, <1>3 DEF SecretsInv, CacheMatchesStamp, ReadsMatchStamp, WaitingSees, ReturnedWasSeen,
                    NothingUnasked, Waiting
<1> QED BY <1>2, <1>4 DEF InboundInv, WorksOnReturned, Stages

\* The guardian never takes an old secret for the present one: not from its cache,
\* not from a slow read, not from one that ends after a younger one, not after a kill.
THEOREM SecretsRotateSafely == Spec => []SecretsExact
<1>1. InboundInv => SecretsExact
  BY DEF InboundInv, SecretsInv, SecretsExact, PassedWithCurrentSecret, WorksOnReturned, ReturnedWasSeen
<1> QED BY <1>1, InboundInitially, InboundStep, PTL DEF Spec

(***************************************************************************)
(* The nonces.                                                             *)
(***************************************************************************)
\* Pruning adds nothing and changes nothing.
LEMMA PrunedWithin ==
  ASSUME NEW m, NEW p, p \in RG!Pruned(m) \/ p \in RG!AfterInsertion(m)
  PROVE  DOMAIN p \subseteq DOMAIN m /\ \A n \in DOMAIN p : p[n] = m[n]
<1>1. CASE p \in RG!Pruned(m)
  <2>1. PICK S \in RG!HardCap(RG!Restrict(m, RG!Unexpired(m)), maxSize) : p = RG!Restrict(m, S)
    BY <1>1 DEF RG!Pruned
  <2>2. DOMAIN RG!Restrict(m, RG!Unexpired(m)) \subseteq DOMAIN m
    BY DEF RG!Restrict, RG!Unexpired
  <2>3. S \subseteq DOMAIN m
    BY <2>1, <2>2 DEF RG!HardCap
  <2> QED BY <2>1, <2>3 DEF RG!Restrict
<1>2. CASE p = m
  BY <1>2
<1> QED BY <1>1, <1>2 DEF RG!AfterInsertion

\* ReplayGuard counts as this module does.
LEMMA SameCardinality == \A S : RG!Cardinality(S) = Cardinality(S)
  BY DEF RG!Cardinality, Cardinality

\* Below the cap, pruning takes only what is too old to be accepted.
LEMMA PrunedKeepsFresh ==
  ASSUME NEW m, NEW p, p \in RG!Pruned(m) \/ p \in RG!AfterInsertion(m),
         IsFiniteSet(DOMAIN m), Cardinality(DOMAIN m) <= maxSize
  PROVE  \A n \in DOMAIN m : m[n] >= now - CLOCK_SKEW => n \in DOMAIN p
<1>1. CASE p \in RG!Pruned(m)
  <2> DEFINE fresh == RG!Restrict(m, RG!Unexpired(m))
  <2>1. PICK S \in RG!HardCap(fresh, maxSize) : p = RG!Restrict(m, S)
    BY <1>1 DEF RG!Pruned
  <2>2. DOMAIN fresh = {n \in DOMAIN m : m[n] >= now - CLOCK_SKEW}
    BY DEF RG!Restrict, RG!Unexpired
  <2>3. DOMAIN fresh \in SUBSET DOMAIN m
    BY <2>2
  <2>4. IsFiniteSet(DOMAIN fresh) /\ Cardinality(DOMAIN fresh) <= Cardinality(DOMAIN m)
    BY <2>3, FS_Subset
  <2>5. Cardinality(DOMAIN fresh) <= maxSize
    <3>1. Cardinality(DOMAIN fresh) \in Nat /\ Cardinality(DOMAIN m) \in Nat /\ maxSize \in Nat
      BY <2>4, FS_CardinalityType, InboundAssumption
    <3> HIDE DEF fresh
    <3> QED BY <2>4, <3>1
  <2>6. S = DOMAIN fresh
    <3> HIDE DEF fresh
    <3>1. RG!Cardinality(DOMAIN fresh) <= maxSize
      BY <2>5, SameCardinality
    <3> QED BY <2>1, <3>1 DEF RG!HardCap
  <2> QED BY <2>1, <2>2, <2>6 DEF RG!Restrict
<1>2. CASE p = m
  BY <1>2
<1> QED BY <1>1, <1>2 DEF RG!AfterInsertion

\* The image of a finite set is finite, and no larger.
LEMMA ImageFinite ==
  ASSUME NEW S, IsFiniteSet(S), NEW f, f \in [S -> {f[x] : x \in S}]
  PROVE  IsFiniteSet({f[x] : x \in S}) /\ Cardinality({f[x] : x \in S}) <= Cardinality(S)
<1>1. f \in Surjection(S, {f[x] : x \in S})
  BY DEF Surjection
<1> QED BY <1>1, FS_Surjection

\* A sequence has finitely many elements.
LEMMA ElementsFinite ==
  ASSUME NEW A, NEW s \in Seq(A)
  PROVE  IsFiniteSet(ToSet(s))
<1>1. DOMAIN s = 1..Len(s) /\ Len(s) \in Int
  OBVIOUS
<1>2. IsFiniteSet(1..Len(s))
  BY <1>1, FS_Interval
<1>3. s \in [1..Len(s) -> {s[i] : i \in 1..Len(s)}]
  BY <1>1
<1>4. IsFiniteSet({s[i] : i \in 1..Len(s)})
  BY <1>2, <1>3, ImageFinite
<1> QED BY <1>1, <1>4 DEF ToSet

\* One more element.
LEMMA AppendedElements ==
  ASSUME NEW A, NEW s \in Seq(A), NEW x \in A
  PROVE  /\ Append(s, x) \in Seq(A) /\ ToSet(Append(s, x)) = ToSet(s) \cup {x}
         /\ IsInjective(s) /\ x \notin ToSet(s) => IsInjective(Append(s, x))
<1>1. /\ Append(s, x) \in Seq(A) /\ Len(Append(s, x)) = Len(s) + 1
      /\ \A i \in 1..Len(s) : Append(s, x)[i] = s[i]
      /\ Append(s, x)[Len(s) + 1] = x
      /\ DOMAIN s = 1..Len(s) /\ DOMAIN Append(s, x) = 1..(Len(s) + 1) /\ Len(s) \in Nat
  OBVIOUS
<1>2. ToSet(Append(s, x)) = ToSet(s) \cup {x}
  <2>1. \A i \in 1..(Len(s) + 1) : i \in 1..Len(s) \/ i = Len(s) + 1
    BY <1>1
  <2>2. \A i \in 1..Len(s) : i \in 1..(Len(s) + 1)
    BY <1>1
  <2>3. Len(s) + 1 \in 1..(Len(s) + 1)
    BY <1>1
  <2> HIDE DEF ToSet
  <2>4. ToSet(s) = {s[i] : i \in 1..Len(s)} /\ ToSet(Append(s, x)) = {Append(s, x)[i] : i \in 1..(Len(s) + 1)}
    BY <1>1 DEF ToSet
  <2> QED BY <1>1, <2>1, <2>2, <2>3, <2>4
<1>3. ASSUME IsInjective(s), x \notin ToSet(s) PROVE IsInjective(Append(s, x))
  <2>1. \A i \in 1..Len(s) : s[i] # x
    BY <1>1, <1>3 DEF ToSet
  <2>2. \A i, j \in 1..Len(s) : s[i] = s[j] => i = j
    BY <1>1, <1>3 DEF IsInjective
  <2>3. \A i \in 1..(Len(s) + 1) : i \in 1..Len(s) \/ i = Len(s) + 1
    BY <1>1
  <2>4. \A i, j \in 1..(Len(s) + 1) : Append(s, x)[i] = Append(s, x)[j] => i = j
    BY <1>1, <2>1, <2>2, <2>3
  <2> QED BY <1>1, <2>4 DEF IsInjective
<1> QED BY <1>1, <1>2, <1>3

\* What passed and may still be sent again is remembered under its stamp.
Remembers ==
  \A m \in Passed : now - m.ts <= CLOCK_SKEW => m.nonce \in DOMAIN seen /\ seen[m.nonce] = m.ts

\* Since the start, unless more messages passed than the cache may hold.
NoFloodYet == kills = 0 /\ Cardinality(Passed) <= maxSize

NonceInv ==
  /\ now \in Int /\ kills \in Nat
  /\ msg \in [Requests -> Messages]
  /\ forwarded \in Seq(Messages)
  /\ OnlyPassedConsume
  /\ NoFloodYet => Remembers /\ IsInjective(forwarded)

\* A flood stays one.
LEMMA FloodStays ==
  ASSUME NEW s \in Seq(Messages), NEW m \in Messages, Cardinality(ToSet(Append(s, m))) <= maxSize
  PROVE  Cardinality(ToSet(s)) <= maxSize
<1>1. ToSet(Append(s, m)) = ToSet(s) \cup {m} /\ IsFiniteSet(ToSet(s))
  BY AppendedElements, ElementsFinite
<1>2. Cardinality(ToSet(s)) \in Nat /\ (\/ Cardinality(ToSet(s) \cup {m}) = Cardinality(ToSet(s))
                                        \/ Cardinality(ToSet(s) \cup {m}) = Cardinality(ToSet(s)) + 1)
  BY <1>1, FS_AddElement, FS_CardinalityType
<1> QED BY <1>1, <1>2, InboundAssumption

\* A nonce remembered is that of a message that passed: there are no more of them.
LEMMA NoncesOfPassed ==
  ASSUME NEW s \in Seq(Messages), NEW N, \A n \in N : \E m \in ToSet(s) : m.nonce = n
  PROVE  IsFiniteSet(N) /\ Cardinality(N) <= Cardinality(ToSet(s))
<1> DEFINE P == ToSet(s)
           f == [m \in P |-> m.nonce]
           I == {f[m] : m \in P}
<1>1. IsFiniteSet(P)
  BY ElementsFinite
<1>2. f \in [P -> I]
  OBVIOUS
<1>3. IsFiniteSet(I) /\ Cardinality(I) <= Cardinality(P)
  <2> HIDE DEF P, f
  <2> QED BY <1>1, <1>2, ImageFinite
<1>4. N \in SUBSET I
  OBVIOUS
<1>5. IsFiniteSet(N) /\ Cardinality(N) <= Cardinality(I)
  <2> HIDE DEF I
  <2> QED BY <1>3, <1>4, FS_Subset
<1>6. Cardinality(N) \in Nat /\ Cardinality(I) \in Nat /\ Cardinality(P) \in Nat
  <2> HIDE DEF I, P
  <2> QED BY <1>1, <1>3, <1>5, FS_CardinalityType
<1>7. Cardinality(N) <= Cardinality(P)
  <2> HIDE DEF I, P
  <2> QED BY <1>3, <1>5, <1>6
<1> QED BY <1>5, <1>7

\* A message passes.
LEMMA PassingKeeps ==
  ASSUME NonceInv, NEW r \in Requests, Unseen(r),
         seen' \in RG!AfterInsertion(RG!Remembered(msg[r].nonce, msg[r].ts)),
         forwarded' = Append(forwarded, msg[r]), msg' = msg, now' = now, kills' = kills
  PROVE  NonceInv'
<1> DEFINE m == msg[r]
           remembered == RG!Remembered(m.nonce, m.ts)
<1>1. m \in Messages /\ m.ts \in Int /\ now \in Int /\ {CLOCK_SKEW, maxSize} \subseteq Nat
  BY InboundAssumption DEF NonceInv
<1>2. /\ forwarded' \in Seq(Messages) /\ Passed' = Passed \cup {m}
      /\ IsInjective(forwarded) /\ m \notin Passed => IsInjective(forwarded')
  <2>1. forwarded \in Seq(Messages) /\ forwarded' = Append(forwarded, m)
    BY DEF NonceInv
  <2> HIDE DEF m
  <2> QED BY <1>1, <2>1, AppendedElements DEF Passed
<1>3. /\ DOMAIN remembered = DOMAIN seen \cup {m.nonce} /\ remembered[m.nonce] = m.ts
      /\ \A n \in DOMAIN seen : n # m.nonce => remembered[n] = seen[n]
      /\ m.nonce \notin DOMAIN seen
  BY DEF RG!Remembered, Unseen
<1>4. DOMAIN seen' \subseteq DOMAIN remembered /\ \A n \in DOMAIN seen' : seen'[n] = remembered[n]
  BY PrunedWithin
<1>5. OnlyPassedConsume'
  <2> SUFFICES ASSUME NEW n \in DOMAIN seen' PROVE \E x \in Passed' : x.nonce = n
    BY DEF OnlyPassedConsume
  <2> HIDE DEF m
  <2> QED BY <1>2, <1>3, <1>4 DEF NonceInv, OnlyPassedConsume
<1>6. ASSUME NoFloodYet' PROVE Remembers' /\ IsInjective(forwarded')
  <2>1. NoFloodYet
    BY <1>1, <1>6, FloodStays DEF NoFloodYet, Passed, NonceInv
  <2>2. Remembers /\ IsInjective(forwarded)
    BY <2>1 DEF NonceInv
  <2>3. \A n \in DOMAIN remembered : \E x \in Passed' : x.nonce = n
    <3> HIDE DEF m
    <3> QED BY <1>2, <1>3 DEF NonceInv, OnlyPassedConsume
  <2>4. IsFiniteSet(DOMAIN remembered) /\ Cardinality(DOMAIN remembered) <= Cardinality(Passed')
    <3>1. Passed' = ToSet(forwarded')
      BY DEF Passed
    <3> HIDE DEF remembered
    <3> QED BY <1>2, <2>3, <3>1, NoncesOfPassed
  <2>5. Cardinality(DOMAIN remembered) <= maxSize
    <3>1. Cardinality(DOMAIN remembered) \in Nat /\ IsFiniteSet(Passed')
      BY <1>2, <2>4, FS_CardinalityType, ElementsFinite DEF Passed
    <3>2. Cardinality(Passed') \in Nat /\ Cardinality(Passed') <= maxSize
      BY <1>6, <3>1, FS_CardinalityType DEF NoFloodYet
    <3> HIDE DEF remembered
    <3> QED BY <1>1, <2>4, <3>1, <3>2
  <2>6. \A n \in DOMAIN remembered : remembered[n] >= now - CLOCK_SKEW => n \in DOMAIN seen'
    <3> HIDE DEF remembered
    <3>1. seen' \in RG!AfterInsertion(remembered)
      BY DEF remembered
    <3> QED BY <2>4, <2>5, <3>1, PrunedKeepsFresh
  <2>7. m \notin Passed
    <3>1. now - m.ts <= CLOCK_SKEW
      BY DEF Unseen, RG!Fresh
    <3> QED BY <1>3, <2>2, <3>1 DEF Remembers
  <2>8. Remembers'
    <3> SUFFICES ASSUME NEW x \in Passed', now - x.ts <= CLOCK_SKEW
                 PROVE  x.nonce \in DOMAIN seen' /\ seen'[x.nonce] = x.ts
      BY DEF Remembers
    <3>1. x.ts \in Int
      <4>1. x \in Messages
        BY <1>1, <1>2 DEF NonceInv, Passed, ToSet
      <4> QED BY <4>1, InboundAssumption
    <3>2. x.ts >= now - CLOCK_SKEW
      BY <1>1, <3>1
    <3>3. x.nonce \in DOMAIN remembered /\ remembered[x.nonce] = x.ts
      <4>1. CASE x = m
        BY <1>3, <4>1
      <4>2. CASE x \in Passed
        <5>1. x.nonce \in DOMAIN seen /\ seen[x.nonce] = x.ts
          BY <2>2, <4>2 DEF Remembers
        <5> HIDE DEF m, remembered
        <5> QED BY <1>3, <5>1
      <4> QED BY <1>2, <4>1, <4>2
    <3> HIDE DEF remembered
    <3> QED BY <1>4, <2>6, <3>2, <3>3
  <2> QED BY <1>2, <2>2, <2>7, <2>8
<1> QED BY <1>2, <1>5, <1>6 DEF NonceInv

\* The timer prunes.
LEMMA PruningKeeps ==
  ASSUME NonceInv, seen' \in RG!Pruned(seen), UNCHANGED <<forwarded, msg, now, kills>>
  PROVE  NonceInv'
<1>1. DOMAIN seen' \subseteq DOMAIN seen /\ \A n \in DOMAIN seen' : seen'[n] = seen[n]
  BY PrunedWithin
<1>2. Passed' = Passed
  BY DEF Passed
<1>3. OnlyPassedConsume'
  BY <1>1, <1>2 DEF NonceInv, OnlyPassedConsume
<1>4. ASSUME NoFloodYet' PROVE Remembers'
  <2>1. Cardinality(Passed) <= maxSize /\ Remembers
    BY <1>2, <1>4 DEF NoFloodYet, NonceInv
  <2>2. IsFiniteSet(DOMAIN seen) /\ Cardinality(DOMAIN seen) <= Cardinality(Passed)
    BY NoncesOfPassed DEF NonceInv, OnlyPassedConsume, Passed
  <2>3. Cardinality(DOMAIN seen) <= maxSize
    <3>1. Cardinality(DOMAIN seen) \in Nat /\ Cardinality(Passed) \in Nat /\ maxSize \in Nat
      BY <2>2, FS_CardinalityType, ElementsFinite, InboundAssumption DEF NonceInv, Passed
    <3> QED BY <2>1, <2>2, <3>1
  <2>4. \A n \in DOMAIN seen : seen[n] >= now - CLOCK_SKEW => n \in DOMAIN seen'
    BY <2>2, <2>3, PrunedKeepsFresh
  <2> SUFFICES ASSUME NEW x \in Passed, now - x.ts <= CLOCK_SKEW
               PROVE  x.nonce \in DOMAIN seen' /\ seen'[x.nonce] = x.ts
    BY <1>2 DEF Remembers
  <2>5. x \in Messages
    BY DEF NonceInv, Passed, ToSet
  <2>6. x.ts \in Int /\ now \in Int /\ CLOCK_SKEW \in Nat
    BY <2>5, InboundAssumption DEF NonceInv
  <2>7. x.ts >= now - CLOCK_SKEW
    BY <2>6
  <2> QED BY <1>1, <2>1, <2>4, <2>7 DEF Remembers
<1>5. NoFloodYet' => IsInjective(forwarded')
  BY <1>2 DEF NoFloodYet, NonceInv
<1> QED BY <1>3, <1>4, <1>5 DEF NonceInv

\* What touches neither the nonces nor what passed; time may go on.
LEMMA NoncesRest ==
  ASSUME NonceInv, UNCHANGED <<seen, forwarded, msg, kills>>, now' = now \/ now' = now + 1
  PROVE  NonceInv'
<1>1. Passed' = Passed /\ OnlyPassedConsume'
  BY DEF Passed, NonceInv, OnlyPassedConsume
<1>2. PICK n : n = now'
  OBVIOUS
<1>3. n \in Int /\ (n = now \/ n = now + 1) /\ now \in Int
  BY <1>2 DEF NonceInv
<1>4. Remembers => Remembers'
  <2> SUFFICES ASSUME Remembers, NEW x \in Passed, n - x.ts <= CLOCK_SKEW
               PROVE  x.nonce \in DOMAIN seen /\ seen[x.nonce] = x.ts
    BY <1>1, <1>2 DEF Remembers
  <2>1. x \in Messages
    BY DEF NonceInv, Passed, ToSet
  <2>2. x.ts \in Int /\ CLOCK_SKEW \in Nat
    BY <2>1, InboundAssumption
  <2>3. now - x.ts <= CLOCK_SKEW
    BY <1>3, <2>2
  <2> QED BY <2>3 DEF Remembers
<1> QED BY <1>1, <1>2, <1>3, <1>4 DEF NonceInv, NoFloodYet

\* Every step keeps the nonces.
LEMMA NonceStep == NonceInv /\ [Next]_vars => NonceInv'
<1> SUFFICES ASSUME NonceInv, [Next]_vars PROVE NonceInv'
  OBVIOUS
<1>1. ASSUME NEW r \in Requests, Malformed(r) \/ AskSecrets(r) \/ Finish(r) PROVE NonceInv'
  <2>1. UNCHANGED <<seen, forwarded, msg, kills, now>>
    BY <1>1 DEF Malformed, AskSecrets, Finish, Answer, Load, limitVars, lifeVars, secretsVars
  <2> QED BY <2>1, NoncesRest
<1>2. ASSUME NEW r \in Requests, Check(r) PROVE NonceInv'
  <2>1. now' = now
    BY <1>2 DEF Check, secretsVars
  <2>2. CASE \E status : Answer(r, status) /\ seen' = seen /\ forwarded' = forwarded
    <3>1. UNCHANGED <<seen, forwarded, msg, kills>>
      BY <2>2 DEF Answer, lifeVars
    <3> QED BY <2>1, <3>1, NoncesRest
  <2>3. CASE /\ Unseen(r) /\ seen' \in RG!AfterInsertion(RG!Remembered(msg[r].nonce, msg[r].ts))
             /\ forwarded' = Append(forwarded, msg[r]) /\ UNCHANGED <<msg, lifeVars>>
    <3>1. msg' = msg /\ kills' = kills
      BY <2>3 DEF lifeVars
    <3> QED BY <2>1, <2>3, <3>1, PassingKeeps
  <2> QED BY <1>2, <2>2, <2>3 DEF Check, limitVars, Consumed
<1>3. CASE Flush \/ Sigterm
  <2>1. UNCHANGED <<seen, forwarded, msg, kills, now>>
    BY <1>3 DEF Flush, Sigterm, limitVars, lifeVars, secretsVars, workVars
  <2> QED BY <2>1, NoncesRest
<1>4. CASE Kill
  <2>1. kills' = kills + 1 /\ seen' = [n \in {} |-> 0] /\ UNCHANGED <<now, msg, forwarded>>
    BY <1>4 DEF Kill
  <2>2. kills' \in Nat /\ kills' # 0
    BY <2>1 DEF NonceInv
  <2> QED BY <2>1, <2>2 DEF NonceInv, NoFloodYet, OnlyPassedConsume
<1>5. CASE Prune
  <2>1. UNCHANGED <<forwarded, msg, now, kills>>
    BY <1>5 DEF Prune, lifeVars, secretsVars, workVars
  <2> QED BY <1>5, <2>1, PruningKeeps, NoncesRest DEF Prune
<1>6. CASE Environment
  <2>1. UNCHANGED <<seen, forwarded, msg, kills>>
    BY <1>6 DEF Environment, workVars, limitVars, lifeVars
  <2>2. now' = now \/ now' = now + 1
    BY <1>6 DEF Environment, Read, Loaded, Unreadable, Truncate, Fill, Withdraw, Becomes, SecretsTick, Advance
  <2> QED BY <2>1, <2>2, NoncesRest
<1>7. CASE UNCHANGED vars
  <2>1. UNCHANGED <<seen, forwarded, msg, kills, now>>
    BY <1>7 DEF vars, limitVars, lifeVars, secretsVars, workVars
  <2> QED BY <2>1, NoncesRest
<1> QED BY <1>1, <1>2, <1>3, <1>4, <1>5, <1>6, <1>7 DEF Next

LEMMA NoncesInitially == Init => NonceInv
<1> SUFFICES ASSUME Init PROVE NonceInv
  OBVIOUS
<1>1. now = 0 /\ kills = 0 /\ forwarded = <<>> /\ DOMAIN seen = {} /\ msg \in [Requests -> Messages]
  BY DEF Init, SecretsInit
<1>2. Passed = {} /\ IsInjective(forwarded) /\ forwarded \in Seq(Messages)
  BY <1>1 DEF Passed, ToSet, IsInjective
<1> QED BY <1>1, <1>2 DEF NonceInv, OnlyPassedConsume, Remembers

\* Only what passed has its nonce consumed; and nothing passes twice between two
\* starts until more messages passed than the cache of nonces may hold.
OnceUnlessFlood == OnlyPassedConsume /\ (NoFloodYet => IsInjective(forwarded))

THEOREM NoncesSpentOnce == Spec => []OnceUnlessFlood
<1>1. NonceInv => OnceUnlessFlood
  BY DEF NonceInv, OnceUnlessFlood
<1> QED BY <1>1, NoncesInitially, NonceStep, PTL DEF Spec

\* With no more requests than the cache may hold there is no flood.
THEOREM NoncesAreExact ==
  ASSUME IsFiniteSet(Requests), Cardinality(Requests) <= maxSize
  PROVE  Spec => []NoncesExact
<1> DEFINE Sent == forwarded \in Seq(Messages) /\ msg \in [Requests -> Messages] /\ \A m \in Passed : \E r \in Requests : m = msg[r]
<1>1. Init => Sent
  <2> SUFFICES ASSUME Init PROVE Sent
    OBVIOUS
  <2>1. forwarded = <<>> /\ msg \in [Requests -> Messages]
    BY DEF Init
  <2> QED BY <2>1 DEF Passed, ToSet
<1>2. NonceInv /\ NonceInv' /\ Sent /\ [Next]_vars => Sent'
  <2> SUFFICES ASSUME NonceInv', Sent, [Next]_vars PROVE Sent'
    OBVIOUS
  <2>1. msg' = msg
    BY DEF Next, vars, workVars, Malformed, AskSecrets, Check, Finish, Answer, Flush, Sigterm, Kill, Prune, Environment
  <2>2. forwarded' = forwarded \/ \E r \in Requests : forwarded' = Append(forwarded, msg[r])
    BY DEF Next, vars, Malformed, AskSecrets, Check, Finish, Flush, Sigterm, Kill, Prune, Environment
  <2>3. ASSUME NEW r \in Requests, forwarded' = Append(forwarded, msg[r])
        PROVE  Passed' = Passed \cup {msg[r]}
    BY <2>3, AppendedElements DEF Passed
  <2>4. forwarded' = forwarded => Passed' = Passed
    BY DEF Passed
  <2>5. forwarded' \in Seq(Messages)
    BY DEF NonceInv
  <2>6. \A m \in Passed' : \E r \in Requests : m = msg[r]
    BY <2>2, <2>3, <2>4
  <2> QED BY <2>1, <2>5, <2>6
<1>3. Sent => Cardinality(Passed) <= maxSize
  <2> SUFFICES ASSUME Sent PROVE Cardinality(Passed) <= maxSize
    OBVIOUS
  <2> DEFINE I == {msg[r] : r \in Requests}
  <2>1. msg \in [Requests -> I]
    OBVIOUS
  <2>2. IsFiniteSet(I) /\ Cardinality(I) <= Cardinality(Requests)
    BY <2>1, ImageFinite
  <2>3. Passed \in SUBSET I
    OBVIOUS
  <2> HIDE DEF I
  <2>4. IsFiniteSet(Passed) /\ Cardinality(Passed) <= Cardinality(I)
    BY <2>2, <2>3, FS_Subset
  <2>5. Cardinality(Passed) \in Nat /\ Cardinality(I) \in Nat /\ Cardinality(Requests) \in Nat /\ maxSize \in Nat
    BY <2>2, <2>4, FS_CardinalityType, InboundAssumption
  <2> QED BY <2>2, <2>4, <2>5
<1>4. NonceInv /\ Sent => NoncesExact
  BY <1>3 DEF NonceInv, NoncesExact, PassedOnce, NoFloodYet
<1> HIDE DEF Sent
<1> QED BY <1>1, <1>2, <1>4, NoncesInitially, NonceStep, PTL DEF Spec

(***************************************************************************)
(* The counters and the log.                                               *)
(***************************************************************************)
\* A bucket is that of a user or of the channel.
LEMMA AllowedKeys ==
  ASSUME NEW m, NEW k, NEW l, NEW a \in RL!Allowed(m, k, l)
  PROVE  DOMAIN a.left \subseteq DOMAIN m \cup {k}
<1>1. ASSUME NEW p \in RL!BeforeInsertion(m) PROVE DOMAIN p \subseteq DOMAIN m
  <2>1. CASE p = m
    BY <2>1
  <2>2. CASE p \in RL!PrunedBuckets(m)
    <3> DEFINE starts == [x \in RL!UnexpiredBuckets(m) |-> m[x].start]
    <3>1. PICK S \in RL!HardCap(starts, MAX_BUCKETS) : p = RL!Restrict(m, S)
      BY <2>2 DEF RL!PrunedBuckets
    <3>2. S \subseteq DOMAIN m
      BY <3>1 DEF RL!HardCap, RL!UnexpiredBuckets
    <3> QED BY <3>1, <3>2 DEF RL!Restrict
  <2> QED BY <1>1, <2>1, <2>2 DEF RL!BeforeInsertion
<1>2. PICK p \in RL!BeforeInsertion(m) :
        a = IF RL!Full(p, k, l)
            THEN [granted |-> FALSE, left |-> p, lost |-> RL!Lost(m, p)]
            ELSE [granted |-> TRUE, left |-> RL!Counted(p, k, l.windowMs), lost |-> RL!Lost(m, p)]
  BY DEF RL!Allowed
<1>3. a.left = p \/ a.left = RL!Counted(p, k, l.windowMs)
  BY <1>2
<1>4. DOMAIN RL!Counted(p, k, l.windowMs) = DOMAIN p \cup {k}
  BY DEF RL!Counted
<1> QED BY <1>1, <1>3, <1>4

LEMMA ChargedKeys ==
  ASSUME NEW m, NEW u, NEW c, NEW a \in RL!Charged(m, u, c)
  PROVE  DOMAIN a.left \subseteq DOMAIN m \cup {u, c}
<1>1. PICK b \in RL!Allowed(m, u, RL!UserLimit) :
        a \in IF b.granted THEN RL!Allowed(b.left, c, RL!ChannelLimit) ELSE {b}
  BY DEF RL!Charged
<1>2. DOMAIN b.left \subseteq DOMAIN m \cup {u}
  BY AllowedKeys
<1>3. CASE a \in RL!Allowed(b.left, c, RL!ChannelLimit)
  BY <1>2, <1>3, AllowedKeys
<1>4. CASE a = b
  BY <1>2, <1>4
<1> QED BY <1>1, <1>3, <1>4

LEMMA PrunedBucketKeys ==
  ASSUME NEW m, NEW p \in RL!PrunedBuckets(m)
  PROVE  DOMAIN p \subseteq DOMAIN m
<1> DEFINE starts == [x \in RL!UnexpiredBuckets(m) |-> m[x].start]
<1>1. PICK S \in RL!HardCap(starts, MAX_BUCKETS) : p = RL!Restrict(m, S)
  BY DEF RL!PrunedBuckets
<1>2. S \subseteq DOMAIN m
  BY <1>1 DEF RL!HardCap, RL!UnexpiredBuckets
<1> QED BY <1>1, <1>2 DEF RL!Restrict

\* The tables of limits and nonces, and what passed.
TablesOK ==
  /\ DOMAIN buckets \subseteq Users \cup {Channel}
  /\ DOMAIN seen \subseteq Nonces
  /\ forwarded \in Seq(Messages)
  /\ msg \in [Requests -> Messages]

LEMMA TablesStep == TablesOK /\ [Next]_vars => TablesOK'
<1> SUFFICES ASSUME TablesOK, [Next]_vars PROVE TablesOK'
  OBVIOUS
<1>1. ASSUME UNCHANGED <<buckets, seen, forwarded, msg>> PROVE TablesOK'
  BY <1>1 DEF TablesOK
<1>2. ASSUME NEW r \in Requests, Malformed(r) \/ AskSecrets(r) \/ Finish(r) PROVE TablesOK'
  BY <1>1, <1>2 DEF Malformed, AskSecrets, Finish, Answer, limitVars
<1>3. ASSUME NEW r \in Requests, Check(r) PROVE TablesOK'
  <2>0. msg' = msg
    BY <1>3 DEF Check, Answer
  <2>1. CASE UNCHANGED <<limitVars, forwarded>>
    BY <1>1, <2>0, <2>1 DEF limitVars
  <2>2. ASSUME NEW c \in RL!Charged(buckets, msg[r].user, Channel), buckets' = c.left
        PROVE  DOMAIN buckets' \subseteq Users \cup {Channel}
    <3>1. msg[r].user \in Users
      BY InboundAssumption DEF TablesOK
    <3>2. DOMAIN c.left \subseteq DOMAIN buckets \cup {msg[r].user, Channel}
      BY ChargedKeys
    <3> QED BY <2>2, <3>1, <3>2 DEF TablesOK
  <2>3. ASSUME Unseen(r), seen' \in RG!AfterInsertion(RG!Remembered(msg[r].nonce, msg[r].ts))
        PROVE  DOMAIN seen' \subseteq Nonces
    <3>1. msg[r].nonce \in Nonces
      BY <2>3, InboundAssumption DEF TablesOK, Unseen
    <3>2. DOMAIN RG!Remembered(msg[r].nonce, msg[r].ts) = DOMAIN seen \cup {msg[r].nonce}
      BY DEF RG!Remembered
    <3>3. DOMAIN seen' \subseteq DOMAIN RG!Remembered(msg[r].nonce, msg[r].ts)
      BY <2>3, PrunedWithin
    <3> QED BY <3>1, <3>2, <3>3 DEF TablesOK
  <2>4. ASSUME forwarded' = Append(forwarded, msg[r]) PROVE forwarded' \in Seq(Messages)
    BY <2>4 DEF TablesOK
  <2>5. CASE UNCHANGED <<seen, forwarded>> /\ \E c \in RL!Charged(buckets, msg[r].user, Channel) : buckets' = c.left
    BY <2>0, <2>2, <2>5 DEF TablesOK
  <2>6. CASE /\ \E c \in RL!Charged(buckets, msg[r].user, Channel) : buckets' = c.left
             /\ Unseen(r) /\ seen' \in RG!AfterInsertion(RG!Remembered(msg[r].nonce, msg[r].ts))
             /\ forwarded' = Append(forwarded, msg[r])
    BY <2>0, <2>2, <2>3, <2>4, <2>6 DEF TablesOK
  <2> QED BY <1>3, <2>1, <2>5, <2>6 DEF Check, Consumed
<1>4. CASE Flush \/ Sigterm
  BY <1>1, <1>4 DEF Flush, Sigterm, limitVars, workVars
<1>5. CASE Kill
  BY <1>5 DEF Kill, TablesOK
<1>6. CASE Prune
  <2>1. UNCHANGED <<forwarded, msg>>
    BY <1>6 DEF Prune, workVars
  <2>2. DOMAIN seen' \subseteq DOMAIN seen /\ DOMAIN buckets' \subseteq DOMAIN buckets
    BY <1>6, PrunedWithin, PrunedBucketKeys DEF Prune
  <2> QED BY <2>1, <2>2 DEF TablesOK
<1>7. CASE Environment
  BY <1>1, <1>7 DEF Environment, limitVars, workVars
<1>8. CASE UNCHANGED vars
  BY <1>1, <1>8 DEF vars, limitVars, workVars
<1> QED BY <1>2, <1>3, <1>4, <1>5, <1>6, <1>7, <1>8 DEF Next

\* What the counters and the log say, as an invariant: a request that was answered
\* is at its end, so that no request is counted or logged a second time.
Done == {r \in Requests : stage[r] = "done"}
Ended == {"done", "past"}

AccountsTypeOK ==
  /\ stage \in [Requests -> Stages]
  /\ answer \in [Requests -> Statuses \cup {"none"}]
  /\ total \in Nat /\ byStatus \in [Statuses -> Nat]
  /\ auditBuffer \in Seq(Requests \X Statuses) /\ auditFile \in Seq(Requests \X Statuses)
  /\ lost \subseteq Requests \X Statuses
  /\ stopping \in BOOLEAN /\ kills \in 0..MaxKills /\ failures \in 0..MaxFailures

EndedHaveAnswer == \A r \in Requests : stage[r] = "done" => answer[r] # "none"

AccountInv ==
  /\ AccountsTypeOK
  /\ IsFiniteSet(Done)
  /\ EndedHaveAnswer
  /\ \A r \in Requests : answer[r] # "none" => stage[r] \in Ended
  /\ \A e \in ToSet(Log) \cup lost : stage[e[1]] \in Ended
  /\ StatsAddUp
  /\ AuditComplete

\* The log grows by what is appended to its buffer, and keeps its entries when the
\* buffer is written.
LEMMA LogGrows ==
  ASSUME NEW A, NEW f \in Seq(A), NEW b \in Seq(A), NEW x \in A
  PROVE  f \o Append(b, x) = Append(f \o b, x)
  OBVIOUS

LEMMA LogOfFile ==
  ASSUME NEW A, NEW f \in Seq(A), NEW b \in Seq(A)
  PROVE  /\ (f \o b) \o <<>> = f \o b /\ f \o <<>> = f
         /\ f \o b \in Seq(A)
         /\ ToSet(f \o b) = ToSet(f) \cup ToSet(b)
         /\ IsInjective(f \o b) => IsInjective(f) /\ ToSet(f) \cap ToSet(b) = {}
<1>1. /\ f \o b \in Seq(A) /\ Len(f \o b) = Len(f) + Len(b) /\ Len(f) \in Nat /\ Len(b) \in Nat
      /\ DOMAIN f = 1..Len(f) /\ DOMAIN b = 1..Len(b) /\ DOMAIN (f \o b) = 1..(Len(f) + Len(b))
      /\ \A i \in 1..Len(f) : (f \o b)[i] = f[i]
      /\ \A i \in 1..Len(b) : (f \o b)[Len(f) + i] = b[i]
  OBVIOUS
<1>2. (f \o b) \o <<>> = f \o b /\ f \o <<>> = f
  OBVIOUS
<1>3. \A i \in DOMAIN f : i \in DOMAIN (f \o b) /\ (f \o b)[i] = f[i]
  BY <1>1
<1>4. ASSUME IsInjective(f \o b) PROVE IsInjective(f) /\ ToSet(f) \cap ToSet(b) = {}
  <2>1. IsInjective(f)
    BY <1>3, <1>4 DEF IsInjective
  <2>2. ASSUME NEW x \in ToSet(f), x \in ToSet(b) PROVE FALSE
    <3>1. PICK i \in 1..Len(f) : x = f[i]
      BY <1>1, <2>2 DEF ToSet
    <3>2. PICK j \in 1..Len(b) : x = b[j]
      BY <1>1, <2>2 DEF ToSet
    <3>3. i \in DOMAIN (f \o b) /\ Len(f) + j \in DOMAIN (f \o b) /\ i # Len(f) + j
      BY <1>1
    <3>4. (f \o b)[i] = (f \o b)[Len(f) + j]
      BY <1>1, <3>1, <3>2
    <3> QED BY <1>4, <3>3, <3>4 DEF IsInjective
  <2> QED BY <2>1, <2>2
<1>5. ToSet(f \o b) = ToSet(f) \cup ToSet(b)
  <2>1. \A i \in 1..Len(b) : Len(f) + i \in 1..(Len(f) + Len(b))
    BY <1>1
  <2>2. \A i \in 1..(Len(f) + Len(b)) : i \in 1..Len(f) \/ (i - Len(f) \in 1..Len(b) /\ i = Len(f) + (i - Len(f)))
    BY <1>1
  <2>3. ASSUME NEW x \in ToSet(f \o b) PROVE x \in ToSet(f) \cup ToSet(b)
    <3>1. PICK i \in 1..(Len(f) + Len(b)) : x = (f \o b)[i]
      BY <1>1 DEF ToSet
    <3> QED BY <1>1, <2>2, <3>1 DEF ToSet
  <2>4. ASSUME NEW x \in ToSet(f) PROVE x \in ToSet(f \o b)
    BY <1>3 DEF ToSet
  <2>5. ASSUME NEW x \in ToSet(b) PROVE x \in ToSet(f \o b)
    <3>1. PICK i \in 1..Len(b) : x = b[i]
      BY <1>1 DEF ToSet
    <3> QED BY <1>1, <2>1, <3>1 DEF ToSet
  <2> QED BY <2>3, <2>4, <2>5
<1> QED BY <1>1, <1>2, <1>4, <1>5

\* An answer is counted once.
LEMMA AnswerCounts ==
  ASSUME AccountInv, NEW r \in Requests, NEW status \in Statuses, stage[r] \notin Ended, Answer(r, status)
  PROVE  IsFiniteSet(Done') /\ StatsAddUp'
<1>1. /\ stage' = [stage EXCEPT ![r] = "done"] /\ answer' = [answer EXCEPT ![r] = status]
      /\ IF status \in CountedStatuses
         THEN total' = total + 1 /\ byStatus' = [byStatus EXCEPT ![status] = @ + 1]
         ELSE total' = total /\ byStatus' = byStatus
  BY DEF Answer, countVars
<1>2. stage \in [Requests -> Stages] /\ answer \in [Requests -> Statuses \cup {"none"}]
      /\ total \in Nat /\ byStatus \in [Statuses -> Nat] /\ IsFiniteSet(Done)
  BY DEF AccountInv, AccountsTypeOK
<1>3. r \notin Done
  BY DEF Done, Ended
<1>4. Done' = Done \cup {r}
  BY <1>1, <1>2 DEF Done
<1>5. IsFiniteSet(Done')
  BY <1>2, <1>4, FS_AddElement
<1>6. \A s : Answered(s)' = Answered(s) \cup (IF s = status THEN {r} ELSE {})
  BY <1>1, <1>2, <1>3 DEF Answered, Done
<1>7. \A s : Answered(s) \in SUBSET Done /\ IsFiniteSet(Answered(s)) /\ r \notin Answered(s)
  <2>1. \A s : Answered(s) \in SUBSET Done /\ r \notin Answered(s)
    BY <1>3 DEF Answered, Done
  <2> QED BY <1>2, <2>1, FS_Subset
<1>8. ASSUME NEW s \in Statuses \ {"cleared"} PROVE byStatus'[s] = Cardinality(Answered(s)')
  <2>1. byStatus[s] = Cardinality(Answered(s)) /\ byStatus[s] \in Nat
    BY <1>2, <1>8 DEF AccountInv, StatsAddUp
  <2>2. CASE s = status
    <3>1. Cardinality(Answered(s)') = Cardinality(Answered(s)) + 1
      BY <1>6, <1>7, <2>2, FS_AddElement
    <3>2. byStatus'[s] = byStatus[s] + 1
      BY <1>1, <1>2, <1>8, <2>2 DEF CountedStatuses
    <3> QED BY <2>1, <3>1, <3>2
  <2>3. CASE s # status
    <3>1. Answered(s)' = Answered(s)
      BY <1>6, <2>3
    <3>2. byStatus'[s] = byStatus[s]
      BY <1>1, <1>2, <1>8, <2>3
    <3> QED BY <2>1, <3>1, <3>2
  <2> QED BY <2>2, <2>3
<1>9. total' = Cardinality(Done' \ Answered("cleared")')
  <2>1. total = Cardinality(Done \ Answered("cleared"))
    BY DEF AccountInv, StatsAddUp, Done
  <2>2. IsFiniteSet(Done \ Answered("cleared")) /\ r \notin Done \ Answered("cleared")
    BY <1>2, <1>3, FS_Difference
  <2>3. CASE status = "cleared"
    <3>1. Done' \ Answered("cleared")' = Done \ Answered("cleared")
      BY <1>3, <1>4, <1>6, <1>7, <2>3
    <3> QED BY <1>1, <2>1, <2>3, <3>1 DEF CountedStatuses
  <2>4. CASE status # "cleared"
    <3>1. Done' \ Answered("cleared")' = (Done \ Answered("cleared")) \cup {r}
      BY <1>3, <1>4, <1>6, <1>7, <2>4
    <3>2. Cardinality(Done' \ Answered("cleared")') = Cardinality(Done \ Answered("cleared")) + 1
      BY <2>2, <3>1, FS_AddElement
    <3> QED BY <1>1, <2>1, <2>4, <3>2 DEF CountedStatuses
  <2> QED BY <2>3, <2>4
<1>10. StatsAddUp'
  BY <1>8, <1>9 DEF StatsAddUp, Done
<1> QED BY <1>5, <1>10

\* And it is in the log once, or it is lost with a write that failed.
LEMMA AnswerLogged ==
  ASSUME AccountInv, NEW r \in Requests, NEW status \in Statuses, stage[r] \notin Ended, Answer(r, status)
  PROVE  AccountInv'
<1>1. /\ stage' = [stage EXCEPT ![r] = "done"] /\ answer' = [answer EXCEPT ![r] = status]
      /\ auditFile' = auditFile /\ stopping' = stopping /\ kills' = kills
  BY DEF Answer, Audit, lifeVars, auditVars
<1>2. AccountsTypeOK /\ AuditComplete /\ EndedHaveAnswer /\ StatsAddUp
      /\ (\A q \in Requests : answer[q] # "none" => stage[q] \in Ended)
      /\ (\A e \in ToSet(Log) \cup lost : stage[e[1]] \in Ended)
  BY DEF AccountInv
<1>3. total' \in Nat /\ byStatus' \in [Statuses -> Nat]
  <2>1. \/ total' = total + 1 /\ byStatus' = [byStatus EXCEPT ![status] = @ + 1]
        \/ total' = total /\ byStatus' = byStatus
    BY DEF Answer, countVars
  <2>2. total \in Nat /\ byStatus \in [Statuses -> Nat]
    BY <1>2 DEF AccountsTypeOK
  <2> QED BY <2>1, <2>2
<1>4. \A q \in Requests : (stage[q] \in Ended => stage'[q] \in Ended) /\ (q # r => answer'[q] = answer[q] /\ stage'[q] = stage[q])
  BY <1>1, <1>2 DEF AccountsTypeOK, Ended
<1>5. answer'[r] = status /\ stage'[r] = "done" /\ status # "none"
  BY <1>1, <1>2 DEF AccountsTypeOK, Statuses, Refusals, Outcomes
<1>6. EndedHaveAnswer' /\ \A q \in Requests : answer'[q] # "none" => stage'[q] \in Ended
  BY <1>2, <1>4, <1>5 DEF EndedHaveAnswer, Ended
<1>7. Log \in Seq(Requests \X Statuses) /\ lost \subseteq Requests \X Statuses
  BY <1>2, LogOfFile DEF Log, AccountsTypeOK
<1>8. \A e \in ToSet(Log) \cup lost : e[1] \in Requests /\ e[1] # r /\ e \in Requests \X Statuses
  <2>1. ToSet(Log) \subseteq Requests \X Statuses
    BY <1>7 DEF ToSet
  <2> QED BY <1>2, <1>7, <2>1
<1>9. <<r, status>> \notin ToSet(Log) \cup lost
  BY <1>8
<1>10. (\A e \in ToSet(Log) \cup lost : stage'[e[1]] \in Ended) /\ \A e \in ToSet(Log) : answer'[e[1]] = e[2]
  BY <1>2, <1>4, <1>8 DEF AuditComplete
<1>11. stage' \in [Requests -> Stages] /\ answer' \in [Requests -> Statuses \cup {"none"}]
  BY <1>1, <1>2 DEF AccountsTypeOK, Stages
<1>12. IsInjective(Log) /\ ToSet(Log) \cap lost = {} /\ (kills + failures = 0 => lost = {})
       /\ \A q \in Requests : answer[q] \in Outcomes \cup {"rate_limited"} => <<q, answer[q]>> \in ToSet(Log) \cup lost
  BY <1>2 DEF AuditComplete
<1>13. ToSet(Log') = ToSet(Log)'
  BY DEF ToSet, Log
<1>14. CASE status \in Audited /\ auditBuffer' = Append(auditBuffer, <<r, status>>) /\ lost' = lost /\ failures' = failures
  <2>1. Log' = Append(Log, <<r, status>>)
    <3>1. <<r, status>> \in Requests \X Statuses
      OBVIOUS
    <3>2. auditFile \o Append(auditBuffer, <<r, status>>) = Append(auditFile \o auditBuffer, <<r, status>>)
      BY <1>2, <3>1, LogGrows DEF AccountsTypeOK
    <3>3. Log' = auditFile' \o auditBuffer'
      BY DEF Log
    <3> QED BY <1>1, <1>14, <3>2, <3>3 DEF Log
  <2>2. ToSet(Log)' = ToSet(Log) \cup {<<r, status>>} /\ IsInjective(Log')
    BY <1>7, <1>9, <1>12, <1>13, <2>1, AppendedElements
  <2>3. AccountsTypeOK'
    <3>1. auditBuffer' \in Seq(Requests \X Statuses)
      BY <1>2, <1>14 DEF AccountsTypeOK
    <3> QED BY <1>1, <1>2, <1>3, <1>11, <1>14, <3>1 DEF AccountsTypeOK
  <2>4. AuditComplete'
    <3>1. ASSUME NEW q \in Requests, answer'[q] \in Outcomes \cup {"rate_limited"}
          PROVE  <<q, answer'[q]>> \in ToSet(Log)' \cup lost'
      BY <1>4, <1>5, <1>12, <1>14, <2>2, <3>1
    <3>2. \A e \in ToSet(Log)' : answer'[e[1]] = e[2]
      BY <1>5, <1>10, <2>2
    <3>3. ToSet(Log)' \cap lost' = {} /\ (kills' + failures' = 0 => lost' = {})
      BY <1>1, <1>9, <1>12, <1>14, <2>2
    <3> QED BY <2>2, <3>1, <3>2, <3>3 DEF AuditComplete
  <2>5. \A e \in ToSet(Log)' \cup lost' : stage'[e[1]] \in Ended
    BY <1>5, <1>10, <1>14, <2>2 DEF Ended
  <2> QED BY <1>6, <2>3, <2>4, <2>5, AnswerCounts DEF AccountInv
<1>15. CASE status \in Audited /\ LogFails /\ lost' = lost \cup {<<r, status>>} /\ auditBuffer' = auditBuffer
  <2>0. /\ failures \in 0..MaxFailures /\ MaxFailures \in Nat /\ failures < MaxFailures /\ failures' = failures + 1
        /\ kills \in 0..MaxKills /\ MaxKills \in Nat
    BY <1>2, <1>15, InboundAssumption DEF LogFails, AccountsTypeOK
  <2>1. Log' = Log /\ ToSet(Log)' = ToSet(Log)
    BY <1>1, <1>13, <1>15 DEF Log
  <2>2. AccountsTypeOK'
    <3>1. failures' \in 0..MaxFailures
      BY <2>0
    <3>2. lost' \subseteq Requests \X Statuses
      BY <1>7, <1>15
    <3> QED BY <1>1, <1>2, <1>3, <1>11, <1>15, <3>1, <3>2 DEF AccountsTypeOK
  <2>3. AuditComplete'
    <3>1. ASSUME NEW q \in Requests, answer'[q] \in Outcomes \cup {"rate_limited"}
          PROVE  <<q, answer'[q]>> \in ToSet(Log)' \cup lost'
      BY <1>4, <1>5, <1>12, <1>15, <2>1, <3>1
    <3>2. kills' + failures' # 0
      BY <1>1, <2>0
    <3>3. ToSet(Log)' \cap lost' = {}
      BY <1>9, <1>12, <1>15, <2>1
    <3>4. IsInjective(Log')
      BY <1>12, <2>1
    <3>5. \A e \in ToSet(Log)' : answer'[e[1]] = e[2]
      BY <1>10, <2>1
    <3> QED BY <3>1, <3>2, <3>3, <3>4, <3>5 DEF AuditComplete
  <2>4. \A e \in ToSet(Log)' \cup lost' : stage'[e[1]] \in Ended
    BY <1>5, <1>10, <1>15, <2>1 DEF Ended
  <2> QED BY <1>6, <2>2, <2>3, <2>4, AnswerCounts DEF AccountInv
<1>16. CASE status \notin Audited /\ auditBuffer' = auditBuffer /\ lost' = lost /\ failures' = failures
  <2>1. Log' = Log /\ ToSet(Log)' = ToSet(Log)
    BY <1>1, <1>13, <1>16 DEF Log
  <2>2. AccountsTypeOK'
    BY <1>1, <1>2, <1>3, <1>11, <1>16 DEF AccountsTypeOK
  <2>3. AuditComplete'
    <3>1. ASSUME NEW q \in Requests, answer'[q] \in Outcomes \cup {"rate_limited"}
          PROVE  <<q, answer'[q]>> \in ToSet(Log)' \cup lost'
      BY <1>4, <1>5, <1>12, <1>16, <2>1, <3>1 DEF Audited, Outcomes
    <3>2. \A e \in ToSet(Log)' : answer'[e[1]] = e[2]
      BY <1>10, <2>1
    <3> QED BY <1>1, <1>12, <1>16, <2>1, <3>1, <3>2 DEF AuditComplete
  <2> QED BY <1>6, <1>10, <1>16, <2>1, <2>2, <2>3, AnswerCounts DEF AccountInv
<1> QED BY <1>14, <1>15, <1>16 DEF Answer, Audit, auditVars

\* A request that goes from one stage before its answer to another one.
LEMMA MovesOn ==
  ASSUME AccountInv, NEW r \in Requests, stage[r] \notin Ended,
         NEW s \in {"checking", "working"}, stage' = [stage EXCEPT ![r] = s],
         UNCHANGED <<answer, countVars, auditVars, lifeVars>>
  PROVE  AccountInv'
<1>1. UNCHANGED <<answer, total, byStatus, auditBuffer, auditFile, lost, failures, stopping, kills>> /\ Log' = Log
  BY DEF countVars, auditVars, lifeVars, Log
<1>2. AccountsTypeOK
  BY DEF AccountInv
<1>3. \A q \in Requests : (stage'[q] \in Ended <=> stage[q] \in Ended) /\ (stage'[q] = "done" <=> stage[q] = "done")
  BY <1>2 DEF AccountsTypeOK, Ended
<1>4. AccountsTypeOK'
  BY <1>1, <1>2 DEF AccountsTypeOK, Stages
<1>5. Done' = Done /\ (\A x : Answered(x)' = Answered(x))
  BY <1>1, <1>3 DEF Done, Answered
<1>6. StatsAddUp' /\ AuditComplete'
  BY <1>1, <1>5 DEF AccountInv, StatsAddUp, AuditComplete, Done
<1>7. ToSet(Log)' \cup lost' = ToSet(Log) \cup lost /\ \A e \in ToSet(Log) \cup lost : e[1] \in Requests
  <2>1. Log \in Seq(Requests \X Statuses) /\ lost \subseteq Requests \X Statuses
    BY <1>2, LogOfFile DEF Log, AccountsTypeOK
  <2> QED BY <1>1, <2>1 DEF ToSet
<1> QED BY <1>1, <1>3, <1>4, <1>5, <1>6, <1>7 DEF AccountInv, EndedHaveAnswer

\* The buffer is written: the log stays.
LEMMA FlushKeeps ==
  ASSUME AccountInv, Flushed, UNCHANGED <<stage, answer, countVars, lost, failures, kills>>, stopping' \in BOOLEAN
  PROVE  AccountInv'
<1>1. /\ auditFile' = auditFile \o auditBuffer /\ auditBuffer' = <<>>
      /\ UNCHANGED <<stage, answer, total, byStatus, lost, failures, kills>>
  BY DEF Flushed, countVars
<1>2. AccountsTypeOK
  BY DEF AccountInv
<1>3. Log' = Log /\ Log \in Seq(Requests \X Statuses)
  BY <1>1, <1>2, LogOfFile DEF Log, AccountsTypeOK
<1>4. AccountsTypeOK'
  <2>1. auditBuffer' \in Seq(Requests \X Statuses)
    BY <1>1
  <2>2. auditFile' \in Seq(Requests \X Statuses)
    BY <1>1, <1>3 DEF Log
  <2> QED BY <1>1, <1>2, <2>1, <2>2 DEF AccountsTypeOK
<1>5. Done' = Done /\ (\A x : Answered(x)' = Answered(x))
  BY <1>1 DEF Done, Answered
<1>6. StatsAddUp'
  BY <1>1, <1>5 DEF AccountInv, StatsAddUp, Done
<1>7. ToSet(Log)' = ToSet(Log)
  BY <1>3 DEF ToSet
<1>8. AuditComplete'
  BY <1>1, <1>3, <1>7 DEF AccountInv, AuditComplete
<1> QED BY <1>1, <1>4, <1>5, <1>6, <1>7, <1>8 DEF AccountInv, EndedHaveAnswer

\* What takes the buffer and leaves the file, and is noted as a kill or as a failure,
\* takes from the log what it adds to the lost events.
LEMMA BufferLost ==
  ASSUME AccountInv, auditBuffer' = <<>>, lost' = lost \cup ToSet(auditBuffer),
         UNCHANGED <<answer, auditFile>>, kills' + failures' # 0,
         \A r \in Requests : stage[r] \in Ended => stage'[r] \in Ended
  PROVE  /\ AuditComplete'
         /\ auditBuffer' \in Seq(Requests \X Statuses) /\ lost' \subseteq Requests \X Statuses
         /\ \A e \in ToSet(Log)' \cup lost' : stage'[e[1]] \in Ended
<1>1. AccountsTypeOK /\ AuditComplete
  BY DEF AccountInv
<1>2. Log' = auditFile /\ Log \in Seq(Requests \X Statuses)
  BY <1>1, LogOfFile DEF Log, AccountsTypeOK
<1>3. ToSet(Log)' = ToSet(auditFile)
  BY <1>2 DEF ToSet, Log
<1>4. ToSet(Log) = ToSet(auditFile) \cup ToSet(auditBuffer)
  BY <1>1, LogOfFile DEF Log, AccountsTypeOK
<1>5. IsInjective(Log') /\ ToSet(auditFile) \cap ToSet(auditBuffer) = {}
  BY <1>1, <1>2, LogOfFile DEF AuditComplete, Log, AccountsTypeOK
<1>6. ToSet(auditBuffer) \subseteq Requests \X Statuses /\ lost \subseteq Requests \X Statuses
      /\ ToSet(auditFile) \subseteq Requests \X Statuses
  BY <1>1 DEF AccountsTypeOK, ToSet
<1>7. AuditComplete'
  <2>1. ASSUME NEW r \in Requests, answer'[r] \in Outcomes \cup {"rate_limited"}
        PROVE  <<r, answer'[r]>> \in ToSet(Log)' \cup lost'
    <3>1. <<r, answer[r]>> \in ToSet(Log) \cup lost
      BY <1>1, <2>1 DEF AuditComplete
    <3> QED BY <1>3, <1>4, <3>1
  <2>2. \A e \in ToSet(Log)' : answer'[e[1]] = e[2]
    BY <1>1, <1>3, <1>4 DEF AuditComplete
  <2>3. ToSet(Log)' \cap lost' = {}
    BY <1>1, <1>3, <1>4, <1>5 DEF AuditComplete
  <2> QED BY <1>5, <2>1, <2>2, <2>3 DEF AuditComplete
<1>8. auditBuffer' \in Seq(Requests \X Statuses) /\ lost' \subseteq Requests \X Statuses
  BY <1>6
<1>9. \A e \in ToSet(Log)' \cup lost' : stage'[e[1]] \in Ended
  <2>1. ToSet(Log)' \cup lost' = ToSet(Log) \cup lost
    BY <1>3, <1>4
  <2>2. \A e \in ToSet(Log) \cup lost : e[1] \in Requests /\ stage[e[1]] \in Ended
    BY <1>4, <1>6 DEF AccountInv
  <2> QED BY <2>1, <2>2
<1> QED BY <1>7, <1>8, <1>9

\* The flush fails, and the writer keeps its buffer or loses it.
LEMMA FailedFlushKeeps ==
  ASSUME AccountInv, FlushFails, UNCHANGED <<stage, answer, countVars, kills>>, stopping' \in BOOLEAN
  PROVE  AccountInv'
<1>1. AccountsTypeOK
  BY DEF AccountInv
<1>2. /\ failures' \in 0..MaxFailures /\ kills' + failures' # 0
      /\ UNCHANGED <<stage, answer, total, byStatus, auditFile, kills>>
  <2>1. /\ failures \in 0..MaxFailures /\ MaxFailures \in Nat /\ failures < MaxFailures /\ failures' = failures + 1
        /\ kills \in 0..MaxKills /\ MaxKills \in Nat /\ kills' = kills
    BY <1>1, InboundAssumption DEF FlushFails, LogFails, AccountsTypeOK
  <2> QED BY <2>1 DEF FlushFails, countVars
<1>3. Done' = Done /\ (\A x : Answered(x)' = Answered(x))
  BY <1>2 DEF Done, Answered
<1>4. StatsAddUp'
  BY <1>2, <1>3 DEF AccountInv, StatsAddUp, Done
<1>5. CASE auditBuffer' = auditBuffer /\ lost' = lost
  <2>1. Log' = Log /\ ToSet(Log)' = ToSet(Log)
    BY <1>2, <1>5 DEF Log, ToSet
  <2>2. AuditComplete'
    BY <1>2, <1>5, <2>1 DEF AccountInv, AuditComplete
  <2>3. AccountsTypeOK'
    BY <1>1, <1>2, <1>5 DEF AccountsTypeOK
  <2> QED BY <1>2, <1>3, <1>4, <1>5, <2>1, <2>2, <2>3 DEF AccountInv, EndedHaveAnswer
<1>6. CASE lost' = lost \cup ToSet(auditBuffer) /\ auditBuffer' = <<>>
  <2>1. /\ AuditComplete'
        /\ auditBuffer' \in Seq(Requests \X Statuses) /\ lost' \subseteq Requests \X Statuses
        /\ \A e \in ToSet(Log)' \cup lost' : stage'[e[1]] \in Ended
    BY <1>2, <1>6, BufferLost
  <2>2. AccountsTypeOK'
    BY <1>1, <1>2, <2>1 DEF AccountsTypeOK
  <2> QED BY <1>2, <1>3, <1>4, <2>1, <2>2 DEF AccountInv, EndedHaveAnswer
<1> QED BY <1>5, <1>6 DEF FlushFails

\* A kill takes the counters, the requests and the buffer, and nothing else.
LEMMA KilledKeeps ==
  ASSUME AccountInv, Kill
  PROVE  AccountInv'
<1>1. /\ kills < MaxKills /\ kills' = kills + 1 /\ stopping' = FALSE
      /\ stage' = [r \in Requests |-> AfterKill(r)]
      /\ total' = 0 /\ byStatus' = NoCounts
      /\ lost' = lost \cup ToSet(auditBuffer) /\ auditBuffer' = <<>>
      /\ answer' = answer /\ auditFile' = auditFile /\ failures' = failures
  BY DEF Kill, Recounted
<1>2. AccountsTypeOK
  BY DEF AccountInv
<1>3. kills' \in 0..MaxKills /\ kills' + failures' # 0
  <2>1. kills \in 0..MaxKills /\ MaxKills \in Nat /\ failures \in Nat
    BY <1>2, InboundAssumption DEF AccountsTypeOK
  <2> QED BY <1>1, <2>1
<1>4. \A r \in Requests : /\ stage'[r] \in {"new", "past"}
                          /\ stage[r] \in Ended => stage'[r] \in Ended
  BY <1>1 DEF AfterKill, Ended
<1>8. /\ AuditComplete'
      /\ auditBuffer' \in Seq(Requests \X Statuses) /\ lost' \subseteq Requests \X Statuses
      /\ \A e \in ToSet(Log)' \cup lost' : stage'[e[1]] \in Ended
  BY <1>1, <1>3, <1>4, BufferLost
<1>5. AccountsTypeOK'
  <2>3. byStatus' \in [Statuses -> Nat] /\ total' \in Nat
    BY <1>1 DEF NoCounts
  <2>4. stage' \in [Requests -> Stages]
    BY <1>1 DEF AfterKill, Stages
  <2> QED BY <1>1, <1>2, <1>3, <1>8, <2>3, <2>4 DEF AccountsTypeOK
<1>6. Done' = {} /\ (\A x : Answered(x)' = {})
  BY <1>4 DEF Done, Answered
<1>7. IsFiniteSet(Done') /\ StatsAddUp'
  <2>1. IsFiniteSet({}) /\ Cardinality({}) = 0
    BY FS_EmptySet
  <2>2. \A s \in Statuses \ {"cleared"} : byStatus'[s] = Cardinality(Answered(s)')
    BY <1>1, <1>6, <2>1 DEF NoCounts
  <2>3. Done' \ Answered("cleared")' = {}
    BY <1>6
  <2>4. total' = Cardinality(Done' \ Answered("cleared")')
    BY <1>1, <2>1, <2>3
  <2> QED BY <1>6, <2>1, <2>2, <2>4 DEF StatsAddUp, Done
<1>10. EndedHaveAnswer' /\ \A r \in Requests : answer'[r] # "none" => stage'[r] \in Ended
  BY <1>1, <1>4 DEF AccountInv, EndedHaveAnswer
<1> QED BY <1>5, <1>7, <1>8, <1>10 DEF AccountInv

\* What touches neither requests, counters nor log.
LEMMA AccountsRest ==
  ASSUME AccountInv, UNCHANGED <<stage, answer, countVars, auditVars, lifeVars>>
  PROVE  AccountInv'
<1>1. UNCHANGED <<stage, answer, total, byStatus, auditBuffer, auditFile, lost, failures, stopping, kills>> /\ Log' = Log
  BY DEF countVars, auditVars, lifeVars, Log
<1>2. Done' = Done /\ (\A x : Answered(x)' = Answered(x))
  BY <1>1 DEF Done, Answered
<1>3. AccountsTypeOK' /\ StatsAddUp' /\ AuditComplete'
  BY <1>1, <1>2 DEF AccountInv, AccountsTypeOK, StatsAddUp, AuditComplete, Done
<1> QED BY <1>1, <1>2, <1>3 DEF AccountInv, EndedHaveAnswer

\* Every step keeps the accounts.
LEMMA AccountStep == AccountInv /\ [Next]_vars => AccountInv'
<1> SUFFICES ASSUME AccountInv, [Next]_vars PROVE AccountInv'
  OBVIOUS
<1>1. {"invalid_payload", "invalid_signature", "rate_limited", "replay_detected",
       "ok", "cleared", "assistant_unavailable"} \subseteq Statuses
  BY DEF Statuses, Refusals, Outcomes
<1>2. {"new", "checking", "working"} \cap Ended = {}
  BY DEF Ended
<1>3. ASSUME NEW r \in Requests, Malformed(r) PROVE AccountInv'
  BY <1>1, <1>2, <1>3, AnswerLogged DEF Malformed
<1>4. ASSUME NEW r \in Requests, AskSecrets(r) PROVE AccountInv'
  BY <1>2, <1>4, MovesOn DEF AskSecrets
<1>5. ASSUME NEW r \in Requests, Check(r) PROVE AccountInv'
  <2>1. stage[r] \notin Ended
    BY <1>5 DEF Check, Ended
  <2>2. CASE Answer(r, "invalid_signature") \/ Answer(r, "rate_limited") \/ Answer(r, "replay_detected")
    BY <1>1, <2>1, <2>2, AnswerLogged
  <2>3. CASE stage' = [stage EXCEPT ![r] = "working"] /\ UNCHANGED <<answer, countVars, auditVars, lifeVars>>
    BY <2>1, <2>3, MovesOn
  <2> QED BY <1>5, <2>2, <2>3 DEF Check
<1>6. ASSUME NEW r \in Requests, Finish(r) PROVE AccountInv'
  BY <1>1, <1>2, <1>6, AnswerLogged DEF Finish
<1>7. CASE Flush \/ Sigterm
  <2>1. stopping' \in BOOLEAN /\ UNCHANGED <<stage, answer, countVars, kills>> /\ flushAuditBuffer
    BY <1>7 DEF Flush, Sigterm, workVars, lifeVars, AccountInv, AccountsTypeOK
  <2> QED BY <2>1, FlushKeeps, FailedFlushKeeps DEF flushAuditBuffer
<1>9. CASE Kill
  BY <1>9, KilledKeeps
<1>10. CASE Prune \/ Environment \/ UNCHANGED vars
  <2>1. UNCHANGED <<stage, answer, countVars, auditVars, lifeVars>>
    BY <1>10 DEF Prune, Environment, vars, workVars
  <2> QED BY <2>1, AccountsRest
<1> QED BY <1>3, <1>4, <1>5, <1>6, <1>7, <1>9, <1>10 DEF Next

LEMMA AccountsInitially == Init => AccountInv /\ TablesOK
<1> SUFFICES ASSUME Init PROVE AccountInv /\ TablesOK
  OBVIOUS
<1>1. /\ stage = [r \in Requests |-> "new"] /\ answer = [r \in Requests |-> "none"]
      /\ total = 0 /\ byStatus = NoCounts /\ auditBuffer = <<>> /\ auditFile = <<>> /\ lost = {}
      /\ stopping = FALSE /\ kills = 0 /\ failures = 0
  BY DEF Init
<1>2. Log = <<>> /\ ToSet(Log) = {}
  BY <1>1 DEF Log, ToSet
<1>3. AccountsTypeOK
  <2>1. kills \in 0..MaxKills /\ failures \in 0..MaxFailures
    BY <1>1, InboundAssumption
  <2>2. auditBuffer \in Seq(Requests \X Statuses) /\ auditFile \in Seq(Requests \X Statuses)
    BY <1>1
  <2>3. total \in Nat /\ byStatus \in [Statuses -> Nat]
    BY <1>1 DEF NoCounts
  <2>4. stage \in [Requests -> Stages] /\ answer \in [Requests -> Statuses \cup {"none"}]
    BY <1>1 DEF Stages
  <2> QED BY <1>1, <2>1, <2>2, <2>3, <2>4 DEF AccountsTypeOK
<1>4. Done = {} /\ (\A x : Answered(x) = {})
  BY <1>1 DEF Done, Answered
<1>5. IsFiniteSet({}) /\ Cardinality({}) = 0
  BY FS_EmptySet
<1>6. StatsAddUp
  <2>1. \A s \in Statuses \ {"cleared"} : byStatus[s] = Cardinality(Answered(s))
    BY <1>1, <1>4, <1>5 DEF NoCounts
  <2>2. Done \ Answered("cleared") = {}
    BY <1>4
  <2> QED BY <1>1, <1>5, <2>1, <2>2 DEF StatsAddUp, Done
<1>7. AuditComplete
  <2>1. IsInjective(Log)
    BY <1>2 DEF IsInjective
  <2>2. \A r \in Requests : answer[r] \notin Outcomes \cup {"rate_limited"}
    BY <1>1 DEF Outcomes
  <2> QED BY <1>1, <1>2, <2>1, <2>2 DEF AuditComplete
<1>8. AccountInv
  BY <1>1, <1>2, <1>3, <1>4, <1>5, <1>6, <1>7 DEF AccountInv, EndedHaveAnswer
<1>9. TablesOK
  BY DEF Init, TablesOK
<1> QED BY <1>8, <1>9

\* Whatever way a request ends, the counters of this life count it once and the
\* log has it once and as it was told; or it is lost, and not without a kill, a
\* write or a flush that failed.
THEOREM AnswersAccounted == Spec => []Accounted
<1>1. InboundInv /\ TablesOK /\ AccountInv => Accounted
  BY DEF InboundInv, SecretsInv, TablesOK, AccountInv, AccountsTypeOK, EndedHaveAnswer, Accounted, TypeOK
<1> QED BY <1>1, InboundInitially, InboundStep, AccountsInitially, TablesStep, AccountStep, PTL DEF Spec
=============================================================================
